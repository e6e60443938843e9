----------------------------- MODULE ToolConsentMC -----------------------------
(* Instances of ToolConsent: two calls that share a grant key; the first has *)
(* a path outside the allowed directories.                                   *)
EXTENDS ToolConsent

CONSTANTS c1, c2, k, exec, d

AllCalls    == {c1, c2}
OneKey      == {k}
OneTool     == {exec}
ToolsOf     == [c \in AllCalls |-> exec]
KeysOf      == [c \in AllCalls |-> k]
DirsOf      == [c \in AllCalls |-> IF c = c1 THEN d ELSE NoDir]
OnDemand    == [t \in OneTool |-> "OnDemand"]
AnyResolved == [c \in AllCalls |-> IF c = c1 THEN "OnDemand" ELSE Unset]
OnePatch    == {[mode |-> "AutoRun", tool_overrides |-> [t \in OneTool |-> "Auto"]]}
=============================================================================
