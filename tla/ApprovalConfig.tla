---------------------------- MODULE ApprovalConfig ----------------------------
(***************************************************************************)
(* The user's approval configuration and its three copies: the live one    *)
(* that the approval gate reads (InfraApi), the section of the web         *)
(* server's configuration (AppState.config), and config.toml.              *)
(*                                                                         *)
(* An HTTP request that changes it reads a copy, works on it and writes it *)
(* back, and no lock is held from the first to the last: a request is a    *)
(* sequence of actions, between which others act.  config.toml is          *)
(* truncated before it is filled, and the daemon may stop at any point.    *)
(***************************************************************************)
EXTENDS Naturals

CONSTANTS
  Requests,     \* HTTP requests, numbered as they come, each made once (bound)
  Keys,         \* grant keys, as "exec:curl"
  Tools,        \* tool names
  Patches,      \* what a request may set: records of some of the fields
  Others,       \* what a PUT may make of the rest of the configuration
  DefaultOther  \* its default

ASSUME ConfigAssumption == Requests \subseteq Nat

Unset    == "Unset"
Policies == {"Auto", "OnDemand", "Always"}
Modes    == {"Manual", "AllowList", "AutoRun"}

\* a patch has some of the fields of a configuration
ASSUME PatchAssumption == \A p \in Patches :
  /\ "mode" \in DOMAIN p => p["mode"] \in Modes
  /\ "allow_list" \in DOMAIN p => p["allow_list"] \in SUBSET Keys
  /\ "tool_overrides" \in DOMAIN p => p["tool_overrides"] \in [Tools -> Policies \cup {Unset}]

NoPatch  == [f \in {} |-> Unset]
NoChange == [kind |-> "none"]

ApprovalConfigs ==
  [mode : Modes, allow_list : SUBSET Keys, tool_overrides : [Tools -> Policies \cup {Unset}]]

DefaultApproval ==
  [mode |-> "Manual", allow_list |-> {}, tool_overrides |-> [t \in Tools |-> Unset]]

Files   == [approval : ApprovalConfigs, other : Others \cup {DefaultOther}]
Default == [approval |-> DefaultApproval, other |-> DefaultOther]

Changes ==
       [kind : {"add_grant", "remove_grant"}, key : Keys]
  \cup [kind : {"patch"}, to : Patches]
  \cup [kind : {"put"}, to : Patches \cup {NoPatch}, other : Others]

VARIABLES
  live,      \* the copy the gate reads
  shadow,    \* AppState.config
  disk,      \* config.toml: the one text that was written to it; none from its
             \* truncation to the write; two that were laid over each other
  stage,     \* how far a request has come
  change,    \* what it asks for
  text,      \* what it has worked out and is going to write
  promised,  \* the configuration after the requests answered, while undisturbed
             \* (history)
  disturbed  \* since the daemon started two requests overlapped, a write
             \* failed, a client went away during one, or a PUT changed the
             \* approval section (history)

copies     == <<live, shadow, disk>>
configVars == <<copies, stage, change, text, promised, disturbed>>

ConfigTypeOK ==
  /\ live \in ApprovalConfigs
  /\ shadow \in Files
  /\ disk \subseteq Files
  /\ stage \in [Requests -> {"new", "read", "set", "render", "merge", "open", "fill",
                             "sync", "allow", "saved", "done"}]
  /\ change \in [Requests -> Changes \cup {NoChange}]
  /\ text \in [Requests -> Files]
  /\ promised \in Files
  /\ disturbed \in BOOLEAN

ConfigInit ==
  /\ live = DefaultApproval
  /\ shadow = Default
  /\ disk = {Default}
  /\ stage = [r \in Requests |-> "new"]
  /\ change = [r \in Requests |-> NoChange]
  /\ text = [r \in Requests |-> Default]
  /\ promised = Default
  /\ disturbed = FALSE

-----------------------------------------------------------------------------
(* What a change makes of a configuration *)

\* apply_patch: a field that is given replaces the old one
Patched(p, c) == [f \in DOMAIN c |-> IF f \in DOMAIN p THEN p[f] ELSE c[f]]

\* deep_merge_json: of an object only the members that are given
DeepMerged(p, c) ==
  [Patched(p, c) EXCEPT !.tool_overrides =
     [t \in Tools |-> IF "tool_overrides" \in DOMAIN p /\ p.tool_overrides[t] # Unset
                      THEN p.tool_overrides[t] ELSE c.tool_overrides[t]]]

Applied(ch, c) ==
  CASE ch.kind = "add_grant"    -> [c EXCEPT !.allow_list = @ \cup {ch.key}]
    [] ch.kind = "remove_grant" -> [c EXCEPT !.allow_list = @ \ {ch.key}]
    [] ch.kind = "patch"        -> Patched(ch.to, c)
    [] ch.kind = "put"          -> DeepMerged(ch.to, c)

FileWith(ch, f) ==
  [approval |-> Applied(ch, f.approval),
   other    |-> IF ch.kind = "put" THEN ch.other ELSE f.other]

\* load_config of what is on the disk: an empty file is the default
Readable == \A f, g \in disk : f = g
Loaded   == IF disk = {} THEN Default ELSE CHOOSE f \in disk : TRUE

-----------------------------------------------------------------------------
(* A request *)

\* requests that are changing the configuration
Busy == {r \in Requests : stage[r] \notin {"new", "done"} /\ change[r] # NoChange}

\* a request is over, and what it held is gone
Gone(r) ==
  /\ stage' = [stage EXCEPT ![r] = "done"]
  /\ change' = [change EXCEPT ![r] = NoChange]
  /\ text' = [text EXCEPT ![r] = Default]

\* the next request that comes
Comes(r) == stage[r] = "new" /\ \A q \in Requests : stage[q] = "new" => r <= q

Begin(r, ch) ==
  /\ Comes(r)
  /\ change' = [change EXCEPT ![r] = ch]
  /\ stage' = [stage EXCEPT ![r] = IF ch.kind = "put" THEN "merge" ELSE "read"]
  /\ disturbed' = (disturbed \/ Busy # {} \/ (ch.kind = "put" /\ ch.to # NoPatch))
  /\ UNCHANGED <<copies, text, promised>>

\* the grant endpoints, PATCH of the approval configuration, PUT and PATCH of
\* the whole
Ask(r) == \E ch \in Changes : Begin(r, ch)

\* approval_config(): a clone, the lock is released
ReadLive(r) ==
  /\ stage[r] = "read"
  /\ stage' = [stage EXCEPT ![r] = "set"]
  /\ text' = [text EXCEPT ![r].approval = Applied(change[r], live)]
  /\ UNCHANGED <<copies, change, promised, disturbed>>

\* set_approval_config
SetLive(r) ==
  /\ stage[r] = "set"
  /\ stage' = [stage EXCEPT ![r] = "render"]
  /\ live' = text[r].approval
  /\ UNCHANGED <<shadow, disk, change, text, promised, disturbed>>

\* Mutant of Render: the section is not replaced
RenderUnchanged(r) ==
  /\ stage[r] = "render"
  /\ stage' = [stage EXCEPT ![r] = "open"]
  /\ text' = [text EXCEPT ![r] = shadow]
  /\ UNCHANGED <<copies, change, promised, disturbed>>

\* persist_approval_config: the server's copy with the section replaced
Render(r) ==
  /\ stage[r] = "render"
  /\ stage' = [stage EXCEPT ![r] = "open"]
  /\ text' = [text EXCEPT ![r] = [shadow EXCEPT !.approval = text[r].approval]]
  /\ UNCHANGED <<copies, change, promised, disturbed>>

\* handle_config_put and handle_config_patch: the server's copy, merged
Merge(r) ==
  /\ stage[r] = "merge"
  /\ stage' = [stage EXCEPT ![r] = "open"]
  /\ text' = [text EXCEPT ![r] = FileWith(change[r], shadow)]
  /\ UNCHANGED <<copies, change, promised, disturbed>>

\* tokio::fs::write opens the file, which empties it
Open(r) ==
  /\ stage[r] = "open"
  /\ stage' = [stage EXCEPT ![r] = "fill"]
  /\ disk' = {}
  /\ UNCHANGED <<live, shadow, change, text, promised, disturbed>>

\* and writes: what another request wrote in between shows behind the end, if
\* it is longer
Fill(r) ==
  /\ stage[r] = "fill"
  /\ stage' = [stage EXCEPT ![r] = "sync"]
  /\ disk' \in {{text[r]}, disk \cup {text[r]}}
  /\ UNCHANGED <<live, shadow, change, text, promised, disturbed>>

\* a write that fails is only logged for the approval section, and the server's
\* copy stays; the other endpoints answer with an error
WriteFails(r) ==
  /\ stage[r] \in {"open", "fill"}
  /\ IF change[r].kind = "put" THEN Gone(r)
     ELSE /\ stage' = [stage EXCEPT ![r] = "saved"]
          /\ text' = [text EXCEPT ![r] = Default]
          /\ UNCHANGED change
  /\ disturbed' = TRUE
  /\ UNCHANGED <<copies, promised>>

\* Mutant of Sync: the server's copy is left as it was
SyncSkipped(r) ==
  /\ stage[r] = "sync"
  /\ stage' = [stage EXCEPT ![r] = "saved"]
  /\ text' = [text EXCEPT ![r] = Default]
  /\ UNCHANGED <<copies, change, promised, disturbed>>

\* the server's copy follows: its section only, or the whole
Sync(r) ==
  /\ stage[r] = "sync"
  /\ stage' = [stage EXCEPT ![r] = "saved"]
  /\ shadow' = IF change[r].kind = "put" THEN text[r]
             ELSE [shadow EXCEPT !.approval = text[r].approval]
  /\ text' = [text EXCEPT ![r] = Default]
  /\ UNCHANGED <<live, disk, change, promised, disturbed>>

\* the client goes away while the file is written: the request's handler is
\* dropped at its one await.  The write goes on without it, to its end or to a
\* failure, and nothing follows
HangUp(r) ==
  /\ stage[r] \in {"open", "fill", "sync"}
  /\ Gone(r)
  /\ disturbed' = TRUE
  /\ UNCHANGED <<copies, promised>>

\* the request is answered
Answered(r) ==
  /\ stage[r] = "saved"
  /\ Gone(r)
  /\ promised' = IF disturbed \/ change[r] = NoChange THEN promised
                 ELSE FileWith(change[r], promised)
  /\ UNCHANGED <<copies, disturbed>>

Update(r) ==
  \/ ReadLive(r) \/ SetLive(r) \/ Render(r) \/ Merge(r)
  \/ Open(r) \/ Fill(r) \/ WriteFails(r) \/ Sync(r)

\* the daemon stops at any point and starts again; it does not with a file it
\* cannot parse.  What is on the disk is what counts from here on, unless it
\* was quiet.
Boot ==
  /\ Readable
  /\ live' = Loaded.approval
  /\ shadow' = Loaded
  /\ stage' = [r \in Requests |-> IF stage[r] = "new" THEN "new" ELSE "done"]
  /\ promised' = IF disturbed \/ Busy # {} THEN Loaded ELSE promised
  /\ disturbed' = FALSE
  /\ change' = [r \in Requests |-> NoChange]
  /\ text' = [r \in Requests |-> Default]
  /\ UNCHANGED disk

-----------------------------------------------------------------------------
(* Properties *)

\* "Persist approval config to disk so it survives a daemon restart": as long
\* as requests come one after the other and are awaited, what was answered is in all three
\* copies, before and after any number of restarts, and neither the approval
\* endpoints nor those of the whole configuration undo each other's part.
UpdatesDurable ==
  Busy = {} /\ ~disturbed
    => /\ Readable /\ Loaded = promised
       /\ shadow = promised
       /\ live = promised.approval
=============================================================================
