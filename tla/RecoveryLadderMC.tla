--------------------------- MODULE RecoveryLadderMC ---------------------------
(* Instances of RecoveryLadder: three models of two providers. *)
EXTENDS RecoveryLadder

CONSTANTS sonnet, haiku, gpt, anthropic, openai, empty

ModelIds       == {sonnet, haiku, gpt}
Providers      == [m \in ModelIds |-> IF m \in {sonnet, haiku} THEN anthropic ELSE openai]
ThreeFallbacks == <<haiku, sonnet, gpt>>
WithDefault    == <<sonnet, gpt>>
=============================================================================
