--------------------------------- MODULE Filter ---------------------------------
(***************************************************************************)
(* Iterator::filter as the code uses it on its queues and streams.         *)
(***************************************************************************)
EXTENDS Naturals, Sequences

\* the entries of a sequence that are in a set, in their order
Among(s, S) ==
  LET upTo[i \in 0 .. Len(s)] ==
        IF i = 0 THEN <<>>
        ELSE IF s[i] \in S THEN Append(upTo[i - 1], s[i]) ELSE upTo[i - 1]
  IN  upTo[Len(s)]
=============================================================================
