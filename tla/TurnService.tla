----------------------------- MODULE TurnService -----------------------------
(***************************************************************************)
(* What the gateway promises the users of a chat, without agents, keys or  *)
(* tasks: at most Capacity turns are served at once, a served turn gets    *)
(* one reply before its slot is given to another, the reply says           *)
(* "cancelled" only to a user who asked for it, and a message is left      *)
(* unserved only by a shutdown.                                            *)
(***************************************************************************)
EXTENDS Integers, FiniteSets

CONSTANTS
  Turns,     \* requests
  Capacity,  \* MAX_CONCURRENT_ROUTES
  Replies,   \* terminal frames
  NoReply    \* not replied yet

VARIABLES
  phase,     \* "idle", "waiting", "serving", "ended" or "lost"
  reply,     \* what the user was told
  asked,     \* turns whose cancellation was asked for
  closing    \* a shutdown was asked for

vars == <<phase, reply, asked, closing>>

Init ==
  /\ phase = [t \in Turns |-> "idle"]
  /\ reply = [t \in Turns |-> NoReply]
  /\ asked = {}
  /\ closing = FALSE

Submit(t) ==
  /\ phase[t] = "idle"
  /\ phase' = [phase EXCEPT ![t] = "waiting"]
  /\ UNCHANGED <<reply, asked, closing>>

Served == {t \in Turns : phase[t] = "serving"}

Admit(t) ==
  /\ phase[t] = "waiting"
  /\ Cardinality(Served) < Capacity
  /\ phase' = [phase EXCEPT ![t] = "serving"]
  /\ UNCHANGED <<reply, asked, closing>>

Ask(t) ==
  /\ phase[t] = "serving"
  /\ asked' = asked \cup {t}
  /\ UNCHANGED <<phase, reply, closing>>

\* a reply given, and possibly with it the slot
Reply(t) ==
  /\ phase[t] = "serving"
  /\ reply[t] = NoReply
  /\ \E r \in Replies :
       /\ r = "cancelled" => t \in asked
       /\ reply' = [reply EXCEPT ![t] = r]
  /\ phase' \in {phase, [phase EXCEPT ![t] = "ended"]}
  /\ UNCHANGED <<asked, closing>>

End(t) ==
  /\ phase[t] = "serving"
  /\ reply[t] # NoReply
  /\ phase' = [phase EXCEPT ![t] = "ended"]
  /\ UNCHANGED <<reply, asked, closing>>

Shutdown ==
  /\ closing' = TRUE
  /\ UNCHANGED <<phase, reply, asked>>

\* once closing, some of those who wait are never served
Lose ==
  /\ closing
  /\ \E gone \in SUBSET {t \in Turns : phase[t] = "waiting"} :
       phase' = [t \in Turns |-> IF t \in gone THEN "lost" ELSE phase[t]]
  /\ UNCHANGED <<reply, asked, closing>>

Next ==
  \/ Shutdown \/ Lose
  \/ \E t \in Turns : Submit(t) \/ Admit(t) \/ Ask(t) \/ Reply(t) \/ End(t)

Spec == Init /\ [][Next]_vars

=============================================================================
