------------------------------- MODULE Delivery -------------------------------
(***************************************************************************)
(* One web client and the terminal frames of turns, its own and others',   *)
(* end to end: the gateway numbers a frame in its reliability layer (this  *)
(* module extends ReliabilityLayer), the web bridge broadcasts it, the     *)
(* forwarder task of a WebSocket passes on what is addressed to its        *)
(* connection or to no connection, the client remembers the highest number *)
(* it saw and sends it as the resume cursor of its next connection.        *)
(*                                                                         *)
(* The bridge answers a resume from a reliability layer of its own         *)
(* (plugin.rs), which nothing ever calls assign_seq on: it is an instance  *)
(* of ReliabilityLayer in its initial state.  The daemon may restart: the  *)
(* gateway's layer starts over, the client's cursor survives in its        *)
(* session storage.                                                        *)
(***************************************************************************)
EXTENDS ReliabilityLayer

CONSTANTS
  MaxConns,    \* WebSocket connections the client opens, at most (bound)
  MaxRestarts, \* restarts of the daemon, at most (bound)
  OtherTurns   \* targets of turns that are not the client's, if any (bound)

Resync == 0   \* the marker that tells the client to pull over HTTP

Everyone  == 0             \* target_conn_id is None: a turn of POST /api/chat
Elsewhere == MaxConns + 1  \* a connection of another client, another channel

ASSUME DeliveryAssumption ==
  /\ MaxConns \in Nat /\ MaxRestarts \in Nat
  /\ OtherTurns \subseteq {Everyone, Elsewhere}

VARIABLES
  boots,    \* restarts so far; numbers are compared within one of them
  opened,   \* connections opened so far: the last one is the current one
  up,       \* the current connection is open
  target,   \* the target of a number's frame: the connection its turn came from
  outbox,   \* the frame a sender pushed and has not broadcast, 0 for none
  wire,     \* what the forwarder has still to send on the connection
  asked,    \* the resume cursor the server has not handled, 0 for none
  resumed,  \* the one the current connection began with, 0 for none (history)
  cursor,   \* the client's last_seq
  got,      \* frames the client was given, in order, by boot and number
  sent      \* frames broadcast since the current connection is up (history)

layerVars  == <<seq, hand, buffer, stale, pushed, overtaken>>
clientVars == <<opened, up, wire, asked, resumed, cursor, got>>
allVars    == <<layerVars, boots, target, outbox, sent, clientVars>>

\* the layer the bridge replays from
Bridge == INSTANCE ReliabilityLayer
  WITH seq <- 0, hand <- [s \in Senders |-> 0], buffer <- <<>>,
       stale <- 0, pushed <- {}, overtaken <- {}

Frames == (0 .. MaxRestarts) \X (1 .. MaxSeq)

DeliveryTypeOK ==
  /\ TypeOK /\ BufferBounded
  /\ boots \in 0 .. MaxRestarts
  /\ opened \in 0 .. MaxConns
  /\ up \in BOOLEAN
  /\ target \in [1 .. MaxSeq -> 0 .. Elsewhere]
  /\ outbox \in [Senders -> 0 .. MaxSeq]
  /\ wire \in Seq((1 .. MaxSeq) \cup {Resync})
  /\ asked \in 0 .. MaxSeq
  /\ resumed \in 0 .. MaxSeq
  /\ cursor \in 0 .. MaxSeq
  /\ got \in Seq(Frames)
  /\ sent \subseteq 1 .. MaxSeq

DeliveryInit ==
  /\ Init
  /\ boots = 0
  /\ opened = 0
  /\ up = FALSE
  /\ target = [n \in 1 .. MaxSeq |-> Elsewhere]
  /\ outbox = [s \in Senders |-> 0]
  /\ wire = <<>>
  /\ asked = 0
  /\ resumed = 0
  /\ cursor = 0
  /\ got = <<>>
  /\ sent = {}

-----------------------------------------------------------------------------
(* The gateway *)

\* a turn ends: its frame gets a number and the connection the turn came from,
\* if it came from one, as its target
Number(s) ==
  /\ outbox[s] = 0
  /\ Draw(s)
  /\ \E c \in (1 .. opened) \cup OtherTurns :
       target' = [target EXCEPT ![seq + 1] = c]
  /\ UNCHANGED <<boots, outbox, sent, clientVars>>

Buffered(s) ==
  /\ Push(s)
  /\ outbox' = [outbox EXCEPT ![s] = hand[s]]
  /\ UNCHANGED <<boots, target, sent, clientVars>>

\* Mutant of Addressed: the forwarder passes on every connection's frames
AddressedToAll(n) == TRUE

\* the forwarder's filter on target_conn_id
Addressed(n) == target[n] \in {opened, Everyone}

\* Mutant of Broadcast: a frame whose connection is up is sent once more
BroadcastTwice(s) ==
  LET n == outbox[s] IN
  /\ n # 0
  /\ outbox' = [outbox EXCEPT ![s] = 0]
  /\ wire' = IF up /\ Addressed(n) THEN wire \o <<n, n>> ELSE wire
  /\ sent' = IF up THEN sent \cup {n} ELSE sent
  /\ UNCHANGED <<layerVars, boots, target, opened, up, asked, resumed, cursor, got>>

\* WebBridge::send: every subscribed forwarder gets the frame
Broadcast(s) ==
  LET n == outbox[s] IN
  /\ n # 0
  /\ outbox' = [outbox EXCEPT ![s] = 0]
  /\ wire' = IF up /\ Addressed(n) THEN Append(wire, n) ELSE wire
  /\ sent' = IF up THEN sent \cup {n} ELSE sent
  /\ UNCHANGED <<layerVars, boots, target, opened, up, asked, resumed, cursor, got>>

Expire == Age /\ UNCHANGED <<boots, target, outbox, sent, clientVars>>

\* the daemon stops and starts again
Restart ==
  /\ boots < MaxRestarts
  /\ boots' = boots + 1
  /\ seq' = 0
  /\ hand' = [s \in Senders |-> 0]
  /\ buffer' = <<>>
  /\ stale' = 0
  /\ pushed' = {}
  /\ overtaken' = {}
  /\ target' = [n \in 1 .. MaxSeq |-> Elsewhere]
  /\ outbox' = [s \in Senders |-> 0]
  /\ up' = FALSE
  /\ wire' = <<>>
  /\ asked' = 0
  /\ resumed' = 0
  /\ sent' = {}
  /\ UNCHANGED <<opened, cursor, got>>

-----------------------------------------------------------------------------
(* The WebSocket and its client *)

\* the server subscribes to the bridge; the client sends its cursor, if it
\* has one
Connect ==
  /\ ~up
  /\ opened < MaxConns
  /\ opened' = opened + 1
  /\ up' = TRUE
  /\ wire' = <<>>
  /\ asked' = cursor
  /\ resumed' = cursor
  /\ UNCHANGED <<layerVars, boots, target, outbox, sent, cursor, got>>

\* Mutant of HandleResume: the replay takes the place of live frames
HandleResumeFirst ==
  /\ up
  /\ asked # 0
  /\ asked' = 0
  /\ wire' = Bridge!Replayed(asked)
  /\ UNCHANGED <<layerVars, boots, target, outbox, sent, opened, up, resumed, cursor, got>>

\* replay_after: the bridge broadcasts what its layer holds after the cursor
HandleResume ==
  /\ up
  /\ asked # 0
  /\ asked' = 0
  /\ wire' = IF Bridge!Resyncs(asked) THEN Append(wire, Resync)
             ELSE wire \o Among(Bridge!Replayed(asked), {n \in 1 .. MaxSeq : Addressed(n)})
  /\ UNCHANGED <<layerVars, boots, target, outbox, sent, opened, up, resumed, cursor, got>>

\* Mutant of Receive: the client keeps the last number, not the highest
ReceiveLatest ==
  /\ up
  /\ wire # <<>>
  /\ wire' = Tail(wire)
  /\ IF Head(wire) = Resync
     THEN UNCHANGED <<cursor, got>>
     ELSE /\ cursor' = Head(wire)
          /\ got' = Append(got, <<boots, Head(wire)>>)
  /\ UNCHANGED <<layerVars, boots, target, outbox, sent, opened, up, asked, resumed>>

\* the client applies a frame and moves its cursor up
Receive ==
  /\ up
  /\ wire # <<>>
  /\ wire' = Tail(wire)
  /\ IF Head(wire) = Resync
     THEN UNCHANGED <<cursor, got>>
     ELSE /\ cursor' = IF Head(wire) > cursor THEN Head(wire) ELSE cursor
          /\ got' = Append(got, <<boots, Head(wire)>>)
  /\ UNCHANGED <<layerVars, boots, target, outbox, sent, opened, up, asked, resumed>>

\* what was on the wire is lost with the connection
Disconnect ==
  /\ up
  /\ up' = FALSE
  /\ wire' = <<>>
  /\ asked' = 0
  /\ resumed' = 0
  /\ sent' = {}
  /\ UNCHANGED <<layerVars, boots, target, outbox, opened, cursor, got>>

DeliveryNext ==
  \/ \E s \in Senders : Number(s) \/ Buffered(s) \/ Broadcast(s)
  \/ Expire \/ Restart
  \/ Connect \/ HandleResume \/ Receive \/ Disconnect

DeliverySpec == DeliveryInit /\ [][DeliveryNext]_allVars

-----------------------------------------------------------------------------
(* Properties *)

\* A frame of a turn that came over a connection goes out on that one only,
\* whatever connection is open by the time it is broadcast; the frame of a turn
\* that came over none may go out on any.
OwnConnection ==
  \A i \in 1 .. Len(wire) : wire[i] # Resync => target[wire[i]] \in {opened, Everyone}

\* No frame is given to the client twice, over any number of connections and
\* resumes.
GivenOnce ==
  \A i, j \in 1 .. Len(got) : got[i] = got[j] => i = j

\* The client never asks again for a frame it was given: its cursor is past
\* all of them, those sent out of order and those of earlier boots included.
CursorCovers == \A i \in 1 .. Len(got) : got[i][2] <= cursor

\* A frame broadcast while a connection is up reaches the client, if it is for
\* this connection or for all, unless the connection goes down with the frame
\* on the wire.
LiveFramesArrive ==
  up => \A n \in 1 .. MaxSeq :
          n \in sent /\ target[n] \in {opened, Everyone}
            => \/ \E i \in 1 .. Len(wire) : wire[i] = n
               \/ \E i \in 1 .. Len(got) : got[i] = <<boots, n>>

Idle == wire = <<>> /\ \A s \in Senders : hand[s] = 0 /\ outbox[s] = 0

\* the client has every frame of its own turns numbered after the cursor
OwnFramesGiven(after) ==
  \A n \in pushed :
    n > after /\ target[n] \in 1 .. opened => \E i \in 1 .. Len(got) : got[i] = <<boots, n>>

\* "if we have a saved cursor, ask the server to replay any messages we missed
\* while disconnected" (chat.ts; RFC-024, C2): once the resume was handled and
\* everything is quiet, the client has the frames of its own turns after its
\* cursor.  A cursor of an earlier boot promises nothing.
ResumeFillsGap ==
  up /\ resumed > 0 /\ asked = 0 /\ Idle /\ boots = 0 => OwnFramesGiven(resumed)

=============================================================================
