---------------------------- MODULE DeliveryProofs ----------------------------
(***************************************************************************)
(* Proofs about the delivery of terminal frames to one client, for every   *)
(* set of dispatch tasks, buffer size, number of frames, of connections    *)
(* and of restarts of the daemon.                                          *)
(*                                                                         *)
(* DInv adds to the layer's invariant where a frame of this boot can be:   *)
(* in one sender's outbox, on the wire of the connection it is for, or     *)
(* given to the client, in one of these places only.  A number not pushed  *)
(* yet is in none of them, so that a new boot may draw it again.           *)
(***************************************************************************)
EXTENDS Delivery, ReliabilityLayerProofs

\* the numbers on the wire, and those of this boot the client was given
OnWire == {wire[i] : i \in 1 .. Len(wire)}
Given  == {n \in 1 .. MaxSeq : \E i \in 1 .. Len(got) : got[i] = <<boots, n>>}

\* a turn came from a connection that was opened, from none or from elsewhere
Targets == \A n \in 1 .. MaxSeq : target[n] <= opened \/ target[n] = Elsewhere

\* a frame in an outbox was pushed and is nowhere else
OutboxFresh ==
  \A s \in Senders : outbox[s] # 0 =>
    /\ outbox[s] \in pushed
    /\ outbox[s] \notin OnWire /\ outbox[s] \notin Given
    /\ \A t \in Senders : outbox[t] = outbox[s] => t = s

\* a frame on the wire was pushed, is on it once, and was not given yet
WireFresh ==
  /\ \A i \in 1 .. Len(wire) : wire[i] \in pushed /\ wire[i] \notin Given
  /\ \A i, j \in 1 .. Len(wire) : wire[i] = wire[j] => i = j

\* what was given in this boot was pushed in it, and so was what was sent; on a
\* connection that is down nothing was
Past ==
  /\ \A i \in 1 .. Len(got) :
       got[i][1] <= boots /\ (got[i][1] = boots => got[i][2] \in pushed)
  /\ sent \subseteq pushed
  /\ ~up => sent = {}

DInv ==
  /\ CInv
  /\ DeliveryTypeOK
  /\ Targets
  /\ OutboxFresh
  /\ WireFresh
  /\ Past
  /\ OwnConnection
  /\ GivenOnce
  /\ CursorCovers
  /\ LiveFramesArrive

\* Before the first frame and connection there is nothing to tell.
LEMMA DeliveryStarts == DeliveryInit => DInv
<1> SUFFICES ASSUME DeliveryInit PROVE DInv
  OBVIOUS
<1>1. CInv
  BY CoverInit DEF DeliveryInit
<1>2. DeliveryTypeOK
  <2>1. TypeOK /\ BufferBounded
    BY <1>1 DEF CInv, AInv
  <2>2. wire \in Seq((1 .. MaxSeq) \cup {Resync}) /\ got \in Seq(Frames) /\ sent \subseteq 1 .. MaxSeq
    BY DEF DeliveryInit
  <2>3. /\ boots \in 0 .. MaxRestarts /\ opened \in 0 .. MaxConns
        /\ asked \in 0 .. MaxSeq /\ resumed \in 0 .. MaxSeq /\ cursor \in 0 .. MaxSeq
    BY LayerAssumption, DeliveryAssumption DEF DeliveryInit
  <2>4. target \in [1 .. MaxSeq -> 0 .. Elsewhere] /\ outbox \in [Senders -> 0 .. MaxSeq]
    BY LayerAssumption, DeliveryAssumption DEF DeliveryInit, Elsewhere
  <2>5. up \in BOOLEAN
    BY DEF DeliveryInit
  <2> QED
    BY <2>1, <2>2, <2>3, <2>4, <2>5 DEF DeliveryTypeOK
<1>3. Targets /\ OutboxFresh /\ Past /\ LiveFramesArrive
  BY DEF DeliveryInit, Targets, OutboxFresh, Past, LiveFramesArrive
<1>4. WireFresh /\ OwnConnection /\ GivenOnce /\ CursorCovers
  BY DEF DeliveryInit, WireFresh, OwnConnection, GivenOnce, CursorCovers
<1> QED
  BY <1>1, <1>2, <1>3, <1>4 DEF DInv

\* Every step is one of the layer, leaves the layer alone, or starts it anew.
LEMMA LayerStep == CInv /\ [DeliveryNext]_allVars => CInv'
<1> SUFFICES ASSUME CInv, [DeliveryNext]_allVars PROVE CInv'
  OBVIOUS
<1>1. CASE Restart
  <2>1. Init' => CInv'
    BY CoverInit, PTL
  <2>2. Init'
    BY <1>1 DEF Restart, Init
  <2> QED
    BY <2>1, <2>2
<1>2. CASE ~Restart
  <2>1. [Next]_vars
    BY <1>2 DEF DeliveryNext, Number, Buffered, Broadcast, Expire, Connect, HandleResume,
                Receive, Disconnect, Next, vars, layerVars, allVars
  <2> QED
    BY <2>1, CoverStep
<1> QED
  BY <1>1, <1>2

\* The bridge's own layer never holds anything: a resume puts nothing on the
\* wire, neither a frame nor a resync.
LEMMA ResumesBring == ASSUME DeliveryTypeOK, HandleResume PROVE wire' = wire
<1>1. ~Bridge!Resyncs(asked)
  BY DEF Bridge!Resyncs
<1>2. Bridge!Replayed(asked) = <<>>
  <2>1. Bridge!Among(<<>>, {n \in 1 .. MaxSeq : n > asked})
          = Among(<<>>, {n \in 1 .. MaxSeq : n > asked})
    BY DEF Bridge!Among, Among
  <2> QED
    BY <2>1, AmongEmpty DEF Bridge!Replayed
<1>3. wire' = wire \o Among(<<>>, {n \in 1 .. MaxSeq : Addressed(n)})
  BY <1>1, <1>2 DEF HandleResume
<1>4. wire' = wire \o <<>>
  BY <1>3, AmongEmpty
<1> QED
  BY <1>4 DEF DeliveryTypeOK

\* the facts about types and numbers that the steps below use
Numbers ==
  /\ MaxSeq \in Nat /\ MaxConns \in Nat /\ MaxRestarts \in Nat
  /\ seq \in Nat /\ seq <= MaxSeq
  /\ pushed \subseteq 1 .. seq /\ pushed \subseteq 1 .. MaxSeq
  /\ opened \in Nat /\ boots \in Nat /\ cursor \in Nat
  /\ wire \in Seq((1 .. MaxSeq) \cup {Resync}) /\ Len(wire) \in Nat
  /\ got \in Seq(Frames) /\ Len(got) \in Nat
  /\ \A i \in 1 .. Len(got) : got[i][1] \in Nat /\ got[i][2] \in Nat
  /\ \A s \in Senders : hand[s] \in 0 .. MaxSeq /\ hand[s] \notin pushed

\* They follow from the invariant.
LEMMA InNumbers == DInv => Numbers
<1> SUFFICES ASSUME DInv PROVE Numbers
  OBVIOUS
<1>0. TypeOK /\ NumbersAccounted /\ DeliveryTypeOK
  BY DEF DInv, CInv, AInv
<1>1. /\ MaxSeq \in Nat /\ MaxConns \in Nat /\ MaxRestarts \in Nat
      /\ seq \in Nat /\ seq <= MaxSeq
  BY <1>0, LayerAssumption, DeliveryAssumption DEF TypeOK
<1>2. pushed \subseteq 1 .. seq /\ pushed \subseteq 1 .. MaxSeq
  BY <1>0 DEF TypeOK, NumbersAccounted
<1>3. /\ opened \in Nat /\ boots \in Nat /\ cursor \in Nat
      /\ wire \in Seq((1 .. MaxSeq) \cup {Resync}) /\ Len(wire) \in Nat
      /\ got \in Seq(Frames) /\ Len(got) \in Nat
  BY <1>0, <1>1 DEF DeliveryTypeOK
<1>4. ASSUME NEW i \in 1 .. Len(got) PROVE got[i][1] \in Nat /\ got[i][2] \in Nat
  <2>1. got[i] \in Frames
    BY <1>3, ElementOfSeq
  <2> QED
    BY <2>1, <1>1 DEF Frames
<1>5. \A s \in Senders : hand[s] \in 0 .. MaxSeq /\ hand[s] \notin pushed
  BY <1>0 DEF TypeOK, NumbersAccounted
<1> QED
  BY <1>1, <1>2, <1>3, <1>4, <1>5 DEF Numbers

\* A number drawn for a frame is not pushed, so no place knows it yet.
LEMMA NumberKeeps == ASSUME DInv, NEW s \in Senders, Number(s), CInv' PROVE DInv'
<1>0. Numbers
  BY InNumbers
<1>1. PICK c \in (1 .. opened) \cup OtherTurns : target' = [target EXCEPT ![seq + 1] = c]
  BY DEF Number
<1>2. /\ UNCHANGED <<boots, outbox, sent, opened, up, wire, asked, resumed, cursor, got, pushed>>
      /\ seq + 1 \in 1 .. MaxSeq /\ seq + 1 \notin pushed
  <2>1. /\ UNCHANGED <<boots, outbox, sent, opened, up, wire, asked, resumed, cursor, got, pushed>>
        /\ seq < MaxSeq
    BY DEF Number, clientVars, Draw
  <2> QED
    BY <2>1, <1>0 DEF Numbers
<1>3. \A n \in pushed : target'[n] = target[n]
  BY <1>1, <1>2, <1>0 DEF DInv, DeliveryTypeOK
<1>4. DeliveryTypeOK'
  <2>1. c \in 0 .. Elsewhere
    BY <1>0, DeliveryAssumption DEF DInv, DeliveryTypeOK, Numbers, Everyone, Elsewhere
  <2>2. target' \in [1 .. MaxSeq -> 0 .. Elsewhere]
    BY <1>1, <2>1 DEF DInv, DeliveryTypeOK
  <2> QED
    BY <2>2, <1>2 DEF DInv, DeliveryTypeOK, CInv, AInv
<1>5. Targets'
  <2>1. c <= opened \/ c = Elsewhere
    <3>1. c \in 1 .. opened \/ c = 0 \/ c = Elsewhere
      BY DeliveryAssumption DEF Everyone
    <3> QED
      BY <1>0, <3>1 DEF Numbers
  <2> QED
    BY <1>0, <1>1, <1>2, <2>1 DEF DInv, DeliveryTypeOK, Targets
<1>6. OutboxFresh' /\ WireFresh' /\ Past' /\ GivenOnce' /\ CursorCovers'
  <2>1. OutboxFresh' /\ WireFresh'
    BY <1>2 DEF DInv, OutboxFresh, WireFresh, OnWire, Given
  <2>2. Past' /\ GivenOnce' /\ CursorCovers'
    BY <1>2 DEF DInv, Past, GivenOnce, CursorCovers
  <2> QED
    BY <2>1, <2>2
<1>7. OwnConnection'
  BY <1>2, <1>3 DEF DInv, OwnConnection, WireFresh
<1>8. LiveFramesArrive'
  BY <1>2, <1>3 DEF DInv, LiveFramesArrive, Past
<1> QED
  BY <1>4, <1>5, <1>6, <1>7, <1>8 DEF DInv

\* A pushed frame was in nobody's outbox, on no wire and not given.
LEMMA BufferedKeeps == ASSUME DInv, NEW s \in Senders, Buffered(s), CInv' PROVE DInv'
<1>0. Numbers
  BY InNumbers
<1>1. /\ outbox' = [outbox EXCEPT ![s] = hand[s]] /\ hand[s] # 0
      /\ pushed' = pushed \cup {hand[s]} /\ hand[s] \notin pushed
      /\ UNCHANGED <<boots, target, sent, opened, up, wire, asked, resumed, cursor, got>>
  BY <1>0 DEF Buffered, clientVars, Push, Numbers
<1>2. hand[s] \notin OnWire /\ hand[s] \notin Given /\ \A t \in Senders : outbox[t] # hand[s]
  <2>1. hand[s] \notin OnWire
    BY <1>1 DEF DInv, WireFresh, OnWire
  <2>2. hand[s] \notin Given
    BY <1>0, <1>1 DEF DInv, Past, Given, Numbers
  <2>3. \A t \in Senders : outbox[t] # hand[s]
    BY <1>1 DEF DInv, OutboxFresh
  <2> QED
    BY <2>1, <2>2, <2>3
<1>3. OnWire' = OnWire /\ Given' = Given
  BY <1>1 DEF OnWire, Given
<1>4. DeliveryTypeOK'
  BY <1>0, <1>1 DEF DInv, DeliveryTypeOK, CInv, AInv, Numbers
<1>5. OutboxFresh'
  <2> SUFFICES ASSUME NEW t \in Senders, outbox'[t] # 0
               PROVE  /\ outbox'[t] \in pushed'
                      /\ outbox'[t] \notin OnWire' /\ outbox'[t] \notin Given'
                      /\ \A u \in Senders : outbox'[u] = outbox'[t] => u = t
    BY DEF OutboxFresh
  <2>1. /\ outbox'[s] = hand[s]
        /\ \A u \in Senders : u # s => outbox'[u] = outbox[u]
    BY <1>1 DEF DInv, DeliveryTypeOK
  <2>2. CASE t = s
    BY <1>1, <1>2, <1>3, <2>1, <2>2
  <2>3. CASE t # s
    BY <1>1, <1>2, <1>3, <2>1, <2>3 DEF DInv, OutboxFresh
  <2> QED
    BY <2>2, <2>3
<1>6. WireFresh'
  BY <1>1, <1>3 DEF DInv, WireFresh
<1>7. Past'
  BY <1>1 DEF DInv, Past
<1>8. Targets' /\ OwnConnection' /\ GivenOnce' /\ CursorCovers' /\ LiveFramesArrive'
  BY <1>1 DEF DInv, Targets, OwnConnection, GivenOnce, CursorCovers, LiveFramesArrive
<1> QED
  BY <1>4, <1>5, <1>6, <1>7, <1>8 DEF DInv

\* A broadcast moves a frame from its outbox to the wire, or nowhere.
LEMMA BroadcastKeeps == ASSUME DInv, NEW s \in Senders, Broadcast(s), CInv' PROVE DInv'
<1>0. Numbers
  BY InNumbers
<1> DEFINE n == outbox[s]
<1>1. /\ n # 0 /\ outbox' = [outbox EXCEPT ![s] = 0]
      /\ wire' = IF up /\ Addressed(n) THEN Append(wire, n) ELSE wire
      /\ sent' = IF up THEN sent \cup {n} ELSE sent
      /\ UNCHANGED <<boots, target, opened, up, asked, resumed, cursor, got, pushed>>
  BY DEF Broadcast, layerVars
<1>2. n \in pushed /\ n \notin OnWire /\ n \notin Given /\ n \in 1 .. MaxSeq
  BY <1>0, <1>1 DEF DInv, OutboxFresh, Numbers
<1>3. /\ outbox'[s] = 0
      /\ \A t \in Senders : t # s => outbox'[t] = outbox[t] /\ (outbox[t] # 0 => outbox[t] # n)
  BY <1>1 DEF DInv, DeliveryTypeOK, OutboxFresh
<1>4. Given' = Given
  BY <1>1 DEF Given
<1>5. sent' \subseteq pushed' /\ (~up' => sent' = {}) /\ sent' \subseteq 1 .. MaxSeq
  BY <1>1, <1>2 DEF DInv, Past, DeliveryTypeOK
<1>6. Past'
  BY <1>1, <1>5 DEF DInv, Past
<1>7. outbox' \in [Senders -> 0 .. MaxSeq]
  BY <1>0, <1>1 DEF DInv, DeliveryTypeOK, Numbers
<1>8. Targets' /\ GivenOnce' /\ CursorCovers'
  BY <1>1 DEF DInv, Targets, GivenOnce, CursorCovers
<1>9. CASE ~(up /\ Addressed(n))
  <2>1. wire' = wire
    BY <1>1, <1>9
  <2>2. DeliveryTypeOK'
    BY <1>1, <1>5, <1>7, <2>1 DEF DInv, DeliveryTypeOK, CInv, AInv
  <2>3. OutboxFresh'
    BY <1>1, <1>3, <1>4, <2>1 DEF DInv, OutboxFresh, OnWire
  <2>4. WireFresh' /\ OwnConnection'
    BY <1>1, <1>4, <2>1 DEF DInv, WireFresh, OwnConnection
  <2>5. LiveFramesArrive'
    <3>1. up => target[n] \notin {opened, Everyone}
      BY <1>9 DEF Addressed
    <3> QED
      BY <1>1, <2>1, <3>1 DEF DInv, LiveFramesArrive
  <2> QED
    BY <1>6, <1>8, <2>2, <2>3, <2>4, <2>5 DEF DInv
<1>10. CASE up /\ Addressed(n)
  <2>1. wire' = Append(wire, n) /\ sent' = sent \cup {n}
    BY <1>1, <1>10
  <2>2. /\ wire' \in Seq((1 .. MaxSeq) \cup {Resync}) /\ Len(wire') = Len(wire) + 1
        /\ wire'[Len(wire) + 1] = n
        /\ \A i \in 1 .. Len(wire) : wire'[i] = wire[i]
    BY <1>0, <1>2, <2>1 DEF Numbers
  <2>3. \A i \in 1 .. Len(wire') : i \in 1 .. Len(wire) \/ i = Len(wire) + 1
    BY <1>0, <2>2 DEF Numbers
  <2>4. OnWire' = OnWire \cup {n}
    <3>1. \A i \in 1 .. Len(wire') : wire'[i] \in OnWire \cup {n}
      BY <2>2, <2>3 DEF OnWire
    <3>2. Len(wire) + 1 \in 1 .. Len(wire') /\ 1 .. Len(wire) \subseteq 1 .. Len(wire')
      BY <1>0, <2>2 DEF Numbers
    <3>3. \A i \in 1 .. Len(wire) : wire[i] \in OnWire'
      BY <3>2, <2>2 DEF OnWire
    <3>4. n \in OnWire'
      BY <3>2, <2>2 DEF OnWire
    <3> QED
      BY <3>1, <3>3, <3>4 DEF OnWire
  <2>5. DeliveryTypeOK'
    BY <1>1, <1>5, <1>7, <2>2 DEF DInv, DeliveryTypeOK, CInv, AInv
  <2>6. OutboxFresh'
    BY <1>1, <1>3, <1>4, <2>4 DEF DInv, OutboxFresh
  <2>7. WireFresh'
    <3>1. \A i \in 1 .. Len(wire') : wire'[i] \in pushed' /\ wire'[i] \notin Given'
      BY <1>1, <1>2, <1>4, <2>2, <2>3 DEF DInv, WireFresh
    <3>2. \A i, j \in 1 .. Len(wire') : wire'[i] = wire'[j] => i = j
      BY <1>2, <2>2, <2>3 DEF DInv, WireFresh, OnWire
    <3> QED
      BY <3>1, <3>2 DEF WireFresh
  <2>8. OwnConnection'
    BY <1>1, <1>10, <2>2, <2>3 DEF DInv, OwnConnection, Addressed
  <2>9. LiveFramesArrive'
    <3> SUFFICES ASSUME up, NEW m \in sent', m \in 1 .. MaxSeq, target[m] \in {opened, Everyone}
                 PROVE  m \in OnWire' \/ m \in Given
      BY <1>1, <1>4 DEF LiveFramesArrive, OnWire, Given
    <3>1. m = n \/ m \in sent
      BY <2>1
    <3>2. m \in sent => m \in OnWire \/ m \in Given
      BY DEF DInv, LiveFramesArrive, OnWire, Given
    <3> QED
      BY <3>1, <3>2, <2>4
  <2> QED
    BY <1>6, <1>8, <2>5, <2>6, <2>7, <2>8, <2>9 DEF DInv
<1> QED
  BY <1>9, <1>10

\* An entry that goes stale and a resume that is handled move no frame.
LEMMA ResumeKeeps == ASSUME DInv, Expire \/ HandleResume, CInv' PROVE DInv'
<1>1. /\ UNCHANGED <<boots, target, outbox, sent, opened, up, wire, resumed, cursor, got, pushed>>
      /\ asked' = asked \/ asked' = 0
  <2>1. CASE Expire
    BY <2>1 DEF Expire, clientVars, Age
  <2>2. CASE HandleResume
    BY <2>2, ResumesBring DEF HandleResume, layerVars, DInv
  <2> QED
    BY <2>1, <2>2
<1>2. OnWire' = OnWire /\ Given' = Given
  BY <1>1 DEF OnWire, Given
<1>3. DeliveryTypeOK'
  <2>1. asked' \in 0 .. MaxSeq
    BY <1>1, LayerAssumption DEF DInv, DeliveryTypeOK
  <2> QED
    BY <1>1, <2>1 DEF DInv, DeliveryTypeOK, CInv, AInv
<1>4. OutboxFresh' /\ WireFresh' /\ Past'
  BY <1>1, <1>2 DEF DInv, OutboxFresh, WireFresh, Past
<1>5. Targets' /\ OwnConnection' /\ GivenOnce' /\ CursorCovers' /\ LiveFramesArrive'
  BY <1>1 DEF DInv, Targets, OwnConnection, GivenOnce, CursorCovers, LiveFramesArrive
<1> QED
  BY <1>3, <1>4, <1>5 DEF DInv

\* A connection that opens or goes down has an empty wire, and no frame was sent
\* on it yet.
LEMMA ConnectKeeps == ASSUME DInv, Connect \/ Disconnect, CInv' PROVE DInv'
<1>0. Numbers
  BY InNumbers
<1>1. /\ UNCHANGED <<boots, target, outbox, cursor, got, pushed>>
      /\ wire' = <<>> /\ sent' = {}
      /\ \/ opened' = opened + 1 /\ opened < MaxConns
         \/ opened' = opened
      /\ up' \in BOOLEAN
      /\ asked' \in {0, cursor} /\ resumed' \in {0, cursor}
  <2>1. CASE Connect
    <3>1. up' = TRUE /\ ~up
      BY <2>1 DEF Connect
    <3>2. /\ UNCHANGED <<boots, target, outbox, sent, cursor, got, pushed>>
          /\ wire' = <<>> /\ opened' = opened + 1 /\ opened < MaxConns
          /\ asked' = cursor /\ resumed' = cursor
      BY <2>1 DEF Connect, layerVars
    <3>3. sent' = {}
      BY <3>1, <3>2 DEF DInv, Past
    <3> QED
      BY <3>1, <3>2, <3>3
  <2>2. CASE Disconnect
    <3>1. up' = FALSE
      BY <2>2 DEF Disconnect
    <3>2. /\ UNCHANGED <<boots, target, outbox, opened, cursor, got, pushed>>
          /\ wire' = <<>> /\ sent' = {} /\ asked' = 0 /\ resumed' = 0
      BY <2>2 DEF Disconnect, layerVars
    <3> QED
      BY <3>1, <3>2
  <2> QED
    BY <2>1, <2>2
<1>2. OnWire' = {} /\ Given' = Given /\ Len(wire') = 0
  BY <1>1 DEF OnWire, Given
<1>3. DeliveryTypeOK'
  <2>1. asked' \in 0 .. MaxSeq /\ resumed' \in 0 .. MaxSeq
    BY <1>1, LayerAssumption DEF DInv, DeliveryTypeOK
  <2>3. opened' \in 0 .. MaxConns
    BY <1>0, <1>1 DEF DInv, DeliveryTypeOK, Numbers
  <2>2. wire' \in Seq((1 .. MaxSeq) \cup {Resync}) /\ sent' \subseteq 1 .. MaxSeq
    BY <1>1
  <2> QED
    BY <1>1, <2>1, <2>2, <2>3 DEF DInv, DeliveryTypeOK, CInv, AInv
<1>4. OutboxFresh' /\ WireFresh' /\ Past'
  BY <1>1, <1>2 DEF DInv, OutboxFresh, WireFresh, Past
<1>5. OwnConnection' /\ GivenOnce' /\ CursorCovers' /\ LiveFramesArrive'
  BY <1>1, <1>2 DEF DInv, OwnConnection, GivenOnce, CursorCovers, LiveFramesArrive
<1>6. Targets'
  <2> SUFFICES ASSUME NEW n \in 1 .. MaxSeq PROVE target'[n] <= opened' \/ target'[n] = Elsewhere
    BY DEF Targets
  <2>1. target[n] \in Nat /\ (target[n] <= opened \/ target[n] = Elsewhere)
    BY DEF DInv, DeliveryTypeOK, Targets
  <2> QED
    BY <1>0, <1>1, <2>1 DEF Numbers
<1> QED
  BY <1>3, <1>4, <1>5, <1>6 DEF DInv

\* A new boot has no frames: what it will number differs from what was given
\* in its boot, and the connection went down with the old one.
LEMMA RestartKeeps == ASSUME DInv, Restart, CInv' PROVE DInv'
<1>0. Numbers
  BY InNumbers
<1>1. /\ UNCHANGED <<opened, cursor, got>>
      /\ boots' = boots + 1 /\ boots < MaxRestarts
      /\ wire' = <<>> /\ up' = FALSE /\ asked' = 0 /\ resumed' = 0 /\ sent' = {}
      /\ outbox' = [s \in Senders |-> 0]
      /\ target' = [n \in 1 .. MaxSeq |-> Elsewhere]
  BY DEF Restart
<1>2. Len(wire') = 0 /\ wire' \in Seq((1 .. MaxSeq) \cup {Resync}) /\ sent' \subseteq 1 .. MaxSeq
  BY <1>1
<1>3. DeliveryTypeOK'
  <2>1. asked' \in 0 .. MaxSeq /\ resumed' \in 0 .. MaxSeq /\ boots' \in 0 .. MaxRestarts
    BY <1>0, <1>1 DEF DInv, DeliveryTypeOK, Numbers
  <2>2. outbox' \in [Senders -> 0 .. MaxSeq]
    BY <1>0, <1>1 DEF Numbers
  <2>3. target' \in [1 .. MaxSeq -> 0 .. Elsewhere]
    BY <1>0, <1>1 DEF Numbers, Elsewhere
  <2>4. up' \in BOOLEAN
    BY <1>1
  <2> QED
    BY <1>1, <1>2, <2>1, <2>2, <2>3, <2>4 DEF DInv, DeliveryTypeOK, CInv, AInv
<1>4. OutboxFresh' /\ WireFresh'
  BY <1>1, <1>2 DEF OutboxFresh, WireFresh
<1>5. Past'
  <2>1. ASSUME NEW i \in 1 .. Len(got) PROVE got[i][1] <= boots' /\ got[i][1] # boots'
    BY <1>0, <1>1 DEF DInv, Past, Numbers
  <2> QED
    BY <1>1, <2>1 DEF Past
<1>6. Targets'
  BY <1>1 DEF Targets
<1>7. OwnConnection' /\ GivenOnce' /\ CursorCovers' /\ LiveFramesArrive'
  BY <1>1, <1>2 DEF DInv, OwnConnection, GivenOnce, CursorCovers, LiveFramesArrive
<1> QED
  BY <1>3, <1>4, <1>5, <1>6, <1>7 DEF DInv

\* The first frame on the wire is given to the client, who had not got it.
LEMMA ReceiveKeeps == ASSUME DInv, Receive, CInv' PROVE DInv'
<1>0. Numbers
  BY InNumbers
<1> DEFINE n == Head(wire)
<1>1. /\ UNCHANGED <<boots, target, outbox, sent, opened, up, asked, resumed, pushed>>
      /\ wire # <<>> /\ wire' = Tail(wire)
  BY DEF Receive, layerVars
<1>2. /\ Len(wire) >= 1 /\ 1 \in 1 .. Len(wire) /\ n = wire[1]
      /\ wire' \in Seq((1 .. MaxSeq) \cup {Resync}) /\ Len(wire') = Len(wire) - 1
      /\ \A i \in 1 .. Len(wire') : i + 1 \in 1 .. Len(wire) /\ wire'[i] = wire[i + 1]
  <2>1. Len(wire) >= 1
    BY <1>0, <1>1, EmptySeq DEF Numbers
  <2> QED
    BY <1>0, <1>1, <2>1 DEF Numbers
<1>3. n \in pushed /\ n \in 1 .. MaxSeq /\ n # Resync /\ n \notin Given /\ n \in OnWire
  BY <1>0, <1>2 DEF DInv, WireFresh, OnWire, Numbers, Resync
<1>4. /\ cursor' = IF n > cursor THEN n ELSE cursor
      /\ got' = Append(got, <<boots, n>>)
  BY <1>3 DEF Receive
<1>5. /\ got' \in Seq(Frames) /\ Len(got') = Len(got) + 1
      /\ got'[Len(got) + 1] = <<boots, n>>
      /\ \A i \in 1 .. Len(got) : got'[i] = got[i]
      /\ \A i \in 1 .. Len(got') : i \in 1 .. Len(got) \/ i = Len(got) + 1
      /\ 1 .. Len(got) \subseteq 1 .. Len(got') /\ Len(got) + 1 \in 1 .. Len(got')
  <2>1. <<boots, n>> \in Frames
    BY <1>0, <1>3 DEF Frames, DInv, DeliveryTypeOK
  <2>2. /\ got' \in Seq(Frames) /\ Len(got') = Len(got) + 1
        /\ got'[Len(got) + 1] = <<boots, n>>
        /\ \A i \in 1 .. Len(got) : got'[i] = got[i]
    BY <1>0, <1>4, <2>1 DEF Numbers
  <2> QED
    BY <1>0, <2>2 DEF Numbers
<1>6. Given' = Given \cup {n}
  <2>1. ASSUME NEW m \in Given' PROVE m \in Given \cup {n}
    BY <1>1, <1>5 DEF Given
  <2>2. Given \subseteq Given'
    BY <1>1, <1>5 DEF Given
  <2>3. n \in Given'
    BY <1>1, <1>3, <1>5 DEF Given
  <2> QED
    BY <2>1, <2>2, <2>3
<1>7. \A i \in 1 .. Len(wire') : wire'[i] # n /\ wire'[i] \in OnWire
  <2> SUFFICES ASSUME NEW i \in 1 .. Len(wire') PROVE wire'[i] # n /\ wire'[i] \in OnWire
    OBVIOUS
  <2>1. i + 1 # 1 /\ i + 1 \in 1 .. Len(wire) /\ wire'[i] = wire[i + 1]
    BY <1>2
  <2> QED
    BY <2>1, <1>2 DEF DInv, WireFresh, OnWire
<1>8. OnWire' = OnWire \ {n}
  <2>1. \A m \in OnWire' : m \in OnWire \ {n}
    BY <1>7 DEF OnWire
  <2>2. ASSUME NEW m \in OnWire, m # n PROVE m \in OnWire'
    <3>1. PICK i \in 1 .. Len(wire) : wire[i] = m
      BY DEF OnWire
    <3>2. i # 1 /\ i \in Nat
      BY <3>1, <2>2, <1>2
    <3>3. i - 1 \in 1 .. Len(wire') /\ i - 1 + 1 = i
      BY <3>2, <1>0, <1>2 DEF Numbers
    <3>4. wire'[i - 1] = m
      BY <3>1, <3>3, <1>2
    <3> QED
      BY <3>3, <3>4 DEF OnWire
  <2> QED
    BY <2>1, <2>2
<1>9. DeliveryTypeOK'
  <2>1. cursor' \in 0 .. MaxSeq
    BY <1>3, <1>4, <1>0 DEF DInv, DeliveryTypeOK, Numbers
  <2> QED
    BY <1>1, <1>2, <1>5, <2>1 DEF DInv, DeliveryTypeOK, CInv, AInv
<1>10. OutboxFresh'
  BY <1>1, <1>3, <1>6, <1>8 DEF DInv, OutboxFresh
<1>11. WireFresh'
  <2>1. \A i \in 1 .. Len(wire') : wire'[i] \in pushed' /\ wire'[i] \notin Given'
    BY <1>1, <1>2, <1>6, <1>7 DEF DInv, WireFresh
  <2>2. ASSUME NEW i \in 1 .. Len(wire'), NEW j \in 1 .. Len(wire'), wire'[i] = wire'[j]
        PROVE  i = j
    <3>1. /\ i + 1 \in 1 .. Len(wire) /\ j + 1 \in 1 .. Len(wire)
          /\ wire[i + 1] = wire[j + 1]
      BY <1>2, <2>2
    <3>2. i + 1 = j + 1
      BY <3>1 DEF DInv, WireFresh
    <3> QED
      BY <3>2
  <2> QED
    BY <2>1, <2>2 DEF WireFresh
<1>12. Past'
  <2>1. ASSUME NEW i \in 1 .. Len(got')
        PROVE  got'[i][1] <= boots /\ (got'[i][1] = boots => got'[i][2] \in pushed)
    <3>1. CASE i \in 1 .. Len(got)
      BY <3>1, <1>5 DEF DInv, Past
    <3>2. CASE i = Len(got) + 1
      <4>1. got'[i] = <<boots, n>> /\ boots \in Nat
        BY <3>2, <1>0, <1>5 DEF Numbers
      <4> QED
        BY <4>1, <1>3
    <3> QED
      BY <3>1, <3>2, <1>5
  <2> QED
    BY <1>1, <2>1 DEF DInv, Past
<1>13. Targets'
  BY <1>1 DEF DInv, Targets
<1>14. OwnConnection'
  BY <1>1, <1>2 DEF DInv, OwnConnection
<1>15. GivenOnce'
  <2>1. \A i \in 1 .. Len(got) : got[i] # <<boots, n>>
    BY <1>3 DEF Given
  <2> QED
    BY <1>5, <2>1 DEF DInv, GivenOnce
<1>16. CursorCovers'
  <2> SUFFICES ASSUME NEW i \in 1 .. Len(got') PROVE got'[i][2] <= cursor'
    BY DEF CursorCovers
  <2>1. CASE i = Len(got) + 1
    BY <2>1, <1>0, <1>3, <1>4, <1>5 DEF Numbers
  <2>2. CASE i \in 1 .. Len(got)
    <3>1. got'[i] = got[i] /\ got[i][2] \in Nat /\ got[i][2] <= cursor
      BY <2>2, <1>0, <1>5 DEF DInv, CursorCovers, Numbers
    <3>2. cursor' \in Nat /\ cursor <= cursor' /\ cursor \in Nat
      BY <1>0, <1>3, <1>4 DEF Numbers
    <3> QED
      BY <3>1, <3>2
  <2> QED
    BY <2>1, <2>2, <1>5
<1>17. LiveFramesArrive'
  <2> SUFFICES ASSUME up, NEW m \in sent, m \in 1 .. MaxSeq, target[m] \in {opened, Everyone}
               PROVE  m \in OnWire' \/ m \in Given'
    BY <1>1 DEF LiveFramesArrive, OnWire, Given
  <2>1. m \in OnWire \/ m \in Given
    BY DEF DInv, LiveFramesArrive, OnWire, Given
  <2> QED
    BY <2>1, <1>6, <1>8
<1> QED
  BY <1>9, <1>10, <1>11, <1>12, <1>13, <1>14, <1>15, <1>16, <1>17 DEF DInv

\* Every step of the delivery keeps the account of its frames.
LEMMA DeliveryStep == DInv /\ [DeliveryNext]_allVars => DInv'
<1> SUFFICES ASSUME DInv, [DeliveryNext]_allVars PROVE DInv'
  OBVIOUS
<1>0. CInv'
  BY LayerStep DEF DInv
<1>1. CASE \E s \in Senders : Number(s) \/ Buffered(s) \/ Broadcast(s)
  BY <1>0, <1>1, NumberKeeps, BufferedKeeps, BroadcastKeeps
<1>2. CASE Expire \/ HandleResume
  BY <1>0, <1>2, ResumeKeeps
<1>3. CASE Connect \/ Disconnect
  BY <1>0, <1>3, ConnectKeeps
<1>4. CASE Restart
  BY <1>0, <1>4, RestartKeeps
<1>5. CASE Receive
  BY <1>0, <1>5, ReceiveKeeps
<1>6. CASE UNCHANGED allVars
  <2>1. /\ UNCHANGED <<boots, target, outbox, sent, opened, up, wire, asked, resumed, cursor, got, pushed>>
    BY <1>6 DEF allVars, layerVars, clientVars
  <2>2. OnWire' = OnWire /\ Given' = Given
    BY <2>1 DEF OnWire, Given
  <2>3. DeliveryTypeOK'
    BY <1>0, <2>1 DEF DInv, DeliveryTypeOK, CInv, AInv
  <2>4. OutboxFresh' /\ WireFresh' /\ Past'
    BY <2>1, <2>2 DEF DInv, OutboxFresh, WireFresh, Past
  <2>5. Targets' /\ OwnConnection' /\ GivenOnce' /\ CursorCovers' /\ LiveFramesArrive'
    BY <2>1 DEF DInv, Targets, OwnConnection, GivenOnce, CursorCovers, LiveFramesArrive
  <2> QED
    BY <1>0, <2>3, <2>4, <2>5 DEF DInv
<1> QED
  BY <1>1, <1>2, <1>3, <1>4, <1>5, <1>6 DEF DeliveryNext

\* Over any number of connections and restarts every variable of the delivery
\* keeps its type and the ring buffer its capacity (assign_seq, ensureWsConnected).
THEOREM DeliveryTypes == DeliverySpec => []DeliveryTypeOK
<1>1. DInv => DeliveryTypeOK
  BY DEF DInv
<1> QED
  BY <1>1, DeliveryStarts, DeliveryStep, PTL DEF DeliverySpec

\* The gateway's layer keeps its promises under restarts: every number of a
\* boot is in one place, and its replay misses nothing (assign_seq, replay).
THEOREM LayerSurvives == DeliverySpec => [](NumbersAccounted /\ NoSilentGap)
<1>1. DInv => NumbersAccounted /\ NoSilentGap
  BY CoverBuffer DEF DInv, CInv, AInv
<1> QED
  BY <1>1, DeliveryStarts, DeliveryStep, PTL DEF DeliverySpec

\* Whatever connection is open when a frame is broadcast, one that answers a
\* turn of a connection goes out on that one only; the others on the wire are
\* those without a target (the forwarder's filter on target_conn_id).
THEOREM FramesStayHome == DeliverySpec => []OwnConnection
<1>1. DInv => OwnConnection
  BY DEF DInv
<1> QED
  BY <1>1, DeliveryStarts, DeliveryStep, PTL DEF DeliverySpec

\* No frame is given to the client twice, over any number of connections,
\* resumes and restarts (Gateway::dispatch, the forwarder, onmessage).
THEOREM NoFrameTwice == DeliverySpec => []GivenOnce
<1>1. DInv => GivenOnce
  BY DEF DInv
<1> QED
  BY <1>1, DeliveryStarts, DeliveryStep, PTL DEF DeliverySpec

\* The cursor is past everything the client was given, frames that overtook
\* each other and those of earlier boots included (onmessage, saveLastSeq).
THEOREM CursorPastAll == DeliverySpec => []CursorCovers
<1>1. DInv => CursorCovers
  BY DEF DInv
<1> QED
  BY <1>1, DeliveryStarts, DeliveryStep, PTL DEF DeliverySpec

\* A frame broadcast while its connection is up is on the wire or given, as
\* long as the connection stays up (WebBridge::send, the forwarder).
THEOREM LiveDelivery == DeliverySpec => []LiveFramesArrive
<1>1. DInv => LiveFramesArrive
  BY DEF DInv
<1> QED
  BY <1>1, DeliveryStarts, DeliveryStep, PTL DEF DeliverySpec

\* Between two restarts the numbers, the buffer and the purge move only as the
\* layer's own specification lets them: every boot of the daemon is a behaviour
\* of ReliabilityLayer (Gateway::dispatch calls assign_seq and nothing else).
THEOREM BootsAreLayers == DeliverySpec => Init /\ [][Next \/ Init']_vars
<1>1. [DeliveryNext]_allVars => [Next \/ Init']_vars
  <2> SUFFICES ASSUME DeliveryNext PROVE Next \/ Init' \/ UNCHANGED vars
    BY DEF allVars, layerVars, vars
  <2>1. CASE \E s \in Senders : Number(s) \/ Buffered(s)
    BY <2>1 DEF Number, Buffered, Next
  <2>2. CASE Expire
    BY <2>2 DEF Expire, Next
  <2>3. CASE Restart
    BY <2>3 DEF Restart, Init
  <2>4. CASE \E s \in Senders : Broadcast(s)
    BY <2>4 DEF Broadcast, layerVars, vars
  <2>5. CASE Connect \/ HandleResume \/ Receive \/ Disconnect
    BY <2>5 DEF Connect, HandleResume, Receive, Disconnect, layerVars, vars
  <2> QED
    BY <2>1, <2>2, <2>3, <2>4, <2>5 DEF DeliveryNext
<1> QED
  BY <1>1, PTL DEF DeliverySpec, DeliveryInit

\* Answering a resume puts nothing on the wire, neither a replayed frame nor the
\* marker: the bridge asks a layer of its own that nobody numbers frames in
\* (plugin.rs, replay_after).  It is why ResumeFillsGap fails.
THEOREM ResumesBringNothing == DeliverySpec => [][HandleResume => wire' = wire]_allVars
<1>1. DInv /\ [DeliveryNext]_allVars => [HandleResume => wire' = wire]_allVars
  BY ResumesBring DEF DInv
<1>2. []DInv /\ [][DeliveryNext]_allVars => [][HandleResume => wire' = wire]_allVars
  BY <1>1, PTL
<1> QED
  BY <1>2, DeliveryStarts, DeliveryStep, PTL DEF DeliverySpec
-----------------------------------------------------------------------------
(* What the first connection of a client is given *)

\* a dispatch task has one frame at a time, and while the first connection is up
\* every frame of its turns pushed in this boot was broadcast on it or is about
\* to be
FirstInv ==
  /\ \A s \in Senders : hand[s] # 0 => outbox[s] = 0
  /\ up /\ opened = 1 =>
       \A n \in pushed : target[n] = 1 => n \in sent \/ \E s \in Senders : outbox[s] = n

\* No turn is the connection's before it is open, and a frame goes from its
\* task's hand to the outbox to the open connection (dispatch, WebBridge::send).
LEMMA FirstStep ==
  ASSUME DInv, FirstInv, [DeliveryNext]_allVars
  PROVE  FirstInv'
<1>0. Numbers /\ hand \in [Senders -> 0 .. MaxSeq] /\ outbox \in [Senders -> 0 .. MaxSeq]
      /\ target \in [1 .. MaxSeq -> 0 .. Elsewhere]
  BY InNumbers DEF DInv, DeliveryTypeOK, TypeOK
<1>1. ASSUME NEW s \in Senders, Number(s) PROVE FirstInv'
  <2>1. PICK c \in (1 .. opened) \cup OtherTurns : target' = [target EXCEPT ![seq + 1] = c]
    BY <1>1 DEF Number
  <2>2. /\ outbox[s] = 0
        /\ hand' = [hand EXCEPT ![s] = seq + 1]
        /\ UNCHANGED <<pushed, boots, outbox, sent, opened, up>>
    BY <1>1 DEF Number, Draw, clientVars
  <2>3. \A n \in pushed : target'[n] = target[n]
    BY <1>0, <2>1 DEF Numbers
  <2>4. \A t \in Senders : hand'[t] # 0 => outbox'[t] = 0
    BY <1>0, <2>2 DEF FirstInv
  <2> QED
    BY <2>2, <2>3, <2>4 DEF FirstInv
<1>2. ASSUME NEW s \in Senders, Buffered(s) PROVE FirstInv'
  <2>1. /\ hand[s] # 0 /\ hand' = [hand EXCEPT ![s] = 0]
        /\ pushed' = pushed \cup {hand[s]}
        /\ outbox' = [outbox EXCEPT ![s] = hand[s]]
        /\ UNCHANGED <<boots, target, sent, opened, up>>
    BY <1>2 DEF Buffered, Push, clientVars
  <2>2. outbox[s] = 0
    BY <2>1 DEF FirstInv
  <2>3. \A t \in Senders : hand'[t] # 0 => outbox'[t] = 0
    BY <1>0, <2>1 DEF FirstInv
  <2>4. \A n \in pushed' \ pushed : outbox'[s] = n
    BY <1>0, <2>1
  <2>5. \A n \in pushed, t \in Senders : outbox[t] = n => outbox'[t] = n
    BY <1>0, <2>1, <2>2 DEF Numbers
  <2> QED
    BY <2>1, <2>3, <2>4, <2>5 DEF FirstInv
<1>3. ASSUME NEW s \in Senders, Broadcast(s) PROVE FirstInv'
  <2>1. /\ outbox[s] # 0 /\ outbox' = [outbox EXCEPT ![s] = 0]
        /\ up => sent' = sent \cup {outbox[s]}
        /\ UNCHANGED <<hand, pushed, boots, target, opened, up>>
    BY <1>3 DEF Broadcast, layerVars
  <2>2. \A t \in Senders : t # s => outbox'[t] = outbox[t]
    BY <1>0, <2>1
  <2>3. \A t \in Senders : hand'[t] # 0 => outbox'[t] = 0
    BY <1>0, <2>1 DEF FirstInv
  <2> QED
    BY <2>1, <2>2, <2>3 DEF FirstInv
<1>4. CASE Connect
  <2>1. /\ opened' = opened + 1 /\ opened < MaxConns
        /\ UNCHANGED <<hand, pushed, target, outbox>>
    BY <1>4 DEF Connect, layerVars
  <2>2. ASSUME opened' = 1, NEW n \in pushed PROVE target[n] # 1
    <3>1. n \in 1 .. MaxSeq /\ opened = 0
      BY <1>0, <2>1, <2>2 DEF Numbers
    <3>2. target[n] <= 0 \/ target[n] = MaxConns + 1
      BY <3>1 DEF DInv, Targets, Elsewhere
    <3> QED
      BY <1>0, <2>1, <3>1, <3>2 DEF Numbers
  <2> QED
    BY <2>1, <2>2 DEF FirstInv
<1>5. CASE Restart
  <2>1. ~up' /\ \A s \in Senders : hand'[s] = 0
    BY <1>5 DEF Restart
  <2> QED
    BY <2>1 DEF FirstInv
<1>6. CASE Disconnect
  BY <1>6 DEF Disconnect, layerVars, FirstInv
<1>7. CASE Expire \/ HandleResume \/ Receive \/ UNCHANGED allVars
  <2>1. UNCHANGED <<hand, pushed, boots, target, outbox, sent, opened, up>>
    BY <1>7 DEF Expire, Age, HandleResume, Receive, allVars, layerVars, clientVars
  <2> QED
    BY <2>1 DEF FirstInv
<1> QED
  BY <1>1, <1>2, <1>3, <1>4, <1>5, <1>6, <1>7 DEF DeliveryNext

\* Until the client reconnects nothing of its own turns is missing: once
\* everything is quiet the client has every frame of theirs, so that only a
\* reconnect can break ResumeFillsGap (ensureWsConnected, WebBridge::send).
THEOREM FirstConnectionComplete == DeliverySpec => [](opened <= 1 /\ up /\ Idle => OwnFramesGiven(0))
<1>1. DeliveryInit => FirstInv
  <2> SUFFICES ASSUME DeliveryInit PROVE FirstInv
    OBVIOUS
  <2>1. ~up /\ \A s \in Senders : hand[s] = 0
    BY DEF DeliveryInit, Init
  <2> QED
    BY <2>1 DEF FirstInv
<1>2. DInv /\ FirstInv => (opened <= 1 /\ up /\ Idle => OwnFramesGiven(0))
  <2> SUFFICES ASSUME DInv, FirstInv, opened <= 1, up, Idle,
                      NEW n \in pushed, target[n] \in 1 .. opened
               PROVE  \E i \in 1 .. Len(got) : got[i] = <<boots, n>>
    BY DEF OwnFramesGiven
  <2>1. Numbers
    BY InNumbers
  <2>2. n \in 1 .. MaxSeq
    BY <2>1 DEF Numbers
  <2>3. target[n] = 1 /\ opened = 1
    BY <2>1 DEF Numbers
  <2>4. n \in sent
    <3>1. n # 0
      BY <2>1 DEF Numbers
    <3> QED
      BY <2>3, <3>1 DEF FirstInv, Idle
  <2>5. ~\E i \in 1 .. Len(wire) : wire[i] = n
    BY DEF Idle
  <2>6. \E i \in 1 .. Len(got) : got[i] = <<boots, n>>
    <3>1. LiveFramesArrive
      BY DEF DInv
    <3>2. target[n] \in {opened, Everyone}
      BY <2>3
    <3> QED
      BY <2>2, <2>4, <2>5, <3>1, <3>2, Zenon DEF LiveFramesArrive
  <2> QED
    BY <2>6
<1>3. DInv /\ FirstInv /\ [DeliveryNext]_allVars => (DInv /\ FirstInv)'
  BY DeliveryStep, FirstStep
<1> QED
  BY <1>1, <1>2, <1>3, DeliveryStarts, PTL DEF DeliverySpec

=============================================================================
