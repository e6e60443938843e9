------------------------ MODULE ReliabilityLayerProofs ------------------------
(***************************************************************************)
(* Proofs about the delivery layer, for every set of senders, buffer size  *)
(* and number of messages.                                                 *)
(*                                                                         *)
(* Accounted: with any number of concurrent senders the buffer stays       *)
(* within its capacity and every number drawn is in one place.             *)
(*                                                                         *)
(* ReplayCovers: with any number of them a replay misses nothing, unless   *)
(* the message at the buffer's front was overtaken.                        *)
(*                                                                         *)
(* Gapless: with a single sender no message is, and a replay is exactly    *)
(* the numbers after the cursor, in order.                                 *)
(***************************************************************************)
EXTENDS ReliabilityLayer, FilterProofs

AInv == TypeOK /\ NumbersAccounted /\ BufferBounded

\* What a push keeps of the buffer: a suffix with room for one entry more.
LEMMA KeptSuffix ==
  ASSUME TypeOK
  PROVE  /\ Cut \in Nat
         /\ stale <= Cut /\ Cut <= Len(buffer)
         /\ Len(buffer) - Cut < BufferSize
         /\ Kept \in Seq(1 .. MaxSeq)
         /\ Len(Kept) = Len(buffer) - Cut
         /\ \A i \in 1 .. Len(Kept) : Kept[i] = buffer[i + Cut]
<1>1. /\ Len(buffer) \in Nat /\ stale \in Nat /\ stale <= Len(buffer)
      /\ BufferSize \in Nat /\ BufferSize >= 1
      /\ buffer \in Seq(1 .. MaxSeq)
  BY LayerAssumption DEF TypeOK
<1>2. /\ Cut \in Nat /\ stale <= Cut /\ Cut <= Len(buffer)
      /\ Len(buffer) - Cut < BufferSize
  BY <1>1 DEF Cut
<1>3. \A i \in Cut + 1 .. Len(buffer) : i \in 1 .. Len(buffer) /\ buffer[i] \in 1 .. MaxSeq
  <2> SUFFICES ASSUME NEW i \in Cut + 1 .. Len(buffer)
               PROVE  i \in 1 .. Len(buffer) /\ buffer[i] \in 1 .. MaxSeq
    OBVIOUS
  <2>1. i \in 1 .. Len(buffer)
    BY <1>1, <1>2
  <2> QED
    BY <2>1, <1>1, ElementOfSeq
<1>4. /\ Kept \in Seq(1 .. MaxSeq)
      /\ Len(Kept) = IF Cut + 1 <= Len(buffer) THEN Len(buffer) - (Cut + 1) + 1 ELSE 0
      /\ \A i \in 1 .. Len(buffer) - (Cut + 1) + 1 : Kept[i] = buffer[Cut + 1 + i - 1]
  <2>1. Cut + 1 \in Int /\ Len(buffer) \in Int
    BY <1>1, <1>2
  <2> QED
    BY <2>1, <1>3, SubSeqProperties DEF Kept
<1>5. Len(Kept) = Len(buffer) - Cut
  BY <1>1, <1>2, <1>4
<1>6. \A i \in 1 .. Len(Kept) : Kept[i] = buffer[i + Cut]
  <2> SUFFICES ASSUME NEW i \in 1 .. Len(Kept) PROVE Kept[i] = buffer[i + Cut]
    OBVIOUS
  <2>1. i \in 1 .. Len(buffer) - (Cut + 1) + 1 /\ Cut + 1 + i - 1 = i + Cut
    BY <1>1, <1>2, <1>5
  <2> QED
    BY <2>1, <1>4
<1> QED
  BY <1>2, <1>4, <1>5, <1>6

\* What a push makes of the buffer.
LEMMA PushedBuffer ==
  ASSUME TypeOK, NEW s \in Senders, Push(s)
  PROVE  /\ buffer' \in Seq(1 .. MaxSeq)
         /\ Len(buffer') = Len(buffer) - Cut + 1
         /\ \A i \in 1 .. Len(buffer) - Cut :
              i + Cut \in 1 .. Len(buffer) /\ buffer'[i] = buffer[i + Cut]
         /\ buffer'[Len(buffer')] = hand[s]
<1>1. hand[s] \in 1 .. MaxSeq
  BY DEF TypeOK, Push
<1>2. buffer' = Append(Kept, hand[s])
  BY DEF Push
<1>3. Len(buffer) \in Nat
  BY DEF TypeOK
<1> QED
  BY <1>1, <1>2, <1>3, KeptSuffix

\* An empty layer has nothing to account for.
LEMMA AccountedInit == Init => AInv
<1> SUFFICES ASSUME Init PROVE AInv
  OBVIOUS
<1>1. TypeOK
  BY LayerAssumption DEF Init, TypeOK
<1>2. NumbersAccounted
  BY DEF Init, NumbersAccounted
<1>3. BufferBounded
  BY LayerAssumption DEF Init, BufferBounded
<1> QED
  BY <1>1, <1>2, <1>3 DEF AInv

\* Drawing a number, aging an entry and pushing one keep the account.
LEMMA AccountedStep == AInv /\ [Next]_vars => AInv'
<1> SUFFICES ASSUME AInv, [Next]_vars PROVE AInv'
  OBVIOUS
<1> USE DEF AInv
<1>0. /\ MaxSeq \in Nat /\ seq \in Nat /\ seq <= MaxSeq /\ Len(buffer) \in Nat
      /\ \A s \in Senders : hand[s] \in Nat /\ hand[s] <= seq
      /\ \A n \in pushed : n \in Nat /\ n <= seq
  BY LayerAssumption DEF TypeOK, NumbersAccounted
<1>1. ASSUME NEW s \in Senders, Draw(s) PROVE AInv'
  <2>1. TypeOK'
    BY <1>0, <1>1 DEF Draw, TypeOK
  <2>2. /\ hand' = [hand EXCEPT ![s] = seq + 1] /\ hand[s] = 0 /\ pushed' = pushed
        /\ seq' = seq + 1 /\ buffer' = buffer /\ overtaken' = overtaken
    BY <1>1 DEF Draw
  <2>3. /\ hand'[s] = seq + 1
        /\ \A t \in Senders : t # s => hand'[t] = hand[t]
    BY <2>2 DEF TypeOK
  <2>4. pushed' \cup ({hand'[t] : t \in Senders} \ {0}) = 1 .. seq'
    <3>1. ASSUME NEW n \in 1 .. seq' PROVE n \in pushed' \cup ({hand'[t] : t \in Senders} \ {0})
      <4>1. CASE n = seq + 1
        BY <4>1, <2>3, <1>0
      <4>2. CASE n # seq + 1
        <5>1. n \in 1 .. seq
          BY <4>2, <1>0, <2>2
        <5>2. n \in pushed \/ \E t \in Senders : hand[t] = n /\ n # 0
          BY <5>1 DEF NumbersAccounted
        <5>3. ASSUME NEW t \in Senders, hand[t] = n, n # 0
              PROVE  n \in {hand'[u] : u \in Senders} \ {0}
          <6>1. t # s
            BY <5>3, <2>2
          <6> QED
            BY <5>3, <6>1, <2>3
        <5> QED
          BY <5>2, <5>3, <2>2
      <4> QED
        BY <4>1, <4>2
    <3>2. ASSUME NEW n \in pushed' PROVE n \in 1 .. seq'
      <4>1. n \in 1 .. seq
        BY <3>2, <2>2 DEF NumbersAccounted
      <4> QED
        BY <4>1, <2>2, <1>0
    <3>3. ASSUME NEW t \in Senders, hand'[t] # 0 PROVE hand'[t] \in 1 .. seq'
      BY <3>3, <2>2, <2>3, <1>0
    <3> QED
      BY <3>1, <3>2, <3>3
  <2>5. NumbersAccounted'
    BY <2>2, <2>3, <2>4, <1>0 DEF NumbersAccounted
  <2>6. BufferBounded'
    BY <2>2 DEF BufferBounded
  <2> QED
    BY <2>1, <2>5, <2>6
<1>2. ASSUME NEW s \in Senders, Push(s) PROVE AInv'
  <2>1. /\ buffer' \in Seq(1 .. MaxSeq)
        /\ Len(buffer') = Len(buffer) - Cut + 1
        /\ \A i \in 1 .. Len(buffer) - Cut :
             i + Cut \in 1 .. Len(buffer) /\ buffer'[i] = buffer[i + Cut]
        /\ buffer'[Len(buffer')] = hand[s]
    BY <1>2, PushedBuffer
  <2>2. Cut \in Nat /\ Cut <= Len(buffer) /\ Len(buffer) - Cut < BufferSize
    BY KeptSuffix
  <2>3. /\ hand' = [hand EXCEPT ![s] = 0] /\ hand[s] # 0 /\ seq' = seq
        /\ pushed' = pushed \cup {hand[s]} /\ stale' = 0
    BY <1>2 DEF Push
  <2>4. hand[s] \in 1 .. MaxSeq /\ hand[s] \notin pushed
    BY <2>3, <1>0 DEF TypeOK, NumbersAccounted
  <2>5. TypeOK'
    <3>1. hand' \in [Senders -> 0 .. MaxSeq]
      BY <2>3, <1>0 DEF TypeOK
    <3>2. stale' \in 0 .. Len(buffer') /\ pushed' \subseteq 1 .. MaxSeq
      <4>1. Len(buffer') \in Nat
        BY <2>1, <2>2, <1>0
      <4>2. stale' \in 0 .. Len(buffer')
        BY <4>1, <2>3
      <4>3. pushed \subseteq 1 .. MaxSeq
        BY DEF TypeOK
      <4> QED
        BY <4>2, <4>3, <2>3, <2>4
    <3>3. overtaken' \subseteq pushed'
      BY <1>2, <2>3 DEF Push, TypeOK
    <3> QED
      BY <2>1, <2>3, <3>1, <3>2, <3>3 DEF TypeOK
  <2>6. BufferBounded'
    BY <2>1, <2>2, <1>0, LayerAssumption DEF BufferBounded
  <2>7. /\ hand'[s] = 0
        /\ \A t \in Senders : t # s => hand'[t] = hand[t]
    BY <2>3 DEF TypeOK
  <2>8. pushed' \cup ({hand'[t] : t \in Senders} \ {0}) = 1 .. seq'
    <3>1. ASSUME NEW n \in 1 .. seq' PROVE n \in pushed' \cup ({hand'[t] : t \in Senders} \ {0})
      <4>1. n \in pushed \/ \E t \in Senders : hand[t] = n /\ n # 0
        BY <2>3 DEF NumbersAccounted
      <4>2. ASSUME NEW t \in Senders, hand[t] = n, n # 0
            PROVE  n \in pushed' \cup ({hand'[u] : u \in Senders} \ {0})
        BY <4>2, <2>3, <2>7
      <4> QED
        BY <4>1, <4>2, <2>3
    <3>2. ASSUME NEW n \in pushed' PROVE n \in 1 .. seq'
      <4>1. n \in pushed \/ n = hand[s]
        BY <2>3
      <4>2. n \in pushed => n \in 1 .. seq
        BY DEF NumbersAccounted
      <4>3. hand[s] \in 1 .. seq
        BY <2>3, <2>4, <1>0
      <4> QED
        BY <4>1, <4>2, <4>3, <2>3
    <3>3. ASSUME NEW t \in Senders, hand'[t] # 0 PROVE hand'[t] \in 1 .. seq'
      BY <3>3, <2>3, <2>7, <1>0
    <3> QED
      BY <3>1, <3>2, <3>3
  <2>9. \A t, u \in Senders : t # u /\ hand'[t] # 0 => hand'[t] # hand'[u]
    BY <2>7 DEF NumbersAccounted
  <2>10. \A t \in Senders : hand'[t] \notin pushed'
    <3> SUFFICES ASSUME NEW t \in Senders PROVE hand'[t] \notin pushed'
      OBVIOUS
    <3>1. CASE t = s
      <4>1. 0 \notin pushed'
        BY <2>3, <2>4 DEF TypeOK
      <4> QED
        BY <3>1, <4>1, <2>7
    <3>2. CASE t # s
      <4>1. hand[t] \notin pushed /\ hand[t] # hand[s]
        BY <3>2, <2>3 DEF NumbersAccounted
      <4> QED
        BY <3>2, <4>1, <2>3, <2>7
    <3> QED
      BY <3>1, <3>2
  <2>11. ASSUME NEW i \in 1 .. Len(buffer')
         PROVE  \/ /\ i \in 1 .. Len(buffer) - Cut /\ i + Cut \in 1 .. Len(buffer)
                   /\ buffer'[i] = buffer[i + Cut] /\ buffer'[i] \in pushed
                \/ i = Len(buffer') /\ buffer'[i] = hand[s]
    <3>1. i \in 1 .. Len(buffer) - Cut \/ i = Len(buffer')
      <4>1. /\ Len(buffer') = Len(buffer) - Cut + 1
            /\ i \in Nat /\ 1 <= i /\ i <= Len(buffer')
            /\ Len(buffer) - Cut \in Nat
        BY <2>1, <2>2, <1>0
      <4> QED
        BY <4>1
    <3>2. CASE i \in 1 .. Len(buffer) - Cut
      BY <3>2, <2>1 DEF NumbersAccounted
    <3> QED
      BY <3>1, <3>2, <2>1
  <2>12. \A i \in 1 .. Len(buffer') : buffer'[i] \in pushed'
    BY <2>11, <2>3
  <2>13. ASSUME NEW i \in 1 .. Len(buffer'), NEW j \in 1 .. Len(buffer'), buffer'[i] = buffer'[j]
         PROVE  i = j
    <3>1. CASE i = Len(buffer') /\ j = Len(buffer')
      BY <3>1
    <3>2. CASE i # Len(buffer') /\ j # Len(buffer')
      <4>1. /\ i + Cut \in 1 .. Len(buffer) /\ buffer'[i] = buffer[i + Cut]
            /\ j + Cut \in 1 .. Len(buffer) /\ buffer'[j] = buffer[j + Cut]
        BY <3>2, <2>11
      <4>2. i + Cut = j + Cut
        BY <4>1, <2>13 DEF NumbersAccounted
      <4> QED
        BY <4>2, <2>2
    <3>3. CASE i = Len(buffer') /\ j # Len(buffer')
      BY <3>3, <2>11, <2>4, <2>13, <2>1
    <3>4. CASE i # Len(buffer') /\ j = Len(buffer')
      BY <3>4, <2>11, <2>4, <2>13, <2>1
    <3> QED
      BY <3>1, <3>2, <3>3, <3>4
  <2>14. NumbersAccounted'
    BY <2>8, <2>9, <2>10, <2>12, <2>13 DEF NumbersAccounted
  <2> QED
    BY <2>5, <2>6, <2>14
<1>3. CASE Age
  <2>1. TypeOK'
    BY <1>3, <1>0 DEF Age, TypeOK
  <2> QED
    BY <1>3, <2>1 DEF Age, NumbersAccounted, BufferBounded
<1>4. CASE UNCHANGED vars
  BY <1>4 DEF vars, TypeOK, NumbersAccounted, BufferBounded
<1> QED
  BY <1>1, <1>2, <1>3, <1>4 DEF Next

\* However many tasks assign numbers at the same time, every number drawn is
\* in one task's hand or pushed, once, and the ring buffer keeps within its
\* capacity (assign_seq).
THEOREM Accounted == Spec => [](NumbersAccounted /\ BufferBounded)
<1>1. AInv => NumbersAccounted /\ BufferBounded
  BY DEF AInv
<1> QED
  BY <1>1, AccountedInit, AccountedStep, PTL DEF Spec

-----------------------------------------------------------------------------
(* Any number of senders *)

\* what is in the buffer from a place on
From(i) == {buffer[j] : j \in i .. Len(buffer)}

\* whatever was pushed and is not behind a message that was not overtaken is
\* smaller than that message
CInv ==
  /\ AInv
  /\ Len(buffer) = 0 => pushed = {}
  /\ \A i \in 1 .. Len(buffer) :
       buffer[i] \notin overtaken => \A n \in pushed : n \in From(i) \/ n < buffer[i]

\* An empty layer covers nothing.
LEMMA CoverInit == Init => CInv
<1> SUFFICES ASSUME Init PROVE CInv
  OBVIOUS
<1> QED
  BY AccountedInit DEF Init, CInv

\* Evictions are from the front, so they leave each message with what is
\* behind it; a message that is not overtaken at its push is the largest.
LEMMA CoverStep == CInv /\ [Next]_vars => CInv'
<1> SUFFICES ASSUME CInv, [Next]_vars PROVE CInv'
  OBVIOUS
<1>0. AInv' /\ AInv /\ TypeOK
  BY AccountedStep DEF CInv, AInv
<1>1. ASSUME NEW s \in Senders, Draw(s) PROVE CInv'
  BY <1>0, <1>1 DEF Draw, CInv, From
<1>2. ASSUME NEW s \in Senders, Push(s) PROVE CInv'
  <2>1. /\ Len(buffer') = Len(buffer) - Cut + 1
        /\ \A i \in 1 .. Len(buffer) - Cut :
             i + Cut \in 1 .. Len(buffer) /\ buffer'[i] = buffer[i + Cut]
        /\ buffer'[Len(buffer')] = hand[s]
    BY <1>0, <1>2, PushedBuffer
  <2>2. Cut \in Nat /\ Cut <= Len(buffer) /\ Len(buffer) \in Nat
    BY <1>0, KeptSuffix DEF TypeOK
  <2>3. /\ pushed' = pushed \cup {hand[s]}
        /\ overtaken' = IF \E n \in pushed : n > hand[s]
                        THEN overtaken \cup {hand[s]} ELSE overtaken
    BY <1>2 DEF Push
  <2>4. hand[s] \in Nat /\ hand[s] \notin pushed /\ pushed \subseteq Nat
    BY <1>0, LayerAssumption DEF AInv, TypeOK, NumbersAccounted
  <2>5. ASSUME NEW i \in 1 .. Len(buffer'), buffer'[i] \notin overtaken', NEW n \in pushed'
        PROVE  n \in From(i)' \/ n < buffer'[i]
    <3>1. hand[s] \in From(i)'
      BY <2>1, <2>2 DEF From
    <3>2. CASE i = Len(buffer')
      <4>1. buffer'[i] = hand[s]
        BY <3>2, <2>1
      <4>2. ~ \E m \in pushed : m > hand[s]
        BY <4>1, <2>3, <2>5
      <4>3. n = hand[s] \/ n < hand[s]
        BY <4>2, <2>3, <2>4
      <4> QED
        BY <4>1, <4>3, <3>1
    <3>3. CASE i # Len(buffer') /\ n # hand[s]
      <4>0. i \in Nat /\ 1 <= i /\ i <= Len(buffer) - Cut + 1 /\ i # Len(buffer) - Cut + 1
        BY <3>3, <2>1, <2>2
      <4>1. i \in 1 .. Len(buffer) - Cut
        BY <4>0, <2>2
      <4>2. i + Cut \in 1 .. Len(buffer) /\ buffer'[i] = buffer[i + Cut]
        BY <4>1, <2>1
      <4>3. buffer[i + Cut] \notin overtaken /\ n \in pushed
        BY <4>2, <2>3, <2>5, <3>3
      <4>4. n \in From(i + Cut) \/ n < buffer[i + Cut]
        BY <4>2, <4>3 DEF CInv
      <4>5. ASSUME NEW j \in i + Cut .. Len(buffer), buffer[j] = n PROVE n \in From(i)'
        <5>1. j - Cut \in 1 .. Len(buffer) - Cut /\ j - Cut + Cut = j
          BY <4>0, <2>2
        <5>2. buffer'[j - Cut] = n
          BY <5>1, <4>5, <2>1
        <5>3. j - Cut \in i .. Len(buffer')
          BY <4>0, <2>1, <2>2
        <5> QED
          BY <5>2, <5>3 DEF From
      <4> QED
        BY <4>2, <4>4, <4>5 DEF From
    <3> QED
      BY <3>1, <3>2, <3>3
  <2>6. Len(buffer') # 0
    BY <2>1, <2>2
  <2> QED
    BY <1>0, <2>5, <2>6 DEF CInv
<1>3. CASE Age
  BY <1>0, <1>3 DEF Age, CInv, From
<1>4. CASE UNCHANGED vars
  BY <1>0, <1>4 DEF vars, CInv, From
<1> QED
  BY <1>1, <1>2, <1>3, <1>4 DEF Next

\* What is behind the front is the whole buffer.
LEMMA CoverBuffer == CInv => NoSilentGap
<1> SUFFICES ASSUME CInv, buffer = <<>> \/ Head(buffer) \notin overtaken,
                    NEW c \in 0 .. seq, NEW n \in pushed, n > c, ~Resyncs(c)
             PROVE  \E i \in 1 .. Len(Replayed(c)) : Replayed(c)[i] = n
  BY DEF NoSilentGap
<1>1. /\ buffer \in Seq(1 .. MaxSeq) /\ Len(buffer) \in Nat
      /\ n \in 1 .. MaxSeq /\ n \in Nat /\ c \in Nat
  BY LayerAssumption DEF CInv, AInv, TypeOK
<1>2. Len(buffer) >= 1 /\ buffer # <<>>
  BY <1>1, EmptySeq DEF CInv
<1>3. Head(buffer) = buffer[1] /\ buffer[1] \in Nat
  <2>1. 1 \in 1 .. Len(buffer)
    BY <1>1, <1>2
  <2>2. buffer[1] \in 1 .. MaxSeq
    BY <1>1, <2>1, ElementOfSeq
  <2> QED
    BY <2>2, <1>1, <1>2
<1>4. n \in From(1) \/ n < buffer[1]
  BY <1>1, <1>2, <1>3 DEF CInv
<1>5. ~(n < buffer[1])
  BY <1>1, <1>2, <1>3 DEF Resyncs
<1>6. PICK j \in 1 .. Len(buffer) : buffer[j] = n
  BY <1>4, <1>5 DEF From
<1> DEFINE S == {m \in 1 .. MaxSeq : m > c}
<1>7. n \in S
  BY <1>1
<1> HIDE DEF S
<1>8. \E k \in 1 .. Len(Among(buffer, S)) : Among(buffer, S)[k] = n
  BY <1>1, <1>6, <1>7, AmongEntries
<1> QED
  BY <1>8 DEF S, Replayed

\* A client that is not told to resync is replayed everything it missed,
\* however many tasks assign numbers, unless the message at the buffer's front
\* was overtaken by a larger number (assign_seq, replay).
THEOREM ReplayCovers == Spec => []NoSilentGap
<1> QED
  BY CoverInit, CoverStep, CoverBuffer, PTL DEF Spec

-----------------------------------------------------------------------------
(* A single sender *)

OneSender == \A s, t \in Senders : s = t

\* the highest number pushed
Top == IF \E s \in Senders : hand[s] # 0 THEN seq - 1 ELSE seq

\* the buffer holds the numbers that end in Top, and is only empty at first
GInv ==
  /\ TypeOK
  /\ \A s \in Senders : hand[s] # 0 => hand[s] = seq
  /\ pushed = 1 .. Top
  /\ overtaken = {}
  /\ Len(buffer) = 0 => Top = 0
  /\ \A i \in 1 .. Len(buffer) : buffer[i] = Top - Len(buffer) + i

\* An empty layer has no gap.
LEMMA GaplessInit == Init => GInv
<1> SUFFICES ASSUME Init PROVE GInv
  OBVIOUS
<1>1. TypeOK
  BY LayerAssumption DEF Init, TypeOK
<1>2. Top = 0
  BY DEF Init, Top
<1> QED
  BY <1>1, <1>2 DEF Init, GInv

\* With one sender the number in its hand is the next one to be pushed.
LEMMA GaplessStep == OneSender /\ GInv /\ [Next]_vars => GInv'
<1> SUFFICES ASSUME OneSender, GInv, [Next]_vars PROVE GInv'
  OBVIOUS
<1> USE DEF GInv
<1>0. /\ MaxSeq \in Nat /\ seq \in Nat /\ seq <= MaxSeq /\ Len(buffer) \in Nat
      /\ \A s \in Senders : hand[s] \in Nat
  BY LayerAssumption DEF TypeOK
<1>1. ASSUME NEW s \in Senders, Draw(s) PROVE GInv'
  <2>1. TypeOK'
    BY <1>0, <1>1 DEF Draw, TypeOK
  <2>2. /\ hand' = [hand EXCEPT ![s] = seq + 1] /\ hand[s] = 0 /\ pushed' = pushed
        /\ seq' = seq + 1 /\ buffer' = buffer /\ overtaken' = overtaken
    BY <1>1 DEF Draw
  <2>3. hand'[s] = seq + 1 /\ \A t \in Senders : t = s
    BY <2>2 DEF TypeOK, OneSender
  <2>4. Top = seq
    BY <2>2, <2>3 DEF Top
  <2>5. Top' = seq
    <3>1. hand'[s] # 0
      BY <2>3, <1>0
    <3>2. Top' = seq' - 1
      BY <3>1 DEF Top
    <3> QED
      BY <3>2, <2>2, <1>0
  <2> QED
    BY <2>1, <2>2, <2>3, <2>4, <2>5
<1>2. ASSUME NEW s \in Senders, Push(s) PROVE GInv'
  <2>1. /\ buffer' \in Seq(1 .. MaxSeq)
        /\ Len(buffer') = Len(buffer) - Cut + 1
        /\ \A i \in 1 .. Len(buffer) - Cut :
             i + Cut \in 1 .. Len(buffer) /\ buffer'[i] = buffer[i + Cut]
        /\ buffer'[Len(buffer')] = hand[s]
    BY <1>2, PushedBuffer
  <2>2. Cut \in Nat /\ Cut <= Len(buffer)
    BY KeptSuffix
  <2>3. /\ hand' = [hand EXCEPT ![s] = 0] /\ hand[s] # 0 /\ seq' = seq
        /\ pushed' = pushed \cup {hand[s]} /\ stale' = 0
    BY <1>2 DEF Push
  <2>4. hand[s] = seq /\ seq \in 1 .. MaxSeq
    BY <2>3, <1>0
  <2>5. Top = seq - 1
    BY <2>3 DEF Top
  <2>6. hand'[s] = 0 /\ \A t \in Senders : t = s
    BY <2>3 DEF TypeOK, OneSender
  <2>7. Top' = seq
    <3>1. ~ \E t \in Senders : hand'[t] # 0
      BY <2>6
    <3>2. Top' = seq'
      BY <3>1 DEF Top
    <3> QED
      BY <3>2, <2>3
  <2>8. Len(buffer') \in Nat /\ Len(buffer') >= 1
    BY <2>1, <2>2, <1>0
  <2>9. pushed' = 1 .. Top'
    BY <2>3, <2>4, <2>5, <2>7, <1>0
  <2>10. TypeOK'
    <3>1. hand' \in [Senders -> 0 .. MaxSeq]
      BY <2>3, <1>0 DEF TypeOK
    <3>2. stale' \in 0 .. Len(buffer') /\ pushed' \subseteq 1 .. MaxSeq
      BY <2>3, <2>4, <2>8 DEF TypeOK
    <3>3. overtaken' \subseteq pushed'
      BY <1>2, <2>3 DEF Push, TypeOK
    <3> QED
      BY <2>1, <2>3, <3>1, <3>2, <3>3 DEF TypeOK
  <2>11. ASSUME NEW i \in 1 .. Len(buffer')
         PROVE  buffer'[i] = Top' - Len(buffer') + i
    <3>1. CASE i = Len(buffer')
      BY <3>1, <2>1, <2>4, <2>7, <2>8, <1>0
    <3>2. CASE i # Len(buffer')
      <4>1. /\ Len(buffer') = Len(buffer) - Cut + 1
            /\ i \in Nat /\ 1 <= i /\ i <= Len(buffer') /\ i # Len(buffer')
            /\ Len(buffer) - Cut \in Nat
        BY <3>2, <2>1, <2>2, <2>8, <1>0
      <4>2. i \in 1 .. Len(buffer) - Cut
        BY <4>1
      <4>3. i + Cut \in 1 .. Len(buffer) /\ buffer'[i] = buffer[i + Cut]
        BY <4>2, <2>1
      <4>4. buffer[i + Cut] = seq - 1 - Len(buffer) + (i + Cut)
        BY <4>3, <2>5
      <4> QED
        BY <4>1, <4>3, <4>4, <2>2, <2>7, <1>0
    <3> QED
      BY <3>1, <3>2
  <2>12. overtaken' = {}
    <3>1. ~ \E n \in pushed : n > hand[s]
      BY <2>4, <2>5, <1>0
    <3> QED
      BY <3>1, <1>2 DEF Push
  <2> QED
    BY <2>6, <2>8, <2>9, <2>10, <2>11, <2>12
<1>3. CASE Age
  <2>1. TypeOK'
    BY <1>3, <1>0 DEF Age, TypeOK
  <2>2. Top' = Top
    BY <1>3 DEF Age, Top
  <2> QED
    BY <1>3, <2>1, <2>2 DEF Age
<1>4. CASE UNCHANGED vars
  <2>1. Top' = Top
    BY <1>4 DEF vars, Top
  <2> QED
    BY <1>4, <2>1 DEF vars, TypeOK
<1> QED
  BY <1>1, <1>2, <1>3, <1>4 DEF Next

\* A buffer of consecutive numbers is a slice in order.
LEMMA GaplessBuffer == GInv => SliceInOrder /\ overtaken = {}
<1> SUFFICES ASSUME GInv PROVE SliceInOrder /\ overtaken = {}
  OBVIOUS
<1>0. Len(buffer) \in Nat /\ Top \in Int
  BY LayerAssumption DEF GInv, TypeOK, Top
<1>1. SliceInOrder
  <2> SUFFICES ASSUME NEW i \in 1 .. Len(buffer) - 1
               PROVE  buffer[i + 1] = buffer[i] + 1
    BY DEF SliceInOrder
  <2>1. i \in 1 .. Len(buffer) /\ i + 1 \in 1 .. Len(buffer)
    BY <1>0
  <2>2. /\ buffer[i] = Top - Len(buffer) + i
        /\ buffer[i + 1] = Top - Len(buffer) + (i + 1)
    BY <2>1 DEF GInv
  <2> QED
    BY <2>1, <2>2, <1>0
<1> QED
  BY <1>1 DEF GInv

\* What a client that is not told to resync is replayed: what follows its
\* cursor, up to the last number pushed, one after the other.
ExactSlice ==
  \A c \in 0 .. Top : ~Resyncs(c) => Replayed(c) = [k \in 1 .. Top - c |-> c + k]

\* A cut through a buffer of consecutive numbers is past one of its places.
LEMMA GaplessReplay == GInv => ExactSlice
<1> SUFFICES ASSUME GInv, NEW c \in 0 .. Top, ~Resyncs(c)
             PROVE  Replayed(c) = [k \in 1 .. Top - c |-> c + k]
  BY DEF ExactSlice
<1>0. /\ Len(buffer) \in Nat /\ Top \in Int /\ c \in Nat /\ c <= Top
      /\ buffer \in Seq(1 .. MaxSeq)
  BY LayerAssumption DEF GInv, TypeOK, Top
<1>1. CASE buffer = <<>>
  <2>1. Top = 0
    BY <1>1 DEF GInv
  <2>2. Replayed(c) = <<>>
    BY <1>1, AmongEmpty DEF Replayed
  <2>3. [k \in 1 .. Top - c |-> c + k] = <<>>
    BY <2>1, <1>0
  <2> QED
    BY <2>2, <2>3
<1>2. CASE buffer # <<>>
  <2> DEFINE d == c - (Top - Len(buffer))
             S == {n \in 1 .. MaxSeq : n > c}
  <2>1. \A j \in 1 .. Len(buffer) :
          buffer[j] = Top - Len(buffer) + j /\ buffer[j] \in 1 .. MaxSeq
    BY <1>0, ElementOfSeq DEF GInv
  <2>2. Len(buffer) >= 1
    BY <1>0, <1>2, EmptySeq
  <2>3. Head(buffer) = Top - Len(buffer) + 1
    BY <1>0, <2>1, <2>2
  <2>4. d \in 0 .. Len(buffer)
    BY <1>0, <1>2, <2>2, <2>3 DEF Resyncs
  <2>5. \A j \in 1 .. Len(buffer) : buffer[j] \in S <=> j > d
    BY <1>0, <2>1, LayerAssumption
  <2>6. Replayed(c) = Among(buffer, S)
    BY DEF Replayed
  <2>7. Len(buffer) - d = Top - c
    BY <1>0
  <2>8. \A k \in 1 .. Top - c : d + k \in 1 .. Len(buffer) /\ Top - Len(buffer) + (d + k) = c + k
    BY <1>0, <2>4, <2>7
  <2> HIDE DEF S, d
  <2>9. Among(buffer, S) = [k \in 1 .. Len(buffer) - d |-> buffer[d + k]]
    BY <1>0, <2>4, <2>5, AmongSuffix
  <2>10. \A k \in 1 .. Top - c : buffer[d + k] = c + k
    BY <2>1, <2>8
  <2>11. [k \in 1 .. Top - c |-> buffer[d + k]] = [k \in 1 .. Top - c |-> c + k]
    BY <2>10
  <2> QED
    BY <2>6, <2>7, <2>9, <2>11
<1> QED
  BY <1>1, <1>2

\* When one task at a time assigns numbers, no message is overtaken, so that
\* ReplayCovers holds at every moment, and a client that is not told to resync
\* is replayed exactly the numbers after its cursor, in order (replay).
THEOREM Gapless ==
  OneSender /\ Spec => [](SliceInOrder /\ overtaken = {} /\ ExactSlice)
<1>1. OneSender /\ GInv /\ [Next]_vars => GInv'
  BY GaplessStep
<1>2. ASSUME OneSender PROVE Spec => []GInv
  <2>1. GInv /\ [Next]_vars => GInv'
    BY <1>1, <1>2
  <2> QED
    BY <2>1, GaplessInit, PTL DEF Spec
<1>3. ASSUME OneSender PROVE Spec => [](SliceInOrder /\ overtaken = {} /\ ExactSlice)
  BY <1>2, <1>3, GaplessBuffer, GaplessReplay, PTL
<1> QED
  BY <1>3
=============================================================================
