------------------------------ MODULE StreamProofs ------------------------------
(***************************************************************************)
(* Proofs about the live stream of chat turns, for every number of turns   *)
(* and sessions, every capacity of the channels and every mix of events.   *)
(*                                                                         *)
(* A registry entry is never stale because its turn's collector removes    *)
(* the entry of the session when it ends, whosever it is (Owned); that no  *)
(* frame follows the terminal one rests on the channel of an ended         *)
(* collector having no sender left, not even one just looked up (Drained); *)
(* and that nothing the channel accepted is missing before it rests on     *)
(* what was accepted being sent or still in the channel (Conserved).       *)
(***************************************************************************)
EXTENDS Stream, FilterProofs

Clean(q) == \A i \in 1 .. Len(q) : q[i] \notin Terminals

\* every reasoning span of q was closed
Closed(q) ==
  \A i \in 1 .. Len(q) : q[i] \in {"start", "thought"} => \E k \in i .. Len(q) : q[k] = "end"

Spans(q) ==
  \A i, j \in 1 .. Len(q) :
    i < j /\ q[i] = "start" /\ q[j] = "start" => \E k \in i .. j : q[k] = "end"

Owned ==
  \A s \in Sessions : sink[s] # NoTurn => SessionOf[sink[s]] = s /\ collector[sink[s]] = "running"

Shape ==
  \A t \in Turns : /\ turn[t] = "waiting" <=> collector[t] = "none"
                   /\ turn[t] = "answered" => collector[t] = "ended"
                   /\ hold[t].to # NoTurn => hold[t].deltas # <<>>

Drained ==
  \A t \in Turns : collector[t] = "ended" => queue[t] = <<>> /\ ~Strong(t)

Worded(t) ==
  /\ Spans(out[t])
  /\ ~reasoning[t] \/ collector[t] = "ended" => Closed(out[t])
  /\ turn[t] # "answered" => Clean(out[t])
  /\ \A i \in 1 .. Len(out[t]) - 1 : out[t][i] \notin Terminals

Wording == \A t \in Turns : Worded(t)

\* what a channel accepted is what was sent followed by what is in the channel
Conserved ==
  \A t \in Turns : taken[t] = Join(Among(out[t], Fragments), Among(queue[t], Fragments))

SInv == StreamTypeOK /\ Owned /\ Shape /\ Drained /\ Wording /\ Conserved

-----------------------------------------------------------------------------
(* Frames and spans *)

\* What one more frame makes of a stream.
LEMMA OneFrame ==
  ASSUME NEW q \in Seq(Frames), NEW x \in Frames, Spans(q), x = "start" => Closed(q)
  PROVE  LET r == Append(q, x)
         IN  /\ r \in Seq(Frames) /\ Len(r) = Len(q) + 1
             /\ Spans(r)
             /\ x = "end" \/ (Closed(q) /\ x \notin {"start", "thought"}) => Closed(r)
             /\ Clean(q) => /\ x \notin Terminals => Clean(r)
                            /\ \A i \in 1 .. Len(r) - 1 : r[i] \notin Terminals
<1> DEFINE r == Append(q, x)
           n == Len(q)
<1>1. /\ r \in Seq(Frames) /\ Len(r) = n + 1 /\ n \in Nat
      /\ \A i \in 1 .. n : r[i] = q[i]
      /\ r[n + 1] = x
  BY AppendProperties, LenProperties
<1>2. Spans(r)
  <2> SUFFICES ASSUME NEW i \in 1 .. n + 1, NEW j \in 1 .. n + 1, i < j, r[i] = "start", r[j] = "start"
               PROVE  \E k \in i .. j : r[k] = "end"
    BY <1>1 DEF Spans
  <2>1. i \in 1 .. n /\ q[i] = "start"
    BY <1>1
  <2>2. CASE j \in 1 .. n
    <3>1. PICK k \in i .. j : q[k] = "end"
      BY <1>1, <2>1, <2>2 DEF Spans
    <3> QED
      BY <1>1, <2>2, <3>1
  <2>3. CASE j = n + 1
    <3>1. PICK k \in i .. n : q[k] = "end"
      BY <1>1, <2>1, <2>3 DEF Closed
    <3> QED
      BY <1>1, <2>3, <3>1
  <2> QED
    BY <1>1, <2>2, <2>3
<1>3. ASSUME x = "end" \/ (Closed(q) /\ x \notin {"start", "thought"})
      PROVE  Closed(r)
  <2> SUFFICES ASSUME NEW i \in 1 .. n + 1, r[i] \in {"start", "thought"}
               PROVE  \E k \in i .. n + 1 : r[k] = "end"
    BY <1>1 DEF Closed
  <2>1. CASE x = "end"
    BY <1>1, <2>1
  <2>2. CASE Closed(q) /\ x \notin {"start", "thought"}
    <3>1. i \in 1 .. n
      BY <1>1, <2>2
    <3>2. PICK k \in i .. n : q[k] = "end"
      BY <1>1, <2>2, <3>1 DEF Closed
    <3> QED
      BY <1>1, <3>1, <3>2
  <2> QED
    BY <1>3, <2>1, <2>2
<1>4. ASSUME Clean(q)
      PROVE  /\ x \notin Terminals => Clean(r)
             /\ \A i \in 1 .. Len(r) - 1 : r[i] \notin Terminals
  <2>1. \A i \in 1 .. n : r[i] \notin Terminals
    BY <1>1, <1>4 DEF Clean
  <2> QED
    BY <1>1, <2>1 DEF Clean
<1> QED
  BY <1>1, <1>2, <1>3, <1>4

\* Closing a span that may be open.
LEMMA Ending ==
  ASSUME NEW q \in Seq(Frames), NEW open \in BOOLEAN, Spans(q), ~open => Closed(q), Clean(q)
  PROVE  LET r == q \o EndIf(open)
         IN  r \in Seq(Frames) /\ Spans(r) /\ Closed(r) /\ Clean(r)
<1>1. CASE open
  <2>1. q \o EndIf(open) = Append(q, "end")
    BY <1>1, AppendIsConcat DEF EndIf, Frames
  <2>2. "end" \in Frames /\ "end" \notin Terminals
    BY DEF Frames, Terminals
  <2> QED
    BY <2>1, <2>2, OneFrame
<1>2. CASE ~open
  BY <1>2, ConcatEmptySeq DEF EndIf
<1> QED
  BY <1>1, <1>2

\* What the collector makes of a delta.
LEMMA Collecting ==
  ASSUME NEW q \in Seq(Frames), NEW open \in BOOLEAN, NEW d \in Deltas,
         Spans(q), ~open => Closed(q), Clean(q)
  PROVE  LET r == q \o FramesOf(d, open)
         IN  /\ r \in Seq(Frames) /\ Spans(r) /\ Clean(r)
             /\ d \notin {"thinking", "thought"} => Closed(r)
<1>0. \A x \in {"text", "start", "thought", "end"} :
        x \in Frames \ Terminals /\ q \o <<x>> = Append(q, x)
  BY AppendIsConcat DEF Frames, Terminals
<1>1. CASE d = "text"
  <2> DEFINE e == q \o EndIf(open)
  <2>1. e \in Seq(Frames) /\ Spans(e) /\ Closed(e) /\ Clean(e)
    BY Ending
  <2>2. EndIf(open) \in Seq(Frames) /\ <<"text">> \in Seq(Frames)
    BY <1>0 DEF EndIf
  <2>3. q \o FramesOf(d, open) = e \o <<"text">>
    BY <1>1, <2>2, ConcatAssociative DEF FramesOf
  <2>4. e \o <<"text">> = Append(e, "text")
    BY <1>0, <2>1, AppendIsConcat
  <2> HIDE DEF e
  <2> QED
    BY <1>0, <1>1, <2>1, <2>3, <2>4, OneFrame
<1>2. CASE d = "thinking" /\ open
  <2>1. q \o FramesOf(d, open) = q
    BY <1>2, ConcatEmptySeq DEF FramesOf
  <2> QED
    BY <1>2, <2>1
<1>3. CASE d = "thinking" /\ ~open
  <2>1. q \o FramesOf(d, open) = Append(q, "start")
    BY <1>0, <1>3 DEF FramesOf
  <2> QED
    BY <1>0, <1>3, <2>1, OneFrame
<1>4. CASE d = "thought"
  <2>1. q \o FramesOf(d, open) = Append(q, "thought")
    BY <1>0, <1>4 DEF FramesOf
  <2> QED
    BY <1>0, <1>4, <2>1, OneFrame
<1>5. CASE d = "thinkingEnd"
  <2>1. q \o FramesOf(d, open) = Append(q, "end")
    BY <1>0, <1>5 DEF FramesOf
  <2> QED
    BY <1>0, <1>5, <2>1, OneFrame
<1> QED
  BY <1>1, <1>2, <1>3, <1>4, <1>5 DEF Deltas

-----------------------------------------------------------------------------
(* Text and reasoning on their way *)

\* The words of a channel and those of the client's stream.
Words == Deltas \cup Frames

\* Of the frames for a delta, as much is text or reasoning as of the delta;
\* the markers of a span are neither.
LEMMA FramesKeepFragments ==
  ASSUME NEW d \in Deltas, NEW open \in BOOLEAN
  PROVE  /\ EndIf(open) \in Seq(Words) /\ Among(EndIf(open), Fragments) = <<>>
         /\ FramesOf(d, open) \in Seq(Words)
         /\ Among(FramesOf(d, open), Fragments) = Among(<<d>>, Fragments)
<1>1. \A x \in Words : <<x>> \in Seq(Words) /\ Among(<<x>>, Fragments) = IF x \in Fragments THEN <<x>> ELSE <<>>
  BY AmongOne
<1>2. {"text", "start", "thought", "end"} \subseteq Words /\ d \in Words
  BY DEF Words, Frames
<1>3. <<>> \in Seq(Words) /\ Among(<<>>, Fragments) = <<>>
  BY AmongEmpty
<1>4. EndIf(open) \in Seq(Words) /\ Among(EndIf(open), Fragments) = <<>>
  BY <1>1, <1>2, <1>3 DEF EndIf, Fragments
<1>5. CASE d = "text"
  <2>1. PICK e \in Seq(Words) : e = <<"text">> /\ Among(e, Fragments) = e
    BY <1>1, <1>2 DEF Fragments
  <2>2. FramesOf(d, open) = Join(EndIf(open), e)
    BY <1>5, <2>1 DEF FramesOf, Join
  <2>3. PICK m \in Seq(Words) : m = EndIf(open) /\ Among(m, Fragments) = <<>>
    BY <1>4
  <2>4. Join(m, e) \in Seq(Words)
    BY JoinLaws
  <2>5. Among(Join(m, e), Fragments) = Join(Among(m, Fragments), Among(e, Fragments))
    BY AmongConcat
  <2>6. Join(<<>>, e) = e
    BY JoinNone
  <2> QED
    BY <1>4, <1>5, <2>1, <2>2, <2>3, <2>4, <2>5, <2>6
<1>6. CASE d = "thinking"
  BY <1>1, <1>2, <1>3, <1>4, <1>6 DEF FramesOf, Fragments
<1>7. CASE d = "thought"
  BY <1>1, <1>2, <1>4, <1>7 DEF FramesOf
<1>8. CASE d = "thinkingEnd"
  BY <1>1, <1>2, <1>4, <1>8 DEF FramesOf, Fragments
<1> QED
  BY <1>5, <1>6, <1>7, <1>8 DEF Deltas

\* A marker that may close the last span is no text.
LEMMA MarkersAreNone ==
  ASSUME NEW o \in Seq(Words), NEW open \in BOOLEAN
  PROVE  Among(Join(o, EndIf(open)), Fragments) = Among(o, Fragments)
<1>1. EndIf(open) \in Seq(Words) /\ Among(EndIf(open), Fragments) = <<>>
  <2>1. "text" \in Deltas
    BY DEF Deltas
  <2> QED
    BY <2>1, FramesKeepFragments
<1>2. Among(Join(o, EndIf(open)), Fragments) = Join(Among(o, Fragments), <<>>)
  BY <1>1, AmongConcat
<1>3. Among(o, Fragments) \in Seq(Words)
  BY AmongEntries
<1> QED
  BY <1>2, <1>3, JoinNone

\* Nor is a terminal frame.
LEMMA TerminalIsNone ==
  ASSUME NEW o \in Seq(Frames), NEW x \in Terminals
  PROVE  Among(Append(o, x), Fragments) = Among(o, Fragments)
<1>1. x \in Frames /\ x \notin Fragments
  BY DEF Frames, Fragments, Terminals
<1>2. PICK e \in Seq(Frames) : e = <<x>>
  BY <1>1, JoinOne
<1>3. Append(o, x) = Join(o, e) /\ Among(e, Fragments) = <<>>
  BY <1>1, <1>2, JoinOne, AmongOne
<1>4. Among(Join(o, e), Fragments) = Join(Among(o, Fragments), Among(e, Fragments))
  BY AmongConcat
<1>5. Join(Among(o, Fragments), <<>>) = Among(o, Fragments)
  BY AmongEntries, JoinNone
<1> QED
  BY <1>3, <1>4, <1>5

\* A delta the channel accepts joins what it accepted before.
LEMMA DeltaEnters ==
  ASSUME NEW o \in Seq(Words), NEW q \in Seq(Words), NEW e \in Seq(Words)
  PROVE  Join(Join(Among(o, Fragments), Among(q, Fragments)), Among(e, Fragments))
           = Join(Among(o, Fragments), Among(Join(q, e), Fragments))
<1> DEFINE a == Among(o, Fragments)
           b == Among(q, Fragments)
           c == Among(e, Fragments)
<1>1. a \in Seq(Words) /\ b \in Seq(Words) /\ c \in Seq(Words)
  BY AmongEntries
<1>2. Among(Join(q, e), Fragments) = Join(b, c)
  BY AmongConcat
<1>3. Join(Join(a, b), c) = Join(a, Join(b, c))
  <2> HIDE DEF a, b, c
  <2> QED
    BY <1>1, JoinLaws
<1> QED
  BY <1>2, <1>3

\* Of a delta alone it is the delta, if it is text or reasoning.
LEMMA DeltaAdded ==
  ASSUME NEW k \in Seq(Fragments), NEW d \in Words
  PROVE  \E e \in Seq(Words) :
           /\ e = <<d>>
           /\ (IF d \in Fragments THEN Append(k, d) ELSE k) = Join(k, Among(e, Fragments))
<1>1. PICK e \in Seq(Words) : e = <<d>>
  <2>1. <<d>> \in Seq(Words)
    OBVIOUS
  <2> QED
    BY <2>1, Zenon
<1>2. Among(e, Fragments) = IF d \in Fragments THEN e ELSE <<>>
  BY <1>1, AmongOne
<1>3. d \in Fragments => Append(k, d) = Join(k, e)
  BY <1>1, JoinOne
<1>4. Join(k, <<>>) = k
  BY JoinNone
<1> QED
  BY <1>1, <1>2, <1>3, <1>4

\* The first of the channel goes out, and nothing else moves.
LEMMA DeltaLeaves ==
  ASSUME NEW o \in Seq(Words), NEW q \in Seq(Deltas), q # <<>>, NEW open \in BOOLEAN
  PROVE  Join(Among(Join(o, FramesOf(Head(q), open)), Fragments), Among(Tail(q), Fragments))
           = Join(Among(o, Fragments), Among(q, Fragments))
<1>1. PICK d \in Deltas : d = Head(q)
  BY HeadTailProperties
<1>2. PICK r \in Seq(Words) : r = Tail(q)
  BY HeadTailProperties, SeqMonotonic DEF Words
<1>3. PICK e \in Seq(Words) : e = <<d>>
  <2>1. d \in Words
    BY DEF Words
  <2> QED
    BY <2>1, JoinOne
<1> DEFINE a == Among(o, Fragments)
           b == Among(r, Fragments)
           c == Among(e, Fragments)
<1>4. a \in Seq(Words) /\ b \in Seq(Words) /\ c \in Seq(Words)
  BY AmongEntries
<1>5. q = Join(e, r)
  <2>1. q = <<d>> \o r
    BY <1>1, <1>2, HeadTailProperties
  <2> QED
    BY <1>3, <2>1 DEF Join
<1>6. Among(q, Fragments) = Join(c, b)
  BY <1>5, AmongConcat
<1>7. Among(Join(o, FramesOf(d, open)), Fragments) = Join(a, c)
  <2>1. PICK f \in Seq(Words) : f = FramesOf(d, open) /\ Among(f, Fragments) = c
    BY <1>3, FramesKeepFragments
  <2>2. Among(Join(o, f), Fragments) = Join(a, c)
    BY <2>1, AmongConcat
  <2> QED
    BY <2>1, <2>2
<1>8. Join(Join(a, c), b) = Join(a, Join(c, b))
  BY <1>4, JoinLaws
<1> HIDE DEF a, b, c
<1> QED
  BY <1>1, <1>2, <1>6, <1>7, <1>8 DEF a, b

-----------------------------------------------------------------------------
(* The invariant *)

\* Before the first turn there is no stream.
LEMMA StreamStart == StreamInit => SInv
<1> SUFFICES ASSUME StreamInit
             PROVE  SInv
  OBVIOUS
<1>1. StreamTypeOK
  <2>1. <<>> \in Seq(Deltas) /\ <<>> \in Seq(Frames) /\ <<>> \in Seq(Fragments) /\ Len(<<>>) = 0
    OBVIOUS
  <2> QED
    BY <2>1, StreamAssumption DEF StreamInit, StreamTypeOK, Released
<1>2. Owned /\ Shape /\ Drained
  BY DEF StreamInit, Owned, Shape, Drained, Released
<1>3. Wording
  <2> SUFFICES ASSUME NEW t \in Turns
               PROVE  Worded(t)
    BY DEF Wording
  <2>1. out[t] = <<>> /\ Len(out[t]) = 0
    BY DEF StreamInit
  <2>2. \A i \in 1 .. Len(out[t]) : FALSE
    BY <2>1
  <2>3. Spans(out[t]) /\ Closed(out[t]) /\ Clean(out[t])
    BY <2>2 DEF Spans, Closed, Clean
  <2>4. \A i \in 1 .. Len(out[t]) - 1 : FALSE
    BY <2>1
  <2> QED
    BY <2>3, <2>4 DEF Worded
<1>4. Conserved
  <2>1. Join(<<>>, <<>>) = <<>>
    BY EmptySeq, JoinNone
  <2> QED
    BY <2>1, AmongEmpty DEF StreamInit, Conserved
<1> QED
  BY <1>1, <1>2, <1>3, <1>4 DEF SInv

\* An entry that can be upgraded belongs to a turn whose collector runs.
LEMMA LookupFacts ==
  ASSUME SInv, NEW s \in Sessions, Lookup(s) # NoTurn
  PROVE  /\ Lookup(s) \in Turns /\ Strong(Lookup(s))
         /\ collector[Lookup(s)] = "running"
BY DEF Lookup, SInv, Owned, StreamTypeOK

\* A turn that opens takes the entry of its session over.
LEMMA OpenKeeps ==
  ASSUME SInv, NEW t \in Turns, Open(t)
  PROVE  SInv'
<1> USE DEF Open
<1>1. StreamTypeOK'
  BY StreamAssumption DEF SInv, StreamTypeOK
<1>2. Owned'
  BY StreamAssumption DEF SInv, Owned, StreamTypeOK
<1>3. Shape'
  BY DEF SInv, Shape, StreamTypeOK
<1>4. Drained'
  BY DEF SInv, Drained, Strong, Shape, StreamTypeOK
<1>5. Wording'
  BY DEF SInv, Wording, Worded, Shape, StreamTypeOK
<1>6. Conserved'
  BY DEF SInv, Conserved
<1> QED
  BY <1>1, <1>2, <1>3, <1>4, <1>5, <1>6 DEF SInv

\* A turn that leaves drops its sender.
LEMMA LeaveKeeps ==
  ASSUME SInv, NEW t \in Turns, Leave(t, "returned") \/ Leave(t, "cancelled")
  PROVE  SInv'
<1>1. /\ turn[t] = "open"
      /\ \E how \in {"returned", "cancelled"} : turn' = [turn EXCEPT ![t] = how]
      /\ UNCHANGED <<agent, events, sink, hold, queue, collector, reasoning, out, taken>>
  BY DEF Leave
<1>2. StreamTypeOK' /\ Owned' /\ Shape'
  BY <1>1 DEF SInv, StreamTypeOK, Owned, Shape
<1>3. Drained'
  BY <1>1 DEF SInv, Drained, Strong, StreamTypeOK
<1>4. Wording'
  BY <1>1 DEF SInv, Wording, Worded, StreamTypeOK
<1>5. Conserved'
  BY <1>1 DEF SInv, Conserved
<1> QED
  BY <1>2, <1>3, <1>4, <1>5 DEF SInv

\* The terminal frame ends a stream that had none.
LEMMA AnswerKeeps ==
  ASSUME SInv, NEW t \in Turns, Answer(t) \/ AnswerCancelled(t)
  PROVE  SInv'
<1>1. PICK x \in Terminals : out' = [out EXCEPT ![t] = Append(out[t], x)]
  BY DEF Answer, AnswerCancelled, Terminals
<1>2. /\ turn[t] \in {"returned", "cancelled"} /\ collector[t] = "ended"
      /\ turn' = [turn EXCEPT ![t] = "answered"]
      /\ UNCHANGED <<agent, events, hold, queue, collector, reasoning, taken>>
      /\ sink' = sink \/ sink' = [sink EXCEPT ![SessionOf[t]] = NoTurn]
  BY DEF Answer, AnswerCancelled
<1>3. /\ out[t] \in Seq(Frames) /\ x \in Frames /\ x \notin {"start", "thought", "end"}
      /\ Worded(t)
  BY DEF SInv, StreamTypeOK, Wording, Frames, Terminals
<1>4. /\ out'[t] = Append(out[t], x)
      /\ \A u \in Turns : u # t => out'[u] = out[u] /\ turn'[u] = turn[u]
      /\ turn'[t] = "answered"
  BY <1>1, <1>2 DEF SInv, StreamTypeOK
<1>5. Spans(out[t]) /\ Closed(out[t]) /\ Clean(out[t])
  BY <1>2, <1>3 DEF Worded
<1>6. /\ out'[t] \in Seq(Frames) /\ Spans(out'[t]) /\ Closed(out'[t])
      /\ \A i \in 1 .. Len(out'[t]) - 1 : out'[t][i] \notin Terminals
  BY <1>3, <1>4, <1>5, OneFrame
<1>7. StreamTypeOK'
  BY <1>1, <1>2, <1>4, <1>6, StreamAssumption DEF SInv, StreamTypeOK
<1>8. Owned' /\ Shape'
  <2>1. \A s \in Sessions : sink'[s] = NoTurn \/ sink'[s] = sink[s]
    BY <1>2 DEF SInv, StreamTypeOK
  <2>2. turn[t] # "waiting" /\ collector[t] # "none"
    BY <1>2
  <2> QED
    BY <1>2, <1>4, <2>1, <2>2 DEF SInv, Owned, Shape
<1>9. Drained'
  BY <1>2 DEF SInv, Drained, Strong, StreamTypeOK
<1>10. Wording'
  BY <1>2, <1>4, <1>6 DEF SInv, Wording, Worded
<1>11. Conserved'
  <2>1. Among(out'[t], Fragments) = Among(out[t], Fragments)
    BY <1>3, <1>4, TerminalIsNone
  <2>2. \A u \in Turns : Among(out'[u], Fragments) = Among(out[u], Fragments)
    BY <1>4, <2>1
  <2> QED
    BY <1>2, <2>2 DEF SInv, Conserved
<1> QED
  BY <1>7, <1>8, <1>9, <1>10, <1>11 DEF SInv

\* Agents that start and end hold nothing.
LEMMA AgentKeeps ==
  ASSUME SInv, NEW t \in Turns, Fork(t) \/ AgentEnds(t)
  PROVE  SInv'
<1>1. /\ UNCHANGED <<turn, events, sink, hold, queue, collector, reasoning, out, taken>>
      /\ \E how \in {"running", "ended"} : agent' = [agent EXCEPT ![t] = how]
  BY DEF Fork, AgentEnds
<1>2. StreamTypeOK' /\ Owned' /\ Shape'
  BY <1>1 DEF SInv, StreamTypeOK, Owned, Shape
<1>3. Drained' /\ Wording'
  BY <1>1 DEF SInv, Drained, Strong, Wording, Worded
<1>4. Conserved'
  BY <1>1 DEF SInv, Conserved
<1> QED
  BY <1>2, <1>3, <1>4 DEF SInv

\* A callback may only take hold of a sender whose channel is open.
LEMMA EventKeeps ==
  ASSUME SInv, NEW t \in Turns, NEW burst \in Bursts, Event(t, burst)
  PROVE  SInv'
<1> DEFINE to == Lookup(SessionOf[t])
<1>1. /\ UNCHANGED <<turn, agent, sink, queue, collector, reasoning, out, taken>>
      /\ events < MaxEvents /\ events' = events + 1
      /\ hold' = IF to = NoTurn THEN hold ELSE [hold EXCEPT ![t] = [to |-> to, deltas |-> burst]]
  BY DEF Event
<1>2. burst \in Seq(Deltas) /\ burst # <<>>
  <2>1. CASE burst = <<"text">>
    BY <2>1, EmptySeq DEF Deltas
  <2>2. CASE burst = <<"thinking">>
    BY <2>2, EmptySeq DEF Deltas
  <2>3. CASE burst = <<"thinking", "thought">>
    BY <2>3, EmptySeq DEF Deltas
  <2>4. CASE burst = <<"thinkingEnd">>
    BY <2>4, EmptySeq DEF Deltas
  <2> QED
    BY <2>1, <2>2, <2>3, <2>4 DEF Bursts
<1>3. to # NoTurn => to \in Turns /\ Strong(to) /\ collector[to] = "running"
  BY LookupFacts, StreamAssumption
<1> HIDE DEF to
<1>4. hold' \in [Turns -> [to : Turns \cup {NoTurn}, deltas : Seq(Deltas)]]
  BY <1>1, <1>2, <1>3 DEF SInv, StreamTypeOK
<1>5. events' \in 0 .. MaxEvents
  BY <1>1, StreamAssumption DEF SInv, StreamTypeOK
<1>6. StreamTypeOK'
  BY <1>1, <1>4, <1>5 DEF SInv, StreamTypeOK
<1>7. \A u \in Turns : hold'[u] = hold[u] \/ (hold'[u].to = to /\ hold'[u].deltas = burst /\ to # NoTurn)
  BY <1>1 DEF SInv, StreamTypeOK
<1>8. Owned' /\ Shape'
  BY <1>1, <1>2, <1>7 DEF SInv, Owned, Shape
<1>9. Drained'
  <2> SUFFICES ASSUME NEW x \in Turns, collector[x] = "ended"
               PROVE  queue[x] = <<>> /\ ~Strong(x)'
    BY <1>1 DEF Drained
  <2>1. queue[x] = <<>> /\ turn[x] # "open" /\ \A u \in Turns : hold[u].to # x
    BY DEF SInv, Drained, Strong
  <2>2. to # NoTurn => x # to
    BY <1>3
  <2> QED
    BY <1>1, <1>7, <2>1, <2>2 DEF Strong
<1>10. Wording'
  BY <1>1 DEF SInv, Wording, Worded
<1>11. Conserved'
  BY <1>1 DEF SInv, Conserved
<1> QED
  BY <1>6, <1>8, <1>9, <1>10, <1>11 DEF SInv

\* A delta goes to a channel whose collector runs, and the last one lets the sender go.
LEMMA TrySendKeeps ==
  ASSUME SInv, NEW t \in Turns, TrySend(t)
  PROVE  SInv'
<1> DEFINE x == hold[t].to
           d == Head(hold[t].deltas)
<1>1. x \in Turns /\ hold[t].deltas \in Seq(Deltas) /\ hold[t].deltas # <<>>
  BY DEF TrySend, SInv, StreamTypeOK, Shape
<1>2. d \in Deltas /\ Tail(hold[t].deltas) \in Seq(Deltas)
      /\ Len(Tail(hold[t].deltas)) = Len(hold[t].deltas) - 1 /\ Len(hold[t].deltas) \in Nat \ {0}
  BY <1>1, HeadTailProperties, LenProperties, EmptySeq
<1>3. UNCHANGED <<turn, agent, events, sink, collector, reasoning, out>>
  BY DEF TrySend
<1>4. /\ hold' \in [Turns -> [to : Turns \cup {NoTurn}, deltas : Seq(Deltas)]]
      /\ \A u \in Turns : hold'[u] = hold[u] \/ hold'[u].to = NoTurn
                          \/ (u = t /\ hold'[u].to = x /\ hold'[u].deltas # <<>>)
  <2>1. CASE Len(hold[t].deltas) = 1
    <3>1. hold' = [hold EXCEPT ![t] = Released]
      BY <2>1 DEF TrySend
    <3>2. Released \in [to : Turns \cup {NoTurn}, deltas : Seq(Deltas)] /\ Released.to = NoTurn
      BY DEF Released
    <3> QED
      BY <3>1, <3>2 DEF SInv, StreamTypeOK
  <2>2. CASE Len(hold[t].deltas) # 1
    <3> DEFINE h == [to |-> x, deltas |-> Tail(hold[t].deltas)]
    <3>1. hold' = [hold EXCEPT ![t] = h]
      BY <2>2 DEF TrySend
    <3>2. h \in [to : Turns \cup {NoTurn}, deltas : Seq(Deltas)] /\ h.to = x /\ h.deltas = Tail(hold[t].deltas)
      BY <1>2 DEF SInv, StreamTypeOK
    <3>3. Tail(hold[t].deltas) # <<>>
      <4>1. Len(Tail(hold[t].deltas)) # 0 /\ Len(<<>>) = 0
        BY <1>2, <2>2
      <4> QED
        BY <4>1
    <3> HIDE DEF h
    <3> QED
      BY <3>1, <3>2, <3>3 DEF SInv, StreamTypeOK
  <2> QED
    BY <2>1, <2>2
<1>5. /\ queue' \in [Turns -> Seq(Deltas)] /\ taken' \in [Turns -> Seq(Fragments)]
      /\ \A u \in Turns : Len(queue'[u]) <= Capacity /\ (u # x => queue'[u] = queue[u])
  <2>1. CASE Room(x)
    <3>1. /\ queue' = [queue EXCEPT ![x] = Append(queue[x], d)]
          /\ taken' = [taken EXCEPT ![x] = IF d \in Fragments THEN Append(taken[x], d) ELSE taken[x]]
      BY <2>1 DEF TrySend
    <3>2. Append(queue[x], d) \in Seq(Deltas) /\ Len(Append(queue[x], d)) = Len(queue[x]) + 1
      BY <1>1, <1>2, AppendProperties DEF SInv, StreamTypeOK
    <3>3. Len(queue[x]) \in Nat /\ Len(queue[x]) < Capacity
      BY <1>1, <2>1, LenProperties DEF Room, SInv, StreamTypeOK
    <3>4. d \in Fragments => Append(taken[x], d) \in Seq(Fragments)
      BY <1>1, AppendProperties DEF SInv, StreamTypeOK
    <3> HIDE DEF x, d
    <3> QED
      BY <1>1, <3>1, <3>2, <3>3, <3>4, StreamAssumption DEF SInv, StreamTypeOK
  <2>2. CASE ~Room(x)
    <3>1. UNCHANGED <<queue, taken>>
      BY <2>2 DEF TrySend
    <3> QED
      BY <3>1 DEF SInv, StreamTypeOK
  <2> QED
    BY <2>1, <2>2
<1>6. StreamTypeOK'
  BY <1>3, <1>4, <1>5 DEF SInv, StreamTypeOK
<1>7. Owned' /\ Shape'
  BY <1>3, <1>4 DEF SInv, Owned, Shape
<1>8. Drained'
  <2> SUFFICES ASSUME NEW u \in Turns, collector[u] = "ended"
               PROVE  queue'[u] = <<>> /\ ~Strong(u)'
    BY <1>3 DEF Drained
  <2>1. queue[u] = <<>> /\ turn[u] # "open" /\ \A v \in Turns : hold[v].to # u
    BY DEF SInv, Drained, Strong
  <2>2. u # x /\ u # NoTurn
    BY <2>1, StreamAssumption
  <2> QED
    BY <1>3, <1>4, <1>5, <2>1, <2>2 DEF Strong
<1>9. Wording'
  BY <1>3 DEF SInv, Wording, Worded
<1>10. Conserved'
  <2>1. CASE Room(x)
    <3>1. /\ queue'[x] = Append(queue[x], d)
          /\ taken'[x] = IF d \in Fragments THEN Append(taken[x], d) ELSE taken[x]
          /\ \A u \in Turns : u # x => queue'[u] = queue[u] /\ taken'[u] = taken[u]
      BY <1>1, <2>1 DEF TrySend, SInv, StreamTypeOK
    <3>2. out[x] \in Seq(Words) /\ queue[x] \in Seq(Words) /\ d \in Words
      BY <1>1, <1>2, SeqMonotonic DEF SInv, StreamTypeOK, Words
    <3>3. taken[x] = Join(Among(out[x], Fragments), Among(queue[x], Fragments))
      BY <1>1 DEF SInv, Conserved
    <3> HIDE DEF x, d
    <3>4. PICK e \in Seq(Words) : /\ e = <<d>>
                                  /\ taken'[x] = Join(taken[x], Among(e, Fragments))
      <4>1. taken[x] \in Seq(Fragments)
        BY <1>1 DEF SInv, StreamTypeOK, x
      <4> QED
        BY <3>1, <3>2, <4>1, DeltaAdded
    <3>5. queue'[x] = Join(queue[x], e)
      BY <3>1, <3>2, <3>4, JoinOne
    <3>6. taken'[x] = Join(Among(out[x], Fragments), Among(queue'[x], Fragments))
      <4>1. Join(Join(Among(out[x], Fragments), Among(queue[x], Fragments)), Among(e, Fragments))
              = Join(Among(out[x], Fragments), Among(Join(queue[x], e), Fragments))
        BY <3>2, DeltaEnters
      <4> QED
        BY <3>3, <3>4, <3>5, <4>1, Zenon
    <3> QED
      BY <1>3, <3>1, <3>6 DEF SInv, Conserved
  <2>2. CASE ~Room(x)
    BY <1>3, <2>2 DEF TrySend, SInv, Conserved
  <2> QED
    BY <2>1, <2>2
<1> QED
  BY <1>6, <1>7, <1>8, <1>9, <1>10 DEF SInv

\* The collector keeps the spans well formed.
LEMMA CollectKeeps ==
  ASSUME SInv, NEW t \in Turns, Collect(t)
  PROVE  SInv'
<1> DEFINE d == Head(queue[t])
<1>1. /\ collector[t] = "running" /\ queue[t] # <<>>
      /\ queue' = [queue EXCEPT ![t] = Tail(queue[t])]
      /\ out' = [out EXCEPT ![t] = out[t] \o FramesOf(d, reasoning[t])]
      /\ reasoning' = [reasoning EXCEPT ![t] = d \in {"thinking", "thought"}]
      /\ UNCHANGED <<turn, agent, events, sink, hold, collector, taken>>
  BY DEF Collect
<1>2. /\ d \in Deltas /\ Tail(queue[t]) \in Seq(Deltas)
      /\ Len(Tail(queue[t])) = Len(queue[t]) - 1 /\ Len(queue[t]) \in Nat
  BY <1>1, HeadTailProperties, LenProperties DEF SInv, StreamTypeOK
<1>3. out[t] \in Seq(Frames) /\ reasoning[t] \in BOOLEAN /\ turn[t] # "answered"
  BY <1>1 DEF SInv, StreamTypeOK, Shape
<1>4. Spans(out[t]) /\ (~reasoning[t] => Closed(out[t])) /\ Clean(out[t])
  BY <1>3 DEF SInv, Wording, Worded
<1> HIDE DEF d
<1>5. /\ out'[t] \in Seq(Frames) /\ Spans(out'[t]) /\ Clean(out'[t])
      /\ d \notin {"thinking", "thought"} => Closed(out'[t])
      /\ reasoning'[t] = (d \in {"thinking", "thought"})
      /\ \A u \in Turns : u # t => out'[u] = out[u] /\ reasoning'[u] = reasoning[u]
  BY <1>1, <1>2, <1>3, <1>4, Collecting DEF SInv, StreamTypeOK
<1>6. StreamTypeOK'
  <2>1. /\ queue' \in [Turns -> Seq(Deltas)]
        /\ \A u \in Turns : Len(queue'[u]) <= Capacity
    BY <1>1, <1>2, StreamAssumption DEF SInv, StreamTypeOK
  <2>2. out' \in [Turns -> Seq(Frames)] /\ reasoning' \in [Turns -> BOOLEAN]
    BY <1>1, <1>5 DEF SInv, StreamTypeOK
  <2> QED
    BY <1>1, <2>1, <2>2 DEF SInv, StreamTypeOK
<1>7. Owned' /\ Shape'
  BY <1>1 DEF SInv, Owned, Shape
<1>8. Drained'
  BY <1>1 DEF SInv, Drained, Strong, StreamTypeOK
<1>9. \A i \in 1 .. Len(out'[t]) - 1 : out'[t][i] \notin Terminals
  BY <1>5, LenProperties DEF Clean
<1>10. Wording'
  BY <1>1, <1>3, <1>5, <1>9 DEF SInv, Wording, Worded
<1>11. Conserved'
  <2>1. out[t] \in Seq(Words) /\ queue[t] \in Seq(Deltas)
    BY <1>3, SeqMonotonic DEF SInv, StreamTypeOK, Words
  <2>2. /\ out'[t] = Join(out[t], FramesOf(Head(queue[t]), reasoning[t]))
        /\ queue'[t] = Tail(queue[t])
        /\ \A u \in Turns : u # t => out'[u] = out[u] /\ queue'[u] = queue[u]
    BY <1>1 DEF d, SInv, StreamTypeOK, Join
  <2>3. Join(Among(out'[t], Fragments), Among(queue'[t], Fragments))
          = Join(Among(out[t], Fragments), Among(queue[t], Fragments))
    BY <1>1, <1>3, <2>1, <2>2, DeltaLeaves
  <2> QED
    BY <1>1, <2>2, <2>3 DEF SInv, Conserved
<1> QED
  BY <1>6, <1>7, <1>8, <1>10, <1>11 DEF SInv

\* The collector ends when no sender is left, and takes the session's entry
\* with it.
LEMMA CollectorEndsKeeps ==
  ASSUME SInv, NEW t \in Turns, CollectorEnds(t)
  PROVE  SInv'
<1>1. /\ collector[t] = "running" /\ queue[t] = <<>> /\ ~Strong(t)
      /\ collector' = [collector EXCEPT ![t] = "ended"]
      /\ out' = [out EXCEPT ![t] = out[t] \o EndIf(reasoning[t])]
      /\ sink' = [sink EXCEPT ![SessionOf[t]] = NoTurn]
      /\ UNCHANGED <<turn, agent, events, hold, queue, reasoning, taken>>
  BY DEF CollectorEnds
<1>2. out[t] \in Seq(Frames) /\ reasoning[t] \in BOOLEAN /\ turn[t] # "answered"
  BY <1>1 DEF SInv, StreamTypeOK, Shape
<1>3. Spans(out[t]) /\ (~reasoning[t] => Closed(out[t])) /\ Clean(out[t])
  BY <1>2 DEF SInv, Wording, Worded
<1>4. /\ out'[t] \in Seq(Frames) /\ Spans(out'[t]) /\ Clean(out'[t]) /\ Closed(out'[t])
      /\ \A u \in Turns : u # t => out'[u] = out[u] /\ collector'[u] = collector[u]
      /\ collector'[t] = "ended"
  BY <1>1, <1>2, <1>3, Ending DEF SInv, StreamTypeOK
<1>5. StreamTypeOK'
  BY <1>1, <1>4, StreamAssumption DEF SInv, StreamTypeOK
<1>6. Owned'
  <2> SUFFICES ASSUME NEW s \in Sessions, sink'[s] # NoTurn
               PROVE  SessionOf[sink'[s]] = s /\ collector'[sink'[s]] = "running"
    BY DEF Owned
  <2>1. s # SessionOf[t] /\ sink'[s] = sink[s] /\ sink[s] \in Turns
    BY <1>1 DEF SInv, StreamTypeOK
  <2>2. SessionOf[sink[s]] = s /\ collector[sink[s]] = "running"
    BY <2>1 DEF SInv, Owned
  <2> QED
    BY <1>4, <2>1, <2>2
<1>7. Shape'
  BY <1>1, <1>4 DEF SInv, Shape
<1>8. Drained'
  BY <1>1, <1>4 DEF SInv, Drained, Strong
<1>9. \A i \in 1 .. Len(out'[t]) - 1 : out'[t][i] \notin Terminals
  BY <1>4, LenProperties DEF Clean
<1>10. Wording'
  BY <1>1, <1>2, <1>4, <1>9 DEF SInv, Wording, Worded
<1>11. Conserved'
  <2>1. out[t] \in Seq(Words) /\ out'[t] = Join(out[t], EndIf(reasoning[t]))
    BY <1>1, <1>2, SeqMonotonic DEF SInv, StreamTypeOK, Words, Join
  <2>2. Among(out'[t], Fragments) = Among(out[t], Fragments)
    BY <1>2, <2>1, MarkersAreNone
  <2> QED
    BY <1>1, <1>4, <2>2 DEF SInv, Conserved
<1> QED
  BY <1>5, <1>6, <1>7, <1>8, <1>10, <1>11 DEF SInv

\* Every step of a stream keeps the invariant.
LEMMA StreamStep == SInv /\ [StreamNext]_streamVars => SInv'
<1> SUFFICES ASSUME SInv, [StreamNext]_streamVars
             PROVE  SInv'
  OBVIOUS
<1>1. CASE UNCHANGED streamVars
  BY <1>1 DEF streamVars, SInv, StreamTypeOK, Owned, Shape, Drained, Strong, Wording, Worded, Conserved
<1> QED
  BY <1>1, OpenKeeps, LeaveKeeps, AnswerKeeps, AgentKeeps, EventKeeps, TrySendKeeps, CollectKeeps,
     CollectorEndsKeeps DEF StreamNext

-----------------------------------------------------------------------------
(* Theorems *)

\* The invariant behind the others: a registry entry is of a turn of its session
\* whose collector runs, an ended collector's channel is empty and has no sender
\* left, and the reasoning flag tells whether the last span is open
\* (StreamingSinkRegistry, the collector of Gateway::dispatch).
THEOREM StreamInvariant == StreamSpec => []SInv
BY StreamStart, StreamStep, PTL DEF StreamSpec

\* The state of the stream is always well typed, and no channel holds more than
\* its capacity.
THEOREM StreamTypes == StreamSpec => []StreamTypeOK
<1>1. SInv => StreamTypeOK
  BY DEF SInv
<1> QED
  BY <1>1, StreamInvariant, PTL

\* No registry entry outlives its turn, however turns of a session replace and
\* remove each other's entries.
THEOREM SinksAreLive == StreamSpec => []NoStaleSink
<1>1. SInv => NoStaleSink
  BY DEF SInv, Owned, NoStaleSink
<1> QED
  BY <1>1, StreamInvariant, PTL

\* The client's thinking block is well formed for every mixture of lost, late
\* and foreign deltas.
THEOREM SpansAreWellFormed == StreamSpec => []SpansWellFormed
<1>1. SInv => SpansWellFormed
  <2> SUFFICES ASSUME SInv, NEW t \in Turns, NEW i \in 1 .. Len(out[t])
               PROVE  /\ out[t][i] = "start" =>
                           \A j \in i + 1 .. Len(out[t]) : out[t][j] = "start" =>
                             \E k \in i .. j : out[t][k] = "end"
                      /\ out[t][i] \in {"start", "thought"} /\ Ended(t) =>
                           \E k \in i .. Len(out[t]) : out[t][k] = "end"
    BY DEF SpansWellFormed
  <2>1. Worded(t) /\ Len(out[t]) \in Nat
    BY LenProperties DEF SInv, Wording, StreamTypeOK
  <2>2. ASSUME out[t][i] = "start", NEW j \in i + 1 .. Len(out[t]), out[t][j] = "start"
        PROVE  \E k \in i .. j : out[t][k] = "end"
    <3>1. j \in 1 .. Len(out[t]) /\ i < j
      BY <2>1
    <3> QED
      BY <2>1, <2>2, <3>1 DEF Worded, Spans
  <2>3. ASSUME Ended(t)
        PROVE  Closed(out[t])
    <3>1. turn[t] = "answered"
      BY <2>1, <2>3 DEF Ended, Worded, Clean
    <3> QED
      BY <2>1, <3>1 DEF SInv, Shape, Worded
  <2> QED
    BY <2>2, <2>3 DEF Closed
<1> QED
  BY <1>1, StreamInvariant, PTL

\* Nothing follows a terminal frame.
THEOREM TerminalIsLast ==
  StreamSpec => [](\A t \in Turns : \A i \in 1 .. Len(out[t]) - 1 : out[t][i] \notin Terminals)
<1>1. SInv => \A t \in Turns : \A i \in 1 .. Len(out[t]) - 1 : out[t][i] \notin Terminals
  BY DEF SInv, Wording, Worded
<1> QED
  BY <1>1, StreamInvariant, PTL

\* When a turn was answered its client has had, before the terminal frame, all
\* the text and reasoning its channel accepted, each fragment once and in order:
\* the answer waits for the collector, which ends with its channel empty, and
\* what the channel accepted was always sent or still in it (Conserved).
THEOREM StreamsAreComplete == StreamSpec => []CompleteBeforeTerminal
<1>1. SInv => CompleteBeforeTerminal
  <2> SUFFICES ASSUME SInv, NEW t \in Turns, Ended(t)
               PROVE  /\ \A i \in 1 .. Len(out[t]) - 1 : out[t][i] \notin Terminals
                      /\ Among(out[t], Fragments) = taken[t]
    BY DEF CompleteBeforeTerminal
  <2>1. Worded(t)
    BY DEF SInv, Wording
  <2>2. turn[t] = "answered"
    BY <2>1 DEF Ended, Worded, Clean
  <2>3. queue[t] = <<>>
    BY <2>2 DEF SInv, Shape, Drained
  <2>4. Among(out[t], Fragments) \in Seq(Frames)
    BY AmongEntries DEF SInv, StreamTypeOK
  <2>5. taken[t] = Join(Among(out[t], Fragments), <<>>)
    BY <2>3, AmongEmpty DEF SInv, Conserved
  <2> QED
    BY <2>1, <2>4, <2>5, JoinNone DEF Worded
<1> QED
  BY <1>1, StreamInvariant, PTL

-----------------------------------------------------------------------------
(* How a turn's channel is closed *)

\* the dispatch task has let the turn's sender go
Left(t) == turn[t] \in {"returned", "cancelled", "answered"}

\* A callback upgrades the registry's reference only while another strong one
\* is there (lookup, Weak::upgrade).
LEMMA ClosedStep ==
  ASSUME SInv, [StreamNext]_streamVars, NEW t \in Turns, Left(t), ~Strong(t)
  PROVE  Left(t)' /\ ~Strong(t)'
<1> USE DEF Left, Strong
<1>0. /\ turn \in [Turns -> {"waiting", "open", "returned", "cancelled", "answered"}]
      /\ hold \in [Turns -> [to : Turns \cup {NoTurn}, deltas : Seq(Deltas)]]
      /\ NoTurn \notin Turns
  BY StreamAssumption DEF SInv, StreamTypeOK
<1>1. ASSUME NEW u \in Turns, Open(u) \/ Leave(u, "returned") \/ Leave(u, "cancelled")
                              \/ Answer(u) \/ AnswerCancelled(u)
      PROVE  Left(t)' /\ ~Strong(t)'
  <2>1. hold' = hold /\ turn'[t] \in {turn[t], "answered"}
    BY <1>0, <1>1 DEF Open, Leave, Answer, AnswerCancelled
  <2> QED
    BY <2>1
<1>2. ASSUME NEW u \in Turns, TrySend(u) PROVE Left(t)' /\ ~Strong(t)'
  <2>1. turn' = turn /\ \A v \in Turns : hold'[v].to \in {hold[v].to, NoTurn}
    BY <1>0, <1>2 DEF TrySend, Released
  <2> QED
    BY <1>0, <2>1
<1>3. ASSUME NEW u \in Turns, NEW burst \in Bursts, Event(u, burst)
      PROVE  Left(t)' /\ ~Strong(t)'
  <2>1. turn' = turn /\ Lookup(SessionOf[u]) # t
    BY <1>0, <1>3 DEF Event, Lookup
  <2>2. \A v \in Turns : hold'[v].to \in {hold[v].to, Lookup(SessionOf[u])}
    BY <1>0, <1>3 DEF Event
  <2> QED
    BY <2>1, <2>2
<1>4. ASSUME NEW u \in Turns, Fork(u) \/ AgentEnds(u) \/ Collect(u) \/ CollectorEnds(u)
      PROVE  Left(t)' /\ ~Strong(t)'
  BY <1>4 DEF Fork, AgentEnds, Collect, CollectorEnds
<1>5. CASE UNCHANGED streamVars
  BY <1>5 DEF streamVars
<1> QED
  BY <1>1, <1>2, <1>3, <1>4, <1>5 DEF StreamNext

\* The safety half of TurnAnswered: once a turn has let its sender go and no
\* callback holds it, no entry of the registry and no agent left running ever
\* brings it back, so that its channel stays closed and only drains.
THEOREM ChannelsStayClosed ==
  StreamSpec =>
    [][\A t \in Turns : Left(t) /\ ~Strong(t) => Left(t)' /\ ~Strong(t)']_streamVars
<1>1. SInv /\ [StreamNext]_streamVars =>
        [\A t \in Turns : Left(t) /\ ~Strong(t) => Left(t)' /\ ~Strong(t)']_streamVars
  BY ClosedStep
<1> QED
  BY <1>1, StreamInvariant, PTL DEF StreamSpec

=============================================================================
