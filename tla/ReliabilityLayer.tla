--------------------------- MODULE ReliabilityLayer ---------------------------
(***************************************************************************)
(* The delivery layer between the gateway and its channels: assign_seq     *)
(* numbers an outgoing message and keeps it in a bounded ring buffer with  *)
(* a time to live; replay answers a client's cursor from that buffer.      *)
(*                                                                         *)
(* assign_seq draws the number from an atomic counter before it takes the  *)
(* buffer's lock, so two dispatch tasks (Senders) can push in the other    *)
(* order: drawing and pushing are two actions.  A message is its number.   *)
(***************************************************************************)
EXTENDS Filter

CONSTANTS
  Senders,     \* tasks that call assign_seq at the same time
  BufferSize,  \* ReplayConfig.buffer_size
  MaxSeq       \* messages sent in a behaviour, at most (bound)

ASSUME LayerAssumption == BufferSize \in Nat \ {0} /\ MaxSeq \in Nat

VARIABLES
  seq,     \* the atomic counter
  hand,    \* the number a sender drew and has not pushed, 0 for none
  buffer,  \* the ring buffer, oldest push first
  stale,   \* how many entries at the front are older than the ttl
  pushed,    \* every number ever pushed (history)
  overtaken  \* those of them that were pushed after a larger one (history)

vars == <<seq, hand, buffer, stale, pushed, overtaken>>

TypeOK ==
  /\ seq \in 0 .. MaxSeq
  /\ hand \in [Senders -> 0 .. MaxSeq]
  /\ buffer \in Seq(1 .. MaxSeq)
  /\ stale \in 0 .. Len(buffer)
  /\ overtaken \subseteq pushed
  /\ pushed \subseteq 1 .. MaxSeq

Init ==
  /\ seq = 0
  /\ hand = [s \in Senders |-> 0]
  /\ buffer = <<>>
  /\ stale = 0
  /\ pushed = {}
  /\ overtaken = {}

-----------------------------------------------------------------------------
\* Mutant of Draw: the counter is read and written back in two steps
DrawUnfenced(s) ==
  /\ hand[s] = 0
  /\ seq < MaxSeq
  /\ \E n \in {seq, seq + 1} : n > 0 /\ seq' = n /\ hand' = [hand EXCEPT ![s] = n]
  /\ UNCHANGED <<buffer, stale, pushed, overtaken>>

\* fetch_add
Draw(s) ==
  /\ hand[s] = 0
  /\ seq < MaxSeq
  /\ seq' = seq + 1
  /\ hand' = [hand EXCEPT ![s] = seq + 1]
  /\ UNCHANGED <<buffer, stale, pushed, overtaken>>

\* one more entry outlives the ttl; entries age in the order of their pushes
Age ==
  /\ stale < Len(buffer)
  /\ stale' = stale + 1
  /\ UNCHANGED <<seq, hand, buffer, pushed, overtaken>>

\* Mutant of Cut: eviction waits until the capacity is exceeded
CutLate == IF Len(buffer) - stale > BufferSize
           THEN Len(buffer) - BufferSize + 1
           ELSE stale

\* how many entries the ttl purge and the capacity eviction take off the front
\* so that one more fits, and what is left
Cut  == IF Len(buffer) - stale >= BufferSize
        THEN Len(buffer) - BufferSize + 1
        ELSE stale

Kept == SubSeq(buffer, Cut + 1, Len(buffer))

\* under the write lock: purge, evict, push
Push(s) ==
  /\ hand[s] # 0
  /\ buffer' = Append(Kept, hand[s])
  /\ stale' = 0
  /\ pushed' = pushed \cup {hand[s]}
  /\ overtaken' = IF \E n \in pushed : n > hand[s]
                  THEN overtaken \cup {hand[s]} ELSE overtaken
  /\ hand' = [hand EXCEPT ![s] = 0]
  /\ UNCHANGED seq

Next == Age \/ \E s \in Senders : Draw(s) \/ Push(s)

Spec == Init /\ [][Next]_vars

-----------------------------------------------------------------------------
(* replay(last_seq), by another task at any time *)

\* Mutant of Resyncs: off by one at the buffer's front
ResyncsLate(c) == buffer # <<>> /\ c + 2 < Head(buffer)

\* Resync: the cursor is older than the buffer's oldest message
Resyncs(c) == buffer # <<>> /\ c + 1 < Head(buffer)

\* Replay(msgs): every buffered message after the cursor, in buffer order
Replayed(c) == Among(buffer, {n \in 1 .. MaxSeq : n > c})

-----------------------------------------------------------------------------
(* Properties *)

\* Every number drawn is in exactly one place: in one sender's hand or pushed,
\* and it is in the buffer at most once, however many tasks assign.
NumbersAccounted ==
  /\ pushed \cup ({hand[s] : s \in Senders} \ {0}) = 1 .. seq
  /\ \A s, t \in Senders : s # t /\ hand[s] # 0 => hand[s] # hand[t]
  /\ \A s \in Senders : hand[s] \notin pushed
  /\ \A i, j \in 1 .. Len(buffer) : buffer[i] = buffer[j] => i = j
  /\ \A i \in 1 .. Len(buffer) : buffer[i] \in pushed

\* The buffer never exceeds its capacity.
BufferBounded == Len(buffer) <= BufferSize

\* "the client gets the missing slice via Replay(msgs) -- gapless": unless it
\* is told to resync, every message pushed after a client's cursor is in what
\* it is replayed, with any number of tasks, as long as the message at the
\* buffer's front did not let a larger number pass before it.
NoSilentGap ==
  buffer = <<>> \/ Head(buffer) \notin overtaken
    => \A c \in 0 .. seq : \A n \in pushed :
         n > c /\ ~Resyncs(c)
           => \E i \in 1 .. Len(Replayed(c)) : Replayed(c)[i] = n

\* The slice is in the order of the numbers, without a hole between two.
SliceInOrder ==
  \A i \in 1 .. Len(buffer) - 1 : buffer[i + 1] = buffer[i] + 1

================================================================================
