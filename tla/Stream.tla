--------------------------------- MODULE Stream ---------------------------------
(***************************************************************************)
(* The live stream of a chat turn: the callback of the agent looks up the  *)
(* sink of its session in StreamingSinkRegistry and tries to send deltas;  *)
(* the collector task of the turn turns them into frames for the client;   *)
(* the dispatch task drops its sender when the turn returns or is          *)
(* cancelled, awaits the collector and sends the terminal frame.           *)
(*                                                                         *)
(* The registry has one entry for a session and holds it weakly: an entry  *)
(* can be used while the dispatch task, or another callback that looked it *)
(* up, holds the sender.  Turns of one session overlap, and an agent that  *)
(* its turn left running (timeout, lost kill) goes on streaming.           *)
(*                                                                         *)
(* The model announcement and the deltas of tool calls pass through like   *)
(* text and are left out.  WebBridge::send does not fail.                  *)
(***************************************************************************)
EXTENDS Filter

CONSTANTS
  Turns,      \* dispatch tasks of chat turns
  NoTurn,
  Sessions,
  SessionOf,  \* the session of a turn
  Capacity,   \* STREAMING_CHANNEL_CAPACITY
  MaxEvents   \* events of all agents, at most (bound)

ASSUME StreamAssumption ==
  /\ NoTurn \notin Turns
  /\ SessionOf \in [Turns -> Sessions]
  /\ Capacity \in Nat \ {0}
  /\ MaxEvents \in Nat

VARIABLES
  turn,       \* where the dispatch task of a turn is
  agent,      \* its agent
  events,     \* events the agents have had
  sink,       \* the registry: the turn whose sender a session's entry points to
  hold,       \* the sender a callback upgraded and what it has still to send
  queue,      \* the channel of a turn
  collector,  \* the collector of a turn
  reasoning,  \* its was_reasoning
  out,        \* frames sent for a turn, the terminal one included
  taken       \* the text and reasoning its channel accepted (history)

streamVars == <<turn, agent, events, sink, hold, queue, collector, reasoning, out, taken>>

Deltas    == {"text", "thinking", "thought", "thinkingEnd"}
Fragments == {"text", "thought"}
Terminals == {"done", "cancelled"}
Frames    == {"text", "start", "thought", "end"} \cup Terminals
Released  == [to |-> NoTurn, deltas |-> <<>>]

StreamTypeOK ==
  /\ turn \in [Turns -> {"waiting", "open", "returned", "cancelled", "answered"}]
  /\ agent \in [Turns -> {"none", "running", "ended"}]
  /\ events \in 0 .. MaxEvents
  /\ sink \in [Sessions -> Turns \cup {NoTurn}]
  /\ hold \in [Turns -> [to : Turns \cup {NoTurn}, deltas : Seq(Deltas)]]
  /\ queue \in [Turns -> Seq(Deltas)]
  /\ \A t \in Turns : Len(queue[t]) <= Capacity
  /\ collector \in [Turns -> {"none", "running", "ended"}]
  /\ reasoning \in [Turns -> BOOLEAN]
  /\ out \in [Turns -> Seq(Frames)]
  /\ taken \in [Turns -> Seq(Fragments)]

StreamInit ==
  /\ turn = [t \in Turns |-> "waiting"]
  /\ agent = [t \in Turns |-> "none"]
  /\ events = 0
  /\ sink = [s \in Sessions |-> NoTurn]
  /\ hold = [t \in Turns |-> Released]
  /\ queue = [t \in Turns |-> <<>>]
  /\ collector = [t \in Turns |-> "none"]
  /\ reasoning = [t \in Turns |-> FALSE]
  /\ out = [t \in Turns |-> <<>>]
  /\ taken = [t \in Turns |-> <<>>]

-----------------------------------------------------------------------------
(* The sender's strong references *)

\* Mutant of Strong: the registry keeps senders alive
StrongByRegistry(t) ==
  turn[t] = "open" \/ sink[SessionOf[t]] = t \/ \E u \in Turns : hold[u].to = t

\* someone holds the sender of t, so that its channel is open
Strong(t) == turn[t] = "open" \/ \E u \in Turns : hold[u].to = t

\* lookup: the entry, if it can be upgraded
Lookup(s) == IF sink[s] # NoTurn /\ Strong(sink[s]) THEN sink[s] ELSE NoTurn

-----------------------------------------------------------------------------
(* The dispatch task *)

\* the sink is registered over whatever the session's entry was
Open(t) ==
  /\ turn[t] = "waiting"
  /\ turn' = [turn EXCEPT ![t] = "open"]
  /\ sink' = [sink EXCEPT ![SessionOf[t]] = t]
  /\ collector' = [collector EXCEPT ![t] = "running"]
  /\ UNCHANGED <<agent, events, hold, queue, reasoning, out, taken>>

\* handle_unified returns or the turn's token is cancelled: the sender is
\* dropped.  The agent may have ended or go on.
Leave(t, how) ==
  /\ turn[t] = "open"
  /\ turn' = [turn EXCEPT ![t] = how]
  /\ UNCHANGED <<agent, events, sink, hold, queue, collector, reasoning, out, taken>>

\* Mutant of Answer: the collector is not awaited
AnswerAtOnce(t) ==
  /\ turn[t] = "returned"
  /\ turn' = [turn EXCEPT ![t] = "answered"]
  /\ out' = [out EXCEPT ![t] = Append(@, "done")]
  /\ UNCHANGED <<agent, events, sink, hold, queue, collector, reasoning, taken>>

\* the terminal frame, once the collector was awaited
Answer(t) ==
  /\ turn[t] = "returned" /\ collector[t] = "ended"
  /\ turn' = [turn EXCEPT ![t] = "answered"]
  /\ out' = [out EXCEPT ![t] = Append(@, "done")]
  /\ UNCHANGED <<agent, events, sink, hold, queue, collector, reasoning, taken>>

\* the cancelled branch unregisters the session's sink once more
AnswerCancelled(t) ==
  /\ turn[t] = "cancelled" /\ collector[t] = "ended"
  /\ turn' = [turn EXCEPT ![t] = "answered"]
  /\ sink' = [sink EXCEPT ![SessionOf[t]] = NoTurn]
  /\ out' = [out EXCEPT ![t] = Append(@, "cancelled")]
  /\ UNCHANGED <<agent, events, hold, queue, collector, reasoning, taken>>

-----------------------------------------------------------------------------
(* The agent's callback *)

Fork(t) ==
  /\ turn[t] = "open" /\ agent[t] = "none"
  /\ agent' = [agent EXCEPT ![t] = "running"]
  /\ UNCHANGED <<turn, events, sink, hold, queue, collector, reasoning, out, taken>>

AgentEnds(t) ==
  /\ agent[t] = "running" /\ hold[t] = Released
  /\ agent' = [agent EXCEPT ![t] = "ended"]
  /\ UNCHANGED <<turn, events, sink, hold, queue, collector, reasoning, out, taken>>

\* what the callback sends for an event of the SDK
Bursts == {<<"text">>, <<"thinking">>, <<"thinking", "thought">>, <<"thinkingEnd">>}

\* an event finds the session's sink, or none and is not streamed
Event(t, burst) ==
  /\ agent[t] = "running" /\ hold[t] = Released
  /\ events < MaxEvents
  /\ events' = events + 1
  /\ hold' = LET to == Lookup(SessionOf[t])
             IN IF to = NoTurn THEN hold
                ELSE [hold EXCEPT ![t] = [to |-> to, deltas |-> burst]]
  /\ UNCHANGED <<turn, agent, sink, queue, collector, reasoning, out, taken>>

Room(t) == Len(queue[t]) < Capacity

\* try_send: a full channel loses the delta; the last one lets the sender go
TrySend(t) ==
  LET x == hold[t].to
      d == Head(hold[t].deltas)
  IN /\ x # NoTurn
     /\ IF Room(x)
        THEN /\ queue' = [queue EXCEPT ![x] = Append(@, d)]
             /\ taken' = [taken EXCEPT ![x] = IF d \in Fragments THEN Append(@, d) ELSE @]
        ELSE UNCHANGED <<queue, taken>>
     /\ hold' = [hold EXCEPT ![t] =
                   IF Len(hold[t].deltas) = 1 THEN Released
                   ELSE [to |-> x, deltas |-> Tail(hold[t].deltas)]]
     /\ UNCHANGED <<turn, agent, events, sink, collector, reasoning, out>>

-----------------------------------------------------------------------------
(* The collector *)

EndIf(open) == IF open THEN <<"end">> ELSE <<>>

\* Mutant of FramesOf: a start marker for every delta
FramesOfUngated(d, open) ==
  CASE d = "text"        -> EndIf(open) \o <<"text">>
    [] d = "thinking"    -> <<"start">>
    [] d = "thought"     -> <<"thought">>
    [] d = "thinkingEnd" -> <<"end">>

\* the frames for a delta; open: the stream is in a reasoning span
FramesOf(d, open) ==
  CASE d = "text"        -> EndIf(open) \o <<"text">>
    [] d = "thinking"    -> IF open THEN <<>> ELSE <<"start">>
    [] d = "thought"     -> <<"thought">>
    [] d = "thinkingEnd" -> <<"end">>

Collect(t) ==
  /\ collector[t] = "running" /\ queue[t] # <<>>
  /\ queue' = [queue EXCEPT ![t] = Tail(@)]
  /\ out' = [out EXCEPT ![t] = @ \o FramesOf(Head(queue[t]), reasoning[t])]
  /\ reasoning' = [reasoning EXCEPT ![t] = Head(queue[t]) \in {"thinking", "thought"}]
  /\ UNCHANGED <<turn, agent, events, sink, hold, collector, taken>>

\* Mutant of CollectorEnds: the registry is left to the dispatch task
CollectorEndsOnly(t) ==
  /\ collector[t] = "running" /\ queue[t] = <<>> /\ ~Strong(t)
  /\ collector' = [collector EXCEPT ![t] = "ended"]
  /\ out' = [out EXCEPT ![t] = @ \o EndIf(reasoning[t])]
  /\ UNCHANGED <<turn, agent, events, sink, hold, queue, reasoning, taken>>

\* every sender is gone: the last span is closed and the session's entry, its
\* own or not, removed
CollectorEnds(t) ==
  /\ collector[t] = "running" /\ queue[t] = <<>> /\ ~Strong(t)
  /\ collector' = [collector EXCEPT ![t] = "ended"]
  /\ out' = [out EXCEPT ![t] = @ \o EndIf(reasoning[t])]
  /\ sink' = [sink EXCEPT ![SessionOf[t]] = NoTurn]
  /\ UNCHANGED <<turn, agent, events, hold, queue, reasoning, taken>>

-----------------------------------------------------------------------------
StreamNext ==
  \E t \in Turns :
    \/ Open(t) \/ Leave(t, "returned") \/ Leave(t, "cancelled")
    \/ Answer(t) \/ AnswerCancelled(t)
    \/ Fork(t) \/ AgentEnds(t) \/ TrySend(t)
    \/ \E burst \in Bursts : Event(t, burst)
    \/ Collect(t) \/ CollectorEnds(t)

StreamSpec == StreamInit /\ [][StreamNext]_streamVars

\* The runtime polls the tasks, and a callback does not block.  Nothing makes a
\* turn return or an agent end.
StreamFairness ==
  \A t \in Turns :
    /\ WF_streamVars(Answer(t) \/ AnswerCancelled(t))
    /\ WF_streamVars(TrySend(t))
    /\ WF_streamVars(Collect(t) \/ CollectorEnds(t))

StreamFairSpec == StreamSpec /\ StreamFairness

-----------------------------------------------------------------------------
(* Properties *)

Ended(t) == \E i \in 1 .. Len(out[t]) : out[t][i] \in Terminals

\* Nothing follows a terminal frame, and the text and reasoning that went out
\* before it are what the turn's channel accepted, each fragment once and in
\* their order, whichever agent sent them and however late.
CompleteBeforeTerminal ==
  \A t \in Turns : Ended(t) =>
    /\ \A i \in 1 .. Len(out[t]) - 1 : out[t][i] \notin Terminals
    /\ Among(out[t], Fragments) = taken[t]

\* The client's thinking block: no span starts inside another, and none is open
\* when the terminal frame comes, whatever deltas were lost or mixed.
SpansWellFormed ==
  \A t \in Turns : \A i \in 1 .. Len(out[t]) :
    /\ out[t][i] = "start" =>
         \A j \in i + 1 .. Len(out[t]) : out[t][j] = "start" =>
           \E k \in i .. j : out[t][k] = "end"
    /\ out[t][i] \in {"start", "thought"} /\ Ended(t) =>
         \E k \in i .. Len(out[t]) : out[t][k] = "end"

\* An entry of the registry belongs to a turn whose collector still runs: none
\* outlives its turn, even if turns of the session replace and remove each
\* other's entries.
NoStaleSink ==
  \A s \in Sessions : sink[s] # NoTurn => collector[sink[s]] = "running"

\* A turn that returned or was cancelled sends its terminal frame, even while
\* an agent left running streams into it: no sender keeps its channel open.
TurnAnswered ==
  \A t \in Turns : (turn[t] \in {"returned", "cancelled"}) ~> (turn[t] = "answered")

=============================================================================
