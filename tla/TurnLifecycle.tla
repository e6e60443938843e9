---------------------------- MODULE TurnLifecycle ----------------------------
(***************************************************************************)
(* One chat turn from the gateway's inbox to its terminal frame, and the   *)
(* agents it runs on the way:                                              *)
(*                                                                         *)
(*   gateway.rs          event loop, permits, dispatch task, shutdown      *)
(*   turn_registry.rs    cancellable turns, keyed by session or request id *)
(*   agent_lifecycle.rs  fork, bind, A2A card, run, clean up               *)
(*   supervisor.rs       the agent table, the task handles, kill           *)
(*                                                                         *)
(* The dispatch task of a turn, the WebSocket task that cancels it, the    *)
(* HTTP task that kills an agent and the agent's own task run on different *)
(* threads: an action is what one of them does between two points where    *)
(* another can act on the shared maps.  The recovery ladder is reduced to  *)
(* "may run again or return"; RecoveryLadder has it in full.               *)
(***************************************************************************)
EXTENDS Integers, FiniteSets, Sequences

CONSTANTS
  Turns,        \* incoming chat messages, by request id
  Sessions,     \* session ids a message may carry
  SessionOf,    \* the session id in a message's metadata, or None
  None,         \* absence
  MaxRoutes,    \* MAX_CONCURRENT_ROUTES: permits of the event loop
  MaxAttempts,  \* executions of one directive, at most
  ExecTimeout,  \* max_execution_time_secs > 0
  UserCancels,  \* somebody presses Stop
  UserKills,    \* somebody kills agents by id
  WebRestarts   \* the supervisor restarts the web surface

Keys == Turns \cup Sessions

\* every fork draws a fresh uuid: the agent of a turn's n-th attempt
Agents == Turns \X (1 .. MaxAttempts)

ASSUME ConstantsAssumption ==
  /\ None \notin Keys \cup Agents
  /\ SessionOf \in [Turns -> Keys \cup {None}]
  /\ IsFiniteSet(Turns)
  /\ MaxRoutes \in Nat \ {0}
  /\ MaxAttempts \in Nat \ {0}
  /\ {ExecTimeout, UserCancels, UserKills, WebRestarts} \subseteq BOOLEAN

\* gateway: session_id.unwrap_or(request_id); the orchestrator does the same
Key(t) == IF SessionOf[t] = None THEN t ELSE SessionOf[t]

DistinctKeys == \A t, u \in Turns : t # u => Key(t) # Key(u)

VARIABLES
  loop,       \* "running", "draining" (finish_shutdown) or "stopped"
  stopReq,    \* the shutdown watch channel holds true
  inbox,      \* the gateway's mpsc buffer
  free,       \* permits left in the semaphore
  channelUp,  \* the turn's channel is in the gateway's channel table
  pc,         \* where each turn is, see below
  frame,      \* the terminal frame the client was sent for a turn
  attempts,   \* agents a turn has forked
  outcome,    \* what the turn's last execute_directive returned
  entry,      \* TurnRegistry: the turn whose token is stored under a key
  bound,      \* TurnRegistry: the agent id stored under a key
  cancelled,  \* TurnToken: the turn's cancel flag
  status,     \* supervisor's agent table
  task,       \* the spawned agent task, and the result it sent
  handles,    \* agents whose task handle kill can reach
  killing,    \* progress of a kill of the agent
  cards,      \* agents with a card in the A2A registry
  orphaned    \* agents whose awaiting future is gone (history)

loopVars  == <<loop, stopReq, inbox, free, channelUp>>
turnVars  == <<pc, frame, attempts, outcome>>
regVars   == <<entry, bound, cancelled>>
agentVars == <<status, task, handles, killing, cards, orphaned>>
vars == <<loopVars, turnVars, regVars, agentVars>>

(***************************************************************************)
(* Places of a turn.  "planning" is inside handle_unified with no agent of *)
(* its own; "forked" to "cleaning" is inside execute_directive.            *)
(***************************************************************************)
Running   == {"forked", "bound", "carded", "started", "awaiting", "cleaning"}
OpenTurn  == {"planning", "attempted", "answering", "closing", "cancelling"} \cup Running
Holding   == OpenTurn \cup {"accepted", "notifying"}
Ended     == {"done", "lost"}
Places    == Holding \cup Ended \cup {"idle", "queued", "held"}

\* awaits inside the select!, where a cancelled token drops handle_unified
Suspended == {"planning", "bound", "carded", "awaiting", "cleaning", "attempted"}

Frames   == {"none", "answer", "error", "cancelled", "dropped"}
Results  == {"ok", "provider", "plain"}   \* success, classified failure, neither
Outcomes == {"none", "err"} \cup Results
Statuses == {"none", "starting", "running", "completed", "failed", "stopped"}
Tasks    == {"none", "running", "aborted"} \cup Results
Kills    == {"no", "abort", "mark", "killed"}

Agent(t) == <<t, attempts[t]>>   \* the agent of the attempt under way

TypeOK ==
  /\ loop \in {"running", "draining", "stopped"}
  /\ stopReq \in BOOLEAN
  /\ inbox \in Seq(Turns)
  /\ free \in 0 .. MaxRoutes
  /\ channelUp \in BOOLEAN
  /\ pc \in [Turns -> Places]
  /\ frame \in [Turns -> Frames]
  /\ attempts \in [Turns -> 0 .. MaxAttempts]
  /\ outcome \in [Turns -> Outcomes]
  /\ entry \in [Keys -> Turns \cup {None}]
  /\ bound \in [Keys -> Agents \cup {None}]
  /\ cancelled \in [Turns -> BOOLEAN]
  /\ status \in [Agents -> Statuses]
  /\ task \in [Agents -> Tasks]
  /\ handles \in SUBSET Agents
  /\ killing \in [Agents -> Kills]
  /\ cards \in SUBSET Agents
  /\ orphaned \in SUBSET Agents

Init ==
  /\ loop = "running"
  /\ stopReq = FALSE
  /\ inbox = <<>>
  /\ free = MaxRoutes
  /\ channelUp = TRUE
  /\ pc = [t \in Turns |-> "idle"]
  /\ frame = [t \in Turns |-> "none"]
  /\ attempts = [t \in Turns |-> 0]
  /\ outcome = [t \in Turns |-> "none"]
  /\ entry = [k \in Keys |-> None]
  /\ bound = [k \in Keys |-> None]
  /\ cancelled = [t \in Turns |-> FALSE]
  /\ status = [a \in Agents |-> "none"]
  /\ task = [a \in Agents |-> "none"]
  /\ handles = {}
  /\ killing = [a \in Agents |-> "no"]
  /\ cards = {}
  /\ orphaned = {}

Goto(t, place) == pc' = [pc EXCEPT ![t] = place]

-----------------------------------------------------------------------------
(* The event loop *)

\* a channel's receive task puts the user's message in the inbox
Send(t) ==
  /\ pc[t] = "idle"
  /\ loop # "stopped"
  /\ Goto(t, "queued")
  /\ inbox' = Append(inbox, t)
  /\ UNCHANGED <<loop, stopReq, free, channelUp, frame, attempts, outcome, regVars, agentVars>>

\* rx.recv(): the loop then waits for a permit with this message in hand,
\* and polls neither the inbox nor the shutdown signal meanwhile
Receive ==
  /\ loop = "running"
  /\ \A u \in Turns : pc[u] # "held"
  /\ inbox # <<>>
  /\ Goto(Head(inbox), "held")
  /\ inbox' = Tail(inbox)
  /\ UNCHANGED <<loop, stopReq, free, channelUp, frame, attempts, outcome, regVars, agentVars>>

\* Mutant of Dispatch: the task is spawned before a permit is granted
DispatchUnbounded(t) ==
  /\ loop = "running"
  /\ pc[t] = "held"
  /\ ~stopReq
  /\ free' = IF free > 0 THEN free - 1 ELSE 0
  /\ Goto(t, "accepted")
  /\ UNCHANGED <<loop, stopReq, inbox, channelUp, frame, attempts, outcome, regVars, agentVars>>

\* the permit is granted and the dispatch task spawned with it
Dispatch(t) ==
  /\ loop = "running"
  /\ pc[t] = "held"
  /\ free > 0
  /\ ~stopReq
  /\ free' = free - 1
  /\ Goto(t, "accepted")
  /\ UNCHANGED <<loop, stopReq, inbox, channelUp, frame, attempts, outcome, regVars, agentVars>>

\* the permit is granted but shutdown was signalled meanwhile
DropHeld(t) ==
  /\ loop = "running"
  /\ pc[t] = "held"
  /\ free > 0
  /\ stopReq
  /\ loop' = "draining"
  /\ Goto(t, "lost")
  /\ UNCHANGED <<stopReq, inbox, free, channelUp, frame, attempts, outcome, regVars, agentVars>>

RequestShutdown ==
  /\ ~stopReq
  /\ stopReq' = TRUE
  /\ UNCHANGED <<loop, inbox, free, channelUp, turnVars, regVars, agentVars>>

\* shutdown.changed() wins the select!
ObserveShutdown ==
  /\ loop = "running"
  /\ \A u \in Turns : pc[u] # "held"
  /\ stopReq
  /\ loop' = "draining"
  /\ UNCHANGED <<stopReq, inbox, free, channelUp, turnVars, regVars, agentVars>>

\* finish_shutdown: every in-flight dispatch ended or outlived
\* SHUTDOWN_TIMEOUT, then the channel table is emptied; what is still in the
\* inbox is never received
FinishShutdown ==
  /\ loop = "draining"
  /\ loop' = "stopped"
  /\ channelUp' = FALSE
  /\ pc' = [t \in Turns |-> IF pc[t] = "queued" THEN "lost" ELSE pc[t]]
  /\ inbox' = <<>>
  /\ UNCHANGED <<stopReq, free, frame, attempts, outcome, regVars, agentVars>>

\* the web surface is restarted in place: its channel leaves and comes back
ChannelRestart ==
  /\ WebRestarts
  /\ loop = "running"
  /\ channelUp' = ~channelUp
  /\ UNCHANGED <<loop, stopReq, inbox, free, turnVars, regVars, agentVars>>

-----------------------------------------------------------------------------
(* The dispatch task: handle_unified, raced against the turn's token *)

\* turns.open: a fresh token replaces whatever the key held
Open(t) ==
  /\ pc[t] = "accepted"
  /\ Goto(t, "planning")
  /\ entry' = [entry EXCEPT ![Key(t)] = t]
  /\ bound' = [bound EXCEPT ![Key(t)] = None]
  /\ UNCHANGED <<loopVars, frame, attempts, outcome, cancelled, agentVars>>

\* supervisor.fork_directive.  The select! polls the token first, so a turn
\* cancelled while planning forks nothing; a retry may come within the poll
\* that saw the previous attempt end.
Fork(t) ==
  /\ pc[t] = "planning"
  /\ attempts[t] < MaxAttempts
  /\ attempts[t] = 0 => ~cancelled[t]
  /\ Goto(t, "forked")
  /\ attempts' = [attempts EXCEPT ![t] = @ + 1]
  /\ status' = [status EXCEPT ![Agent(t)'] = "starting"]
  /\ UNCHANGED <<loopVars, frame, outcome, regVars, task, handles, killing, cards, orphaned>>

\* Mutant of BindLive: bind_agent does not look at the cancel flag
BindBlind(t) ==
  /\ pc[t] = "forked"
  /\ Goto(t, "bound")
  /\ bound' = IF entry[Key(t)] = None THEN bound ELSE [bound EXCEPT ![Key(t)] = Agent(t)]
  /\ UNCHANGED <<loopVars, frame, attempts, outcome, entry, cancelled, agentVars>>

\* bind_agent finds no entry, or a live one
BindLive(t) ==
  LET e == entry[Key(t)] IN
  /\ pc[t] = "forked"
  /\ e # None => ~cancelled[e]
  /\ Goto(t, "bound")
  /\ bound' = IF e = None THEN bound ELSE [bound EXCEPT ![Key(t)] = Agent(t)]
  /\ UNCHANGED <<loopVars, frame, attempts, outcome, entry, cancelled, agentVars>>

\* bind_agent finds the entry cancelled: kill the agent, clean up and bail
BindCancelled(t) ==
  LET e == entry[Key(t)] IN
  /\ pc[t] = "forked"
  /\ e # None /\ cancelled[e]
  /\ Goto(t, "cleaning")
  /\ bound' = [bound EXCEPT ![Key(t)] = Agent(t)]
  /\ outcome' = [outcome EXCEPT ![t] = "err"]
  /\ status' = [status EXCEPT ![Agent(t)] = "stopped"]
  /\ killing' = [killing EXCEPT ![Agent(t)] = "killed"]
  /\ UNCHANGED <<loopVars, frame, attempts, entry, cancelled, task, handles, cards, orphaned>>

\* a2a.registry().register_agent
RegisterCard(t) ==
  /\ pc[t] = "bound"
  /\ Goto(t, "carded")
  /\ cards' = cards \cup {Agent(t)}
  /\ UNCHANGED <<loopVars, frame, attempts, outcome, regVars, status, task, handles, killing, orphaned>>

\* run_with_directive: mark running, whatever the status was, and spawn
StartRun(t) ==
  /\ pc[t] = "carded"
  /\ Goto(t, "started")
  /\ status' = [status EXCEPT ![Agent(t)] = "running"]
  /\ task' = [task EXCEPT ![Agent(t)] = "running"]
  /\ UNCHANGED <<loopVars, frame, attempts, outcome, regVars, handles, killing, cards, orphaned>>

\* only now can a kill find the task
InsertHandle(t) ==
  /\ pc[t] = "started"
  /\ Goto(t, "awaiting")
  /\ handles' = handles \cup {Agent(t)}
  /\ UNCHANGED <<loopVars, frame, attempts, outcome, regVars, status, task, killing, cards, orphaned>>

\* Mutant of Settle: the handle is removed only by a kill
SettleKeepHandle(t) ==
  LET r == task[Agent(t)] IN
  /\ pc[t] = "awaiting"
  /\ ~cancelled[t]
  /\ r # "running"
  /\ Goto(t, "cleaning")
  /\ outcome' = [outcome EXCEPT ![t] = IF r = "aborted" THEN "plain" ELSE r]
  /\ status' = [status EXCEPT ![Agent(t)] = IF r = "ok" THEN "completed" ELSE "failed"]
  /\ UNCHANGED <<loopVars, frame, attempts, regVars, task, handles, killing, cards, orphaned>>

\* done_rx resolves, with a result or because the task is gone: the handle is
\* removed and the status overwritten, a "stopped" by a kill included
Settle(t) ==
  LET r == task[Agent(t)] IN
  /\ pc[t] = "awaiting"
  /\ ~cancelled[t]
  /\ r # "running"
  /\ Goto(t, "cleaning")
  /\ outcome' = [outcome EXCEPT ![t] = IF r = "aborted" THEN "plain" ELSE r]
  /\ handles' = handles \ {Agent(t)}
  /\ status' = [status EXCEPT ![Agent(t)] = IF r = "ok" THEN "completed" ELSE "failed"]
  /\ UNCHANGED <<loopVars, frame, attempts, regVars, task, killing, cards, orphaned>>

\* Mutant of TimeoutRun: no cleanup_on_failure
TimeoutNoCleanUp(t) ==
  /\ ExecTimeout
  /\ pc[t] = "awaiting"
  /\ ~cancelled[t]
  /\ Goto(t, "attempted")
  /\ outcome' = [outcome EXCEPT ![t] = "err"]
  /\ orphaned' = orphaned \cup {Agent(t)}
  /\ UNCHANGED <<loopVars, frame, attempts, regVars, status, task, handles, killing, cards>>

\* timeout(..): the awaiting future is dropped and the card removed; the task
\* and its handle stay
TimeoutRun(t) ==
  /\ ExecTimeout
  /\ pc[t] = "awaiting"
  /\ ~cancelled[t]
  /\ Goto(t, "attempted")
  /\ outcome' = [outcome EXCEPT ![t] = "err"]
  /\ cards' = cards \ {Agent(t)}
  /\ orphaned' = orphaned \cup {Agent(t)}
  /\ UNCHANGED <<loopVars, frame, attempts, regVars, status, task, handles, killing>>

\* cleanup: unregister the A2A card
CleanUp(t) ==
  /\ pc[t] = "cleaning"
  /\ Goto(t, "attempted")
  /\ cards' = cards \ {Agent(t)}
  /\ UNCHANGED <<loopVars, frame, attempts, outcome, regVars, status, task, handles, killing, orphaned>>

\* the ladder runs the directive again: a first attempt only if it failed
\* with a class, a later one unless it succeeded
Retry(t) ==
  /\ pc[t] = "attempted"
  /\ attempts[t] < MaxAttempts
  /\ \/ attempts[t] = 1 /\ outcome[t] = "provider"
     \/ attempts[t] > 1 /\ outcome[t] # "ok"
  /\ Goto(t, "planning")
  /\ UNCHANGED <<loopVars, frame, attempts, outcome, regVars, agentVars>>

\* handle_unified returns
Return(t) ==
  /\ pc[t] = "attempted"
  /\ Goto(t, "answering")
  /\ UNCHANGED <<loopVars, frame, attempts, outcome, regVars, agentVars>>

\* Mutant of DropFuture: the token is polled only while the agent is awaited
DropAwaiting(t) ==
  /\ pc[t] = "awaiting"
  /\ cancelled[t]
  /\ Goto(t, "cancelling")
  /\ orphaned' = orphaned \cup {Agent(t)}
  /\ UNCHANGED <<loopVars, frame, attempts, outcome, regVars, status, task, handles, killing, cards>>

\* the token wins the select!: handle_unified is dropped where it waits
DropFuture(t) ==
  /\ pc[t] \in Suspended
  /\ cancelled[t]
  /\ Goto(t, "cancelling")
  /\ orphaned' = IF pc[t] = "awaiting" THEN orphaned \cup {Agent(t)} ELSE orphaned
  /\ UNCHANGED <<loopVars, frame, attempts, outcome, regVars, status, task, handles, killing, cards>>

-----------------------------------------------------------------------------
(* The end of the dispatch task *)

\* what becomes of a frame: sent, or dropped because the channel left the
\* table or every delivery failed
Delivered(kind) == {"dropped"} \cup (IF channelUp THEN {kind} ELSE {})

CloseKey(t) ==
  /\ entry' = [entry EXCEPT ![Key(t)] = None]
  /\ bound' = [bound EXCEPT ![Key(t)] = None]
  /\ UNCHANGED cancelled

\* only an error of the first execution leaves the ladder as an error
Answer(t) ==
  /\ pc[t] = "answering"
  /\ Goto(t, "closing")
  /\ \E f \in Delivered(IF attempts[t] = 1 /\ outcome[t] = "err" THEN "error" ELSE "answer") :
       frame' = [frame EXCEPT ![t] = f]
  /\ UNCHANGED <<loopVars, attempts, outcome, regVars, agentVars>>

\* Mutant of Close: the registry keeps the turn
CloseForgetful(t) ==
  /\ pc[t] = "closing"
  /\ Goto(t, "done")
  /\ free' = free + 1
  /\ UNCHANGED <<loop, stopReq, inbox, channelUp, frame, attempts, outcome, regVars, agentVars>>

\* Mutant of Close: the permit is leaked
CloseLeaky(t) ==
  /\ pc[t] = "closing"
  /\ Goto(t, "done")
  /\ CloseKey(t)
  /\ UNCHANGED <<loopVars, frame, attempts, outcome, agentVars>>

\* turns.close, then the task ends and its permit is released
Close(t) ==
  /\ pc[t] = "closing"
  /\ Goto(t, "done")
  /\ CloseKey(t)
  /\ free' = free + 1
  /\ UNCHANGED <<loop, stopReq, inbox, channelUp, frame, attempts, outcome, agentVars>>

\* Mutant of CloseCancelled: the permit is dropped here and at the task's end
CloseAndRelease(t) ==
  /\ pc[t] = "cancelling"
  /\ Goto(t, "notifying")
  /\ CloseKey(t)
  /\ free' = free + 1
  /\ UNCHANGED <<loop, stopReq, inbox, channelUp, frame, attempts, outcome, agentVars>>

\* the cancelled branch closes the turn first
CloseCancelled(t) ==
  /\ pc[t] = "cancelling"
  /\ Goto(t, "notifying")
  /\ CloseKey(t)
  /\ UNCHANGED <<loopVars, frame, attempts, outcome, agentVars>>

\* Mutant of NotifyCancelled: no return at the end of the cancelled branch
NotifyFallThrough(t) ==
  /\ pc[t] = "notifying"
  /\ Goto(t, "answering")
  /\ \E f \in Delivered("cancelled") : frame' = [frame EXCEPT ![t] = f]
  /\ UNCHANGED <<loopVars, attempts, outcome, regVars, agentVars>>

NotifyCancelled(t) ==
  /\ pc[t] = "notifying"
  /\ Goto(t, "done")
  /\ \E f \in Delivered("cancelled") : frame' = [frame EXCEPT ![t] = f]
  /\ free' = free + 1
  /\ UNCHANGED <<loop, stopReq, inbox, channelUp, attempts, outcome, regVars, agentVars>>

-----------------------------------------------------------------------------
(* The agent's own task, and the users who cancel turns and kill agents *)

\* the runtime returns; a panic drops done_tx as an abort does
TaskFinish(a) ==
  /\ task[a] = "running"
  /\ \E r \in Results \cup {"aborted"} : task' = [task EXCEPT ![a] = r]
  /\ UNCHANGED <<loopVars, turnVars, regVars, status, handles, killing, cards, orphaned>>

\* two kills of one agent are one at a time here
Killable(a) == status[a] # "none" /\ killing[a] \in {"no", "killed"}

\* a "cancel" frame: set the flag, read the bound agent, go and kill it
Cancel(k) ==
  /\ UserCancels
  /\ entry[k] # None
  /\ bound[k] # None => Killable(bound[k])
  /\ cancelled' = [cancelled EXCEPT ![entry[k]] = TRUE]
  /\ killing' = IF bound[k] = None THEN killing ELSE [killing EXCEPT ![bound[k]] = "abort"]
  /\ UNCHANGED <<loopVars, turnVars, entry, bound, status, task, handles, cards, orphaned>>

\* POST /api/agents/{id}/kill, or another agent's kill tool
KillAgent(a) ==
  /\ UserKills
  /\ Killable(a)
  /\ killing' = [killing EXCEPT ![a] = "abort"]
  /\ UNCHANGED <<loopVars, turnVars, regVars, status, task, handles, cards, orphaned>>

\* kill, under the handles lock
KillAbort(a) ==
  /\ killing[a] = "abort"
  /\ killing' = [killing EXCEPT ![a] = "mark"]
  /\ handles' = handles \ {a}
  /\ task' = IF a \in handles /\ task[a] = "running" THEN [task EXCEPT ![a] = "aborted"] ELSE task
  /\ UNCHANGED <<loopVars, turnVars, regVars, status, cards, orphaned>>

\* kill, under the agents lock
KillMark(a) ==
  /\ killing[a] = "mark"
  /\ killing' = [killing EXCEPT ![a] = "killed"]
  /\ status' = [status EXCEPT ![a] = "stopped"]
  /\ UNCHANGED <<loopVars, turnVars, regVars, task, handles, cards, orphaned>>

-----------------------------------------------------------------------------
Loop(t) == Dispatch(t) \/ DropHeld(t)

DispatchTask(t) ==
  \/ Open(t) \/ Fork(t) \/ BindLive(t) \/ BindCancelled(t)
  \/ RegisterCard(t) \/ StartRun(t) \/ InsertHandle(t)
  \/ Settle(t) \/ TimeoutRun(t) \/ CleanUp(t) \/ Retry(t) \/ Return(t)
  \/ DropFuture(t) \/ Answer(t) \/ Close(t) \/ CloseCancelled(t) \/ NotifyCancelled(t)

Next ==
  \/ Receive \/ RequestShutdown \/ ObserveShutdown \/ FinishShutdown \/ ChannelRestart
  \/ \E t \in Turns : Send(t) \/ Loop(t) \/ DispatchTask(t)
  \/ \E k \in Keys : Cancel(k)
  \/ \E a \in Agents : TaskFinish(a) \/ KillAgent(a) \/ KillAbort(a) \/ KillMark(a)

Spec == Init /\ [][Next]_vars

\* the runtime polls every task that is ready, and time passes: the event
\* loop, a dispatch task (its timer included) and a kill under way proceed.
\* Users, agents' models and restarts of the web surface owe nothing.
Fairness ==
  /\ WF_vars(Receive) /\ WF_vars(ObserveShutdown) /\ WF_vars(FinishShutdown)
  /\ \A t \in Turns : WF_vars(Loop(t)) /\ WF_vars(DispatchTask(t))
  /\ \A a \in Agents : WF_vars(KillAbort(a)) /\ WF_vars(KillMark(a))

FairSpec == Spec /\ Fairness

-----------------------------------------------------------------------------
(* Safety *)

Permitted == {t \in Turns : pc[t] \in Holding}   \* turns whose task has a permit

\* F19: the permits in the semaphore and the dispatch tasks alive add up to
\* MAX_CONCURRENT_ROUTES on every exit path, so none leaks and none doubles
PermitAccounting == free = MaxRoutes - Cardinality(Permitted)

\* the client of a turn is sent one terminal frame: a frame is chosen once, at
\* the end, on whichever of the cancelled and the normal exits is taken
OneTerminalFrame ==
  [][\A t \in Turns : frame'[t] # frame[t] =>
       frame[t] = "none" /\ pc[t] \in {"answering", "notifying"}]_vars

\* an entry of the registry belongs to a turn that is under way, and an agent
\* is bound only where there is an entry: every exit closes its key
NoStaleEntry ==
  \A k \in Keys :
    /\ entry[k] # None => pc[entry[k]] \in OpenTurn /\ Key(entry[k]) = k
    /\ bound[k] # None => entry[k] # None

\* once a turn ended that nobody cancelled, none of its agents has an A2A card,
\* whether it succeeded, failed, timed out or was run again
CardsReleased ==
  \A a \in cards : pc[a[1]] \in Ended => cancelled[a[1]]

\* once a turn ended, each agent that was awaited to its end is at rest: no
\* handle, no task running and a final status, whatever kills came meanwhile
AgentsSettled ==
  \A a \in Agents : pc[a[1]] \in Ended /\ task[a] # "none" /\ a \notin orphaned =>
    /\ a \notin handles
    /\ task[a] # "running"
    /\ status[a] \in {"completed", "failed", "stopped"}

\* when the keys of the turns differ, the registry has a turn's own token
\* under its key while it is under way, and once bound its current agent
OwnEntry ==
  DistinctKeys => \A t \in Turns :
    /\ pc[t] \in OpenTurn => entry[Key(t)] = t
    /\ pc[t] \in Running \ {"forked"} => bound[Key(t)] = Agent(t)

\* when the keys of the turns differ, a cancelled turn never has an agent past
\* the bind that no kill was started for: either the cancel found the bound
\* agent or the bind found the cancel
CancelReachesAgent ==
  DistinctKeys => \A t \in Turns :
    cancelled[t] /\ pc[t] \in Running \ {"forked"} => killing[Agent(t)] # "no"

\* what makes the safety properties inductive: the inbox holds each queued
\* turn once and no other, and a turn inside execute_directive has an agent
InboxQueued ==
  \A i \in DOMAIN inbox :
    /\ pc[inbox[i]] = "queued"
    /\ \A j \in DOMAIN inbox : inbox[i] = inbox[j] => i = j

Started == \A t \in Turns : pc[t] \in Running => attempts[t] \in 1 .. MaxAttempts

\* a card whose turn was not cancelled is the card of the attempt under way
CardOwner ==
  \A a \in cards : ~cancelled[a[1]] =>
    a = Agent(a[1]) /\ pc[a[1]] \in {"carded", "started", "awaiting", "cleaning"}

\* a task is awaited, orphaned or at rest
TaskOwner ==
  \A a \in Agents : task[a] # "none" =>
    \/ a = Agent(a[1]) /\ pc[a[1]] \in {"started", "awaiting"}
    \/ a \in orphaned
    \/ /\ a \notin handles
       /\ task[a] # "running"
       /\ status[a] \in {"completed", "failed", "stopped"}

\* the agents of attempts to come do not exist
Fresh == \A a \in Agents : a[2] > attempts[a[1]] => task[a] = "none"

FrameAtEnd == \A t \in Turns : frame[t] # "none" <=> pc[t] \in {"closing", "done"}

\* the cancelled branch is for cancelled turns, and the loop ends on request
Asked ==
  /\ \A t \in Turns : pc[t] \in {"cancelling", "notifying"} => cancelled[t]
  /\ loop # "running" => stopReq

\* the inductive invariant of the proofs: whatever was cancelled, killed, timed
\* out or run again, each permit, registry entry, card and task has its owner
IInv ==
  /\ TypeOK /\ InboxQueued /\ Started /\ PermitAccounting
  /\ NoStaleEntry /\ OwnEntry /\ CancelReachesAgent
  /\ CardOwner /\ TaskOwner /\ Fresh /\ FrameAtEnd /\ Asked

-----------------------------------------------------------------------------
(* Liveness *)

\* with an execution timeout every message the loop takes comes to an end,
\* even if no agent ever answers
TurnEnds == \A t \in Turns : pc[t] \in {"queued", "held"} ~> pc[t] \in Ended

\* a cancelled turn comes to an end, whatever its agent does
CancelEnds == \A t \in Turns : cancelled[t] ~> pc[t] = "done"

\* a shutdown request ends the event loop
ShutdownCompletes == stopReq ~> loop = "stopped"

-----------------------------------------------------------------------------
(* What all of this is for *)

Phase(place) ==
  CASE place = "idle"               -> "idle"
    [] place \in {"queued", "held"} -> "waiting"
    [] place \in Holding            -> "serving"
    [] place = "done"               -> "ended"
    [] place = "lost"               -> "lost"

Service == INSTANCE TurnService WITH
  Capacity <- MaxRoutes,
  Replies  <- Frames \ {"none"},
  NoReply  <- "none",
  phase    <- [t \in Turns |-> Phase(pc[t])],
  reply    <- frame,
  asked    <- {t \in Turns : cancelled[t]},
  closing  <- stopReq

\* the gateway, with its agents, keys and kills, gives its users the service
\* TurnService describes
ImplementsService == Service!Spec

-----------------------------------------------------------------------------
(* What the documentation promises and the code does not keep: each has a    *)
(* run that finds how                                                        *)

\* RFC-049 D2, "killed by AgentId through the supervisor so the provider
\* request actually stops": a kill that came to its end leaves no task running.
\* A kill before the handle is stored finds nothing to abort.
KilledAgentsStop == \A a \in Agents : killing[a] = "killed" => task[a] # "running"

\* turn_registry.rs, "makes an in-flight chat turn addressable for
\* cancellation": a turn under way has an entry under its key.  The first of
\* two turns of a session to end closes the key of the other.
InFlightAddressable == \A t \in Turns : pc[t] \in OpenTurn => entry[Key(t)] # None

=============================================================================
