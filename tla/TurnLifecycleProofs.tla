------------------------- MODULE TurnLifecycleProofs -------------------------
(***************************************************************************)
(* The safety of the turn lifecycle, for every number of turns, sessions,  *)
(* permits and attempts.                                                   *)
(*                                                                         *)
(* IInv is inductive; each of its conjuncts has a lemma of its own, which  *)
(* assumes only the conjuncts it needs and has one step per action.  The   *)
(* theorems after them are read from IInv.                                 *)
(*                                                                         *)
(* The last section is the refinement: every step of the gateway, the      *)
(* lifecycle manager and the supervisor is a step of TurnService or is not *)
(* seen by its users.                                                      *)
(***************************************************************************)
EXTENDS TurnLifecycle, FiniteSetTheorems, TLAPS

\* A turn is inside execute_directive only with an agent of its own: fork is
\* the way in (execute_directive).
LEMMA StartedStep ==
  ASSUME TypeOK, Started, [Next]_vars
  PROVE  Started'
<1> USE DEF Started, TypeOK, Running, Goto
<1>1. CASE Receive
  BY <1>1, ConstantsAssumption DEF Receive, turnVars
<1>2. CASE RequestShutdown
  BY <1>2, ConstantsAssumption DEF RequestShutdown, turnVars
<1>3. CASE ObserveShutdown
  BY <1>3, ConstantsAssumption DEF ObserveShutdown, turnVars
<1>4. CASE FinishShutdown
  BY <1>4, ConstantsAssumption DEF FinishShutdown, turnVars
<1>5. CASE ChannelRestart
  BY <1>5, ConstantsAssumption DEF ChannelRestart, turnVars
<1>6. ASSUME NEW t \in Turns, Send(t) PROVE Started'
  BY <1>6, ConstantsAssumption DEF Send, turnVars
<1>7. ASSUME NEW t \in Turns, Dispatch(t) PROVE Started'
  BY <1>7, ConstantsAssumption DEF Dispatch, turnVars
<1>8. ASSUME NEW t \in Turns, DropHeld(t) PROVE Started'
  BY <1>8, ConstantsAssumption DEF DropHeld, turnVars
<1>9. ASSUME NEW t \in Turns, Open(t) PROVE Started'
  BY <1>9, ConstantsAssumption DEF Open, turnVars
<1>10. ASSUME NEW t \in Turns, Fork(t) PROVE Started'
  BY <1>10, ConstantsAssumption DEF Fork, turnVars
<1>11. ASSUME NEW t \in Turns, BindLive(t) PROVE Started'
  BY <1>11, ConstantsAssumption DEF BindLive, turnVars
<1>12. ASSUME NEW t \in Turns, BindCancelled(t) PROVE Started'
  BY <1>12, ConstantsAssumption DEF BindCancelled, turnVars
<1>13. ASSUME NEW t \in Turns, RegisterCard(t) PROVE Started'
  BY <1>13, ConstantsAssumption DEF RegisterCard, turnVars
<1>14. ASSUME NEW t \in Turns, StartRun(t) PROVE Started'
  BY <1>14, ConstantsAssumption DEF StartRun, turnVars
<1>15. ASSUME NEW t \in Turns, InsertHandle(t) PROVE Started'
  BY <1>15, ConstantsAssumption DEF InsertHandle, turnVars
<1>16. ASSUME NEW t \in Turns, Settle(t) PROVE Started'
  BY <1>16, ConstantsAssumption DEF Settle, turnVars
<1>17. ASSUME NEW t \in Turns, TimeoutRun(t) PROVE Started'
  BY <1>17, ConstantsAssumption DEF TimeoutRun, turnVars
<1>18. ASSUME NEW t \in Turns, CleanUp(t) PROVE Started'
  BY <1>18, ConstantsAssumption DEF CleanUp, turnVars
<1>19. ASSUME NEW t \in Turns, Retry(t) PROVE Started'
  BY <1>19, ConstantsAssumption DEF Retry, turnVars
<1>20. ASSUME NEW t \in Turns, Return(t) PROVE Started'
  BY <1>20, ConstantsAssumption DEF Return, turnVars
<1>21. ASSUME NEW t \in Turns, DropFuture(t) PROVE Started'
  BY <1>21, ConstantsAssumption DEF DropFuture, turnVars
<1>22. ASSUME NEW t \in Turns, Answer(t) PROVE Started'
  BY <1>22, ConstantsAssumption DEF Answer, turnVars
<1>23. ASSUME NEW t \in Turns, Close(t) PROVE Started'
  BY <1>23, ConstantsAssumption DEF Close, turnVars
<1>24. ASSUME NEW t \in Turns, CloseCancelled(t) PROVE Started'
  BY <1>24, ConstantsAssumption DEF CloseCancelled, turnVars
<1>25. ASSUME NEW t \in Turns, NotifyCancelled(t) PROVE Started'
  BY <1>25, ConstantsAssumption DEF NotifyCancelled, turnVars
<1>26. ASSUME NEW k \in Keys, Cancel(k) PROVE Started'
  BY <1>26, ConstantsAssumption DEF Cancel, turnVars
<1>27. ASSUME NEW a \in Agents, TaskFinish(a) PROVE Started'
  BY <1>27, ConstantsAssumption DEF TaskFinish, turnVars
<1>28. ASSUME NEW a \in Agents, KillAgent(a) PROVE Started'
  BY <1>28, ConstantsAssumption DEF KillAgent, turnVars
<1>29. ASSUME NEW a \in Agents, KillAbort(a) PROVE Started'
  BY <1>29, ConstantsAssumption DEF KillAbort, turnVars
<1>30. ASSUME NEW a \in Agents, KillMark(a) PROVE Started'
  BY <1>30, ConstantsAssumption DEF KillMark, turnVars
<1>31. CASE UNCHANGED vars
  BY <1>31, ConstantsAssumption DEF vars, turnVars
<1>32. QED
  BY <1>1, <1>2, <1>3, <1>4, <1>5, <1>6, <1>7, <1>8, <1>9, <1>10,
     <1>11, <1>12, <1>13, <1>14, <1>15, <1>16, <1>17, <1>18, <1>19,
     <1>20, <1>21, <1>22, <1>23, <1>24, <1>25, <1>26, <1>27, <1>28,
     <1>29, <1>30, <1>31
     DEF Next, Loop, DispatchTask

\* A turn enters the inbox once, and leaves "queued" only with it (send, recv).
LEMMA InboxStep ==
  ASSUME TypeOK, InboxQueued, [Next]_vars
  PROVE  InboxQueued'
<1> USE DEF InboxQueued, TypeOK, Goto
<1>1. CASE Receive
  <2>1. /\ inbox # <<>> /\ inbox' = Tail(inbox)
        /\ pc' = [pc EXCEPT ![Head(inbox)] = "held"]
    BY <1>1 DEF Receive
  <2>2. \A i \in DOMAIN inbox' :
          i + 1 \in DOMAIN inbox /\ inbox'[i] = inbox[i + 1] /\ inbox[i + 1] # Head(inbox)
    <3>1. \A i \in DOMAIN inbox' : i + 1 \in DOMAIN inbox /\ inbox'[i] = inbox[i + 1]
      BY <2>1
    <3>2. 1 \in DOMAIN inbox /\ Head(inbox) = inbox[1] /\ \A i \in DOMAIN inbox' : i + 1 # 1
      BY <2>1
    <3> QED
      BY <3>1, <3>2
  <2> QED
    BY <2>1, <2>2
<1>2. CASE RequestShutdown
  BY <1>2 DEF RequestShutdown, loopVars, turnVars, Running, Suspended
<1>3. CASE ObserveShutdown
  BY <1>3 DEF ObserveShutdown, loopVars, turnVars, Running, Suspended
<1>4. CASE FinishShutdown
  BY <1>4 DEF FinishShutdown, loopVars, turnVars, Running, Suspended
<1>5. CASE ChannelRestart
  BY <1>5 DEF ChannelRestart, loopVars, turnVars, Running, Suspended
<1>6. ASSUME NEW t \in Turns, Send(t) PROVE InboxQueued'
  BY <1>6 DEF Send, loopVars, turnVars, Running, Suspended
<1>7. ASSUME NEW t \in Turns, Dispatch(t) PROVE InboxQueued'
  BY <1>7 DEF Dispatch, loopVars, turnVars, Running, Suspended
<1>8. ASSUME NEW t \in Turns, DropHeld(t) PROVE InboxQueued'
  BY <1>8 DEF DropHeld, loopVars, turnVars, Running, Suspended
<1>9. ASSUME NEW t \in Turns, Open(t) PROVE InboxQueued'
  BY <1>9 DEF Open, loopVars, turnVars, Running, Suspended
<1>10. ASSUME NEW t \in Turns, Fork(t) PROVE InboxQueued'
  BY <1>10 DEF Fork, loopVars, turnVars, Running, Suspended
<1>11. ASSUME NEW t \in Turns, BindLive(t) PROVE InboxQueued'
  BY <1>11 DEF BindLive, loopVars, turnVars, Running, Suspended
<1>12. ASSUME NEW t \in Turns, BindCancelled(t) PROVE InboxQueued'
  BY <1>12 DEF BindCancelled, loopVars, turnVars, Running, Suspended
<1>13. ASSUME NEW t \in Turns, RegisterCard(t) PROVE InboxQueued'
  BY <1>13 DEF RegisterCard, loopVars, turnVars, Running, Suspended
<1>14. ASSUME NEW t \in Turns, StartRun(t) PROVE InboxQueued'
  BY <1>14 DEF StartRun, loopVars, turnVars, Running, Suspended
<1>15. ASSUME NEW t \in Turns, InsertHandle(t) PROVE InboxQueued'
  BY <1>15 DEF InsertHandle, loopVars, turnVars, Running, Suspended
<1>16. ASSUME NEW t \in Turns, Settle(t) PROVE InboxQueued'
  BY <1>16 DEF Settle, loopVars, turnVars, Running, Suspended
<1>17. ASSUME NEW t \in Turns, TimeoutRun(t) PROVE InboxQueued'
  BY <1>17 DEF TimeoutRun, loopVars, turnVars, Running, Suspended
<1>18. ASSUME NEW t \in Turns, CleanUp(t) PROVE InboxQueued'
  BY <1>18 DEF CleanUp, loopVars, turnVars, Running, Suspended
<1>19. ASSUME NEW t \in Turns, Retry(t) PROVE InboxQueued'
  BY <1>19 DEF Retry, loopVars, turnVars, Running, Suspended
<1>20. ASSUME NEW t \in Turns, Return(t) PROVE InboxQueued'
  BY <1>20 DEF Return, loopVars, turnVars, Running, Suspended
<1>21. ASSUME NEW t \in Turns, DropFuture(t) PROVE InboxQueued'
  BY <1>21 DEF DropFuture, loopVars, turnVars, Running, Suspended
<1>22. ASSUME NEW t \in Turns, Answer(t) PROVE InboxQueued'
  BY <1>22 DEF Answer, loopVars, turnVars, Running, Suspended
<1>23. ASSUME NEW t \in Turns, Close(t) PROVE InboxQueued'
  BY <1>23 DEF Close, loopVars, turnVars, Running, Suspended
<1>24. ASSUME NEW t \in Turns, CloseCancelled(t) PROVE InboxQueued'
  BY <1>24 DEF CloseCancelled, loopVars, turnVars, Running, Suspended
<1>25. ASSUME NEW t \in Turns, NotifyCancelled(t) PROVE InboxQueued'
  BY <1>25 DEF NotifyCancelled, loopVars, turnVars, Running, Suspended
<1>26. ASSUME NEW k \in Keys, Cancel(k) PROVE InboxQueued'
  BY <1>26 DEF Cancel, loopVars, turnVars, Running, Suspended
<1>27. ASSUME NEW a \in Agents, TaskFinish(a) PROVE InboxQueued'
  BY <1>27 DEF TaskFinish, loopVars, turnVars, Running, Suspended
<1>28. ASSUME NEW a \in Agents, KillAgent(a) PROVE InboxQueued'
  BY <1>28 DEF KillAgent, loopVars, turnVars, Running, Suspended
<1>29. ASSUME NEW a \in Agents, KillAbort(a) PROVE InboxQueued'
  BY <1>29 DEF KillAbort, loopVars, turnVars, Running, Suspended
<1>30. ASSUME NEW a \in Agents, KillMark(a) PROVE InboxQueued'
  BY <1>30 DEF KillMark, loopVars, turnVars, Running, Suspended
<1>31. CASE UNCHANGED vars
  BY <1>31 DEF vars, loopVars, turnVars, Running, Suspended
<1>32. QED
  BY <1>1, <1>2, <1>3, <1>4, <1>5, <1>6, <1>7, <1>8, <1>9, <1>10,
     <1>11, <1>12, <1>13, <1>14, <1>15, <1>16, <1>17, <1>18, <1>19,
     <1>20, <1>21, <1>22, <1>23, <1>24, <1>25, <1>26, <1>27, <1>28,
     <1>29, <1>30, <1>31
     DEF Next, Loop, DispatchTask


\* A step that moves no turn in or out of the dispatch tasks keeps the account.
LEMMA SamePermits ==
  ASSUME TypeOK, PermitAccounting, free' = free,
         \A t \in Turns : pc'[t] \in Holding <=> pc[t] \in Holding
  PROVE  PermitAccounting'
<1>1. Permitted' = Permitted
  BY DEF Permitted
<1>2. QED
  BY <1>1 DEF PermitAccounting

\* A spawned dispatch task takes the permit it was granted (Dispatch).
LEMMA TakePermit ==
  ASSUME TypeOK, PermitAccounting, NEW t \in Turns, pc[t] \notin Holding,
         Goto(t, "accepted"), free' = free - 1
  PROVE  PermitAccounting'
<1>1. Permitted' = Permitted \cup {t}
  BY DEF Permitted, Goto, TypeOK, Holding
<1>2. IsFiniteSet(Permitted) /\ t \notin Permitted
  BY ConstantsAssumption, FS_Subset DEF Permitted
<1>3. Cardinality(Permitted \cup {t}) = Cardinality(Permitted) + 1
  BY <1>2, FS_AddElement
<1>4. Cardinality(Permitted) \in Nat
  BY <1>2, FS_CardinalityType
<1>5. QED
  BY <1>1, <1>3, <1>4, ConstantsAssumption DEF PermitAccounting

\* A dispatch task that ends gives its permit back, and there was one missing.
LEMMA GivePermit ==
  ASSUME TypeOK, PermitAccounting, NEW t \in Turns, pc[t] \in Holding,
         Goto(t, "done"), free' = free + 1
  PROVE  PermitAccounting' /\ free < MaxRoutes
<1>1. Permitted' = Permitted \ {t}
  BY DEF Permitted, Goto, TypeOK, Holding, OpenTurn, Running
<1>2. IsFiniteSet(Permitted) /\ t \in Permitted
  BY ConstantsAssumption, FS_Subset DEF Permitted
<1>3. Cardinality(Permitted \ {t}) = Cardinality(Permitted) - 1
  BY <1>2, FS_RemoveElement
<1>4. Cardinality(Permitted) \in Nat /\ Cardinality(Permitted \ {t}) \in Nat
  BY <1>2, FS_CardinalityType, FS_RemoveElement
<1>5. QED
  BY <1>1, <1>3, <1>4, ConstantsAssumption DEF PermitAccounting

\* No step loses or doubles a permit of the event loop.
LEMMA PermitStep ==
  ASSUME TypeOK, InboxQueued, PermitAccounting, [Next]_vars
  PROVE  PermitAccounting'
<1>1. CASE Receive
  BY <1>1, SamePermits DEF Receive, TypeOK, InboxQueued, Goto, Holding, OpenTurn, Running
<1>2. CASE RequestShutdown
  BY <1>2, SamePermits DEF RequestShutdown, TypeOK, Goto, Holding, OpenTurn, Running, loopVars, turnVars, Suspended
<1>3. CASE ObserveShutdown
  BY <1>3, SamePermits DEF ObserveShutdown, TypeOK, Goto, Holding, OpenTurn, Running, loopVars, turnVars, Suspended
<1>4. CASE FinishShutdown
  BY <1>4, SamePermits DEF FinishShutdown, TypeOK, Goto, Holding, OpenTurn, Running, loopVars, turnVars, Suspended
<1>5. CASE ChannelRestart
  BY <1>5, SamePermits DEF ChannelRestart, TypeOK, Goto, Holding, OpenTurn, Running, loopVars, turnVars, Suspended
<1>6. ASSUME NEW t \in Turns, Send(t) PROVE PermitAccounting'
  BY <1>6, SamePermits DEF Send, TypeOK, Goto, Holding, OpenTurn, Running, loopVars, turnVars, Suspended
<1>7. ASSUME NEW t \in Turns, Dispatch(t) PROVE PermitAccounting'
  BY <1>7, TakePermit DEF Dispatch, Holding, OpenTurn, Running
<1>8. ASSUME NEW t \in Turns, DropHeld(t) PROVE PermitAccounting'
  BY <1>8, SamePermits DEF DropHeld, TypeOK, Goto, Holding, OpenTurn, Running, loopVars, turnVars, Suspended
<1>9. ASSUME NEW t \in Turns, Open(t) PROVE PermitAccounting'
  BY <1>9, SamePermits DEF Open, TypeOK, Goto, Holding, OpenTurn, Running, loopVars, turnVars, Suspended
<1>10. ASSUME NEW t \in Turns, Fork(t) PROVE PermitAccounting'
  BY <1>10, SamePermits DEF Fork, TypeOK, Goto, Holding, OpenTurn, Running, loopVars, turnVars, Suspended
<1>11. ASSUME NEW t \in Turns, BindLive(t) PROVE PermitAccounting'
  BY <1>11, SamePermits DEF BindLive, TypeOK, Goto, Holding, OpenTurn, Running, loopVars, turnVars, Suspended
<1>12. ASSUME NEW t \in Turns, BindCancelled(t) PROVE PermitAccounting'
  BY <1>12, SamePermits DEF BindCancelled, TypeOK, Goto, Holding, OpenTurn, Running, loopVars, turnVars, Suspended
<1>13. ASSUME NEW t \in Turns, RegisterCard(t) PROVE PermitAccounting'
  BY <1>13, SamePermits DEF RegisterCard, TypeOK, Goto, Holding, OpenTurn, Running, loopVars, turnVars, Suspended
<1>14. ASSUME NEW t \in Turns, StartRun(t) PROVE PermitAccounting'
  BY <1>14, SamePermits DEF StartRun, TypeOK, Goto, Holding, OpenTurn, Running, loopVars, turnVars, Suspended
<1>15. ASSUME NEW t \in Turns, InsertHandle(t) PROVE PermitAccounting'
  BY <1>15, SamePermits DEF InsertHandle, TypeOK, Goto, Holding, OpenTurn, Running, loopVars, turnVars, Suspended
<1>16. ASSUME NEW t \in Turns, Settle(t) PROVE PermitAccounting'
  BY <1>16, SamePermits DEF Settle, TypeOK, Goto, Holding, OpenTurn, Running, loopVars, turnVars, Suspended
<1>17. ASSUME NEW t \in Turns, TimeoutRun(t) PROVE PermitAccounting'
  BY <1>17, SamePermits DEF TimeoutRun, TypeOK, Goto, Holding, OpenTurn, Running, loopVars, turnVars, Suspended
<1>18. ASSUME NEW t \in Turns, CleanUp(t) PROVE PermitAccounting'
  BY <1>18, SamePermits DEF CleanUp, TypeOK, Goto, Holding, OpenTurn, Running, loopVars, turnVars, Suspended
<1>19. ASSUME NEW t \in Turns, Retry(t) PROVE PermitAccounting'
  BY <1>19, SamePermits DEF Retry, TypeOK, Goto, Holding, OpenTurn, Running, loopVars, turnVars, Suspended
<1>20. ASSUME NEW t \in Turns, Return(t) PROVE PermitAccounting'
  BY <1>20, SamePermits DEF Return, TypeOK, Goto, Holding, OpenTurn, Running, loopVars, turnVars, Suspended
<1>21. ASSUME NEW t \in Turns, DropFuture(t) PROVE PermitAccounting'
  BY <1>21, SamePermits DEF DropFuture, TypeOK, Goto, Holding, OpenTurn, Running, loopVars, turnVars, Suspended
<1>22. ASSUME NEW t \in Turns, Answer(t) PROVE PermitAccounting'
  BY <1>22, SamePermits DEF Answer, TypeOK, Goto, Holding, OpenTurn, Running, loopVars, turnVars, Suspended
<1>23. ASSUME NEW t \in Turns, Close(t) PROVE PermitAccounting'
  BY <1>23, GivePermit DEF Close, Holding, OpenTurn, Running
<1>24. ASSUME NEW t \in Turns, CloseCancelled(t) PROVE PermitAccounting'
  BY <1>24, SamePermits DEF CloseCancelled, TypeOK, Goto, Holding, OpenTurn, Running, loopVars, turnVars, Suspended
<1>25. ASSUME NEW t \in Turns, NotifyCancelled(t) PROVE PermitAccounting'
  BY <1>25, GivePermit DEF NotifyCancelled, Holding
<1>26. ASSUME NEW k \in Keys, Cancel(k) PROVE PermitAccounting'
  BY <1>26, SamePermits DEF Cancel, TypeOK, Goto, Holding, OpenTurn, Running, loopVars, turnVars, Suspended
<1>27. ASSUME NEW a \in Agents, TaskFinish(a) PROVE PermitAccounting'
  BY <1>27, SamePermits DEF TaskFinish, TypeOK, Goto, Holding, OpenTurn, Running, loopVars, turnVars, Suspended
<1>28. ASSUME NEW a \in Agents, KillAgent(a) PROVE PermitAccounting'
  BY <1>28, SamePermits DEF KillAgent, TypeOK, Goto, Holding, OpenTurn, Running, loopVars, turnVars, Suspended
<1>29. ASSUME NEW a \in Agents, KillAbort(a) PROVE PermitAccounting'
  BY <1>29, SamePermits DEF KillAbort, TypeOK, Goto, Holding, OpenTurn, Running, loopVars, turnVars, Suspended
<1>30. ASSUME NEW a \in Agents, KillMark(a) PROVE PermitAccounting'
  BY <1>30, SamePermits DEF KillMark, TypeOK, Goto, Holding, OpenTurn, Running, loopVars, turnVars, Suspended
<1>31. CASE UNCHANGED vars
  BY <1>31, SamePermits DEF vars, TypeOK, Goto, Holding, OpenTurn, Running, loopVars, turnVars, Suspended
<1>32. QED
  BY <1>1, <1>2, <1>3, <1>4, <1>5, <1>6, <1>7, <1>8, <1>9, <1>10,
     <1>11, <1>12, <1>13, <1>14, <1>15, <1>16, <1>17, <1>18, <1>19,
     <1>20, <1>21, <1>22, <1>23, <1>24, <1>25, <1>26, <1>27, <1>28,
     <1>29, <1>30, <1>31
     DEF Next, Loop, DispatchTask

\* The permit given back is one of MAX_CONCURRENT_ROUTES (Close, NotifyCancelled).
LEMMA PermitRange ==
  ASSUME TypeOK, PermitAccounting, NEW t \in Turns, Close(t) \/ NotifyCancelled(t)
  PROVE  free' \in 0 .. MaxRoutes
<1>1. pc[t] \in Holding /\ Goto(t, "done") /\ free' = free + 1
  BY DEF Close, NotifyCancelled, Holding, OpenTurn
<1>2. free < MaxRoutes
  BY <1>1, GivePermit
<1>3. QED
  BY <1>1, <1>2, ConstantsAssumption DEF TypeOK

\* The agent of a turn inside execute_directive exists.
LEMMA AgentType ==
  ASSUME Started, NEW t \in Turns, pc[t] \in Running
  PROVE  Agent(t) \in Agents
BY DEF Started, Agent, Agents

\* A turn's key is a request id or a session id (unwrap_or).
LEMMA KeyType == \A t \in Turns : Key(t) \in Keys
BY ConstantsAssumption DEF Key, Keys

\* The places, one by one.
LEMMA PlaceNames ==
  /\ Running \subseteq Places
  /\ {"idle", "queued", "held", "accepted", "planning", "attempted", "answering",
      "closing", "cancelling", "notifying", "done", "lost"} \subseteq Places
BY DEF Places, Holding, OpenTurn, Running, Ended

\* The finite domains of the state, written out.
LEMMA ValueNames ==
  /\ Frames = {"none", "answer", "error", "cancelled", "dropped"}
  /\ Outcomes = {"none", "err", "ok", "provider", "plain"}
  /\ Statuses = {"none", "starting", "running", "completed", "failed", "stopped"}
  /\ Tasks = {"none", "running", "aborted", "ok", "provider", "plain"}
  /\ Kills = {"no", "abort", "mark", "killed"}
BY DEF Frames, Outcomes, Results, Statuses, Tasks, Kills

\* Every step keeps the state well typed.
LEMMA TypeStep ==
  ASSUME TypeOK, InboxQueued, Started, PermitAccounting, [Next]_vars
  PROVE  TypeOK'
<1> USE PlaceNames, ValueNames DEF TypeOK, Goto
<1>1. CASE Receive
  BY <1>1
  DEF Receive, loopVars, turnVars, regVars, agentVars
<1>2. CASE RequestShutdown
  BY <1>2
  DEF RequestShutdown, loopVars, turnVars, regVars, agentVars
<1>3. CASE ObserveShutdown
  BY <1>3
  DEF ObserveShutdown, loopVars, turnVars, regVars, agentVars
<1>4. CASE FinishShutdown
  <2>1. pc' \in [Turns -> Places]
    BY <1>4 DEF FinishShutdown
  <2>2. inbox' \in Seq(Turns)
    BY <1>4 DEF FinishShutdown
  <2>3. QED
    BY <1>4, <2>1, <2>2
    DEF FinishShutdown, loopVars, turnVars, regVars, agentVars
<1>5. CASE ChannelRestart
  BY <1>5
  DEF ChannelRestart, loopVars, turnVars, regVars, agentVars
<1>6. ASSUME NEW t \in Turns, Send(t) PROVE TypeOK'
  BY <1>6
  DEF Send, loopVars, turnVars, regVars, agentVars
<1>7. ASSUME NEW t \in Turns, Dispatch(t) PROVE TypeOK'
  BY <1>7, ConstantsAssumption
  DEF Dispatch, loopVars, turnVars, regVars, agentVars
<1>8. ASSUME NEW t \in Turns, DropHeld(t) PROVE TypeOK'
  BY <1>8
  DEF DropHeld, loopVars, turnVars, regVars, agentVars
<1>9. ASSUME NEW t \in Turns, Open(t) PROVE TypeOK'
  BY <1>9, KeyType
  DEF Open, loopVars, turnVars, regVars, agentVars
<1>10. ASSUME NEW t \in Turns, Fork(t) PROVE TypeOK'
  <2>1. pc' \in [Turns -> Places]
    BY <1>10 DEF Fork, Places, Holding, OpenTurn, Running, Ended
  <2>2. attempts' \in [Turns -> 0 .. MaxAttempts]
    BY <1>10, ConstantsAssumption DEF Fork
  <2>3. status' \in [Agents -> Statuses]
    BY <1>10 DEF Fork
  <2>4. QED
    BY <1>10, <2>1, <2>2, <2>3
    DEF Fork, loopVars, turnVars, regVars, agentVars
<1>11. ASSUME NEW t \in Turns, BindLive(t) PROVE TypeOK'
  BY <1>11, AgentType, KeyType
  DEF BindLive, Running, loopVars, turnVars, regVars, agentVars
<1>12. ASSUME NEW t \in Turns, BindCancelled(t) PROVE TypeOK'
  BY <1>12, AgentType, KeyType
  DEF BindCancelled, Running, loopVars, turnVars, regVars, agentVars
<1>13. ASSUME NEW t \in Turns, RegisterCard(t) PROVE TypeOK'
  BY <1>13, AgentType
  DEF RegisterCard, Running, loopVars, turnVars, regVars, agentVars
<1>14. ASSUME NEW t \in Turns, StartRun(t) PROVE TypeOK'
  <2>1. pc' \in [Turns -> Places]
    BY <1>14 DEF StartRun, Places, Holding, OpenTurn, Running, Ended
  <2>2. status' \in [Agents -> Statuses]
    BY <1>14 DEF StartRun
  <2>3. task' \in [Agents -> Tasks]
    BY <1>14 DEF StartRun
  <2>4. QED
    BY <1>14, <2>1, <2>2, <2>3
    DEF StartRun, loopVars, turnVars, regVars, agentVars
<1>15. ASSUME NEW t \in Turns, InsertHandle(t) PROVE TypeOK'
  BY <1>15, AgentType
  DEF InsertHandle, Running, loopVars, turnVars, regVars, agentVars
<1>16. ASSUME NEW t \in Turns, Settle(t) PROVE TypeOK'
  <2>1. pc' \in [Turns -> Places]
    BY <1>16 DEF Settle, Places, Holding, OpenTurn, Running, Ended
  <2>2. task[Agent(t)] \in Tasks
    BY <1>16, AgentType DEF Settle, Running
  <2>3. outcome' \in [Turns -> Outcomes]
    BY <1>16, <2>2 DEF Settle
  <2>4. status' \in [Agents -> Statuses]
    BY <1>16 DEF Settle
  <2>5. QED
    BY <1>16, <2>1, <2>2, <2>3, <2>4
    DEF Settle, loopVars, turnVars, regVars, agentVars
<1>17. ASSUME NEW t \in Turns, TimeoutRun(t) PROVE TypeOK'
  BY <1>17, AgentType
  DEF TimeoutRun, Running, loopVars, turnVars, regVars, agentVars
<1>18. ASSUME NEW t \in Turns, CleanUp(t) PROVE TypeOK'
  BY <1>18
  DEF CleanUp, loopVars, turnVars, regVars, agentVars
<1>19. ASSUME NEW t \in Turns, Retry(t) PROVE TypeOK'
  BY <1>19
  DEF Retry, loopVars, turnVars, regVars, agentVars
<1>20. ASSUME NEW t \in Turns, Return(t) PROVE TypeOK'
  BY <1>20
  DEF Return, loopVars, turnVars, regVars, agentVars
<1>21. ASSUME NEW t \in Turns, DropFuture(t) PROVE TypeOK'
  BY <1>21, AgentType
  DEF DropFuture, Running, loopVars, turnVars, regVars, agentVars
<1>22. ASSUME NEW t \in Turns, Answer(t) PROVE TypeOK'
  BY <1>22
  DEF Answer, Delivered, loopVars, turnVars, regVars, agentVars
<1>23. ASSUME NEW t \in Turns, Close(t) PROVE TypeOK'
  <2>1. free' \in 0 .. MaxRoutes
    BY <1>23, PermitRange DEF Close
  <2>2. entry' \in [Keys -> Turns \cup {None}]
    BY <1>23, KeyType DEF Close, CloseKey
  <2>3. bound' \in [Keys -> Agents \cup {None}]
    BY <1>23, KeyType DEF Close, CloseKey
  <2>4. QED
    BY <1>23, <2>1, <2>2, <2>3
    DEF Close, CloseKey, loopVars, turnVars, regVars, agentVars
<1>24. ASSUME NEW t \in Turns, CloseCancelled(t) PROVE TypeOK'
  BY <1>24, KeyType
  DEF CloseCancelled, CloseKey, loopVars, turnVars, regVars, agentVars
<1>25. ASSUME NEW t \in Turns, NotifyCancelled(t) PROVE TypeOK'
  <2>1. free' \in 0 .. MaxRoutes
    BY <1>25, PermitRange DEF NotifyCancelled
  <2>2. frame' \in [Turns -> Frames]
    BY <1>25 DEF NotifyCancelled, Delivered
  <2>3. QED
    BY <1>25, <2>1, <2>2
    DEF NotifyCancelled, loopVars, turnVars, regVars, agentVars
<1>26. ASSUME NEW k \in Keys, Cancel(k) PROVE TypeOK'
  BY <1>26
  DEF Cancel, Killable, loopVars, turnVars, regVars, agentVars
<1>27. ASSUME NEW a \in Agents, TaskFinish(a) PROVE TypeOK'
  BY <1>27
  DEF TaskFinish, Results, loopVars, turnVars, regVars, agentVars
<1>28. ASSUME NEW a \in Agents, KillAgent(a) PROVE TypeOK'
  BY <1>28
  DEF KillAgent, loopVars, turnVars, regVars, agentVars
<1>29. ASSUME NEW a \in Agents, KillAbort(a) PROVE TypeOK'
  BY <1>29
  DEF KillAbort, loopVars, turnVars, regVars, agentVars
<1>30. ASSUME NEW a \in Agents, KillMark(a) PROVE TypeOK'
  BY <1>30
  DEF KillMark, loopVars, turnVars, regVars, agentVars
<1>31. CASE UNCHANGED vars
  BY <1>31 DEF vars, loopVars, turnVars, regVars, agentVars
<1>32. QED
  BY <1>1, <1>2, <1>3, <1>4, <1>5, <1>6, <1>7, <1>8, <1>9, <1>10,
     <1>11, <1>12, <1>13, <1>14, <1>15, <1>16, <1>17, <1>18, <1>19,
     <1>20, <1>21, <1>22, <1>23, <1>24, <1>25, <1>26, <1>27, <1>28,
     <1>29, <1>30, <1>31
     DEF Next, Loop, DispatchTask

\* The places of a turn whose key is in the registry, one by one.
LEMMA OpenNames ==
  OpenTurn = {"planning", "attempted", "answering", "closing", "cancelling",
              "forked", "bound", "carded", "started", "awaiting", "cleaning"}
BY DEF OpenTurn, Running

\* Every step keeps the registry to turns under way: open and close are paired
\* on every exit, and bind_agent adds no entry.
LEMMA EntryStep ==
  ASSUME TypeOK, InboxQueued, NoStaleEntry, [Next]_vars
  PROVE  NoStaleEntry'
<1> USE DEF TypeOK, InboxQueued, NoStaleEntry, Goto
<1>1. CASE Receive
  BY <1>1, OpenNames, KeyType, ConstantsAssumption DEF Receive, CloseKey, Suspended, regVars, turnVars, loopVars
<1>2. CASE RequestShutdown
  BY <1>2, OpenNames, KeyType, ConstantsAssumption DEF RequestShutdown, CloseKey, Suspended, regVars, turnVars, loopVars
<1>3. CASE ObserveShutdown
  BY <1>3, OpenNames, KeyType, ConstantsAssumption DEF ObserveShutdown, CloseKey, Suspended, regVars, turnVars, loopVars
<1>4. CASE FinishShutdown
  BY <1>4, OpenNames, KeyType, ConstantsAssumption DEF FinishShutdown, CloseKey, Suspended, regVars, turnVars, loopVars
<1>5. CASE ChannelRestart
  BY <1>5, OpenNames, KeyType, ConstantsAssumption DEF ChannelRestart, CloseKey, Suspended, regVars, turnVars, loopVars
<1>6. ASSUME NEW t \in Turns, Send(t) PROVE NoStaleEntry'
  BY <1>6, OpenNames, KeyType, ConstantsAssumption DEF Send, CloseKey, Suspended, regVars, turnVars, loopVars
<1>7. ASSUME NEW t \in Turns, Dispatch(t) PROVE NoStaleEntry'
  BY <1>7, OpenNames, KeyType, ConstantsAssumption DEF Dispatch, CloseKey, Suspended, regVars, turnVars, loopVars
<1>8. ASSUME NEW t \in Turns, DropHeld(t) PROVE NoStaleEntry'
  BY <1>8, OpenNames, KeyType, ConstantsAssumption DEF DropHeld, CloseKey, Suspended, regVars, turnVars, loopVars
<1>9. ASSUME NEW t \in Turns, Open(t) PROVE NoStaleEntry'
  BY <1>9, OpenNames, KeyType, ConstantsAssumption DEF Open, CloseKey, Suspended, regVars, turnVars, loopVars
<1>10. ASSUME NEW t \in Turns, Fork(t) PROVE NoStaleEntry'
  BY <1>10, OpenNames, KeyType, ConstantsAssumption DEF Fork, CloseKey, Suspended, regVars, turnVars, loopVars
<1>11. ASSUME NEW t \in Turns, BindLive(t) PROVE NoStaleEntry'
  BY <1>11, OpenNames, KeyType, ConstantsAssumption DEF BindLive, CloseKey, Suspended, regVars, turnVars, loopVars
<1>12. ASSUME NEW t \in Turns, BindCancelled(t) PROVE NoStaleEntry'
  BY <1>12, OpenNames, KeyType, ConstantsAssumption DEF BindCancelled, CloseKey, Suspended, regVars, turnVars, loopVars
<1>13. ASSUME NEW t \in Turns, RegisterCard(t) PROVE NoStaleEntry'
  BY <1>13, OpenNames, KeyType, ConstantsAssumption DEF RegisterCard, CloseKey, Suspended, regVars, turnVars, loopVars
<1>14. ASSUME NEW t \in Turns, StartRun(t) PROVE NoStaleEntry'
  BY <1>14, OpenNames, KeyType, ConstantsAssumption DEF StartRun, CloseKey, Suspended, regVars, turnVars, loopVars
<1>15. ASSUME NEW t \in Turns, InsertHandle(t) PROVE NoStaleEntry'
  BY <1>15, OpenNames, KeyType, ConstantsAssumption DEF InsertHandle, CloseKey, Suspended, regVars, turnVars, loopVars
<1>16. ASSUME NEW t \in Turns, Settle(t) PROVE NoStaleEntry'
  BY <1>16, OpenNames, KeyType, ConstantsAssumption DEF Settle, CloseKey, Suspended, regVars, turnVars, loopVars
<1>17. ASSUME NEW t \in Turns, TimeoutRun(t) PROVE NoStaleEntry'
  BY <1>17, OpenNames, KeyType, ConstantsAssumption DEF TimeoutRun, CloseKey, Suspended, regVars, turnVars, loopVars
<1>18. ASSUME NEW t \in Turns, CleanUp(t) PROVE NoStaleEntry'
  BY <1>18, OpenNames, KeyType, ConstantsAssumption DEF CleanUp, CloseKey, Suspended, regVars, turnVars, loopVars
<1>19. ASSUME NEW t \in Turns, Retry(t) PROVE NoStaleEntry'
  BY <1>19, OpenNames, KeyType, ConstantsAssumption DEF Retry, CloseKey, Suspended, regVars, turnVars, loopVars
<1>20. ASSUME NEW t \in Turns, Return(t) PROVE NoStaleEntry'
  BY <1>20, OpenNames, KeyType, ConstantsAssumption DEF Return, CloseKey, Suspended, regVars, turnVars, loopVars
<1>21. ASSUME NEW t \in Turns, DropFuture(t) PROVE NoStaleEntry'
  BY <1>21, OpenNames, KeyType, ConstantsAssumption DEF DropFuture, CloseKey, Suspended, regVars, turnVars, loopVars
<1>22. ASSUME NEW t \in Turns, Answer(t) PROVE NoStaleEntry'
  BY <1>22, OpenNames, KeyType, ConstantsAssumption DEF Answer, CloseKey, Suspended, regVars, turnVars, loopVars
<1>23. ASSUME NEW t \in Turns, Close(t) PROVE NoStaleEntry'
  BY <1>23, OpenNames, KeyType, ConstantsAssumption DEF Close, CloseKey, Suspended, regVars, turnVars, loopVars
<1>24. ASSUME NEW t \in Turns, CloseCancelled(t) PROVE NoStaleEntry'
  BY <1>24, OpenNames, KeyType, ConstantsAssumption DEF CloseCancelled, CloseKey, Suspended, regVars, turnVars, loopVars
<1>25. ASSUME NEW t \in Turns, NotifyCancelled(t) PROVE NoStaleEntry'
  BY <1>25, OpenNames, KeyType, ConstantsAssumption DEF NotifyCancelled, CloseKey, Suspended, regVars, turnVars, loopVars
<1>26. ASSUME NEW k \in Keys, Cancel(k) PROVE NoStaleEntry'
  BY <1>26, OpenNames, KeyType, ConstantsAssumption DEF Cancel, CloseKey, Suspended, regVars, turnVars, loopVars
<1>27. ASSUME NEW a \in Agents, TaskFinish(a) PROVE NoStaleEntry'
  BY <1>27, OpenNames, KeyType, ConstantsAssumption DEF TaskFinish, CloseKey, Suspended, regVars, turnVars, loopVars
<1>28. ASSUME NEW a \in Agents, KillAgent(a) PROVE NoStaleEntry'
  BY <1>28, OpenNames, KeyType, ConstantsAssumption DEF KillAgent, CloseKey, Suspended, regVars, turnVars, loopVars
<1>29. ASSUME NEW a \in Agents, KillAbort(a) PROVE NoStaleEntry'
  BY <1>29, OpenNames, KeyType, ConstantsAssumption DEF KillAbort, CloseKey, Suspended, regVars, turnVars, loopVars
<1>30. ASSUME NEW a \in Agents, KillMark(a) PROVE NoStaleEntry'
  BY <1>30, OpenNames, KeyType, ConstantsAssumption DEF KillMark, CloseKey, Suspended, regVars, turnVars, loopVars
<1>31. CASE UNCHANGED vars
  BY <1>31, OpenNames, KeyType, ConstantsAssumption DEF vars, CloseKey, Suspended, regVars, turnVars, loopVars
<1>32. QED
  BY <1>1, <1>2, <1>3, <1>4, <1>5, <1>6, <1>7, <1>8, <1>9, <1>10,
     <1>11, <1>12, <1>13, <1>14, <1>15, <1>16, <1>17, <1>18, <1>19,
     <1>20, <1>21, <1>22, <1>23, <1>24, <1>25, <1>26, <1>27, <1>28,
     <1>29, <1>30, <1>31
     DEF Next, Loop, DispatchTask

\* While keys differ, nobody replaces or closes another turn's entry.
LEMMA OwnStep ==
  ASSUME TypeOK, InboxQueued, Started, NoStaleEntry, OwnEntry, [Next]_vars
  PROVE  OwnEntry'
<1> USE DEF TypeOK, InboxQueued, NoStaleEntry, OwnEntry, DistinctKeys, Goto, Running
<1>1. CASE Receive
  BY <1>1, OpenNames, KeyType, ConstantsAssumption DEF Receive, CloseKey, Agent, Suspended, regVars, turnVars, loopVars
<1>2. CASE RequestShutdown
  BY <1>2, OpenNames, KeyType, ConstantsAssumption DEF RequestShutdown, CloseKey, Agent, Suspended, regVars, turnVars, loopVars
<1>3. CASE ObserveShutdown
  BY <1>3, OpenNames, KeyType, ConstantsAssumption DEF ObserveShutdown, CloseKey, Agent, Suspended, regVars, turnVars, loopVars
<1>4. CASE FinishShutdown
  BY <1>4, OpenNames, KeyType, ConstantsAssumption DEF FinishShutdown, CloseKey, Agent, Suspended, regVars, turnVars, loopVars
<1>5. CASE ChannelRestart
  BY <1>5, OpenNames, KeyType, ConstantsAssumption DEF ChannelRestart, CloseKey, Agent, Suspended, regVars, turnVars, loopVars
<1>6. ASSUME NEW t \in Turns, Send(t) PROVE OwnEntry'
  BY <1>6, OpenNames, KeyType, ConstantsAssumption DEF Send, CloseKey, Agent, Suspended, regVars, turnVars, loopVars
<1>7. ASSUME NEW t \in Turns, Dispatch(t) PROVE OwnEntry'
  BY <1>7, OpenNames, KeyType, ConstantsAssumption DEF Dispatch, CloseKey, Agent, Suspended, regVars, turnVars, loopVars
<1>8. ASSUME NEW t \in Turns, DropHeld(t) PROVE OwnEntry'
  BY <1>8, OpenNames, KeyType, ConstantsAssumption DEF DropHeld, CloseKey, Agent, Suspended, regVars, turnVars, loopVars
<1>9. ASSUME NEW t \in Turns, Open(t) PROVE OwnEntry'
  BY <1>9, OpenNames, KeyType, ConstantsAssumption DEF Open, CloseKey, Agent, Suspended, regVars, turnVars, loopVars
<1>10. ASSUME NEW t \in Turns, Fork(t) PROVE OwnEntry'
  BY <1>10, OpenNames, KeyType, ConstantsAssumption DEF Fork, CloseKey, Agent, Suspended, regVars, turnVars, loopVars
<1>11. ASSUME NEW t \in Turns, BindLive(t) PROVE OwnEntry'
  <2>1. DistinctKeys => entry[Key(t)] = t
    BY <1>11, OpenNames DEF BindLive
  <2>2. t # None
    BY ConstantsAssumption DEF Keys
  <2>3. DistinctKeys => bound' = [bound EXCEPT ![Key(t)] = Agent(t)]
    BY <1>11, <2>1, <2>2 DEF BindLive
  <2>4. QED
    BY <1>11, <2>3, OpenNames, KeyType DEF BindLive, Agent
<1>12. ASSUME NEW t \in Turns, BindCancelled(t) PROVE OwnEntry'
  BY <1>12, OpenNames, KeyType, ConstantsAssumption DEF BindCancelled, CloseKey, Agent, Suspended, regVars, turnVars, loopVars
<1>13. ASSUME NEW t \in Turns, RegisterCard(t) PROVE OwnEntry'
  BY <1>13, OpenNames, KeyType, ConstantsAssumption DEF RegisterCard, CloseKey, Agent, Suspended, regVars, turnVars, loopVars
<1>14. ASSUME NEW t \in Turns, StartRun(t) PROVE OwnEntry'
  BY <1>14, OpenNames, KeyType, ConstantsAssumption DEF StartRun, CloseKey, Agent, Suspended, regVars, turnVars, loopVars
<1>15. ASSUME NEW t \in Turns, InsertHandle(t) PROVE OwnEntry'
  BY <1>15, OpenNames, KeyType, ConstantsAssumption DEF InsertHandle, CloseKey, Agent, Suspended, regVars, turnVars, loopVars
<1>16. ASSUME NEW t \in Turns, Settle(t) PROVE OwnEntry'
  BY <1>16, OpenNames, KeyType, ConstantsAssumption DEF Settle, CloseKey, Agent, Suspended, regVars, turnVars, loopVars
<1>17. ASSUME NEW t \in Turns, TimeoutRun(t) PROVE OwnEntry'
  BY <1>17, OpenNames, KeyType, ConstantsAssumption DEF TimeoutRun, CloseKey, Agent, Suspended, regVars, turnVars, loopVars
<1>18. ASSUME NEW t \in Turns, CleanUp(t) PROVE OwnEntry'
  BY <1>18, OpenNames, KeyType, ConstantsAssumption DEF CleanUp, CloseKey, Agent, Suspended, regVars, turnVars, loopVars
<1>19. ASSUME NEW t \in Turns, Retry(t) PROVE OwnEntry'
  BY <1>19, OpenNames, KeyType, ConstantsAssumption DEF Retry, CloseKey, Agent, Suspended, regVars, turnVars, loopVars
<1>20. ASSUME NEW t \in Turns, Return(t) PROVE OwnEntry'
  BY <1>20, OpenNames, KeyType, ConstantsAssumption DEF Return, CloseKey, Agent, Suspended, regVars, turnVars, loopVars
<1>21. ASSUME NEW t \in Turns, DropFuture(t) PROVE OwnEntry'
  BY <1>21, OpenNames, KeyType, ConstantsAssumption DEF DropFuture, CloseKey, Agent, Suspended, regVars, turnVars, loopVars
<1>22. ASSUME NEW t \in Turns, Answer(t) PROVE OwnEntry'
  BY <1>22, OpenNames, KeyType, ConstantsAssumption DEF Answer, CloseKey, Agent, Suspended, regVars, turnVars, loopVars
<1>23. ASSUME NEW t \in Turns, Close(t) PROVE OwnEntry'
  BY <1>23, OpenNames, KeyType, ConstantsAssumption DEF Close, CloseKey, Agent, Suspended, regVars, turnVars, loopVars
<1>24. ASSUME NEW t \in Turns, CloseCancelled(t) PROVE OwnEntry'
  BY <1>24, OpenNames, KeyType, ConstantsAssumption DEF CloseCancelled, CloseKey, Agent, Suspended, regVars, turnVars, loopVars
<1>25. ASSUME NEW t \in Turns, NotifyCancelled(t) PROVE OwnEntry'
  BY <1>25, OpenNames, KeyType, ConstantsAssumption DEF NotifyCancelled, CloseKey, Agent, Suspended, regVars, turnVars, loopVars
<1>26. ASSUME NEW k \in Keys, Cancel(k) PROVE OwnEntry'
  BY <1>26, OpenNames, KeyType, ConstantsAssumption DEF Cancel, CloseKey, Agent, Suspended, regVars, turnVars, loopVars
<1>27. ASSUME NEW a \in Agents, TaskFinish(a) PROVE OwnEntry'
  BY <1>27, OpenNames, KeyType, ConstantsAssumption DEF TaskFinish, CloseKey, Agent, Suspended, regVars, turnVars, loopVars
<1>28. ASSUME NEW a \in Agents, KillAgent(a) PROVE OwnEntry'
  BY <1>28, OpenNames, KeyType, ConstantsAssumption DEF KillAgent, CloseKey, Agent, Suspended, regVars, turnVars, loopVars
<1>29. ASSUME NEW a \in Agents, KillAbort(a) PROVE OwnEntry'
  BY <1>29, OpenNames, KeyType, ConstantsAssumption DEF KillAbort, CloseKey, Agent, Suspended, regVars, turnVars, loopVars
<1>30. ASSUME NEW a \in Agents, KillMark(a) PROVE OwnEntry'
  BY <1>30, OpenNames, KeyType, ConstantsAssumption DEF KillMark, CloseKey, Agent, Suspended, regVars, turnVars, loopVars
<1>31. CASE UNCHANGED vars
  BY <1>31, OpenNames, KeyType, ConstantsAssumption DEF vars, CloseKey, Agent, Suspended, regVars, turnVars, loopVars
<1>32. QED
  BY <1>1, <1>2, <1>3, <1>4, <1>5, <1>6, <1>7, <1>8, <1>9, <1>10,
     <1>11, <1>12, <1>13, <1>14, <1>15, <1>16, <1>17, <1>18, <1>19,
     <1>20, <1>21, <1>22, <1>23, <1>24, <1>25, <1>26, <1>27, <1>28,
     <1>29, <1>30, <1>31
     DEF Next, Loop, DispatchTask

\* A cancel sees the bound agent or the bind sees the cancel (cancel, bind_agent).
LEMMA CancelStep ==
  ASSUME TypeOK, InboxQueued, Started, NoStaleEntry, OwnEntry, CancelReachesAgent, [Next]_vars
  PROVE  CancelReachesAgent'
<1> USE DEF TypeOK, InboxQueued, CancelReachesAgent, Goto, Running
<1>1. CASE Receive
  BY <1>1, OpenNames, KeyType, AgentType DEF Receive, Agent, Suspended, CloseKey, regVars, turnVars, loopVars, agentVars, Killable
<1>2. CASE RequestShutdown
  BY <1>2, OpenNames, KeyType, AgentType DEF RequestShutdown, Agent, Suspended, CloseKey, regVars, turnVars, loopVars, agentVars, Killable
<1>3. CASE ObserveShutdown
  BY <1>3, OpenNames, KeyType, AgentType DEF ObserveShutdown, Agent, Suspended, CloseKey, regVars, turnVars, loopVars, agentVars, Killable
<1>4. CASE FinishShutdown
  BY <1>4, OpenNames, KeyType, AgentType DEF FinishShutdown, Agent, Suspended, CloseKey, regVars, turnVars, loopVars, agentVars, Killable
<1>5. CASE ChannelRestart
  BY <1>5, OpenNames, KeyType, AgentType DEF ChannelRestart, Agent, Suspended, CloseKey, regVars, turnVars, loopVars, agentVars, Killable
<1>6. ASSUME NEW t \in Turns, Send(t) PROVE CancelReachesAgent'
  BY <1>6, OpenNames, KeyType, AgentType DEF Send, Agent, Suspended, CloseKey, regVars, turnVars, loopVars, agentVars, Killable
<1>7. ASSUME NEW t \in Turns, Dispatch(t) PROVE CancelReachesAgent'
  BY <1>7, OpenNames, KeyType, AgentType DEF Dispatch, Agent, Suspended, CloseKey, regVars, turnVars, loopVars, agentVars, Killable
<1>8. ASSUME NEW t \in Turns, DropHeld(t) PROVE CancelReachesAgent'
  BY <1>8, OpenNames, KeyType, AgentType DEF DropHeld, Agent, Suspended, CloseKey, regVars, turnVars, loopVars, agentVars, Killable
<1>9. ASSUME NEW t \in Turns, Open(t) PROVE CancelReachesAgent'
  BY <1>9, OpenNames, KeyType, AgentType DEF Open, Agent, Suspended, CloseKey, regVars, turnVars, loopVars, agentVars, Killable
<1>10. ASSUME NEW t \in Turns, Fork(t) PROVE CancelReachesAgent'
  BY <1>10, OpenNames, KeyType, AgentType DEF Fork, Agent, Suspended, CloseKey, regVars, turnVars, loopVars, agentVars, Killable
<1>11. ASSUME NEW t \in Turns, BindLive(t) PROVE CancelReachesAgent'
  <2>1. t # None
    BY ConstantsAssumption DEF Keys
  <2>2. DistinctKeys => ~cancelled[t]
    BY <1>11, <2>1, OpenNames DEF BindLive, OwnEntry
  <2>3. QED
    BY <1>11, <2>2 DEF BindLive, Agent, agentVars
<1>12. ASSUME NEW t \in Turns, BindCancelled(t) PROVE CancelReachesAgent'
  BY <1>12, OpenNames, KeyType, AgentType DEF BindCancelled, Agent, Suspended, CloseKey, regVars, turnVars, loopVars, agentVars, Killable
<1>13. ASSUME NEW t \in Turns, RegisterCard(t) PROVE CancelReachesAgent'
  BY <1>13, OpenNames, KeyType, AgentType DEF RegisterCard, Agent, Suspended, CloseKey, regVars, turnVars, loopVars, agentVars, Killable
<1>14. ASSUME NEW t \in Turns, StartRun(t) PROVE CancelReachesAgent'
  BY <1>14, OpenNames, KeyType, AgentType DEF StartRun, Agent, Suspended, CloseKey, regVars, turnVars, loopVars, agentVars, Killable
<1>15. ASSUME NEW t \in Turns, InsertHandle(t) PROVE CancelReachesAgent'
  BY <1>15, OpenNames, KeyType, AgentType DEF InsertHandle, Agent, Suspended, CloseKey, regVars, turnVars, loopVars, agentVars, Killable
<1>16. ASSUME NEW t \in Turns, Settle(t) PROVE CancelReachesAgent'
  BY <1>16, OpenNames, KeyType, AgentType DEF Settle, Agent, Suspended, CloseKey, regVars, turnVars, loopVars, agentVars, Killable
<1>17. ASSUME NEW t \in Turns, TimeoutRun(t) PROVE CancelReachesAgent'
  BY <1>17, OpenNames, KeyType, AgentType DEF TimeoutRun, Agent, Suspended, CloseKey, regVars, turnVars, loopVars, agentVars, Killable
<1>18. ASSUME NEW t \in Turns, CleanUp(t) PROVE CancelReachesAgent'
  BY <1>18, OpenNames, KeyType, AgentType DEF CleanUp, Agent, Suspended, CloseKey, regVars, turnVars, loopVars, agentVars, Killable
<1>19. ASSUME NEW t \in Turns, Retry(t) PROVE CancelReachesAgent'
  BY <1>19, OpenNames, KeyType, AgentType DEF Retry, Agent, Suspended, CloseKey, regVars, turnVars, loopVars, agentVars, Killable
<1>20. ASSUME NEW t \in Turns, Return(t) PROVE CancelReachesAgent'
  BY <1>20, OpenNames, KeyType, AgentType DEF Return, Agent, Suspended, CloseKey, regVars, turnVars, loopVars, agentVars, Killable
<1>21. ASSUME NEW t \in Turns, DropFuture(t) PROVE CancelReachesAgent'
  BY <1>21, OpenNames, KeyType, AgentType DEF DropFuture, Agent, Suspended, CloseKey, regVars, turnVars, loopVars, agentVars, Killable
<1>22. ASSUME NEW t \in Turns, Answer(t) PROVE CancelReachesAgent'
  BY <1>22, OpenNames, KeyType, AgentType DEF Answer, Agent, Suspended, CloseKey, regVars, turnVars, loopVars, agentVars, Killable
<1>23. ASSUME NEW t \in Turns, Close(t) PROVE CancelReachesAgent'
  BY <1>23, OpenNames, KeyType, AgentType DEF Close, Agent, Suspended, CloseKey, regVars, turnVars, loopVars, agentVars, Killable
<1>24. ASSUME NEW t \in Turns, CloseCancelled(t) PROVE CancelReachesAgent'
  BY <1>24, OpenNames, KeyType, AgentType DEF CloseCancelled, Agent, Suspended, CloseKey, regVars, turnVars, loopVars, agentVars, Killable
<1>25. ASSUME NEW t \in Turns, NotifyCancelled(t) PROVE CancelReachesAgent'
  BY <1>25, OpenNames, KeyType, AgentType DEF NotifyCancelled, Agent, Suspended, CloseKey, regVars, turnVars, loopVars, agentVars, Killable
<1>26. ASSUME NEW k \in Keys, Cancel(k) PROVE CancelReachesAgent'
  <2> SUFFICES ASSUME DistinctKeys, NEW t \in Turns, cancelled'[t],
                      pc[t] \in Running \ {"forked"}
               PROVE  killing'[Agent(t)] # "no"
    BY <1>26 DEF Cancel, turnVars, Agent
  <2>1. Agent(t) \in Agents /\ Agent(t) # None
    BY AgentType, ConstantsAssumption
  <2>2. CASE cancelled[t]
    BY <1>26, <2>1, <2>2 DEF Cancel
  <2>3. CASE ~cancelled[t]
    <3>1. entry[k] = t
      BY <1>26, <2>3 DEF Cancel
    <3>2. k = Key(t)
      BY <1>26, <3>1 DEF Cancel, NoStaleEntry
    <3>3. bound[k] = Agent(t)
      BY <3>2 DEF OwnEntry
    <3>4. QED
      BY <1>26, <2>1, <3>3 DEF Cancel
  <2>4. QED
    BY <2>2, <2>3
<1>27. ASSUME NEW a \in Agents, TaskFinish(a) PROVE CancelReachesAgent'
  BY <1>27, OpenNames, KeyType, AgentType DEF TaskFinish, Agent, Suspended, CloseKey, regVars, turnVars, loopVars, agentVars, Killable
<1>28. ASSUME NEW a \in Agents, KillAgent(a) PROVE CancelReachesAgent'
  BY <1>28, OpenNames, KeyType, AgentType DEF KillAgent, Agent, Suspended, CloseKey, regVars, turnVars, loopVars, agentVars, Killable
<1>29. ASSUME NEW a \in Agents, KillAbort(a) PROVE CancelReachesAgent'
  BY <1>29, OpenNames, KeyType, AgentType DEF KillAbort, Agent, Suspended, CloseKey, regVars, turnVars, loopVars, agentVars, Killable
<1>30. ASSUME NEW a \in Agents, KillMark(a) PROVE CancelReachesAgent'
  BY <1>30, OpenNames, KeyType, AgentType DEF KillMark, Agent, Suspended, CloseKey, regVars, turnVars, loopVars, agentVars, Killable
<1>31. CASE UNCHANGED vars
  BY <1>31, OpenNames, KeyType, AgentType DEF vars, Agent, Suspended, CloseKey, regVars, turnVars, loopVars, agentVars, Killable
<1>32. QED
  BY <1>1, <1>2, <1>3, <1>4, <1>5, <1>6, <1>7, <1>8, <1>9, <1>10,
     <1>11, <1>12, <1>13, <1>14, <1>15, <1>16, <1>17, <1>18, <1>19,
     <1>20, <1>21, <1>22, <1>23, <1>24, <1>25, <1>26, <1>27, <1>28,
     <1>29, <1>30, <1>31
     DEF Next, Loop, DispatchTask

\* A card of a turn not cancelled is always one that will be unregistered.
LEMMA CardStep ==
  ASSUME TypeOK, InboxQueued, Started, CardOwner, [Next]_vars
  PROVE  CardOwner'
<1> USE DEF TypeOK, InboxQueued, CardOwner, Goto
<1>1. CASE Receive
  BY <1>1, AgentType DEF Receive, Agent, Agents, Running, Suspended, regVars, turnVars, loopVars, agentVars, CloseKey
<1>2. CASE RequestShutdown
  BY <1>2, AgentType DEF RequestShutdown, Agent, Agents, Running, Suspended, regVars, turnVars, loopVars, agentVars, CloseKey
<1>3. CASE ObserveShutdown
  BY <1>3, AgentType DEF ObserveShutdown, Agent, Agents, Running, Suspended, regVars, turnVars, loopVars, agentVars, CloseKey
<1>4. CASE FinishShutdown
  BY <1>4, AgentType DEF FinishShutdown, Agent, Agents, Running, Suspended, regVars, turnVars, loopVars, agentVars, CloseKey
<1>5. CASE ChannelRestart
  BY <1>5, AgentType DEF ChannelRestart, Agent, Agents, Running, Suspended, regVars, turnVars, loopVars, agentVars, CloseKey
<1>6. ASSUME NEW t \in Turns, Send(t) PROVE CardOwner'
  BY <1>6, AgentType DEF Send, Agent, Agents, Running, Suspended, regVars, turnVars, loopVars, agentVars, CloseKey
<1>7. ASSUME NEW t \in Turns, Dispatch(t) PROVE CardOwner'
  BY <1>7, AgentType DEF Dispatch, Agent, Agents, Running, Suspended, regVars, turnVars, loopVars, agentVars, CloseKey
<1>8. ASSUME NEW t \in Turns, DropHeld(t) PROVE CardOwner'
  BY <1>8, AgentType DEF DropHeld, Agent, Agents, Running, Suspended, regVars, turnVars, loopVars, agentVars, CloseKey
<1>9. ASSUME NEW t \in Turns, Open(t) PROVE CardOwner'
  BY <1>9, AgentType DEF Open, Agent, Agents, Running, Suspended, regVars, turnVars, loopVars, agentVars, CloseKey
<1>10. ASSUME NEW t \in Turns, Fork(t) PROVE CardOwner'
  BY <1>10, AgentType DEF Fork, Agent, Agents, Running, Suspended, regVars, turnVars, loopVars, agentVars, CloseKey
<1>11. ASSUME NEW t \in Turns, BindLive(t) PROVE CardOwner'
  BY <1>11, AgentType DEF BindLive, Agent, Agents, Running, Suspended, regVars, turnVars, loopVars, agentVars, CloseKey
<1>12. ASSUME NEW t \in Turns, BindCancelled(t) PROVE CardOwner'
  BY <1>12, AgentType DEF BindCancelled, Agent, Agents, Running, Suspended, regVars, turnVars, loopVars, agentVars, CloseKey
<1>13. ASSUME NEW t \in Turns, RegisterCard(t) PROVE CardOwner'
  BY <1>13, AgentType DEF RegisterCard, Agent, Agents, Running, Suspended, regVars, turnVars, loopVars, agentVars, CloseKey
<1>14. ASSUME NEW t \in Turns, StartRun(t) PROVE CardOwner'
  BY <1>14, AgentType DEF StartRun, Agent, Agents, Running, Suspended, regVars, turnVars, loopVars, agentVars, CloseKey
<1>15. ASSUME NEW t \in Turns, InsertHandle(t) PROVE CardOwner'
  BY <1>15, AgentType DEF InsertHandle, Agent, Agents, Running, Suspended, regVars, turnVars, loopVars, agentVars, CloseKey
<1>16. ASSUME NEW t \in Turns, Settle(t) PROVE CardOwner'
  BY <1>16, AgentType DEF Settle, Agent, Agents, Running, Suspended, regVars, turnVars, loopVars, agentVars, CloseKey
<1>17. ASSUME NEW t \in Turns, TimeoutRun(t) PROVE CardOwner'
  BY <1>17, AgentType DEF TimeoutRun, Agent, Agents, Running, Suspended, regVars, turnVars, loopVars, agentVars, CloseKey
<1>18. ASSUME NEW t \in Turns, CleanUp(t) PROVE CardOwner'
  BY <1>18, AgentType DEF CleanUp, Agent, Agents, Running, Suspended, regVars, turnVars, loopVars, agentVars, CloseKey
<1>19. ASSUME NEW t \in Turns, Retry(t) PROVE CardOwner'
  BY <1>19, AgentType DEF Retry, Agent, Agents, Running, Suspended, regVars, turnVars, loopVars, agentVars, CloseKey
<1>20. ASSUME NEW t \in Turns, Return(t) PROVE CardOwner'
  BY <1>20, AgentType DEF Return, Agent, Agents, Running, Suspended, regVars, turnVars, loopVars, agentVars, CloseKey
<1>21. ASSUME NEW t \in Turns, DropFuture(t) PROVE CardOwner'
  BY <1>21, AgentType DEF DropFuture, Agent, Agents, Running, Suspended, regVars, turnVars, loopVars, agentVars, CloseKey
<1>22. ASSUME NEW t \in Turns, Answer(t) PROVE CardOwner'
  BY <1>22, AgentType DEF Answer, Agent, Agents, Running, Suspended, regVars, turnVars, loopVars, agentVars, CloseKey
<1>23. ASSUME NEW t \in Turns, Close(t) PROVE CardOwner'
  BY <1>23, AgentType DEF Close, Agent, Agents, Running, Suspended, regVars, turnVars, loopVars, agentVars, CloseKey
<1>24. ASSUME NEW t \in Turns, CloseCancelled(t) PROVE CardOwner'
  BY <1>24, AgentType DEF CloseCancelled, Agent, Agents, Running, Suspended, regVars, turnVars, loopVars, agentVars, CloseKey
<1>25. ASSUME NEW t \in Turns, NotifyCancelled(t) PROVE CardOwner'
  BY <1>25, AgentType DEF NotifyCancelled, Agent, Agents, Running, Suspended, regVars, turnVars, loopVars, agentVars, CloseKey
<1>26. ASSUME NEW k \in Keys, Cancel(k) PROVE CardOwner'
  BY <1>26, AgentType DEF Cancel, Agent, Agents, Running, Suspended, regVars, turnVars, loopVars, agentVars, CloseKey
<1>27. ASSUME NEW a \in Agents, TaskFinish(a) PROVE CardOwner'
  BY <1>27, AgentType DEF TaskFinish, Agent, Agents, Running, Suspended, regVars, turnVars, loopVars, agentVars, CloseKey
<1>28. ASSUME NEW a \in Agents, KillAgent(a) PROVE CardOwner'
  BY <1>28, AgentType DEF KillAgent, Agent, Agents, Running, Suspended, regVars, turnVars, loopVars, agentVars, CloseKey
<1>29. ASSUME NEW a \in Agents, KillAbort(a) PROVE CardOwner'
  BY <1>29, AgentType DEF KillAbort, Agent, Agents, Running, Suspended, regVars, turnVars, loopVars, agentVars, CloseKey
<1>30. ASSUME NEW a \in Agents, KillMark(a) PROVE CardOwner'
  BY <1>30, AgentType DEF KillMark, Agent, Agents, Running, Suspended, regVars, turnVars, loopVars, agentVars, CloseKey
<1>31. CASE UNCHANGED vars
  BY <1>31, AgentType DEF vars, Agent, Agents, Running, Suspended, regVars, turnVars, loopVars, agentVars, CloseKey
<1>32. QED
  BY <1>1, <1>2, <1>3, <1>4, <1>5, <1>6, <1>7, <1>8, <1>9, <1>10,
     <1>11, <1>12, <1>13, <1>14, <1>15, <1>16, <1>17, <1>18, <1>19,
     <1>20, <1>21, <1>22, <1>23, <1>24, <1>25, <1>26, <1>27, <1>28,
     <1>29, <1>30, <1>31
     DEF Next, Loop, DispatchTask

\* Attempts that were not made have no task.
LEMMA FreshStep ==
  ASSUME TypeOK, Started, Fresh, [Next]_vars
  PROVE  Fresh'
<1> USE DEF TypeOK, Fresh
<1>1. CASE Receive
  BY <1>1, AgentType DEF Receive, Agent, Agents, Running, turnVars, agentVars
<1>2. CASE RequestShutdown
  BY <1>2, AgentType DEF RequestShutdown, Agent, Agents, Running, turnVars, agentVars
<1>3. CASE ObserveShutdown
  BY <1>3, AgentType DEF ObserveShutdown, Agent, Agents, Running, turnVars, agentVars
<1>4. CASE FinishShutdown
  BY <1>4, AgentType DEF FinishShutdown, Agent, Agents, Running, turnVars, agentVars
<1>5. CASE ChannelRestart
  BY <1>5, AgentType DEF ChannelRestart, Agent, Agents, Running, turnVars, agentVars
<1>6. ASSUME NEW t \in Turns, Send(t) PROVE Fresh'
  BY <1>6, AgentType DEF Send, Agent, Agents, Running, turnVars, agentVars
<1>7. ASSUME NEW t \in Turns, Dispatch(t) PROVE Fresh'
  BY <1>7, AgentType DEF Dispatch, Agent, Agents, Running, turnVars, agentVars
<1>8. ASSUME NEW t \in Turns, DropHeld(t) PROVE Fresh'
  BY <1>8, AgentType DEF DropHeld, Agent, Agents, Running, turnVars, agentVars
<1>9. ASSUME NEW t \in Turns, Open(t) PROVE Fresh'
  BY <1>9, AgentType DEF Open, Agent, Agents, Running, turnVars, agentVars
<1>10. ASSUME NEW t \in Turns, Fork(t) PROVE Fresh'
  BY <1>10, AgentType DEF Fork, Agent, Agents, Running, turnVars, agentVars
<1>11. ASSUME NEW t \in Turns, BindLive(t) PROVE Fresh'
  BY <1>11, AgentType DEF BindLive, Agent, Agents, Running, turnVars, agentVars
<1>12. ASSUME NEW t \in Turns, BindCancelled(t) PROVE Fresh'
  BY <1>12, AgentType DEF BindCancelled, Agent, Agents, Running, turnVars, agentVars
<1>13. ASSUME NEW t \in Turns, RegisterCard(t) PROVE Fresh'
  BY <1>13, AgentType DEF RegisterCard, Agent, Agents, Running, turnVars, agentVars
<1>14. ASSUME NEW t \in Turns, StartRun(t) PROVE Fresh'
  BY <1>14, AgentType DEF StartRun, Agent, Agents, Running, turnVars, agentVars
<1>15. ASSUME NEW t \in Turns, InsertHandle(t) PROVE Fresh'
  BY <1>15, AgentType DEF InsertHandle, Agent, Agents, Running, turnVars, agentVars
<1>16. ASSUME NEW t \in Turns, Settle(t) PROVE Fresh'
  BY <1>16, AgentType DEF Settle, Agent, Agents, Running, turnVars, agentVars
<1>17. ASSUME NEW t \in Turns, TimeoutRun(t) PROVE Fresh'
  BY <1>17, AgentType DEF TimeoutRun, Agent, Agents, Running, turnVars, agentVars
<1>18. ASSUME NEW t \in Turns, CleanUp(t) PROVE Fresh'
  BY <1>18, AgentType DEF CleanUp, Agent, Agents, Running, turnVars, agentVars
<1>19. ASSUME NEW t \in Turns, Retry(t) PROVE Fresh'
  BY <1>19, AgentType DEF Retry, Agent, Agents, Running, turnVars, agentVars
<1>20. ASSUME NEW t \in Turns, Return(t) PROVE Fresh'
  BY <1>20, AgentType DEF Return, Agent, Agents, Running, turnVars, agentVars
<1>21. ASSUME NEW t \in Turns, DropFuture(t) PROVE Fresh'
  BY <1>21, AgentType DEF DropFuture, Agent, Agents, Running, turnVars, agentVars
<1>22. ASSUME NEW t \in Turns, Answer(t) PROVE Fresh'
  BY <1>22, AgentType DEF Answer, Agent, Agents, Running, turnVars, agentVars
<1>23. ASSUME NEW t \in Turns, Close(t) PROVE Fresh'
  BY <1>23, AgentType DEF Close, Agent, Agents, Running, turnVars, agentVars
<1>24. ASSUME NEW t \in Turns, CloseCancelled(t) PROVE Fresh'
  BY <1>24, AgentType DEF CloseCancelled, Agent, Agents, Running, turnVars, agentVars
<1>25. ASSUME NEW t \in Turns, NotifyCancelled(t) PROVE Fresh'
  BY <1>25, AgentType DEF NotifyCancelled, Agent, Agents, Running, turnVars, agentVars
<1>26. ASSUME NEW k \in Keys, Cancel(k) PROVE Fresh'
  BY <1>26, AgentType DEF Cancel, Agent, Agents, Running, turnVars, agentVars
<1>27. ASSUME NEW a \in Agents, TaskFinish(a) PROVE Fresh'
  BY <1>27, AgentType DEF TaskFinish, Agent, Agents, Running, turnVars, agentVars
<1>28. ASSUME NEW a \in Agents, KillAgent(a) PROVE Fresh'
  BY <1>28, AgentType DEF KillAgent, Agent, Agents, Running, turnVars, agentVars
<1>29. ASSUME NEW a \in Agents, KillAbort(a) PROVE Fresh'
  BY <1>29, AgentType DEF KillAbort, Agent, Agents, Running, turnVars, agentVars
<1>30. ASSUME NEW a \in Agents, KillMark(a) PROVE Fresh'
  BY <1>30, AgentType DEF KillMark, Agent, Agents, Running, turnVars, agentVars
<1>31. CASE UNCHANGED vars
  BY <1>31, AgentType DEF vars, Agent, Agents, Running, turnVars, agentVars
<1>32. QED
  BY <1>1, <1>2, <1>3, <1>4, <1>5, <1>6, <1>7, <1>8, <1>9, <1>10,
     <1>11, <1>12, <1>13, <1>14, <1>15, <1>16, <1>17, <1>18, <1>19,
     <1>20, <1>21, <1>22, <1>23, <1>24, <1>25, <1>26, <1>27, <1>28,
     <1>29, <1>30, <1>31
     DEF Next, Loop, DispatchTask

\* A task that ran is awaited, was left by its turn, or is at rest.
LEMMA TaskStep ==
  ASSUME TypeOK, InboxQueued, Started, TaskOwner, Fresh, [Next]_vars
  PROVE  TaskOwner'
<1> USE DEF TypeOK, InboxQueued, TaskOwner, Goto
<1>1. CASE Receive
  BY <1>1, AgentType DEF Receive, Agent, Agents, Running, Suspended, turnVars, loopVars, agentVars
<1>2. CASE RequestShutdown
  BY <1>2, AgentType DEF RequestShutdown, Agent, Agents, Running, Suspended, turnVars, loopVars, agentVars
<1>3. CASE ObserveShutdown
  BY <1>3, AgentType DEF ObserveShutdown, Agent, Agents, Running, Suspended, turnVars, loopVars, agentVars
<1>4. CASE FinishShutdown
  BY <1>4, AgentType DEF FinishShutdown, Agent, Agents, Running, Suspended, turnVars, loopVars, agentVars
<1>5. CASE ChannelRestart
  BY <1>5, AgentType DEF ChannelRestart, Agent, Agents, Running, Suspended, turnVars, loopVars, agentVars
<1>6. ASSUME NEW t \in Turns, Send(t) PROVE TaskOwner'
  BY <1>6, AgentType DEF Send, Agent, Agents, Running, Suspended, turnVars, loopVars, agentVars
<1>7. ASSUME NEW t \in Turns, Dispatch(t) PROVE TaskOwner'
  BY <1>7, AgentType DEF Dispatch, Agent, Agents, Running, Suspended, turnVars, loopVars, agentVars
<1>8. ASSUME NEW t \in Turns, DropHeld(t) PROVE TaskOwner'
  BY <1>8, AgentType DEF DropHeld, Agent, Agents, Running, Suspended, turnVars, loopVars, agentVars
<1>9. ASSUME NEW t \in Turns, Open(t) PROVE TaskOwner'
  BY <1>9, AgentType DEF Open, Agent, Agents, Running, Suspended, turnVars, loopVars, agentVars
<1>10. ASSUME NEW t \in Turns, Fork(t) PROVE TaskOwner'
  <2>1. status' = [status EXCEPT ![<<t, attempts[t] + 1>>] = "starting"]
    BY <1>10 DEF Fork, Agent
  <2>2. \A a \in Agents : task[a] # "none" => a # <<t, attempts[t] + 1>>
    BY DEF Fresh, Agents
  <2>3. \A a \in Agents : a[1] # t => Agent(a[1])' = Agent(a[1]) /\ pc'[a[1]] = pc[a[1]]
    BY <1>10 DEF Fork, Agent, Agents
  <2>4. QED
    BY <1>10, <2>1, <2>2, <2>3 DEF Fork, Agents
<1>11. ASSUME NEW t \in Turns, BindLive(t) PROVE TaskOwner'
  BY <1>11, AgentType DEF BindLive, Agent, Agents, Running, Suspended, turnVars, loopVars, agentVars
<1>12. ASSUME NEW t \in Turns, BindCancelled(t) PROVE TaskOwner'
  BY <1>12, AgentType DEF BindCancelled, Agent, Agents, Running, Suspended, turnVars, loopVars, agentVars
<1>13. ASSUME NEW t \in Turns, RegisterCard(t) PROVE TaskOwner'
  BY <1>13, AgentType DEF RegisterCard, Agent, Agents, Running, Suspended, turnVars, loopVars, agentVars
<1>14. ASSUME NEW t \in Turns, StartRun(t) PROVE TaskOwner'
  BY <1>14, AgentType DEF StartRun, Agent, Agents, Running, Suspended, turnVars, loopVars, agentVars
<1>15. ASSUME NEW t \in Turns, InsertHandle(t) PROVE TaskOwner'
  BY <1>15, AgentType DEF InsertHandle, Agent, Agents, Running, Suspended, turnVars, loopVars, agentVars
<1>16. ASSUME NEW t \in Turns, Settle(t) PROVE TaskOwner'
  BY <1>16, AgentType DEF Settle, Agent, Agents, Running, Suspended, turnVars, loopVars, agentVars
<1>17. ASSUME NEW t \in Turns, TimeoutRun(t) PROVE TaskOwner'
  BY <1>17, AgentType DEF TimeoutRun, Agent, Agents, Running, Suspended, turnVars, loopVars, agentVars
<1>18. ASSUME NEW t \in Turns, CleanUp(t) PROVE TaskOwner'
  BY <1>18, AgentType DEF CleanUp, Agent, Agents, Running, Suspended, turnVars, loopVars, agentVars
<1>19. ASSUME NEW t \in Turns, Retry(t) PROVE TaskOwner'
  BY <1>19, AgentType DEF Retry, Agent, Agents, Running, Suspended, turnVars, loopVars, agentVars
<1>20. ASSUME NEW t \in Turns, Return(t) PROVE TaskOwner'
  BY <1>20, AgentType DEF Return, Agent, Agents, Running, Suspended, turnVars, loopVars, agentVars
<1>21. ASSUME NEW t \in Turns, DropFuture(t) PROVE TaskOwner'
  BY <1>21, AgentType DEF DropFuture, Agent, Agents, Running, Suspended, turnVars, loopVars, agentVars
<1>22. ASSUME NEW t \in Turns, Answer(t) PROVE TaskOwner'
  BY <1>22, AgentType DEF Answer, Agent, Agents, Running, Suspended, turnVars, loopVars, agentVars
<1>23. ASSUME NEW t \in Turns, Close(t) PROVE TaskOwner'
  BY <1>23, AgentType DEF Close, Agent, Agents, Running, Suspended, turnVars, loopVars, agentVars
<1>24. ASSUME NEW t \in Turns, CloseCancelled(t) PROVE TaskOwner'
  BY <1>24, AgentType DEF CloseCancelled, Agent, Agents, Running, Suspended, turnVars, loopVars, agentVars
<1>25. ASSUME NEW t \in Turns, NotifyCancelled(t) PROVE TaskOwner'
  BY <1>25, AgentType DEF NotifyCancelled, Agent, Agents, Running, Suspended, turnVars, loopVars, agentVars
<1>26. ASSUME NEW k \in Keys, Cancel(k) PROVE TaskOwner'
  BY <1>26, AgentType DEF Cancel, Agent, Agents, Running, Suspended, turnVars, loopVars, agentVars
<1>27. ASSUME NEW a \in Agents, TaskFinish(a) PROVE TaskOwner'
  BY <1>27, AgentType DEF TaskFinish, Agent, Agents, Running, Suspended, turnVars, loopVars, agentVars
<1>28. ASSUME NEW a \in Agents, KillAgent(a) PROVE TaskOwner'
  BY <1>28, AgentType DEF KillAgent, Agent, Agents, Running, Suspended, turnVars, loopVars, agentVars
<1>29. ASSUME NEW a \in Agents, KillAbort(a) PROVE TaskOwner'
  BY <1>29, AgentType DEF KillAbort, Agent, Agents, Running, Suspended, turnVars, loopVars, agentVars
<1>30. ASSUME NEW a \in Agents, KillMark(a) PROVE TaskOwner'
  BY <1>30, AgentType DEF KillMark, Agent, Agents, Running, Suspended, turnVars, loopVars, agentVars
<1>31. CASE UNCHANGED vars
  BY <1>31, AgentType DEF vars, Agent, Agents, Running, Suspended, turnVars, loopVars, agentVars
<1>32. QED
  BY <1>1, <1>2, <1>3, <1>4, <1>5, <1>6, <1>7, <1>8, <1>9, <1>10,
     <1>11, <1>12, <1>13, <1>14, <1>15, <1>16, <1>17, <1>18, <1>19,
     <1>20, <1>21, <1>22, <1>23, <1>24, <1>25, <1>26, <1>27, <1>28,
     <1>29, <1>30, <1>31
     DEF Next, Loop, DispatchTask

\* The terminal frame is chosen where the turn goes to its end.
LEMMA FrameStep ==
  ASSUME TypeOK, InboxQueued, FrameAtEnd, [Next]_vars
  PROVE  FrameAtEnd'
<1> USE DEF TypeOK, InboxQueued, FrameAtEnd, Goto
<1>1. CASE Receive
  BY <1>1 DEF Receive, Suspended, Delivered, turnVars, loopVars
<1>2. CASE RequestShutdown
  BY <1>2 DEF RequestShutdown, Suspended, Delivered, turnVars, loopVars
<1>3. CASE ObserveShutdown
  BY <1>3 DEF ObserveShutdown, Suspended, Delivered, turnVars, loopVars
<1>4. CASE FinishShutdown
  BY <1>4 DEF FinishShutdown, Suspended, Delivered, turnVars, loopVars
<1>5. CASE ChannelRestart
  BY <1>5 DEF ChannelRestart, Suspended, Delivered, turnVars, loopVars
<1>6. ASSUME NEW t \in Turns, Send(t) PROVE FrameAtEnd'
  BY <1>6 DEF Send, Suspended, Delivered, turnVars, loopVars
<1>7. ASSUME NEW t \in Turns, Dispatch(t) PROVE FrameAtEnd'
  BY <1>7 DEF Dispatch, Suspended, Delivered, turnVars, loopVars
<1>8. ASSUME NEW t \in Turns, DropHeld(t) PROVE FrameAtEnd'
  BY <1>8 DEF DropHeld, Suspended, Delivered, turnVars, loopVars
<1>9. ASSUME NEW t \in Turns, Open(t) PROVE FrameAtEnd'
  BY <1>9 DEF Open, Suspended, Delivered, turnVars, loopVars
<1>10. ASSUME NEW t \in Turns, Fork(t) PROVE FrameAtEnd'
  BY <1>10 DEF Fork, Suspended, Delivered, turnVars, loopVars
<1>11. ASSUME NEW t \in Turns, BindLive(t) PROVE FrameAtEnd'
  BY <1>11 DEF BindLive, Suspended, Delivered, turnVars, loopVars
<1>12. ASSUME NEW t \in Turns, BindCancelled(t) PROVE FrameAtEnd'
  BY <1>12 DEF BindCancelled, Suspended, Delivered, turnVars, loopVars
<1>13. ASSUME NEW t \in Turns, RegisterCard(t) PROVE FrameAtEnd'
  BY <1>13 DEF RegisterCard, Suspended, Delivered, turnVars, loopVars
<1>14. ASSUME NEW t \in Turns, StartRun(t) PROVE FrameAtEnd'
  BY <1>14 DEF StartRun, Suspended, Delivered, turnVars, loopVars
<1>15. ASSUME NEW t \in Turns, InsertHandle(t) PROVE FrameAtEnd'
  BY <1>15 DEF InsertHandle, Suspended, Delivered, turnVars, loopVars
<1>16. ASSUME NEW t \in Turns, Settle(t) PROVE FrameAtEnd'
  BY <1>16 DEF Settle, Suspended, Delivered, turnVars, loopVars
<1>17. ASSUME NEW t \in Turns, TimeoutRun(t) PROVE FrameAtEnd'
  BY <1>17 DEF TimeoutRun, Suspended, Delivered, turnVars, loopVars
<1>18. ASSUME NEW t \in Turns, CleanUp(t) PROVE FrameAtEnd'
  BY <1>18 DEF CleanUp, Suspended, Delivered, turnVars, loopVars
<1>19. ASSUME NEW t \in Turns, Retry(t) PROVE FrameAtEnd'
  BY <1>19 DEF Retry, Suspended, Delivered, turnVars, loopVars
<1>20. ASSUME NEW t \in Turns, Return(t) PROVE FrameAtEnd'
  BY <1>20 DEF Return, Suspended, Delivered, turnVars, loopVars
<1>21. ASSUME NEW t \in Turns, DropFuture(t) PROVE FrameAtEnd'
  BY <1>21 DEF DropFuture, Suspended, Delivered, turnVars, loopVars
<1>22. ASSUME NEW t \in Turns, Answer(t) PROVE FrameAtEnd'
  BY <1>22 DEF Answer, Suspended, Delivered, turnVars, loopVars
<1>23. ASSUME NEW t \in Turns, Close(t) PROVE FrameAtEnd'
  BY <1>23 DEF Close, Suspended, Delivered, turnVars, loopVars
<1>24. ASSUME NEW t \in Turns, CloseCancelled(t) PROVE FrameAtEnd'
  BY <1>24 DEF CloseCancelled, Suspended, Delivered, turnVars, loopVars
<1>25. ASSUME NEW t \in Turns, NotifyCancelled(t) PROVE FrameAtEnd'
  BY <1>25 DEF NotifyCancelled, Suspended, Delivered, turnVars, loopVars
<1>26. ASSUME NEW k \in Keys, Cancel(k) PROVE FrameAtEnd'
  BY <1>26 DEF Cancel, Suspended, Delivered, turnVars, loopVars
<1>27. ASSUME NEW a \in Agents, TaskFinish(a) PROVE FrameAtEnd'
  BY <1>27 DEF TaskFinish, Suspended, Delivered, turnVars, loopVars
<1>28. ASSUME NEW a \in Agents, KillAgent(a) PROVE FrameAtEnd'
  BY <1>28 DEF KillAgent, Suspended, Delivered, turnVars, loopVars
<1>29. ASSUME NEW a \in Agents, KillAbort(a) PROVE FrameAtEnd'
  BY <1>29 DEF KillAbort, Suspended, Delivered, turnVars, loopVars
<1>30. ASSUME NEW a \in Agents, KillMark(a) PROVE FrameAtEnd'
  BY <1>30 DEF KillMark, Suspended, Delivered, turnVars, loopVars
<1>31. CASE UNCHANGED vars
  BY <1>31 DEF vars, Suspended, Delivered, turnVars, loopVars
<1>32. QED
  BY <1>1, <1>2, <1>3, <1>4, <1>5, <1>6, <1>7, <1>8, <1>9, <1>10,
     <1>11, <1>12, <1>13, <1>14, <1>15, <1>16, <1>17, <1>18, <1>19,
     <1>20, <1>21, <1>22, <1>23, <1>24, <1>25, <1>26, <1>27, <1>28,
     <1>29, <1>30, <1>31
     DEF Next, Loop, DispatchTask

\* Only a cancelled turn is in the cancelled branch, and only a shutdown ends the
\* loop.
LEMMA AskedStep ==
  ASSUME TypeOK, InboxQueued, Asked, [Next]_vars
  PROVE  Asked'
<1> USE DEF TypeOK, InboxQueued, Asked, Goto
<1>1. CASE Receive
  BY <1>1 DEF Receive, Suspended, CloseKey, turnVars, loopVars, regVars
<1>2. CASE RequestShutdown
  BY <1>2 DEF RequestShutdown, Suspended, CloseKey, turnVars, loopVars, regVars
<1>3. CASE ObserveShutdown
  BY <1>3 DEF ObserveShutdown, Suspended, CloseKey, turnVars, loopVars, regVars
<1>4. CASE FinishShutdown
  BY <1>4 DEF FinishShutdown, Suspended, CloseKey, turnVars, loopVars, regVars
<1>5. CASE ChannelRestart
  BY <1>5 DEF ChannelRestart, Suspended, CloseKey, turnVars, loopVars, regVars
<1>6. ASSUME NEW t \in Turns, Send(t) PROVE Asked'
  BY <1>6 DEF Send, Suspended, CloseKey, turnVars, loopVars, regVars
<1>7. ASSUME NEW t \in Turns, Dispatch(t) PROVE Asked'
  BY <1>7 DEF Dispatch, Suspended, CloseKey, turnVars, loopVars, regVars
<1>8. ASSUME NEW t \in Turns, DropHeld(t) PROVE Asked'
  BY <1>8 DEF DropHeld, Suspended, CloseKey, turnVars, loopVars, regVars
<1>9. ASSUME NEW t \in Turns, Open(t) PROVE Asked'
  BY <1>9 DEF Open, Suspended, CloseKey, turnVars, loopVars, regVars
<1>10. ASSUME NEW t \in Turns, Fork(t) PROVE Asked'
  BY <1>10 DEF Fork, Suspended, CloseKey, turnVars, loopVars, regVars
<1>11. ASSUME NEW t \in Turns, BindLive(t) PROVE Asked'
  BY <1>11 DEF BindLive, Suspended, CloseKey, turnVars, loopVars, regVars
<1>12. ASSUME NEW t \in Turns, BindCancelled(t) PROVE Asked'
  BY <1>12 DEF BindCancelled, Suspended, CloseKey, turnVars, loopVars, regVars
<1>13. ASSUME NEW t \in Turns, RegisterCard(t) PROVE Asked'
  BY <1>13 DEF RegisterCard, Suspended, CloseKey, turnVars, loopVars, regVars
<1>14. ASSUME NEW t \in Turns, StartRun(t) PROVE Asked'
  BY <1>14 DEF StartRun, Suspended, CloseKey, turnVars, loopVars, regVars
<1>15. ASSUME NEW t \in Turns, InsertHandle(t) PROVE Asked'
  BY <1>15 DEF InsertHandle, Suspended, CloseKey, turnVars, loopVars, regVars
<1>16. ASSUME NEW t \in Turns, Settle(t) PROVE Asked'
  BY <1>16 DEF Settle, Suspended, CloseKey, turnVars, loopVars, regVars
<1>17. ASSUME NEW t \in Turns, TimeoutRun(t) PROVE Asked'
  BY <1>17 DEF TimeoutRun, Suspended, CloseKey, turnVars, loopVars, regVars
<1>18. ASSUME NEW t \in Turns, CleanUp(t) PROVE Asked'
  BY <1>18 DEF CleanUp, Suspended, CloseKey, turnVars, loopVars, regVars
<1>19. ASSUME NEW t \in Turns, Retry(t) PROVE Asked'
  BY <1>19 DEF Retry, Suspended, CloseKey, turnVars, loopVars, regVars
<1>20. ASSUME NEW t \in Turns, Return(t) PROVE Asked'
  BY <1>20 DEF Return, Suspended, CloseKey, turnVars, loopVars, regVars
<1>21. ASSUME NEW t \in Turns, DropFuture(t) PROVE Asked'
  BY <1>21 DEF DropFuture, Suspended, CloseKey, turnVars, loopVars, regVars
<1>22. ASSUME NEW t \in Turns, Answer(t) PROVE Asked'
  BY <1>22 DEF Answer, Suspended, CloseKey, turnVars, loopVars, regVars
<1>23. ASSUME NEW t \in Turns, Close(t) PROVE Asked'
  BY <1>23 DEF Close, Suspended, CloseKey, turnVars, loopVars, regVars
<1>24. ASSUME NEW t \in Turns, CloseCancelled(t) PROVE Asked'
  BY <1>24 DEF CloseCancelled, Suspended, CloseKey, turnVars, loopVars, regVars
<1>25. ASSUME NEW t \in Turns, NotifyCancelled(t) PROVE Asked'
  BY <1>25 DEF NotifyCancelled, Suspended, CloseKey, turnVars, loopVars, regVars
<1>26. ASSUME NEW k \in Keys, Cancel(k) PROVE Asked'
  BY <1>26 DEF Cancel, Suspended, CloseKey, turnVars, loopVars, regVars
<1>27. ASSUME NEW a \in Agents, TaskFinish(a) PROVE Asked'
  BY <1>27 DEF TaskFinish, Suspended, CloseKey, turnVars, loopVars, regVars
<1>28. ASSUME NEW a \in Agents, KillAgent(a) PROVE Asked'
  BY <1>28 DEF KillAgent, Suspended, CloseKey, turnVars, loopVars, regVars
<1>29. ASSUME NEW a \in Agents, KillAbort(a) PROVE Asked'
  BY <1>29 DEF KillAbort, Suspended, CloseKey, turnVars, loopVars, regVars
<1>30. ASSUME NEW a \in Agents, KillMark(a) PROVE Asked'
  BY <1>30 DEF KillMark, Suspended, CloseKey, turnVars, loopVars, regVars
<1>31. CASE UNCHANGED vars
  BY <1>31 DEF vars, Suspended, CloseKey, turnVars, loopVars, regVars
<1>32. QED
  BY <1>1, <1>2, <1>3, <1>4, <1>5, <1>6, <1>7, <1>8, <1>9, <1>10,
     <1>11, <1>12, <1>13, <1>14, <1>15, <1>16, <1>17, <1>18, <1>19,
     <1>20, <1>21, <1>22, <1>23, <1>24, <1>25, <1>26, <1>27, <1>28,
     <1>29, <1>30, <1>31
     DEF Next, Loop, DispatchTask

\* The state after start-up satisfies the invariant.
LEMMA InitIInv == Init => IInv
<1> SUFFICES ASSUME Init PROVE IInv
  OBVIOUS
<1> USE DEF Init
<1>1. TypeOK
  <2>1. pc \in [Turns -> Places]
    BY DEF Places, Ended, Holding
  <2>2. inbox \in Seq(Turns) /\ free \in 0 .. MaxRoutes /\ attempts \in [Turns -> 0 .. MaxAttempts]
    BY ConstantsAssumption
  <2>3. /\ frame \in [Turns -> Frames]
        /\ outcome \in [Turns -> Outcomes]
        /\ status \in [Agents -> Statuses]
        /\ task \in [Agents -> Tasks]
        /\ killing \in [Agents -> Kills]
    BY ValueNames
  <2>4. entry \in [Keys -> Turns \cup {None}] /\ bound \in [Keys -> Agents \cup {None}]
    OBVIOUS
  <2>5. QED
    BY <2>1, <2>2, <2>3, <2>4 DEF TypeOK
<1>2. InboxQueued /\ Started /\ NoStaleEntry /\ CancelReachesAgent /\ CardOwner
  BY DEF InboxQueued, Started, NoStaleEntry, CancelReachesAgent, CardOwner, Running
<1>3. OwnEntry /\ TaskOwner /\ Fresh /\ FrameAtEnd /\ Asked
  BY DEF OwnEntry, TaskOwner, Fresh, FrameAtEnd, Asked, OpenTurn, Running
<1>4. PermitAccounting
  <2>1. Permitted = {}
    BY DEF Permitted, Holding, OpenTurn, Running
  <2>2. QED
    BY <2>1, FS_EmptySet, ConstantsAssumption DEF PermitAccounting
<1>5. QED
  BY <1>1, <1>2, <1>3, <1>4 DEF IInv

\* Every step keeps the invariant.
LEMMA NextIInv == IInv /\ [Next]_vars => IInv'
BY TypeStep, InboxStep, StartedStep, PermitStep, EntryStep, OwnStep, CancelStep,
   CardStep, TaskStep, FreshStep, FrameStep, AskedStep
   DEF IInv

\* whatever the constants, every permit, entry, card and task has its owner
THEOREM Ownership == Spec => []IInv
<1>1. Init => IInv
  BY InitIInv
<1>2. IInv /\ [Next]_vars => IInv'
  BY NextIInv
<1>3. QED
  BY <1>1, <1>2, PTL DEF Spec

\* the state of the gateway, the registry and the supervisor is well typed
THEOREM TypeCorrect == Spec => []TypeOK
<1>1. IInv => TypeOK
  BY DEF IInv
<1>2. QED
  BY <1>1, Ownership, PTL

\* F19: permits and live dispatch tasks add up, for any number of turns
THEOREM PermitsAddUp == Spec => []PermitAccounting
<1>1. IInv => PermitAccounting
  BY DEF IInv
<1>2. QED
  BY <1>1, Ownership, PTL

\* no turn leaves its key in the registry, even when sessions share keys
THEOREM EntriesAreLive == Spec => []NoStaleEntry
<1>1. IInv => NoStaleEntry
  BY DEF IInv
<1>2. QED
  BY <1>1, Ownership, PTL

\* turns with keys of their own keep their token and their agent under it
THEOREM EntriesAreOwn == Spec => []OwnEntry
<1>1. IInv => OwnEntry
  BY DEF IInv
<1>2. QED
  BY <1>1, Ownership, PTL

\* a cancel and a fork that race always end in a kill of the agent
THEOREM CancelNeverMissed == Spec => []CancelReachesAgent
<1>1. IInv => CancelReachesAgent
  BY DEF IInv
<1>2. QED
  BY <1>1, Ownership, PTL

\* a turn that was not cancelled leaves no A2A card behind
THEOREM CardsAreReleased == Spec => []CardsReleased
<1>1. IInv => CardsReleased
  BY DEF IInv, TypeOK, Agents, CardOwner, CardsReleased, Ended
<1>2. QED
  BY <1>1, Ownership, PTL

\* an agent awaited to its end is at rest, whatever kills raced with it
THEOREM AgentsAreSettled == Spec => []AgentsSettled
<1>1. IInv => AgentsSettled
  BY DEF IInv, TaskOwner, AgentsSettled, Ended
<1>2. QED
  BY <1>1, Ownership, PTL

\* one terminal frame per turn, on whichever exit
THEOREM OneFrame == Spec => OneTerminalFrame
<1>1. IInv /\ [Next]_vars =>
        [\A t \in Turns : frame'[t] # frame[t] =>
           frame[t] = "none" /\ pc[t] \in {"answering", "notifying"}]_vars
  <2> SUFFICES ASSUME IInv, [Next]_vars, NEW t \in Turns, frame'[t] # frame[t]
               PROVE  frame[t] = "none" /\ pc[t] \in {"answering", "notifying"}
    OBVIOUS
  <2>1. PICK u \in Turns : Answer(u) \/ NotifyCancelled(u)
    BY DEF Next, Loop, DispatchTask, vars, turnVars, Receive, RequestShutdown,
       ObserveShutdown, FinishShutdown, ChannelRestart, Send,
       Dispatch, DropHeld, Open, Fork, BindLive, BindCancelled,
       RegisterCard, StartRun, InsertHandle, Settle, TimeoutRun,
       CleanUp, Retry, Return, DropFuture, Close, CloseCancelled,
       TaskFinish, Cancel, KillAgent, KillAbort, KillMark
  <2>2. QED
    BY <2>1 DEF Answer, NotifyCancelled, IInv, TypeOK, FrameAtEnd
<1>2. QED
  BY <1>1, Ownership, PTL DEF Spec, OneTerminalFrame

-----------------------------------------------------------------------------
(* What kills miss, and only that: the window in which run_with_directive    *)
(* has spawned or is about to spawn a task whose handle it has not stored    *)

\* a turn of its own whose agent has no stored handle yet
Handleless(a) ==
  a = Agent(a[1]) /\ pc[a[1]] \in {"forked", "bound", "carded", "started"}

\* the agent exists, its task is not running and will not be started
Spent(a) == a[2] <= attempts[a[1]] /\ task[a] # "running" /\ ~Handleless(a)

\* a running task has a handle that a kill finds, but for the step between
\* its spawn and the insertion of the handle
TasksReachable ==
  \A a \in Agents : task[a] = "running" =>
    a \in handles \/ (a = Agent(a[1]) /\ pc[a[1]] = "started")

\* only forked agents are in the supervisor's table or killed
KnownAgents ==
  \A a \in Agents : status[a] # "none" \/ killing[a] # "no" => a[2] <= attempts[a[1]]

\* an agent that is still to be run has no task
WaitsToRun ==
  \A t \in Turns : pc[t] \in {"forked", "bound", "carded"} => task[Agent(t)] = "none"

\* a kill whose abort is behind it has stopped its agent
KillsHold == \A a \in Agents : killing[a] \in {"mark", "killed"} => Spent(a)

\* no kill takes the handles lock before its agent's handle is there
LateKills == \A a \in Agents : KillAbort(a) => ~Handleless(a)

\* A handle is stored right after the spawn, and goes only when the task is
\* aborted or at its end (run_with_directive, kill).
LEMMA ReachStep ==
  ASSUME TypeOK, InboxQueued, Started, TasksReachable, [Next]_vars
  PROVE  TasksReachable'
<1> USE DEF TypeOK, InboxQueued, TasksReachable, Goto
<1>1. CASE Receive
  BY <1>1, AgentType DEF Receive, Agent, Agents, Running, Suspended, turnVars, agentVars
<1>2. CASE RequestShutdown
  BY <1>2, AgentType DEF RequestShutdown, Agent, Agents, Running, Suspended, turnVars, agentVars
<1>3. CASE ObserveShutdown
  BY <1>3, AgentType DEF ObserveShutdown, Agent, Agents, Running, Suspended, turnVars, agentVars
<1>4. CASE FinishShutdown
  BY <1>4, AgentType DEF FinishShutdown, Agent, Agents, Running, Suspended, turnVars, agentVars
<1>5. CASE ChannelRestart
  BY <1>5, AgentType DEF ChannelRestart, Agent, Agents, Running, Suspended, turnVars, agentVars
<1>6. ASSUME NEW t \in Turns, Send(t) PROVE TasksReachable'
  BY <1>6, AgentType DEF Send, Agent, Agents, Running, Suspended, turnVars, agentVars
<1>7. ASSUME NEW t \in Turns, Dispatch(t) PROVE TasksReachable'
  BY <1>7, AgentType DEF Dispatch, Agent, Agents, Running, Suspended, turnVars, agentVars
<1>8. ASSUME NEW t \in Turns, DropHeld(t) PROVE TasksReachable'
  BY <1>8, AgentType DEF DropHeld, Agent, Agents, Running, Suspended, turnVars, agentVars
<1>9. ASSUME NEW t \in Turns, Open(t) PROVE TasksReachable'
  BY <1>9, AgentType DEF Open, Agent, Agents, Running, Suspended, turnVars, agentVars
<1>10. ASSUME NEW t \in Turns, Fork(t) PROVE TasksReachable'
  BY <1>10, AgentType DEF Fork, Agent, Agents, Running, Suspended, turnVars, agentVars
<1>11. ASSUME NEW t \in Turns, BindLive(t) PROVE TasksReachable'
  BY <1>11, AgentType DEF BindLive, Agent, Agents, Running, Suspended, turnVars, agentVars
<1>12. ASSUME NEW t \in Turns, BindCancelled(t) PROVE TasksReachable'
  BY <1>12, AgentType DEF BindCancelled, Agent, Agents, Running, Suspended, turnVars, agentVars
<1>13. ASSUME NEW t \in Turns, RegisterCard(t) PROVE TasksReachable'
  BY <1>13, AgentType DEF RegisterCard, Agent, Agents, Running, Suspended, turnVars, agentVars
<1>14. ASSUME NEW t \in Turns, StartRun(t) PROVE TasksReachable'
  BY <1>14, AgentType DEF StartRun, Agent, Agents, Running, Suspended, turnVars, agentVars
<1>15. ASSUME NEW t \in Turns, InsertHandle(t) PROVE TasksReachable'
  BY <1>15, AgentType DEF InsertHandle, Agent, Agents, Running, Suspended, turnVars, agentVars
<1>16. ASSUME NEW t \in Turns, Settle(t) PROVE TasksReachable'
  BY <1>16, AgentType DEF Settle, Agent, Agents, Running, Suspended, turnVars, agentVars
<1>17. ASSUME NEW t \in Turns, TimeoutRun(t) PROVE TasksReachable'
  BY <1>17, AgentType DEF TimeoutRun, Agent, Agents, Running, Suspended, turnVars, agentVars
<1>18. ASSUME NEW t \in Turns, CleanUp(t) PROVE TasksReachable'
  BY <1>18, AgentType DEF CleanUp, Agent, Agents, Running, Suspended, turnVars, agentVars
<1>19. ASSUME NEW t \in Turns, Retry(t) PROVE TasksReachable'
  BY <1>19, AgentType DEF Retry, Agent, Agents, Running, Suspended, turnVars, agentVars
<1>20. ASSUME NEW t \in Turns, Return(t) PROVE TasksReachable'
  BY <1>20, AgentType DEF Return, Agent, Agents, Running, Suspended, turnVars, agentVars
<1>21. ASSUME NEW t \in Turns, DropFuture(t) PROVE TasksReachable'
  BY <1>21, AgentType DEF DropFuture, Agent, Agents, Running, Suspended, turnVars, agentVars
<1>22. ASSUME NEW t \in Turns, Answer(t) PROVE TasksReachable'
  BY <1>22, AgentType DEF Answer, Agent, Agents, Running, Suspended, turnVars, agentVars
<1>23. ASSUME NEW t \in Turns, Close(t) PROVE TasksReachable'
  BY <1>23, AgentType DEF Close, Agent, Agents, Running, Suspended, turnVars, agentVars
<1>24. ASSUME NEW t \in Turns, CloseCancelled(t) PROVE TasksReachable'
  BY <1>24, AgentType DEF CloseCancelled, Agent, Agents, Running, Suspended, turnVars, agentVars
<1>25. ASSUME NEW t \in Turns, NotifyCancelled(t) PROVE TasksReachable'
  BY <1>25, AgentType DEF NotifyCancelled, Agent, Agents, Running, Suspended, turnVars, agentVars
<1>26. ASSUME NEW k \in Keys, Cancel(k) PROVE TasksReachable'
  BY <1>26, AgentType DEF Cancel, Agent, Agents, Running, Suspended, turnVars, agentVars
<1>27. ASSUME NEW b \in Agents, TaskFinish(b) PROVE TasksReachable'
  BY <1>27, AgentType DEF TaskFinish, Agent, Agents, Running, Suspended, turnVars, agentVars
<1>28. ASSUME NEW b \in Agents, KillAgent(b) PROVE TasksReachable'
  BY <1>28, AgentType DEF KillAgent, Agent, Agents, Running, Suspended, turnVars, agentVars
<1>29. ASSUME NEW b \in Agents, KillAbort(b) PROVE TasksReachable'
  BY <1>29, AgentType DEF KillAbort, Agent, Agents, Running, Suspended, turnVars, agentVars
<1>30. ASSUME NEW b \in Agents, KillMark(b) PROVE TasksReachable'
  BY <1>30, AgentType DEF KillMark, Agent, Agents, Running, Suspended, turnVars, agentVars
<1>31. CASE UNCHANGED vars
  BY <1>31, AgentType DEF vars, Agent, Agents, Running, Suspended, turnVars, agentVars
<1>32. QED
  BY <1>1, <1>2, <1>3, <1>4, <1>5, <1>6, <1>7, <1>8, <1>9, <1>10,
     <1>11, <1>12, <1>13, <1>14, <1>15, <1>16, <1>17, <1>18, <1>19,
     <1>20, <1>21, <1>22, <1>23, <1>24, <1>25, <1>26, <1>27, <1>28,
     <1>29, <1>30, <1>31
     DEF Next, Loop, DispatchTask

\* A kill is of an agent in the table, and the table is of agents that were
\* forked (fork_directive, bind_agent).
LEMMA KnownStep ==
  ASSUME TypeOK, InboxQueued, Started, NoStaleEntry, KnownAgents, [Next]_vars
  PROVE  KnownAgents'
<1> USE DEF TypeOK, InboxQueued, KnownAgents, Goto
<1>1. CASE Receive
  BY <1>1, AgentType DEF Receive, Agent, Agents, Running, Killable, CloseKey, Suspended, turnVars, agentVars, regVars
<1>2. CASE RequestShutdown
  BY <1>2, AgentType DEF RequestShutdown, Agent, Agents, Running, Killable, CloseKey, Suspended, turnVars, agentVars, regVars
<1>3. CASE ObserveShutdown
  BY <1>3, AgentType DEF ObserveShutdown, Agent, Agents, Running, Killable, CloseKey, Suspended, turnVars, agentVars, regVars
<1>4. CASE FinishShutdown
  BY <1>4, AgentType DEF FinishShutdown, Agent, Agents, Running, Killable, CloseKey, Suspended, turnVars, agentVars, regVars
<1>5. CASE ChannelRestart
  BY <1>5, AgentType DEF ChannelRestart, Agent, Agents, Running, Killable, CloseKey, Suspended, turnVars, agentVars, regVars
<1>6. ASSUME NEW t \in Turns, Send(t) PROVE KnownAgents'
  BY <1>6, AgentType DEF Send, Agent, Agents, Running, Killable, CloseKey, Suspended, turnVars, agentVars, regVars
<1>7. ASSUME NEW t \in Turns, Dispatch(t) PROVE KnownAgents'
  BY <1>7, AgentType DEF Dispatch, Agent, Agents, Running, Killable, CloseKey, Suspended, turnVars, agentVars, regVars
<1>8. ASSUME NEW t \in Turns, DropHeld(t) PROVE KnownAgents'
  BY <1>8, AgentType DEF DropHeld, Agent, Agents, Running, Killable, CloseKey, Suspended, turnVars, agentVars, regVars
<1>9. ASSUME NEW t \in Turns, Open(t) PROVE KnownAgents'
  BY <1>9, AgentType DEF Open, Agent, Agents, Running, Killable, CloseKey, Suspended, turnVars, agentVars, regVars
<1>10. ASSUME NEW t \in Turns, Fork(t) PROVE KnownAgents'
  BY <1>10, AgentType DEF Fork, Agent, Agents, Running, Killable, CloseKey, Suspended, turnVars, agentVars, regVars
<1>11. ASSUME NEW t \in Turns, BindLive(t) PROVE KnownAgents'
  BY <1>11, AgentType DEF BindLive, Agent, Agents, Running, Killable, CloseKey, Suspended, turnVars, agentVars, regVars
<1>12. ASSUME NEW t \in Turns, BindCancelled(t) PROVE KnownAgents'
  BY <1>12, AgentType DEF BindCancelled, Agent, Agents, Running, Killable, CloseKey, Suspended, turnVars, agentVars, regVars
<1>13. ASSUME NEW t \in Turns, RegisterCard(t) PROVE KnownAgents'
  BY <1>13, AgentType DEF RegisterCard, Agent, Agents, Running, Killable, CloseKey, Suspended, turnVars, agentVars, regVars
<1>14. ASSUME NEW t \in Turns, StartRun(t) PROVE KnownAgents'
  BY <1>14, AgentType DEF StartRun, Agent, Agents, Running, Killable, CloseKey, Suspended, turnVars, agentVars, regVars
<1>15. ASSUME NEW t \in Turns, InsertHandle(t) PROVE KnownAgents'
  BY <1>15, AgentType DEF InsertHandle, Agent, Agents, Running, Killable, CloseKey, Suspended, turnVars, agentVars, regVars
<1>16. ASSUME NEW t \in Turns, Settle(t) PROVE KnownAgents'
  BY <1>16, AgentType DEF Settle, Agent, Agents, Running, Killable, CloseKey, Suspended, turnVars, agentVars, regVars
<1>17. ASSUME NEW t \in Turns, TimeoutRun(t) PROVE KnownAgents'
  BY <1>17, AgentType DEF TimeoutRun, Agent, Agents, Running, Killable, CloseKey, Suspended, turnVars, agentVars, regVars
<1>18. ASSUME NEW t \in Turns, CleanUp(t) PROVE KnownAgents'
  BY <1>18, AgentType DEF CleanUp, Agent, Agents, Running, Killable, CloseKey, Suspended, turnVars, agentVars, regVars
<1>19. ASSUME NEW t \in Turns, Retry(t) PROVE KnownAgents'
  BY <1>19, AgentType DEF Retry, Agent, Agents, Running, Killable, CloseKey, Suspended, turnVars, agentVars, regVars
<1>20. ASSUME NEW t \in Turns, Return(t) PROVE KnownAgents'
  BY <1>20, AgentType DEF Return, Agent, Agents, Running, Killable, CloseKey, Suspended, turnVars, agentVars, regVars
<1>21. ASSUME NEW t \in Turns, DropFuture(t) PROVE KnownAgents'
  BY <1>21, AgentType DEF DropFuture, Agent, Agents, Running, Killable, CloseKey, Suspended, turnVars, agentVars, regVars
<1>22. ASSUME NEW t \in Turns, Answer(t) PROVE KnownAgents'
  BY <1>22, AgentType DEF Answer, Agent, Agents, Running, Killable, CloseKey, Suspended, turnVars, agentVars, regVars
<1>23. ASSUME NEW t \in Turns, Close(t) PROVE KnownAgents'
  BY <1>23, AgentType DEF Close, Agent, Agents, Running, Killable, CloseKey, Suspended, turnVars, agentVars, regVars
<1>24. ASSUME NEW t \in Turns, CloseCancelled(t) PROVE KnownAgents'
  BY <1>24, AgentType DEF CloseCancelled, Agent, Agents, Running, Killable, CloseKey, Suspended, turnVars, agentVars, regVars
<1>25. ASSUME NEW t \in Turns, NotifyCancelled(t) PROVE KnownAgents'
  BY <1>25, AgentType DEF NotifyCancelled, Agent, Agents, Running, Killable, CloseKey, Suspended, turnVars, agentVars, regVars
<1>26. ASSUME NEW k \in Keys, Cancel(k) PROVE KnownAgents'
  BY <1>26, AgentType DEF Cancel, Agent, Agents, Running, Killable, CloseKey, Suspended, turnVars, agentVars, regVars
<1>27. ASSUME NEW b \in Agents, TaskFinish(b) PROVE KnownAgents'
  BY <1>27, AgentType DEF TaskFinish, Agent, Agents, Running, Killable, CloseKey, Suspended, turnVars, agentVars, regVars
<1>28. ASSUME NEW b \in Agents, KillAgent(b) PROVE KnownAgents'
  BY <1>28, AgentType DEF KillAgent, Agent, Agents, Running, Killable, CloseKey, Suspended, turnVars, agentVars, regVars
<1>29. ASSUME NEW b \in Agents, KillAbort(b) PROVE KnownAgents'
  BY <1>29, AgentType DEF KillAbort, Agent, Agents, Running, Killable, CloseKey, Suspended, turnVars, agentVars, regVars
<1>30. ASSUME NEW b \in Agents, KillMark(b) PROVE KnownAgents'
  BY <1>30, AgentType DEF KillMark, Agent, Agents, Running, Killable, CloseKey, Suspended, turnVars, agentVars, regVars
<1>31. CASE UNCHANGED vars
  BY <1>31, AgentType DEF vars, Agent, Agents, Running, Killable, CloseKey, Suspended, turnVars, agentVars, regVars
<1>32. QED
  BY <1>1, <1>2, <1>3, <1>4, <1>5, <1>6, <1>7, <1>8, <1>9, <1>10,
     <1>11, <1>12, <1>13, <1>14, <1>15, <1>16, <1>17, <1>18, <1>19,
     <1>20, <1>21, <1>22, <1>23, <1>24, <1>25, <1>26, <1>27, <1>28,
     <1>29, <1>30, <1>31
     DEF Next, Loop, DispatchTask

\* The agent of an attempt is new, and its task is not spawned before StartRun
\* (run_with_directive).
LEMMA WaitStep ==
  ASSUME TypeOK, InboxQueued, Started, Fresh, WaitsToRun, [Next]_vars
  PROVE  WaitsToRun'
<1> USE DEF TypeOK, InboxQueued, Fresh, WaitsToRun, Goto
<1>1. CASE Receive
  BY <1>1, AgentType DEF Receive, Agent, Agents, Running, Suspended, turnVars, agentVars
<1>2. CASE RequestShutdown
  BY <1>2, AgentType DEF RequestShutdown, Agent, Agents, Running, Suspended, turnVars, agentVars
<1>3. CASE ObserveShutdown
  BY <1>3, AgentType DEF ObserveShutdown, Agent, Agents, Running, Suspended, turnVars, agentVars
<1>4. CASE FinishShutdown
  BY <1>4, AgentType DEF FinishShutdown, Agent, Agents, Running, Suspended, turnVars, agentVars
<1>5. CASE ChannelRestart
  BY <1>5, AgentType DEF ChannelRestart, Agent, Agents, Running, Suspended, turnVars, agentVars
<1>6. ASSUME NEW t \in Turns, Send(t) PROVE WaitsToRun'
  BY <1>6, AgentType DEF Send, Agent, Agents, Running, Suspended, turnVars, agentVars
<1>7. ASSUME NEW t \in Turns, Dispatch(t) PROVE WaitsToRun'
  BY <1>7, AgentType DEF Dispatch, Agent, Agents, Running, Suspended, turnVars, agentVars
<1>8. ASSUME NEW t \in Turns, DropHeld(t) PROVE WaitsToRun'
  BY <1>8, AgentType DEF DropHeld, Agent, Agents, Running, Suspended, turnVars, agentVars
<1>9. ASSUME NEW t \in Turns, Open(t) PROVE WaitsToRun'
  BY <1>9, AgentType DEF Open, Agent, Agents, Running, Suspended, turnVars, agentVars
<1>10. ASSUME NEW t \in Turns, Fork(t) PROVE WaitsToRun'
  <2>1. /\ pc' = [pc EXCEPT ![t] = "forked"] /\ task' = task
        /\ attempts' = [attempts EXCEPT ![t] = attempts[t] + 1]
        /\ attempts[t] \in 0 .. MaxAttempts /\ attempts[t] < MaxAttempts
    BY <1>10 DEF Fork
  <2>2. task[<<t, attempts[t] + 1>>] = "none"
    BY <2>1, ConstantsAssumption DEF Agents
  <2>3. Agent(t)' = <<t, attempts[t] + 1>>
    BY <2>1 DEF Agent
  <2>4. \A v \in Turns \ {t} : Agent(v)' = Agent(v) /\ pc'[v] = pc[v]
    BY <2>1 DEF Agent
  <2> SUFFICES ASSUME NEW v \in Turns, pc'[v] \in {"forked", "bound", "carded"}
               PROVE  task'[Agent(v)'] = "none"
    OBVIOUS
  <2>5. CASE v = t
    BY <2>1, <2>2, <2>3, <2>5
  <2>6. CASE v # t
    <3>1. Agent(v)' = Agent(v) /\ pc[v] \in {"forked", "bound", "carded"}
      BY <2>4, <2>6
    <3>2. QED
      BY <2>1, <3>1, Zenon
  <2>7. QED
    BY <2>5, <2>6
<1>11. ASSUME NEW t \in Turns, BindLive(t) PROVE WaitsToRun'
  BY <1>11, AgentType DEF BindLive, Agent, Agents, Running, Suspended, turnVars, agentVars
<1>12. ASSUME NEW t \in Turns, BindCancelled(t) PROVE WaitsToRun'
  BY <1>12, AgentType DEF BindCancelled, Agent, Agents, Running, Suspended, turnVars, agentVars
<1>13. ASSUME NEW t \in Turns, RegisterCard(t) PROVE WaitsToRun'
  BY <1>13, AgentType DEF RegisterCard, Agent, Agents, Running, Suspended, turnVars, agentVars
<1>14. ASSUME NEW t \in Turns, StartRun(t) PROVE WaitsToRun'
  BY <1>14, AgentType DEF StartRun, Agent, Agents, Running, Suspended, turnVars, agentVars
<1>15. ASSUME NEW t \in Turns, InsertHandle(t) PROVE WaitsToRun'
  BY <1>15, AgentType DEF InsertHandle, Agent, Agents, Running, Suspended, turnVars, agentVars
<1>16. ASSUME NEW t \in Turns, Settle(t) PROVE WaitsToRun'
  BY <1>16, AgentType DEF Settle, Agent, Agents, Running, Suspended, turnVars, agentVars
<1>17. ASSUME NEW t \in Turns, TimeoutRun(t) PROVE WaitsToRun'
  BY <1>17, AgentType DEF TimeoutRun, Agent, Agents, Running, Suspended, turnVars, agentVars
<1>18. ASSUME NEW t \in Turns, CleanUp(t) PROVE WaitsToRun'
  BY <1>18, AgentType DEF CleanUp, Agent, Agents, Running, Suspended, turnVars, agentVars
<1>19. ASSUME NEW t \in Turns, Retry(t) PROVE WaitsToRun'
  BY <1>19, AgentType DEF Retry, Agent, Agents, Running, Suspended, turnVars, agentVars
<1>20. ASSUME NEW t \in Turns, Return(t) PROVE WaitsToRun'
  BY <1>20, AgentType DEF Return, Agent, Agents, Running, Suspended, turnVars, agentVars
<1>21. ASSUME NEW t \in Turns, DropFuture(t) PROVE WaitsToRun'
  BY <1>21, AgentType DEF DropFuture, Agent, Agents, Running, Suspended, turnVars, agentVars
<1>22. ASSUME NEW t \in Turns, Answer(t) PROVE WaitsToRun'
  BY <1>22, AgentType DEF Answer, Agent, Agents, Running, Suspended, turnVars, agentVars
<1>23. ASSUME NEW t \in Turns, Close(t) PROVE WaitsToRun'
  BY <1>23, AgentType DEF Close, Agent, Agents, Running, Suspended, turnVars, agentVars
<1>24. ASSUME NEW t \in Turns, CloseCancelled(t) PROVE WaitsToRun'
  BY <1>24, AgentType DEF CloseCancelled, Agent, Agents, Running, Suspended, turnVars, agentVars
<1>25. ASSUME NEW t \in Turns, NotifyCancelled(t) PROVE WaitsToRun'
  BY <1>25, AgentType DEF NotifyCancelled, Agent, Agents, Running, Suspended, turnVars, agentVars
<1>26. ASSUME NEW k \in Keys, Cancel(k) PROVE WaitsToRun'
  BY <1>26, AgentType DEF Cancel, Agent, Agents, Running, Suspended, turnVars, agentVars
<1>27. ASSUME NEW b \in Agents, TaskFinish(b) PROVE WaitsToRun'
  BY <1>27, AgentType DEF TaskFinish, Agent, Agents, Running, Suspended, turnVars, agentVars
<1>28. ASSUME NEW b \in Agents, KillAgent(b) PROVE WaitsToRun'
  BY <1>28, AgentType DEF KillAgent, Agent, Agents, Running, Suspended, turnVars, agentVars
<1>29. ASSUME NEW b \in Agents, KillAbort(b) PROVE WaitsToRun'
  BY <1>29, AgentType DEF KillAbort, Agent, Agents, Running, Suspended, turnVars, agentVars
<1>30. ASSUME NEW b \in Agents, KillMark(b) PROVE WaitsToRun'
  BY <1>30, AgentType DEF KillMark, Agent, Agents, Running, Suspended, turnVars, agentVars
<1>31. CASE UNCHANGED vars
  BY <1>31, AgentType DEF vars, Agent, Agents, Running, Suspended, turnVars, agentVars
<1>32. QED
  BY <1>1, <1>2, <1>3, <1>4, <1>5, <1>6, <1>7, <1>8, <1>9, <1>10,
     <1>11, <1>12, <1>13, <1>14, <1>15, <1>16, <1>17, <1>18, <1>19,
     <1>20, <1>21, <1>22, <1>23, <1>24, <1>25, <1>26, <1>27, <1>28,
     <1>29, <1>30, <1>31
     DEF Next, Loop, DispatchTask

\* What is at rest past its window stays at rest: a retry forks another agent
\* (fork_directive draws a fresh id) and only that one is run.
LEMMA SpentStep ==
  ASSUME TypeOK, InboxQueued, Started, [Next]_vars, NEW a \in Agents, Spent(a)
  PROVE  Spent(a)'
<1> USE DEF TypeOK, InboxQueued, Spent, Handleless, Goto
<1>1. CASE Receive
  BY <1>1, AgentType DEF Receive, Agent, Agents, Running, Suspended, turnVars, agentVars
<1>2. CASE RequestShutdown
  BY <1>2, AgentType DEF RequestShutdown, Agent, Agents, Running, Suspended, turnVars, agentVars
<1>3. CASE ObserveShutdown
  BY <1>3, AgentType DEF ObserveShutdown, Agent, Agents, Running, Suspended, turnVars, agentVars
<1>4. CASE FinishShutdown
  BY <1>4, AgentType DEF FinishShutdown, Agent, Agents, Running, Suspended, turnVars, agentVars
<1>5. CASE ChannelRestart
  BY <1>5, AgentType DEF ChannelRestart, Agent, Agents, Running, Suspended, turnVars, agentVars
<1>6. ASSUME NEW t \in Turns, Send(t) PROVE Spent(a)'
  BY <1>6, AgentType DEF Send, Agent, Agents, Running, Suspended, turnVars, agentVars
<1>7. ASSUME NEW t \in Turns, Dispatch(t) PROVE Spent(a)'
  BY <1>7, AgentType DEF Dispatch, Agent, Agents, Running, Suspended, turnVars, agentVars
<1>8. ASSUME NEW t \in Turns, DropHeld(t) PROVE Spent(a)'
  BY <1>8, AgentType DEF DropHeld, Agent, Agents, Running, Suspended, turnVars, agentVars
<1>9. ASSUME NEW t \in Turns, Open(t) PROVE Spent(a)'
  BY <1>9, AgentType DEF Open, Agent, Agents, Running, Suspended, turnVars, agentVars
<1>10. ASSUME NEW t \in Turns, Fork(t) PROVE Spent(a)'
  BY <1>10, AgentType DEF Fork, Agent, Agents, Running, Suspended, turnVars, agentVars
<1>11. ASSUME NEW t \in Turns, BindLive(t) PROVE Spent(a)'
  BY <1>11, AgentType DEF BindLive, Agent, Agents, Running, Suspended, turnVars, agentVars
<1>12. ASSUME NEW t \in Turns, BindCancelled(t) PROVE Spent(a)'
  BY <1>12, AgentType DEF BindCancelled, Agent, Agents, Running, Suspended, turnVars, agentVars
<1>13. ASSUME NEW t \in Turns, RegisterCard(t) PROVE Spent(a)'
  BY <1>13, AgentType DEF RegisterCard, Agent, Agents, Running, Suspended, turnVars, agentVars
<1>14. ASSUME NEW t \in Turns, StartRun(t) PROVE Spent(a)'
  BY <1>14, AgentType DEF StartRun, Agent, Agents, Running, Suspended, turnVars, agentVars
<1>15. ASSUME NEW t \in Turns, InsertHandle(t) PROVE Spent(a)'
  BY <1>15, AgentType DEF InsertHandle, Agent, Agents, Running, Suspended, turnVars, agentVars
<1>16. ASSUME NEW t \in Turns, Settle(t) PROVE Spent(a)'
  BY <1>16, AgentType DEF Settle, Agent, Agents, Running, Suspended, turnVars, agentVars
<1>17. ASSUME NEW t \in Turns, TimeoutRun(t) PROVE Spent(a)'
  BY <1>17, AgentType DEF TimeoutRun, Agent, Agents, Running, Suspended, turnVars, agentVars
<1>18. ASSUME NEW t \in Turns, CleanUp(t) PROVE Spent(a)'
  BY <1>18, AgentType DEF CleanUp, Agent, Agents, Running, Suspended, turnVars, agentVars
<1>19. ASSUME NEW t \in Turns, Retry(t) PROVE Spent(a)'
  BY <1>19, AgentType DEF Retry, Agent, Agents, Running, Suspended, turnVars, agentVars
<1>20. ASSUME NEW t \in Turns, Return(t) PROVE Spent(a)'
  BY <1>20, AgentType DEF Return, Agent, Agents, Running, Suspended, turnVars, agentVars
<1>21. ASSUME NEW t \in Turns, DropFuture(t) PROVE Spent(a)'
  BY <1>21, AgentType DEF DropFuture, Agent, Agents, Running, Suspended, turnVars, agentVars
<1>22. ASSUME NEW t \in Turns, Answer(t) PROVE Spent(a)'
  BY <1>22, AgentType DEF Answer, Agent, Agents, Running, Suspended, turnVars, agentVars
<1>23. ASSUME NEW t \in Turns, Close(t) PROVE Spent(a)'
  BY <1>23, AgentType DEF Close, Agent, Agents, Running, Suspended, turnVars, agentVars
<1>24. ASSUME NEW t \in Turns, CloseCancelled(t) PROVE Spent(a)'
  BY <1>24, AgentType DEF CloseCancelled, Agent, Agents, Running, Suspended, turnVars, agentVars
<1>25. ASSUME NEW t \in Turns, NotifyCancelled(t) PROVE Spent(a)'
  BY <1>25, AgentType DEF NotifyCancelled, Agent, Agents, Running, Suspended, turnVars, agentVars
<1>26. ASSUME NEW k \in Keys, Cancel(k) PROVE Spent(a)'
  BY <1>26, AgentType DEF Cancel, Agent, Agents, Running, Suspended, turnVars, agentVars
<1>27. ASSUME NEW b \in Agents, TaskFinish(b) PROVE Spent(a)'
  BY <1>27, AgentType DEF TaskFinish, Agent, Agents, Running, Suspended, turnVars, agentVars
<1>28. ASSUME NEW b \in Agents, KillAgent(b) PROVE Spent(a)'
  BY <1>28, AgentType DEF KillAgent, Agent, Agents, Running, Suspended, turnVars, agentVars
<1>29. ASSUME NEW b \in Agents, KillAbort(b) PROVE Spent(a)'
  BY <1>29, AgentType DEF KillAbort, Agent, Agents, Running, Suspended, turnVars, agentVars
<1>30. ASSUME NEW b \in Agents, KillMark(b) PROVE Spent(a)'
  BY <1>30, AgentType DEF KillMark, Agent, Agents, Running, Suspended, turnVars, agentVars
<1>31. CASE UNCHANGED vars
  BY <1>31, AgentType DEF vars, Agent, Agents, Running, Suspended, turnVars, agentVars
<1>32. QED
  BY <1>1, <1>2, <1>3, <1>4, <1>5, <1>6, <1>7, <1>8, <1>9, <1>10,
     <1>11, <1>12, <1>13, <1>14, <1>15, <1>16, <1>17, <1>18, <1>19,
     <1>20, <1>21, <1>22, <1>23, <1>24, <1>25, <1>26, <1>27, <1>28,
     <1>29, <1>30, <1>31
     DEF Next, Loop, DispatchTask

\* A kill that aborts outside the window, or that bind_agent makes before the
\* agent is run, has stopped its agent.
LEMMA HoldStep ==
  ASSUME TypeOK, InboxQueued, Started, TasksReachable, KnownAgents, WaitsToRun, KillsHold,
         [Next]_vars, [LateKills]_vars
  PROVE  KillsHold'
<1> SUFFICES ASSUME NEW a \in Agents, killing'[a] \in {"mark", "killed"}
             PROVE  Spent(a)'
  BY DEF KillsHold
<1>1. CASE killing[a] \in {"mark", "killed"}
  BY <1>1, SpentStep DEF KillsHold
<1>2. CASE killing[a] \notin {"mark", "killed"}
  <2>1. \/ \E t \in Turns : BindCancelled(t)
        \/ \E b \in Agents : KillAbort(b) \/ KillMark(b)
    <3>1. killing' # killing
      BY <1>2
    <3>2. QED
      BY <1>2, <3>1
         DEF Next, Loop, DispatchTask, vars, agentVars, TypeOK, Receive, RequestShutdown,
             ObserveShutdown, FinishShutdown, ChannelRestart, Send, Dispatch, DropHeld,
             Open, Fork, BindLive, RegisterCard, StartRun, InsertHandle, Settle, TimeoutRun,
             CleanUp, Retry, Return, DropFuture, Close, CloseCancelled, NotifyCancelled,
             Answer, TaskFinish, Cancel, KillAgent
  <2>2. ASSUME NEW t \in Turns, BindCancelled(t) PROVE Spent(a)'
    <3>1. /\ a = Agent(t) /\ pc[t] = "forked" /\ Goto(t, "cleaning")
          /\ UNCHANGED <<attempts, task>>
      BY <1>2, <2>2, AgentType DEF BindCancelled, TypeOK, Running
    <3>2. task[a] # "running"
      BY <3>1 DEF WaitsToRun
    <3>3. QED
      BY <3>1, <3>2 DEF Spent, Handleless, Agent, Agents, Goto, TypeOK
  <2>3. ASSUME NEW b \in Agents, KillAbort(b) PROVE Spent(a)'
    <3>1. /\ b = a /\ killing[a] = "abort" /\ UNCHANGED <<pc, attempts>>
          /\ task' = IF a \in handles /\ task[a] = "running"
                     THEN [task EXCEPT ![a] = "aborted"] ELSE task
      BY <1>2, <2>3 DEF KillAbort, TypeOK, turnVars
    <3>2. ~Handleless(a)
      <4>1. killing' # killing
        BY <1>2
      <4>2. QED
        BY <4>1, <3>1, <2>3 DEF LateKills, vars, agentVars
    <3>3. task'[a] # "running"
      BY <3>1, <3>2 DEF TasksReachable, Handleless, TypeOK
    <3>4. a[2] <= attempts[a[1]]
      BY <3>1 DEF KnownAgents
    <3>5. QED
      BY <3>1, <3>2, <3>3, <3>4 DEF Spent, Handleless, Agent
  <2>4. ASSUME NEW b \in Agents, KillMark(b) PROVE Spent(a)'
    BY <1>2, <2>4 DEF KillMark, TypeOK
  <2>5. QED
    BY <2>1, <2>2, <2>3, <2>4
<1>3. QED
  BY <1>1, <1>2

\* what every step keeps, early kills or not
ReachInv == IInv /\ TasksReachable /\ KnownAgents /\ WaitsToRun

\* There is no agent at the start.
LEMMA InitReach == Init => ReachInv /\ KillsHold
<1> SUFFICES ASSUME Init PROVE TasksReachable /\ KnownAgents /\ WaitsToRun /\ KillsHold
  BY InitIInv DEF ReachInv
<1>1. QED
  BY DEF Init, TasksReachable, KnownAgents, WaitsToRun, KillsHold

\* Every step keeps running tasks in reach.
LEMMA NextReach == ReachInv /\ [Next]_vars => ReachInv'
BY NextIInv, ReachStep, KnownStep, WaitStep DEF ReachInv, IInv

\* a task that runs on after a kill can be killed again: but for one step of
\* run_with_directive, every running task has its handle in the table
THEOREM RunningTasksInReach == Spec => []TasksReachable
<1>1. Init => ReachInv
  BY InitReach
<1>2. ReachInv /\ [Next]_vars => ReachInv'
  BY NextReach
<1>3. ReachInv => TasksReachable
  BY DEF ReachInv
<1>4. QED
  BY <1>1, <1>2, <1>3, PTL DEF Spec

\* RFC-049 D2 is kept by every kill that is not too early: if none takes the
\* handles lock while the agent's handle is still to be stored, the task of a
\* killed agent does not run, then or ever after
THEOREM LateKillsStop == Spec /\ [][LateKills]_vars => []KilledAgentsStop
<1>1. Init => ReachInv /\ KillsHold
  BY InitReach
<1>2. ReachInv /\ KillsHold /\ [Next]_vars /\ [LateKills]_vars => (ReachInv /\ KillsHold)'
  BY NextReach, HoldStep DEF ReachInv, IInv
<1>3. KillsHold => KilledAgentsStop
  BY DEF KillsHold, KilledAgentsStop, Spent
<1>4. QED
  BY <1>1, <1>2, <1>3, PTL DEF Spec

-----------------------------------------------------------------------------
(* Why a turn under way may have no entry *)

\* the key of a turn that cannot be addressed was closed by another turn
HiddenByOther ==
  \A t \in Turns : pc[t] \in OpenTurn /\ entry[Key(t)] = None =>
    \E u \in Turns \ {t} : Key(u) = Key(t) /\ pc[u] \in {"notifying", "done"}

\* An entry goes only at the end of a turn with its key, and a turn that ended
\* does not come back (open, close).
LEMMA HiddenStep ==
  ASSUME TypeOK, InboxQueued, HiddenByOther, [Next]_vars
  PROVE  HiddenByOther'
<1> USE DEF TypeOK, InboxQueued, HiddenByOther, Goto
<1>1. CASE Receive
  <2>1. PICK h \in Turns : pc[h] = "queued" /\ pc' = [pc EXCEPT ![h] = "held"]
    <3>1. /\ inbox # <<>> /\ inbox \in Seq(Turns)
          /\ pc' = [pc EXCEPT ![Head(inbox)] = "held"]
      BY <1>1 DEF Receive
    <3>2. 1 \in DOMAIN inbox /\ Head(inbox) = inbox[1] /\ inbox[1] \in Turns
      BY <3>1
    <3>3. QED
      BY <3>1, <3>2
  <2>2. entry' = entry
    BY <1>1 DEF Receive, regVars
  <2>3. QED
    BY <2>1, <2>2, OpenNames
<1>2. CASE RequestShutdown
  BY <1>2, OpenNames, KeyType, ConstantsAssumption DEF RequestShutdown, CloseKey, Suspended, regVars, turnVars, loopVars
<1>3. CASE ObserveShutdown
  BY <1>3, OpenNames, KeyType, ConstantsAssumption DEF ObserveShutdown, CloseKey, Suspended, regVars, turnVars, loopVars
<1>4. CASE FinishShutdown
  BY <1>4, OpenNames, KeyType, ConstantsAssumption DEF FinishShutdown, CloseKey, Suspended, regVars, turnVars, loopVars
<1>5. CASE ChannelRestart
  BY <1>5, OpenNames, KeyType, ConstantsAssumption DEF ChannelRestart, CloseKey, Suspended, regVars, turnVars, loopVars
<1>6. ASSUME NEW t \in Turns, Send(t) PROVE HiddenByOther'
  BY <1>6, OpenNames, KeyType, ConstantsAssumption DEF Send, CloseKey, Suspended, regVars, turnVars, loopVars
<1>7. ASSUME NEW t \in Turns, Dispatch(t) PROVE HiddenByOther'
  BY <1>7, OpenNames, KeyType, ConstantsAssumption DEF Dispatch, CloseKey, Suspended, regVars, turnVars, loopVars
<1>8. ASSUME NEW t \in Turns, DropHeld(t) PROVE HiddenByOther'
  BY <1>8, OpenNames, KeyType, ConstantsAssumption DEF DropHeld, CloseKey, Suspended, regVars, turnVars, loopVars
<1>9. ASSUME NEW t \in Turns, Open(t) PROVE HiddenByOther'
  <2>1. /\ pc[t] = "accepted" /\ pc' = [pc EXCEPT ![t] = "planning"]
        /\ entry' = [entry EXCEPT ![Key(t)] = t]
    BY <1>9 DEF Open
  <2> SUFFICES ASSUME NEW v \in Turns, pc'[v] \in OpenTurn, entry'[Key(v)] = None
               PROVE  \E u \in Turns \ {v} : Key(u) = Key(v) /\ pc'[u] \in {"notifying", "done"}
    OBVIOUS
  <2>2. Key(v) # Key(t)
    BY <2>1, KeyType, ConstantsAssumption DEF Keys
  <2>3. v # t /\ pc[v] \in OpenTurn /\ entry[Key(v)] = None
    BY <2>1, <2>2, KeyType
  <2>4. PICK u \in Turns \ {v} : Key(u) = Key(v) /\ pc[u] \in {"notifying", "done"}
    BY <2>3
  <2>5. QED
    BY <2>1, <2>4
<1>10. ASSUME NEW t \in Turns, Fork(t) PROVE HiddenByOther'
  BY <1>10, OpenNames, KeyType, ConstantsAssumption DEF Fork, CloseKey, Suspended, regVars, turnVars, loopVars
<1>11. ASSUME NEW t \in Turns, BindLive(t) PROVE HiddenByOther'
  BY <1>11, OpenNames, KeyType, ConstantsAssumption DEF BindLive, CloseKey, Suspended, regVars, turnVars, loopVars
<1>12. ASSUME NEW t \in Turns, BindCancelled(t) PROVE HiddenByOther'
  BY <1>12, OpenNames, KeyType, ConstantsAssumption DEF BindCancelled, CloseKey, Suspended, regVars, turnVars, loopVars
<1>13. ASSUME NEW t \in Turns, RegisterCard(t) PROVE HiddenByOther'
  BY <1>13, OpenNames, KeyType, ConstantsAssumption DEF RegisterCard, CloseKey, Suspended, regVars, turnVars, loopVars
<1>14. ASSUME NEW t \in Turns, StartRun(t) PROVE HiddenByOther'
  BY <1>14, OpenNames, KeyType, ConstantsAssumption DEF StartRun, CloseKey, Suspended, regVars, turnVars, loopVars
<1>15. ASSUME NEW t \in Turns, InsertHandle(t) PROVE HiddenByOther'
  BY <1>15, OpenNames, KeyType, ConstantsAssumption DEF InsertHandle, CloseKey, Suspended, regVars, turnVars, loopVars
<1>16. ASSUME NEW t \in Turns, Settle(t) PROVE HiddenByOther'
  BY <1>16, OpenNames, KeyType, ConstantsAssumption DEF Settle, CloseKey, Suspended, regVars, turnVars, loopVars
<1>17. ASSUME NEW t \in Turns, TimeoutRun(t) PROVE HiddenByOther'
  BY <1>17, OpenNames, KeyType, ConstantsAssumption DEF TimeoutRun, CloseKey, Suspended, regVars, turnVars, loopVars
<1>18. ASSUME NEW t \in Turns, CleanUp(t) PROVE HiddenByOther'
  BY <1>18, OpenNames, KeyType, ConstantsAssumption DEF CleanUp, CloseKey, Suspended, regVars, turnVars, loopVars
<1>19. ASSUME NEW t \in Turns, Retry(t) PROVE HiddenByOther'
  BY <1>19, OpenNames, KeyType, ConstantsAssumption DEF Retry, CloseKey, Suspended, regVars, turnVars, loopVars
<1>20. ASSUME NEW t \in Turns, Return(t) PROVE HiddenByOther'
  BY <1>20, OpenNames, KeyType, ConstantsAssumption DEF Return, CloseKey, Suspended, regVars, turnVars, loopVars
<1>21. ASSUME NEW t \in Turns, DropFuture(t) PROVE HiddenByOther'
  <2>1. pc[t] \in OpenTurn /\ pc' = [pc EXCEPT ![t] = "cancelling"] /\ entry' = entry
    BY <1>21, OpenNames DEF DropFuture, Suspended, regVars
  <2>2. QED
    BY <2>1, OpenNames
<1>22. ASSUME NEW t \in Turns, Answer(t) PROVE HiddenByOther'
  BY <1>22, OpenNames, KeyType, ConstantsAssumption DEF Answer, CloseKey, Suspended, regVars, turnVars, loopVars
<1>23. ASSUME NEW t \in Turns, Close(t) PROVE HiddenByOther'
  BY <1>23, OpenNames, KeyType, ConstantsAssumption DEF Close, CloseKey, Suspended, regVars, turnVars, loopVars
<1>24. ASSUME NEW t \in Turns, CloseCancelled(t) PROVE HiddenByOther'
  BY <1>24, OpenNames, KeyType, ConstantsAssumption DEF CloseCancelled, CloseKey, Suspended, regVars, turnVars, loopVars
<1>25. ASSUME NEW t \in Turns, NotifyCancelled(t) PROVE HiddenByOther'
  BY <1>25, OpenNames, KeyType, ConstantsAssumption DEF NotifyCancelled, CloseKey, Suspended, regVars, turnVars, loopVars
<1>26. ASSUME NEW k \in Keys, Cancel(k) PROVE HiddenByOther'
  BY <1>26, OpenNames, KeyType, ConstantsAssumption DEF Cancel, CloseKey, Suspended, regVars, turnVars, loopVars
<1>27. ASSUME NEW a \in Agents, TaskFinish(a) PROVE HiddenByOther'
  BY <1>27, OpenNames, KeyType, ConstantsAssumption DEF TaskFinish, CloseKey, Suspended, regVars, turnVars, loopVars
<1>28. ASSUME NEW a \in Agents, KillAgent(a) PROVE HiddenByOther'
  BY <1>28, OpenNames, KeyType, ConstantsAssumption DEF KillAgent, CloseKey, Suspended, regVars, turnVars, loopVars
<1>29. ASSUME NEW a \in Agents, KillAbort(a) PROVE HiddenByOther'
  BY <1>29, OpenNames, KeyType, ConstantsAssumption DEF KillAbort, CloseKey, Suspended, regVars, turnVars, loopVars
<1>30. ASSUME NEW a \in Agents, KillMark(a) PROVE HiddenByOther'
  BY <1>30, OpenNames, KeyType, ConstantsAssumption DEF KillMark, CloseKey, Suspended, regVars, turnVars, loopVars
<1>31. CASE UNCHANGED vars
  BY <1>31, OpenNames, KeyType, ConstantsAssumption DEF vars, CloseKey, Suspended, regVars, turnVars, loopVars
<1>32. QED
  BY <1>1, <1>2, <1>3, <1>4, <1>5, <1>6, <1>7, <1>8, <1>9, <1>10,
     <1>11, <1>12, <1>13, <1>14, <1>15, <1>16, <1>17, <1>18, <1>19,
     <1>20, <1>21, <1>22, <1>23, <1>24, <1>25, <1>26, <1>27, <1>28,
     <1>29, <1>30, <1>31
     DEF Next, Loop, DispatchTask

\* a turn under way is missing from the registry only because a turn with the
\* same key came to its end before it
THEOREM OnlyOthersHide == Spec => []HiddenByOther
<1>1. Init => IInv /\ HiddenByOther
  BY InitIInv, OpenNames DEF Init, HiddenByOther
<1>2. IInv /\ HiddenByOther /\ [Next]_vars => (IInv /\ HiddenByOther)'
  BY NextIInv, HiddenStep DEF IInv
<1>3. QED
  BY <1>1, <1>2, PTL DEF Spec

\* a turn whose key is its own is addressable for cancellation from turns.open
\* to turns.close: what turn_registry.rs promises fails only in shared sessions
THEOREM AloneAddressable == DistinctKeys => (Spec => []InFlightAddressable)
<1> SUFFICES ASSUME DistinctKeys PROVE Spec => []InFlightAddressable
  OBVIOUS
<1>1. HiddenByOther => InFlightAddressable
  BY DEF HiddenByOther, InFlightAddressable, DistinctKeys
<1>2. QED
  BY <1>1, OnlyOthersHide, PTL

-----------------------------------------------------------------------------
(* Every turn has only so many steps left *)

\* what a place can still lead to without another fork
Rank(place) ==
  CASE place = "idle" -> 16      [] place = "queued" -> 15     [] place = "held" -> 14
    [] place = "accepted" -> 13  [] place = "forked" -> 12     [] place = "bound" -> 11
    [] place = "carded" -> 10    [] place = "started" -> 9     [] place = "awaiting" -> 8
    [] place = "cleaning" -> 7   [] place = "attempted" -> 6   [] place = "planning" -> 5
    [] place = "answering" -> 4  [] place = "closing" -> 3     [] place = "cancelling" -> 2
    [] place = "notifying" -> 1  [] place \in Ended -> 0

\* an attempt that is still to come is worth more than the way from "planning"
\* back to "forked"
Left(t) == 8 * (MaxAttempts - attempts[t]) + Rank(pc[t])

\* a turn that moves comes nearer to its end
Shrinks ==
  \A t \in Turns : pc'[t] # pc[t] \/ attempts'[t] # attempts[t] => Left(t)' < Left(t)

\* the ranks, one by one
LEMMA Ranks ==
  /\ Rank("idle") = 16 /\ Rank("queued") = 15 /\ Rank("held") = 14
  /\ Rank("accepted") = 13 /\ Rank("forked") = 12 /\ Rank("bound") = 11
  /\ Rank("carded") = 10 /\ Rank("started") = 9 /\ Rank("awaiting") = 8
  /\ Rank("cleaning") = 7 /\ Rank("attempted") = 6 /\ Rank("planning") = 5
  /\ Rank("answering") = 4 /\ Rank("closing") = 3 /\ Rank("cancelling") = 2
  /\ Rank("notifying") = 1 /\ Rank("done") = 0 /\ Rank("lost") = 0
BY DEF Rank, Ended

\* the places inside execute_directive
LEMMA RunningNames ==
  {"forked", "bound", "carded", "started", "awaiting", "cleaning"} \subseteq Places
BY DEF Places, Holding, OpenTurn, Running

\* every place has a rank
LEMMA RankType == \A p \in Places : Rank(p) \in 0 .. 16
BY Ranks DEF Places, Holding, OpenTurn, Running, Ended

\* what is left is never negative
LEMMA LeftType == TypeOK => \A t \in Turns : Left(t) \in Nat
<1> SUFFICES ASSUME TypeOK, NEW t \in Turns PROVE Left(t) \in Nat
  OBVIOUS
<1>1. attempts[t] \in 0 .. MaxAttempts /\ Rank(pc[t]) \in 0 .. 16
  BY RankType DEF TypeOK
<1>2. QED
  BY <1>1, ConstantsAssumption DEF Left

\* A turn that moves to a lower place with no fork comes nearer to its end.
LEMMA Lower ==
  ASSUME TypeOK, NEW t \in Turns, NEW p \in Places, Goto(t, p),
         Rank(p) < Rank(pc[t]), attempts' = attempts
  PROVE  Shrinks
<1>1. /\ Rank(p) \in 0 .. 16 /\ Rank(pc[t]) \in 0 .. 16
      /\ attempts[t] \in 0 .. MaxAttempts /\ pc'[t] = p
      /\ \A u \in Turns \ {t} : pc'[u] = pc[u]
  BY RankType DEF TypeOK, Goto
<1>2. Left(t)' < Left(t)
  BY <1>1, ConstantsAssumption DEF Left
<1>3. QED
  BY <1>1, <1>2 DEF Shrinks

\* A step that moves no turn changes nothing of what is left.
LEMMA Still == ASSUME pc' = pc, attempts' = attempts PROVE Shrinks
BY DEF Shrinks

\* Every step lowers what is left of the turns that it moves: a retry has spent
\* the attempt that it comes from, and only a fork begins one.
LEMMA ShrinkStep ==
  ASSUME TypeOK, InboxQueued, [Next]_vars
  PROVE  Shrinks
<1>1. CASE Receive
  <2>1. PICK h \in Turns : pc[h] = "queued" /\ Goto(h, "held")
    <3>1. inbox # <<>> /\ inbox \in Seq(Turns) /\ Goto(Head(inbox), "held")
      BY <1>1 DEF Receive, TypeOK
    <3>2. 1 \in DOMAIN inbox /\ Head(inbox) = inbox[1] /\ inbox[1] \in Turns
      BY <3>1
    <3>3. QED
      BY <3>1, <3>2 DEF InboxQueued
  <2>2. attempts' = attempts
    BY <1>1 DEF Receive
  <2>3. QED
    BY <2>1, <2>2, Lower, Ranks, PlaceNames
<1>2. CASE FinishShutdown
  <2> SUFFICES ASSUME NEW t \in Turns, pc'[t] # pc[t] \/ attempts'[t] # attempts[t]
               PROVE  Left(t)' < Left(t)
    BY DEF Shrinks
  <2>1. pc[t] = "queued" /\ pc'[t] = "lost" /\ attempts' = attempts
    BY <1>2 DEF FinishShutdown
  <2>2. attempts[t] \in 0 .. MaxAttempts
    BY DEF TypeOK
  <2>3. QED
    BY <2>1, <2>2, Ranks, ConstantsAssumption DEF Left
<1>3. ASSUME NEW t \in Turns, Fork(t) PROVE Shrinks
  <2>1. /\ pc[t] = "planning" /\ pc'[t] = "forked"
        /\ attempts[t] \in 0 .. MaxAttempts /\ attempts'[t] = attempts[t] + 1
        /\ \A u \in Turns \ {t} : pc'[u] = pc[u] /\ attempts'[u] = attempts[u]
    BY <1>3 DEF Fork, Goto, TypeOK
  <2>2. Left(t)' < Left(t)
    BY <2>1, Ranks, ConstantsAssumption DEF Left
  <2>3. QED
    BY <2>1, <2>2 DEF Shrinks
<1>4. ASSUME NEW t \in Turns, Send(t) PROVE Shrinks
  <2>1. pc[t] = "idle" /\ Goto(t, "queued") /\ attempts' = attempts
    BY <1>4 DEF Send
  <2>2. QED
    BY <2>1, Lower, Ranks, PlaceNames, RunningNames
<1>5. ASSUME NEW t \in Turns, Dispatch(t) PROVE Shrinks
  <2>1. pc[t] = "held" /\ Goto(t, "accepted") /\ attempts' = attempts
    BY <1>5 DEF Dispatch
  <2>2. QED
    BY <2>1, Lower, Ranks, PlaceNames, RunningNames
<1>6. ASSUME NEW t \in Turns, DropHeld(t) PROVE Shrinks
  <2>1. pc[t] = "held" /\ Goto(t, "lost") /\ attempts' = attempts
    BY <1>6 DEF DropHeld
  <2>2. QED
    BY <2>1, Lower, Ranks, PlaceNames, RunningNames
<1>7. ASSUME NEW t \in Turns, Open(t) PROVE Shrinks
  <2>1. pc[t] = "accepted" /\ Goto(t, "planning") /\ attempts' = attempts
    BY <1>7 DEF Open
  <2>2. QED
    BY <2>1, Lower, Ranks, PlaceNames, RunningNames
<1>8. ASSUME NEW t \in Turns, BindLive(t) PROVE Shrinks
  <2>1. pc[t] = "forked" /\ Goto(t, "bound") /\ attempts' = attempts
    BY <1>8 DEF BindLive
  <2>2. QED
    BY <2>1, Lower, Ranks, PlaceNames, RunningNames
<1>9. ASSUME NEW t \in Turns, BindCancelled(t) PROVE Shrinks
  <2>1. pc[t] = "forked" /\ Goto(t, "cleaning") /\ attempts' = attempts
    BY <1>9 DEF BindCancelled
  <2>2. QED
    BY <2>1, Lower, Ranks, PlaceNames, RunningNames
<1>10. ASSUME NEW t \in Turns, RegisterCard(t) PROVE Shrinks
  <2>1. pc[t] = "bound" /\ Goto(t, "carded") /\ attempts' = attempts
    BY <1>10 DEF RegisterCard
  <2>2. QED
    BY <2>1, Lower, Ranks, PlaceNames, RunningNames
<1>11. ASSUME NEW t \in Turns, StartRun(t) PROVE Shrinks
  <2>1. pc[t] = "carded" /\ Goto(t, "started") /\ attempts' = attempts
    BY <1>11 DEF StartRun
  <2>2. QED
    BY <2>1, Lower, Ranks, PlaceNames, RunningNames
<1>12. ASSUME NEW t \in Turns, InsertHandle(t) PROVE Shrinks
  <2>1. pc[t] = "started" /\ Goto(t, "awaiting") /\ attempts' = attempts
    BY <1>12 DEF InsertHandle
  <2>2. QED
    BY <2>1, Lower, Ranks, PlaceNames, RunningNames
<1>13. ASSUME NEW t \in Turns, Settle(t) PROVE Shrinks
  <2>1. pc[t] = "awaiting" /\ Goto(t, "cleaning") /\ attempts' = attempts
    BY <1>13 DEF Settle
  <2>2. QED
    BY <2>1, Lower, Ranks, PlaceNames, RunningNames
<1>14. ASSUME NEW t \in Turns, TimeoutRun(t) PROVE Shrinks
  <2>1. pc[t] = "awaiting" /\ Goto(t, "attempted") /\ attempts' = attempts
    BY <1>14 DEF TimeoutRun
  <2>2. QED
    BY <2>1, Lower, Ranks, PlaceNames, RunningNames
<1>15. ASSUME NEW t \in Turns, CleanUp(t) PROVE Shrinks
  <2>1. pc[t] = "cleaning" /\ Goto(t, "attempted") /\ attempts' = attempts
    BY <1>15 DEF CleanUp
  <2>2. QED
    BY <2>1, Lower, Ranks, PlaceNames, RunningNames
<1>16. ASSUME NEW t \in Turns, Retry(t) PROVE Shrinks
  <2>1. pc[t] = "attempted" /\ Goto(t, "planning") /\ attempts' = attempts
    BY <1>16 DEF Retry
  <2>2. QED
    BY <2>1, Lower, Ranks, PlaceNames, RunningNames
<1>17. ASSUME NEW t \in Turns, Return(t) PROVE Shrinks
  <2>1. pc[t] = "attempted" /\ Goto(t, "answering") /\ attempts' = attempts
    BY <1>17 DEF Return
  <2>2. QED
    BY <2>1, Lower, Ranks, PlaceNames, RunningNames
<1>18. ASSUME NEW t \in Turns, DropFuture(t) PROVE Shrinks
  <2>1. pc[t] \in Suspended /\ Goto(t, "cancelling") /\ attempts' = attempts
    BY <1>18 DEF DropFuture
  <2>2. Rank("cancelling") < Rank(pc[t])
    BY <2>1, Ranks DEF Suspended
  <2>3. QED
    BY <2>1, <2>2, Lower, PlaceNames
<1>19. ASSUME NEW t \in Turns, Answer(t) PROVE Shrinks
  <2>1. pc[t] = "answering" /\ Goto(t, "closing") /\ attempts' = attempts
    BY <1>19 DEF Answer
  <2>2. QED
    BY <2>1, Lower, Ranks, PlaceNames, RunningNames
<1>20. ASSUME NEW t \in Turns, Close(t) PROVE Shrinks
  <2>1. pc[t] = "closing" /\ Goto(t, "done") /\ attempts' = attempts
    BY <1>20 DEF Close
  <2>2. QED
    BY <2>1, Lower, Ranks, PlaceNames, RunningNames
<1>21. ASSUME NEW t \in Turns, CloseCancelled(t) PROVE Shrinks
  <2>1. pc[t] = "cancelling" /\ Goto(t, "notifying") /\ attempts' = attempts
    BY <1>21 DEF CloseCancelled
  <2>2. QED
    BY <2>1, Lower, Ranks, PlaceNames, RunningNames
<1>22. ASSUME NEW t \in Turns, NotifyCancelled(t) PROVE Shrinks
  <2>1. pc[t] = "notifying" /\ Goto(t, "done") /\ attempts' = attempts
    BY <1>22 DEF NotifyCancelled
  <2>2. QED
    BY <2>1, Lower, Ranks, PlaceNames, RunningNames
<1>23. CASE \/ RequestShutdown \/ ObserveShutdown \/ ChannelRestart
            \/ \E k \in Keys : Cancel(k)
            \/ \E a \in Agents : TaskFinish(a) \/ KillAgent(a) \/ KillAbort(a) \/ KillMark(a)
            \/ UNCHANGED vars
  BY <1>23, Still DEF RequestShutdown, ObserveShutdown, ChannelRestart, Cancel, TaskFinish,
     KillAgent, KillAbort, KillMark, vars, turnVars
<1>24. QED
  BY <1>1, <1>2, <1>3, <1>4, <1>5, <1>6, <1>7, <1>8, <1>9,
     <1>10, <1>11, <1>12, <1>13, <1>14, <1>15, <1>16,
     <1>17, <1>18, <1>19, <1>20, <1>21, <1>22, <1>23
     DEF Next, Loop, DispatchTask

\* the safety half of TurnEnds and CancelEnds: a turn comes nearer to its end
\* with each step that it takes, retries included, and no step of another turn,
\* of a kill or of the shutdown ever sends it back; it is the event loop's and
\* the dispatch tasks' fairness alone that TLC's runs add
THEOREM TurnsShrink == Spec => [][Shrinks /\ \A t \in Turns : Left(t) \in Nat]_vars
<1>1. IInv /\ [Next]_vars => [Shrinks /\ \A t \in Turns : Left(t) \in Nat]_vars
  BY ShrinkStep, LeftType DEF IInv
<1>2. QED
  BY <1>1, Ownership, PTL DEF Spec

-----------------------------------------------------------------------------
(* TurnLifecycle implements TurnService *)

phaseBar == [t \in Turns |-> Phase(pc[t])]
askedBar == {t \in Turns : cancelled[t]}

\* the phase of each place
LEMMA Phases ==
  /\ Phase("idle") = "idle" /\ Phase("queued") = "waiting" /\ Phase("held") = "waiting"
  /\ Phase("done") = "ended" /\ Phase("lost") = "lost"
  /\ \A p \in Holding : Phase(p) = "serving"
BY DEF Phase, Holding, OpenTurn, Running

\* which places a phase stands for
LEMMA PhaseOf ==
  ASSUME TypeOK, NEW t \in Turns
  PROVE  /\ Phase(pc[t]) = "serving" <=> pc[t] \in Holding
         /\ Phase(pc[t]) = "waiting" <=> pc[t] \in {"queued", "held"}
BY DEF TypeOK, Phase, Places, Holding, OpenTurn, Running, Ended

\* a turn that moves shows its new phase, and the others the one they had
LEMMA PhaseMoves ==
  ASSUME TypeOK, NEW t \in Turns, NEW place, Goto(t, place)
  PROVE  phaseBar' = [phaseBar EXCEPT ![t] = Phase(place)]
BY DEF TypeOK, Goto, phaseBar

\* moving between the places of a turn that has a permit is not seen
LEMMA PhaseStays ==
  ASSUME TypeOK, NEW t \in Turns, pc[t] \in Holding, NEW place \in Holding, Goto(t, place)
  PROVE  phaseBar' = phaseBar
BY Phases DEF TypeOK, Goto, phaseBar

\* what a quiet step leaves alone
LEMMA QuietStep ==
  ASSUME phaseBar' = phaseBar, UNCHANGED <<frame, cancelled, stopReq>>
  PROVE  UNCHANGED Service!vars
BY DEF phaseBar, Service!vars

\* the gateway starts where the service does
LEMMA InitRefines == Init => Service!Init
<1> SUFFICES ASSUME Init PROVE Service!Init
  OBVIOUS
<1> QED
  BY Phases DEF Init, Service!Init

\* every step of the gateway, the lifecycle manager, the supervisor and the
\* users is a step of the service or leaves what it shows alone
LEMMA StepRefines == IInv /\ [Next]_vars => [Service!Next]_Service!vars
<1> SUFFICES ASSUME IInv, [Next]_vars
             PROVE  [Service!Next]_Service!vars
  OBVIOUS
<1> USE DEF IInv
<1>1. CASE Receive
  <2>1. Head(inbox) \in Turns /\ pc[Head(inbox)] = "queued"
    BY <1>1 DEF Receive, InboxQueued, TypeOK
  <2>2. phaseBar' = [phaseBar EXCEPT ![Head(inbox)] = "waiting"]
    BY <1>1, <2>1, PhaseMoves, Phases DEF Receive
  <2>3. phaseBar' = phaseBar
    BY <2>1, <2>2, Phases DEF phaseBar
  <2>4. QED
    BY <1>1, <2>3, QuietStep DEF Receive, regVars
<1>2. CASE RequestShutdown
  BY <1>2 DEF RequestShutdown, turnVars, regVars, Service!Next, Service!Shutdown
<1>3. CASE ObserveShutdown
  BY <1>3 DEF ObserveShutdown, turnVars, regVars, Service!vars
<1>4. CASE FinishShutdown
  <2> DEFINE gone == {t \in Turns : pc[t] = "queued"}
  <2>1. stopReq
    BY <1>4 DEF FinishShutdown, Asked
  <2>2. gone \in SUBSET {t \in Turns : phaseBar[t] = "waiting"}
    BY Phases DEF phaseBar
  <2>3. phaseBar' = [t \in Turns |-> IF t \in gone THEN "lost" ELSE phaseBar[t]]
    BY <1>4, Phases DEF FinishShutdown, phaseBar
  <2>4. Service!Lose
    BY <1>4, <2>1, <2>2, <2>3 DEF FinishShutdown, regVars, phaseBar, Service!Lose
  <2>5. QED
    BY <2>4 DEF Service!Next
<1>5. CASE ChannelRestart
  BY <1>5 DEF ChannelRestart, turnVars, regVars, Service!vars
<1>6. ASSUME NEW t \in Turns, Send(t) PROVE [Service!Next]_Service!vars
  <2>1. phaseBar' = [phaseBar EXCEPT ![t] = "waiting"]
    BY <1>6, PhaseMoves, Phases DEF Send
  <2>2. Service!Submit(t)
    BY <1>6, <2>1, Phases DEF Send, regVars, phaseBar, Service!Submit
  <2>3. QED
    BY <2>2 DEF Service!Next
<1>7. ASSUME NEW t \in Turns, Dispatch(t) PROVE [Service!Next]_Service!vars
  <2>1. phaseBar' = [phaseBar EXCEPT ![t] = "serving"]
    BY <1>7, PhaseMoves, Phases DEF Dispatch, Holding
  <2>2. Service!Served = Permitted
    BY PhaseOf DEF Service!Served, Permitted
  <2>3. Cardinality(Permitted) < MaxRoutes
    <3>1. Cardinality(Permitted) \in Nat
      BY ConstantsAssumption, FS_Subset, FS_CardinalityType DEF Permitted
    <3>2. free \in Nat /\ free > 0 /\ free = MaxRoutes - Cardinality(Permitted)
      BY <1>7 DEF Dispatch, TypeOK, PermitAccounting
    <3>3. QED
      BY <3>1, <3>2, ConstantsAssumption
  <2>4. Service!Cardinality(Service!Served) < MaxRoutes
    <3>1. Service!Cardinality(Permitted) = Cardinality(Permitted)
      BY DEF Service!Cardinality, Cardinality
    <3>2. QED
      BY <2>2, <2>3, <3>1
  <2>5. phaseBar[t] = "waiting"
    BY <1>7, Phases DEF Dispatch, phaseBar
  <2>6. Service!Admit(t)
    BY <1>7, <2>1, <2>4, <2>5 DEF Dispatch, regVars, phaseBar, Service!Admit
  <2>7. QED
    BY <2>6 DEF Service!Next
<1>8. ASSUME NEW t \in Turns, DropHeld(t) PROVE [Service!Next]_Service!vars
  <2>1. phaseBar' = [phaseBar EXCEPT ![t] = "lost"]
    BY <1>8, PhaseMoves, Phases DEF DropHeld
  <2>2. {t} \in SUBSET {u \in Turns : phaseBar[u] = "waiting"}
    BY <1>8, Phases DEF DropHeld, phaseBar
  <2>3. phaseBar' = [u \in Turns |-> IF u \in {t} THEN "lost" ELSE phaseBar[u]]
    BY <2>1 DEF phaseBar
  <2>4. Service!Lose
    BY <1>8, <2>2, <2>3 DEF DropHeld, regVars, phaseBar, Service!Lose
  <2>5. QED
    BY <2>4 DEF Service!Next
<1>9. ASSUME NEW t \in Turns, Open(t) PROVE [Service!Next]_Service!vars
  <2>1. phaseBar' = phaseBar
    BY <1>9, PhaseStays DEF Open, Holding, OpenTurn, Running
  <2>2. QED
    BY <1>9, <2>1, QuietStep DEF Open, CloseKey, loopVars, regVars
<1>10. ASSUME NEW t \in Turns, Fork(t) PROVE [Service!Next]_Service!vars
  <2>1. phaseBar' = phaseBar
    BY <1>10, PhaseStays DEF Fork, Holding, OpenTurn, Running
  <2>2. QED
    BY <1>10, <2>1, QuietStep DEF Fork, CloseKey, loopVars, regVars
<1>11. ASSUME NEW t \in Turns, BindLive(t) PROVE [Service!Next]_Service!vars
  <2>1. phaseBar' = phaseBar
    BY <1>11, PhaseStays DEF BindLive, Holding, OpenTurn, Running
  <2>2. QED
    BY <1>11, <2>1, QuietStep DEF BindLive, CloseKey, loopVars, regVars
<1>12. ASSUME NEW t \in Turns, BindCancelled(t) PROVE [Service!Next]_Service!vars
  <2>1. phaseBar' = phaseBar
    BY <1>12, PhaseStays DEF BindCancelled, Holding, OpenTurn, Running
  <2>2. QED
    BY <1>12, <2>1, QuietStep DEF BindCancelled, CloseKey, loopVars, regVars
<1>13. ASSUME NEW t \in Turns, RegisterCard(t) PROVE [Service!Next]_Service!vars
  <2>1. phaseBar' = phaseBar
    BY <1>13, PhaseStays DEF RegisterCard, Holding, OpenTurn, Running
  <2>2. QED
    BY <1>13, <2>1, QuietStep DEF RegisterCard, CloseKey, loopVars, regVars
<1>14. ASSUME NEW t \in Turns, StartRun(t) PROVE [Service!Next]_Service!vars
  <2>1. phaseBar' = phaseBar
    BY <1>14, PhaseStays DEF StartRun, Holding, OpenTurn, Running
  <2>2. QED
    BY <1>14, <2>1, QuietStep DEF StartRun, CloseKey, loopVars, regVars
<1>15. ASSUME NEW t \in Turns, InsertHandle(t) PROVE [Service!Next]_Service!vars
  <2>1. phaseBar' = phaseBar
    BY <1>15, PhaseStays DEF InsertHandle, Holding, OpenTurn, Running
  <2>2. QED
    BY <1>15, <2>1, QuietStep DEF InsertHandle, CloseKey, loopVars, regVars
<1>16. ASSUME NEW t \in Turns, Settle(t) PROVE [Service!Next]_Service!vars
  <2>1. phaseBar' = phaseBar
    BY <1>16, PhaseStays DEF Settle, Holding, OpenTurn, Running
  <2>2. QED
    BY <1>16, <2>1, QuietStep DEF Settle, CloseKey, loopVars, regVars
<1>17. ASSUME NEW t \in Turns, TimeoutRun(t) PROVE [Service!Next]_Service!vars
  <2>1. phaseBar' = phaseBar
    BY <1>17, PhaseStays DEF TimeoutRun, Holding, OpenTurn, Running
  <2>2. QED
    BY <1>17, <2>1, QuietStep DEF TimeoutRun, CloseKey, loopVars, regVars
<1>18. ASSUME NEW t \in Turns, CleanUp(t) PROVE [Service!Next]_Service!vars
  <2>1. phaseBar' = phaseBar
    BY <1>18, PhaseStays DEF CleanUp, Holding, OpenTurn, Running
  <2>2. QED
    BY <1>18, <2>1, QuietStep DEF CleanUp, CloseKey, loopVars, regVars
<1>19. ASSUME NEW t \in Turns, Retry(t) PROVE [Service!Next]_Service!vars
  <2>1. phaseBar' = phaseBar
    BY <1>19, PhaseStays DEF Retry, Holding, OpenTurn, Running
  <2>2. QED
    BY <1>19, <2>1, QuietStep DEF Retry, CloseKey, loopVars, regVars
<1>20. ASSUME NEW t \in Turns, Return(t) PROVE [Service!Next]_Service!vars
  <2>1. phaseBar' = phaseBar
    BY <1>20, PhaseStays DEF Return, Holding, OpenTurn, Running
  <2>2. QED
    BY <1>20, <2>1, QuietStep DEF Return, CloseKey, loopVars, regVars
<1>21. ASSUME NEW t \in Turns, DropFuture(t) PROVE [Service!Next]_Service!vars
  <2>1. phaseBar' = phaseBar
    BY <1>21, PhaseStays DEF DropFuture, Holding, OpenTurn, Running, Suspended
  <2>2. QED
    BY <1>21, <2>1, QuietStep DEF DropFuture, CloseKey, loopVars, regVars
<1>22. ASSUME NEW t \in Turns, CloseCancelled(t) PROVE [Service!Next]_Service!vars
  <2>1. phaseBar' = phaseBar
    BY <1>22, PhaseStays DEF CloseCancelled, Holding, OpenTurn, Running
  <2>2. QED
    BY <1>22, <2>1, QuietStep DEF CloseCancelled, CloseKey, loopVars, regVars
<1>23. ASSUME NEW t \in Turns, Answer(t) PROVE [Service!Next]_Service!vars
  <2>1. phaseBar' = phaseBar
    BY <1>23, PhaseStays DEF Answer, Holding, OpenTurn
  <2>2. phaseBar[t] = "serving" /\ frame[t] = "none"
    BY <1>23, Phases DEF Answer, phaseBar, Holding, OpenTurn, FrameAtEnd
  <2>3. \E r \in Frames \ {"none"} :
          (r = "cancelled" => t \in askedBar) /\ frame' = [frame EXCEPT ![t] = r]
    BY <1>23 DEF Answer, Delivered, Frames
  <2>4. Service!Reply(t)
    BY <1>23, <2>1, <2>2, <2>3 DEF Answer, loopVars, regVars, phaseBar, askedBar, Service!Reply
  <2>5. QED
    BY <2>4 DEF Service!Next
<1>24. ASSUME NEW t \in Turns, NotifyCancelled(t) PROVE [Service!Next]_Service!vars
  <2>1. phaseBar' = [phaseBar EXCEPT ![t] = "ended"]
    BY <1>24, PhaseMoves, Phases DEF NotifyCancelled
  <2>2. phaseBar[t] = "serving" /\ frame[t] = "none"
    BY <1>24, Phases DEF NotifyCancelled, phaseBar, Holding, FrameAtEnd
  <2>3. \E r \in Frames \ {"none"} :
          (r = "cancelled" => t \in askedBar) /\ frame' = [frame EXCEPT ![t] = r]
    BY <1>24 DEF NotifyCancelled, Delivered, Frames, Asked, askedBar
  <2>4. Service!Reply(t)
    BY <1>24, <2>1, <2>2, <2>3 DEF NotifyCancelled, regVars, phaseBar, askedBar, Service!Reply
  <2>5. QED
    BY <2>4 DEF Service!Next
<1>25. ASSUME NEW t \in Turns, Close(t) PROVE [Service!Next]_Service!vars
  <2>1. phaseBar' = [phaseBar EXCEPT ![t] = "ended"]
    BY <1>25, PhaseMoves, Phases DEF Close
  <2>2. phaseBar[t] = "serving" /\ frame[t] # "none"
    BY <1>25, Phases DEF Close, phaseBar, Holding, OpenTurn, FrameAtEnd
  <2>3. Service!End(t)
    BY <1>25, <2>1, <2>2 DEF Close, CloseKey, phaseBar, Service!End
  <2>4. QED
    BY <2>3 DEF Service!Next
<1>26. ASSUME NEW k \in Keys, Cancel(k) PROVE [Service!Next]_Service!vars
  <2>1. PICK t \in Turns : t = entry[k] /\ pc[t] \in OpenTurn
    BY <1>26 DEF Cancel, TypeOK, NoStaleEntry
  <2>2. phaseBar[t] = "serving"
    BY <2>1, Phases DEF phaseBar, Holding
  <2>3. askedBar' = askedBar \cup {t}
    BY <1>26, <2>1 DEF Cancel, TypeOK, askedBar
  <2>4. Service!Ask(t)
    BY <1>26, <2>1, <2>2, <2>3 DEF Cancel, loopVars, turnVars, phaseBar, askedBar, Service!Ask
  <2>5. QED
    BY <2>4 DEF Service!Next
<1>27. ASSUME NEW a \in Agents, TaskFinish(a) PROVE [Service!Next]_Service!vars
  BY <1>27 DEF TaskFinish, loopVars, turnVars, regVars, Service!vars
<1>28. ASSUME NEW a \in Agents, KillAgent(a) PROVE [Service!Next]_Service!vars
  BY <1>28 DEF KillAgent, loopVars, turnVars, regVars, Service!vars
<1>29. ASSUME NEW a \in Agents, KillAbort(a) PROVE [Service!Next]_Service!vars
  BY <1>29 DEF KillAbort, loopVars, turnVars, regVars, Service!vars
<1>30. ASSUME NEW a \in Agents, KillMark(a) PROVE [Service!Next]_Service!vars
  BY <1>30 DEF KillMark, loopVars, turnVars, regVars, Service!vars
<1>31. CASE UNCHANGED vars
  BY <1>31 DEF vars, loopVars, turnVars, regVars, Service!vars
<1>32. QED
  BY <1>1, <1>2, <1>3, <1>4, <1>5, <1>6, <1>7, <1>8, <1>9, <1>10,
     <1>11, <1>12, <1>13, <1>14, <1>15, <1>16, <1>17, <1>18, <1>19,
     <1>20, <1>21, <1>22, <1>23, <1>24, <1>25, <1>26, <1>27, <1>28,
     <1>29, <1>30, <1>31
     DEF Next, Loop, DispatchTask

\* the gateway gives its users the service TurnService describes, for any
\* number of turns, sessions, permits and attempts
THEOREM Refinement == Spec => ImplementsService
<1>1. Init => Service!Init
  BY InitRefines
<1>2. IInv /\ [Next]_vars => [Service!Next]_Service!vars
  BY StepRefines
<1>3. QED
  BY <1>1, <1>2, Ownership, PTL DEF Spec, ImplementsService, Service!Spec
=============================================================================
