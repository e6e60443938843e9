------------------------------ MODULE DaemonProofs ------------------------------
(***************************************************************************)
(* Proofs about the automations, the supervisor and the daemon made of     *)
(* them, for any automations, runs, loops, ceilings, gates and budgets.    *)
(*                                                                         *)
(* The schedule's invariant is inductive with the types.  That a success   *)
(* is verified needs to know what the gate has seen at every phase         *)
(* (Judged), that runs are counted and that open rows are live what the    *)
(* row of a run says of its definition (RowsMatch), that restarts are      *)
(* bounded how far the budget is spent while one is pending (Spending).    *)
(***************************************************************************)
EXTENDS Daemon, FiniteSetTheorems, TLAPS

\* Where next_run_at stands after a trigger was computed.
LEMMA NextSlotType ==
  ASSUME NEW t \in Triggers
  PROVE  /\ NextSlot(t) \in Slots
         /\ t = "scheduled" => NextSlot(t) # "none"
BY DEF NextSlot, Slots, Triggers

\* Types of what begin_run, the verifier and finish_run write.
LEMMA BegunType ==
  ASSUME NEW d \in Definition
  PROVE  Begun(d) \in Definition
<1>1. NextSlot(d.trigger) \in Slots
  BY NextSlotType DEF Definition
<1>2. d.count + 1 \in Nat /\ d.max \in Ceilings \cup {0}
  BY DEF Definition
<1>3. (IF SpentAt(d.count + 1, d.max) THEN "exhausted" ELSE "active") \in Statuses
  BY DEF Statuses
<1>4. [d EXCEPT !.count = d.count + 1, !.slot = NextSlot(d.trigger),
                !.status = IF SpentAt(d.count + 1, d.max) THEN "exhausted" ELSE "active"]
        \in Definition
  BY <1>1, <1>2, <1>3 DEF Definition
<1> QED
  BY <1>4 DEF Begun

\* A rejected result leaves a well-typed execution.
LEMMA RejectedType ==
  ASSUME NEW w \in Execution
  PROVE  Rejected(w) \in Execution
<1>1. Gates \subseteq Nat
  BY AutomationAssumption
<1>2. (w.verify \in Gates \/ w.verify = 0) /\ w.gen \in Attempts
  BY DEF Execution
<1>3. w.verify \in Nat
  <2>1. \A n \in Gates : n \in Nat
    BY <1>1
  <2> QED
    BY <1>2, <2>1
<1>4. w.gen \in Nat
  BY <1>1, <1>2 DEF Attempts
<1>5. ASSUME w.gen < w.verify PROVE w.gen + 1 \in Attempts
  <2>1. w.verify # 0 /\ w.gen + 1 \in 1 .. w.verify
    BY <1>3, <1>4, <1>5
  <2>2. w.verify \in Gates
    BY <1>2, <2>1
  <2> QED
    BY <2>1, <2>2 DEF Attempts
<1>6. CASE w.gen < w.verify
  <2>1. [w EXCEPT !.phase = "exec", !.gen = w.gen + 1] \in Execution
    BY <1>5, <1>6 DEF Execution, Busy
  <2> QED
    BY <1>6, <2>1 DEF Rejected
<1>7. CASE ~(w.gen < w.verify)
  <2>1. [w EXCEPT !.phase = "finish", !.ok = FALSE] \in Execution
    BY DEF Execution, Busy
  <2> QED
    BY <1>7, <2>1 DEF Rejected
<1> QED
  BY <1>6, <1>7

\* finish_run leaves a definition.
LEMMA OutcomeType ==
  ASSUME NEW a \in Autos, NEW r \in Runs, def[a] \in Definition
  PROVE  Outcome(a, r) \in Definition
BY DEF Outcome, Halts, Definition, Statuses, Slots

\* begin_run keeps the types of definitions, rows and executions.
LEMMA BeginRunType ==
  ASSUME AutoTypeOK, NEW a \in Autos, NEW r \in Runs, NEW k \in Triggers, NEW w \in BOOLEAN,
         BeginRun(a, r, k, w)
  PROVE  /\ def' \in [Autos -> Definition]
         /\ row' \in [Runs -> RunRow]
         /\ work' \in [Runs -> Execution]
         /\ lapsed' \in [Autos -> BOOLEAN]
<1>1. def[a] \in Definition
  BY DEF AutoTypeOK
<1>2. [auto |-> a, kind |-> k, status |-> "running"] \in RunRow
  BY DEF RunRow
<1>3. [phase |-> "exec", awaited |-> w, verify |-> def[a].verify, gen |-> 1, passed |-> 0,
       ok |-> FALSE] \in Execution
  BY <1>1 DEF Execution, Definition, Busy, Attempts
<1> QED
  BY <1>1, <1>2, <1>3, BegunType DEF BeginRun, AutoTypeOK

\* The automations begin well typed.
LEMMA AutoTypeInit == AutoInit => AutoTypeOK
BY AutomationAssumption
   DEF AutoInit, AutoTypeOK, NoRow, Idle, Definition, RunRow, Execution, Attempts, Statuses,
       Triggers, Slots

\* Calls of users keep the types.
LEMMA UserType == AutoTypeOK /\ UserStep => AutoTypeOK'
<1> SUFFICES ASSUME AutoTypeOK, UserStep
             PROVE  AutoTypeOK'
  OBVIOUS
<1> USE AutomationAssumption
<1> PICK a \in Autos :
      \/ CreateAutomation(a)
      \/ DeleteAutomation(a)
      \/ Activate(a)
      \/ \E s \in Statuses : SetStatus(a, s)
      \/ \E t \in Triggers, m \in Ceilings : SetTrigger(a, t, m)
      \/ \E v \in Gates : SetVerify(a, v)
      \/ \E r \in Runs : RunNow(a, r)
  BY DEF UserStep
<1>1. def[a] \in Definition /\ def \in [Autos -> Definition]
  BY DEF AutoTypeOK
<1>2. CASE CreateAutomation(a)
  <2>1. PICK t \in Triggers, m \in Ceilings, v \in Gates :
          def' = [def EXCEPT ![a] = [status |-> "active", trigger |-> t, slot |-> NextSlot(t),
                                     count |-> 0, max |-> m, verify |-> v]]
    BY <1>2 DEF CreateAutomation
  <2>2. def' \in [Autos -> Definition]
    BY <1>1, <2>1, NextSlotType DEF Definition, Statuses
  <2> QED
    BY <1>2, <2>2 DEF CreateAutomation, Edit, AutoTypeOK, memory
<1>3. CASE DeleteAutomation(a)
  <2>1. def' \in [Autos -> Definition]
    BY <1>1, <1>3 DEF DeleteAutomation, NoRow, Definition, Triggers, Slots
  <2>2. row' \in [Runs -> RunRow]
    BY <1>3 DEF DeleteAutomation, AutoTypeOK, RunRow
  <2> QED
    BY <1>3, <2>1, <2>2 DEF DeleteAutomation, Edit, AutoTypeOK, memory
<1>4. CASE Activate(a)
  <2>1. def' \in [Autos -> Definition]
    BY <1>1, <1>4, NextSlotType DEF Activate, Definition, Statuses
  <2> QED
    BY <1>4, <2>1 DEF Activate, Edit, AutoTypeOK, memory
<1>5. ASSUME NEW s \in Statuses, SetStatus(a, s) PROVE AutoTypeOK'
  <2>1. def' \in [Autos -> Definition]
    BY <1>1, <1>5 DEF SetStatus, Definition
  <2> QED
    BY <1>5, <2>1 DEF SetStatus, Edit, AutoTypeOK, memory
<1>6. ASSUME NEW t \in Triggers, NEW m \in Ceilings, SetTrigger(a, t, m) PROVE AutoTypeOK'
  <2>1. def' \in [Autos -> Definition]
    BY <1>1, <1>6, NextSlotType DEF SetTrigger, Definition, Slots
  <2>2. lapsed' \in [Autos -> BOOLEAN]
    BY <1>6 DEF SetTrigger, AutoTypeOK
  <2>3. Edit /\ UNCHANGED <<row, memory>>
    BY <1>6 DEF SetTrigger
  <2> QED
    BY <2>1, <2>2, <2>3 DEF Edit, AutoTypeOK, memory
<1>7. ASSUME NEW v \in Gates, SetVerify(a, v) PROVE AutoTypeOK'
  <2>1. def' \in [Autos -> Definition]
    BY <1>1, <1>7 DEF SetVerify, Definition
  <2> QED
    BY <1>7, <2>1 DEF SetVerify, Edit, AutoTypeOK, memory
<1>8. ASSUME NEW r \in Runs, RunNow(a, r) PROVE AutoTypeOK'
  <2>1. "manual" \in Triggers
    BY DEF Triggers
  <2>2. PICK w \in BOOLEAN : BeginRun(a, r, "manual", w)
    BY <1>8 DEF RunNow
  <2> QED
    BY <1>8, <2>1, <2>2, BeginRunType DEF RunNow, Edit, AutoTypeOK
<1> QED
  BY <1>2, <1>3, <1>4, <1>5, <1>6, <1>7, <1>8

\* Steps of an execution keep the types.
LEMMA RunType ==
  ASSUME AutoTypeOK, NEW r \in Runs, RunStep(r)
  PROVE  AutoTypeOK'
<1>1. work[r] \in Execution /\ work \in [Runs -> Execution]
  BY DEF AutoTypeOK
<1>2. ASSUME NEW ok \in BOOLEAN, ExecEnds(r, ok) PROVE AutoTypeOK'
  <2>1. work' \in [Runs -> Execution]
    BY <1>1, <1>2 DEF ExecEnds, Execution, Busy
  <2> QED
    BY <1>2, <2>1 DEF ExecEnds, AutoTypeOK, store
<1>3. ASSUME NEW pass \in BOOLEAN, Verdict(r, pass) PROVE AutoTypeOK'
  <2>1. work' \in [Runs -> Execution]
    <3>1. CASE pass
      BY <1>1, <1>3, <3>1 DEF Verdict, Execution, Busy
    <3>2. CASE ~pass
      BY <1>1, <1>3, <3>2, RejectedType DEF Verdict
    <3> QED
      BY <3>1, <3>2
  <2> QED
    BY <1>3, <2>1 DEF Verdict, AutoTypeOK, store
<1>4. CASE FinishRun(r)
  <2>1. work' \in [Runs -> Execution]
    BY <1>1, <1>4, AutomationAssumption DEF FinishRun, Idle, Execution, Attempts
  <2>2. row' \in [Runs -> RunRow]
    BY <1>4 DEF FinishRun, AutoTypeOK, RunRow
  <2>3. def' \in [Autos -> Definition] /\ lapsed' \in [Autos -> BOOLEAN]
    <3>1. CASE row[r].auto \in Autos
      <4>1. Outcome(row[r].auto, r) \in Definition
        BY <3>1, OutcomeType DEF AutoTypeOK
      <4>2. \/ def' = [def EXCEPT ![row[r].auto] = Outcome(row[r].auto, r)]
            \/ def' = def
        BY <1>4 DEF FinishRun
      <4>3. \/ lapsed' = lapsed
            \/ lapsed' = [lapsed EXCEPT ![row[r].auto] =
                            @ \/ (~work[r].ok /\ ~ManualOnScheduled(row[r].auto, r))]
        BY <1>4 DEF FinishRun
      <4>4. def' \in [Autos -> Definition]
        BY <3>1, <4>1, <4>2 DEF AutoTypeOK
      <4>5. lapsed' \in [Autos -> BOOLEAN]
        <5>1. (~work[r].ok /\ ~ManualOnScheduled(row[r].auto, r)) \in BOOLEAN
          OBVIOUS
        <5> QED
          BY <4>3, <5>1 DEF AutoTypeOK
      <4> QED
        BY <4>4, <4>5
    <3>2. CASE row[r].auto \notin Autos
      BY <1>4, <3>2 DEF FinishRun, AutoTypeOK
    <3> QED
      BY <3>1, <3>2
  <2> QED
    BY <1>4, <2>1, <2>2, <2>3 DEF FinishRun, AutoTypeOK
<1>5. CASE HangUp(r)
  <2>1. work' \in [Runs -> Execution]
    BY <1>1, <1>5, AutomationAssumption DEF HangUp, Idle, Execution, Attempts
  <2> QED
    BY <1>5, <2>1 DEF HangUp, AutoTypeOK, store
<1> QED
  BY <1>2, <1>3, <1>4, <1>5 DEF RunStep

\* Steps of a tick loop keep the types.
LEMMA LoopType ==
  ASSUME AutoTypeOK, NEW l \in Loops, LoopStep(l)
  PROVE  AutoTypeOK'
<1>1. CASE RecoverStranded(l)
  <2>1. row' \in [Runs -> RunRow]
    BY <1>1 DEF RecoverStranded, AutoTypeOK, RunRow
  <2> QED
    BY <1>1, <2>1 DEF RecoverStranded, AutoTypeOK
<1>2. CASE Tick(l)
  BY <1>2 DEF Tick, AutoTypeOK, DueNow, store
<1>3. ASSUME NEW a \in Autos, FireNothing(l, a) PROVE AutoTypeOK'
  BY <1>3 DEF FireNothing, AutoTypeOK, store
<1>4. ASSUME NEW a \in Autos, NEW r \in Runs, Fire(l, a, r) PROVE AutoTypeOK'
  <2>1. "scheduled" \in Triggers
    BY DEF Triggers
  <2>2. fires' \in [Loops -> SUBSET Autos]
    BY <1>4 DEF Fire, AutoTypeOK
  <2> QED
    BY <1>4, <2>1, <2>2, BeginRunType DEF Fire, AutoTypeOK
<1> QED
  BY <1>1, <1>2, <1>3, <1>4 DEF LoopStep

\* Every step of the automations keeps the types.
LEMMA AutoTypeStep == AutoTypeOK /\ [AutoNext]_autoVars => AutoTypeOK'
<1> SUFFICES ASSUME AutoTypeOK, [AutoNext]_autoVars
             PROVE  AutoTypeOK'
  OBVIOUS
<1>1. ASSUME NEW a \in Autos, ComesDue(a) PROVE AutoTypeOK'
  <2>1. def' \in [Autos -> Definition]
    <3>1. def' = [def EXCEPT ![a].slot = "due"] /\ def \in [Autos -> Definition]
      BY <1>1 DEF ComesDue, AutoTypeOK
    <3>2. [def[a] EXCEPT !.slot = "due"] \in Definition
      BY <3>1 DEF Definition, Slots
    <3> QED
      BY <3>1, <3>2
  <2> QED
    BY <1>1, <2>1 DEF ComesDue, AutoTypeOK, memory
<1>2. CASE SpawnLoop
  BY <1>2 DEF SpawnLoop, AutoTypeOK, store
<1>3. CASE LoseMemory
  <2>1. work' \in [Runs -> Execution]
    BY <1>3, AutomationAssumption DEF LoseMemory, AutoTypeOK, Idle, Execution, Attempts
  <2> QED
    BY <1>3, <2>1 DEF LoseMemory, AutoTypeOK, store
<1>4. CASE UNCHANGED autoVars
  BY <1>4 DEF autoVars, store, memory, AutoTypeOK
<1> QED
  BY <1>1, <1>2, <1>3, <1>4, UserType, RunType, LoopType DEF AutoNext, AutoStep

\* Automations: what the store and memory hold has its type.
THEOREM AutoTypes == AutoSpec => []AutoTypeOK
<1> QED
  BY AutoTypeInit, AutoTypeStep, PTL DEF AutoSpec

-----------------------------------------------------------------------------
(* The schedule *)

\* A run that begins computes the next one, or exhausts the definition.
LEMMA ScheduleBegun ==
  ASSUME AutoTypeOK, ScheduleKept, NEW b \in Autos, NEW r \in Runs, NEW k \in Triggers,
         NEW w \in BOOLEAN, Exists(b), BeginRun(b, r, k, w)
  PROVE  ScheduleKept'
<1> SUFFICES ASSUME NEW a \in Autos, Exists(a)', ~lapsed'[a]
             PROVE  /\ def'[a].status = "active" /\ ~Spent(a)'
                    /\ def'[a].trigger = "scheduled" => def'[a].slot # "none"
  BY DEF ScheduleKept
<1>1. CASE a # b
  BY <1>1 DEF BeginRun, ScheduleKept, AutoTypeOK, Exists, Spent
<1>2. CASE a = b
  <2>1. def[b] \in Definition /\ def'[b] = Begun(def[b])
    BY DEF BeginRun, AutoTypeOK
  <2>2. Begun(def[b]).status # "exhausted"
    BY <1>2 DEF BeginRun, AutoTypeOK
  <2>3. /\ Begun(def[b]).count = def[b].count + 1 /\ Begun(def[b]).max = def[b].max
        /\ Begun(def[b]).trigger = def[b].trigger
        /\ Begun(def[b]).slot = NextSlot(def[b].trigger)
        /\ Begun(def[b]).status =
             IF SpentAt(def[b].count + 1, def[b].max) THEN "exhausted" ELSE "active"
    BY <2>1 DEF Begun, Definition
  <2>4. ~SpentAt(def[b].count + 1, def[b].max)
    BY <2>2, <2>3
  <2> QED
    BY <1>2, <2>1, <2>3, <2>4, NextSlotType DEF Spent, Definition
<1> QED
  BY <1>1, <1>2

\* Calls of users keep the schedule, or are a reason.
LEMMA ScheduleUser == AutoTypeOK /\ ScheduleKept /\ UserStep => ScheduleKept'
<1> SUFFICES ASSUME AutoTypeOK, ScheduleKept, UserStep
             PROVE  ScheduleKept'
  OBVIOUS
<1> PICK b \in Autos :
      \/ CreateAutomation(b)
      \/ DeleteAutomation(b)
      \/ Activate(b)
      \/ \E s \in Statuses : SetStatus(b, s)
      \/ \E t \in Triggers, m \in Ceilings : SetTrigger(b, t, m)
      \/ \E v \in Gates : SetVerify(b, v)
      \/ \E r \in Runs : RunNow(b, r)
  BY DEF UserStep
<1>1. def \in [Autos -> Definition] /\ lapsed \in [Autos -> BOOLEAN] /\ def[b] \in Definition
  BY DEF AutoTypeOK
<1>2. CASE CreateAutomation(b)
  <2>1. PICK t \in Triggers, m \in Ceilings, v \in Gates :
          def' = [def EXCEPT ![b] = [status |-> "active", trigger |-> t, slot |-> NextSlot(t),
                                     count |-> 0, max |-> m, verify |-> v]]
    BY <1>2 DEF CreateAutomation
  <2>2. ~SpentAt(0, m)
    BY AutomationAssumption DEF SpentAt
  <2>3. Spent(b)' = SpentAt(0, m)
    BY <1>1, <2>1 DEF Spent
  <2>4. lapsed' = lapsed
    BY <1>2 DEF CreateAutomation
  <2> QED
    BY <1>1, <2>1, <2>2, <2>3, <2>4, NextSlotType DEF ScheduleKept, Exists, Spent
<1>3. CASE DeleteAutomation(b)
  BY <1>1, <1>3 DEF DeleteAutomation, NoRow, ScheduleKept, Exists, Spent, Statuses
<1>4. CASE Activate(b)
  <2>1. def[b].trigger \in Triggers
    BY <1>1 DEF Definition
  <2>2. /\ ~Spent(b) /\ lapsed' = [lapsed EXCEPT ![b] = FALSE]
        /\ def' = [def EXCEPT ![b].status = "active", ![b].slot = NextSlot(def[b].trigger)]
    BY <1>4 DEF Activate
  <2>3. /\ def'[b].count = def[b].count /\ def'[b].max = def[b].max
        /\ def'[b].trigger = def[b].trigger /\ def'[b].status = "active"
        /\ def'[b].slot = NextSlot(def[b].trigger)
    BY <1>1, <2>2 DEF Definition
  <2> QED
    BY <1>1, <2>1, <2>2, <2>3, NextSlotType DEF ScheduleKept, Exists, Spent
<1>5. ASSUME NEW s \in Statuses, SetStatus(b, s) PROVE ScheduleKept'
  BY <1>1, <1>5 DEF SetStatus, ScheduleKept, Exists, Spent
<1>6. ASSUME NEW t \in Triggers, NEW m \in Ceilings, SetTrigger(b, t, m) PROVE ScheduleKept'
  <2>1. /\ Exists(b)
        /\ lapsed'[b] = (lapsed[b] \/ SpentAt(def[b].count, m))
        /\ \A a \in Autos : a # b => lapsed'[a] = lapsed[a] /\ def'[a] = def[a]
        /\ def'[b].trigger = t /\ def'[b].max = m /\ def'[b].count = def[b].count
        /\ def'[b].status = def[b].status
        /\ def'[b].slot = IF def[b].status = "active" THEN NextSlot(t) ELSE "none"
    BY <1>1, <1>6 DEF SetTrigger, Definition
  <2> QED
    BY <1>1, <2>1, NextSlotType DEF ScheduleKept, Exists, Spent
<1>7. ASSUME NEW v \in Gates, SetVerify(b, v) PROVE ScheduleKept'
  BY <1>1, <1>7 DEF SetVerify, ScheduleKept, Exists, Spent, Definition
<1>8. ASSUME NEW r \in Runs, RunNow(b, r) PROVE ScheduleKept'
  BY <1>8, ScheduleBegun DEF RunNow, Triggers
<1> QED
  BY <1>2, <1>3, <1>4, <1>5, <1>6, <1>7, <1>8

\* The end of a run keeps the schedule, or is a reason.
LEMMA ScheduleRun ==
  ASSUME AutoTypeOK, ScheduleKept, NEW r \in Runs, RunStep(r)
  PROVE  ScheduleKept'
<1>1. ASSUME HangUp(r) \/ \E ok \in BOOLEAN : ExecEnds(r, ok) \/ Verdict(r, ok)
      PROVE  ScheduleKept'
  BY <1>1 DEF ExecEnds, Verdict, HangUp, store, ScheduleKept, Exists, Spent
<1>2. CASE FinishRun(r) /\ Exists(row[r].auto) /\ row[r].auto \in Autos
  <2> DEFINE b == row[r].auto
  <2>1. /\ def' = [def EXCEPT ![b] = Outcome(b, r)]
        /\ lapsed' = [lapsed EXCEPT ![b] = @ \/ (~work[r].ok /\ ~ManualOnScheduled(b, r))]
    BY <1>2 DEF FinishRun
  <2>2. def \in [Autos -> Definition] /\ lapsed \in [Autos -> BOOLEAN] /\ b \in Autos
    BY <1>2 DEF AutoTypeOK
  <2>3. ASSUME ~lapsed'[b] PROVE ~lapsed[b] /\ ~Halts(b, r)
    BY <2>1, <2>2, <2>3 DEF Halts
  <2>4. ASSUME ~lapsed'[b] PROVE Outcome(b, r) = def[b]
    <3>1. def[b].status = "active" /\ def[b] \in Definition
      BY <1>2, <2>2, <2>3, <2>4 DEF ScheduleKept
    <3>2. [def[b] EXCEPT !.status = "active"] = def[b]
      BY <3>1 DEF Definition
    <3> QED
      BY <2>3, <2>4, <3>2 DEF Outcome
  <2>5. \A a \in Autos : ~lapsed'[a] => ~lapsed[a] /\ def'[a] = def[a]
    BY <2>1, <2>2, <2>3, <2>4
  <2> QED
    BY <2>5 DEF ScheduleKept, Exists, Spent
<1>3. CASE FinishRun(r) /\ ~(Exists(row[r].auto) /\ row[r].auto \in Autos)
  <2>1. def' = def /\ lapsed' = lapsed
    BY <1>3 DEF FinishRun, AutoTypeOK
  <2> QED
    BY <2>1 DEF ScheduleKept, Exists, Spent
<1> QED
  BY <1>1, <1>2, <1>3 DEF RunStep

\* Every step keeps the schedule.
LEMMA ScheduleStep == AutoTypeOK /\ ScheduleKept /\ [AutoNext]_autoVars => ScheduleKept'
<1> SUFFICES ASSUME AutoTypeOK, ScheduleKept, [AutoNext]_autoVars
             PROVE  ScheduleKept'
  OBVIOUS
<1>1. ASSUME NEW b \in Autos, ComesDue(b) PROVE ScheduleKept'
  BY <1>1 DEF ComesDue, AutoTypeOK, Definition, ScheduleKept, Exists, Spent
<1>2. ASSUME NEW l \in Loops, LoopStep(l) PROVE ScheduleKept'
  <2>1. ASSUME NEW a \in Autos, NEW r \in Runs, Fire(l, a, r) PROVE ScheduleKept'
    BY <2>1, ScheduleBegun DEF Fire, Triggers
  <2>2. CASE RecoverStranded(l) \/ Tick(l) \/ \E a \in Autos : FireNothing(l, a)
    <3>1. def' = def /\ lapsed' = lapsed
      BY <2>2 DEF RecoverStranded, Tick, FireNothing, store
    <3> QED
      BY <3>1 DEF ScheduleKept, Exists, Spent
  <2> QED
    BY <1>2, <2>1, <2>2 DEF LoopStep
<1>3. CASE SpawnLoop \/ LoseMemory \/ UNCHANGED autoVars
  <2>1. def' = def /\ lapsed' = lapsed
    BY <1>3 DEF SpawnLoop, LoseMemory, autoVars, store
  <2> QED
    BY <2>1 DEF ScheduleKept, Exists, Spent
<1> QED
  BY <1>1, <1>2, <1>3, ScheduleUser, ScheduleRun DEF AutoNext, AutoStep

\* Nothing takes an automation off its schedule but what may: a status the user
\* sets, the failure of a scheduled run, the ceiling.
THEOREM SchedulesKept == AutoSpec => []ScheduleKept
<1>1. AutoInit => ScheduleKept
  BY DEF AutoInit, NoRow, ScheduleKept, Exists, Statuses
<1> QED
  BY <1>1, AutoTypes, ScheduleStep, PTL DEF AutoSpec

-----------------------------------------------------------------------------
(* The gate *)

Verified(w) == w.passed = w.gen /\ w.gen \in 1 .. w.verify

\* an armed gate has seen no more results than it may, and a success it let
\* through is the one it judged last
JudgedRun(w) ==
  /\ w.phase \in Busy /\ w.verify > 0 => w.gen \in 1 .. w.verify
  /\ w.phase = "finish" /\ w.ok /\ w.verify > 0 => Verified(w)

Judged == \A r \in Runs : JudgedRun(work[r])

\* An execution that is over has judged nothing.
LEMMA IdleJudged ==
  ASSUME NEW p \in {"idle", "dropped", "lost", "done"}
  PROVE  JudgedRun(Idle(p))
BY DEF JudgedRun, Idle, Busy

\* A verdict is about the result at hand.
LEMMA VerdictJudged ==
  ASSUME NEW w \in Execution, JudgedRun(w), w.phase = "verify", w.verify > 0
  PROVE  /\ JudgedRun([w EXCEPT !.phase = "finish", !.passed = w.gen])
         /\ JudgedRun(Rejected(w))
<1>1. w.gen \in 1 .. w.verify
  BY DEF JudgedRun, Busy
<1>2. w.verify \in Nat
  <2>1. \A n \in Gates : n \in Nat
    BY AutomationAssumption
  <2> QED
    BY <2>1 DEF Execution
<1>3. JudgedRun([w EXCEPT !.phase = "finish", !.passed = w.gen])
  BY <1>1 DEF JudgedRun, Verified, Busy, Execution
<1>4. JudgedRun(Rejected(w))
  <2>1. CASE w.gen < w.verify
    <3>1. w.gen + 1 \in 1 .. w.verify
      BY <1>1, <1>2, <2>1
    <3> QED
      BY <2>1, <3>1 DEF Rejected, JudgedRun, Busy, Execution
  <2>2. CASE ~(w.gen < w.verify)
    BY <1>1, <2>2 DEF Rejected, JudgedRun, Busy, Execution
  <2> QED
    BY <2>1, <2>2
<1> QED
  BY <1>3, <1>4

\* A verdict is asked for under an armed gate only.
GateArmed == \A r \in Runs : work[r].phase = "verify" => work[r].verify > 0

GInv == AutoTypeOK /\ Judged /\ GateArmed

\* No execution is under way at first.
LEMMA GateInit == AutoInit => GInv
<1> SUFFICES ASSUME AutoInit
             PROVE  Judged /\ GateArmed
  BY AutoTypeInit DEF GInv
<1>1. \A r \in Runs : work[r] = Idle("idle")
  BY DEF AutoInit
<1> QED
  BY <1>1, IdleJudged DEF Judged, GateArmed, Idle

\* A run begins with nothing judged.
LEMMA GateBegun ==
  ASSUME GInv, NEW a \in Autos, NEW s \in Runs, NEW k, NEW w, BeginRun(a, s, k, w)
  PROVE  Judged' /\ GateArmed'
<1>1. /\ work \in [Runs -> Execution]
      /\ work' = [work EXCEPT ![s] = [phase |-> "exec", awaited |-> w, verify |-> def[a].verify,
                                      gen |-> 1, passed |-> 0, ok |-> FALSE]]
  BY DEF BeginRun, GInv, AutoTypeOK
<1>2. def[a].verify \in Nat
  <2>1. \A n \in Gates : n \in Nat
    BY AutomationAssumption
  <2> QED
    BY <2>1 DEF GInv, AutoTypeOK, Definition
<1>3. JudgedRun(work'[s]) /\ work'[s].phase = "exec"
  BY <1>1, <1>2 DEF JudgedRun, Busy
<1>4. \A r \in Runs : r # s => work'[r] = work[r]
  BY <1>1
<1> QED
  BY <1>3, <1>4 DEF GInv, Judged, GateArmed

\* Steps of an execution keep what the gate has seen.
LEMMA GateRun ==
  ASSUME GInv, NEW s \in Runs, RunStep(s)
  PROVE  Judged' /\ GateArmed'
<1>1. /\ work \in [Runs -> Execution] /\ work[s] \in Execution
      /\ JudgedRun(work[s]) /\ (work[s].phase = "verify" => work[s].verify > 0)
  BY DEF GInv, AutoTypeOK, Judged, GateArmed
<1> DEFINE Kept == /\ \A r \in Runs : r # s => work'[r] = work[r]
                   /\ JudgedRun(work'[s])
                   /\ work'[s].phase = "verify" => work'[s].verify > 0
<1>2. ASSUME NEW ok \in BOOLEAN, ExecEnds(s, ok) PROVE Kept
  <2>1. \A r \in Runs : r # s => work'[r] = work[r]
    BY <1>1, <1>2 DEF ExecEnds
  <2>2. /\ work[s].phase = "exec"
        /\ work'[s] = [work[s] EXCEPT
             !.phase = IF ok /\ work[s].verify > 0 THEN "verify" ELSE "finish", !.ok = ok]
    BY <1>1, <1>2 DEF ExecEnds
  <2>3. CASE ok /\ work[s].verify > 0
    BY <1>1, <2>1, <2>2, <2>3 DEF JudgedRun, Busy, Execution
  <2>4. CASE ~(ok /\ work[s].verify > 0)
    BY <1>1, <2>1, <2>2, <2>4 DEF JudgedRun, Busy, Execution
  <2> QED
    BY <2>3, <2>4
<1>3. ASSUME NEW pass \in BOOLEAN, Verdict(s, pass) PROVE Kept
  <2>1. /\ work[s].phase = "verify" /\ work[s].verify > 0
        /\ \A r \in Runs : r # s => work'[r] = work[r]
        /\ work'[s] = IF pass THEN [work[s] EXCEPT !.phase = "finish", !.passed = work[s].gen]
                              ELSE Rejected(work[s])
    BY <1>1, <1>3 DEF Verdict
  <2>2. JudgedRun(work'[s])
    BY <1>1, <2>1, VerdictJudged
  <2>3. work'[s].phase # "verify"
    BY <1>1, <2>1 DEF Rejected, Execution
  <2> QED
    BY <2>1, <2>2, <2>3
<1>4. ASSUME FinishRun(s) \/ HangUp(s) PROVE Kept
  <2>1. PICK p \in {"done", "dropped"} : work' = [work EXCEPT ![s] = Idle(p)]
    BY <1>4 DEF FinishRun, HangUp
  <2> QED
    BY <1>1, <2>1, IdleJudged DEF Idle
<1>5. Kept
  BY <1>2, <1>3, <1>4 DEF RunStep
<1> QED
  BY <1>5 DEF GInv, Judged, GateArmed

\* Every step keeps what the gate has seen.
LEMMA GateStep == GInv /\ [AutoNext]_autoVars => GInv'
<1> SUFFICES ASSUME GInv, [AutoNext]_autoVars
             PROVE  Judged' /\ GateArmed'
  BY AutoTypeStep DEF GInv
<1>1. CASE work' = work
  BY <1>1 DEF GInv, Judged, GateArmed
<1>2. CASE UserStep
  <2>1. ASSUME NEW a \in Autos, NEW r \in Runs, RunNow(a, r) PROVE Judged' /\ GateArmed'
    BY <2>1, GateBegun DEF RunNow
  <2>2. ASSUME NEW a \in Autos,
               \/ CreateAutomation(a) \/ DeleteAutomation(a) \/ Activate(a)
               \/ \E s \in Statuses : SetStatus(a, s)
               \/ \E t \in Triggers, m \in Ceilings : SetTrigger(a, t, m)
               \/ \E v \in Gates : SetVerify(a, v)
        PROVE  work' = work
    BY <2>2 DEF CreateAutomation, DeleteAutomation, Activate, SetStatus, SetTrigger, SetVerify,
                memory
  <2> QED
    BY <1>1, <1>2, <2>1, <2>2 DEF UserStep
<1>3. ASSUME NEW l \in Loops, LoopStep(l) PROVE Judged' /\ GateArmed'
  <2>1. ASSUME NEW a \in Autos, NEW r \in Runs, Fire(l, a, r) PROVE Judged' /\ GateArmed'
    BY <2>1, GateBegun DEF Fire
  <2>2. CASE RecoverStranded(l) \/ Tick(l) \/ \E a \in Autos : FireNothing(l, a)
    BY <1>1, <2>2 DEF RecoverStranded, Tick, FireNothing
  <2> QED
    BY <1>3, <2>1, <2>2 DEF LoopStep
<1>4. CASE LoseMemory
  <2>1. \A r \in Runs : work'[r] = work[r] \/ work'[r] = Idle("lost")
    BY <1>4 DEF LoseMemory
  <2> QED
    BY <2>1, IdleJudged DEF GInv, Judged, GateArmed, Idle
<1>5. ASSUME NEW a \in Autos, ComesDue(a) PROVE work' = work
  BY <1>5 DEF ComesDue, memory
<1>6. CASE SpawnLoop \/ UNCHANGED autoVars
  BY <1>1, <1>6 DEF SpawnLoop, autoVars, memory
<1> QED
  BY <1>1, <1>2, <1>3, <1>4, <1>5, <1>6, GateRun DEF AutoNext, AutoStep

\* Only finish_run makes a row a success.
LEMMA SuccessIsFinish ==
  ASSUME GInv, [AutoNext]_autoVars, NEW r \in Runs,
         row[r].status # "succeeded", row'[r].status = "succeeded"
  PROVE  work[r].phase = "finish" /\ work[r].ok
<1>1. row \in [Runs -> RunRow]
  BY DEF GInv, AutoTypeOK
<1>2. ASSUME NEW s \in Runs, FinishRun(s) PROVE s = r /\ work[s].ok /\ work[s].phase = "finish"
  <2>1. \/ row' = row
        \/ row' = [row EXCEPT ![s].status = IF work[s].ok THEN "succeeded" ELSE "failed"]
    BY <1>2 DEF FinishRun
  <2> QED
    BY <1>1, <1>2, <2>1 DEF FinishRun, RunRow
<1>3. ASSUME NEW a, NEW s \in Runs, NEW k, NEW w, BeginRun(a, s, k, w) PROVE FALSE
  BY <1>1, <1>3 DEF BeginRun
<1>4. ASSUME NEW s \in Runs, RunStep(s) PROVE FinishRun(s)
  BY <1>4 DEF RunStep, ExecEnds, Verdict, HangUp, store
<1>5. ~UserStep
  <2>1. \A a \in Autos : ~DeleteAutomation(a)
    <3>1. row[r] \in RunRow
      BY <1>1
    <3>2. [row[r] EXCEPT !.status = "deleted"].status = "deleted"
      BY <3>1 DEF RunRow
    <3> QED
      BY <3>2 DEF DeleteAutomation
  <2>2. \A a \in Autos, s \in Runs : ~RunNow(a, s)
    BY <1>3 DEF RunNow
  <2>3. \A a \in Autos :
          /\ ~CreateAutomation(a) /\ ~Activate(a)
          /\ \A s \in Statuses : ~SetStatus(a, s)
          /\ \A t \in Triggers, m \in Ceilings : ~SetTrigger(a, t, m)
          /\ \A v \in Gates : ~SetVerify(a, v)
    BY DEF CreateAutomation, Activate, SetStatus, SetTrigger, SetVerify
  <2> QED
    BY <2>1, <2>2, <2>3 DEF UserStep
<1>6. ASSUME NEW l \in Loops, LoopStep(l) PROVE FALSE
  <2>1. \A a \in Autos, s \in Runs : ~Fire(l, a, s)
    BY <1>3 DEF Fire
  <2>2. ~RecoverStranded(l)
    <3>1. row[r] \in RunRow
      BY <1>1
    <3>2. [row[r] EXCEPT !.status = "failed"].status = "failed"
      BY <3>1 DEF RunRow
    <3> QED
      BY <3>2 DEF RecoverStranded
  <2>3. ~Tick(l) /\ \A a \in Autos : ~FireNothing(l, a)
    BY DEF Tick, FireNothing, store
  <2> QED
    BY <1>6, <2>1, <2>2, <2>3 DEF LoopStep
<1>7. ~SpawnLoop /\ ~LoseMemory /\ ~(UNCHANGED autoVars) /\ \A a \in Autos : ~ComesDue(a)
  BY DEF SpawnLoop, LoseMemory, ComesDue, autoVars, store
<1> QED
  BY <1>2, <1>4, <1>5, <1>6, <1>7 DEF AutoNext, AutoStep

\* A run under an armed gate ends as a success only with a result that a
\* verifier passed.
THEOREM SuccessesVerified == AutoSpec => VerifiedSuccess
<1>1. ASSUME GInv, [AutoNext]_autoVars
      PROVE  [\A r \in Runs :
                row[r].status # "succeeded" /\ row'[r].status = "succeeded" /\ work[r].verify > 0
                  => work[r].passed = work[r].gen /\ work[r].gen \in 1 .. work[r].verify]_autoVars
  BY <1>1, SuccessIsFinish DEF GInv, Judged, JudgedRun, Verified
<1> QED
  BY <1>1, GateInit, GateStep, PTL DEF AutoSpec, VerifiedSuccess

-----------------------------------------------------------------------------
(* Rows and definitions *)

\* a row is free, or it belongs to a definition that was made, and that is still
\* there while the row is open
RowsMatch ==
  \A r \in Runs :
    \/ row[r].status = "none" /\ row[r].auto = NoAuto
    \/ /\ row[r].status # "none" /\ row[r].auto \in Autos
       /\ def[row[r].auto].status # "new"
       /\ row[r].status = "running" => Exists(row[r].auto)

RunsOf(a) == {r \in Runs : row[r].auto = a}

CInv == AutoTypeOK /\ RowsMatch /\ RunsCounted

\* No row and no count at first.
LEMMA CountInit == AutoInit => CInv
<1> SUFFICES ASSUME AutoInit
             PROVE  RowsMatch /\ RunsCounted
  BY AutoTypeInit DEF CInv
<1> QED
  BY DEF AutoInit, RowsMatch, RunsCounted, NoRow, Exists, Statuses

\* The definition is there as it was, with its count.
Steady(a) == /\ def'[a].count = def[a].count
             /\ def[a].status # "new" => def'[a].status # "new"
             /\ Exists(a)' <=> Exists(a)

\* A step that writes no definition's count and no row's automation.
LEMMA CountSteady ==
  ASSUME CInv, \A a \in Autos : Steady(a),
         \A r \in Runs :
           /\ row'[r].auto = row[r].auto
           /\ \/ row'[r].status = row[r].status
              \/ row[r].status # "none" /\ row'[r].status \in {"succeeded", "failed"}
  PROVE  RowsMatch' /\ RunsCounted'
<1>1. RowsMatch'
  BY DEF CInv, RowsMatch, Steady
<1>2. ASSUME NEW a \in Autos PROVE RunsOf(a)' = RunsOf(a)
  BY DEF RunsOf
<1> QED
  BY <1>1, <1>2 DEF CInv, RunsCounted, RunsOf, Steady

\* A run that begins adds one row and one to the count.
LEMMA CountBegun ==
  ASSUME CInv, NEW b \in Autos, NEW s \in Runs, NEW k \in Triggers, NEW w, Exists(b),
         BeginRun(b, s, k, w)
  PROVE  RowsMatch' /\ RunsCounted'
<1>1. /\ def \in [Autos -> Definition] /\ row \in [Runs -> RunRow] /\ def[b] \in Definition
      /\ row[s].auto = NoAuto /\ NoAuto \notin Autos
  BY AutomationAssumption DEF CInv, AutoTypeOK, BeginRun, RowsMatch
<1>2. /\ def' = [def EXCEPT ![b] = Begun(def[b])]
      /\ row' = [row EXCEPT ![s] = [auto |-> b, kind |-> k, status |-> "running"]]
  BY DEF BeginRun
<1>3. /\ def'[b].count = def[b].count + 1 /\ def'[b].status \in {"active", "exhausted"}
      /\ \A a \in Autos : a # b => def'[a] = def[a]
  BY <1>1, <1>2 DEF Begun, Definition
<1>4. /\ row'[s].auto = b /\ row'[s].status = "running"
      /\ \A r \in Runs : r # s => row'[r] = row[r]
  BY <1>1, <1>2
<1>5. RowsMatch'
  BY <1>3, <1>4 DEF CInv, RowsMatch, Exists, Statuses
<1>6. RunsCounted'
  <2> SUFFICES ASSUME NEW a \in Autos, Exists(a)'
               PROVE  def'[a].count = Cardinality(RunsOf(a)')
    BY DEF RunsCounted, RunsOf
  <2>1. CASE a # b
    <3>1. RunsOf(a)' = RunsOf(a)
      BY <1>1, <1>4, <2>1 DEF RunsOf
    <3> QED
      BY <1>3, <2>1, <3>1 DEF CInv, RunsCounted, RunsOf, Exists
  <2>2. CASE a = b
    <3>1. RunsOf(b)' = RunsOf(b) \cup {s}
      BY <1>1, <1>4 DEF RunsOf
    <3>2. s \notin RunsOf(b)
      BY <1>1 DEF RunsOf
    <3>3. IsFiniteSet(RunsOf(b))
      <4>1. RunsOf(b) \subseteq Runs
        BY DEF RunsOf
      <4> QED
        BY <4>1, AutomationAssumption, FS_Subset
    <3>4. Cardinality(RunsOf(b) \cup {s}) = Cardinality(RunsOf(b)) + 1
      BY <3>2, <3>3, FS_AddElement
    <3>5. def[b].count = Cardinality(RunsOf(b))
      BY DEF CInv, RunsCounted, RunsOf
    <3> QED
      BY <1>3, <2>2, <3>1, <3>4, <3>5
  <2> QED
    BY <2>1, <2>2
<1> QED
  BY <1>5, <1>6

\* Calls of users keep rows and counts; a deletion takes both.
LEMMA CountUser == CInv /\ UserStep => RowsMatch' /\ RunsCounted'
<1> SUFFICES ASSUME CInv, UserStep
             PROVE  RowsMatch' /\ RunsCounted'
  OBVIOUS
<1> PICK b \in Autos :
      \/ CreateAutomation(b)
      \/ DeleteAutomation(b)
      \/ Activate(b)
      \/ \E s \in Statuses : SetStatus(b, s)
      \/ \E t \in Triggers, m \in Ceilings : SetTrigger(b, t, m)
      \/ \E v \in Gates : SetVerify(b, v)
      \/ \E r \in Runs : RunNow(b, r)
  BY DEF UserStep
<1>1. /\ def \in [Autos -> Definition] /\ def[b] \in Definition
      /\ row \in [Runs -> RunRow] /\ NoAuto \notin Autos
  BY AutomationAssumption DEF CInv, AutoTypeOK
<1>2. CASE CreateAutomation(b)
  <2>1. /\ def[b].status = "new" /\ row' = row
        /\ def'[b].status = "active" /\ def'[b].count = 0
        /\ \A a \in Autos : a # b => def'[a] = def[a]
    BY <1>1, <1>2 DEF CreateAutomation
  <2>2. RunsOf(b) = {}
    BY <1>1, <2>1 DEF CInv, RowsMatch, RunsOf
  <2>3. Cardinality(RunsOf(b)) = 0
    BY <2>2, FS_EmptySet
  <2>4. \A a \in Autos : RunsOf(a)' = RunsOf(a)
    BY <2>1 DEF RunsOf
  <2>5. RunsCounted'
    BY <2>1, <2>3, <2>4 DEF CInv, RunsCounted, RunsOf, Exists
  <2>6. RowsMatch'
    BY <1>1, <2>1 DEF CInv, RowsMatch, Exists, Statuses
  <2> QED
    BY <2>5, <2>6
<1>3. CASE DeleteAutomation(b)
  <2>1. /\ def'[b].status = "deleted"
        /\ \A a \in Autos : a # b => def'[a] = def[a]
    BY <1>1, <1>3 DEF DeleteAutomation, NoRow
  <2>2. \A r \in Runs : IF row[r].auto = b
                        THEN row'[r].auto = b /\ row'[r].status = "deleted"
                        ELSE row'[r] = row[r]
    BY <1>1, <1>3 DEF DeleteAutomation, RunRow
  <2>3. RowsMatch'
    BY <1>1, <2>1, <2>2 DEF CInv, RowsMatch, Exists
  <2>4. \A a \in Autos : RunsOf(a)' = RunsOf(a)
    BY <2>2 DEF RunsOf
  <2>5. ~Exists(b)'
    BY <2>1 DEF Exists, Statuses
  <2> QED
    BY <2>1, <2>3, <2>4, <2>5 DEF CInv, RunsCounted, RunsOf, Exists
<1>4. CASE Activate(b)
  <2>1. row' = row /\ \A a \in Autos : Steady(a)
    BY <1>1, <1>4 DEF Activate, Steady, Exists, Definition, Statuses
  <2> QED
    BY <2>1, CountSteady
<1>5. ASSUME NEW s \in Statuses, SetStatus(b, s) PROVE RowsMatch' /\ RunsCounted'
  <2>1. row' = row /\ \A a \in Autos : Steady(a)
    BY <1>1, <1>5 DEF SetStatus, Steady, Exists, Definition, Statuses
  <2> QED
    BY <2>1, CountSteady
<1>6. ASSUME NEW t \in Triggers, NEW m \in Ceilings, SetTrigger(b, t, m)
      PROVE  RowsMatch' /\ RunsCounted'
  <2>1. /\ row' = row
        /\ def'[b].status = def[b].status /\ def'[b].count = def[b].count
        /\ \A a \in Autos : a # b => def'[a] = def[a]
    BY <1>1, <1>6 DEF SetTrigger, Definition
  <2>2. \A a \in Autos : Steady(a)
    BY <2>1 DEF Steady, Exists
  <2> QED
    BY <2>1, <2>2, CountSteady
<1>7. ASSUME NEW v \in Gates, SetVerify(b, v) PROVE RowsMatch' /\ RunsCounted'
  <2>1. row' = row /\ \A a \in Autos : Steady(a)
    BY <1>1, <1>7 DEF SetVerify, Steady, Exists, Definition
  <2> QED
    BY <2>1, CountSteady
<1>8. ASSUME NEW r \in Runs, RunNow(b, r) PROVE RowsMatch' /\ RunsCounted'
  BY <1>8, CountBegun DEF RunNow, Triggers
<1> QED
  BY <1>2, <1>3, <1>4, <1>5, <1>6, <1>7, <1>8

\* The end of a run touches neither count nor membership.
LEMMA CountFinish ==
  ASSUME CInv, NEW s \in Runs, FinishRun(s)
  PROVE  RowsMatch' /\ RunsCounted'
<1>1. CASE Exists(row[s].auto) /\ row[s].auto \in Autos
  <2> DEFINE b == row[s].auto
  <2>1. /\ def \in [Autos -> Definition] /\ def[b] \in Definition /\ row \in [Runs -> RunRow]
        /\ row[s] \in RunRow /\ row[s].status # "none"
    BY <1>1, AutomationAssumption DEF CInv, AutoTypeOK, RowsMatch
  <2>2. /\ row' = [row EXCEPT ![s].status = IF work[s].ok THEN "succeeded" ELSE "failed"]
        /\ def' = [def EXCEPT ![b] = Outcome(b, s)]
    BY <1>1 DEF FinishRun
  <2>3. \A r \in Runs :
           /\ row'[r].auto = row[r].auto
           /\ \/ row'[r].status = row[r].status
              \/ row[r].status # "none" /\ row'[r].status \in {"succeeded", "failed"}
    <3>1. row'[s].auto = row[s].auto /\ row'[s].status \in {"succeeded", "failed"}
      BY <2>1, <2>2 DEF RunRow
    <3>2. \A r \in Runs : r # s => row'[r] = row[r]
      BY <2>1, <2>2
    <3> QED
      BY <2>1, <3>1, <3>2
  <2>4. /\ Outcome(b, s).count = def[b].count
        /\ Outcome(b, s).status \in {def[b].status, "active", "failed"}
    BY <2>1 DEF Outcome, Definition
  <2>5. \A a \in Autos : Steady(a)
    BY <1>1, <2>1, <2>2, <2>4 DEF Steady, Exists, Statuses
  <2> QED
    BY <2>3, <2>5, CountSteady
<1>2. CASE ~(Exists(row[s].auto) /\ row[s].auto \in Autos)
  <2>1. row' = row /\ def' = def
    BY <1>2 DEF FinishRun, Exists
  <2> QED
    BY <2>1, CountSteady DEF Steady, Exists
<1> QED
  BY <1>1, <1>2

\* Every step keeps rows and counts.
LEMMA CountStep == CInv /\ [AutoNext]_autoVars => CInv'
<1> SUFFICES ASSUME CInv, [AutoNext]_autoVars
             PROVE  RowsMatch' /\ RunsCounted'
  BY AutoTypeStep DEF CInv
<1>1. /\ def \in [Autos -> Definition] /\ row \in [Runs -> RunRow]
      /\ fires \in [Loops -> SUBSET Autos]
  BY DEF CInv, AutoTypeOK
<1>2. ASSUME UNCHANGED store PROVE RowsMatch' /\ RunsCounted'
  BY <1>2, CountSteady DEF Steady, Exists, store
<1>3. ASSUME NEW r \in Runs, RunStep(r) PROVE RowsMatch' /\ RunsCounted'
  BY <1>2, <1>3, CountFinish DEF RunStep, ExecEnds, Verdict, HangUp
<1>4. ASSUME NEW l \in Loops, LoopStep(l) PROVE RowsMatch' /\ RunsCounted'
  <2>1. CASE RecoverStranded(l)
    <3>1. \A r \in Runs :
            /\ row'[r].auto = row[r].auto
            /\ \/ row'[r].status = row[r].status
               \/ row[r].status # "none" /\ row'[r].status \in {"succeeded", "failed"}
      BY <1>1, <2>1 DEF RecoverStranded, RunRow
    <3>2. \A a \in Autos : Steady(a)
      BY <2>1 DEF RecoverStranded, Steady, Exists
    <3> QED
      BY <3>1, <3>2, CountSteady
  <2>2. CASE Tick(l) \/ \E a \in Autos : FireNothing(l, a)
    BY <1>2, <2>2 DEF Tick, FireNothing
  <2>3. ASSUME NEW a \in Autos, NEW r \in Runs, Fire(l, a, r) PROVE RowsMatch' /\ RunsCounted'
    BY <2>3, CountBegun DEF Fire, Triggers
  <2> QED
    BY <1>4, <2>1, <2>2, <2>3 DEF LoopStep
<1>5. ASSUME NEW b \in Autos, ComesDue(b) PROVE RowsMatch' /\ RunsCounted'
  <2>1. row' = row /\ \A a \in Autos : Steady(a)
    BY <1>1, <1>5 DEF ComesDue, Steady, Exists, Definition
  <2> QED
    BY <2>1, CountSteady
<1>6. CASE SpawnLoop \/ LoseMemory \/ UNCHANGED autoVars
  BY <1>2, <1>6 DEF SpawnLoop, LoseMemory, autoVars
<1> QED
  BY <1>3, <1>4, <1>5, <1>6, CountUser DEF AutoNext, AutoStep

\* execution_count is the number of run rows, whatever overlaps or crashes.
THEOREM RunsAreCounted == AutoSpec => []RunsCounted
<1>1. CInv => RunsCounted
  BY DEF CInv
<1> QED
  BY <1>1, CountInit, CountStep, PTL DEF AutoSpec

-----------------------------------------------------------------------------
(* Open rows *)

\* what a request awaits is a manual run
Awaited == \A r \in Runs : work[r].awaited => row[r].kind = "manual"

OInv == CInv /\ Awaited /\ OpenRunsLive

\* No row is open at first.
LEMMA OpenInit == AutoInit => OInv
BY CountInit DEF OInv, Awaited, OpenRunsLive, AutoInit, Idle

\* A step of no loop that opens no row but of an execution that goes on, or of a
\* manual run that is dropped.
LEMMA OpenSteady ==
  ASSUME OInv, loop' = loop,
         \A r \in Runs :
           row'[r].status = "running" =>
             \/ work'[r].phase \in Busy
             \/ row[r].status = "running" /\ work'[r].phase = work[r].phase
                  /\ row'[r].kind = row[r].kind
             \/ work'[r].phase = "dropped" /\ row'[r].kind = "manual"
  PROVE  OpenRunsLive'
BY DEF OInv, OpenRunsLive, Recovering

\* A row is opened with its execution.
LEMMA OpenBegun ==
  ASSUME OInv, NEW b \in Autos, NEW s \in Runs, NEW k, NEW w, w => k = "manual",
         BeginRun(b, s, k, w), loop' = loop
  PROVE  OpenRunsLive' /\ Awaited'
<1>1. row \in [Runs -> RunRow] /\ work \in [Runs -> Execution]
  BY DEF OInv, CInv, AutoTypeOK
<1>2. /\ work'[s].phase = "exec" /\ work'[s].awaited = w /\ row'[s].kind = k
      /\ \A r \in Runs : r # s => row'[r] = row[r] /\ work'[r] = work[r]
  BY <1>1 DEF BeginRun
<1>3. Awaited'
  BY <1>2 DEF OInv, Awaited
<1> QED
  BY <1>2, <1>3, OpenSteady DEF Busy

\* An execution closes its row when it ends, unless it is dropped.
LEMMA OpenRun ==
  ASSUME OInv, NEW s \in Runs, RunStep(s)
  PROVE  OpenRunsLive' /\ Awaited'
<1>1. /\ row \in [Runs -> RunRow] /\ work \in [Runs -> Execution]
      /\ row[s] \in RunRow /\ work[s] \in Execution
  BY DEF OInv, CInv, AutoTypeOK
<1>2. CASE FinishRun(s)
  <2>1. /\ loop' = loop /\ ~work'[s].awaited
        /\ \A r \in Runs : r # s => row'[r] = row[r] /\ work'[r] = work[r]
    BY <1>1, <1>2 DEF FinishRun, Idle
  <2>2. row'[s].status # "running"
    <3>1. CASE Exists(row[s].auto)
      BY <1>1, <1>2, <3>1 DEF FinishRun, RunRow
    <3>2. CASE ~Exists(row[s].auto)
      BY <1>2, <3>2 DEF FinishRun, OInv, CInv, RowsMatch
    <3> QED
      BY <3>1, <3>2
  <2>3. Awaited'
    BY <2>1 DEF OInv, Awaited
  <2> QED
    BY <2>1, <2>2, <2>3, OpenSteady
<1>3. ASSUME NEW ok \in BOOLEAN, ExecEnds(s, ok) \/ Verdict(s, ok)
      PROVE  OpenRunsLive' /\ Awaited'
  <2>1. work'[s].phase \in Busy /\ work'[s].awaited = work[s].awaited
    <3>1. CASE ExecEnds(s, ok)
      BY <1>1, <3>1 DEF ExecEnds, Execution, Busy
    <3>2. CASE Verdict(s, ok)
      <4>1. /\ Rejected(work[s]).phase \in {"exec", "finish"}
            /\ Rejected(work[s]).awaited = work[s].awaited
        BY <1>1 DEF Rejected, Execution
      <4>2. LET v == [work[s] EXCEPT !.phase = "finish", !.passed = work[s].gen]
            IN  v.phase = "finish" /\ v.awaited = work[s].awaited
        BY <1>1 DEF Execution
      <4>3. \/ work'[s] = [work[s] EXCEPT !.phase = "finish", !.passed = work[s].gen]
            \/ work'[s] = Rejected(work[s])
        BY <1>1, <3>2 DEF Verdict
      <4> QED
        BY <4>1, <4>2, <4>3 DEF Busy
    <3> QED
      BY <1>3, <3>1, <3>2
  <2>2. \A r \in Runs : r # s => work'[r] = work[r]
    BY <1>1, <1>3 DEF ExecEnds, Verdict
  <2>3. loop' = loop /\ row' = row
    BY <1>3 DEF ExecEnds, Verdict, store
  <2>4. Awaited'
    BY <2>1, <2>2, <2>3 DEF OInv, Awaited
  <2> QED
    BY <2>1, <2>2, <2>3, <2>4, OpenSteady
<1>4. CASE HangUp(s)
  <2>1. /\ loop' = loop /\ row' = row /\ work[s].awaited
        /\ work'[s].phase = "dropped" /\ ~work'[s].awaited
        /\ \A r \in Runs : r # s => work'[r] = work[r]
    BY <1>1, <1>4 DEF HangUp, Idle, store
  <2>2. Awaited' /\ row'[s].kind = "manual"
    BY <2>1 DEF OInv, Awaited
  <2> QED
    BY <2>1, <2>2, OpenSteady
<1> QED
  BY <1>2, <1>3, <1>4 DEF RunStep

\* Every step keeps open rows live, once recovery has run.
LEMMA OpenStep == OInv /\ [AutoNext]_autoVars => OInv'
<1> SUFFICES ASSUME OInv, [AutoNext]_autoVars
             PROVE  OpenRunsLive' /\ Awaited'
  BY CountStep DEF OInv
<1>1. row \in [Runs -> RunRow] /\ loop \in [Loops -> {"off", "recovering", "ticking"}]
  BY DEF OInv, CInv, AutoTypeOK
<1>2. ASSUME row' = row, UNCHANGED <<work, loop>> PROVE OpenRunsLive' /\ Awaited'
  <2>1. Awaited'
    BY <1>2 DEF OInv, Awaited
  <2> QED
    BY <1>2, <2>1, OpenSteady
<1>3. ASSUME NEW b \in Autos, DeleteAutomation(b) PROVE OpenRunsLive' /\ Awaited'
  <2>1. \A r \in Runs : /\ row'[r].status = "running" => row[r].status = "running"
                        /\ row'[r].kind = row[r].kind
    BY <1>1, <1>3 DEF DeleteAutomation, RunRow
  <2>2. work' = work /\ loop' = loop
    BY <1>3 DEF DeleteAutomation, memory
  <2>3. Awaited'
    BY <2>1, <2>2 DEF OInv, Awaited
  <2> QED
    BY <2>1, <2>2, <2>3, OpenSteady
<1>4. CASE UserStep
  <2>1. ASSUME NEW b \in Autos, NEW r \in Runs, RunNow(b, r) PROVE OpenRunsLive' /\ Awaited'
    BY <2>1, OpenBegun DEF RunNow
  <2>2. ASSUME NEW b \in Autos,
               \/ CreateAutomation(b) \/ Activate(b)
               \/ \E s \in Statuses : SetStatus(b, s)
               \/ \E t \in Triggers, m \in Ceilings : SetTrigger(b, t, m)
               \/ \E v \in Gates : SetVerify(b, v)
        PROVE  row' = row /\ UNCHANGED <<work, loop>>
    BY <2>2 DEF CreateAutomation, Activate, SetStatus, SetTrigger, SetVerify, memory
  <2> QED
    BY <1>2, <1>3, <1>4, <2>1, <2>2 DEF UserStep
<1>5. ASSUME NEW l \in Loops, LoopStep(l) PROVE OpenRunsLive' /\ Awaited'
  <2>1. CASE RecoverStranded(l)
    <3>1. \A r \in Runs : row'[r].status # "running" /\ row'[r].kind = row[r].kind
      BY <1>1, <2>1 DEF RecoverStranded, RunRow
    <3>2. Awaited'
      BY <2>1, <3>1 DEF RecoverStranded, OInv, Awaited
    <3> QED
      BY <3>1, <3>2 DEF OpenRunsLive
  <2>2. CASE Tick(l) \/ \E a \in Autos : FireNothing(l, a)
    BY <1>2, <2>2 DEF Tick, FireNothing, store
  <2>3. ASSUME NEW a \in Autos, NEW r \in Runs, Fire(l, a, r) PROVE OpenRunsLive' /\ Awaited'
    BY <2>3, OpenBegun DEF Fire
  <2> QED
    BY <1>5, <2>1, <2>2, <2>3 DEF LoopStep
<1>6. CASE SpawnLoop
  <2>1. CASE UNCHANGED loop
    BY <1>2, <1>6, <2>1 DEF SpawnLoop, store
  <2>2. ASSUME NEW l \in Loops, loop' = [loop EXCEPT ![l] = "recovering"] PROVE OpenRunsLive'
    BY <1>1, <2>2 DEF OpenRunsLive, Recovering
  <2>3. Awaited'
    BY <1>6 DEF SpawnLoop, store, OInv, Awaited
  <2> QED
    BY <1>6, <2>1, <2>2, <2>3 DEF SpawnLoop
<1>7. CASE LoseMemory
  <2>1. Awaited'
    BY <1>7 DEF LoseMemory, Idle, store, OInv, Awaited
  <2> QED
    BY <1>7, <2>1 DEF LoseMemory, OpenRunsLive
<1>8. CASE UNCHANGED autoVars \/ \E a \in Autos : ComesDue(a)
  BY <1>2, <1>8 DEF ComesDue, autoVars, store, memory
<1> QED
  BY <1>4, <1>5, <1>6, <1>7, <1>8, OpenRun DEF AutoNext, AutoStep

\* Once recovery has run, an open row belongs to an execution that goes on, or
\* to a manual run whose client hung up on this process (handle_automation_run).
THEOREM RowsOpenAreLive == AutoSpec => []OpenRunsLive
<1>1. OInv => OpenRunsLive
  BY DEF OInv
<1> QED
  BY <1>1, OpenInit, OpenStep, PTL DEF AutoSpec

-----------------------------------------------------------------------------
(* The supervisor *)

\* nothing is left of a process that is not there
Forgotten == ~Up => ~pending /\ retries = 0 /\ burst = 0

\* what is left of the budget: a pending restart was counted before it is tried,
\* and a server that ran stably starts from nothing
Spending ==
  /\ Watching => retries <= MaxRetries /\ burst <= retries
  /\ Watching /\ pending => burst + 1 <= retries
  /\ Watching /\ web \in {"serving", "ended"} /\ stable => burst = 0
  /\ Watching /\ web = "absent" => ~pending

SInv == SupTypeOK /\ Forgotten /\ NeverForgotten /\ Spending /\ RestartsBounded

\* Nothing is pending and nothing spent at first.
LEMMA SupervisedInit == SupInit => SInv
<1> SUFFICES ASSUME SupInit
             PROVE  SInv
  OBVIOUS
<1>1. pending \in BOOLEAN /\ stable \in BOOLEAN /\ signalled \in BOOLEAN
  BY Zenon DEF SupInit
<1>2. SupTypeOK
  BY <1>1, SupervisorAssumption DEF SupInit, SupTypeOK
<1>3. Forgotten /\ NeverForgotten /\ Spending /\ RestartsBounded
  BY SupervisorAssumption
     DEF SupInit, Forgotten, NeverForgotten, Spending, RestartsBounded, Up, Watching
<1> QED
  BY <1>2, <1>3 DEF SInv

\* Nothing is asked of a process whose supervisor has returned but its types and
\* its budget.
LEMMA SupervisedWatch == SInv /\ WatchStep => SInv'
<1> SUFFICES ASSUME SInv, WatchStep
             PROVE  SInv'
  OBVIOUS
<1> USE SupervisorAssumption
<1>1. CASE SeeSignal
  BY <1>1 DEF SInv, SeeSignal, SupTypeOK, Forgotten, NeverForgotten, Spending, RestartsBounded,
              Up, Watching
<1>2. CASE SeeCriticalEnd
  BY <1>2 DEF SInv, SeeCriticalEnd, SupTypeOK, Forgotten, NeverForgotten, Spending,
              RestartsBounded, Up, Watching
<1>3. CASE SeeWebEnd
  <2>1. /\ Counted \in 0 .. MaxRetries + 1 /\ Counted \in Nat
        /\ burst + 1 <= Counted
    BY <1>3 DEF Counted, SInv, SeeWebEnd, SupTypeOK, Spending
  <2>2. CASE Counted > MaxRetries
    BY <1>3, <2>1, <2>2 DEF SInv, SeeWebEnd, SupTypeOK, Forgotten, NeverForgotten, Spending,
                            RestartsBounded, Up, Watching
  <2>3. CASE ~(Counted > MaxRetries)
    BY <1>3, <2>1, <2>3 DEF SInv, SeeWebEnd, SupTypeOK, Forgotten, NeverForgotten, Spending,
                            RestartsBounded, Up, Watching
  <2> QED
    BY <2>2, <2>3
<1> QED
  BY <1>1, <1>2, <1>3 DEF WatchStep

\* What happens around the supervisor spends nothing.
LEMMA SupervisedSurroundings == SInv /\ Surroundings => SInv'
<1> SUFFICES ASSUME SInv, Surroundings
             PROVE  SInv'
  OBVIOUS
<1> USE SupervisorAssumption
<1>1. CASE WebEnds
  BY <1>1 DEF SInv, WebEnds, SupTypeOK, Forgotten, NeverForgotten, Spending, RestartsBounded,
              Up, Watching
<1>2. CASE RanStably
  BY <1>2 DEF SInv, RanStably, SupTypeOK, Forgotten, NeverForgotten, Spending, RestartsBounded,
              Up, Watching
<1>3. CASE Signal
  BY <1>3 DEF SInv, Signal, SupTypeOK, Forgotten, NeverForgotten, Spending, RestartsBounded,
              Up, Watching
<1>4. ASSUME NEW c \in Critical, CriticalEnds(c) PROVE SInv'
  BY <1>4 DEF SInv, CriticalEnds, SupTypeOK, Forgotten, NeverForgotten, Spending,
              RestartsBounded, Up, Watching
<1> QED
  BY <1>1, <1>2, <1>3, <1>4 DEF Surroundings

\* A start, failed or not, spends what was pending.
LEMMA SupervisedStart == SInv /\ StartStep => SInv'
<1> SUFFICES ASSUME SInv, StartStep
             PROVE  SInv'
  OBVIOUS
<1> USE SupervisorAssumption
<1>1. CASE RestartWeb
  <2>1. pending' \in BOOLEAN /\ stable' \in BOOLEAN
    BY <1>1, Zenon DEF RestartWeb
  <2>2. SupTypeOK'
    BY <1>1, <2>1 DEF SInv, RestartWeb, SupTypeOK
  <2>3. Forgotten' /\ NeverForgotten' /\ Spending' /\ RestartsBounded'
    BY <1>1 DEF SInv, RestartWeb, TimerFires, SupTypeOK, Forgotten, NeverForgotten, Spending,
                RestartsBounded, Up, Watching
  <2> QED
    BY <2>2, <2>3 DEF SInv
<1>2. CASE RestartFails
  <2>1. CASE retries + 1 > MaxRetries
    <3>1. pending' \in BOOLEAN
      BY <1>2, <2>1, Zenon DEF RestartFails
    <3>2. SupTypeOK'
      BY <1>2, <2>1, <3>1 DEF SInv, RestartFails, TimerFires, SupTypeOK, Spending
    <3>3. Forgotten' /\ NeverForgotten' /\ Spending' /\ RestartsBounded'
      BY <1>2, <2>1 DEF SInv, RestartFails, TimerFires, SupTypeOK, Forgotten, NeverForgotten,
                        Spending, RestartsBounded, Up, Watching
    <3> QED
      BY <3>2, <3>3 DEF SInv
  <2>2. CASE ~(retries + 1 > MaxRetries)
    BY <1>2, <2>2 DEF SInv, RestartFails, TimerFires, SupTypeOK, Forgotten, NeverForgotten,
                      Spending, RestartsBounded, Up, Watching
  <2> QED
    BY <2>1, <2>2
<1>3. ASSUME NEW started \in BOOLEAN, Boot(started) PROVE SInv'
  BY <1>3 DEF SInv, Boot, SupTypeOK, Forgotten, NeverForgotten, Spending, RestartsBounded,
              Up, Watching
<1> QED
  BY <1>1, <1>2, <1>3 DEF StartStep

\* Every step keeps the supervisor's account.
LEMMA SupervisedStep == SInv /\ [SupNext]_supVars => SInv'
<1> SUFFICES ASSUME SInv, [SupNext]_supVars
             PROVE  SInv'
  OBVIOUS
<1>1. CASE EndStep
  <2>1. Gone
    BY <1>1 DEF EndStep, Exit, Abort
  <2>2. pending' \in BOOLEAN /\ stable' \in BOOLEAN /\ signalled' \in BOOLEAN
    BY <2>1, Zenon DEF Gone
  <2>3. SupTypeOK'
    BY <2>1, <2>2, SupervisorAssumption DEF SInv, Gone, SupTypeOK
  <2>4. Forgotten' /\ NeverForgotten' /\ Spending' /\ RestartsBounded'
    BY <2>1, SupervisorAssumption
       DEF Gone, Forgotten, NeverForgotten, Spending, RestartsBounded, Up, Watching
  <2> QED
    BY <2>3, <2>4 DEF SInv
<1>2. CASE UNCHANGED supVars
  BY <1>2 DEF supVars, SInv, SupTypeOK, Forgotten, NeverForgotten, Spending, RestartsBounded,
              Up, Watching
<1> QED
  BY <1>1, <1>2, SupervisedWatch, SupervisedSurroundings, SupervisedStart DEF SupNext

\* The web server is never forgotten and a crash loop ends, whatever the budget
\* is and whatever else the supervisor watches.
THEOREM WebIsSupervised == SupSpec => [](SupTypeOK /\ NeverForgotten /\ RestartsBounded)
<1>1. SInv => SupTypeOK /\ NeverForgotten /\ RestartsBounded
  BY DEF SInv
<1> QED
  BY <1>1, SupervisedInit, SupervisedStep, PTL DEF SupSpec

\* While the supervisor watches, a web server that is gone has its restart
\* scheduled and one that is tracked has not, through every end, failed start,
\* timer and restart of the process (TaskSupervisor::run, restart_web).
THEOREM WebNeverForgotten == SupSpec => []NeverForgotten
<1>1. SInv => NeverForgotten
  BY DEF SInv
<1> QED
  BY <1>1, SupervisedInit, SupervisedStep, PTL DEF SupSpec

-----------------------------------------------------------------------------
(* The daemon *)

\* The daemon runs the automations: what it adds is steps they do not see.
THEOREM DaemonRunsAutomations == DaemonSpec => AutoSpec
<1>1. DaemonInit => AutoInit
  BY DEF DaemonInit
<1>2. [DaemonNext]_vars => [AutoNext]_autoVars
  BY DEF DaemonNext, StartSurface, Supervise, EndProcess, Automate, AutoNext, vars
<1> QED
  BY <1>1, <1>2, PTL DEF DaemonSpec, AutoSpec

\* The daemon is supervised: no step of the automations touches the supervisor.
THEOREM DaemonSupervises == DaemonSpec => SupSpec
<1>1. DaemonInit => SupInit
  BY DEF DaemonInit
<1>2. [DaemonNext]_vars => [SupNext]_supVars
  BY DEF DaemonNext, StartSurface, Supervise, EndProcess, Automate, SupNext, vars
<1> QED
  BY <1>1, <1>2, PTL DEF DaemonSpec, SupSpec

\* What the two promise, the daemon keeps.
THEOREM DaemonKeepsPromises ==
  DaemonSpec =>
    /\ []DaemonTypeOK
    /\ [](ScheduleKept /\ RunsCounted /\ OpenRunsLive)
    /\ VerifiedSuccess
    /\ [](NeverForgotten /\ RestartsBounded)
<1>1. AutoTypeOK /\ SupTypeOK => DaemonTypeOK
  BY DEF DaemonTypeOK
<1> QED
  BY <1>1, DaemonRunsAutomations, DaemonSupervises, AutoTypes, SchedulesKept, RunsAreCounted,
     RowsOpenAreLive, SuccessesVerified, WebIsSupervised, PTL

-----------------------------------------------------------------------------
(* What recovery does to the runs of its own process *)

AllIdle == \A r \in Runs : work[r].phase \notin Busy

\* no loop recovers while the process executes a run
RecoversIdle == \A l \in Loops : RecoverStranded(l) => AllIdle

\* A step that changes no row but those it opens, and executes no other run.
LEMMA LiveSteady ==
  ASSUME LiveRunsOpen,
         \A r \in Runs :
           work'[r].phase \in Busy =>
             \/ row'[r].status \in {"running", "deleted"}
             \/ row'[r].status = row[r].status /\ work[r].phase \in Busy
  PROVE  LiveRunsOpen'
BY DEF LiveRunsOpen

\* Only recovery closes the row of a run that goes on (recover_stranded).
LEMMA LiveStep ==
  ASSUME AutoTypeOK, LiveRunsOpen, [AutoNext]_autoVars, [RecoversIdle]_autoVars
  PROVE  LiveRunsOpen'
<1>1. /\ row \in [Runs -> RunRow] /\ work \in [Runs -> Execution]
      /\ \A r \in Runs : row[r] \in RunRow /\ work[r] \in Execution
  BY DEF AutoTypeOK
<1>2. ASSUME UNCHANGED <<row, work>> PROVE LiveRunsOpen'
  BY <1>2, LiveSteady
<1>3. ASSUME NEW b \in Autos, NEW s \in Runs, NEW k, NEW w, BeginRun(b, s, k, w)
      PROVE  LiveRunsOpen'
  <2>1. /\ row'[s].status = "running"
        /\ \A r \in Runs : r # s => row'[r] = row[r] /\ work'[r] = work[r]
    BY <1>1, <1>3 DEF BeginRun
  <2> QED
    BY <2>1, LiveSteady
<1>4. CASE UserStep
  <2>1. ASSUME NEW b \in Autos, NEW r \in Runs, RunNow(b, r) PROVE LiveRunsOpen'
    BY <1>3, <2>1 DEF RunNow
  <2>2. ASSUME NEW b \in Autos, DeleteAutomation(b) PROVE LiveRunsOpen'
    <3>1. \A r \in Runs : row'[r].status = "deleted" \/ row'[r] = row[r]
      BY <1>1, <2>2 DEF DeleteAutomation, RunRow
    <3>2. work' = work
      BY <2>2 DEF DeleteAutomation, memory
    <3> QED
      BY <3>1, <3>2, LiveSteady
  <2>3. ASSUME NEW b \in Autos,
               \/ CreateAutomation(b) \/ Activate(b)
               \/ \E s \in Statuses : SetStatus(b, s)
               \/ \E t \in Triggers, m \in Ceilings : SetTrigger(b, t, m)
               \/ \E v \in Gates : SetVerify(b, v)
        PROVE  UNCHANGED <<row, work>>
    BY <2>3 DEF CreateAutomation, Activate, SetStatus, SetTrigger, SetVerify, memory
  <2> QED
    BY <1>2, <1>4, <2>1, <2>2, <2>3 DEF UserStep
<1>5. ASSUME NEW s \in Runs, RunStep(s) PROVE LiveRunsOpen'
  <2>1. CASE FinishRun(s) \/ HangUp(s)
    <3>1. /\ work'[s].phase \in {"done", "dropped"}
          /\ \A r \in Runs : r # s => row'[r] = row[r] /\ work'[r] = work[r]
      BY <1>1, <2>1 DEF FinishRun, HangUp, Idle, store
    <3> QED
      BY <3>1, LiveSteady DEF Busy
  <2>2. ASSUME NEW ok \in BOOLEAN, ExecEnds(s, ok) \/ Verdict(s, ok) PROVE LiveRunsOpen'
    <3>1. /\ row' = row /\ work[s].phase \in Busy
          /\ \A r \in Runs : r # s => work'[r] = work[r]
      BY <1>1, <2>2 DEF ExecEnds, Verdict, store, Busy
    <3> QED
      BY <3>1, LiveSteady
  <2> QED
    BY <1>5, <2>1, <2>2 DEF RunStep
<1>6. ASSUME NEW l \in Loops, LoopStep(l) PROVE LiveRunsOpen'
  <2>1. CASE RecoverStranded(l)
    <3>1. autoVars' # autoVars
      BY <2>1 DEF RecoverStranded, autoVars, memory, AutoTypeOK
    <3>2. AllIdle /\ work' = work
      BY <2>1, <3>1 DEF RecoversIdle, RecoverStranded
    <3> QED
      BY <3>2 DEF AllIdle, LiveRunsOpen
  <2>2. CASE Tick(l) \/ \E a \in Autos : FireNothing(l, a)
    BY <1>2, <2>2 DEF Tick, FireNothing, store
  <2>3. ASSUME NEW a \in Autos, NEW r \in Runs, Fire(l, a, r) PROVE LiveRunsOpen'
    BY <1>3, <2>3 DEF Fire
  <2> QED
    BY <1>6, <2>1, <2>2, <2>3 DEF LoopStep
<1>7. CASE LoseMemory
  <2>1. \A r \in Runs : work'[r].phase \notin Busy
    BY <1>7 DEF LoseMemory, Idle, Busy
  <2> QED
    BY <2>1, LiveSteady
<1>8. CASE SpawnLoop \/ UNCHANGED autoVars \/ \E a \in Autos : ComesDue(a)
  BY <1>2, <1>8 DEF SpawnLoop, ComesDue, autoVars, store, memory
<1> QED
  BY <1>4, <1>5, <1>6, <1>7, <1>8 DEF AutoNext, AutoStep

\* A run under way stays open in the store as long as no tick loop recovers
\* while one is executed: begin_run, finish_run, edits, deletions, overlaps and
\* the end of the process never part the two.
THEOREM IdleRecoveryKeepsRuns == AutoSpec /\ [][RecoversIdle]_autoVars => []LiveRunsOpen
<1>1. AutoInit => LiveRunsOpen
  BY DEF AutoInit, LiveRunsOpen, Idle, Busy
<1>2. AutoTypeOK /\ LiveRunsOpen /\ [AutoNext]_autoVars /\ [RecoversIdle]_autoVars => LiveRunsOpen'
  BY LiveStep
<1> QED
  BY <1>1, <1>2, AutoTypes, PTL DEF AutoSpec

\* the web surface is started with the process and never again in it
StartedOnce == ~RestartWeb /\ ~RestartFails

\* there are no loops and no executions outside the process, and a loop that
\* recovers is the first thing in it
FirstThing ==
  /\ Recovering => AllIdle
  /\ ~Up => AllIdle /\ \A l \in Loops : loop[l] = "off"

\* With one start of the surface for each process and no request before its
\* recovery, recovery runs before the process executes anything.
LEMMA FirstThingStep ==
  ASSUME ~EarlyRequests, AutoTypeOK, FirstThing, [DaemonNext]_vars, [StartedOnce]_vars
  PROVE  FirstThing' /\ [RecoversIdle]_autoVars
<1>0. loop \in [Loops -> {"off", "recovering", "ticking"}]
  BY DEF AutoTypeOK
<1>1. RecoversIdle
  BY DEF RecoversIdle, RecoverStranded, FirstThing, Recovering
<1>2. CASE EndProcess
  <2>1. LoseMemory
    BY <1>2 DEF EndProcess
  <2>2. AllIdle'
    BY <2>1 DEF LoseMemory, AllIdle, Idle, Busy
  <2>3. \A l \in Loops : loop'[l] = "off"
    BY <2>1 DEF LoseMemory
  <2> QED
    BY <1>1, <2>2, <2>3 DEF FirstThing
<1>3. CASE StartSurface /\ StartedOnce
  <2>1. proc = "down" /\ proc' = "up"
    BY <1>3 DEF StartSurface, StartStep, Boot, StartedOnce
  <2>2. work' = work
    BY <1>3 DEF StartSurface, SpawnLoop
  <2> QED
    BY <1>1, <2>1, <2>2 DEF FirstThing, AllIdle, Up
<1>4. CASE Supervise
  <2>1. UNCHANGED <<work, loop>> /\ proc' = proc
    BY <1>4 DEF Supervise, autoVars, memory, WatchStep, Surroundings, SeeSignal, SeeCriticalEnd,
                SeeWebEnd, WebEnds, CriticalEnds, RanStably, Signal
  <2> QED
    BY <1>1, <2>1 DEF FirstThing, AllIdle, Up, Recovering
<1>5. CASE Automate
  <2>1. Up /\ Up' /\ (Recovering => work' = work)
    BY <1>5 DEF Automate, Up, supVars
  <2>2. Recovering' => Recovering
    <3>1. ASSUME NEW l \in Loops, RecoverStranded(l) PROVE Recovering' => Recovering
      BY <3>1 DEF RecoverStranded, Recovering
    <3>2. CASE loop' = loop
      BY <3>2 DEF Recovering
    <3>3. UserStep => loop' = loop
      BY DEF UserStep, CreateAutomation, DeleteAutomation, Activate, SetStatus, SetTrigger,
             SetVerify, RunNow, memory
    <3>4. \A r \in Runs : RunStep(r) => loop' = loop
      BY DEF RunStep, ExecEnds, Verdict, FinishRun, HangUp
    <3>5. ASSUME NEW l \in Loops, LoopStep(l) PROVE RecoverStranded(l) \/ loop' = loop
      BY <3>5 DEF LoopStep, Tick, Fire, FireNothing
    <3>6. \A a \in Autos : ComesDue(a) => loop' = loop
      BY DEF ComesDue, memory
    <3> QED
      BY <1>5, <3>1, <3>2, <3>3, <3>4, <3>5, <3>6 DEF Automate, AutoStep
  <2> QED
    BY <1>1, <2>1, <2>2 DEF FirstThing, AllIdle
<1>6. CASE UNCHANGED vars
  BY <1>1, <1>6 DEF vars, autoVars, memory, supVars, FirstThing, AllIdle, Up, Recovering
<1> QED
  BY <1>2, <1>3, <1>4, <1>5, <1>6 DEF DaemonNext

\* What makes the daemon disown runs it still executes is a second start of the
\* web surface: without a restart of it in the process, and with no request
\* served before the recovery, a run under way is open in the store.
THEOREM OneStartKeepsRuns ==
  ~EarlyRequests => (DaemonSpec /\ [][StartedOnce]_vars => []LiveRunsOpen)
<1> SUFFICES ASSUME ~EarlyRequests
             PROVE  DaemonSpec /\ [][StartedOnce]_vars => []LiveRunsOpen
  OBVIOUS
<1>1. DaemonInit => FirstThing
  BY DEF DaemonInit, AutoInit, SupInit, FirstThing, AllIdle, Recovering, Idle, Busy, Up
<1>2. AutoTypeOK /\ FirstThing /\ [DaemonNext]_vars /\ [StartedOnce]_vars
        => FirstThing' /\ [RecoversIdle]_autoVars
  BY FirstThingStep
<1> QED
  BY <1>1, <1>2, AutoTypes, DaemonRunsAutomations, IdleRecoveryKeepsRuns, PTL DEF DaemonSpec

=============================================================================
