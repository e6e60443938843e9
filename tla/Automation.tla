------------------------------- MODULE Automation -------------------------------
(***************************************************************************)
(* Automations: definitions and run rows in SQLite (AutomationStore), the  *)
(* executions of runs in memory (execute_automation_run), and the tick     *)
(* loops that the web surface spawns at every start.                       *)
(*                                                                         *)
(* A store method is one step: it holds the connection's lock, and the     *)
(* ones that read before they write hold SQLite's write lock.  Between two *)
(* of them anything may happen: edits, other runs, a second tick loop, the *)
(* end of the process.  def and row survive the process, work, loop and    *)
(* fires do not.                                                           *)
(*                                                                         *)
(* Time is where next_run_at stands: NULL, in the future, or due.  Cron    *)
(* and heartbeat triggers differ only in the instant they compute.         *)
(***************************************************************************)
EXTENDS Naturals, FiniteSets

CONSTANTS
  Autos,     \* automations
  NoAuto,    \* the automation of a run that has not begun
  Runs,      \* run ids, one per run row ever inserted (bound)
  Loops,     \* tick loops alive at the same time, at most (bound)
  Ceilings,  \* values of max_executions; 0 stands for NULL
  Gates,     \* verify settings: 0 off, n on with max(1, max_iterations) = n
  MaxEdits   \* calls of users and of the automation tool, at most (bound)

ASSUME AutomationAssumption ==
  /\ Ceilings \subseteq Nat
  /\ Gates \subseteq Nat
  /\ MaxEdits \in Nat
  /\ IsFiniteSet(Runs)
  /\ NoAuto \notin Autos

VARIABLES
  def,     \* rows of automations
  row,     \* rows of automation_runs
  work,    \* executions: what a task of execute_automation_run is doing
  loop,    \* tick loops
  fires,   \* tasks a loop spawned that have not called begin_run
  edits,   \* calls of users so far
  lapsed   \* something that may stop the schedule happened since the user
           \* last armed it (history)

store    == <<def, row>>
memory   == <<work, loop, fires>>
autoVars == <<store, memory, edits, lapsed>>

Statuses == {"active", "paused", "exhausted", "failed"}
Triggers == {"manual", "scheduled"}
Slots    == {"none", "future", "due"}
Busy     == {"exec", "verify", "finish"}

Definition == [status : Statuses \cup {"new", "deleted"}, trigger : Triggers,
               slot : Slots, count : Nat, max : Ceilings \cup {0}, verify : Gates \cup {0}]
RunRow == [auto : Autos \cup {NoAuto}, kind : Triggers,
           status : {"none", "running", "succeeded", "failed", "deleted"}]

\* results judged by one run: one more than its repairs
Attempts  == {0, 1} \cup UNION {1 .. n : n \in Gates}
\* awaited: the handler of a request runs it, and not a task of its own
Execution == [phase : Busy \cup {"idle", "done", "dropped", "lost"}, awaited : BOOLEAN,
              verify : Gates \cup {0}, gen : Attempts, passed : Attempts, ok : BOOLEAN]

AutoTypeOK ==
  /\ def \in [Autos -> Definition]
  /\ row \in [Runs -> RunRow]
  /\ work \in [Runs -> Execution]
  /\ loop \in [Loops -> {"off", "recovering", "ticking"}]
  /\ fires \in [Loops -> SUBSET Autos]
  /\ edits \in 0 .. MaxEdits
  /\ lapsed \in [Autos -> BOOLEAN]

Exists(a) == a \in Autos /\ def[a].status \in Statuses

\* nothing in memory
Idle(phase) == [phase |-> phase, awaited |-> FALSE, verify |-> 0, gen |-> 0, passed |-> 0,
                ok |-> FALSE]

\* a definition that has no row
NoRow(status) == [status |-> status, trigger |-> "manual", slot |-> "none",
                  count |-> 0, max |-> 0, verify |-> 0]

AutoInit ==
  /\ def = [a \in Autos |-> NoRow("new")]
  /\ row = [r \in Runs |-> [auto |-> NoAuto, kind |-> "manual", status |-> "none"]]
  /\ work = [r \in Runs |-> Idle("idle")]
  /\ loop = [l \in Loops |-> "off"]
  /\ fires = [l \in Loops |-> {}]
  /\ edits = 0
  /\ lapsed = [a \in Autos |-> FALSE]

-----------------------------------------------------------------------------
(* The store: what users and the automation tool call *)

\* is_exhausted
SpentAt(count, max) == max # 0 /\ count >= max
Spent(a) == SpentAt(def[a].count, def[a].max)

\* next_run_after, from now
NextSlot(trigger) == IF trigger = "manual" THEN "none" ELSE "future"

Edit == edits < MaxEdits /\ edits' = edits + 1

CreateAutomation(a) ==
  /\ def[a].status = "new"
  /\ Edit
  /\ \E t \in Triggers, m \in Ceilings, v \in Gates :
       def' = [def EXCEPT ![a] = [status |-> "active", trigger |-> t, slot |-> NextSlot(t),
                                  count |-> 0, max |-> m, verify |-> v]]
  /\ UNCHANGED <<row, memory, lapsed>>

\* the rows of its runs go with it (ON DELETE CASCADE)
DeleteAutomation(a) ==
  /\ Exists(a)
  /\ Edit
  /\ def' = [def EXCEPT ![a] = NoRow("deleted")]
  /\ row' = [r \in Runs |-> IF row[r].auto = a THEN [row[r] EXCEPT !.status = "deleted"]
                                             ELSE row[r]]
  /\ UNCHANGED <<memory, lapsed>>

\* update_status(Active): refused to a spent definition
Activate(a) ==
  /\ Exists(a) /\ ~Spent(a)
  /\ Edit
  /\ def' = [def EXCEPT ![a].status = "active", ![a].slot = NextSlot(def[a].trigger)]
  /\ lapsed' = [lapsed EXCEPT ![a] = FALSE]
  /\ UNCHANGED <<row, memory>>

\* update_status with any other status the caller names
SetStatus(a, s) ==
  /\ Exists(a) /\ s # "active"
  /\ Edit
  /\ def' = [def EXCEPT ![a].status = s]
  /\ lapsed' = [lapsed EXCEPT ![a] = TRUE]
  /\ UNCHANGED <<row, memory>>

\* set_trigger: an active definition is armed again, any other is dormant
SetTrigger(a, t, m) ==
  /\ Exists(a)
  /\ Edit
  /\ def' = [def EXCEPT ![a].trigger = t, ![a].max = m,
                        ![a].slot = IF def[a].status = "active" THEN NextSlot(t) ELSE "none"]
  /\ lapsed' = [lapsed EXCEPT ![a] = @ \/ SpentAt(def[a].count, m)]
  /\ UNCHANGED <<row, memory>>

SetVerify(a, v) ==
  /\ Exists(a)
  /\ Edit
  /\ def' = [def EXCEPT ![a].verify = v]
  /\ UNCHANGED <<row, memory, lapsed>>

\* the clock passes next_run_at
ComesDue(a) ==
  /\ def[a].slot = "future"
  /\ def' = [def EXCEPT ![a].slot = "due"]
  /\ UNCHANGED <<row, memory, edits, lapsed>>

-----------------------------------------------------------------------------
(* Runs *)

\* Mutant of Begun: runs are counted only against a ceiling
BegunUncounted(d) ==
  [d EXCEPT !.count = IF d.max = 0 THEN @ ELSE @ + 1, !.slot = NextSlot(d.trigger),
            !.status = IF SpentAt(d.count + 1, d.max) THEN "exhausted" ELSE "active"]

\* what begin_run writes to the definition
Begun(d) ==
  [d EXCEPT !.count = @ + 1, !.slot = NextSlot(d.trigger),
            !.status = IF SpentAt(d.count + 1, d.max) THEN "exhausted" ELSE "active"]

\* begin_run: the row with its snapshot and the definition in one transaction
BeginRun(a, r, kind, awaited) ==
  /\ row[r].status = "none"
  /\ row' = [row EXCEPT ![r] = [auto |-> a, kind |-> kind, status |-> "running"]]
  /\ def' = [def EXCEPT ![a] = Begun(def[a])]
  /\ work' = [work EXCEPT ![r] = [phase |-> "exec", awaited |-> awaited,
                                  verify |-> def[a].verify, gen |-> 1, passed |-> 0,
                                  ok |-> FALSE]]
  /\ lapsed' = [lapsed EXCEPT ![a] = @ \/ Begun(def[a]).status = "exhausted"]

\* the run route, which awaits the execution, and the tool's run action, which
\* spawns it: neither looks at the status
RunNow(a, r) ==
  /\ Exists(a)
  /\ Edit
  /\ \E route \in BOOLEAN : BeginRun(a, r, "manual", route)
  /\ UNCHANGED <<loop, fires>>

\* the client of the run route goes away: the server drops the handler's future
\* at the await it stands at, the execution in it, and finish_run is never called
HangUp(r) ==
  /\ work[r].phase \in Busy /\ work[r].awaited
  /\ work' = [work EXCEPT ![r] = Idle("dropped")]
  /\ UNCHANGED <<store, loop, fires, edits, lapsed>>

\* run_bounded for the instruction or for a repair: a failure, an error and the
\* shared deadline end the run
ExecEnds(r, ok) ==
  /\ work[r].phase = "exec"
  /\ work' = [work EXCEPT ![r].phase = IF ok /\ work[r].verify > 0 THEN "verify" ELSE "finish",
                          ![r].ok = ok]
  /\ UNCHANGED <<store, loop, fires, edits, lapsed>>

\* Mutant of Rejected: the last result keeps the success of its execution
RejectedKept(w) ==
  IF w.gen < w.verify THEN [w EXCEPT !.phase = "exec", !.gen = @ + 1]
                      ELSE [w EXCEPT !.phase = "finish"]

\* a verdict that is not PASS: repair while attempts remain, then give up
Rejected(w) ==
  IF w.gen < w.verify THEN [w EXCEPT !.phase = "exec", !.gen = @ + 1]
                      ELSE [w EXCEPT !.phase = "finish", !.ok = FALSE]

Verdict(r, pass) ==
  /\ work[r].phase = "verify"
  /\ work' = [work EXCEPT ![r] = IF pass THEN [@ EXCEPT !.phase = "finish", !.passed = work[r].gen]
                                         ELSE Rejected(@)]
  /\ UNCHANGED <<store, loop, fires, edits, lapsed>>

-----------------------------------------------------------------------------
(* finish_run *)

ManualOnScheduled(a, r) == row[r].kind = "manual" /\ def[a].trigger # "manual"

\* Mutant of Halts: every failure halts the definition
HaltsAlways(a, r) == ~work[r].ok /\ def[a].status # "exhausted"

\* the failures that halt a definition
Halts(a, r) == ~work[r].ok /\ def[a].status # "exhausted" /\ ~ManualOnScheduled(a, r)

\* what finish_run writes to the definition
Outcome(a, r) ==
  IF work[r].ok /\ def[a].status # "exhausted" THEN [def[a] EXCEPT !.status = "active"]
  ELSE IF Halts(a, r) THEN [def[a] EXCEPT !.status = "failed", !.slot = "none"]
  ELSE def[a]

\* the row is closed whatever its status is; if the definition is gone the
\* transaction is rolled back and the error logged
FinishRun(r) ==
  LET a == row[r].auto IN
  /\ work[r].phase = "finish"
  /\ work' = [work EXCEPT ![r] = Idle("done")]
  /\ IF Exists(a)
     THEN /\ row' = [row EXCEPT ![r].status = IF work[r].ok THEN "succeeded" ELSE "failed"]
          /\ def' = [def EXCEPT ![a] = Outcome(a, r)]
          /\ lapsed' = [lapsed EXCEPT ![a] = @ \/ (~work[r].ok /\ ~ManualOnScheduled(a, r))]
     ELSE UNCHANGED <<row, def, lapsed>>
  /\ UNCHANGED <<loop, fires, edits>>

-----------------------------------------------------------------------------
(* Tick loops *)

\* spawn_automation_auto_run; a start with every loop in use adds none (bound)
SpawnLoop ==
  /\ IF \E l \in Loops : loop[l] = "off"
     THEN \E l \in Loops : loop[l] = "off" /\ loop' = [loop EXCEPT ![l] = "recovering"]
     ELSE UNCHANGED loop
  /\ UNCHANGED <<store, work, fires, edits, lapsed>>

\* Mutant of RecoverStranded: only the runs of automations still active
RecoverActive(l) ==
  /\ loop[l] = "recovering"
  /\ loop' = [loop EXCEPT ![l] = "ticking"]
  /\ row' = [r \in Runs |-> IF row[r].status = "running" /\ def[row[r].auto].status = "active"
                            THEN [row[r] EXCEPT !.status = "failed"] ELSE row[r]]
  /\ UNCHANGED <<def, work, fires, edits, lapsed>>

\* recover_stranded, the first thing a loop does
RecoverStranded(l) ==
  /\ loop[l] = "recovering"
  /\ loop' = [loop EXCEPT ![l] = "ticking"]
  /\ row' = [r \in Runs |-> IF row[r].status = "running"
                            THEN [row[r] EXCEPT !.status = "failed"] ELSE row[r]]
  /\ UNCHANGED <<def, work, fires, edits, lapsed>>

Recovering == \E l \in Loops : loop[l] = "recovering"

\* list_due_automations without the spent ones
DueNow == {a \in Autos : def[a].trigger # "manual" /\ def[a].status = "active"
                          /\ def[a].slot = "due" /\ ~Spent(a)}

\* one tick; a minute apart, so that the tasks of the last one have begun
Tick(l) ==
  /\ loop[l] = "ticking"
  /\ fires[l] = {} /\ DueNow # {}
  /\ fires' = [fires EXCEPT ![l] = DueNow]
  /\ UNCHANGED <<store, work, loop, edits, lapsed>>

\* a spawned task begins its run, whatever became of the definition meanwhile
Fire(l, a, r) ==
  /\ a \in fires[l]
  /\ Exists(a)
  /\ fires' = [fires EXCEPT ![l] = @ \ {a}]
  /\ BeginRun(a, r, "scheduled", FALSE)
  /\ UNCHANGED <<loop, edits>>

\* begin_run finds no definition
FireNothing(l, a) ==
  /\ a \in fires[l]
  /\ ~Exists(a)
  /\ fires' = [fires EXCEPT ![l] = @ \ {a}]
  /\ UNCHANGED <<store, work, loop, edits, lapsed>>

\* the process ends
LoseMemory ==
  /\ work' = [r \in Runs |-> IF work[r].phase \in Busy \cup {"dropped"} THEN Idle("lost")
                                                                      ELSE work[r]]
  /\ loop' = [l \in Loops |-> "off"]
  /\ fires' = [l \in Loops |-> {}]
  /\ UNCHANGED <<store, edits, lapsed>>

-----------------------------------------------------------------------------
\* calls from outside, through HTTP or from an agent
UserStep ==
  \E a \in Autos :
    \/ CreateAutomation(a)
    \/ DeleteAutomation(a)
    \/ Activate(a)
    \/ \E s \in Statuses : SetStatus(a, s)
    \/ \E t \in Triggers, m \in Ceilings : SetTrigger(a, t, m)
    \/ \E v \in Gates : SetVerify(a, v)
    \/ \E r \in Runs : RunNow(a, r)

RunStep(r) == \/ \E ok \in BOOLEAN : ExecEnds(r, ok) \/ Verdict(r, ok)
              \/ FinishRun(r) \/ HangUp(r)

LoopStep(l) == \/ RecoverStranded(l)
               \/ Tick(l)
               \/ \E a \in Autos : FireNothing(l, a) \/ \E r \in Runs : Fire(l, a, r)

\* what goes on while the process runs
AutoStep == \/ UserStep
            \/ \E r \in Runs : RunStep(r)
            \/ \E l \in Loops : LoopStep(l)
            \/ \E a \in Autos : ComesDue(a)

AutoNext == AutoStep \/ SpawnLoop \/ LoseMemory

AutoSpec == AutoInit /\ [][AutoNext]_autoVars

-----------------------------------------------------------------------------
(* Properties *)

\* A schedule stops only of what may stop it.  Unless, since the user last
\* armed it, the user set another status, a scheduled run failed, the ceiling
\* was reached or lowered: the definition is active, below its ceiling, and a
\* scheduled one has a next run.  No manual run, failing or not, no edit of the
\* trigger, no overlap of runs and no crash takes it off the schedule.
ScheduleKept ==
  \A a \in Autos :
    Exists(a) /\ ~lapsed[a] =>
      /\ def[a].status = "active" /\ ~Spent(a)
      /\ def[a].trigger = "scheduled" => def[a].slot # "none"

\* With the gate on, a run becomes a success only if a verifier passed the very
\* result it ends with: not an earlier attempt, not an unjudged repair.
VerifiedSuccess ==
  [][\A r \in Runs :
       row[r].status # "succeeded" /\ row'[r].status = "succeeded" /\ work[r].verify > 0
         => work[r].passed = work[r].gen /\ work[r].gen \in 1 .. work[r].verify]_autoVars

\* execution_count is the number of run rows of the definition, whatever
\* overlaps, crashes or is recovered: begin_run is all or nothing.
RunsCounted ==
  \A a \in Autos :
    Exists(a) => def[a].count = Cardinality({r \in Runs : row[r].auto = a})

\* No run is left open behind the daemon's back: once the recovery of a start
\* has run, an open row belongs to an execution that goes on, until the process
\* ends.  Every crash leaves rows open, and only the recovery closes them.  The
\* one exception is a manual run whose client hung up since the process started:
\* its row stays open until the next recovery.  No scheduled run is left so.
OpenRunsLive ==
  (\E l \in Loops : loop[l] = "ticking") /\ ~Recovering =>
    \A r \in Runs : row[r].status = "running" =>
      \/ work[r].phase \in Busy
      \/ work[r].phase = "dropped" /\ row[r].kind = "manual"

\* A run that the process is still executing is open in the store.
LiveRunsOpen ==
  \A r \in Runs :
    work[r].phase \in Busy => row[r].status \in {"running", "deleted"}

=============================================================================
