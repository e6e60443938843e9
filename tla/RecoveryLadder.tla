---------------------------- MODULE RecoveryLadder ----------------------------
(***************************************************************************)
(* RecoveryCoordinator::execute: one directive taken through the recovery  *)
(* ladder.  L0 runs it once; L1 runs it again on the same model after a    *)
(* backoff; L2 swaps the model along the fallback chain; then the best     *)
(* result is returned.  AttemptBudget bounds the executions in all.        *)
(*                                                                         *)
(* One action is what the ladder does between two awaits.  What a run      *)
(* reports is chosen from the reports BasicSupervisor really builds: a     *)
(* classified failure carries no model and no steps (supervisor.rs), a     *)
(* killed or cancelled agent carries no class.  A user's cancel drops the  *)
(* ladder at any await.  L4 does nothing: no caller of set_a2a_breaker     *)
(* exists, so its guard never matches.                                     *)
(***************************************************************************)
EXTENDS Integers, Sequences, FiniteSets

CONSTANTS
  Models,       \* model ids
  NoModel,      \* the empty model id, also "no override"
  ProviderOf,   \* provider_of: the part of a model id before the slash
  Default,      \* the model the runtime uses when nothing overrides it
  Override,     \* env.model_override, or NoModel
  Fallbacks,    \* engine.fallback_models
  Classes,      \* failure classes the runs may report
  MaxSteps,     \* steps a run completes, at most (bound)
  MaxRetries,   \* max_same_model_retries
  MaxAttempts,  \* max_total_attempts, 0 for no limit
  HealthGated   \* a provider health registry is wired

FailureClasses ==
  {"Transient", "QuotaExhausted", "AuthFailure", "ContextOverflow",
   "ModelUnavailable", "BudgetExceeded", "Unknown"}
NoClass == "none"

ASSUME LadderAssumption ==
  /\ NoModel \notin Models
  /\ Default \in Models
  /\ Override \in Models \cup {NoModel}
  /\ Fallbacks \in Seq(Models)
  /\ Classes \subseteq FailureClasses
  /\ MaxSteps \in Nat
  /\ MaxRetries \in Nat
  /\ MaxAttempts \in Nat
  /\ HealthGated \in BOOLEAN

\* FailureClass::benefits_from_same_model_retry, requires_provider_swap
BenefitsFromRetry    == {"Transient", "Unknown"}
RequiresProviderSwap == {"QuotaExhausted", "AuthFailure"}

\* what lifecycle.execute_directive can return; "ckpt" is a restore_state
Reports ==
  LET Of(kind, classes, steps, ckpts) ==
        [kind : {kind}, class : classes, steps : steps, ckpt : ckpts]
  IN  Of("ok", {NoClass}, 0 .. MaxSteps, {FALSE})
        \cup Of("provider", Classes, {0}, BOOLEAN)
        \cup Of("plain", {NoClass}, 0 .. MaxSteps, {FALSE})
        \cup Of("err", {NoClass}, {0}, {FALSE})

VARIABLES
  enabled,    \* the resilience master switch, as the call read it
  level,      \* where the ladder is, see Levels
  remaining,  \* AttemptBudget.remaining
  attempt,    \* the L1 loop counter
  chain,      \* fallbacks not yet considered
  swap,       \* the model of the L2 run under way
  best,       \* the run whose result is the best so far, by number
  result,     \* the run whose result was returned, 0 for none
  runs,       \* the completed executions, in order (history)
  events      \* RoutingStats: the fallback events recorded

vars ==
  <<enabled, level, remaining, attempt, chain, swap, best, result, runs, events>>

Executing == {"L0", "L1", "L2"}
Awaiting  == Executing \cup {"backoff"}
Ends      == {"returned", "failed", "dropped"}
Levels    == {"start", "restart", "swap"} \cup Awaiting \cup Ends

Run == [kind : {"ok", "provider", "plain", "err"},
        class : FailureClasses \cup {NoClass}, steps : Nat, ckpt : BOOLEAN,
        level : Executing, model : Models, from : Nat]

TypeOK ==
  /\ enabled \in BOOLEAN
  /\ level \in Levels
  /\ remaining \in 0 .. MaxAttempts
  /\ attempt \in 0 .. MaxRetries + 1
  /\ chain \in Seq(Models)
  /\ swap \in Models \cup {NoModel}
  /\ best \in 0 .. Len(runs)
  /\ result \in 0 .. Len(runs)
  /\ runs \in Seq(Run)
  /\ events \in Seq([to : Models, success : BOOLEAN])

Init ==
  /\ enabled \in BOOLEAN
  /\ level = "start"
  /\ remaining = MaxAttempts
  /\ attempt = 0
  /\ chain = <<>>
  /\ swap = NoModel
  /\ best = 0
  /\ result = 0
  /\ runs = <<>>
  /\ events = <<>>

-----------------------------------------------------------------------------
(* The budget, the models and the best result *)

\* AttemptBudget::try_consume
CanConsume == MaxAttempts = 0 \/ remaining > 0
Consume    == remaining' = IF remaining > 0 THEN remaining - 1 ELSE 0

\* env.model_override, else the model of the initial result: a classified
\* failure reports none
Primary == Override
Initial == runs[1]

\* the model an execution really uses under an override
Used(override) == IF override = NoModel THEN Default ELSE override

\* Mutant of BetterOf: the later result wins whatever it achieved
LatestOf(rs, a, b) == IF rs[a].kind = "ok" THEN a ELSE b

\* better_of, on the numbers of two runs
BetterOf(rs, a, b) ==
  IF rs[a].kind # "ok" /\ (rs[b].kind = "ok" \/ rs[b].steps > rs[a].steps)
  THEN b ELSE a

\* the run ends, with one of the reports
Log(r, model, from) ==
  runs' = Append(runs, [kind |-> r.kind, class |-> r.class, steps |-> r.steps,
                        ckpt |-> r.ckpt, level |-> level, model |-> model,
                        from |-> from])

This == Len(runs) + 1   \* the number of the run under way

\* return Ok(...)
Return(n) == level' = "returned" /\ result' = n

\* fallback_models is read once, when L2 begins; an empty chain ends it
BeginSwaps(b) ==
  IF Fallbacks = <<>>
  THEN Return(b) /\ UNCHANGED chain
  ELSE level' = "swap" /\ chain' = Fallbacks /\ UNCHANGED result

-----------------------------------------------------------------------------
(* L0: the initial attempt *)

Start ==
  /\ level = "start"
  /\ level' = "L0"
  /\ IF enabled THEN Consume ELSE UNCHANGED remaining
  /\ UNCHANGED <<enabled, attempt, chain, swap, best, result, runs, events>>

\* a lifecycle error leaves by the question mark
L0Error ==
  /\ level = "L0"
  /\ \E r \in Reports : r.kind = "err" /\ Log(r, Used(Override), 0)
  /\ level' = "failed"
  /\ UNCHANGED <<enabled, remaining, attempt, chain, swap, best, result, events>>

\* success, no classified failure, or no recovery: returned as it is
L0Settled ==
  /\ level = "L0"
  /\ \E r \in Reports :
       /\ r.kind \in {"ok", "plain"} \/ (~enabled /\ r.kind = "provider")
       /\ Log(r, Used(Override), 0)
  /\ Return(1)
  /\ UNCHANGED <<enabled, remaining, attempt, chain, swap, best, events>>

L0Escalates ==
  /\ level = "L0"
  /\ enabled
  /\ best' = 1
  /\ \E r \in Reports :
       /\ r.kind = "provider"
       /\ Log(r, Used(Override), 0)
       /\ IF r.class \in BenefitsFromRetry
          THEN level' = "restart" /\ attempt' = 1 /\ UNCHANGED <<chain, result>>
          ELSE BeginSwaps(1) /\ UNCHANGED attempt
  /\ UNCHANGED <<enabled, remaining, swap, events>>

-----------------------------------------------------------------------------
(* L1: the same model again, after a backoff *)

\* Mutant of Restart: the loop does not draw on the budget
RestartFree ==
  /\ level = "restart"
  /\ attempt <= MaxRetries
  /\ level' = "backoff"
  /\ UNCHANGED <<enabled, remaining, attempt, chain, swap, best, result, runs, events>>

\* the attempt is paid for before the sleep
Restart ==
  /\ level = "restart"
  /\ attempt <= MaxRetries
  /\ CanConsume
  /\ Consume
  /\ level' = "backoff"
  /\ UNCHANGED <<enabled, attempt, chain, swap, best, result, runs, events>>

\* the loop is over, or the budget is
EndRestarts ==
  /\ level = "restart"
  /\ attempt > MaxRetries \/ ~CanConsume
  /\ BeginSwaps(best)
  /\ UNCHANGED <<enabled, remaining, attempt, swap, best, runs, events>>

\* the sleep is over
Wake ==
  /\ level = "backoff"
  /\ level' = "L1"
  /\ UNCHANGED <<enabled, remaining, attempt, chain, swap, best, result, runs, events>>

L1Succeeds ==
  /\ level = "L1"
  /\ \E r \in Reports : r.kind = "ok" /\ Log(r, Used(Override), 0)
  /\ Return(This)
  /\ UNCHANGED <<enabled, remaining, attempt, chain, swap, best, events>>

\* only a class that a retry cannot help ends the loop; no class does not
L1Fails ==
  /\ level = "L1"
  /\ \E r \in Reports :
       /\ r.kind \in {"provider", "plain"}
       /\ Log(r, Used(Override), 0)
       /\ best' = BetterOf(runs', best, This)
       /\ IF r.class \in BenefitsFromRetry \cup {NoClass}
          THEN level' = "restart" /\ attempt' = attempt + 1 /\ UNCHANGED <<chain, result>>
          ELSE BeginSwaps(best') /\ UNCHANGED attempt
  /\ UNCHANGED <<enabled, remaining, swap, events>>

L1Error ==
  /\ level = "L1"
  /\ \E r \in Reports : r.kind = "err" /\ Log(r, Used(Override), 0)
  /\ BeginSwaps(best)
  /\ UNCHANGED <<enabled, remaining, attempt, swap, best, events>>

-----------------------------------------------------------------------------
(* L2: the fallback chain *)

\* Mutant of Ineligible: quota and auth failures stay with the provider
IneligibleModel(m) == m = Primary

\* the failed model itself, or its provider when the class of the initial
\* failure rules the provider out
Ineligible(m) ==
  \/ m = Primary
  \/ /\ Initial.class \in RequiresProviderSwap
     /\ Primary # NoModel
     /\ ProviderOf[m] = ProviderOf[Primary]

\* Mutant of Skip: the candidate is not taken off the chain
SkipNothing ==
  /\ level = "swap"
  /\ chain # <<>>
  /\ Ineligible(Head(chain)) \/ HealthGated
  /\ UNCHANGED vars

\* continue: ineligible, or its provider's breaker reads open just now
Skip ==
  /\ level = "swap"
  /\ chain # <<>>
  /\ Ineligible(Head(chain)) \/ HealthGated
  /\ chain' = Tail(chain)
  /\ UNCHANGED <<enabled, level, remaining, attempt, swap, best, result, runs, events>>

Swap ==
  /\ level = "swap"
  /\ chain # <<>>
  /\ ~Ineligible(Head(chain))
  /\ CanConsume
  /\ Consume
  /\ level' = "L2"
  /\ swap' = Head(chain)
  /\ chain' = Tail(chain)
  /\ UNCHANGED <<enabled, attempt, best, result, runs, events>>

\* Mutant of Checkpoint: that of the last run
CheckpointOfLast == IF runs[Len(runs)].ckpt THEN Len(runs) ELSE 0

\* env2.restore_state: the checkpoint of the best run, if that one has any
Checkpoint == IF runs[best].ckpt THEN best ELSE 0

Recorded(success) == events' = Append(events, [to |-> swap, success |-> success])

\* Mutant of L2Succeeds: the loop goes on to the next candidate
L2SucceedsGoesOn ==
  /\ level = "L2"
  /\ \E r \in Reports : r.kind = "ok" /\ Log(r, swap, Checkpoint)
  /\ Recorded(TRUE)
  /\ best' = BetterOf(runs', best, This)
  /\ level' = "swap"
  /\ UNCHANGED <<enabled, remaining, attempt, chain, swap, result>>

L2Succeeds ==
  /\ level = "L2"
  /\ \E r \in Reports : r.kind = "ok" /\ Log(r, swap, Checkpoint)
  /\ Recorded(TRUE)
  /\ Return(This)
  /\ UNCHANGED <<enabled, remaining, attempt, chain, swap, best>>

L2Fails ==
  /\ level = "L2"
  /\ \E r \in Reports : r.kind \in {"provider", "plain"} /\ Log(r, swap, Checkpoint)
  /\ Recorded(FALSE)
  /\ best' = BetterOf(runs', best, This)
  /\ level' = "swap"
  /\ UNCHANGED <<enabled, remaining, attempt, chain, swap, result>>

L2Error ==
  /\ level = "L2"
  /\ \E r \in Reports : r.kind = "err" /\ Log(r, swap, Checkpoint)
  /\ Recorded(FALSE)
  /\ level' = "swap"
  /\ UNCHANGED <<enabled, remaining, attempt, chain, swap, best, result>>

\* L2 stops short when the budget is exhausted
Exhausted ==
  /\ level = "swap"
  /\ chain # <<>>
  /\ ~Ineligible(Head(chain))
  /\ ~CanConsume
  /\ Return(best)
  /\ UNCHANGED <<enabled, remaining, attempt, chain, swap, best, runs, events>>

\* L5: the chain is exhausted
Terminal ==
  /\ level = "swap"
  /\ chain = <<>>
  /\ Return(best)
  /\ UNCHANGED <<enabled, remaining, attempt, chain, swap, best, runs, events>>

\* the turn is cancelled: the ladder's future is dropped at an await
Drop ==
  /\ level \in Awaiting
  /\ level' = "dropped"
  /\ UNCHANGED <<enabled, remaining, attempt, chain, swap, best, result, runs, events>>

L0 == L0Error \/ L0Settled \/ L0Escalates
L1 == L1Succeeds \/ L1Fails \/ L1Error
L2 == L2Succeeds \/ L2Fails \/ L2Error
Step == \/ Start \/ L0
        \/ Restart \/ EndRestarts \/ Wake \/ L1
        \/ Skip \/ Swap \/ Exhausted \/ L2 \/ Terminal
Next == Step \/ Drop

Spec == Init /\ [][Next]_vars

\* an execution ends: its providers time out, and execute_directive bounds it
FairSpec == Spec /\ WF_vars(Step)

-----------------------------------------------------------------------------
(* Properties *)

\* executions paid for: completed, under way, or waiting out their backoff
Paid == Len(runs) + (IF level \in Awaiting THEN 1 ELSE 0)

Failed(n) == runs[n].kind \in {"provider", "plain"}

\* The budget counts every execution exactly once: what was paid for and what
\* remains always add up to max_total_attempts, whichever layer spent it (a
\* cancelled run is paid for and never completes).
BudgetAddsUp ==
  enabled /\ MaxAttempts > 0 /\ level \notin {"start", "dropped"}
    => Paid + remaining = MaxAttempts

\* No recovery layer starts another run once a run has succeeded, and that
\* run's result is the one returned, not a better-looking earlier one.
SuccessIsFinal ==
  \A n \in 1 .. Len(runs) :
    runs[n].kind = "ok" => n = Len(runs) /\ level = "returned" /\ result = n

\* When every run failed, the result returned is that of the run which got
\* furthest, the earliest of them on a tie, across both layers.
FurthestIsReturned ==
  level = "returned" /\ runs[Len(runs)].kind # "ok"
    => /\ Failed(result)
       /\ \A n \in 1 .. Len(runs) :
            Failed(n) => /\ runs[n].steps <= runs[result].steps
                         /\ n < result => runs[n].steps < runs[result].steps

\* A fallback run leaves the model that failed and, when the failure was
\* about the account, its provider: "don't retry the model that just failed".
SwapLeavesPrimary ==
  \A n \in 1 .. Len(runs) :
    runs[n].level = "L2" =>
      /\ runs[n].model # runs[1].model
      /\ runs[1].class \in RequiresProviderSwap =>
           ProviderOf[runs[n].model] # ProviderOf[runs[1].model]

\* A fallback run continues from a checkpoint only if no earlier run, of either
\* layer, got further than the one that left it: work done is never undone.
CheckpointIsFurthest ==
  \A n \in 1 .. Len(runs) :
    runs[n].level = "L2" /\ runs[n].from # 0 =>
      /\ runs[runs[n].from].ckpt
      /\ \A m \in 1 .. n - 1 : Failed(m) => runs[m].steps <= runs[runs[n].from].steps

\* A run begins only as the first one, after a first run that failed with a
\* class, or after a later one that did not succeed.  TurnLifecycle!Retry
\* relies on it.
RetryDiscipline ==
  [][level' \in Executing /\ level' # level
       => \/ runs = <<>>
          \/ Len(runs) = 1 /\ runs[1].kind = "provider"
          \/ Len(runs) > 1 /\ runs[Len(runs)].kind # "ok"]_vars

\* Every ladder that is not cancelled comes to an end, with a result or with
\* the lifecycle error of its first run.
LadderEnds == <>(level \in Ends)

===============================================================================
