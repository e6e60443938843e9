------------------------- MODULE RecoveryLadderProofs -------------------------
(***************************************************************************)
(* Proofs about the recovery ladder, for every fallback chain, budget,     *)
(* retry count and set of failure classes.                                 *)
(*                                                                         *)
(* The properties are not inductive: that the best result is returned at   *)
(* the end needs that the ladder carries it on the way (BestSoFar), that   *)
(* the budget adds up needs to know which levels have an execution under   *)
(* way that was paid for (Shape).  The last section bounds the ladder: a   *)
(* measure that every step lowers, and one that caps the executions.       *)
(***************************************************************************)
EXTENDS RecoveryLadder, SequenceTheorems, TLAPS

Climbing == {"restart", "backoff", "L1", "swap", "L2"}

\* run b got furthest among the failed runs, the earliest on a tie
Furthest(b) ==
  /\ b \in 1 .. Len(runs)
  /\ Failed(b)
  /\ \A n \in 1 .. Len(runs) :
       Failed(n) => /\ runs[n].steps <= runs[b].steps
                    /\ n < b => runs[n].steps < runs[b].steps

NoSuccess == \A n \in 1 .. Len(runs) : runs[n].kind # "ok"

Shape ==
  /\ level \in {"start", "L0"} => runs = <<>> /\ attempt = 0
  /\ level = "start" => remaining = MaxAttempts
  /\ level \in Climbing =>
       enabled /\ Len(runs) >= 1 /\ NoSuccess /\ runs[1].kind = "provider"
  /\ level \in {"backoff", "L1"} => attempt <= MaxRetries
  /\ level = "L2" => swap \in Models

BestSoFar == level \in Climbing => Furthest(best)

LInv ==
  TypeOK /\ Shape /\ BestSoFar /\ BudgetAddsUp /\ SuccessIsFinal /\ FurthestIsReturned

\* What a report looks like.
LEMMA ReportFacts ==
  ASSUME NEW r \in Reports
  PROVE  /\ r.kind \in {"ok", "provider", "plain", "err"}
         /\ r.class \in FailureClasses \cup {NoClass}
         /\ r.steps \in Nat
         /\ r.ckpt \in BOOLEAN
<1>1. Classes \subseteq FailureClasses /\ MaxSteps \in Nat
  BY LadderAssumption
<1>2. \/ r \in [kind : {"ok"}, class : {NoClass}, steps : 0 .. MaxSteps, ckpt : {FALSE}]
      \/ r \in [kind : {"provider"}, class : Classes, steps : {0}, ckpt : BOOLEAN]
      \/ r \in [kind : {"plain"}, class : {NoClass}, steps : 0 .. MaxSteps, ckpt : {FALSE}]
      \/ r \in [kind : {"err"}, class : {NoClass}, steps : {0}, ckpt : {FALSE}]
  BY DEF Reports
<1>3. /\ r.kind \in {"ok", "provider", "plain", "err"}
      /\ r.class \in FailureClasses \cup {NoClass}
  BY <1>1, <1>2
<1>4. r.steps \in Nat
  <2>1. r.steps \in 0 .. MaxSteps \/ r.steps = 0
    BY <1>2
  <2> QED
    BY <1>1, <2>1
<1>5. r.ckpt \in BOOLEAN
  BY <1>2
<1> QED
  BY <1>3, <1>4, <1>5

\* What the end of a run leaves of the log.
LEMMA LogFacts ==
  ASSUME runs \in Seq(Run), level \in Executing, NEW r \in Reports,
         NEW m \in Models, NEW f \in Nat, Log(r, m, f)
  PROVE  /\ runs' \in Seq(Run)
         /\ Len(runs) \in Nat
         /\ Len(runs') = Len(runs) + 1
         /\ \A n \in 1 .. Len(runs) : runs'[n] = runs[n]
         /\ runs'[This].kind = r.kind
         /\ runs'[This].steps = r.steps
<1> DEFINE e == [kind |-> r.kind, class |-> r.class, steps |-> r.steps,
                 ckpt |-> r.ckpt, level |-> level, model |-> m, from |-> f]
<1>1. e \in Run
  BY ReportFacts DEF Run
<1>2. runs' = Append(runs, e)
  BY DEF Log
<1>3. e.kind = r.kind /\ e.steps = r.steps
  OBVIOUS
<1> HIDE DEF e
<1>4. Len(runs) \in Nat /\ runs' \in Seq(Run) /\ Len(runs') = Len(runs) + 1
  BY <1>1, <1>2
<1>5. \A n \in 1 .. Len(runs) : runs'[n] = runs[n]
  BY <1>1, <1>2
<1>6. runs'[This] = e
  BY <1>1, <1>2, <1>4 DEF This
<1> QED
  BY <1>3, <1>4, <1>5, <1>6

\* A run that fails leaves a best run, whichever of the two better_of takes.
LEMMA FailureKeepsBest ==
  ASSUME TypeOK, Furthest(best), NoSuccess, level \in Executing,
         NEW r \in Reports, r.kind \in {"provider", "plain"},
         NEW m \in Models, NEW f \in Nat, Log(r, m, f)
  PROVE  LET b == BetterOf(runs', best, This)
         IN  /\ b \in 1 .. Len(runs')
             /\ runs'[b].kind \in {"provider", "plain"}
             /\ \A n \in 1 .. Len(runs') :
                  runs'[n].kind \in {"provider", "plain"} =>
                    /\ runs'[n].steps <= runs'[b].steps
                    /\ n < b => runs'[n].steps < runs'[b].steps
<1>1. /\ runs' \in Seq(Run) /\ Len(runs) \in Nat /\ Len(runs') = Len(runs) + 1
      /\ \A n \in 1 .. Len(runs) : runs'[n] = runs[n]
      /\ runs'[This].kind = r.kind
  BY LogFacts DEF TypeOK
<1>2. /\ best \in 1 .. Len(runs) /\ runs'[best] = runs[best]
      /\ runs'[best].kind \in {"provider", "plain"}
  BY <1>1 DEF Furthest, Failed
<1>3. \A n \in 1 .. Len(runs') : runs'[n] \in Run
  BY <1>1, ElementOfSeq
<1>4. \A n \in 1 .. Len(runs') : runs'[n].steps \in Nat
  BY <1>3 DEF Run
<1>5. \A n \in 1 .. Len(runs') : n \in 1 .. Len(runs) \/ n = This
  BY <1>1 DEF This
<1>6. This \in 1 .. Len(runs')
  BY <1>1 DEF This
<1>7. \A n \in 1 .. Len(runs) :
        runs'[n].kind \in {"provider", "plain"} =>
          /\ runs'[n].steps <= runs'[best].steps
          /\ n < best => runs'[n].steps < runs'[best].steps
  BY <1>1, <1>2 DEF Furthest, Failed
<1>8. CASE runs'[This].steps > runs'[best].steps
  <2>1. BetterOf(runs', best, This) = This
    BY <1>2, <1>8 DEF BetterOf
  <2>2. ASSUME NEW n \in 1 .. Len(runs'), runs'[n].kind \in {"provider", "plain"}
        PROVE  /\ runs'[n].steps <= runs'[This].steps
               /\ n < This => runs'[n].steps < runs'[This].steps
    <3>1. CASE n = This
      BY <3>1, <1>4, <1>6, <1>1 DEF This
    <3>2. CASE n \in 1 .. Len(runs)
      <4>1. runs'[n].steps <= runs'[best].steps
        BY <3>2, <2>2, <1>7
      <4>2. runs'[best].steps \in Nat /\ runs'[n].steps \in Nat /\ runs'[This].steps \in Nat
        BY <1>1, <1>2, <1>4, <1>6
      <4> QED
        BY <4>1, <4>2, <1>8
    <3> QED
      BY <3>1, <3>2, <1>5
  <2> QED
    BY <2>1, <2>2, <1>1, <1>6
<1>9. CASE ~(runs'[This].steps > runs'[best].steps)
  <2>1. BetterOf(runs', best, This) = best
    BY <1>1, <1>9 DEF BetterOf
  <2>2. ASSUME NEW n \in 1 .. Len(runs'), runs'[n].kind \in {"provider", "plain"}
        PROVE  /\ runs'[n].steps <= runs'[best].steps
               /\ n < best => runs'[n].steps < runs'[best].steps
    <3>1. CASE n = This
      <4>1. runs'[best].steps \in Nat /\ runs'[This].steps \in Nat
        BY <1>1, <1>2, <1>4, <1>6
      <4>2. ~(This < best)
        BY <1>1, <1>2 DEF This
      <4> QED
        BY <3>1, <4>1, <4>2, <1>9
    <3>2. CASE n \in 1 .. Len(runs)
      BY <3>2, <2>2, <1>7
    <3> QED
      BY <3>1, <3>2, <1>5
  <2> QED
    BY <2>1, <2>2, <1>1, <1>2
<1> QED
  BY <1>8, <1>9

\* What a successful run leaves: it is the only one, and the last.
LEMMA SuccessIsLast ==
  ASSUME TypeOK, NoSuccess, level \in Executing,
         NEW r \in Reports, r.kind = "ok", NEW m \in Models, NEW f \in Nat,
         Log(r, m, f), level' = "returned", result' = This
  PROVE  SuccessIsFinal' /\ FurthestIsReturned' /\ result' \in 0 .. Len(runs')
<1>1. /\ Len(runs) \in Nat /\ Len(runs') = Len(runs) + 1
      /\ \A n \in 1 .. Len(runs) : runs'[n] = runs[n]
      /\ runs'[This].kind = "ok"
  BY LogFacts DEF TypeOK
<1>2. This = Len(runs') /\ This \in Nat
  BY <1>1 DEF This
<1>3. \A n \in 1 .. Len(runs') : n \in 1 .. Len(runs) \/ n = This
  BY <1>1 DEF This
<1>4. \A n \in 1 .. Len(runs) : runs'[n].kind # "ok"
  BY <1>1 DEF NoSuccess
<1>5. SuccessIsFinal'
  BY <1>2, <1>3, <1>4 DEF SuccessIsFinal
<1>6. FurthestIsReturned'
  BY <1>1, <1>2 DEF FurthestIsReturned
<1> QED
  BY <1>2, <1>5, <1>6

\* A run that does not succeed leaves none that does.
LEMMA StillNoSuccess ==
  ASSUME TypeOK, NoSuccess, level \in Executing,
         NEW r \in Reports, r.kind # "ok", NEW m \in Models, NEW f \in Nat,
         Log(r, m, f)
  PROVE  NoSuccess' /\ (Len(runs) >= 1 => runs'[1] = runs[1])
<1>1. /\ Len(runs) \in Nat /\ Len(runs') = Len(runs) + 1
      /\ \A n \in 1 .. Len(runs) : runs'[n] = runs[n]
      /\ runs'[This].kind = r.kind
  BY LogFacts DEF TypeOK
<1>2. \A n \in 1 .. Len(runs') : n \in 1 .. Len(runs) \/ n = This
  BY <1>1 DEF This
<1> QED
  BY <1>1, <1>2 DEF NoSuccess

\* An error adds no candidate: the best run stays what it was.
LEMMA ErrorKeepsBest ==
  ASSUME TypeOK, Furthest(best), level \in Executing,
         NEW r \in Reports, r.kind = "err", NEW m \in Models, NEW f \in Nat,
         Log(r, m, f)
  PROVE  /\ best \in 1 .. Len(runs')
         /\ runs'[best].kind \in {"provider", "plain"}
         /\ \A n \in 1 .. Len(runs') :
              runs'[n].kind \in {"provider", "plain"} =>
                /\ runs'[n].steps <= runs'[best].steps
                /\ n < best => runs'[n].steps < runs'[best].steps
<1>1. /\ Len(runs) \in Nat /\ Len(runs') = Len(runs) + 1
      /\ \A n \in 1 .. Len(runs) : runs'[n] = runs[n]
      /\ runs'[This].kind = "err"
  BY LogFacts DEF TypeOK
<1>2. \A n \in 1 .. Len(runs') : n \in 1 .. Len(runs) \/ n = This
  BY <1>1 DEF This
<1>3. best \in 1 .. Len(runs) /\ runs'[best] = runs[best]
  BY <1>1 DEF Furthest
<1> QED
  BY <1>1, <1>2, <1>3 DEF Furthest, Failed

\* Before the first run nothing has been paid, tried or returned (execute).
LEMMA LadderInit == Init => LInv
<1> SUFFICES ASSUME Init PROVE LInv
  OBVIOUS
<1>1. TypeOK
  BY LadderAssumption DEF Init, TypeOK, Levels
<1>2. Shape /\ BestSoFar
  BY DEF Init, Shape, BestSoFar, Climbing
<1>3. BudgetAddsUp /\ SuccessIsFinal /\ FurthestIsReturned
  BY DEF Init, BudgetAddsUp, SuccessIsFinal, FurthestIsReturned
<1> QED
  BY <1>1, <1>2, <1>3 DEF LInv

\* Where escalation goes on to the fallback chain, or returns.
LEMMA SwapsBegin ==
  ASSUME NEW b, BeginSwaps(b), TypeOK
  PROVE  /\ \/ level' = "returned" /\ result' = b
            \/ level' = "swap" /\ result' = result
         /\ chain' \in Seq(Models)
BY LadderAssumption DEF BeginSwaps, Return, TypeOK

\* A run names a model of the set, override or none (run_with_directive).
LEMMA UsedIsModel == Used(Override) \in Models
BY LadderAssumption DEF Used

\* The budget: a step that pays for an execution, and one that completes it.
LEMMA Paying ==
  ASSUME TypeOK, BudgetAddsUp, level \in {"restart", "swap"}, enabled,
         CanConsume, Consume, runs' = runs, enabled' = enabled, level' \in Awaiting
  PROVE  BudgetAddsUp' /\ remaining' \in 0 .. MaxAttempts
<1>1. remaining \in Nat /\ remaining <= MaxAttempts /\ Len(runs) \in Nat /\ MaxAttempts \in Nat
  BY LadderAssumption DEF TypeOK
<1>2. remaining' \in 0 .. MaxAttempts
  BY <1>1 DEF Consume
<1>3. ASSUME MaxAttempts > 0 PROVE Len(runs) + 1 + remaining' = MaxAttempts
  <2>1. Len(runs) + remaining = MaxAttempts
    BY <1>1, <1>3 DEF BudgetAddsUp, Paid, Awaiting, Executing
  <2>2. remaining > 0 /\ remaining' = remaining - 1
    BY <1>1, <1>3 DEF CanConsume, Consume
  <2> QED
    BY <1>1, <2>1, <2>2
<1> QED
  BY <1>1, <1>2, <1>3 DEF BudgetAddsUp, Paid

\* A run that ends moves from the executing one to the completed ones.
LEMMA Completing ==
  ASSUME TypeOK, BudgetAddsUp, level \in Executing, NEW r \in Reports,
         NEW m \in Models, NEW f \in Nat, Log(r, m, f),
         remaining' = remaining, enabled' = enabled, level' \notin Awaiting \cup {"start"}
  PROVE  BudgetAddsUp'
<1>1. remaining \in Nat /\ Len(runs) \in Nat /\ Len(runs') = Len(runs) + 1
  BY LogFacts, LadderAssumption DEF TypeOK
<1>2. level \in Awaiting /\ level \notin {"start", "dropped"}
  BY DEF Awaiting, Executing
<1> QED
  BY <1>1, <1>2 DEF BudgetAddsUp, Paid

\* A step that completes no execution and keeps climbing or returns the best.
LEMMA Moving ==
  ASSUME LInv, level \in Climbing, runs' = runs, best' = best, enabled' = enabled,
         \/ level' \in Climbing
         \/ level' = "dropped"
         \/ level' = "returned" /\ result' = best
  PROVE  BestSoFar' /\ SuccessIsFinal' /\ FurthestIsReturned' /\ NoSuccess'
<1>1. Furthest(best) /\ NoSuccess
  BY DEF LInv, BestSoFar, Shape
<1>2. NoSuccess' /\ Furthest(best)'
  BY <1>1 DEF NoSuccess, Furthest, Failed
<1>3. SuccessIsFinal'
  BY <1>2 DEF NoSuccess, SuccessIsFinal
<1>4. FurthestIsReturned'
  <2>1. CASE level' = "returned" /\ result' = best
    BY <2>1, <1>2 DEF FurthestIsReturned, Furthest, Failed
  <2>2. CASE level' # "returned"
    BY <2>2 DEF FurthestIsReturned
  <2> QED
    BY <2>1, <2>2 DEF Climbing
<1>5. BestSoFar'
  BY <1>2 DEF BestSoFar, Furthest, Failed
<1> QED
  BY <1>2, <1>3, <1>4, <1>5

\* The first run of the ladder, whatever it reports.
LEMMA L0Step == LInv /\ L0 => LInv'
<1> SUFFICES ASSUME LInv, L0 PROVE LInv'
  OBVIOUS
<1>0. /\ level = "L0" /\ runs = <<>> /\ Len(runs) = 0 /\ attempt = 0
      /\ TypeOK /\ BudgetAddsUp
      /\ level \in Executing /\ This = 1 /\ MaxRetries \in Nat
  BY LadderAssumption DEF LInv, Shape, L0, L0Error, L0Settled, L0Escalates, Executing, This
<1>1. PICK r \in Reports :
        /\ Log(r, Used(Override), 0)
        /\ enabled' = enabled /\ remaining' = remaining
        /\ swap' = swap /\ events' = events
        /\ \/ /\ r.kind = "err" /\ level' = "failed"
              /\ attempt' = attempt /\ chain' = chain /\ best' = best /\ result' = result
           \/ /\ r.kind \in {"ok", "plain", "provider"} /\ level' = "returned" /\ result' = 1
              /\ attempt' = attempt /\ chain' = chain /\ best' = best
           \/ /\ r.kind = "provider" /\ enabled /\ best' = 1
              /\ \/ /\ level' = "restart" /\ attempt' = 1
                    /\ chain' = chain /\ result' = result
                 \/ BeginSwaps(1) /\ attempt' = attempt
  BY DEF L0, L0Error, L0Settled, L0Escalates, Return
<1>2. /\ runs' \in Seq(Run) /\ Len(runs') = 1 /\ runs'[1].kind = r.kind
      /\ runs'[1] \in Run
  BY <1>0, <1>1, LogFacts, UsedIsModel, ElementOfSeq DEF TypeOK
<1>3. level' \in {"failed", "returned", "restart", "swap"}
  BY <1>1, <1>0, SwapsBegin
<1>4. BudgetAddsUp'
  BY <1>0, <1>1, <1>3, Completing, UsedIsModel DEF Awaiting, Executing
<1>5. TypeOK'
  <2>1. level' \in Levels
    BY <1>3 DEF Levels, Ends
  <2>2. chain' \in Seq(Models)
    BY <1>0, <1>1, SwapsBegin DEF TypeOK
  <2>3. attempt' \in 0 .. MaxRetries + 1
    BY <1>0, <1>1
  <2>4. best' \in 0 .. Len(runs') /\ result' \in 0 .. Len(runs')
    <3>1. best \in 0 .. 0 /\ result \in 0 .. 0
      BY <1>0 DEF TypeOK
    <3> QED
      BY <3>1, <1>0, <1>1, <1>2, SwapsBegin
  <2> QED
    BY <1>0, <1>1, <1>2, <2>1, <2>2, <2>3, <2>4 DEF TypeOK
<1>6. Shape'
  <2>1. level' \in Climbing => enabled' /\ r.kind = "provider"
    BY <1>0, <1>1, <1>3, SwapsBegin DEF Climbing
  <2>2. level' \in Climbing => NoSuccess'
    BY <2>1, <1>2 DEF NoSuccess
  <2> QED
    BY <1>2, <1>3, <2>1, <2>2 DEF Shape
<1>7. SuccessIsFinal'
  <2>1. r.kind = "ok" => level' = "returned" /\ result' = 1
    BY <1>1
  <2> QED
    BY <2>1, <1>2 DEF SuccessIsFinal
<1>8. ASSUME r.kind \in {"plain", "provider"} PROVE Furthest(1)'
  <2>1. runs'[1].steps \in Nat
    BY <1>2 DEF Run
  <2> QED
    BY <1>2, <1>8, <2>1 DEF Furthest, Failed
<1>9. BestSoFar'
  <2>1. level' \in Climbing => r.kind = "provider" /\ best' = 1
    BY <1>0, <1>1, <1>3, SwapsBegin DEF Climbing
  <2> QED
    BY <2>1, <1>8 DEF BestSoFar, Furthest, Failed
<1>10. FurthestIsReturned'
  <2>1. level' = "returned" => result' = 1 /\ r.kind \in {"ok", "plain", "provider"}
    BY <1>0, <1>1, <1>3, SwapsBegin
  <2> QED
    BY <2>1, <1>2, <1>8 DEF FurthestIsReturned, Furthest, Failed
<1> QED
  BY <1>4, <1>5, <1>6, <1>7, <1>9, <1>10 DEF LInv

\* A run of the same model, after a backoff.
LEMMA L1Step == LInv /\ L1 => LInv'
<1> SUFFICES ASSUME LInv, L1 PROVE LInv'
  OBVIOUS
<1>0. /\ level = "L1" /\ level \in Executing /\ level \in Climbing
      /\ TypeOK /\ Shape /\ BudgetAddsUp /\ enabled /\ Len(runs) >= 1
      /\ NoSuccess /\ runs[1].kind = "provider" /\ Furthest(best)
      /\ MaxRetries \in Nat /\ Len(runs) \in Nat
  <2>1. level = "L1"
    BY DEF L1, L1Succeeds, L1Fails, L1Error
  <2> QED
    BY <2>1, LadderAssumption DEF LInv, Shape, BestSoFar, TypeOK, Executing, Climbing
<1>1. PICK r \in Reports :
        /\ Log(r, Used(Override), 0)
        /\ enabled' = enabled /\ remaining' = remaining
        /\ swap' = swap /\ events' = events
        /\ \/ /\ r.kind = "ok" /\ level' = "returned" /\ result' = This
              /\ attempt' = attempt /\ chain' = chain /\ best' = best
           \/ /\ r.kind \in {"provider", "plain"} /\ best' = BetterOf(runs', best, This)
              /\ \/ /\ level' = "restart" /\ attempt' = attempt + 1
                    /\ chain' = chain /\ result' = result
                 \/ BeginSwaps(best') /\ attempt' = attempt
           \/ r.kind = "err" /\ BeginSwaps(best) /\ best' = best /\ attempt' = attempt
  BY DEF L1, L1Succeeds, L1Fails, L1Error, Return
<1>2. /\ runs' \in Seq(Run) /\ Len(runs') = Len(runs) + 1
      /\ \A n \in 1 .. Len(runs) : runs'[n] = runs[n]
      /\ runs'[This].kind = r.kind
  BY <1>0, <1>1, LogFacts, UsedIsModel DEF TypeOK
<1>3. level' \in {"returned", "restart", "swap"}
  BY <1>1, <1>0, SwapsBegin
<1>4. BudgetAddsUp'
  BY <1>0, <1>1, <1>3, Completing, UsedIsModel DEF Awaiting, Executing
<1>5. ASSUME r.kind = "ok"
      PROVE  /\ SuccessIsFinal' /\ FurthestIsReturned' /\ result' \in 0 .. Len(runs')
             /\ level' = "returned" /\ best' = best
  <2>1. level' = "returned" /\ result' = This /\ best' = best
    BY <1>1, <1>5
  <2> QED
    BY <1>0, <1>1, <1>5, <2>1, SuccessIsLast, UsedIsModel
<1>6. ASSUME r.kind # "ok"
      PROVE  /\ Furthest(best)' /\ NoSuccess' /\ runs'[1].kind = "provider"
             /\ level' = "returned" => result' = best'
             /\ level' # "returned" => result' = result
  <2>1. NoSuccess' /\ runs'[1] = runs[1]
    BY <1>0, <1>1, <1>6, StillNoSuccess, UsedIsModel
  <2>2. CASE r.kind \in {"provider", "plain"}
    <3>1. best' = BetterOf(runs', best, This)
      BY <1>1, <2>2
    <3> QED
      BY <3>1, <1>0, <1>1, <1>3, <2>1, <2>2, FailureKeepsBest, SwapsBegin, UsedIsModel
         DEF Furthest, Failed
  <2>3. CASE r.kind = "err"
    <3>1. best' = best
      BY <1>1, <2>3
    <3> QED
      BY <3>1, <1>0, <1>1, <1>3, <2>1, <2>3, ErrorKeepsBest, SwapsBegin, UsedIsModel
         DEF Furthest, Failed
  <2> QED
    BY <1>6, <2>2, <2>3, ReportFacts
<1>7. TypeOK'
  <2>1. level' \in Levels
    BY <1>3 DEF Levels, Ends
  <2>2. chain' \in Seq(Models)
    BY <1>0, <1>1, SwapsBegin DEF TypeOK
  <2>3. attempt' \in 0 .. MaxRetries + 1
    <3>1. attempt \in Nat /\ attempt <= MaxRetries
      BY <1>0 DEF Shape, TypeOK
    <3> QED
      BY <3>1, <1>0, <1>1
  <2>4. best' \in 0 .. Len(runs') /\ result' \in 0 .. Len(runs')
    <3>1. best \in 0 .. Len(runs) /\ result \in 0 .. Len(runs)
      BY <1>0 DEF TypeOK
    <3>2. CASE r.kind = "ok"
      BY <3>1, <3>2, <1>0, <1>2, <1>5
    <3>3. CASE r.kind # "ok"
      <4>1. best' \in 1 .. Len(runs')
        BY <3>3, <1>6 DEF Furthest
      <4>2. Len(runs') = Len(runs) + 1 /\ (result' = best' \/ result' = result)
        BY <3>3, <1>2, <1>6
      <4> QED
        BY <4>1, <4>2, <3>1, <1>0
    <3> QED
      BY <3>2, <3>3
  <2>5. events' \in Seq([to : Models, success : BOOLEAN])
    BY <1>0, <1>1 DEF TypeOK
  <2> QED
    BY <1>0, <1>1, <1>2, <2>1, <2>2, <2>3, <2>4, <2>5 DEF TypeOK
<1>8. Shape'
  <2>1. level' # "returned" => r.kind # "ok"
    BY <1>5
  <2>2. Len(runs') >= 1
    BY <1>0, <1>2
  <2> QED
    BY <1>0, <1>1, <1>3, <1>6, <2>1, <2>2 DEF Shape, Climbing
<1>9. BestSoFar'
  BY <1>3, <1>5, <1>6 DEF BestSoFar, Furthest, Failed, Climbing
<1>10. SuccessIsFinal'
  BY <1>5, <1>6 DEF NoSuccess, SuccessIsFinal
<1>11. FurthestIsReturned'
  BY <1>5, <1>6 DEF FurthestIsReturned, Furthest, Failed
<1> QED
  BY <1>4, <1>7, <1>8, <1>9, <1>10, <1>11 DEF LInv

\* A run of a fallback model.
LEMMA L2Step == LInv /\ L2 => LInv'
<1> SUFFICES ASSUME LInv, L2 PROVE LInv'
  OBVIOUS
<1>0. /\ level = "L2" /\ level \in Executing /\ level \in Climbing
      /\ TypeOK /\ Shape /\ BudgetAddsUp /\ enabled /\ Len(runs) >= 1
      /\ NoSuccess /\ runs[1].kind = "provider" /\ Furthest(best)
      /\ MaxRetries \in Nat /\ Len(runs) \in Nat
  <2>1. level = "L2"
    BY DEF L2, L2Succeeds, L2Fails, L2Error
  <2> QED
    BY <2>1, LadderAssumption DEF LInv, Shape, BestSoFar, TypeOK, Executing, Climbing
<1>00. swap \in Models /\ Checkpoint \in Nat
  <2>1. swap \in Models
    BY <1>0 DEF Shape
  <2>2. best \in Nat
    BY <1>0 DEF Furthest
  <2> QED
    BY <2>1, <2>2 DEF Checkpoint
<1>1. PICK r \in Reports :
        /\ Log(r, swap, Checkpoint)
        /\ enabled' = enabled /\ remaining' = remaining
        /\ swap' = swap /\ attempt' = attempt /\ chain' = chain
        /\ \E b \in BOOLEAN : Recorded(b)
        /\ \/ /\ r.kind = "ok" /\ level' = "returned" /\ result' = This /\ best' = best
           \/ /\ r.kind \in {"provider", "plain"} /\ best' = BetterOf(runs', best, This)
              /\ level' = "swap" /\ result' = result
           \/ r.kind = "err" /\ level' = "swap" /\ result' = result /\ best' = best
  BY DEF L2, L2Succeeds, L2Fails, L2Error, Return
<1>2. /\ runs' \in Seq(Run) /\ Len(runs') = Len(runs) + 1
      /\ \A n \in 1 .. Len(runs) : runs'[n] = runs[n]
      /\ runs'[This].kind = r.kind
  BY <1>0, <1>1, LogFacts, <1>00 DEF TypeOK
<1>3. level' \in {"returned", "swap"}
  BY <1>1
<1>4. BudgetAddsUp'
  BY <1>0, <1>1, <1>3, Completing, <1>00 DEF Awaiting, Executing
<1>5. ASSUME r.kind = "ok"
      PROVE  /\ SuccessIsFinal' /\ FurthestIsReturned' /\ result' \in 0 .. Len(runs')
             /\ level' = "returned" /\ best' = best
  <2>1. level' = "returned" /\ result' = This /\ best' = best
    BY <1>1, <1>5
  <2> QED
    BY <1>0, <1>1, <1>5, <2>1, SuccessIsLast, <1>00
<1>6. ASSUME r.kind # "ok"
      PROVE  /\ Furthest(best)' /\ NoSuccess' /\ runs'[1].kind = "provider"
             /\ level' = "returned" => result' = best'
             /\ level' # "returned" => result' = result
  <2>1. NoSuccess' /\ runs'[1] = runs[1]
    BY <1>0, <1>1, <1>6, StillNoSuccess, <1>00
  <2>2. CASE r.kind \in {"provider", "plain"}
    <3>1. best' = BetterOf(runs', best, This)
      BY <1>1, <2>2
    <3> QED
      BY <3>1, <1>0, <1>1, <1>3, <2>1, <2>2, FailureKeepsBest, SwapsBegin, <1>00
         DEF Furthest, Failed
  <2>3. CASE r.kind = "err"
    <3>1. best' = best
      BY <1>1, <2>3
    <3> QED
      BY <3>1, <1>0, <1>1, <1>3, <2>1, <2>3, ErrorKeepsBest, SwapsBegin, <1>00
         DEF Furthest, Failed
  <2> QED
    BY <1>6, <2>2, <2>3, ReportFacts
<1>7. TypeOK'
  <2>1. level' \in Levels
    BY <1>3 DEF Levels, Ends
  <2>2. chain' \in Seq(Models)
    BY <1>0, <1>1 DEF TypeOK
  <2>3. attempt' \in 0 .. MaxRetries + 1
    BY <1>0, <1>1 DEF TypeOK
  <2>4. best' \in 0 .. Len(runs') /\ result' \in 0 .. Len(runs')
    <3>1. best \in 0 .. Len(runs) /\ result \in 0 .. Len(runs)
      BY <1>0 DEF TypeOK
    <3>2. CASE r.kind = "ok"
      BY <3>1, <3>2, <1>0, <1>2, <1>5
    <3>3. CASE r.kind # "ok"
      <4>1. best' \in 1 .. Len(runs')
        BY <3>3, <1>6 DEF Furthest
      <4>2. Len(runs') = Len(runs) + 1 /\ (result' = best' \/ result' = result)
        BY <3>3, <1>2, <1>6
      <4> QED
        BY <4>1, <4>2, <3>1, <1>0
    <3> QED
      BY <3>2, <3>3
  <2>5. events' \in Seq([to : Models, success : BOOLEAN])
    <3>1. PICK b \in BOOLEAN : Recorded(b)
      BY <1>1
    <3>2. [to |-> swap, success |-> b] \in [to : Models, success : BOOLEAN]
      BY <1>00
    <3> QED
      BY <1>0, <3>1, <3>2 DEF TypeOK, Recorded
  <2> QED
    BY <1>0, <1>1, <1>2, <2>1, <2>2, <2>3, <2>4, <2>5 DEF TypeOK
<1>8. Shape'
  <2>1. level' # "returned" => r.kind # "ok"
    BY <1>5
  <2>2. Len(runs') >= 1
    BY <1>0, <1>2
  <2> QED
    BY <1>0, <1>1, <1>3, <1>6, <2>1, <2>2 DEF Shape, Climbing
<1>9. BestSoFar'
  BY <1>3, <1>5, <1>6 DEF BestSoFar, Furthest, Failed, Climbing
<1>10. SuccessIsFinal'
  BY <1>5, <1>6 DEF NoSuccess, SuccessIsFinal
<1>11. FurthestIsReturned'
  BY <1>5, <1>6 DEF FurthestIsReturned, Furthest, Failed
<1> QED
  BY <1>4, <1>7, <1>8, <1>9, <1>10, <1>11 DEF LInv

\* The steps that complete no run.
LEMMA OtherStep ==
  LInv /\ (Start \/ Restart \/ EndRestarts \/ Wake \/ Skip \/ Swap \/ Exhausted \/ Terminal \/ Drop)
    => LInv'
<1> SUFFICES ASSUME LInv,
                    \/ Start \/ Restart \/ EndRestarts \/ Wake \/ Skip
                    \/ Swap \/ Exhausted \/ Terminal \/ Drop
             PROVE  LInv'
  OBVIOUS
<1>0. /\ TypeOK /\ Shape /\ BestSoFar /\ BudgetAddsUp /\ SuccessIsFinal /\ FurthestIsReturned
      /\ MaxAttempts \in Nat /\ MaxRetries \in Nat /\ Len(runs) \in Nat
      /\ remaining \in Nat /\ remaining <= MaxAttempts
  BY LadderAssumption DEF LInv, TypeOK
<1>1. CASE Start
  <2>1. /\ level = "start" /\ level' = "L0" /\ runs = <<>> /\ runs' = runs
        /\ enabled' = enabled /\ attempt' = attempt /\ attempt = 0
        /\ remaining = MaxAttempts
    BY <1>0, <1>1 DEF Start, Shape
  <2>2. TypeOK'
    BY <1>0, <1>1 DEF Start, Consume, TypeOK, Levels, Awaiting, Executing
  <2>3. Shape' /\ BestSoFar'
    BY <2>1 DEF Shape, BestSoFar, Climbing
  <2>4. BudgetAddsUp'
    <3>1. ASSUME enabled, MaxAttempts > 0 PROVE 1 + remaining' = MaxAttempts
      BY <1>0, <1>1, <2>1, <3>1 DEF Start, Consume
    <3> QED
      BY <2>1, <3>1 DEF BudgetAddsUp, Paid, Awaiting, Executing
  <2>5. SuccessIsFinal' /\ FurthestIsReturned'
    BY <2>1 DEF SuccessIsFinal, FurthestIsReturned
  <2> QED
    BY <2>2, <2>3, <2>4, <2>5 DEF LInv
<1>2. CASE Restart \/ Swap
  <2>1. /\ level \in {"restart", "swap"} /\ level' \in {"backoff", "L2"}
        /\ CanConsume /\ Consume /\ runs' = runs /\ best' = best /\ result' = result
        /\ enabled' = enabled /\ attempt' = attempt /\ events' = events
    BY <1>2 DEF Restart, Swap
  <2>2. enabled /\ Len(runs) >= 1 /\ NoSuccess /\ runs[1].kind = "provider"
    BY <1>0, <2>1 DEF Shape, Climbing
  <2>3. BudgetAddsUp' /\ remaining' \in 0 .. MaxAttempts
    BY <1>0, <2>1, <2>2, Paying DEF Awaiting, Executing
  <2>4. BestSoFar' /\ SuccessIsFinal' /\ FurthestIsReturned' /\ NoSuccess'
    BY <2>1, Moving DEF Climbing
  <2>5. /\ level' = "backoff" => attempt <= MaxRetries /\ swap' = swap /\ chain' = chain
        /\ level' = "L2" => swap' \in Models /\ chain' \in Seq(Models)
        /\ swap' \in Models \cup {NoModel} /\ chain' \in Seq(Models)
    <3>1. CASE Restart
      BY <3>1, <1>0 DEF Restart, TypeOK
    <3>2. CASE Swap
      <4>1. chain \in Seq(Models) /\ chain # <<>>
        BY <3>2, <1>0 DEF Swap, TypeOK
      <4>2. Head(chain) \in Models /\ Tail(chain) \in Seq(Models)
        BY <4>1
      <4> QED
        BY <3>2, <4>2 DEF Swap
    <3> QED
      BY <1>2, <3>1, <3>2
  <2>6. TypeOK'
    BY <1>0, <2>1, <2>3, <2>5 DEF TypeOK, Levels, Awaiting, Executing
  <2>7. Shape'
    BY <2>1, <2>2, <2>4, <2>5 DEF Shape, Climbing
  <2> QED
    BY <2>3, <2>4, <2>6, <2>7 DEF LInv
<1>3. CASE EndRestarts \/ Exhausted \/ Terminal
  <2>1. /\ level \in {"restart", "swap"}
        /\ \/ level' = "returned" /\ result' = best
           \/ level' = "swap" /\ result' = result
        /\ chain' \in Seq(Models) /\ runs' = runs /\ best' = best /\ swap' = swap
        /\ enabled' = enabled /\ attempt' = attempt /\ events' = events
        /\ remaining' = remaining
    BY <1>0, <1>3, SwapsBegin DEF EndRestarts, Exhausted, Terminal, Return, TypeOK
  <2>2. enabled /\ Len(runs) >= 1 /\ NoSuccess /\ runs[1].kind = "provider"
    BY <1>0, <2>1 DEF Shape, Climbing
  <2>3. BestSoFar' /\ SuccessIsFinal' /\ FurthestIsReturned' /\ NoSuccess'
    BY <2>1, Moving DEF Climbing
  <2>4. BudgetAddsUp'
    BY <1>0, <2>1 DEF BudgetAddsUp, Paid, Awaiting, Executing
  <2>5. TypeOK'
    BY <1>0, <2>1 DEF TypeOK, Levels, Ends
  <2>6. Shape'
    BY <2>1, <2>2, <2>3 DEF Shape, Climbing
  <2> QED
    BY <2>3, <2>4, <2>5, <2>6 DEF LInv
<1>4. CASE Wake \/ Skip
  <2>1. /\ \/ level = "backoff" /\ level' = "L1"
           \/ level = "swap" /\ level' = "swap"
        /\ runs' = runs /\ best' = best /\ swap' = swap /\ result' = result
        /\ enabled' = enabled /\ attempt' = attempt /\ events' = events
        /\ remaining' = remaining
    BY <1>4 DEF Wake, Skip
  <2>2. enabled /\ Len(runs) >= 1 /\ NoSuccess /\ runs[1].kind = "provider"
    BY <1>0, <2>1 DEF Shape, Climbing
  <2>3. BestSoFar' /\ SuccessIsFinal' /\ FurthestIsReturned' /\ NoSuccess'
    BY <2>1, Moving DEF Climbing
  <2>4. BudgetAddsUp'
    BY <1>0, <2>1 DEF BudgetAddsUp, Paid, Awaiting, Executing
  <2>5. chain' \in Seq(Models)
    <3>1. CASE Wake
      BY <1>0, <3>1 DEF Wake, TypeOK
    <3>2. CASE Skip
      <4>1. chain \in Seq(Models) /\ chain # <<>> /\ chain' = Tail(chain)
        BY <1>0, <3>2 DEF Skip, TypeOK
      <4>2. Tail(chain) \in Seq(Models)
        BY <4>1
      <4> QED
        BY <4>1, <4>2
    <3> QED
      BY <1>4, <3>1, <3>2
  <2>6. TypeOK'
    BY <1>0, <2>1, <2>5 DEF TypeOK, Levels, Awaiting, Executing
  <2>7. Shape'
    BY <1>0, <2>1, <2>2, <2>3 DEF Shape, Climbing
  <2> QED
    BY <2>3, <2>4, <2>6, <2>7 DEF LInv
<1>5. CASE Drop
  <2>1. /\ level \in Awaiting /\ level' = "dropped" /\ runs' = runs /\ best' = best
        /\ UNCHANGED <<enabled, remaining, attempt, chain, swap, result, events>>
    BY <1>5 DEF Drop
  <2>2. TypeOK'
    BY <1>0, <2>1 DEF TypeOK, Levels, Ends
  <2>3. Shape' /\ BestSoFar' /\ BudgetAddsUp' /\ FurthestIsReturned'
    BY <2>1 DEF Shape, BestSoFar, BudgetAddsUp, FurthestIsReturned, Climbing
  <2>4. SuccessIsFinal'
    <3>1. CASE level = "L0"
      BY <3>1, <1>0, <2>1 DEF Shape, SuccessIsFinal
    <3>2. CASE level # "L0"
      <4>1. NoSuccess
        BY <3>2, <1>0, <2>1 DEF Shape, Climbing, Awaiting, Executing
      <4> QED
        BY <4>1, <2>1 DEF NoSuccess, SuccessIsFinal
    <3> QED
      BY <3>1, <3>2
  <2> QED
    BY <2>2, <2>3, <2>4 DEF LInv
<1> QED
  BY <1>1, <1>2, <1>3, <1>4, <1>5

\* Every step of the ladder keeps the invariant.
LEMMA LadderStep == LInv /\ [Next]_vars => LInv'
<1>1. LInv /\ UNCHANGED vars => LInv'
  BY DEF LInv, vars, TypeOK, Shape, BestSoFar, BudgetAddsUp, Paid, SuccessIsFinal,
         FurthestIsReturned, NoSuccess, Furthest, Failed
<1> QED
  BY <1>1, L0Step, L1Step, L2Step, OtherStep DEF Next, Step

\* The invariant the other theorems are read from: the state is well typed, a
\* level beyond the first has a failed provider run behind it, no successful run
\* lies below a level that still executes, the best run is one of those made, and
\* the budget adds up (execute, escalate).
THEOREM LadderInvariant == Spec => []LInv
BY LadderInit, LadderStep, PTL DEF Spec

\* The attempt budget never loses or doubles an execution, across the layers
\* of the ladder (AttemptBudget, RecoveryCoordinator).
THEOREM BudgetKept == Spec => []BudgetAddsUp
<1>1. LInv => BudgetAddsUp
  BY DEF LInv
<1> QED
  BY <1>1, LadderInvariant, PTL

\* Nothing runs after a run that succeeded, and its result is returned
\* (escalate).
THEOREM SuccessEnds == Spec => []SuccessIsFinal
<1>1. LInv => SuccessIsFinal
  BY DEF LInv
<1> QED
  BY <1>1, LadderInvariant, PTL

\* If every run failed, the furthest one is returned (better_of).
THEOREM BestReturned == Spec => []FurthestIsReturned
<1>1. LInv => FurthestIsReturned
  BY DEF LInv
<1> QED
  BY <1>1, LadderInvariant, PTL

\* What the turn relies on: a run begins only as the first one, after a first
\* run that failed with a class, or after a later one that did not succeed.
THEOREM RetriesDisciplined == Spec => RetryDiscipline
<1> DEFINE A == level' \in Executing /\ level' # level
                  => \/ runs = <<>>
                     \/ Len(runs) = 1 /\ runs[1].kind = "provider"
                     \/ Len(runs) > 1 /\ runs[Len(runs)].kind # "ok"
<1>1. LInv /\ [Next]_vars => [A]_vars
  <2> SUFFICES ASSUME LInv, Next, level' \in Executing, level' # level
               PROVE  \/ runs = <<>>
                      \/ Len(runs) = 1 /\ runs[1].kind = "provider"
                      \/ Len(runs) > 1 /\ runs[Len(runs)].kind # "ok"
    BY DEF vars
  <2>1. Start \/ Wake \/ Swap
    BY SwapsBegin DEF Next, Step, L0, L1, L2, L0Error, L0Settled, L0Escalates,
       L1Succeeds, L1Fails, L1Error, L2Succeeds, L2Fails, L2Error, Restart,
       EndRestarts, Skip, Exhausted, Terminal, Drop, Return, Executing, LInv
  <2>2. CASE Start
    BY <2>2 DEF Start, LInv, Shape
  <2>3. CASE Wake \/ Swap
    <3>1. Len(runs) >= 1 /\ NoSuccess /\ runs[1].kind = "provider" /\ Len(runs) \in Nat
      BY <2>3 DEF Wake, Swap, LInv, Shape, Climbing, TypeOK
    <3>2. CASE Len(runs) = 1
      BY <3>1, <3>2
    <3>3. CASE Len(runs) > 1
      <4>1. Len(runs) \in 1 .. Len(runs)
        BY <3>1
      <4>2. runs[Len(runs)].kind # "ok"
        BY <3>1, <4>1 DEF NoSuccess
      <4> QED
        BY <3>3, <4>2
    <3> QED
      BY <3>1, <3>2, <3>3
  <2> QED
    BY <2>1, <2>2, <2>3
<1>2. []LInv /\ [][Next]_vars => [][A]_vars
  BY <1>1, PTL
<1> QED
  BY <1>2, LadderInvariant, PTL DEF Spec, RetryDiscipline

-----------------------------------------------------------------------------
(* The fallback runs *)

\* A step leaves the log alone, or a run of the level under way joins it.
LEMMA RunJoins ==
  ASSUME LInv, Next, runs' # runs
  PROVE  /\ level \in Executing /\ level' # "L2"
         /\ \E r \in Reports, m \in Models, f \in Nat :
              /\ Log(r, m, f)
              /\ level # "L2" => m = Used(Override) /\ f = 0
              /\ level = "L2" => m = swap /\ f = Checkpoint
<1>1. L0 \/ L1 \/ L2
  BY DEF Next, Step, Start, Restart, EndRestarts, Wake, Skip, Swap, Exhausted, Terminal, Drop
<1>2. CASE L0 \/ L1
  <2>1. /\ level \in {"L0", "L1"} /\ level' # "L2"
        /\ \E r \in Reports : Log(r, Used(Override), 0)
    BY <1>2 DEF L0, L1, L0Error, L0Settled, L0Escalates, L1Succeeds, L1Fails, L1Error,
       BeginSwaps, Return
  <2> QED
    BY <2>1, UsedIsModel DEF Executing
<1>3. CASE L2
  <2>1. level = "L2" /\ level' # "L2" /\ \E r \in Reports : Log(r, swap, Checkpoint)
    BY <1>3 DEF L2, L2Succeeds, L2Fails, L2Error, Return
  <2>2. swap \in Models /\ best \in Nat
    BY <2>1 DEF LInv, Shape, BestSoFar, Furthest, Climbing
  <2> QED
    BY <2>1, <2>2 DEF Executing, Checkpoint
<1> QED
  BY <1>1, <1>2, <1>3

\* What the run that joins looks like.
LEMMA JoinedRun ==
  ASSUME LInv, level \in Executing, NEW r \in Reports, NEW m \in Models, NEW f \in Nat,
         Log(r, m, f)
  PROVE  /\ Len(runs) \in Nat /\ Len(runs') = Len(runs) + 1
         /\ \A n \in 1 .. Len(runs) : runs'[n] = runs[n]
         /\ \A n \in 1 .. Len(runs') : n \in 1 .. Len(runs) \/ n = This
         /\ runs'[This].level = level
         /\ runs'[This].model = m
         /\ runs'[This].from = f
<1> DEFINE e == [kind |-> r.kind, class |-> r.class, steps |-> r.steps,
                 ckpt |-> r.ckpt, level |-> level, model |-> m, from |-> f]
<1>1. /\ Len(runs) \in Nat /\ Len(runs') = Len(runs) + 1
      /\ \A n \in 1 .. Len(runs) : runs'[n] = runs[n]
  BY LogFacts DEF LInv, TypeOK
<1>2. e \in Run
  BY ReportFacts DEF Run
<1>3. runs' = Append(runs, e)
  BY DEF Log
<1>4. e.level = level /\ e.model = m /\ e.from = f
  OBVIOUS
<1> HIDE DEF e
<1>5. runs'[This] = e
  BY <1>1, <1>2, <1>3 DEF LInv, TypeOK, This
<1> QED
  BY <1>1, <1>4, <1>5 DEF This

\* The checkpoint a fallback run continues from was left by an earlier run.
Continued ==
  \A n \in 1 .. Len(runs) :
    runs[n].level = "L2" /\ runs[n].from # 0 =>
      /\ runs[n].from \in 1 .. n - 1
      /\ runs[runs[n].from].ckpt
      /\ \A m \in 1 .. n - 1 : Failed(m) => runs[m].steps <= runs[runs[n].from].steps

\* A run that joins the log continues from the best one, if from any.
LEMMA ContinuedStep == LInv /\ Continued /\ [Next]_vars => Continued'
<1> SUFFICES ASSUME LInv, Continued, [Next]_vars PROVE Continued'
  OBVIOUS
<1>1. CASE runs' = runs
  BY <1>1 DEF Continued, Failed
<1>2. CASE runs' # runs
  <2>1. Next
    BY <1>2 DEF vars
  <2>2. PICK r \in Reports, m \in Models, f \in Nat :
          /\ level \in Executing
          /\ Log(r, m, f)
          /\ level = "L2" => f = Checkpoint
    BY <1>2, <2>1, RunJoins
  <2>3. /\ Len(runs) \in Nat /\ Len(runs') = Len(runs) + 1
        /\ \A n \in 1 .. Len(runs) : runs'[n] = runs[n]
        /\ \A n \in 1 .. Len(runs') : n \in 1 .. Len(runs) \/ n = This
        /\ runs'[This].level = level /\ runs'[This].from = f
    BY <2>2, JoinedRun
  <2> SUFFICES ASSUME NEW n \in 1 .. Len(runs'), runs'[n].level = "L2", runs'[n].from # 0
               PROVE  /\ runs'[n].from \in 1 .. n - 1
                      /\ runs'[runs'[n].from].ckpt
                      /\ \A k \in 1 .. n - 1 : runs'[k].kind \in {"provider", "plain"} =>
                           runs'[k].steps <= runs'[runs'[n].from].steps
    BY DEF Continued, Failed
  <2>4. CASE n \in 1 .. Len(runs)
    <3>1. runs'[n] = runs[n]
      BY <2>3, <2>4
    <3>2. \A k \in 1 .. n - 1 : k \in 1 .. Len(runs)
      BY <2>3, <2>4
    <3> QED
      BY <2>3, <2>4, <3>1, <3>2 DEF Continued, Failed
  <2>5. CASE n = This
    <3>1. level = "L2" /\ f = Checkpoint /\ f # 0
      BY <2>2, <2>3, <2>5
    <3>2. Furthest(best)
      BY <3>1 DEF LInv, BestSoFar, Climbing
    <3>3. f = best /\ runs[best].ckpt
      BY <3>1 DEF Checkpoint
    <3>4. n - 1 = Len(runs) /\ runs'[n].from = best
      BY <2>3, <2>5, <3>3 DEF This
    <3> QED
      BY <2>3, <3>2, <3>3, <3>4 DEF Furthest, Failed
  <2> QED
    BY <2>3, <2>4, <2>5
<1> QED
  BY <1>1, <1>2

\* A fallback run never continues from less than what was achieved
\* (escalate, best_restore_state).
THEOREM WorkIsKept == Spec => []CheckpointIsFurthest
<1>1. Init => Continued
  BY DEF Init, Continued
<1>2. Continued => CheckpointIsFurthest
  BY DEF Continued, CheckpointIsFurthest
<1> QED
  BY <1>1, <1>2, ContinuedStep, LadderInvariant, PTL DEF Spec

\* a model L2 may swap to, given the first run
Away(m) ==
  /\ m # Override
  /\ runs[1].class \in RequiresProviderSwap => ProviderOf[m] # ProviderOf[Override]

SwapsAway ==
  /\ level = "L2" => Away(swap)
  /\ Len(runs) >= 1 => runs[1].model = Override
  /\ \A n \in 1 .. Len(runs) : runs[n].level = "L2" => Away(runs[n].model)

\* The candidate is checked when it is taken off the chain, and the first run
\* it is checked against stays what it is.
LEMMA SwapsAwayStep ==
  ASSUME Override # NoModel
  PROVE  LInv /\ SwapsAway /\ [Next]_vars => SwapsAway'
<1> SUFFICES ASSUME LInv, SwapsAway, [Next]_vars PROVE SwapsAway'
  OBVIOUS
<1>0. Len(runs) \in Nat
  BY DEF LInv, TypeOK
<1>1. CASE runs' = runs
  <2>1. ASSUME level' = "L2" PROVE Away(swap')
    <3>1. CASE level # "L2"
      <4>1. Swap
        BY <2>1, <3>1, <1>1 DEF vars, Next, Step, L0, L1, L2, L0Error, L0Settled,
           L0Escalates, L1Succeeds, L1Fails, L1Error, L2Succeeds, L2Fails, L2Error, Start,
           Restart, EndRestarts, Wake, Skip, Exhausted, Terminal, Drop, Return, BeginSwaps
      <4> QED
        BY <4>1 DEF Swap, Ineligible, Primary, Initial, Away
    <3>2. CASE level = "L2"
      <4>1. UNCHANGED vars
        BY <2>1, <3>2 DEF Next, Step, L0, L1, L2, L0Error, L0Settled,
           L0Escalates, L1Succeeds, L1Fails, L1Error, L2Succeeds, L2Fails, L2Error, Start,
           Restart, EndRestarts, Wake, Skip, Swap, Exhausted, Terminal, Drop, Return
      <4> QED
        BY <4>1, <3>2 DEF vars, SwapsAway
    <3> QED
      BY <3>1, <3>2
  <2> QED
    BY <2>1, <1>1 DEF SwapsAway, Away
<1>2. CASE runs' # runs
  <2>1. Next
    BY <1>2 DEF vars
  <2>2. /\ level \in Executing /\ level' # "L2"
        /\ \E r \in Reports, m \in Models, f \in Nat :
             /\ Log(r, m, f)
             /\ level # "L2" => m = Used(Override)
             /\ level = "L2" => m = swap
    BY <1>2, <2>1, RunJoins
  <2>3. PICK r \in Reports, m \in Models, f \in Nat :
          /\ Log(r, m, f)
          /\ level # "L2" => m = Override
          /\ level = "L2" => m = swap
    BY <2>2 DEF Used
  <2>4. /\ Len(runs') = Len(runs) + 1
        /\ \A n \in 1 .. Len(runs) : runs'[n] = runs[n]
        /\ \A n \in 1 .. Len(runs') : n \in 1 .. Len(runs) \/ n = This
        /\ runs'[This].level = level /\ runs'[This].model = m
    BY <2>2, <2>3, JoinedRun
  <2>5. CASE runs = <<>>
    <3>1. level # "L2" /\ Len(runs) = 0 /\ This = 1
      BY <2>5, <1>0 DEF LInv, Shape, Climbing, This
    <3> QED
      BY <2>2, <2>3, <2>4, <3>1 DEF SwapsAway
  <2>6. CASE runs # <<>>
    <3>1. Len(runs) >= 1
      BY <2>6, <1>0, EmptySeq DEF LInv, TypeOK
    <3>2. 1 \in 1 .. Len(runs) /\ runs'[1] = runs[1]
      BY <1>0, <2>4, <3>1
    <3>3. ASSUME NEW n \in 1 .. Len(runs'), runs'[n].level = "L2"
          PROVE  Away(runs[n].model)'
      <4>1. CASE n \in 1 .. Len(runs)
        BY <2>4, <3>2, <3>3, <4>1 DEF SwapsAway, Away
      <4>2. CASE n = This
        <5>1. runs'[n].model = swap /\ Away(swap)
          BY <2>3, <2>4, <3>3, <4>2 DEF SwapsAway
        <5> QED
          BY <3>2, <5>1 DEF Away
      <4> QED
        BY <2>4, <4>1, <4>2
    <3>4. runs'[1].model = Override
      BY <3>1, <3>2 DEF SwapsAway
    <3> QED
      BY <2>2, <3>3, <3>4 DEF SwapsAway
  <2> QED
    BY <2>5, <2>6
<1> QED
  BY <1>1, <1>2

\* When the turn names its model, a fallback run leaves that model, and its
\* provider when the failure was about the account (escalate).
THEOREM SwapsLeave ==
  ASSUME Override # NoModel
  PROVE  Spec => []SwapLeavesPrimary
<1>1. Init => SwapsAway
  BY DEF Init, SwapsAway
<1>2. LInv /\ SwapsAway => SwapLeavesPrimary
  <2> SUFFICES ASSUME LInv, SwapsAway, NEW n \in 1 .. Len(runs), runs[n].level = "L2"
               PROVE  /\ runs[n].model # runs[1].model
                      /\ runs[1].class \in RequiresProviderSwap =>
                           ProviderOf[runs[n].model] # ProviderOf[runs[1].model]
    BY DEF SwapLeavesPrimary
  <2>1. Len(runs) \in Nat
    BY DEF LInv, TypeOK
  <2>2. runs[1].model = Override
    BY <2>1 DEF SwapsAway
  <2> QED
    BY <2>2 DEF SwapsAway, Away
<1> QED
  BY <1>1, <1>2, SwapsAwayStep, LadderInvariant, PTL DEF Spec
-----------------------------------------------------------------------------
(* The ladder comes to an end *)

\* the steps the ladder can still take, at most
ToGo ==
  CASE level = "start"   -> 3 * MaxRetries + 2 * Len(Fallbacks) + 4
    [] level = "L0"      -> 3 * MaxRetries + 2 * Len(Fallbacks) + 3
    [] level = "restart" -> 3 * (MaxRetries + 1 - attempt) + 2 * Len(Fallbacks) + 2
    [] level = "backoff" -> 3 * (MaxRetries + 1 - attempt) + 2 * Len(Fallbacks) + 1
    [] level = "L1"      -> 3 * (MaxRetries + 1 - attempt) + 2 * Len(Fallbacks)
    [] level = "swap"    -> 2 * Len(chain) + 1
    [] level = "L2"      -> 2 * Len(chain) + 2
    [] OTHER             -> 0

\* the executions it can still complete, at most
MayRun ==
  CASE level \in {"start", "L0"}              -> 1 + MaxRetries + Len(Fallbacks)
    [] level \in {"restart", "backoff", "L1"} -> MaxRetries + 1 - attempt + Len(Fallbacks)
    [] level = "swap"                         -> Len(chain)
    [] level = "L2"                           -> Len(chain) + 1
    [] OTHER                                  -> 0

RunsCapped == Len(runs) + MayRun <= 1 + MaxRetries + Len(Fallbacks)

\* a step that completes no run, one that completes one, and the fallback chain
\* begun or passed over
Quiet     == runs' = runs
Completed == Len(runs') = Len(runs) + 1
Swapping  == \/ level' = "returned"
             \/ level' = "swap" /\ chain' = Fallbacks

\* Where each level of the ladder leads, and what it uses up on the way.
LEMMA Moves ==
  ASSUME LInv, Next
  PROVE  \/ level = "start" /\ level' = "L0" /\ Quiet
         \/ /\ level = "L0" /\ Completed
            /\ level' = "failed" \/ Swapping \/ (level' = "restart" /\ attempt' = 1)
         \/ /\ level = "restart" /\ Quiet
            /\ \/ Swapping
               \/ level' = "backoff" /\ attempt' = attempt
         \/ level = "backoff" /\ level' = "L1" /\ Quiet /\ attempt' = attempt
         \/ /\ level = "L1" /\ Completed
            /\ Swapping \/ (level' = "restart" /\ attempt' = attempt + 1)
         \/ /\ level = "swap" /\ Quiet
            /\ \/ level' = "returned"
               \/ level' \in {"swap", "L2"} /\ chain # <<>> /\ chain' = Tail(chain)
         \/ /\ level = "L2" /\ Completed
            /\ level' = "returned" \/ (level' = "swap" /\ chain' = chain)
         \/ level \in Awaiting /\ level' = "dropped" /\ Quiet
<1> DEFINE Logged == \E r \in Reports, m \in Models, f \in Nat : Log(r, m, f)
<1>1. ASSUME level \in Executing, Logged PROVE Completed
  <2>1. PICK r \in Reports, m \in Models, f \in Nat : Log(r, m, f)
    BY <1>1
  <2> QED
    BY <1>1, <2>1, LogFacts DEF LInv, TypeOK, Completed
<1>2. ASSUME NEW b, BeginSwaps(b) PROVE Swapping
  BY <1>2 DEF BeginSwaps, Return, Swapping
<1>3. Used(Override) \in Models /\ 0 \in Nat
  BY UsedIsModel
<1>4. CASE L0
  <2>1. level = "L0" /\ Logged
    BY <1>3, <1>4 DEF L0, L0Error, L0Settled, L0Escalates
  <2>2. level' = "failed" \/ Swapping \/ (level' = "restart" /\ attempt' = 1)
    BY <1>2, <1>4 DEF L0, L0Error, L0Settled, L0Escalates, Return, Swapping
  <2> QED
    BY <1>1, <2>1, <2>2 DEF Executing
<1>5. CASE L1
  <2>1. level = "L1" /\ Logged
    BY <1>3, <1>5 DEF L1, L1Succeeds, L1Fails, L1Error
  <2>2. Swapping \/ (level' = "restart" /\ attempt' = attempt + 1)
    BY <1>2, <1>5 DEF L1, L1Succeeds, L1Fails, L1Error, Return, Swapping
  <2> QED
    BY <1>1, <2>1, <2>2 DEF Executing
<1>6. CASE L2
  <2>1. level = "L2" /\ swap \in Models /\ Checkpoint \in Nat
    <3>1. level = "L2"
      BY <1>6 DEF L2, L2Succeeds, L2Fails, L2Error
    <3>2. best \in Nat
      BY DEF LInv, TypeOK
    <3> QED
      BY <3>1, <3>2 DEF LInv, Shape, Checkpoint
  <2>2. Logged
    BY <1>6, <2>1 DEF L2, L2Succeeds, L2Fails, L2Error
  <2>3. level' = "returned" \/ (level' = "swap" /\ chain' = chain)
    BY <1>6 DEF L2, L2Succeeds, L2Fails, L2Error, Return
  <2> QED
    BY <1>1, <2>1, <2>2, <2>3 DEF Executing
<1>7. CASE Start \/ Restart \/ EndRestarts \/ Wake
  BY <1>2, <1>7 DEF Start, Restart, EndRestarts, Wake, Quiet
<1>8. CASE Skip \/ Swap \/ Exhausted \/ Terminal \/ Drop
  BY <1>8 DEF Skip, Swap, Exhausted, Terminal, Drop, Return, Quiet
<1> QED
  BY <1>4, <1>5, <1>6, <1>7, <1>8 DEF Next, Step

\* The numbers the two measures are made of.
LEMMA Measured ==
  ASSUME LInv
  PROVE  /\ MaxRetries \in Nat /\ Len(Fallbacks) \in Nat
         /\ Len(chain) \in Nat /\ Len(runs) \in Nat
         /\ attempt \in Nat /\ attempt <= MaxRetries + 1
         /\ level \in {"backoff", "L1"} => attempt <= MaxRetries
         /\ level \in {"start", "L0"} => Len(runs) = 0
         /\ chain # <<>> => Len(chain) > 0 /\ Len(Tail(chain)) = Len(chain) - 1
         /\ level \in Levels
<1>1. MaxRetries \in Nat /\ Fallbacks \in Seq(Models)
  BY LadderAssumption
<1>2. chain \in Seq(Models) /\ runs \in Seq(Run) /\ attempt \in 0 .. MaxRetries + 1
  BY DEF LInv, TypeOK
<1>3. level \in {"start", "L0"} => runs = <<>>
  BY DEF LInv, Shape
<1>4. level \in {"backoff", "L1"} => attempt <= MaxRetries
  BY DEF LInv, Shape
<1>5. chain # <<>> => Len(chain) > 0 /\ Len(Tail(chain)) = Len(chain) - 1
  BY <1>2
<1> QED
  BY <1>1, <1>2, <1>3, <1>4, <1>5 DEF LInv, TypeOK

\* Every step of the ladder, the cancellation included, leaves fewer steps to
\* take: no interleaving of failures, retries and swaps goes round for ever, with
\* or without a budget (execute, escalate).  LadderEnds adds that it is not left
\* standing in the middle, which takes fairness.
THEOREM LadderShrinks ==
  Spec => [][ToGo' < ToGo /\ ToGo \in Nat /\ ToGo' \in Nat]_vars
<1> DEFINE A == ToGo' < ToGo /\ ToGo \in Nat /\ ToGo' \in Nat
<1>1. LInv /\ LInv' /\ [Next]_vars => [A]_vars
  <2> SUFFICES ASSUME LInv, LInv', Next
               PROVE  ToGo \in Nat /\ ToGo' \in Nat /\ ToGo' < ToGo
    BY DEF vars
  <2>1. /\ MaxRetries \in Nat /\ Len(Fallbacks) \in Nat /\ Len(chain) \in Nat
        /\ attempt \in Nat /\ attempt <= MaxRetries + 1
        /\ level \in {"backoff", "L1"} => attempt <= MaxRetries
        /\ chain # <<>> => Len(chain) > 0 /\ Len(Tail(chain)) = Len(chain) - 1
    BY Measured
  <2>2. CASE level = "start" /\ level' = "L0"
    BY <2>1, <2>2 DEF ToGo
  <2>3. CASE /\ level = "L0"
             /\ level' = "failed" \/ Swapping \/ (level' = "restart" /\ attempt' = 1)
    <3>1. ToGo = 3 * MaxRetries + 2 * Len(Fallbacks) + 3
      BY <2>3 DEF ToGo
    <3>2. CASE level' = "failed" \/ Swapping
      <4>1. ToGo' = 0 \/ ToGo' = 2 * Len(Fallbacks) + 1
        BY <3>2 DEF ToGo, Swapping
      <4> QED
        BY <2>1, <3>1, <4>1
    <3>3. CASE level' = "restart" /\ attempt' = 1
      <4>1. ToGo' = 3 * (MaxRetries + 1 - 1) + 2 * Len(Fallbacks) + 2
        BY <3>3 DEF ToGo
      <4> QED
        BY <2>1, <3>1, <4>1
    <3> QED
      BY <2>3, <3>2, <3>3
  <2>4. CASE /\ level = "restart"
             /\ Swapping \/ (level' = "backoff" /\ attempt' = attempt)
    <3>1. ToGo = 3 * (MaxRetries + 1 - attempt) + 2 * Len(Fallbacks) + 2
      BY <2>4 DEF ToGo
    <3>2. CASE Swapping
      <4>1. ToGo' = 0 \/ ToGo' = 2 * Len(Fallbacks) + 1
        BY <3>2 DEF ToGo, Swapping
      <4> QED
        BY <2>1, <3>1, <4>1
    <3>3. CASE level' = "backoff" /\ attempt' = attempt
      <4>1. ToGo' = 3 * (MaxRetries + 1 - attempt) + 2 * Len(Fallbacks) + 1
        BY <3>3 DEF ToGo
      <4> QED
        BY <2>1, <3>1, <4>1
    <3> QED
      BY <2>4, <3>2, <3>3
  <2>5. CASE level = "backoff" /\ level' = "L1" /\ attempt' = attempt
    BY <2>1, <2>5 DEF ToGo
  <2>6. CASE /\ level = "L1"
             /\ Swapping \/ (level' = "restart" /\ attempt' = attempt + 1)
    <3>1. MaxRetries + 1 - attempt >= 1
      BY <2>1, <2>6
    <3>2. ToGo = 3 * (MaxRetries + 1 - attempt) + 2 * Len(Fallbacks)
      BY <2>6 DEF ToGo
    <3>3. CASE Swapping
      <4>1. ToGo' = 0 \/ ToGo' = 2 * Len(Fallbacks) + 1
        BY <3>3 DEF ToGo, Swapping
      <4> QED
        BY <2>1, <3>1, <3>2, <4>1
    <3>4. CASE level' = "restart" /\ attempt' = attempt + 1
      <4>1. ToGo' = 3 * (MaxRetries + 1 - (attempt + 1)) + 2 * Len(Fallbacks) + 2
        BY <3>4 DEF ToGo
      <4> QED
        BY <2>1, <3>1, <3>2, <4>1
    <3> QED
      BY <2>6, <3>3, <3>4
  <2>7. CASE /\ level = "swap"
             /\ \/ level' = "returned"
                \/ level' \in {"swap", "L2"} /\ chain # <<>> /\ chain' = Tail(chain)
    <3>1. CASE level' = "returned"
      BY <2>1, <2>7, <3>1 DEF ToGo
    <3>2. CASE level' \in {"swap", "L2"} /\ chain # <<>> /\ chain' = Tail(chain)
      <4>1. Len(chain') = Len(chain) - 1 /\ Len(chain) > 0
        BY <2>1, <3>2
      <4> QED
        BY <2>1, <2>7, <3>2, <4>1 DEF ToGo
    <3> QED
      BY <2>7, <3>1, <3>2
  <2>8. CASE level = "L2" /\ (level' = "returned" \/ (level' = "swap" /\ chain' = chain))
    BY <2>1, <2>8 DEF ToGo
  <2>9. CASE level \in Awaiting /\ level' = "dropped"
    <3>1. ToGo' = 0
      BY <2>9 DEF ToGo
    <3>2. CASE level \in {"L0", "L2"}
      <4>1. \/ ToGo = 3 * MaxRetries + 2 * Len(Fallbacks) + 3
            \/ ToGo = 2 * Len(chain) + 2
        BY <3>2 DEF ToGo
      <4> QED
        BY <2>1, <3>1, <4>1
    <3>3. CASE level \in {"backoff", "L1"}
      <4>1. MaxRetries + 1 - attempt >= 1
        BY <2>1, <3>3
      <4>2. \/ ToGo = 3 * (MaxRetries + 1 - attempt) + 2 * Len(Fallbacks) + 1
            \/ ToGo = 3 * (MaxRetries + 1 - attempt) + 2 * Len(Fallbacks)
        BY <3>3 DEF ToGo
      <4> QED
        BY <2>1, <3>1, <4>1, <4>2
    <3> QED
      BY <2>9, <3>2, <3>3 DEF Awaiting, Executing
  <2> QED
    BY Moves, <2>2, <2>3, <2>4, <2>5, <2>6, <2>7, <2>8, <2>9
<1>2. []LInv /\ [][Next]_vars => [][A]_vars
  BY <1>1, PTL
<1> QED
  BY <1>2, LadderInvariant, PTL DEF Spec

\* Even without a limit on attempts the ladder completes no more executions than
\* its first, the retries on the same model and one for every entry of the
\* fallback chain (execute, escalate).
THEOREM RunsAreBounded ==
  Spec => [](Len(runs) <= 1 + MaxRetries + Len(Fallbacks))
<1>1. Init => RunsCapped
  BY LadderAssumption DEF Init, RunsCapped, MayRun
<1>2. LInv /\ LInv' /\ RunsCapped /\ [Next]_vars => RunsCapped'
  <2>1. RunsCapped /\ UNCHANGED vars => RunsCapped'
    BY DEF vars, RunsCapped, MayRun
  <2> SUFFICES ASSUME LInv, LInv', RunsCapped, Next
               PROVE  RunsCapped'
    BY <2>1
  <2>2. /\ MaxRetries \in Nat /\ Len(Fallbacks) \in Nat /\ Len(chain) \in Nat
        /\ Len(runs) \in Nat /\ attempt \in Nat /\ attempt <= MaxRetries + 1
        /\ level \in {"backoff", "L1"} => attempt <= MaxRetries
        /\ level \in {"start", "L0"} => Len(runs) = 0
        /\ chain # <<>> => Len(chain) > 0 /\ Len(Tail(chain)) = Len(chain) - 1
    BY Measured
  <2>3. CASE level = "start" /\ level' = "L0" /\ Quiet
    BY <2>2, <2>3 DEF RunsCapped, MayRun, Quiet
  <2>4. CASE /\ level = "L0" /\ Completed
             /\ level' = "failed" \/ Swapping \/ (level' = "restart" /\ attempt' = 1)
    BY <2>2, <2>4 DEF RunsCapped, MayRun, Completed, Swapping
  <2>5. CASE /\ level = "restart" /\ Quiet
             /\ Swapping \/ (level' = "backoff" /\ attempt' = attempt)
    BY <2>2, <2>5 DEF RunsCapped, MayRun, Quiet, Swapping
  <2>6. CASE level = "backoff" /\ level' = "L1" /\ Quiet /\ attempt' = attempt
    BY <2>2, <2>6 DEF RunsCapped, MayRun, Quiet
  <2>7. CASE /\ level = "L1" /\ Completed
             /\ Swapping \/ (level' = "restart" /\ attempt' = attempt + 1)
    <3>1. /\ MayRun = MaxRetries + 1 - attempt + Len(Fallbacks)
          /\ MaxRetries + 1 - attempt >= 1
      BY <2>2, <2>7 DEF MayRun
    <3>2. CASE Swapping
      <4>1. MayRun' = 0 \/ MayRun' = Len(Fallbacks)
        BY <3>2 DEF MayRun, Swapping
      <4> QED
        BY <2>2, <2>7, <3>1, <4>1 DEF RunsCapped, Completed
    <3>3. CASE level' = "restart" /\ attempt' = attempt + 1
      <4>1. MayRun' = MaxRetries + 1 - (attempt + 1) + Len(Fallbacks)
        BY <3>3 DEF MayRun
      <4> QED
        BY <2>2, <2>7, <3>1, <4>1 DEF RunsCapped, Completed
    <3> QED
      BY <2>7, <3>2, <3>3
  <2>8. CASE /\ level = "swap" /\ Quiet
             /\ \/ level' = "returned"
                \/ level' \in {"swap", "L2"} /\ chain # <<>> /\ chain' = Tail(chain)
    <3>1. CASE level' = "returned"
      BY <2>2, <2>8, <3>1 DEF RunsCapped, MayRun, Quiet
    <3>2. CASE level' \in {"swap", "L2"} /\ chain # <<>> /\ chain' = Tail(chain)
      <4>1. Len(chain') = Len(chain) - 1 /\ Len(chain) > 0
        BY <2>2, <3>2
      <4> QED
        BY <2>2, <2>8, <3>2, <4>1 DEF RunsCapped, MayRun, Quiet
    <3> QED
      BY <2>8, <3>1, <3>2
  <2>9. CASE /\ level = "L2" /\ Completed
             /\ level' = "returned" \/ (level' = "swap" /\ chain' = chain)
    BY <2>2, <2>9 DEF RunsCapped, MayRun, Completed
  <2>10. CASE level \in Awaiting /\ level' = "dropped" /\ Quiet
    BY <2>2, <2>10 DEF RunsCapped, MayRun, Quiet, Awaiting, Executing
  <2> QED
    BY Moves, <2>3, <2>4, <2>5, <2>6, <2>7, <2>8, <2>9, <2>10
<1>3. LInv /\ RunsCapped => Len(runs) <= 1 + MaxRetries + Len(Fallbacks)
  <2> SUFFICES ASSUME LInv, RunsCapped PROVE Len(runs) <= 1 + MaxRetries + Len(Fallbacks)
    OBVIOUS
  <2>1. MayRun \in Nat
    BY Measured DEF MayRun
  <2> QED
    BY <2>1, Measured DEF RunsCapped
<1> QED
  BY <1>1, <1>2, <1>3, LadderInvariant, PTL DEF Spec
=============================================================================
