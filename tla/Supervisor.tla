------------------------------- MODULE Supervisor -------------------------------
(***************************************************************************)
(* The daemon's TaskSupervisor (src/supervisor.rs): it watches the handles *)
(* of critical tasks and of the web server.  The end of a critical task is *)
(* fatal; the end of the web server is answered by a restart after a       *)
(* back-off, at most MaxRetries times in a row.  Its select! is biased:    *)
(* the shutdown signal first, then completions, then the back-off timer.   *)
(*                                                                         *)
(* Back-off is a deadline the loop waits for among other events: pending.  *)
(* reset_after is the event RanStably.  After a fatal exit the operating   *)
(* system's supervisor starts the daemon again.                            *)
(***************************************************************************)
EXTENDS Naturals

CONSTANTS
  Critical,    \* tasks tracked as critical: gateway, guardian, channels
  MaxRetries,  \* RestartConfig.max_retries
  MaxBoots     \* starts of the process, at most (bound)

ASSUME SupervisorAssumption == MaxRetries \in Nat /\ MaxBoots \in Nat

VARIABLES
  proc,       \* the process: "up" or "down"
  outcome,    \* what watch returned: "watching" until it has
  web,        \* the web server's task; "gone" once its completion was seen,
              \* "absent" if the surface could not start with the daemon
  pending,    \* a restart waits for its deadline
  retries,    \* WebState.retries
  stable,     \* reset_after has passed since last_start
  ended,      \* critical tasks that completed
  signalled,  \* ctrl_c, or the root token is cancelled
  boots,      \* starts of the process so far
  burst       \* restarts tried since the server last ran stably (history)

supVars == <<proc, outcome, web, pending, retries, stable, ended, signalled, boots, burst>>

SupTypeOK ==
  /\ proc \in {"up", "down"}
  /\ outcome \in {"watching", "graceful", "fatal"}
  /\ web \in {"serving", "ended", "gone", "absent"}
  /\ pending \in BOOLEAN
  /\ retries \in 0 .. MaxRetries + 1
  /\ stable \in BOOLEAN
  /\ ended \subseteq Critical
  /\ signalled \in BOOLEAN
  /\ boots \in 0 .. MaxBoots
  /\ burst \in Nat

\* a process that is not there
SupInit ==
  /\ proc = "down" /\ outcome = "watching"
  /\ web = "absent" /\ pending = FALSE
  /\ retries = 0 /\ stable = FALSE
  /\ ended = {} /\ signalled = FALSE
  /\ boots = 0 /\ burst = 0

-----------------------------------------------------------------------------
(* Around the supervisor *)

\* cmd_serve: activate_surfaces logs a surface that fails to start and goes on
Boot(started) ==
  /\ proc = "down" /\ boots < MaxBoots
  /\ proc' = "up"
  /\ web' = IF started THEN "serving" ELSE "absent"
  /\ boots' = boots + 1
  /\ UNCHANGED <<outcome, pending, retries, stable, ended, signalled, burst>>

Up == proc = "up"
Watching == Up /\ outcome = "watching"

\* What follows is taken only while it can make a difference: nothing does once
\* watch has returned, and a stable run only after a retry.

\* axum::serve returns
WebEnds ==
  /\ Watching /\ web = "serving"
  /\ web' = "ended"
  /\ UNCHANGED <<proc, outcome, pending, retries, stable, ended, signalled, boots, burst>>

CriticalEnds(c) ==
  /\ Watching /\ c \notin ended
  /\ ended' = ended \cup {c}
  /\ UNCHANGED <<proc, outcome, web, pending, retries, stable, signalled, boots, burst>>

RanStably ==
  /\ Watching /\ web = "serving" /\ retries > 0 /\ ~stable
  /\ stable' = TRUE
  /\ burst' = 0
  /\ UNCHANGED <<proc, outcome, web, pending, retries, ended, signalled, boots>>

Signal ==
  /\ Watching /\ ~signalled
  /\ signalled' = TRUE
  /\ UNCHANGED <<proc, outcome, web, pending, retries, stable, ended, boots, burst>>

\* the process ends and its memory with it
Gone ==
  /\ proc' = "down" /\ outcome' = "watching"
  /\ web' = "absent" /\ pending' = FALSE
  /\ retries' = 0 /\ stable' = FALSE
  /\ ended' = {} /\ signalled' = FALSE
  /\ burst' = 0
  /\ UNCHANGED boots

\* a panic anywhere (panic = "abort"), or the guardian's heartbeat is stale
Abort == Up /\ Gone

-----------------------------------------------------------------------------
(* watch: one branch of the select! at a time *)

SeeSignal ==
  /\ Watching /\ signalled
  /\ outcome' = "graceful"
  /\ UNCHANGED <<proc, web, pending, retries, stable, ended, signalled, boots, burst>>

SeeCriticalEnd ==
  /\ Watching /\ ~signalled
  /\ ended # {}
  /\ outcome' = "fatal"
  /\ UNCHANGED <<proc, web, pending, retries, stable, ended, signalled, boots, burst>>

\* the retry this death is: a stable run resets the budget
Counted == IF stable THEN 1 ELSE retries + 1

\* Mutant of SeeWebEnd: the restart is only scheduled for the first death
SeeWebEndOnce ==
  /\ Watching /\ ~signalled
  /\ web = "ended"
  /\ web' = "gone"
  /\ retries' = Counted
  /\ IF Counted > MaxRetries THEN outcome' = "fatal" /\ UNCHANGED pending
                             ELSE pending' = (retries = 0) /\ UNCHANGED outcome
  /\ UNCHANGED <<proc, stable, ended, signalled, boots, burst>>

\* on_completion(Web)
SeeWebEnd ==
  /\ Watching /\ ~signalled
  /\ web = "ended"
  /\ web' = "gone"
  /\ retries' = Counted
  /\ IF Counted > MaxRetries THEN outcome' = "fatal" /\ UNCHANGED pending
                             ELSE pending' = TRUE /\ UNCHANGED outcome
  /\ UNCHANGED <<proc, stable, ended, signalled, boots, burst>>

TimerFires == Watching /\ ~signalled /\ ended = {} /\ web # "ended" /\ pending

\* fire_web_restart: the surface starts again
RestartWeb ==
  /\ TimerFires
  /\ web' = "serving"
  /\ pending' = FALSE
  /\ stable' = FALSE
  /\ burst' = burst + 1
  /\ UNCHANGED <<proc, outcome, retries, ended, signalled, boots>>

\* Mutant of RestartFails: a failed start is not counted
RestartFailsFree ==
  /\ TimerFires
  /\ burst' = burst + 1
  /\ UNCHANGED <<proc, outcome, web, pending, retries, stable, ended, signalled, boots>>

\* fire_web_restart: the port cannot be bound
RestartFails ==
  /\ TimerFires
  /\ burst' = burst + 1
  /\ retries' = retries + 1
  /\ IF retries + 1 > MaxRetries THEN outcome' = "fatal" /\ pending' = FALSE
                                 ELSE UNCHANGED <<outcome, pending>>
  /\ UNCHANGED <<proc, web, stable, ended, signalled, boots>>

\* drain, the kernel's clean-up and the end of the process, each with a timeout
Exit == Up /\ outcome # "watching" /\ Gone

-----------------------------------------------------------------------------
\* steps that leave the rest of the daemon alone
WatchStep == SeeSignal \/ SeeCriticalEnd \/ SeeWebEnd
Surroundings == WebEnds \/ RanStably \/ Signal \/ \E c \in Critical : CriticalEnds(c)
\* steps that start the web surface, and steps that end the process
StartStep == RestartWeb \/ RestartFails \/ \E started \in BOOLEAN : Boot(started)
EndStep == Exit \/ Abort

SupNext == WatchStep \/ Surroundings \/ StartStep \/ EndStep

SupSpec == SupInit /\ [][SupNext]_supVars

-----------------------------------------------------------------------------
(* Properties *)

\* A web server that started is never forgotten: while the supervisor watches,
\* its task is tracked or its restart is scheduled, and never both.
NeverForgotten ==
  Watching /\ web # "absent" => (web = "gone" <=> pending)

\* A crash loop ends: between two stable runs the surface is started again at
\* most MaxRetries times, failed starts included.
RestartsBounded == burst <= MaxRetries

=============================================================================
