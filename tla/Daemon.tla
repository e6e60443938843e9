--------------------------------- MODULE Daemon ---------------------------------
(***************************************************************************)
(* The daemon process: the task supervisor over the automations.  What the *)
(* two share is the start of the web surface.  WebSurface::start spawns a  *)
(* tick loop before it binds its port, so every start adds one, those of   *)
(* the supervisor and those that fail included; only the end of the        *)
(* process stops a loop.                                                   *)
(***************************************************************************)
EXTENDS Automation, Supervisor

CONSTANT EarlyRequests  \* may a run begin before recovery has run? (bound)

ASSUME DaemonAssumption == EarlyRequests \in BOOLEAN

vars == <<autoVars, supVars>>

DaemonInit == AutoInit /\ SupInit

\* WebSurface::start, whatever comes of it
StartSurface == StartStep /\ SpawnLoop

\* the supervisor's loop and what it watches
Supervise == (WatchStep \/ Surroundings) /\ UNCHANGED autoVars

EndProcess == EndStep /\ LoseMemory

\* the automations, while the process runs
Automate ==
  /\ Up /\ AutoStep /\ UNCHANGED supVars
  /\ (Recovering /\ ~EarlyRequests) => work' = work

DaemonNext == StartSurface \/ Supervise \/ EndProcess \/ Automate

DaemonTypeOK == AutoTypeOK /\ SupTypeOK

DaemonSpec == DaemonInit /\ [][DaemonNext]_vars

=============================================================================
