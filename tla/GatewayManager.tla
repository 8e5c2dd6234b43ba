--------------------------- MODULE GatewayManager ---------------------------
(***************************************************************************)
(* The supervisor of the gateway process in the desktop app,               *)
(* apps/desktop/src/main/gateway-manager.ts: port preflight, spawn, health *)
(* checks, restarts and shutdown.  The app starts a manager once and makes *)
(* a new one after stop() (apps/desktop/src/main/index.ts), so one start   *)
(* and one stop are modelled.                                              *)
(*                                                                         *)
(* A health check fails within its timeout, which is not longer than the   *)
(* restart delay: no check of a dead process is open at the next spawn.    *)
(***************************************************************************)
EXTENDS Naturals

CONSTANTS
  MaxRestarts,        \* maxRestarts
  MaxHealthFailures,  \* maxHealthFailures
  LastFailure         \* bound of the runs: no check is made after so many failures in a row

ASSUME LimitsAssumption ==
  MaxRestarts \in Nat /\ MaxHealthFailures \in Nat \ {0} /\ LastFailure \in Nat

VARIABLES
  started,       \* start() was called
  status,
  spawning,      \* where spawnProcess waits: for the port, or for the port to be freed
  child,         \* this.child: "exited" before its exit event, "failed" if never started
  port,          \* who listens: "free", "own", "orphan", "foreign"
  checking,      \* healthCheckTimer is set
  check,         \* the health check in flight, with its answer
  failures,      \* consecutiveFailures
  restarts,      \* restartCount
  restartTimer,
  stableTimer,
  isShuttingDown,
  stop           \* state of stop(): "no", "term", "kill", "resolved"

processVars == <<child, port>>
healthVars == <<checking, check, failures>>
timerVars == <<restarts, restartTimer, stableTimer>>
stopVars == <<isShuttingDown, stop>>
managerVars == <<started, status, spawning, processVars, healthVars, timerVars, stopVars>>

ManagerInit ==
  /\ started = FALSE
  /\ status = "offline"
  /\ spawning = "no"
  /\ child = "none"
  /\ port \in {"free", "orphan", "foreign"}
  /\ checking = FALSE
  /\ check = "no"
  /\ failures = 0
  /\ restarts = 0
  /\ restartTimer = FALSE
  /\ stableTimer = FALSE
  /\ isShuttingDown = FALSE
  /\ stop = "no"

-----------------------------------------------------------------------------
(* spawnProcess: up to the preflight, and from its result on.              *)
SpawnBegins ==
  /\ status' = "starting"
  /\ spawning' = "port"

(* The child exists from now on.  Nothing asks whether the manager has     *)
(* been stopped in the meantime.                                           *)
SpawnEnds ==
  /\ spawning' = "no"
  /\ child' \in {"running", "failed"}
  /\ checking' = TRUE
  /\ failures' = 0
  /\ UNCHANGED <<status, port>>

SpawnRefused ==
  /\ spawning' = "no"
  /\ status' = "error"
  /\ UNCHANGED <<processVars, checking, failures>>

Start ==
  /\ ~ started
  /\ started' = TRUE
  /\ SpawnBegins
  /\ UNCHANGED <<processVars, healthVars, timerVars, stopVars>>

(* ensurePortFree: a gateway left over from an earlier run is killed and   *)
(* the port is tried again a second later; anything else is left alone.    *)
PortFree ==
  /\ spawning = "port" /\ port = "free"
  /\ SpawnEnds
  /\ UNCHANGED <<started, check, timerVars, stopVars>>

KillOrphanedGateway ==
  /\ spawning = "port" /\ port = "orphan"
  /\ spawning' = "freeing"
  /\ UNCHANGED <<started, status, processVars, healthVars, timerVars, stopVars>>

PortBlocked ==
  /\ spawning = "port" /\ port # "free"
  /\ SpawnRefused
  /\ UNCHANGED <<started, check, timerVars, stopVars>>

PortTriedAgain ==
  /\ spawning = "freeing"
  /\ IF port = "free" THEN SpawnEnds ELSE SpawnRefused
  /\ UNCHANGED <<started, check, timerVars, stopVars>>

-----------------------------------------------------------------------------
(* The processes: the gateway listens and exits as it likes, and a killed  *)
(* orphan gives the port back.                                             *)
Listens ==
  /\ child = "running" /\ port = "free"
  /\ port' = "own"
  /\ UNCHANGED <<started, status, spawning, child, healthVars, timerVars, stopVars>>

Exits ==
  /\ child = "running"
  /\ child' = "exited"
  /\ port' = IF port = "own" THEN "free" ELSE port
  /\ UNCHANGED <<started, status, spawning, healthVars, timerVars, stopVars>>

OrphanExits ==
  /\ spawning = "freeing" /\ port = "orphan"
  /\ port' = "free"
  /\ UNCHANGED <<started, status, spawning, child, healthVars, timerVars, stopVars>>

-----------------------------------------------------------------------------
(* handleProcessExit and scheduleRestart.  During stop() the same event    *)
(* also resolves the promise of killProcess.                               *)
NeverRestarts == FALSE
Restarts == restarts < MaxRestarts

ExitEvent ==
  /\ child = "exited"
  /\ child' = "none"
  /\ checking' = FALSE
  /\ stableTimer' = FALSE
  /\ IF isShuttingDown
     THEN /\ stop' = IF stop \in {"term", "kill"} THEN "resolved" ELSE stop
          /\ UNCHANGED <<status, restarts, restartTimer>>
     ELSE /\ restarts' = restarts + 1
          /\ restartTimer' = Restarts
          /\ status' = IF restarts < MaxRestarts THEN "offline" ELSE "error"
          /\ UNCHANGED stop
  /\ UNCHANGED <<started, spawning, port, check, failures, isShuttingDown>>

RestartTimer ==
  /\ restartTimer
  /\ check = "no"
  /\ restartTimer' = FALSE
  /\ SpawnBegins
  /\ UNCHANGED <<started, processVars, healthVars, restarts, stableTimer, stopVars>>

StableTimer ==
  /\ stableTimer
  /\ stableTimer' = FALSE
  /\ restarts' = 0
  /\ UNCHANGED <<started, status, spawning, processVars, healthVars, restartTimer, stopVars>>

-----------------------------------------------------------------------------
(* startHealthCheck: ask, get an answer, and look at it.                   *)
Ask ==
  /\ checking /\ ~ isShuttingDown
  /\ check = "no"
  /\ failures < LastFailure
  /\ check' = "asked"
  /\ UNCHANGED <<started, status, spawning, processVars, checking, failures,
                 timerVars, stopVars>>

Answer ==
  /\ check = "asked"
  /\ \/ check' = "ok" /\ port = "own"
     \/ check' = "bad"
  /\ UNCHANGED <<started, status, spawning, processVars, checking, failures,
                 timerVars, stopVars>>

AnswerCounts == ~ isShuttingDown
AnswerOfLiving == ~ isShuttingDown /\ child # "none"

RestartAtLimit == restartTimer \/ failures' >= MaxHealthFailures
NoRestart == restartTimer

CheckPassed ==
  /\ check = "ok" /\ AnswerOfLiving
  /\ failures' = 0
  /\ status' = "online"
  /\ stableTimer' = (status # "online" \/ stableTimer)
  /\ UNCHANGED restartTimer

CheckFailed ==
  /\ check = "bad" /\ AnswerOfLiving
  /\ failures' = failures + 1
  /\ status' = IF failures' >= MaxHealthFailures THEN "offline" ELSE status
  /\ restartTimer' = NoRestart
  /\ UNCHANGED stableTimer

CheckIgnored ==
  /\ check \in {"ok", "bad"} /\ ~ AnswerOfLiving
  /\ UNCHANGED <<failures, status, stableTimer, restartTimer>>

CheckEnds ==
  /\ CheckPassed \/ CheckFailed \/ CheckIgnored
  /\ check' = "no"
  /\ UNCHANGED <<started, spawning, processVars, checking, restarts, stopVars>>

-----------------------------------------------------------------------------
(* stop and killProcess.  A child without a pid is forgotten at once; of a *)
(* spawn that still waits for the port stop() knows nothing.               *)
Stop ==
  /\ started /\ stop = "no"
  /\ isShuttingDown' = TRUE
  /\ checking' = FALSE
  /\ stableTimer' = FALSE
  /\ restartTimer' = FALSE
  /\ IF child \in {"none", "failed"}
     THEN stop' = "resolved" /\ child' = "none"
     ELSE stop' = "term" /\ UNCHANGED child
  /\ UNCHANGED <<started, status, spawning, port, check, failures, restarts>>

Kill == "kill"

ForceKill ==
  /\ stop = "term"
  /\ stop' = Kill
  /\ UNCHANGED <<started, status, spawning, processVars, healthVars, timerVars,
                 isShuttingDown>>

-----------------------------------------------------------------------------
ManagerNext ==
  \/ Start \/ PortFree \/ KillOrphanedGateway \/ PortBlocked \/ PortTriedAgain
  \/ Listens \/ Exits \/ OrphanExits
  \/ ExitEvent \/ RestartTimer \/ StableTimer
  \/ Ask \/ Answer \/ CheckEnds
  \/ Stop \/ ForceKill

ManagerSpec == ManagerInit /\ [][ManagerNext]_managerVars

(* Timers fire, the preflight and the checks end, exit events are          *)
(* delivered and SIGKILL works.  Nothing makes the gateway listen, answer  *)
(* well or obey SIGTERM.                                                   *)
Fairness ==
  /\ WF_managerVars(PortFree \/ KillOrphanedGateway \/ PortBlocked \/ PortTriedAgain)
  /\ WF_managerVars(ExitEvent) /\ WF_managerVars(RestartTimer)
  /\ WF_managerVars(Answer) /\ WF_managerVars(CheckEnds)
  /\ WF_managerVars(ForceKill) /\ WF_managerVars(stop = "kill" /\ Exits)

ManagerFairSpec == ManagerSpec /\ Fairness
-----------------------------------------------------------------------------
(* Type invariant, with the limit of the restart counter; the code sets    *)
(* none to consecutiveFailures.                                            *)
ManagerTypeOK ==
  /\ started \in BOOLEAN
  /\ status \in {"starting", "online", "offline", "error"}
  /\ spawning \in {"no", "port", "freeing"}
  /\ child \in {"none", "running", "exited", "failed"}
  /\ port \in {"free", "own", "orphan", "foreign"}
  /\ checking \in BOOLEAN
  /\ check \in {"no", "asked", "ok", "bad"}
  /\ failures \in Nat
  /\ restarts \in 0 .. MaxRestarts + 1
  /\ restartTimer \in BOOLEAN
  /\ stableTimer \in BOOLEAN
  /\ isShuttingDown \in BOOLEAN
  /\ stop \in {"no", "term", "kill", "resolved"}

(* "Online" is never shown, and the desktop agent never connected, for a   *)
(* gateway whose exit the manager has handled, whatever checks are late.   *)
NoGreenFlicker == status = "online" /\ ~ isShuttingDown => child \in {"running", "exited"}

(* One manager never has two gateways: while a spawn is under way or a     *)
(* restart is due there is no child, and never both.  "error", be it for   *)
(* the port or for too many restarts, is final and leaves none of them.    *)
OneGateway ==
  /\ spawning # "no" => child = "none" /\ ~ restartTimer
  /\ restartTimer => child = "none"
  /\ status = "error" => child = "none" /\ spawning = "no" /\ ~ restartTimer

(* An exit that was not asked for is answered by a new start or an error,  *)
(* and stop() resolves, with SIGKILL if the gateway ignores SIGTERM.       *)
EndsAreAnswered ==
  /\ child = "exited" ~> (spawning # "no" \/ status = "error" \/ isShuttingDown)
  /\ stop = "term" ~> stop = "resolved"
=============================================================================
