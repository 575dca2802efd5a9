---------------------------- MODULE RuntimeRecovery ----------------------------
(***************************************************************************)
(* The supervisor's recovery of the self client: the run loop, the          *)
(* keepalive, heartbeat and failsafe monitors that ask for a recovery, the  *)
(* recovery lock, the lightweight reconnect and the full recovery it         *)
(* escalates to.  Every recovery is a task of its own; a step runs from one  *)
(* await to the next.                                                         *)
(***************************************************************************)
EXTENDS Integers, FiniteSets

CONSTANT RecoveryTasks   \* the recovery tasks that may exist at once

ASSUME RecoveryAssumption == RecoveryTasks \in Nat \ {0}

VARIABLES process,    \* the interpreter
          link,       \* the Telegram connection, and what the runtime believes
          loop,       \* the run task is inside run_until_disconnected or not
          lock,       \* holder of _recovery_lock
          recovery,   \* where each recovery task is
          cooling,    \* within _RECONNECT_COOLDOWN
          generation  \* client_generation

supVars == <<process, link, loop, lock, recovery, cooling, generation>>
-----------------------------------------------------------------------------
Nobody == 0
Recoveries == 1 .. RecoveryTasks
Stages == {"none", "reconnect", "disconnect", "connect", "helper", "hard", "full", "orphans"}

SupTypeOK ==
    /\ process \in {"up", "stopping", "stopped", "exited"}
    /\ link \in [connected: BOOLEAN, alive: BOOLEAN, shown: BOOLEAN, helper: BOOLEAN]
    /\ loop \in {"running", "none"}
    /\ lock \in Recoveries \cup {Nobody}
    /\ recovery \in [Recoveries -> Stages]
    /\ cooling \in BOOLEAN
    /\ generation \in Nat

(* start has finished: READY, the client built, the helper bot started or not. *)
SupInit ==
    /\ process = "up"
    /\ link \in [connected: {TRUE}, alive: {TRUE}, shown: {TRUE}, helper: BOOLEAN]
    /\ loop = "running" /\ lock = Nobody
    /\ recovery = [t \in Recoveries |-> "none"]
    /\ cooling = FALSE /\ generation = 1

Running == process \in {"up", "stopping"}
Idle(t) == recovery[t] = "none"
Stage(t, s) == recovery' = [recovery EXCEPT ![t] = s]

-----------------------------------------------------------------------------
(* The connection and the run loop. *)
SupDrop ==
    /\ Running /\ link.connected
    /\ link' = [link EXCEPT !.connected = FALSE]
    /\ UNCHANGED <<process, loop, lock, recovery, cooling, generation>>

(* Telethon's own auto_reconnect, before run_until_disconnected has given up. *)
SupTelethonReconnects ==
    /\ Running /\ ~link.connected /\ link.alive
    /\ link' = [link EXCEPT !.connected = TRUE]
    /\ UNCHANGED <<process, loop, lock, recovery, cooling, generation>>

(* run_until_disconnected returns or raises; a loop that yields to a recovery is *)
(* restarted by its immortal wrapper.                                             *)
SupLoopReturns ==
    /\ process = "up" /\ loop = "running" /\ ~link.connected /\ lock = Nobody
    /\ link' = [link EXCEPT !.alive = FALSE, !.shown = FALSE]
    /\ UNCHANGED <<process, loop, lock, recovery, cooling, generation>>

-----------------------------------------------------------------------------
(* The monitors.  Each asks only while nobody recovers; its task runs later.  *)
Ask(t, s) ==
    /\ Idle(t) /\ lock = Nobody
    /\ Stage(t, s)
    /\ UNCHANGED <<process, link, loop, lock, cooling, generation>>

(* A get_me that times out or fails; no probe of a client marked dead. *)
SupKeepalive(t) == process = "up" /\ link.alive /\ Ask(t, "reconnect")

HeartbeatHelperOnly(t) == process = "up" /\ ~link.helper /\ Ask(t, "reconnect")  \* mutant
(* READY_BUT_DISCONNECTED; a stalled dispatcher looks the same to this model as *)
(* a failed probe.                                                               *)
SupHeartbeat(t) ==
    process = "up" /\ (~link.shown \/ ~link.helper) /\ Ask(t, "reconnect")

SupFailsafe(t) == process = "up" /\ Ask(t, "hard")

-----------------------------------------------------------------------------
ReconnectBesideTheLoop(t) ==                                          \* mutant
    /\ Running /\ recovery[t] = "reconnect"
    /\ IF lock # Nobody \/ cooling
         THEN Stage(t, "none") /\ UNCHANGED lock
         ELSE Stage(t, "disconnect") /\ lock' = t
    /\ UNCHANGED <<process, link, loop, cooling, generation>>
(* _trigger_reconnect *)
SupReconnect(t) ==
    /\ Running /\ recovery[t] = "reconnect"
    /\ IF lock # Nobody \/ cooling
         THEN Stage(t, "none") /\ UNCHANGED <<loop, lock>>
         ELSE Stage(t, "disconnect") /\ lock' = t /\ loop' = "none"
    /\ UNCHANGED <<process, link, cooling, generation>>

(* The client is disconnected on purpose, or the disconnect times out. *)
SupDisconnect(t) ==
    /\ Running /\ recovery[t] = "disconnect"
    /\ \E gone \in BOOLEAN :
        /\ link' = [link EXCEPT !.alive = FALSE, !.shown = FALSE,
                                !.connected = IF gone THEN FALSE ELSE @]
        /\ Stage(t, IF gone THEN "connect" ELSE "full")
    /\ UNCHANGED <<process, loop, lock, cooling, generation>>

SupConnected(t) ==
    /\ Running /\ recovery[t] = "connect"
    /\ link' = [link EXCEPT !.connected = TRUE, !.alive = TRUE, !.shown = TRUE]
    /\ cooling' = TRUE /\ loop' = "running"
    /\ IF link.helper THEN Stage(t, "none") /\ lock' = Nobody
                      ELSE Stage(t, "helper") /\ UNCHANGED lock
    /\ UNCHANGED <<process, generation>>

(* Connecting fails or the session is not authorized: the lock is released and  *)
(* _trigger_full_recovery takes it again, behind whoever waits for it.           *)
SupEscalate(t) ==
    /\ Running /\ recovery[t] = "connect"
    /\ \E up \in BOOLEAN : link' = [link EXCEPT !.connected = up]
    /\ \E heir \in IF \E h \in Recoveries : recovery[h] = "hard"
                     THEN {h \in Recoveries : recovery[h] = "hard"} ELSE {t} :
        /\ lock' = heir
        /\ recovery' = [recovery EXCEPT ![t] = "none", ![heir] = "full"]
    /\ UNCHANGED <<process, loop, cooling, generation>>

SupHelper(t) ==
    /\ Running /\ recovery[t] = "helper"
    /\ \E up \in BOOLEAN : link' = [link EXCEPT !.helper = up]
    /\ Stage(t, "none") /\ lock' = Nobody
    /\ UNCHANGED <<process, loop, cooling, generation>>

-----------------------------------------------------------------------------
(* _hard_reset_runtime waits ten seconds for the lock. *)
SupHardLock(t) ==
    /\ Running /\ recovery[t] = "hard"
    /\ \/ lock = Nobody /\ process = "up" /\ lock' = t /\ Stage(t, "full")
       \/ (lock # Nobody \/ process # "up") /\ Stage(t, "none") /\ UNCHANGED lock
    /\ UNCHANGED <<process, link, loop, cooling, generation>>

(* _do_recovery and _hard_reset_runtime begin alike: helper, panels, run task. *)
SupTearDown(t) ==
    /\ Running /\ recovery[t] = "full"
    /\ link' = [link EXCEPT !.helper = FALSE]
    /\ loop' = "none"
    /\ Stage(t, "orphans")
    /\ UNCHANGED <<process, lock, cooling, generation>>

(* _cancel_orphan_tasks: every task whose name is not protected.  The main task,  *)
(* which waits for the shutdown event under asyncio's default name, is none of    *)
(* them, and the interpreter ends with it.                                         *)
LongTasks == {"main", "run", "helper", "web", "heartbeat", "keepalive", "failsafe",
              "diagnostics", "scheduler", "profile", "memory_cleanup"}
ProtectedWithMain == LongTasks \ {"memory_cleanup"}                  \* mutant
Protected == LongTasks \ {"main", "memory_cleanup"}

SupCancelOrphans(t) ==
    /\ Running /\ recovery[t] = "orphans"
    /\ process' = IF "main" \in Protected THEN process ELSE "exited"
    /\ generation' = IF "main" \in Protected THEN generation + 1 ELSE generation
    /\ recovery' = [s \in Recoveries |-> "none"]
    /\ UNCHANGED <<link, loop, lock, cooling>>

-----------------------------------------------------------------------------
SupCooled ==
    /\ Running /\ cooling /\ cooling' = FALSE
    /\ UNCHANGED <<process, link, loop, lock, recovery, generation>>

(* A signal sets the shutdown event, which main waits for; stop ends the loops,   *)
(* disconnects and cancels what is left.                                           *)
SupSignal ==
    /\ process = "up" /\ process' = "stopping"
    /\ UNCHANGED <<link, loop, lock, recovery, cooling, generation>>
SupStop ==
    /\ process = "stopping" /\ process' = "stopped"
    /\ link' = [connected |-> FALSE, alive |-> link.alive, shown |-> FALSE, helper |-> FALSE]
    /\ loop' = "none" /\ recovery' = [t \in Recoveries |-> "none"] /\ lock' = Nobody
    /\ UNCHANGED <<cooling, generation>>

SupRound(t) ==
    \/ SupReconnect(t) \/ SupDisconnect(t) \/ SupConnected(t) \/ SupEscalate(t)
    \/ SupHelper(t) \/ SupHardLock(t) \/ SupTearDown(t) \/ SupCancelOrphans(t)
SupNext ==
    \/ SupDrop \/ SupTelethonReconnects \/ SupLoopReturns \/ SupCooled
    \/ SupSignal \/ SupStop
    \/ \E t \in Recoveries :
        SupKeepalive(t) \/ SupHeartbeat(t) \/ SupFailsafe(t) \/ SupRound(t)

(* The monitors and the tasks run, every network call has its timeout and the       *)
(* cooldown passes.  The keepalive is not needed: heartbeats are enough.             *)
SupFairness ==
    /\ WF_supVars(SupLoopReturns) /\ WF_supVars(SupCooled) /\ WF_supVars(SupStop)
    /\ WF_supVars(\E t \in Recoveries : SupHeartbeat(t))
    /\ \A t \in Recoveries : WF_supVars(SupRound(t))
SupSpec == SupInit /\ [][SupNext]_supVars
SupFairSpec == SupSpec /\ SupFairness
-----------------------------------------------------------------------------
(* What the supervisor promises, and what it does. *)

(* What must come to an end whatever the monitors miss: the connection comes back,  *)
(* or the process ends and the platform starts another.                              *)
ConnectionLost == ~link.connected /\ Running

(* No full recovery ever builds a client: the recovery that gets that far has        *)
(* cancelled the main task, and the process ends.                                     *)
RecoveryNeverRebuilds == generation = 1

(* Two recoveries never work on the client at once, and the run loop never owns the  *)
(* connection while one has taken it down.                                             *)
OneOwnerOfTheConnection ==
    \A t \in Recoveries : recovery[t] \in {"disconnect", "connect", "orphans"} =>
        /\ lock = t /\ loop = "none"
        /\ \A s \in Recoveries \ {t} : recovery[s] \in {"none", "reconnect", "hard"}
=============================================================================
