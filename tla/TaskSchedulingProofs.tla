----------------------- MODULE TaskSchedulingProofs -----------------------
(***************************************************************************)
(* Proofs about TaskScheduling, for every set of tasks, messages, slots and *)
(* handlers and every bound: type correctness; that no clock-driven         *)
(* occurrence is executed before its boundary; that an occurrence a crash   *)
(* caught running is never executed again while no deletion is in play;     *)
(* that a deleted task leaves no occurrence behind; that clock-driven       *)
(* occurrences are executed by one coroutine at a time; and that the        *)
(* cadence never moves past a boundary that was not started; and that the   *)
(* scheduler implements OccurrenceLifecycle: whatever it, its slots,        *)
(* restarts and the owner do, a clock-driven occurrence only ever takes the *)
(* steps its life cycle promises, with no event task and no deletion in play.*)
(***************************************************************************)
EXTENDS TaskScheduling, TLAPS

-----------------------------------------------------------------------------
(* The inductive strengthening of TypeOK, one conjunct per component: what   *)
(* work is queued and what a coroutine holds is always work on a real key,   *)
(* and only a due boundary is ever advanced.                                 *)

ClockInv == /\ now \in 0 .. MaxTime /\ ref \in 0 .. MaxTime
            /\ phase \in Phases /\ progressed \in BOOLEAN
TaskInv == task \in [Tasks -> TaskType] /\ \A t \in Event : task[t].nextRun = 0
OccInv == occ \in [Keys -> OccType]
BatchInv == /\ batch \subseteq ItemType
            /\ \A i \in batch : /\ i.kind \in {"due", "retry"}
                                /\ i.kind = "due" => i.key \in TimedKeys
Sound(r) == /\ r \in WorkerType
            /\ r.pc # "idle" => r.key \in Keys
            /\ r.kind = "due" => r.key \in TimedKeys
            /\ r.pc \in {"advance", "prepare"} => r.kind = "due"
WorkerInv == worker \in [Workers -> WorkerType] /\ \A w \in Workers : Sound(worker[w])
RecInv == rec \in [todo: SUBSET Unresolved, key: Keys \cup {NoKey}, attempt: 0 .. MaxAttempts]
OwnerInv == owner \in OwnerType /\ (owner.pc # "idle" => owner.task \in Tasks)
HistInv == /\ effects \in [Keys -> Nat] /\ uncertain \subseteq Keys
           /\ edited \in [Tasks -> 0 .. MaxTime] /\ replied \subseteq Keys
           /\ crashes \in Nat /\ ops \in Nat

TypeInv == /\ ClockInv /\ TaskInv /\ OccInv /\ BatchInv
           /\ WorkerInv /\ RecInv /\ OwnerInv /\ HistInv

LEMMA TypeInvImpliesTypeOK == TypeInv => TypeOK
  BY DEF TypeInv, TypeOK, ClockInv, TaskInv, OccInv, BatchInv, WorkerInv, RecInv, OwnerInv, HistInv

-----------------------------------------------------------------------------
(* What the helpers of the module preserve. *)

LEMMA TimedKeysAreKeys == TimedKeys \subseteq Keys
  BY DEF Keys

LEMMA TimedKeyParts == \A k \in TimedKeys : k[1] \in Timed /\ k[2] \in Boundaries
  BY DEF TimedKeys

LEMMA KeyTask == \A k \in Keys : k[1] \in Tasks
  BY DEF Keys, TimedKeys, EventKeys, Tasks

LEMMA IdleIsSound == Sound(IdleWorker)
  BY AttemptsAssumption DEF Sound, IdleWorker, WorkerType, PCs, NoKey

(* Moving one coroutine on keeps every coroutine well formed. *)
LEMMA StepKeepsWorkers ==
  ASSUME WorkerInv, NEW w \in Workers, NEW pc \in PCs, worker[w].pc # "idle",
         pc \in {"advance", "prepare"} => worker[w].kind = "due", Step(w, pc)
  PROVE  WorkerInv'
  <1>1. CASE pc = "idle"
    BY <1>1, IdleIsSound DEF WorkerInv, Step, Sound
  <1>2. CASE pc # "idle"
    <2>1. [worker[w] EXCEPT !.pc = pc] \in WorkerType
      BY DEF WorkerInv, Sound, WorkerType
    <2>2. Sound([worker[w] EXCEPT !.pc = pc])
      BY <2>1, <1>2 DEF WorkerInv, Sound, WorkerType
    <2>3. worker' = [worker EXCEPT ![w] = [worker[w] EXCEPT !.pc = pc]]
      BY <1>2 DEF Step
    <2>. QED  BY <2>2, <2>3 DEF WorkerInv, Sound
  <1>. QED  BY <1>1, <1>2

LEMMA ThenIsStep ==
  ASSUME NEW w \in Workers
  PROVE  Then(w) \in PCs /\ (Then(w) \in {"advance", "prepare"} => worker[w].kind = "due")
  BY DEF Then, PCs

LEMMA WriteKeepsRows ==
  ASSUME OccInv, NEW k \in Keys, NEW row \in OccType, Write(k, row)
  PROVE  OccInv'
  BY DEF OccInv, Write

LEMMA MarkKeepsRows ==
  ASSUME OccInv, NEW k \in Keys, NEW s \in Statuses, Mark(k, s)
  PROVE  OccInv'
  <1>1. [occ[k] EXCEPT !.status = s] \in OccType
    BY DEF OccInv, OccType
  <1>. QED  BY <1>1, WriteKeepsRows DEF Mark

LEMMA RearmKeepsRows ==
  ASSUME ClockInv, OccInv, NEW k \in Keys, NEW a \in 0 .. MaxAttempts, Rearm(k, a)
  PROVE  OccInv'
  <1>1. PICK at \in Soon : Write(k, [occ[k] EXCEPT !.status = "retry_pending",
                                                  !.attempt = a, !.retryAt = at])
    BY DEF Rearm
  <1>2. at \in 0 .. MaxTime
    BY BoundAssumption DEF Soon, ClockInv
  <1>3. [occ[k] EXCEPT !.status = "retry_pending", !.attempt = a, !.retryAt = at] \in OccType
    BY <1>2 DEF OccInv, OccType, Statuses
  <1>. QED  BY <1>1, <1>3, WriteKeepsRows

LEMMA NoOccIsRow == NoOcc \in OccType
  BY AttemptsAssumption, BoundAssumption DEF NoOcc, OccType, Statuses

LEMMA NewOccIsRow == ASSUME NEW g \in Nat PROVE NewOcc(g) \in OccType
  BY AttemptsAssumption, BoundAssumption DEF NewOcc, OccType, Statuses

LEMMA ParkedRow ==
  ASSUME NEW r \in OccType, NEW s \in Statuses, NEW at \in 0 .. MaxTime
  PROVE  [r EXCEPT !.status = s, !.parks = @ + 1, !.retryAt = at] \in OccType
  <1>1. r.parks + 1 \in Nat
    BY DEF OccType
  <1>. QED  BY <1>1 DEF OccType

(* A task row stays a task row whichever of its fields a write moves. *)
LEMMA StatusRow ==
  ASSUME NEW r \in TaskType, NEW s \in {"active", "paused", "completed", "gone"},
         NEW run \in 0 .. (MaxTime + 1)
  PROVE  LET row == [r EXCEPT !.status = s, !.nextRun = run]
         IN row \in TaskType /\ row.nextRun = run
  BY DEF TaskType

LEMMA ClearedRow ==
  ASSUME NEW r \in TaskType, NEW s \in {"active", "paused", "completed", "gone"}
  PROVE  LET row == [r EXCEPT !.status = s, !.nextRun = 0]
         IN row \in TaskType /\ row.nextRun = 0
  <1>1. 0 \in 0 .. (MaxTime + 1)
    BY BoundAssumption
  <1>. QED  BY <1>1 DEF TaskType

LEMMA DefinitionRow ==
  ASSUME NEW r \in TaskType, NEW run \in 0 .. (MaxTime + 1)
  PROVE  LET row == [r EXCEPT !.gen = @ + 1, !.nextRun = run]
         IN row \in TaskType /\ row.nextRun = run
  <1>1. r.gen + 1 \in Nat
    BY DEF TaskType
  <1>. QED  BY <1>1 DEF TaskType

LEMMA AdvancedRow ==
  ASSUME NEW r \in TaskType, NEW run \in 0 .. (MaxTime + 1)
  PROVE  [r EXCEPT !.version = @ + 1, !.nextRun = run] \in TaskType
  <1>1. r.version + 1 \in Nat
    BY DEF TaskType
  <1>. QED  BY <1>1 DEF TaskType

LEMMA RowKeepsTasks ==
  ASSUME TaskInv, NEW t \in Tasks, NEW row \in TaskType, t \in Event => row.nextRun = 0,
         task' = task \/ task' = [task EXCEPT ![t] = row]
  PROVE  TaskInv'
  <1>1. CASE task' = task
    BY <1>1 DEF TaskInv
  <1>2. CASE task' = [task EXCEPT ![t] = row]
    BY <1>2 DEF TaskInv
  <1>. QED  BY <1>1, <1>2

LEMMA RecoveredIsTyped ==
  ASSUME NEW r \in [todo: SUBSET Unresolved, key: Keys \cup {NoKey}, attempt: 0 .. MaxAttempts]
  PROVE  [r EXCEPT !.key = NoKey, !.attempt = 0]
            \in [todo: SUBSET Unresolved, key: Keys \cup {NoKey}, attempt: 0 .. MaxAttempts]
  <1>1. 0 \in 0 .. MaxAttempts
    BY AttemptsAssumption
  <1>2. NoKey \in Keys \cup {NoKey}
    OBVIOUS
  <1>. QED  BY <1>1, <1>2

LEMMA WorkerParts ==
  ASSUME WorkerInv, NEW w \in Workers
  PROVE  /\ worker[w] \in WorkerType /\ worker[w].gen \in Nat
         /\ worker[w].attempt \in 0 .. MaxAttempts /\ worker[w].pc \in PCs
         /\ worker[w].pc # "idle" => worker[w].key \in Keys
         /\ worker[w].pc \in {"advance", "prepare"} => worker[w].key \in TimedKeys
  BY DEF WorkerInv, Sound, WorkerType

LEMMA BudgetLeft == \A a \in Nat : CanRetry(a) => a + 1 \in 0 .. MaxAttempts
  BY AttemptsAssumption DEF CanRetry

-----------------------------------------------------------------------------
(* Every action preserves TypeInv: first the wake loop and the events. *)

LEMMA WakeType == TypeInv /\ Wake => TypeInv'
  <1>. SUFFICES ASSUME TypeInv, Wake PROVE TypeInv'
    OBVIOUS
  <1>1. BatchInv'
    BY DEF TypeInv, ClockInv, Wake, BatchInv, ItemType, Item, DueRetries
  <1>2. ClockInv'
    BY DEF TypeInv, ClockInv, Wake, Phases
  <1>. QED  BY <1>1, <1>2 DEF TypeInv, Wake, TaskInv, OccInv, WorkerInv, RecInv, OwnerInv,
                              HistInv, history, bounds

LEMMA SweepType == TypeInv /\ Sweep => TypeInv'
  <1>. SUFFICES ASSUME TypeInv, Sweep PROVE TypeInv'
    OBVIOUS
  <1>1. ASSUME NEW t \in DueTasks
        PROVE  /\ <<t, task[t].nextRun>> \in TimedKeys
               /\ task[t].version \in Nat /\ task[t].gen \in Nat
    <2>1. t \in Tasks /\ task[t] \in TaskType /\ task[t].nextRun > 0
      BY DEF TypeInv, TaskInv, DueTasks
    <2>2. t \in Timed /\ task[t].nextRun \in Boundaries
      BY <2>1, BoundAssumption DEF TypeInv, TaskInv, Tasks, TaskType, Boundaries
    <2>. QED  BY <2>1, <2>2 DEF TimedKeys, TaskType
  <1>2. BatchInv'
    BY <1>1, TimedKeysAreKeys DEF Sweep, BatchInv, ItemType, Item
  <1>3. ClockInv'
    BY DEF TypeInv, ClockInv, Sweep, Phases
  <1>. QED  BY <1>2, <1>3 DEF TypeInv, Sweep, TaskInv, OccInv, WorkerInv, RecInv, OwnerInv,
                              HistInv, history, bounds

LEMMA SleepType == TypeInv /\ Sleep => TypeInv'
  BY DEF TypeInv, Sleep, ClockInv, Phases, TaskInv, OccInv, BatchInv, WorkerInv, RecInv,
         OwnerInv, HistInv, history, bounds

LEMMA AdmitType == ASSUME NEW w \in Pool, TypeInv, Admit(w) PROVE TypeInv'
  <1>1. PICK i \in batch :
          /\ batch' = batch \ {i}
          /\ worker' = [worker EXCEPT ![w] =
                [pc |-> IF i.kind = "due" THEN "create" ELSE "claim", kind |-> i.kind,
                 key |-> i.key, version |-> i.version, gen |-> i.gen, attempt |-> 0]]
    BY DEF Admit
  <1>2. i \in ItemType /\ (i.kind = "due" => i.key \in TimedKeys)
    BY DEF TypeInv, BatchInv
  <1>3. Sound([pc |-> IF i.kind = "due" THEN "create" ELSE "claim", kind |-> i.kind,
               key |-> i.key, version |-> i.version, gen |-> i.gen, attempt |-> 0])
    BY <1>2, AttemptsAssumption DEF ItemType, Sound, WorkerType, PCs
  <1>4. WorkerInv'
    BY <1>1, <1>3 DEF TypeInv, WorkerInv, Sound, Workers
  <1>5. BatchInv'
    BY <1>1 DEF TypeInv, BatchInv
  <1>. QED  BY <1>4, <1>5 DEF TypeInv, Admit, ClockInv, TaskInv, OccInv, RecInv, OwnerInv,
                              HistInv, history, bounds

LEMMA DeliverType == ASSUME NEW h \in Handlers, TypeInv, Deliver(h) PROVE TypeInv'
  <1>1. PICK t \in Event, m \in Messages :
          worker' = [worker EXCEPT ![h] =
                [pc |-> "create", kind |-> "event", key |-> <<t, m>>,
                 version |-> task[t].version, gen |-> task[t].gen, attempt |-> 0]]
    BY DEF Deliver
  <1>2. <<t, m>> \in Keys /\ task[t] \in TaskType
    BY DEF Keys, EventKeys, TypeInv, TaskInv, Tasks
  <1>3. Sound([pc |-> "create", kind |-> "event", key |-> <<t, m>>,
               version |-> task[t].version, gen |-> task[t].gen, attempt |-> 0])
    BY <1>2, AttemptsAssumption DEF TaskType, Sound, WorkerType, PCs
  <1>4. WorkerInv'
    BY <1>1, <1>3 DEF TypeInv, WorkerInv, Sound, Workers
  <1>. QED  BY <1>4 DEF TypeInv, Deliver, ClockInv, TaskInv, OccInv, BatchInv, RecInv, OwnerInv,
                        HistInv, schedVars, history, bounds

-----------------------------------------------------------------------------
(* The executions. *)

LEMMA CreateType == ASSUME NEW w \in Workers, TypeInv, Create(w) PROVE TypeInv'
  <1>. DEFINE k == worker[w].key
  <1>1. worker[w].pc = "create" /\ k \in Keys /\ worker[w].gen \in Nat
    BY WorkerParts DEF TypeInv, Create
  <1>2. OccInv'
    BY <1>1, NewOccIsRow, WriteKeepsRows DEF TypeInv, Create, OccInv
  <1>3. \E pc \in {"idle", "claim", Then(w)} : Step(w, pc)
    BY DEF Create
  <1>4. WorkerInv'
    BY <1>1, <1>3, ThenIsStep, StepKeepsWorkers DEF TypeInv, PCs
  <1>. QED  BY <1>2, <1>4 DEF TypeInv, Create, ClockInv, TaskInv, BatchInv, RecInv, OwnerInv,
                              HistInv, schedVars, history, bounds

LEMMA ClaimType == ASSUME NEW w \in Workers, TypeInv, Claim(w) PROVE TypeInv'
  <1>. DEFINE k == worker[w].key
  <1>1. worker[w].pc = "claim" /\ k \in Keys /\ Sound(worker[w])
    BY WorkerParts DEF TypeInv, WorkerInv, Claim
  <1>2. CASE occ[k].status \in Claimable
    <2>1. OccInv'
      BY <1>1, <1>2, MarkKeepsRows DEF TypeInv, Claim, Statuses
    <2>2. occ[k].attempt \in 0 .. MaxAttempts
      BY <1>1 DEF TypeInv, OccInv, OccType
    <2>3. Sound([worker[w] EXCEPT !.pc = "exec", !.attempt = occ[k].attempt])
      BY <1>1, <2>2 DEF Sound, WorkerType, PCs
    <2>4. worker' = [worker EXCEPT ![w] =
                        [worker[w] EXCEPT !.pc = "exec", !.attempt = occ[k].attempt]]
      BY <1>2 DEF Claim, TypeInv, WorkerInv
    <2>5. WorkerInv'
      BY <2>3, <2>4 DEF TypeInv, WorkerInv, Sound
    <2>. QED  BY <2>1, <2>5 DEF TypeInv, Claim, ClockInv, TaskInv, BatchInv, RecInv, OwnerInv,
                                HistInv, schedVars, history, bounds
  <1>3. CASE occ[k].status \notin Claimable
    <2>1. Step(w, Then(w)) /\ UNCHANGED occ
      BY <1>3 DEF Claim
    <2>2. WorkerInv'
      BY <1>1, <2>1, ThenIsStep, StepKeepsWorkers DEF TypeInv
    <2>. QED  BY <2>1, <2>2 DEF TypeInv, Claim, ClockInv, TaskInv, OccInv, BatchInv, RecInv,
                                OwnerInv, HistInv, schedVars, history, bounds
  <1>. QED  BY <1>2, <1>3

LEMMA ActType == ASSUME NEW w \in Workers, TypeInv, Act(w) PROVE TypeInv'
  <1>1. worker[w].pc = "exec" /\ worker[w].key \in Keys
    BY WorkerParts DEF TypeInv, Act
  <1>2. WorkerInv'
    BY <1>1, StepKeepsWorkers DEF TypeInv, Act, PCs
  <1>3. HistInv'
    BY <1>1 DEF TypeInv, HistInv, Act, bounds
  <1>. QED  BY <1>2, <1>3 DEF TypeInv, Act, ClockInv, TaskInv, OccInv, BatchInv, RecInv,
                              OwnerInv, schedVars

(* Succeed and Fail. *)
LEMMA SettleType ==
  ASSUME NEW w \in Workers, TypeInv, worker[w].pc # "idle", NEW s \in Statuses, Settle(w, s)
  PROVE  TypeInv'
  <1>1. worker[w].key \in Keys
    BY WorkerParts DEF TypeInv
  <1>2. OccInv'
    BY <1>1, MarkKeepsRows DEF TypeInv, Settle, OccInv
  <1>3. \E pc \in {"idle", Then(w)} : Step(w, pc)
    BY DEF Settle, Leave
  <1>4. WorkerInv'
    BY <1>3, ThenIsStep, StepKeepsWorkers DEF TypeInv, PCs
  <1>. QED  BY <1>2, <1>4 DEF TypeInv, Settle, ClockInv, TaskInv, BatchInv, RecInv, OwnerInv,
                              HistInv, schedVars, history, bounds

LEMMA RetryType == ASSUME NEW w \in Workers, TypeInv, Retry(w) PROVE TypeInv'
  <1>1. worker[w].pc # "idle" /\ worker[w].key \in Keys
        /\ worker[w].attempt + 1 \in 0 .. MaxAttempts
    BY WorkerParts, BudgetLeft, AttemptsAssumption DEF TypeInv, Retry
  <1>2. OccInv'
    BY <1>1, RearmKeepsRows DEF TypeInv, Retry, OccInv
  <1>3. \E pc \in {"idle", Then(w)} : Step(w, pc)
    BY DEF Retry, Leave
  <1>4. WorkerInv'
    BY <1>1, <1>3, ThenIsStep, StepKeepsWorkers DEF TypeInv, PCs
  <1>. QED  BY <1>2, <1>4 DEF TypeInv, Retry, ClockInv, TaskInv, BatchInv, RecInv, OwnerInv,
                              HistInv, schedVars, history, bounds

LEMMA ParkType == ASSUME NEW w \in Workers, TypeInv, Park(w) PROVE TypeInv'
  <1>. DEFINE k == worker[w].key
  <1>1. worker[w].pc # "idle" /\ k \in Keys
    BY WorkerParts DEF TypeInv, Park
  <1>2. PICK s \in {"retry_pending", "waiting_answer"}, at \in Soon :
          IF CanMove(k, s)
          THEN Write(k, [occ[k] EXCEPT !.status = s, !.parks = @ + 1,
                           !.retryAt = IF s = "retry_pending" THEN at ELSE @])
          ELSE UNCHANGED occ
    BY DEF Park
  <1>3. at \in 0 .. MaxTime
    BY BoundAssumption DEF Soon, TypeInv, ClockInv
  <1>4. occ[k] \in OccType
    BY <1>1 DEF TypeInv, OccInv
  <1>5. [occ[k] EXCEPT !.status = s, !.parks = @ + 1,
                       !.retryAt = IF s = "retry_pending" THEN at ELSE @] \in OccType
    <2>. DEFINE until == IF s = "retry_pending" THEN at ELSE occ[k].retryAt
    <2>1. until \in 0 .. MaxTime /\ s \in Statuses
      BY <1>3, <1>4 DEF OccType, Statuses
    <2>. QED  BY <2>1, <1>4, ParkedRow
  <1>6. OccInv'
    BY <1>1, <1>2, <1>5, WriteKeepsRows DEF TypeInv, OccInv
  <1>7. WorkerInv'
    BY <1>1, ThenIsStep, StepKeepsWorkers DEF TypeInv, Park
  <1>. QED  BY <1>6, <1>7 DEF TypeInv, Park, ClockInv, TaskInv, BatchInv, RecInv, OwnerInv,
                              HistInv, schedVars, history, bounds

LEMMA AdvanceType == ASSUME NEW w \in Workers, TypeInv, Advance(w) PROVE TypeInv'
  <1>. DEFINE t == worker[w].key[1]
              run == IF t \in Once THEN 0 ELSE Following
  <1>1. worker[w].pc = "advance" /\ worker[w].kind = "due" /\ worker[w].key \in TimedKeys
    BY WorkerParts DEF TypeInv, WorkerInv, Sound, Advance
  <1>2. t \in Tasks /\ t \notin Event
    BY <1>1, TimedKeyParts, TaskAssumption DEF Tasks, Timed
  <1>3. run \in 0 .. (MaxTime + 1)
    BY BoundAssumption DEF TypeInv, ClockInv, Following
  <1>4. task[t] \in TaskType
    BY <1>2 DEF TypeInv, TaskInv
  <1>5. [task[t] EXCEPT !.version = @ + 1, !.nextRun = run] \in TaskType
    BY <1>3, <1>4, AdvancedRow
  <1>6. \/ UNCHANGED <<task, progressed>>
        \/ /\ task' = [task EXCEPT ![t] = [task[t] EXCEPT !.version = @ + 1, !.nextRun = run]]
           /\ progressed' = TRUE
    BY <1>2 DEF Advance, TypeInv, TaskInv
  <1>7. TaskInv'
    BY <1>2, <1>5, <1>6, RowKeepsTasks DEF TypeInv
  <1>8. ClockInv'
    BY <1>6 DEF TypeInv, ClockInv, Advance
  <1>9. \E pc \in {"idle", "prepare"} : Step(w, pc)
    BY DEF Advance
  <1>10. WorkerInv'
    BY <1>1, <1>9, StepKeepsWorkers DEF TypeInv, PCs
  <1>. QED  BY <1>7, <1>8, <1>10 DEF TypeInv, Advance, OccInv, BatchInv, RecInv, OwnerInv,
                                     HistInv, history, bounds

LEMMA PrepareType == ASSUME NEW w \in Workers, TypeInv, Prepare(w) PROVE TypeInv'
  <1>. DEFINE k == <<worker[w].key[1], Following>>
  <1>1. worker[w].pc = "prepare" /\ worker[w].key \in TimedKeys /\ worker[w].gen \in Nat
    BY WorkerParts DEF TypeInv, Prepare
  <1>2. Following \in Boundaries
    BY BoundAssumption DEF TypeInv, ClockInv, Following, Boundaries
  <1>3. k \in Keys
    BY <1>1, <1>2, TimedKeyParts DEF Keys, TimedKeys
  <1>4. OccInv'
    BY <1>1, <1>3, NewOccIsRow, WriteKeepsRows DEF TypeInv, Prepare, OccInv
  <1>5. WorkerInv'
    BY <1>1, StepKeepsWorkers DEF TypeInv, Prepare, PCs
  <1>. QED  BY <1>4, <1>5 DEF TypeInv, Prepare, ClockInv, TaskInv, BatchInv, RecInv, OwnerInv,
                              HistInv, schedVars, history, bounds

-----------------------------------------------------------------------------
(* Crash, restart and recovery. *)

LEMMA NoRecoveryTyped ==
  NoRecovery \in [todo: SUBSET Unresolved, key: Keys \cup {NoKey}, attempt: 0 .. MaxAttempts]
  BY AttemptsAssumption DEF NoRecovery

LEMMA CrashType == TypeInv /\ Crash => TypeInv'
  <1>. SUFFICES ASSUME TypeInv, Crash PROVE TypeInv'
    OBVIOUS
  <1>1. WorkerInv'
    BY IdleIsSound DEF Crash, WorkerInv, Sound
  <1>2. RecInv' /\ OwnerInv'
    BY NoRecoveryTyped, BoundAssumption DEF Crash, RecInv, OwnerInv, OwnerType, IdleOwner
  <1>3. HistInv'
    BY DEF TypeInv, HistInv, Crash
  <1>4. ClockInv' /\ BatchInv'
    BY DEF TypeInv, ClockInv, BatchInv, Crash, Phases
  <1>. QED  BY <1>1, <1>2, <1>3, <1>4 DEF TypeInv, Crash, TaskInv, OccInv

LEMMA BootType == TypeInv /\ Boot => TypeInv'
  BY DEF TypeInv, Boot, ClockInv, Phases, TaskInv, OccInv, BatchInv, WorkerInv, RecInv, OwnerInv,
         HistInv, history, bounds

LEMMA RecoverListType == TypeInv /\ RecoverList => TypeInv'
  <1>. SUFFICES ASSUME TypeInv, RecoverList PROVE TypeInv'
    OBVIOUS
  <1>. DEFINE S == {[key |-> k, status |-> occ[k].status, attempt |-> occ[k].attempt] :
                       k \in {x \in Keys : occ[x].status \in Recoverable}}
  <1>1. S \subseteq Unresolved
    BY DEF TypeInv, OccInv, OccType, Unresolved
  <1>2. rec' = [todo |-> S, key |-> NoKey, attempt |-> 0]
    BY DEF RecoverList, NoRecovery
  <1>3. RecInv'
    BY <1>1, <1>2, AttemptsAssumption DEF RecInv
  <1>. QED  BY <1>3 DEF TypeInv, RecoverList, ClockInv, Phases, TaskInv, OccInv, BatchInv,
                        WorkerInv, OwnerInv, HistInv, history, bounds

LEMMA RecoverNextType == TypeInv /\ RecoverNext => TypeInv'
  <1>. SUFFICES ASSUME TypeInv, RecoverNext PROVE TypeInv'
    OBVIOUS
  <1>1. PICK r \in rec.todo :
          \/ /\ rec' = [rec EXCEPT !.todo = @ \ {r}]
             /\ UNCHANGED occ \/ AbandonRun(r.key)
          \/ /\ rec' = [[rec EXCEPT !.todo = @ \ {r}] EXCEPT !.key = r.key,
                                                     !.attempt = occ[r.key].attempt]
             /\ Mark(r.key, "interrupted")
          \/ /\ rec' = [[rec EXCEPT !.todo = @ \ {r}] EXCEPT !.key = r.key, !.attempt = r.attempt]
             /\ UNCHANGED occ
    BY DEF RecoverNext
  <1>2. r.key \in Keys /\ r.attempt \in 0 .. MaxAttempts
    BY DEF TypeInv, RecInv, Unresolved
  <1>3. occ[r.key].attempt \in 0 .. MaxAttempts
    BY <1>2 DEF TypeInv, OccInv, OccType
  <1>4. RecInv'
    BY <1>1, <1>2, <1>3 DEF TypeInv, RecInv
  <1>5. OccInv'
    BY <1>1, <1>2, MarkKeepsRows DEF TypeInv, AbandonRun, OccInv, Statuses
  <1>. QED  BY <1>4, <1>5 DEF TypeInv, RecoverNext, ClockInv, TaskInv, BatchInv, WorkerInv,
                              OwnerInv, HistInv, schedVars, history, bounds

LEMMA RecoverResolveType == TypeInv /\ RecoverResolve => TypeInv'
  <1>. SUFFICES ASSUME TypeInv, RecoverResolve PROVE TypeInv'
    OBVIOUS
  <1>1. rec.key \in Keys /\ rec.attempt \in Nat
    BY AttemptsAssumption DEF TypeInv, RecInv, RecoverResolve
  <1>2. OccInv'
    BY <1>1, BudgetLeft, MarkKeepsRows, RearmKeepsRows DEF TypeInv, RecoverResolve, OccInv, Statuses
  <1>3. rec' = [rec EXCEPT !.key = NoKey, !.attempt = 0]
    BY DEF RecoverResolve
  <1>4. RecInv'
    BY <1>3, RecoveredIsTyped DEF TypeInv, RecInv
  <1>. QED  BY <1>2, <1>4 DEF TypeInv, RecoverResolve, ClockInv, TaskInv, BatchInv, WorkerInv,
                              OwnerInv, HistInv, schedVars, history, bounds

LEMMA RecoverDoneType == TypeInv /\ RecoverDone => TypeInv'
  BY DEF TypeInv, RecoverDone, ClockInv, Phases, TaskInv, OccInv, BatchInv, WorkerInv, RecInv,
         OwnerInv, HistInv, history, bounds

-----------------------------------------------------------------------------
(* The owner and the clock. *)

(* A task write under its version keeps the table typed. *)
LEMMA SetTaskKeepsTasks ==
  ASSUME TaskInv, NEW t \in Tasks, NEW row \in TaskType, t \in Event => row.nextRun = 0,
         SetTask(t, row)
  PROVE  TaskInv'
  <1>1. [row EXCEPT !.version = @ + 1] \in TaskType
    BY DEF TaskType
  <1>2. [row EXCEPT !.version = @ + 1].nextRun = row.nextRun
    BY DEF TaskType
  <1>. QED  BY <1>1, <1>2 DEF TaskInv, SetTask

LEMMA ManageCounts == ASSUME HistInv, NEW op, Manage(op) PROVE ops' \in Nat
  BY DEF HistInv, Manage

LEMMA SetStatusType == ASSUME NEW t \in Tasks, TypeInv, SetStatus(t) PROVE TypeInv'
  <1>1. PICK s \in {"paused", "completed"} :
          SetTask(t, [task[t] EXCEPT !.status = s, !.nextRun = 0])
    BY DEF SetStatus
  <1>2. task[t] \in TaskType
    BY DEF TypeInv, TaskInv
  <1>3. /\ [task[t] EXCEPT !.status = s, !.nextRun = 0] \in TaskType
        /\ [task[t] EXCEPT !.status = s, !.nextRun = 0].nextRun = 0
    BY <1>2, ClearedRow
  <1>4. TaskInv'
    BY <1>1, <1>3, SetTaskKeepsTasks DEF TypeInv
  <1>5. HistInv'
    BY ManageCounts DEF TypeInv, HistInv, SetStatus, history
  <1>. QED  BY <1>4, <1>5 DEF TypeInv, SetStatus, ClockInv, OccInv, BatchInv, WorkerInv, RecInv,
                              OwnerInv, schedVars

LEMMA ResumeType == ASSUME NEW t \in Tasks, TypeInv, Resume(t) PROVE TypeInv'
  <1>. DEFINE run == IF task[t].nextRun # 0 \/ t \in Event THEN task[t].nextRun
                     ELSE IF t \in Recurring THEN now + 1 ELSE 1
              row == [task[t] EXCEPT !.status = "active", !.nextRun = run]
  <1>1. task[t] \in TaskType /\ (t \in Event => task[t].nextRun = 0)
    BY DEF TypeInv, TaskInv
  <1>2. run \in 0 .. (MaxTime + 1) /\ (t \in Event => run = 0)
    BY <1>1, BoundAssumption DEF TypeInv, ClockInv, TaskType
  <1>3. row \in TaskType /\ row.nextRun = run
    BY <1>1, <1>2, StatusRow, ZenonT(40)
  <1>4. TaskInv'
    BY <1>2, <1>3, SetTaskKeepsTasks DEF TypeInv, Resume
  <1>5. HistInv'
    BY ManageCounts DEF TypeInv, HistInv, Resume, history
  <1>. QED  BY <1>4, <1>5 DEF TypeInv, Resume, ClockInv, OccInv, BatchInv, WorkerInv, RecInv,
                              OwnerInv, schedVars

LEMMA EditType == ASSUME NEW t \in Tasks, TypeInv, Edit(t) PROVE TypeInv'
  <1>1. PICK run \in {task[t].nextRun} \cup (IF t \in Recurring THEN {now + 1} ELSE {}) :
          SetTask(t, [task[t] EXCEPT !.gen = @ + 1, !.nextRun = run])
    BY DEF Edit
  <1>2. task[t] \in TaskType /\ (t \in Event => task[t].nextRun = 0)
    BY DEF TypeInv, TaskInv
  <1>3. run \in 0 .. (MaxTime + 1) /\ (t \in Event => run = 0)
    BY <1>1, <1>2, BoundAssumption, TaskAssumption DEF TypeInv, ClockInv, TaskType
  <1>4. /\ [task[t] EXCEPT !.gen = @ + 1, !.nextRun = run] \in TaskType
        /\ [task[t] EXCEPT !.gen = @ + 1, !.nextRun = run].nextRun = run
    BY <1>2, <1>3, DefinitionRow
  <1>5. TaskInv'
    BY <1>1, <1>3, <1>4, SetTaskKeepsTasks DEF TypeInv
  <1>6. HistInv'
    BY ManageCounts DEF TypeInv, ClockInv, HistInv, Edit
  <1>7. OwnerInv'
    BY BoundAssumption DEF TypeInv, ClockInv, OwnerInv, OwnerType, IdleOwner, Edit
  <1>. QED  BY <1>5, <1>6, <1>7 DEF TypeInv, Edit, ClockInv, OccInv, BatchInv, WorkerInv, RecInv,
                                    schedVars

LEMMA IdleOwnerTyped == IdleOwner \in OwnerType /\ IdleOwner.pc = "idle"
  BY BoundAssumption DEF IdleOwner, OwnerType

LEMMA DiscardType == TypeInv /\ Discard => TypeInv'
  <1>. SUFFICES ASSUME TypeInv, Discard PROVE TypeInv'
    OBVIOUS
  <1>1. OccInv'
    BY NoOccIsRow DEF TypeInv, OccInv, Discard
  <1>2. OwnerInv'
    BY IdleOwnerTyped DEF OwnerInv, Discard
  <1>. QED  BY <1>1, <1>2 DEF TypeInv, Discard, ClockInv, TaskInv, BatchInv, WorkerInv, RecInv,
                              HistInv, schedVars, history, bounds

LEMMA DeleteBeginType ==
  ASSUME NEW t \in Tasks, TypeInv, DeleteBegin(t) PROVE TypeInv'
  <1>1. task[t].version \in Nat
    BY DEF TypeInv, TaskInv, TaskType
  <1>2. OwnerInv'
    BY <1>1, IdleOwnerTyped DEF OwnerInv, OwnerType, DeleteBegin
  <1>3. HistInv'
    BY ManageCounts DEF TypeInv, HistInv, DeleteBegin, history
  <1>. QED  BY <1>2, <1>3 DEF TypeInv, DeleteBegin, ClockInv, TaskInv, OccInv, BatchInv,
                              WorkerInv, RecInv, schedVars

LEMMA DeleteOccurrencesType == TypeInv /\ DeleteOccurrences => TypeInv'
  <1>. SUFFICES ASSUME TypeInv, DeleteOccurrences PROVE TypeInv'
    OBVIOUS
  <1>1. OccInv'
    BY NoOccIsRow DEF TypeInv, OccInv, DeleteOccurrences
  <1>2. OwnerInv'
    <2>1. (\E k \in Keys : k[1] = owner.task /\ occ[k] # NoOcc) \in BOOLEAN
      OBVIOUS
    <2>. QED  BY <2>1 DEF TypeInv, OwnerInv, OwnerType, DeleteOccurrences
  <1>. QED  BY <1>1, <1>2 DEF TypeInv, DeleteOccurrences, ClockInv, TaskInv, BatchInv,
                              WorkerInv, RecInv, HistInv, schedVars, history, bounds

LEMMA DeleteTaskType == TypeInv /\ DeleteTask => TypeInv'
  <1>. SUFFICES ASSUME TypeInv, DeleteTask PROVE TypeInv'
    OBVIOUS
  <1>1. owner.task \in Tasks
    BY DEF TypeInv, OwnerInv, DeleteTask
  <1>. DEFINE row == [task[owner.task] EXCEPT !.status = "gone", !.nextRun = 0]
  <1>2. row \in TaskType /\ row.nextRun = 0
    BY <1>1, ClearedRow DEF TypeInv, TaskInv
  <1>3. task' = task \/ task' = [task EXCEPT ![owner.task] = row]
    BY <1>1 DEF DeleteTask, TypeInv, TaskInv
  <1>4. TaskInv'
    BY <1>1, <1>2, <1>3, RowKeepsTasks DEF TypeInv
  <1>5. OwnerInv'
    BY IdleOwnerTyped DEF OwnerInv, DeleteTask
  <1>. QED  BY <1>4, <1>5 DEF TypeInv, DeleteTask, ClockInv, OccInv, BatchInv, WorkerInv, RecInv,
                              HistInv, schedVars, history, bounds

LEMMA AnswerType == ASSUME NEW k \in Keys, TypeInv, Answer(k) PROVE TypeInv'
  <1>1. occ[k] \in OccType /\ now \in 0 .. MaxTime
    BY DEF TypeInv, OccInv, ClockInv
  <1>2. [occ[k] EXCEPT !.status = "retry_pending", !.retryAt = now] \in OccType
    BY <1>1 DEF OccType, Statuses
  <1>3. OccInv'
    BY <1>2, WriteKeepsRows DEF TypeInv, Answer, OccInv
  <1>. QED  BY <1>3 DEF TypeInv, Answer, ClockInv, TaskInv, BatchInv, WorkerInv, RecInv, OwnerInv,
                        HistInv, schedVars, history, bounds

LEMMA TickType == TypeInv /\ Tick => TypeInv'
  BY BoundAssumption DEF TypeInv, Tick, ClockInv, TaskInv, OccInv, BatchInv, WorkerInv, RecInv,
         OwnerInv, HistInv, schedVars, history, bounds

-----------------------------------------------------------------------------
(* Type correctness. *)

LEMMA InitType == Init => TypeInv
  <1>. SUFFICES ASSUME Init PROVE TypeInv
    OBVIOUS
  <1>1. ClockInv
    <2>1. progressed \in BOOLEAN /\ phase \in Phases
      BY DEF Init, Phases
    <2>2. now \in 0 .. MaxTime /\ ref \in 0 .. MaxTime
      BY BoundAssumption DEF Init
    <2>. QED  BY <2>1, <2>2 DEF ClockInv
  <1>2. TaskInv
    <2>1. \A t \in Tasks : (IF t \in Timed THEN 1 ELSE 0) \in 0 .. (MaxTime + 1)
      BY BoundAssumption
    <2>2. \A t \in Event : t \notin Timed
      BY TaskAssumption DEF Timed
    <2>. QED  BY <2>1, <2>2 DEF Init, TaskInv, TaskType, Tasks
  <1>3. OccInv
    BY NoOccIsRow DEF Init, OccInv
  <1>4. BatchInv
    BY DEF Init, BatchInv
  <1>5. WorkerInv
    BY IdleIsSound DEF Init, WorkerInv, Sound
  <1>6. RecInv /\ OwnerInv
    BY NoRecoveryTyped, IdleOwnerTyped DEF Init, RecInv, OwnerInv
  <1>7. HistInv
    BY BoundAssumption DEF Init, HistInv
  <1>. QED  BY <1>1, <1>2, <1>3, <1>4, <1>5, <1>6, <1>7 DEF TypeInv

LEMMA StutterType == TypeInv /\ UNCHANGED vars => TypeInv'
  BY DEF TypeInv, vars, ClockInv, TaskInv, OccInv, BatchInv, WorkerInv, RecInv, OwnerInv, HistInv

LEMMA WorkType == ASSUME NEW w \in Workers, TypeInv, Work(w) PROVE TypeInv'
  <1>1. CASE Succeed(w)
    BY <1>1, SettleType DEF Succeed, Statuses
  <1>2. CASE Fail(w)
    BY <1>2, SettleType DEF Fail, Statuses
  <1>3. CASE Create(w) \/ Claim(w) \/ Act(w) \/ Retry(w)
    BY <1>3, CreateType, ClaimType, ActType, RetryType
  <1>4. CASE Park(w) \/ Advance(w) \/ Prepare(w)
    BY <1>4, ParkType, AdvanceType, PrepareType
  <1>. QED  BY <1>1, <1>2, <1>3, <1>4 DEF Work

LEMMA TypeStep == TypeInv /\ [Next]_vars => TypeInv'
  <1>. SUFFICES ASSUME TypeInv, [Next]_vars PROVE TypeInv'
    OBVIOUS
  <1>1. CASE Scheduler
    BY <1>1, WakeType, SweepType, SleepType, AdmitType DEF Scheduler
  <1>2. CASE Boot \/ Crash \/ Tick
    BY <1>2, BootType, CrashType, TickType
  <1>3. CASE Recovery
    BY <1>3, RecoverListType, RecoverNextType, RecoverResolveType, RecoverDoneType DEF Recovery
  <1>4. CASE OwnerBegins
    BY <1>4, SetStatusType, ResumeType, EditType, DeleteBeginType, AnswerType
       DEF OwnerBegins
  <1>5. CASE OwnerEnds
    BY <1>5, DiscardType, DeleteOccurrencesType, DeleteTaskType DEF OwnerEnds
  <1>6. CASE \E w \in Workers : Work(w)
    BY <1>6, WorkType
  <1>7. CASE \E h \in Handlers : Deliver(h)
    BY <1>7, DeliverType
  <1>8. CASE UNCHANGED vars
    BY <1>8, StutterType
  <1>. QED  BY <1>1, <1>2, <1>3, <1>4, <1>5, <1>6, <1>7, <1>8 DEF Next

(* Every variable keeps its type: no attempt exceeds the budget, no          *)
(* coroutine works on something that is not an occurrence of a known task,   *)
(* and every boundary stays on the calendar.                                 *)
THEOREM TypeCorrect == Spec => []TypeOK
  <1>1. Init => TypeInv
    BY InitType
  <1>2. TypeInv /\ [Next]_vars => TypeInv'
    BY TypeStep
  <1>3. TypeInv => TypeOK
    BY TypeInvImpliesTypeOK
  <1>. QED  BY <1>1, <1>2, <1>3, PTL DEF Spec

-----------------------------------------------------------------------------
(* No clock-driven occurrence is executed before its boundary.  The claim of *)
(* a row says nothing of the clock, so the bound has to be carried from the  *)
(* wake's reference instant through the batch to the coroutine, and through  *)
(* the row of a started occurrence to the retries of later wakes.            *)

Started(k) == occ[k].status \notin {"none", "claimed"}

RefBound == ref <= now
RowsBound == \A k \in TimedKeys : Started(k) => k[2] <= now
BatchBound == \A i \in batch : i.key \in TimedKeys => i.key[2] <= now
WorkBound == \A w \in Workers :
                worker[w].pc # "idle" /\ worker[w].key \in TimedKeys => worker[w].key[2] <= now

BoundInv == RefBound /\ RowsBound /\ BatchBound /\ WorkBound

LEMMA BoundImpliesNotBefore == BoundInv => NotBeforeBoundary
  BY DEF BoundInv, WorkBound, NotBeforeBoundary, Executing

LEMMA TimedInstants == \A k \in TimedKeys : k[2] \in Nat
  BY TimedKeyParts, BoundAssumption DEF Boundaries

LEMMA EventKeysAreUntimed == \A t \in Event, m \in Messages : <<t, m>> \notin TimedKeys
  BY TaskAssumption DEF TimedKeys, Timed

(* A coroutine that moves on keeps the occurrence it holds. *)
LEMMA StepKeepsKeys ==
  ASSUME WorkerInv, NEW w \in Workers, NEW pc \in PCs, worker[w].pc # "idle", Step(w, pc)
  PROVE  \A v \in Workers : worker'[v].pc # "idle" =>
            worker[v].pc # "idle" /\ worker'[v].key = worker[v].key
  <1>1. CASE pc = "idle"
    BY <1>1 DEF Step, WorkerInv, IdleWorker
  <1>2. CASE pc # "idle"
    <2>1. worker[w] \in WorkerType
      BY DEF WorkerInv
    <2>2. [worker[w] EXCEPT !.pc = pc].key = worker[w].key
      BY <2>1 DEF WorkerType
    <2>3. worker' = [worker EXCEPT ![w] = [worker[w] EXCEPT !.pc = pc]]
      BY <1>2 DEF Step
    <2>. QED  BY <2>2, <2>3 DEF WorkerInv
  <1>. QED  BY <1>1, <1>2

LEMMA WorkKeepsKeys ==
  ASSUME TypeInv, NEW w \in Workers, Work(w)
  PROVE  \A v \in Workers : worker'[v].pc # "idle" =>
            worker[v].pc # "idle" /\ worker'[v].key = worker[v].key
  <1>. DEFINE Kept == \A v \in Workers : worker'[v].pc # "idle" =>
                         worker[v].pc # "idle" /\ worker'[v].key = worker[v].key
  <1>1. ASSUME NEW pc \in PCs, worker[w].pc # "idle", Step(w, pc) PROVE Kept
    BY <1>1, StepKeepsKeys DEF TypeInv
  <1>2. Then(w) \in PCs
    BY ThenIsStep
  <1>3. CASE Create(w)
    <2>1. worker[w].pc # "idle" /\ \E pc \in {"idle", "claim", Then(w)} : Step(w, pc)
      BY <1>3 DEF Create
    <2>. QED  BY <1>1, <1>2, <2>1 DEF PCs
  <1>4. CASE Claim(w)
    <2>1. CASE occ[worker[w].key].status \in Claimable
      <3>1. worker[w] \in WorkerType /\ worker[w].pc = "claim"
        BY <1>4 DEF TypeInv, WorkerInv, Claim
      <3>2. worker' = [worker EXCEPT ![w] = [worker[w] EXCEPT !.pc = "exec",
                                                !.attempt = occ[worker[w].key].attempt]]
        BY <1>4, <2>1 DEF Claim, TypeInv, WorkerInv
      <3>3. [worker[w] EXCEPT !.pc = "exec", !.attempt = occ[worker[w].key].attempt].key
              = worker[w].key
        BY <3>1 DEF WorkerType
      <3>. QED  BY <3>1, <3>2, <3>3 DEF TypeInv, WorkerInv
    <2>2. CASE occ[worker[w].key].status \notin Claimable
      <3>1. worker[w].pc # "idle" /\ Step(w, Then(w))
        BY <1>4, <2>2 DEF Claim
      <3>. QED  BY <1>1, <1>2, <3>1
    <2>. QED  BY <2>1, <2>2
  <1>5. CASE Act(w)
    <2>1. worker[w].pc # "idle" /\ Step(w, "acted")
      BY <1>5 DEF Act
    <2>. QED  BY <1>1, <2>1 DEF PCs
  <1>6. CASE Succeed(w) \/ Fail(w) \/ Retry(w)
    <2>1. worker[w].pc # "idle" /\ \E pc \in {"idle", Then(w)} : Step(w, pc)
      BY <1>6 DEF Succeed, Fail, Settle, Leave, Retry
    <2>. QED  BY <1>1, <1>2, <2>1 DEF PCs
  <1>7. CASE Park(w)
    <2>1. worker[w].pc # "idle" /\ Step(w, Then(w))
      BY <1>7 DEF Park
    <2>. QED  BY <1>1, <1>2, <2>1
  <1>8. CASE Advance(w) \/ Prepare(w)
    <2>1. worker[w].pc # "idle" /\ \E pc \in {"idle", "prepare"} : Step(w, pc)
      BY <1>8 DEF Advance, Prepare
    <2>. QED  BY <1>1, <2>1 DEF PCs
  <1>. QED  BY <1>3, <1>4, <1>5, <1>6, <1>7, <1>8 DEF Work

(* An execution starts no occurrence but its own: what it prepares ahead is  *)
(* only claimed.                                                             *)
LEMMA WorkStartsItsOwn ==
  ASSUME TypeInv, NEW w \in Workers, Work(w)
  PROVE  \A k \in Keys : Started(k)' => Started(k) \/ (worker[w].pc # "idle" /\ k = worker[w].key)
  <1>1. CASE Prepare(w)
    BY <1>1 DEF Prepare, Write, NewOcc, Started, TypeInv, OccInv
  <1>2. CASE Create(w) \/ Claim(w)
    BY <1>2 DEF Create, Claim, Mark, Write, Started, TypeInv, OccInv
  <1>3. CASE Act(w) \/ Advance(w)
    BY <1>3 DEF Act, Advance, Started
  <1>4. CASE Succeed(w) \/ Fail(w)
    BY <1>4 DEF Succeed, Fail, Settle, Mark, Write, Started, TypeInv, OccInv
  <1>5. CASE Retry(w) \/ Park(w)
    BY <1>5 DEF Retry, Park, Rearm, Write, Started, TypeInv, OccInv
  <1>. QED  BY <1>1, <1>2, <1>3, <1>4, <1>5 DEF Work

(* Recovery starts nothing whose boundary is still to come: it skips the     *)
(* rows prepared for a future boundary, and every other row it moves had     *)
(* been started before.                                                      *)
LEMMA RecoveryStartsNothingEarly ==
  ASSUME TypeInv, RefBound, Recovery
  PROVE  \A k \in TimedKeys : Started(k)' => Started(k) \/ k[2] <= now
  <1>. SUFFICES ASSUME NEW k \in TimedKeys, Started(k)', ~Started(k) PROVE k[2] <= now
    OBVIOUS
  <1>. k \in Keys /\ k[2] \in Nat
    BY TimedKeysAreKeys, TimedInstants
  <1>1. CASE RecoverList \/ RecoverDone
    BY <1>1 DEF RecoverList, RecoverDone, Started
  <1>2. CASE RecoverNext
    <2>1. PICK r \in rec.todo :
            \/ UNCHANGED occ
            \/ AbandonRun(r.key)
            \/ ~Future(r.key) /\ Mark(r.key, "interrupted")
      BY <1>2 DEF RecoverNext
    <2>2. CASE AbandonRun(r.key)
      BY <2>2 DEF AbandonRun, CanMove, Successors, Terminal, Mark, Write, Started, TypeInv, OccInv
    <2>3. CASE ~Future(r.key) /\ Mark(r.key, "interrupted")
      <3>1. k = r.key
        BY <2>3 DEF Mark, Write, Started, TypeInv, OccInv
      <3>. QED  BY <2>3, <3>1 DEF Future, RefBound, TypeInv, ClockInv
    <2>. QED  BY <2>1, <2>2, <2>3 DEF Started
  <1>3. CASE RecoverResolve
    <2>1. \/ UNCHANGED occ
          \/ CanMove(rec.key, "retry_pending") /\ Rearm(rec.key, rec.attempt + 1)
          \/ CanMove(rec.key, "failed") /\ Mark(rec.key, "failed")
      BY <1>3 DEF RecoverResolve
    <2>2. k # rec.key => occ'[k] = occ[k]
      BY <2>1 DEF Rearm, Mark, Write, TypeInv, OccInv
    <2>3. CanMove(rec.key, "retry_pending") \/ CanMove(rec.key, "failed") => Started(rec.key)
      BY DEF CanMove, Successors, Terminal, Started
    <2>. QED  BY <2>1, <2>2, <2>3 DEF Started
  <1>. QED  BY <1>1, <1>2, <1>3 DEF Recovery

LEMMA OwnerStartsNothing ==
  ASSUME TypeInv, OwnerBegins \/ OwnerEnds
  PROVE  \A k \in TimedKeys : Started(k)' => Started(k)
  <1>1. CASE \E t \in Tasks : SetStatus(t) \/ Resume(t) \/ Edit(t) \/ DeleteBegin(t)
    BY <1>1 DEF SetStatus, Resume, Edit, DeleteBegin, Started
  <1>2. CASE DeleteOccurrences
    BY <1>2, TimedKeysAreKeys DEF DeleteOccurrences, NoOcc, Started
  <1>3. CASE \E k \in Keys : Answer(k)
    BY <1>3, TimedKeysAreKeys DEF Answer, Write, Started, TypeInv, OccInv
  <1>4. CASE Discard
    BY <1>4, TimedKeysAreKeys DEF Discard, NoOcc, Started
  <1>5. CASE DeleteTask
    BY <1>5 DEF DeleteTask, Started
  <1>. QED  BY <1>1, <1>2, <1>3, <1>4, <1>5 DEF OwnerBegins, OwnerEnds

(* The steps that leave the clock, the rows, the queue and the coroutines    *)
(* alone keep the bounds; so does one that only lets time pass.              *)
LEMMA LaterKeepsBounds ==
  ASSUME TypeInv, BoundInv, now' \in Nat, now' >= now,
         UNCHANGED <<ref, occ, batch, worker>>
  PROVE  BoundInv'
  <1>1. now \in Nat /\ ref \in Nat
    BY BoundAssumption DEF TypeInv, ClockInv
  <1>2. RefBound'
    BY <1>1 DEF BoundInv, RefBound
  <1>3. RowsBound'
    BY <1>1, TimedInstants DEF BoundInv, RowsBound, Started
  <1>4. BatchBound'
    BY <1>1, TimedInstants DEF BoundInv, BatchBound
  <1>5. WorkBound'
    BY <1>1, TimedInstants DEF BoundInv, WorkBound
  <1>. QED  BY <1>2, <1>3, <1>4, <1>5 DEF BoundInv

LEMMA SchedulerKeepsBounds ==
  ASSUME TypeInv, BoundInv, Scheduler
  PROVE  BoundInv'
  <1>0. now \in Nat /\ ref \in Nat
    BY BoundAssumption DEF TypeInv, ClockInv
  <1>1. CASE Wake
    <2>1. BatchBound'
      <3>1. \A k \in DueRetries : k \in TimedKeys => k[2] <= now
        BY DEF DueRetries, BoundInv, RowsBound, Started
      <3>. QED  BY <1>1, <3>1 DEF Wake, BatchBound, Item
    <2>2. RefBound'
      BY <1>0, <1>1 DEF Wake, RefBound
    <2>. QED  BY <1>1, <2>1, <2>2 DEF Wake, BoundInv, RowsBound, WorkBound, Started
  <1>2. CASE Sweep
    <2>1. BatchBound'
      <3>1. \A t \in DueTasks : task[t].nextRun <= now
        <4>1. \A t \in DueTasks : task[t].nextRun <= ref /\ task[t].nextRun \in Nat
          BY BoundAssumption DEF DueTasks, TypeInv, TaskInv, TaskType
        <4>. QED  BY <1>0, <4>1 DEF BoundInv, RefBound
      <3>. QED  BY <1>2, <3>1 DEF Sweep, BatchBound, Item
    <2>. QED  BY <1>2, <2>1 DEF Sweep, BoundInv, RefBound, RowsBound, WorkBound, Started
  <1>3. CASE Sleep
    BY <1>3 DEF Sleep, BoundInv, RefBound, RowsBound, BatchBound, WorkBound, Started
  <1>4. ASSUME NEW w \in Pool, Admit(w) PROVE BoundInv'
    <2>1. PICK i \in batch :
            /\ batch' = batch \ {i}
            /\ worker' = [worker EXCEPT ![w] =
                  [pc |-> IF i.kind = "due" THEN "create" ELSE "claim", kind |-> i.kind,
                   key |-> i.key, version |-> i.version, gen |-> i.gen, attempt |-> 0]]
      BY <1>4 DEF Admit
    <2>2. \A v \in Workers : v # w => worker'[v] = worker[v]
      BY <2>1 DEF TypeInv, WorkerInv
    <2>3. worker'[w].key = i.key
      BY <2>1 DEF TypeInv, WorkerInv, Workers
    <2>4. WorkBound'
      BY <1>4, <2>2, <2>3 DEF Admit, BoundInv, WorkBound, BatchBound
    <2>5. BatchBound'
      BY <1>4, <2>1 DEF Admit, BoundInv, BatchBound
    <2>. QED  BY <1>4, <2>4, <2>5 DEF Admit, BoundInv, RefBound, RowsBound, Started
  <1>. QED  BY <1>1, <1>2, <1>3, <1>4 DEF Scheduler

LEMMA WorkKeepsBounds ==
  ASSUME TypeInv, BoundInv, NEW w \in Workers, Work(w)
  PROVE  BoundInv'
  <1>1. UNCHANGED <<now, ref, batch>>
    BY DEF Work, Create, Claim, Act, Succeed, Fail, Settle, Retry, Park, Advance, Prepare, schedVars
  <1>2. RowsBound'
    BY <1>1, WorkStartsItsOwn, TimedKeysAreKeys DEF BoundInv, RowsBound, WorkBound
  <1>3. WorkBound'
    BY <1>1, WorkKeepsKeys DEF BoundInv, WorkBound
  <1>. QED  BY <1>1, <1>2, <1>3 DEF BoundInv, RefBound, BatchBound

LEMMA DeliverKeepsBounds ==
  ASSUME TypeInv, BoundInv, NEW h \in Handlers, Deliver(h)
  PROVE  BoundInv'
  <1>1. PICK t \in Event, m \in Messages :
          worker' = [worker EXCEPT ![h] =
                [pc |-> "create", kind |-> "event", key |-> <<t, m>>,
                 version |-> task[t].version, gen |-> task[t].gen, attempt |-> 0]]
    BY DEF Deliver
  <1>2. \A v \in Workers : v # h => worker'[v] = worker[v]
    BY <1>1 DEF TypeInv, WorkerInv
  <1>3. worker'[h].key = <<t, m>>
    BY <1>1 DEF TypeInv, WorkerInv, Workers
  <1>4. WorkBound'
    BY <1>2, <1>3, EventKeysAreUntimed DEF Deliver, BoundInv, WorkBound
  <1>. QED  BY <1>4 DEF Deliver, schedVars, BoundInv, RefBound, RowsBound, BatchBound, Started

LEMMA BoundStep == TypeInv /\ BoundInv /\ [Next]_vars => BoundInv'
  <1>. SUFFICES ASSUME TypeInv, BoundInv, [Next]_vars PROVE BoundInv'
    OBVIOUS
  <1>0. now \in Nat /\ ref \in Nat
    BY BoundAssumption DEF TypeInv, ClockInv
  <1>1. CASE Scheduler
    BY <1>1, SchedulerKeepsBounds
  <1>2. CASE Boot
    BY <1>0, <1>2 DEF Boot, BoundInv, RefBound, RowsBound, BatchBound, WorkBound, Started
  <1>3. CASE Recovery
    <2>1. UNCHANGED <<now, ref, batch, worker>>
      BY <1>3 DEF Recovery, RecoverList, RecoverNext, RecoverResolve, RecoverDone, schedVars
    <2>2. RowsBound'
      BY <1>3, <2>1, RecoveryStartsNothingEarly DEF BoundInv, RowsBound
    <2>. QED  BY <2>1, <2>2 DEF BoundInv, RefBound, BatchBound, WorkBound
  <1>4. CASE Crash
    BY <1>4 DEF Crash, IdleWorker, BoundInv, RefBound, RowsBound, BatchBound, WorkBound, Started
  <1>5. CASE Tick
    BY <1>0, <1>5, LaterKeepsBounds DEF Tick, schedVars
  <1>6. CASE OwnerBegins \/ OwnerEnds
    <2>1. UNCHANGED <<now, ref, batch, worker>>
      BY <1>6 DEF OwnerBegins, OwnerEnds, SetStatus, Resume, Edit, DeleteBegin, Answer,
                  Discard, DeleteOccurrences, DeleteTask, schedVars
    <2>2. RowsBound'
      BY <1>6, <2>1, OwnerStartsNothing DEF BoundInv, RowsBound
    <2>. QED  BY <2>1, <2>2 DEF BoundInv, RefBound, BatchBound, WorkBound
  <1>7. CASE \E w \in Workers : Work(w)
    BY <1>7, WorkKeepsBounds
  <1>8. CASE \E h \in Handlers : Deliver(h)
    BY <1>8, DeliverKeepsBounds
  <1>9. CASE UNCHANGED vars
    BY <1>0, <1>9, LaterKeepsBounds DEF vars
  <1>. QED  BY <1>1, <1>2, <1>3, <1>4, <1>5, <1>6, <1>7, <1>8, <1>9 DEF Next

(* No clock-driven occurrence is executed before its boundary, though rows   *)
(* are created ahead of it, recovery re-arms rows it finds claimed and any   *)
(* armed row is served by the next wake.                                     *)
THEOREM NeverBeforeBoundary == Spec => []NotBeforeBoundary
  <1>1. Init => TypeInv /\ BoundInv
    <2>1. Init => BoundInv
      BY TimedKeysAreKeys DEF Init, NoOcc, IdleWorker, BoundInv, RefBound, RowsBound, BatchBound,
                              WorkBound, Started
    <2>. QED  BY <2>1, InitType
  <1>2. TypeInv /\ BoundInv /\ [Next]_vars => (TypeInv /\ BoundInv)'
    BY TypeStep, BoundStep
  <1>3. BoundInv => NotBeforeBoundary
    BY BoundImpliesNotBefore
  <1>. QED  BY <1>1, <1>2, <1>3, PTL DEF Spec

-----------------------------------------------------------------------------
(* An occurrence a crash caught running is never executed again.  Such a row *)
(* says "running" until recovery fails it; no claim, no settlement and no    *)
(* snapshot row of recovery can bring it back.  A deletion that wipes the    *)
(* rows and then loses its task could, so the theorem is about owners that   *)
(* do not delete.                                                            *)

UncertainRows == \A k \in uncertain : occ[k].status \in {"running", "failed"}
UncertainRecovery == /\ \A r \in rec.todo : r.key \in uncertain => r.status = "running"
                     /\ rec.key # NoKey => rec.key \notin uncertain
UncertainInv == UncertainRows /\ UncertainRecovery /\ UncertainNeverReplayed

(* A coroutine that executes after a step of its own was executing before,   *)
(* or has just claimed its occurrence.                                       *)
LEMMA ExecutingAfterWork ==
  ASSUME TypeInv, NEW w \in Workers, Work(w), NEW v \in Workers, Executing(v)'
  PROVE  /\ worker'[v].key = worker[v].key
         /\ Executing(v) \/ occ[worker[v].key].status \in Claimable
  <1>1. worker'[v].key = worker[v].key
    BY WorkKeepsKeys DEF Executing
  <1>. DEFINE Settled(pc) == pc \in {"idle", "claim", "advance", "prepare"}
  <1>2. ASSUME NEW pc, Settled(pc), Step(w, pc) PROVE Executing(v)
    <2>1. v # w
      BY <1>2 DEF Step, IdleWorker, Executing, TypeInv, WorkerInv, WorkerType
    <2>. QED  BY <1>2, <2>1 DEF Step, Executing, TypeInv, WorkerInv
  <1>3. Settled(Then(w))
    BY DEF Then
  <1>4. CASE Create(w)
    <2>1. \E pc \in {"idle", "claim", Then(w)} : Step(w, pc)
      BY <1>4 DEF Create
    <2>. QED  BY <1>1, <1>2, <1>3, <2>1
  <1>5. CASE Claim(w)
    <2>1. CASE occ[worker[w].key].status \in Claimable
      BY <1>1, <1>5, <2>1 DEF Claim, Executing, TypeInv, WorkerInv
    <2>2. CASE occ[worker[w].key].status \notin Claimable
      BY <1>1, <1>2, <1>3, <1>5, <2>2 DEF Claim
    <2>. QED  BY <2>1, <2>2
  <1>6. CASE Act(w)
    BY <1>1, <1>6 DEF Act, Step, Executing, TypeInv, WorkerInv
  <1>7. CASE Succeed(w) \/ Fail(w) \/ Retry(w) \/ Park(w)
    <2>1. \E pc \in {"idle", Then(w)} : Step(w, pc)
      BY <1>7 DEF Succeed, Fail, Settle, Leave, Retry, Park
    <2>. QED  BY <1>1, <1>2, <1>3, <2>1
  <1>8. CASE Advance(w) \/ Prepare(w)
    <2>1. \E pc \in {"idle", "prepare"} : Step(w, pc)
      BY <1>8 DEF Advance, Prepare
    <2>. QED  BY <1>1, <1>2, <2>1
  <1>. QED  BY <1>4, <1>5, <1>6, <1>7, <1>8 DEF Work

LEMMA WorkKeepsUncertain ==
  ASSUME TypeInv, UncertainInv, NEW w \in Workers, Work(w)
  PROVE  UncertainInv'
  <1>1. UNCHANGED <<uncertain, rec>>
    BY DEF Work, Create, Claim, Act, Succeed, Fail, Settle, Retry, Park, Advance, Prepare, history
  <1>2. UncertainRows'
    <2>. SUFFICES ASSUME NEW k \in uncertain PROVE occ'[k].status \in {"running", "failed"}
      BY <1>1 DEF UncertainRows
    <2>1. k \in Keys /\ occ[k].status \in {"running", "failed"}
      BY DEF UncertainInv, UncertainRows, TypeInv, HistInv
    <2>2. CASE Create(w) \/ Prepare(w)
      BY <2>1, <2>2 DEF Create, Prepare, Write, TypeInv, OccInv
    <2>3. CASE Claim(w)
      BY <2>1, <2>3 DEF Claim, Claimable, Mark, Write, TypeInv, OccInv
    <2>4. CASE Act(w) \/ Advance(w)
      BY <2>1, <2>4 DEF Act, Advance
    <2>5. CASE Succeed(w) \/ Fail(w) \/ Retry(w) \/ Park(w)
      <3>1. k # worker[w].key
        BY <2>5 DEF Succeed, Fail, Retry, Park, UncertainInv, UncertainNeverReplayed, Executing
      <3>. QED  BY <2>1, <2>5, <3>1 DEF Succeed, Fail, Settle, Retry, Park, Rearm, Mark, Write,
                                        TypeInv, OccInv
    <2>. QED  BY <2>2, <2>3, <2>4, <2>5 DEF Work
  <1>3. UncertainNeverReplayed'
    <2>. SUFFICES ASSUME NEW v \in Workers, Executing(v)' PROVE worker'[v].key \notin uncertain
      BY <1>1 DEF UncertainNeverReplayed
    <2>. QED  BY ExecutingAfterWork
              DEF UncertainInv, UncertainRows, UncertainNeverReplayed, Claimable
  <1>. QED  BY <1>1, <1>2, <1>3 DEF UncertainInv, UncertainRecovery

LEMMA RecoveryKeepsUncertain ==
  ASSUME TypeInv, UncertainInv, Recovery
  PROVE  UncertainInv'
  <1>1. UNCHANGED <<uncertain, worker>>
    BY DEF Recovery, RecoverList, RecoverNext, RecoverResolve, RecoverDone, history
  <1>2. UncertainNeverReplayed'
    BY <1>1 DEF UncertainInv, UncertainNeverReplayed, Executing
  <1>3. CASE RecoverList
    BY <1>1, <1>2, <1>3 DEF RecoverList, NoRecovery, Recoverable, UncertainInv, UncertainRows,
                            UncertainRecovery
  <1>4. CASE RecoverNext
    <2>1. PICK r \in rec.todo :
            \/ /\ rec' = [rec EXCEPT !.todo = @ \ {r}]
               /\ UNCHANGED occ \/ AbandonRun(r.key)
            \/ /\ r.status # "running"
               /\ \E a : rec' = [[rec EXCEPT !.todo = @ \ {r}] EXCEPT !.key = r.key, !.attempt = a]
               /\ UNCHANGED occ \/ Mark(r.key, "interrupted")
      BY <1>4 DEF RecoverNext
    <2>2. rec'.todo \subseteq rec.todo /\ rec'.key \in {rec.key, r.key}
          /\ (r.status = "running" => rec'.key = rec.key)
      BY <2>1 DEF TypeInv, RecInv
    <2>3. UncertainRecovery'
      BY <1>1, <2>2 DEF UncertainInv, UncertainRecovery
    <2>4. UncertainRows'
      <3>. SUFFICES ASSUME NEW k \in uncertain PROVE occ'[k].status \in {"running", "failed"}
        BY <1>1 DEF UncertainRows
      <3>1. k \in Keys /\ occ[k].status \in {"running", "failed"}
        BY DEF UncertainInv, UncertainRows, TypeInv, HistInv
      <3>2. r.status # "running" => r.key # k
        BY DEF UncertainInv, UncertainRecovery
      <3>3. \/ UNCHANGED occ \/ Mark(r.key, "failed")
            \/ r.key # k /\ Mark(r.key, "interrupted")
        BY <2>1, <3>2 DEF AbandonRun
      <3>4. occ[k] \in OccType
        BY <3>1 DEF TypeInv, OccInv
      <3>5. CASE r.key = k
        BY <3>1, <3>3, <3>4, <3>5 DEF Mark, Write, OccType, TypeInv, OccInv
      <3>6. CASE r.key # k
        BY <3>1, <3>3, <3>6 DEF Mark, Write, TypeInv, OccInv
      <3>. QED  BY <3>5, <3>6
    <2>. QED  BY <1>2, <2>3, <2>4 DEF UncertainInv
  <1>5. CASE RecoverResolve
    <2>1. rec'.todo = rec.todo /\ rec'.key = NoKey
      BY <1>5 DEF RecoverResolve, TypeInv, RecInv
    <2>2. UncertainRows'
      <3>. SUFFICES ASSUME NEW k \in uncertain PROVE occ'[k].status \in {"running", "failed"}
        BY <1>1 DEF UncertainRows
      <3>1. k \in Keys /\ k # rec.key /\ occ[k].status \in {"running", "failed"}
        BY <1>5 DEF RecoverResolve, UncertainInv, UncertainRows, UncertainRecovery, TypeInv, HistInv
      <3>. QED  BY <1>5, <3>1 DEF RecoverResolve, Rearm, Mark, Write, TypeInv, OccInv
    <2>. QED  BY <1>1, <1>2, <2>1, <2>2 DEF UncertainInv, UncertainRecovery
  <1>6. CASE RecoverDone
    BY <1>1, <1>2, <1>6 DEF RecoverDone, UncertainInv, UncertainRows, UncertainRecovery
  <1>. QED  BY <1>3, <1>4, <1>5, <1>6 DEF Recovery

(* Without the operation "delete" no deletion is ever in flight. *)
NoDeletion == owner.pc \in {"idle", "discard"}

LEMMA DeletionNeverBegins ==
  ASSUME "delete" \notin OwnerOps, NoDeletion, [Next]_vars
  PROVE  NoDeletion'
  <1>1. CASE Scheduler \/ Boot \/ Tick \/ (\E h \in Handlers : Deliver(h)) \/ UNCHANGED vars
    BY <1>1 DEF NoDeletion, Scheduler, Wake, Sweep, Sleep, Admit, Boot, Tick, Deliver, vars
  <1>2. CASE Recovery
    BY <1>2 DEF NoDeletion, Recovery, RecoverList, RecoverNext, RecoverResolve, RecoverDone
  <1>3. CASE Crash
    BY <1>3 DEF NoDeletion, Crash, IdleOwner
  <1>4. CASE OwnerBegins
    BY <1>4 DEF NoDeletion, OwnerBegins, SetStatus, Resume, Edit, DeleteBegin, Manage, Answer,
                IdleOwner
  <1>5. CASE OwnerEnds
    BY <1>5 DEF NoDeletion, OwnerEnds, Discard, DeleteOccurrences, DeleteTask, IdleOwner
  <1>6. CASE \E w \in Workers : Work(w)
    BY <1>6 DEF NoDeletion, Work, Create, Claim, Act, Succeed, Fail, Settle, Retry, Park, Advance,
                Prepare
  <1>. QED  BY <1>1, <1>2, <1>3, <1>4, <1>5, <1>6 DEF Next

LEMMA OwnerKeepsUncertain ==
  ASSUME TypeInv, UncertainInv, NoDeletion, OwnerBegins \/ OwnerEnds
  PROVE  UncertainInv'
  <1>1. UNCHANGED <<uncertain, rec, worker>>
    BY DEF OwnerBegins, OwnerEnds, SetStatus, Resume, Edit, DeleteBegin, Answer, Discard,
           DeleteOccurrences, DeleteTask, history
  <1>2. UncertainRows'
    <2>. SUFFICES ASSUME NEW k \in uncertain PROVE occ'[k].status \in {"running", "failed"}
      BY <1>1 DEF UncertainRows
    <2>1. k \in Keys /\ occ[k].status \in {"running", "failed"}
      BY DEF UncertainInv, UncertainRows, TypeInv, HistInv
    <2>2. CASE \E t \in Tasks : SetStatus(t) \/ Resume(t) \/ Edit(t) \/ DeleteBegin(t)
      BY <2>1, <2>2 DEF SetStatus, Resume, Edit, DeleteBegin
    <2>3. CASE \E x \in Keys : Answer(x)
      BY <2>1, <2>3 DEF Answer, Write, TypeInv, OccInv
    <2>4. CASE Discard
      BY <2>1, <2>4 DEF Discard
    <2>5. CASE DeleteTask
      BY <2>1, <2>5 DEF DeleteTask
    <2>6. ~DeleteOccurrences
      BY DEF DeleteOccurrences, NoDeletion
    <2>. QED  BY <2>2, <2>3, <2>4, <2>5, <2>6 DEF OwnerBegins, OwnerEnds
  <1>. QED  BY <1>1, <1>2 DEF UncertainInv, UncertainRecovery, UncertainNeverReplayed, Executing

LEMMA CrashKeepsUncertain == TypeInv /\ UncertainInv /\ Crash => UncertainInv'
  <1>. SUFFICES ASSUME TypeInv, UncertainInv, Crash PROVE UncertainInv'
    OBVIOUS
  <1>1. UncertainRows'
    BY DEF Crash, UncertainInv, UncertainRows
  <1>2. UncertainRecovery'
    BY DEF Crash, NoRecovery, UncertainRecovery
  <1>3. UncertainNeverReplayed'
    BY DEF Crash, IdleWorker, UncertainNeverReplayed, Executing
  <1>. QED  BY <1>1, <1>2, <1>3 DEF UncertainInv

(* What queues work, fills an idle slot or only moves the clock neither      *)
(* writes a row nor executes anything.                                       *)
LEMMA OthersKeepUncertain ==
  ASSUME TypeInv, UncertainInv,
         Scheduler \/ Boot \/ Tick \/ (\E h \in Handlers : Deliver(h)) \/ UNCHANGED vars
  PROVE  UncertainInv'
  <1>1. UNCHANGED <<uncertain, rec, occ>>
    BY DEF Scheduler, Wake, Sweep, Sleep, Admit, Boot, Tick, Deliver, vars, history
  <1>2. \A v \in Workers : Executing(v)' => worker'[v] = worker[v]
    <2>1. CASE \E w \in Pool : Admit(w)
      BY <2>1 DEF Admit, Executing, TypeInv, WorkerInv
    <2>2. CASE \E h \in Handlers : Deliver(h)
      BY <2>2 DEF Deliver, Executing, TypeInv, WorkerInv
    <2>3. CASE Wake \/ Sweep \/ Sleep \/ Boot \/ Tick \/ UNCHANGED vars
      BY <2>3 DEF Wake, Sweep, Sleep, Boot, Tick, vars
    <2>. QED  BY <2>1, <2>2, <2>3 DEF Scheduler
  <1>. QED  BY <1>1, <1>2 DEF UncertainInv, UncertainRows, UncertainRecovery,
                              UncertainNeverReplayed, Executing

(* While the owner deletes nothing, an occurrence that a crash caught        *)
(* between its claim and its outcome is never executed again: its side       *)
(* effect may have happened (_recover fails such a row, it never re-arms it). *)
THEOREM UncertainIsFinal ==
  ASSUME "delete" \notin OwnerOps
  PROVE  Spec => []UncertainNeverReplayed
  <1>. DEFINE Inv == TypeInv /\ UncertainInv /\ NoDeletion
  <1>1. Init => Inv
    <2>1. Init => UncertainInv /\ NoDeletion
      BY DEF Init, NoRecovery, IdleWorker, IdleOwner, NoDeletion, UncertainInv, UncertainRows,
             UncertainRecovery, UncertainNeverReplayed, Executing
    <2>. QED  BY <2>1, InitType
  <1>2. Inv /\ [Next]_vars => Inv'
    <2>. SUFFICES ASSUME TypeInv, UncertainInv, NoDeletion, [Next]_vars PROVE UncertainInv'
      BY TypeStep, DeletionNeverBegins
    <2>1. CASE \E w \in Workers : Work(w)
      BY <2>1, WorkKeepsUncertain
    <2>2. CASE Recovery
      BY <2>2, RecoveryKeepsUncertain
    <2>3. CASE OwnerBegins \/ OwnerEnds
      BY <2>3, OwnerKeepsUncertain
    <2>4. CASE Crash
      BY <2>4, CrashKeepsUncertain
    <2>5. CASE Scheduler \/ Boot \/ Tick \/ (\E h \in Handlers : Deliver(h)) \/ UNCHANGED vars
      BY <2>5, OthersKeepUncertain
    <2>. QED  BY <2>1, <2>2, <2>3, <2>4, <2>5 DEF Next
  <1>3. Inv => UncertainNeverReplayed
    BY DEF UncertainInv
  <1>. QED  BY <1>1, <1>2, <1>3, PTL DEF Spec

-----------------------------------------------------------------------------
(* A deleted task leaves no occurrence behind.  The invariant is inductive   *)
(* as it stands: no step brings a deleted task back, a row appears only      *)
(* under a task that is there, and the task goes only when no row is left.   *)

LEMMA MovableRowExists ==
  ASSUME NEW k, NEW s, CanMove(k, s) PROVE occ[k].status # "none"
  BY DEF CanMove, Successors, Terminal

(* The rows that are there after a step were there before it, or their task  *)
(* was.                                                                      *)
Grounded == \A k \in Keys :
               occ'[k].status # "none" => occ[k].status # "none" \/ task[k[1]].status # "gone"

LEMMA WriteIsGrounded ==
  ASSUME TypeInv, NEW k, NEW row, Write(k, row),
         occ[k].status # "none" \/ task[k[1]].status # "gone"
  PROVE  Grounded
  BY DEF Write, Grounded, TypeInv, OccInv

LEMMA MoveIsGrounded ==
  ASSUME TypeInv, NEW k, NEW s, CanMove(k, s), NEW row, Write(k, row)
  PROVE  Grounded
  BY MovableRowExists, WriteIsGrounded

LEMMA WorkIsGrounded == ASSUME TypeInv, NEW w \in Workers, Work(w) PROVE Grounded
  <1>. DEFINE k == worker[w].key
  <1>1. CASE UNCHANGED occ
    BY <1>1 DEF Grounded
  <1>2. CASE Create(w)
    BY <1>1, <1>2, WriteIsGrounded DEF Create
  <1>3. CASE Claim(w)
    <2>1. CASE occ[k].status \in Claimable
      <3>1. occ[k].status # "none"
        BY <2>1 DEF Claimable
      <3>. QED  BY <1>3, <2>1, <3>1, WriteIsGrounded DEF Claim, Mark
    <2>. QED  BY <1>1, <1>3, <2>1 DEF Claim
  <1>4. CASE Succeed(w) \/ Fail(w)
    <2>1. PICK s \in {"succeeded", "failed"} : Settle(w, s)
      BY <1>4 DEF Succeed, Fail
    <2>. QED  BY <1>1, <2>1, MoveIsGrounded DEF Settle, Mark
  <1>5. CASE Retry(w)
    BY <1>1, <1>5, MoveIsGrounded DEF Retry, Rearm
  <1>6. CASE Park(w)
    <2>1. PICK s \in {"retry_pending", "waiting_answer"} :
            (CanMove(k, s) /\ \E row : Write(k, row)) \/ UNCHANGED occ
      BY <1>6 DEF Park
    <2>. QED  BY <1>1, <2>1, MoveIsGrounded
  <1>7. CASE Act(w) \/ Advance(w)
    BY <1>1, <1>7 DEF Act, Advance
  <1>8. CASE Prepare(w)
    BY <1>1, <1>8, WriteIsGrounded DEF Prepare
  <1>. QED  BY <1>2, <1>3, <1>4, <1>5, <1>6, <1>7, <1>8 DEF Work

LEMMA RecoveryIsGrounded == ASSUME TypeInv, Recovery PROVE Grounded
  <1>1. CASE UNCHANGED occ
    BY <1>1 DEF Grounded
  <1>2. CASE RecoverList \/ RecoverDone
    BY <1>1, <1>2 DEF RecoverList, RecoverDone
  <1>3. CASE RecoverNext
    <2>1. PICK k : UNCHANGED occ \/ \E s : CanMove(k, s) /\ Mark(k, s)
      BY <1>3 DEF RecoverNext, AbandonRun
    <2>. QED  BY <1>1, <2>1, MoveIsGrounded DEF Mark
  <1>4. CASE RecoverResolve
    <2>1. PICK s : UNCHANGED occ \/ (CanMove(rec.key, s) /\ \E row : Write(rec.key, row))
      BY <1>4 DEF RecoverResolve, Rearm, Mark
    <2>. QED  BY <1>1, <2>1, MoveIsGrounded
  <1>. QED  BY <1>2, <1>3, <1>4 DEF Recovery

LEMMA OwnerIsGrounded == ASSUME TypeInv, OwnerBegins \/ OwnerEnds PROVE Grounded
  <1>1. CASE UNCHANGED occ
    BY <1>1 DEF Grounded
  <1>2. CASE \E k \in Keys : Answer(k)
    BY <1>1, <1>2, WriteIsGrounded DEF Answer
  <1>3. CASE Discard \/ DeleteOccurrences
    BY <1>3 DEF Discard, DeleteOccurrences, NoOcc, Grounded
  <1>4. CASE DeleteTask \/ \E t \in Tasks : SetStatus(t) \/ Resume(t) \/ Edit(t) \/ DeleteBegin(t)
    BY <1>1, <1>4 DEF DeleteTask, SetStatus, Resume, Edit, DeleteBegin
  <1>. QED  BY <1>2, <1>3, <1>4 DEF OwnerBegins, OwnerEnds

LEMMA StepIsGrounded == ASSUME TypeInv, [Next]_vars PROVE Grounded
  <1>1. CASE Scheduler \/ Boot \/ Crash \/ Tick \/ (\E h \in Handlers : Deliver(h)) \/ UNCHANGED vars
    BY <1>1 DEF Scheduler, Wake, Sweep, Sleep, Admit, Boot, Crash, Tick, Deliver, vars, Grounded
  <1>2. CASE Recovery \/ OwnerBegins \/ OwnerEnds \/ \E w \in Workers : Work(w)
    BY <1>2, RecoveryIsGrounded, OwnerIsGrounded, WorkIsGrounded
  <1>. QED  BY <1>1, <1>2 DEF Next

(* A task becomes "gone" only by DeleteTask, which finds no row of it, and   *)
(* stays so.                                                                 *)
Buried ==
    \A t \in Tasks :
        /\ task[t].status = "gone" => task'[t].status = "gone"
        /\ task[t].status # "gone" /\ task'[t].status = "gone"
              => \A k \in Keys : k[1] = t => occ'[k].status = "none"

LEMMA RowKeepsBuried ==
  ASSUME TypeInv, NEW t \in Tasks, task[t].status # "gone",
         NEW row, row.status # "gone", task' = [task EXCEPT ![t] = row]
  PROVE  Buried
  BY DEF Buried, TypeInv, TaskInv

LEMMA SetTaskKeepsBuried ==
  ASSUME TypeInv, NEW t \in Tasks, task[t].status # "gone",
         NEW row \in TaskType, row.status # "gone", SetTask(t, row)
  PROVE  Buried
  <1>1. [row EXCEPT !.version = @ + 1].status # "gone"
    BY DEF TaskType
  <1>. QED  BY <1>1, RowKeepsBuried DEF SetTask

LEMMA StepBuries == ASSUME TypeInv, [Next]_vars PROVE Buried
  <1>1. CASE UNCHANGED task
    BY <1>1 DEF Buried
  <1>2. CASE \E w \in Workers : Work(w)
    <2>1. PICK w \in Workers : Work(w)
      BY <1>2
    <2>2. CASE Advance(w)
      <3>. DEFINE t == worker[w].key[1]
                  run == IF t \in Once THEN 0 ELSE Following
                  row == [task[t] EXCEPT !.version = @ + 1, !.nextRun = run]
      <3>1. t \in Tasks
        BY <2>2, WorkerParts, TimedKeyParts DEF Advance, TypeInv, Tasks
      <3>2. task[t] \in TaskType
        BY <3>1 DEF TypeInv, TaskInv
      <3>3. CASE task[t].status # "gone" /\ task[t].version = worker[w].version
        <4>1. row.status # "gone"
          BY <3>2, <3>3 DEF TaskType
        <4>2. task' = [task EXCEPT ![t] = row]
          BY <2>2, <3>1, <3>3 DEF Advance, TypeInv, TaskInv
        <4>. QED  BY <3>1, <3>3, <4>1, <4>2, RowKeepsBuried
      <3>. QED  BY <1>1, <2>2, <3>3 DEF Advance
    <2>. QED  BY <1>1, <2>1, <2>2 DEF Work, Create, Claim, Act, Succeed, Fail, Settle, Retry, Park,
                                      Prepare
  <1>3. CASE OwnerBegins
    <2>1. ASSUME NEW t \in Tasks, SetStatus(t) PROVE Buried
      <3>1. task[t] \in TaskType /\ task[t].status # "gone"
        BY <2>1 DEF TypeInv, TaskInv, SetStatus
      <3>2. PICK s \in {"paused", "completed"} :
              SetTask(t, [task[t] EXCEPT !.status = s, !.nextRun = 0])
        BY <2>1 DEF SetStatus
      <3>3. /\ [task[t] EXCEPT !.status = s, !.nextRun = 0] \in TaskType
            /\ [task[t] EXCEPT !.status = s, !.nextRun = 0].status # "gone"
        BY <3>1, ClearedRow DEF TaskType
      <3>. QED  BY <3>1, <3>2, <3>3, SetTaskKeepsBuried
    <2>2. ASSUME NEW t \in Tasks, Resume(t) PROVE Buried
      <3>. DEFINE run == IF task[t].nextRun # 0 \/ t \in Event THEN task[t].nextRun
                         ELSE IF t \in Recurring THEN now + 1 ELSE 1
                  row == [[task[t] EXCEPT !.status = "active", !.nextRun = run]
                             EXCEPT !.version = @ + 1]
      <3>1. task[t] \in TaskType /\ task[t].status # "gone"
        BY <2>2 DEF TypeInv, TaskInv, Resume
      <3>2. row.status # "gone"
        BY <3>1 DEF TaskType
      <3>3. task' = [task EXCEPT ![t] = row]
        BY <2>2 DEF Resume, SetTask
      <3>. QED  BY <3>1, <3>2, <3>3, RowKeepsBuried
    <2>3. ASSUME NEW t \in Tasks, Edit(t) PROVE Buried
      <3>1. task[t] \in TaskType /\ task[t].status # "gone"
        BY <2>3 DEF TypeInv, TaskInv, Edit
      <3>2. PICK run \in {task[t].nextRun} \cup (IF t \in Recurring THEN {now + 1} ELSE {}) :
              SetTask(t, [task[t] EXCEPT !.gen = @ + 1, !.nextRun = run])
        BY <2>3 DEF Edit
      <3>. DEFINE row == [[task[t] EXCEPT !.gen = @ + 1, !.nextRun = run] EXCEPT !.version = @ + 1]
      <3>3. row.status # "gone"
        BY <3>1 DEF TaskType
      <3>4. task' = [task EXCEPT ![t] = row]
        BY <3>2 DEF SetTask
      <3>. QED  BY <3>1, <3>3, <3>4, RowKeepsBuried
    <2>. QED  BY <1>1, <1>3, <2>1, <2>2, <2>3 DEF OwnerBegins, DeleteBegin, Answer
  <1>4. CASE OwnerEnds
    <2>1. CASE DeleteTask
      <3>1. CASE Deletable
        BY <2>1, <3>1 DEF DeleteTask, Deletable, Buried, TypeInv, TaskInv
      <3>. QED  BY <1>1, <2>1, <3>1 DEF DeleteTask
    <2>. QED  BY <1>1, <1>4, <2>1 DEF OwnerEnds, Discard, DeleteOccurrences
  <1>5. CASE Scheduler \/ Boot \/ Crash \/ Tick \/ Recovery \/ (\E h \in Handlers : Deliver(h))
             \/ UNCHANGED vars
    BY <1>1, <1>5 DEF Scheduler, Wake, Sweep, Sleep, Admit, Boot, Crash, Tick, Deliver, vars,
         Recovery, RecoverList, RecoverNext, RecoverResolve, RecoverDone
  <1>. QED  BY <1>2, <1>3, <1>4, <1>5 DEF Next

(* A deleted task leaves no occurrence, whatever the sweeps, the events and  *)
(* the recovery create while it is being deleted (delete_task, the foreign   *)
(* key, and create_occurrence's read of the task).                           *)
THEOREM DeletedTasksLeaveNothing == Spec => []NoOrphans
  <1>1. Init => TypeInv /\ NoOrphans
    <2>1. Init => NoOrphans
      BY DEF Init, NoOcc, NoOrphans
    <2>. QED  BY <2>1, InitType
  <1>2. TypeInv /\ NoOrphans /\ [Next]_vars => (TypeInv /\ NoOrphans)'
    <2>. SUFFICES ASSUME TypeInv, NoOrphans, [Next]_vars PROVE NoOrphans'
      BY TypeStep
    <2>1. Grounded /\ Buried
      BY StepIsGrounded, StepBuries
    <2>. QED  BY <2>1, KeyTask DEF NoOrphans, Grounded, Buried
  <1>. QED  BY <1>1, <1>2, PTL DEF Spec

-----------------------------------------------------------------------------
(* Clock-driven occurrences are executed by one coroutine at a time.  The    *)
(* compare-and-swap of the claim is no lock: it admits an interrupted row,   *)
(* and recovery interrupts claimed rows and re-arms what it interrupted.     *)
(* What protects a live run is that recovery is over before the first wake   *)
(* gathers work, and that a running row is left by its own coroutine only.   *)
(* An event, delivered while recovery runs, would break the first part; a    *)
(* deletion, which wipes the row of a live run, would break the second.      *)

RecoveryIsAlone ==
    phase \in {"down", "starting", "recovering"} =>
        batch = {} /\ \A w \in Workers : worker[w].pc = "idle"
RunInv == RecoveryIsAlone /\ ExecutingIsRunning /\ ExclusiveExecution

(* A coroutine moves nobody but itself, and executes after a step of its own *)
(* only by its side effect or by a claim that succeeds.                      *)
LEMMA OthersStay ==
  ASSUME TypeInv, NEW w \in Workers, Work(w)
  PROVE  \A v \in Workers : v # w => worker'[v] = worker[v]
  <1>1. CASE \E pc : Step(w, pc)
    BY <1>1 DEF Step, TypeInv, WorkerInv
  <1>2. CASE Claim(w) /\ occ[worker[w].key].status \in Claimable
    BY <1>2 DEF Claim, TypeInv, WorkerInv
  <1>. QED  BY <1>1, <1>2 DEF Work, Create, Claim, Act, Succeed, Fail, Settle, Leave, Retry,
                              Park, Advance, Prepare

LEMMA WhoExecutes ==
  ASSUME TypeInv, NEW w \in Workers, Work(w), Executing(w)'
  PROVE  Act(w) \/ (Claim(w) /\ occ[worker[w].key].status \in Claimable)
  <1>1. ASSUME NEW pc, Step(w, pc) PROVE worker'[w].pc = pc
    BY <1>1 DEF Step, IdleWorker, TypeInv, WorkerInv, WorkerType
  <1>2. Then(w) \in {"advance", "idle"}
    BY DEF Then
  <1>3. worker'[w].pc \in {"exec", "acted"}
    BY DEF Executing
  <1>4. ~Create(w)
    BY <1>1, <1>2, <1>3 DEF Create
  <1>5. ~Succeed(w) /\ ~Fail(w)
    BY <1>1, <1>2, <1>3 DEF Succeed, Fail, Settle, Leave
  <1>6. ~Retry(w) /\ ~Park(w)
    BY <1>1, <1>2, <1>3 DEF Retry, Leave, Park
  <1>7. ~Advance(w) /\ ~Prepare(w)
    BY <1>1, <1>3 DEF Advance, Prepare
  <1>8. Claim(w) => occ[worker[w].key].status \in Claimable
    BY <1>1, <1>2, <1>3 DEF Claim
  <1>. QED  BY <1>4, <1>5, <1>6, <1>7, <1>8 DEF Work

LEMMA WorkKeepsRuns ==
  ASSUME TypeInv, RunInv, NEW w \in Workers, Work(w)
  PROVE  RunInv'
  <1>1. worker[w].pc # "idle" /\ phase' = phase
    BY DEF Work, Create, Claim, Act, Succeed, Fail, Settle, Retry, Park, Advance, Prepare,
           schedVars
  <1>2. RecoveryIsAlone'
    BY <1>1 DEF RunInv, RecoveryIsAlone
  <1>3. \A v \in Workers : v # w => worker'[v] = worker[v]
    BY OthersStay
  <1>4. w \in Workers /\ worker[w].key \in Keys /\ occ \in [Keys -> OccType]
    BY <1>1 DEF TypeInv, WorkerInv, Sound, OccInv
  <1>5. ASSUME NEW v \in Workers, Executing(v)', ~Executing(v)
        PROVE  /\ v = w /\ Claim(w) /\ occ[worker[w].key].status \in Claimable
               /\ occ'[worker'[v].key].status = "running" /\ worker'[v].key = worker[v].key
    <2>1. worker'[v].key = worker[v].key /\ occ[worker[v].key].status \in Claimable
      BY <1>5, ExecutingAfterWork
    <2>2. v = w
      BY <1>3, <1>5 DEF Executing
    <2>3. worker[w].pc \notin {"exec", "acted"} /\ Executing(w)'
      BY <1>5, <2>2 DEF Executing
    <2>4. Claim(w)
      BY <2>3, WhoExecutes DEF Act
    <2>5. occ[worker[w].key].status \in Claimable
      BY <2>1, <2>2
    <2>6. occ'[worker[w].key].status = "running"
      BY <1>4, <2>4, <2>5 DEF Claim, Mark, Write, OccType
    <2>. QED  BY <2>1, <2>2, <2>4, <2>5, <2>6
  <1>6. ASSUME NEW v \in Workers, Executing(v)', Executing(v)
        PROVE  worker'[v].key = worker[v].key /\ occ'[worker[v].key].status = "running"
    <2>1. worker'[v].key = worker[v].key
      BY <1>6, ExecutingAfterWork
    <2>2. worker[v].key \in Keys /\ occ[worker[v].key].status = "running"
      BY <1>6 DEF RunInv, ExecutingIsRunning, Executing, TypeInv, WorkerInv, Sound
    <2>3. CASE Create(w) \/ Prepare(w)
      BY <1>4, <2>1, <2>2, <2>3 DEF Create, Prepare, Write
    <2>4. CASE Claim(w)
      BY <1>4, <2>1, <2>2, <2>4 DEF Claim, Claimable, Mark, Write
    <2>5. CASE Act(w) \/ Advance(w)
      BY <2>1, <2>2, <2>5 DEF Act, Advance
    <2>6. CASE Succeed(w) \/ Fail(w) \/ Retry(w) \/ Park(w)
      <3>1. Executing(w)
        BY <2>6 DEF Succeed, Fail, Retry, Park, Executing
      <3>2. v # w
        <4>1. \E pc \in {"idle", "advance"} : Step(w, pc)
          BY <2>6 DEF Succeed, Fail, Settle, Leave, Retry, Park, Then
        <4>. QED  BY <1>6, <4>1 DEF Step, IdleWorker, Executing, TypeInv, WorkerInv, WorkerType
      <3>3. worker[v].key # worker[w].key
        BY <1>6, <3>1, <3>2 DEF RunInv, ExclusiveExecution
      <3>. QED  BY <1>4, <2>1, <2>2, <2>6, <3>3
                DEF Succeed, Fail, Settle, Retry, Park, Rearm, Mark, Write
    <2>. QED  BY <2>1, <2>2, <2>3, <2>4, <2>5, <2>6 DEF Work
  <1>7. ExecutingIsRunning'
    BY <1>5, <1>6 DEF ExecutingIsRunning
  <1>8. ExclusiveExecution'
    <2>. SUFFICES ASSUME NEW u \in Workers, NEW v \in Workers, Executing(u)', Executing(v)',
                         worker'[u].key = worker'[v].key
                  PROVE  u = v
      BY DEF ExclusiveExecution
    <2>1. worker[u].key = worker[v].key
      BY <1>5, <1>6
    <2>2. CASE Executing(u) /\ Executing(v)
      BY <2>1, <2>2 DEF RunInv, ExclusiveExecution
    <2>3. CASE ~Executing(u) /\ ~Executing(v)
      BY <1>5, <2>3
    <2>4. ASSUME NEW x \in Workers, NEW y \in Workers, Executing(x)', Executing(x), Executing(y)',
                 ~Executing(y)
          PROVE  worker[x].key # worker[y].key
      <3>1. occ[worker[x].key].status = "running"
        BY <2>4 DEF RunInv, ExecutingIsRunning
      <3>2. occ[worker[y].key].status \in Claimable
        BY <1>5, <2>4
      <3>. QED  BY <3>1, <3>2 DEF Claimable
    <2>. QED  BY <2>1, <2>2, <2>3, <2>4
  <1>. QED  BY <1>2, <1>7, <1>8 DEF RunInv

LEMMA OwnerKeepsRuns ==
  ASSUME TypeInv, RunInv, NoDeletion, OwnerBegins \/ OwnerEnds
  PROVE  RunInv'
  <1>1. UNCHANGED <<worker, phase, batch>>
    BY DEF OwnerBegins, OwnerEnds, SetStatus, Resume, Edit, DeleteBegin, Answer, Discard,
           DeleteOccurrences, DeleteTask, schedVars
  <1>2. \A k \in Keys : occ[k].status = "running" => occ'[k].status = "running"
    <2>. SUFFICES ASSUME NEW k \in Keys, occ[k].status = "running"
                  PROVE  occ'[k].status = "running"
      OBVIOUS
    <2>1. CASE \E t \in Tasks : SetStatus(t) \/ Resume(t) \/ Edit(t) \/ DeleteBegin(t)
      BY <2>1 DEF SetStatus, Resume, Edit, DeleteBegin
    <2>2. CASE \E x \in Keys : Answer(x)
      BY <2>2 DEF Answer, Write, TypeInv, OccInv
    <2>3. CASE Discard
      BY <2>3 DEF Discard
    <2>4. CASE DeleteTask
      BY <2>4 DEF DeleteTask
    <2>5. ~DeleteOccurrences
      BY DEF DeleteOccurrences, NoDeletion
    <2>. QED  BY <2>1, <2>2, <2>3, <2>4, <2>5 DEF OwnerBegins, OwnerEnds
  <1>3. \A w \in Workers : Executing(w) => worker[w].key \in Keys
    BY DEF Executing, TypeInv, WorkerInv, Sound
  <1>4. RecoveryIsAlone' /\ ExclusiveExecution'
    BY <1>1 DEF RunInv, RecoveryIsAlone, ExclusiveExecution, Executing
  <1>5. ExecutingIsRunning'
    BY <1>1, <1>2, <1>3 DEF RunInv, ExecutingIsRunning, Executing
  <1>. QED  BY <1>4, <1>5 DEF RunInv

(* Recovery writes rows of a previous process, and nobody is executing yet;  *)
(* a crash ends every execution.                                             *)
LEMMA RestartKeepsRuns ==
  ASSUME TypeInv, RunInv, Recovery \/ Crash \/ Boot
  PROVE  RunInv'
  <1>1. \A w \in Workers : worker'[w].pc = "idle"
    <2>1. CASE Crash
      BY <2>1 DEF Crash, IdleWorker
    <2>2. CASE Recovery \/ Boot
      <3>1. phase \in {"down", "starting", "recovering"} /\ worker' = worker
        BY <2>2 DEF Recovery, RecoverList, RecoverNext, RecoverResolve, RecoverDone, Boot
      <3>. QED  BY <3>1 DEF RunInv, RecoveryIsAlone
    <2>. QED  BY <2>1, <2>2
  <1>2. RecoveryIsAlone'
    <2>1. CASE Crash
      BY <1>1, <2>1 DEF Crash, RecoveryIsAlone
    <2>2. CASE Recovery \/ Boot
      <3>1. phase \in {"down", "starting", "recovering"} /\ batch' = batch
        BY <2>2 DEF Recovery, RecoverList, RecoverNext, RecoverResolve, RecoverDone, Boot, schedVars
      <3>. QED  BY <1>1, <3>1 DEF RunInv, RecoveryIsAlone
    <2>. QED  BY <2>1, <2>2
  <1>3. \A w \in Workers : ~Executing(w)'
    BY <1>1 DEF Executing
  <1>4. ExecutingIsRunning' /\ ExclusiveExecution'
    BY <1>3 DEF ExecutingIsRunning, ExclusiveExecution
  <1>. QED  BY <1>2, <1>4 DEF RunInv

LEMMA SchedulerKeepsRuns ==
  ASSUME TypeInv, RunInv, Scheduler \/ Tick \/ UNCHANGED vars
  PROVE  RunInv'
  <1>1. occ' = occ
    BY DEF Scheduler, Wake, Sweep, Sleep, Admit, Tick, vars
  <1>2. \A w \in Workers : Executing(w)' => worker'[w] = worker[w]
    <2>1. CASE \E w \in Pool : Admit(w)
      BY <2>1 DEF Admit, Executing, TypeInv, WorkerInv
    <2>2. CASE Wake \/ Sweep \/ Sleep \/ Tick \/ UNCHANGED vars
      BY <2>2 DEF Wake, Sweep, Sleep, Tick, vars
    <2>. QED  BY <2>1, <2>2 DEF Scheduler
  <1>3. RecoveryIsAlone'
    <2>1. CASE \E w \in Pool : Admit(w)
      <3>1. batch # {} /\ phase' = phase
        BY <2>1 DEF Admit
      <3>. QED  BY <3>1 DEF RunInv, RecoveryIsAlone
    <2>2. CASE Wake \/ Sweep \/ Sleep
      BY <2>2 DEF Wake, Sweep, Sleep, RecoveryIsAlone
    <2>3. CASE Tick \/ UNCHANGED vars
      BY <2>3 DEF Tick, vars, schedVars, RunInv, RecoveryIsAlone
    <2>. QED  BY <2>1, <2>2, <2>3 DEF Scheduler
  <1>4. ExecutingIsRunning' /\ ExclusiveExecution'
    BY <1>1, <1>2 DEF RunInv, ExecutingIsRunning, ExclusiveExecution, Executing
  <1>. QED  BY <1>3, <1>4 DEF RunInv

LEMMA RunStep ==
  ASSUME Event = {}, TypeInv, RunInv, NoDeletion, [Next]_vars
  PROVE  RunInv'
  <1>1. \A h \in Handlers : ~Deliver(h)
    BY DEF Deliver
  <1>2. CASE \E w \in Workers : Work(w)
    BY <1>2, WorkKeepsRuns
  <1>3. CASE OwnerBegins \/ OwnerEnds
    BY <1>3, OwnerKeepsRuns
  <1>4. CASE Recovery \/ Crash \/ Boot
    BY <1>4, RestartKeepsRuns
  <1>5. CASE Scheduler \/ Tick \/ UNCHANGED vars
    BY <1>5, SchedulerKeepsRuns
  <1>. QED  BY <1>1, <1>2, <1>3, <1>4, <1>5 DEF Next

LEMMA RunInvariant ==
  ASSUME Event = {}, "delete" \notin OwnerOps
  PROVE  Spec => []RunInv
  <1>. DEFINE Inv == TypeInv /\ RunInv /\ NoDeletion
  <1>1. Init => Inv
    <2>1. Init => RunInv /\ NoDeletion
      BY DEF Init, IdleWorker, IdleOwner, NoDeletion, RunInv, RecoveryIsAlone,
             ExecutingIsRunning, ExclusiveExecution, Executing
    <2>. QED  BY <2>1, InitType
  <1>2. Inv /\ [Next]_vars => Inv'
    BY TypeStep, DeletionNeverBegins, RunStep
  <1>3. Inv => RunInv
    OBVIOUS
  <1>. QED  BY <1>1, <1>2, <1>3, PTL DEF Spec

(* While the owner deletes nothing, no clock-driven occurrence is executed   *)
(* by two coroutines at once, whatever sweeps, retries, restarts, edits and  *)
(* slots there are (claim_occurrence, recover, _run_due_sweeps).             *)
THEOREM OneExecutionAtATime ==
  ASSUME Event = {}, "delete" \notin OwnerOps
  PROVE  Spec => []ExclusiveExecution
  <1>1. RunInv => ExclusiveExecution
    BY DEF RunInv
  <1>. QED  BY <1>1, RunInvariant, PTL

(* Under the same conditions the store says "running" of whatever is being   *)
(* executed, so recovery never mistakes a live run for an abandoned one.     *)
THEOREM LiveRunsAreRunning ==
  ASSUME Event = {}, "delete" \notin OwnerOps
  PROVE  Spec => []ExecutingIsRunning
  <1>1. RunInv => ExecutingIsRunning
    BY DEF RunInv
  <1>. QED  BY <1>1, RunInvariant, PTL

-----------------------------------------------------------------------------
(* The cadence never moves past a boundary that was not started.  The order  *)
(* of _process_due_task's writes is only half of it: another sweep, a retry  *)
(* or recovery may write the row in between, and the owner may clear and     *)
(* recompute the boundary.  The other half is that no row goes back to       *)
(* unstarted, and that the version a sweep read stands for the boundary it   *)
(* read with it.  An edit breaks the first (it discards a claimed row), and  *)
(* a deletion too, so the owner here only pauses, completes and resumes.     *)

OwnerAtRest == owner.pc = "idle"

(* A coroutine that is to advance leaves a started row behind. *)
CadenceRows ==
    \A w \in Workers : worker[w].kind = "due" =>
        /\ worker[w].pc = "claim" => occ[worker[w].key].status # "none"
        /\ worker[w].pc \in {"exec", "acted", "advance"} => Started(worker[w].key)

(* A version not overtaken yet was read together with the boundary. *)
Current(k, version) ==
    /\ version <= task[k[1]].version
    /\ version = task[k[1]].version => k[2] = task[k[1]].nextRun
CadenceReads ==
    /\ \A i \in batch : i.kind = "due" => Current(i.key, i.version)
    /\ \A w \in Workers : worker[w].kind = "due" => Current(worker[w].key, worker[w].version)

CadenceInv == OwnerAtRest /\ CadenceRows /\ CadenceReads

(* What one step does to a row and to a task: a row is never unstarted or    *)
(* removed, and a task whose boundary moves gets a new version.              *)
Forward(k) ==
    /\ occ[k].status # "none" => occ'[k].status # "none"
    /\ Started(k) => Started(k)'
Versioned(t) == task'[t] = task[t] \/ task'[t].version > task[t].version

LEMMA MovesStayStarted ==
  ASSUME NEW k \in Keys, NEW s \in Statuses, CanMove(k, s)
  PROVE  /\ s # "none" /\ occ[k].status # "none"
         /\ Started(k) => s # "claimed"
  BY DEF CanMove, Successors, Terminal, Started

LEMMA WriteIsForward ==
  ASSUME TypeInv, NEW x \in Keys, NEW row, Write(x, row), row.status # "none",
         Started(x) => row.status # "claimed", NEW k \in Keys
  PROVE  Forward(k)
  BY DEF TypeInv, OccInv, Write, Forward, Started

LEMMA MarkIsForward ==
  ASSUME TypeInv, NEW x \in Keys, NEW s \in Statuses, Mark(x, s), CanMove(x, s), NEW k \in Keys
  PROVE  Forward(k)
  <1>. DEFINE row == [occ[x] EXCEPT !.status = s]
  <1>1. row.status = s
    BY DEF TypeInv, OccInv, OccType
  <1>2. s # "none" /\ (Started(x) => s # "claimed")
    BY MovesStayStarted
  <1>3. Write(x, row)
    BY DEF Mark
  <1>4. row.status # "none" /\ (Started(x) => row.status # "claimed")
    BY <1>1, <1>2
  <1>. HIDE DEF row
  <1>. QED  BY <1>3, <1>4, WriteIsForward

LEMMA RearmIsForward ==
  ASSUME TypeInv, NEW x \in Keys, NEW a, Rearm(x, a), NEW k \in Keys
  PROVE  Forward(k)
  <1>1. PICK at \in Soon : Write(x, [occ[x] EXCEPT !.status = "retry_pending",
                                                  !.attempt = a, !.retryAt = at])
    BY DEF Rearm
  <1>. DEFINE row == [occ[x] EXCEPT !.status = "retry_pending", !.attempt = a, !.retryAt = at]
  <1>2. row.status = "retry_pending"
    BY DEF TypeInv, OccInv, OccType
  <1>3. row.status # "none" /\ row.status # "claimed"
    BY <1>2
  <1>4. Write(x, row)
    BY <1>1
  <1>. HIDE DEF row
  <1>. QED  BY <1>3, <1>4, WriteIsForward

LEMMA StillIsForward ==
  ASSUME occ' = occ, NEW k \in Keys
  PROVE  Forward(k)
  BY DEF Forward, Started

LEMMA WorkIsForward ==
  ASSUME TypeInv, NEW w \in Workers, Work(w), NEW k \in Keys
  PROVE  Forward(k)
  <1>. DEFINE x == worker[w].key
  <1>1. worker[w].pc # "idle" /\ x \in Keys /\ occ \in [Keys -> OccType] /\ occ[x] \in OccType
    BY DEF TypeInv, WorkerInv, OccInv, Sound, Work, Create, Claim, Act, Succeed, Fail, Settle,
           Retry, Park, Advance, Prepare
  <1>2. \A g : NewOcc(g).status = "claimed"
    BY DEF NewOcc
  <1>3. ASSUME NEW y \in Keys, NEW g, occ[y].status = "none", Write(y, NewOcc(g))
        PROVE  Forward(k)
    <2>1. NewOcc(g).status # "none" /\ ~Started(y)
      BY <1>2, <1>3 DEF Started
    <2>. QED  BY <1>3, <2>1, WriteIsForward
  <1>4. CASE Create(w)
    <2>1. \/ occ' = occ
          \/ occ[x].status = "none" /\ Write(x, NewOcc(worker[w].gen))
      BY <1>4 DEF Create
    <2>. QED  BY <1>1, <1>3, <2>1, StillIsForward
  <1>5. CASE Claim(w)
    <2>1. CASE occ[x].status \in Claimable
      <3>1. Mark(x, "running")
        BY <1>5, <2>1 DEF Claim
      <3>2. [occ[x] EXCEPT !.status = "running"].status = "running"
        BY <1>1 DEF OccType
      <3>. QED  BY <1>1, <3>1, <3>2, WriteIsForward DEF Mark
    <2>2. CASE occ[x].status \notin Claimable
      BY <1>5, <2>2, StillIsForward DEF Claim
    <2>. QED  BY <2>1, <2>2
  <1>6. CASE Act(w) \/ Advance(w)
    BY <1>6, StillIsForward DEF Act, Advance
  <1>7. CASE Succeed(w) \/ Fail(w)
    <2>1. PICK s \in {"succeeded", "failed"} : Settle(w, s)
      BY <1>7 DEF Succeed, Fail
    <2>2. s \in Statuses
      BY DEF Statuses
    <2>3. \/ occ' = occ
          \/ CanMove(x, s) /\ Mark(x, s)
      BY <2>1 DEF Settle
    <2>. QED  BY <1>1, <2>2, <2>3, StillIsForward, MarkIsForward
  <1>8. CASE Retry(w)
    <2>1. occ' = occ \/ Rearm(x, worker[w].attempt + 1)
      BY <1>8 DEF Retry
    <2>. QED  BY <1>1, <2>1, StillIsForward, RearmIsForward
  <1>9. CASE Park(w)
    <2>1. PICK s \in {"retry_pending", "waiting_answer"}, at \in Soon :
             \/ occ' = occ
             \/ Write(x, [occ[x] EXCEPT !.status = s, !.parks = @ + 1,
                            !.retryAt = IF s = "retry_pending" THEN at ELSE @])
      BY <1>9 DEF Park
    <2>. DEFINE row == [occ[x] EXCEPT !.status = s, !.parks = @ + 1,
                          !.retryAt = IF s = "retry_pending" THEN at ELSE @]
    <2>2. row.status = s
      BY <1>1 DEF OccType
    <2>3. row.status # "none" /\ row.status # "claimed"
      BY <2>2
    <2>4. occ' = occ \/ Write(x, row)
      BY <2>1
    <2>. HIDE DEF row
    <2>. QED  BY <1>1, <2>3, <2>4, StillIsForward, WriteIsForward
  <1>10. CASE Prepare(w)
    <2>. DEFINE y == <<worker[w].key[1], Following>>
    <2>1. worker[w].key \in TimedKeys
      BY <1>10, WorkerParts DEF TypeInv, Prepare
    <2>2. Following \in Boundaries
      BY BoundAssumption DEF TypeInv, ClockInv, Following, Boundaries
    <2>3. y \in Keys
      BY <2>1, <2>2, TimedKeyParts DEF Keys, TimedKeys
    <2>4. occ' = occ \/ (occ[y].status = "none" /\ Write(y, NewOcc(worker[w].gen)))
      BY <1>10 DEF Prepare
    <2>. QED  BY <1>3, <2>3, <2>4, StillIsForward
  <1>. QED  BY <1>4, <1>5, <1>6, <1>7, <1>8, <1>9, <1>10 DEF Work

LEMMA RecoveryIsForward ==
  ASSUME TypeInv, Recovery, NEW k \in Keys
  PROVE  Forward(k)
  <1>1. CASE RecoverNext
    <2>1. PICK r \in rec.todo :
             \/ occ' = occ
             \/ AbandonRun(r.key)
             \/ CanMove(r.key, "interrupted") /\ Mark(r.key, "interrupted")
      BY <1>1 DEF RecoverNext
    <2>2. r.key \in Keys
      BY DEF TypeInv, RecInv, Unresolved
    <2>3. AbandonRun(r.key) => occ' = occ \/ (CanMove(r.key, "failed") /\ Mark(r.key, "failed"))
      BY DEF AbandonRun
    <2>4. "failed" \in Statuses /\ "interrupted" \in Statuses
      BY DEF Statuses
    <2>. QED  BY <2>1, <2>2, <2>3, <2>4, StillIsForward, MarkIsForward
  <1>2. CASE RecoverResolve
    <2>. DEFINE x == rec.key
    <2>1. x \in Keys
      BY <1>2 DEF RecoverResolve, TypeInv, RecInv
    <2>2. \/ occ' = occ
          \/ Rearm(x, rec.attempt + 1)
          \/ CanMove(x, "failed") /\ Mark(x, "failed")
      BY <1>2 DEF RecoverResolve
    <2>3. "failed" \in Statuses
      BY DEF Statuses
    <2>. QED  BY <2>1, <2>2, <2>3, StillIsForward, RearmIsForward, MarkIsForward
  <1>3. CASE RecoverList \/ RecoverDone
    BY <1>3, StillIsForward DEF RecoverList, RecoverDone
  <1>. QED  BY <1>1, <1>2, <1>3 DEF Recovery

LEMMA PausingIsForward ==
  ASSUME TypeInv, OwnerAtRest, "edit" \notin OwnerOps, "delete" \notin OwnerOps,
         OwnerBegins \/ OwnerEnds, NEW k \in Keys
  PROVE  Forward(k)
  <1>1. CASE \E x \in Keys : Answer(x)
    <2>1. PICK x \in Keys : Answer(x)
      BY <1>1
    <2>. DEFINE row == [occ[x] EXCEPT !.status = "retry_pending", !.retryAt = now]
    <2>2. row.status = "retry_pending"
      BY DEF TypeInv, OccInv, OccType
    <2>3. row.status # "none" /\ row.status # "claimed"
      BY <2>2
    <2>4. occ' = occ \/ Write(x, row)
      BY <2>1 DEF Answer
    <2>. HIDE DEF row
    <2>. QED  BY <2>3, <2>4, StillIsForward, WriteIsForward
  <1>2. CASE \E t \in Tasks : SetStatus(t) \/ Resume(t)
    BY <1>2, StillIsForward DEF SetStatus, Resume
  <1>3. \A t \in Tasks : ~Edit(t) /\ ~DeleteBegin(t)
    BY DEF Edit, DeleteBegin, Manage
  <1>4. ~OwnerEnds
    BY DEF OwnerEnds, Discard, DeleteOccurrences, DeleteTask, OwnerAtRest
  <1>. QED  BY <1>1, <1>2, <1>3, <1>4 DEF OwnerBegins

LEMMA StepIsForward ==
  ASSUME TypeInv, OwnerAtRest, "edit" \notin OwnerOps, "delete" \notin OwnerOps, [Next]_vars,
         NEW k \in Keys
  PROVE  Forward(k)
  <1>1. CASE \E w \in Workers : Work(w)
    BY <1>1, WorkIsForward
  <1>2. CASE Recovery
    BY <1>2, RecoveryIsForward
  <1>3. CASE OwnerBegins \/ OwnerEnds
    BY <1>3, PausingIsForward
  <1>4. CASE Scheduler \/ Boot \/ Crash \/ Tick \/ (\E h \in Handlers : Deliver(h))
             \/ UNCHANGED vars
    BY <1>4, StillIsForward DEF Scheduler, Wake, Sweep, Sleep, Admit, Boot, Crash, Tick, Deliver,
         vars
  <1>. QED  BY <1>1, <1>2, <1>3, <1>4 DEF Next

LEMMA RowIsVersioned ==
  ASSUME TypeInv, NEW x \in Tasks, NEW row, row.version = task[x].version + 1,
         task' = [task EXCEPT ![x] = row], NEW t \in Tasks
  PROVE  Versioned(t)
  <1>1. task[x].version \in Nat
    BY DEF TypeInv, TaskInv, TaskType
  <1>. QED  BY <1>1 DEF Versioned, TypeInv, TaskInv

(* advance_next_run and the owner's writes all swap on the version. *)
LEMMA StepIsVersioned ==
  ASSUME TypeInv, OwnerAtRest, "edit" \notin OwnerOps, "delete" \notin OwnerOps, [Next]_vars,
         NEW t \in Tasks
  PROVE  Versioned(t)
  <1>1. CASE task' = task
    BY <1>1 DEF Versioned
  <1>2. ASSUME NEW w \in Workers, Advance(w) PROVE Versioned(t)
    <2>. DEFINE x == worker[w].key[1]
                row == [task[x] EXCEPT !.version = @ + 1,
                          !.nextRun = IF x \in Once THEN 0 ELSE Following]
    <2>1. x \in Tasks
      BY <1>2, WorkerParts, TimedKeyParts DEF TypeInv, Advance, Tasks
    <2>2. task[x] \in TaskType /\ task \in [Tasks -> TaskType]
      BY <2>1 DEF TypeInv, TaskInv
    <2>3. row.version = task[x].version + 1
      BY <2>2 DEF TaskType
    <2>4. task' = task \/ task' = [task EXCEPT ![x] = row]
      BY <1>2, <2>1, <2>2 DEF Advance
    <2>. HIDE DEF row
    <2>. QED  BY <1>1, <2>1, <2>3, <2>4, RowIsVersioned
  <1>3. ASSUME NEW x \in Tasks, NEW row, SetTask(x, row), row.version = task[x].version,
               row \in TaskType
        PROVE  Versioned(t)
    <2>. DEFINE new == [row EXCEPT !.version = @ + 1]
    <2>1. new.version = task[x].version + 1
      BY <1>3 DEF TaskType
    <2>2. task' = [task EXCEPT ![x] = new]
      BY <1>3 DEF SetTask
    <2>. HIDE DEF new
    <2>. QED  BY <2>1, <2>2, RowIsVersioned
  <1>4. ASSUME NEW x \in Tasks, SetStatus(x) PROVE Versioned(t)
    <2>1. PICK s \in {"paused", "completed"} :
            SetTask(x, [task[x] EXCEPT !.status = s, !.nextRun = 0])
      BY <1>4 DEF SetStatus
    <2>2. task[x] \in TaskType
      BY DEF TypeInv, TaskInv
    <2>. DEFINE row == [task[x] EXCEPT !.status = s, !.nextRun = 0]
    <2>3. s \in {"active", "paused", "completed", "gone"}
      OBVIOUS
    <2>4. row \in TaskType
      BY <2>2, <2>3, ClearedRow
    <2>5. row.version = task[x].version
      BY <2>2 DEF TaskType
    <2>6. SetTask(x, row)
      BY <2>1
    <2>. HIDE DEF row
    <2>. QED  BY <1>3, <2>4, <2>5, <2>6
  <1>5. ASSUME NEW x \in Tasks, Resume(x) PROVE Versioned(t)
    <2>. DEFINE run == IF task[x].nextRun # 0 \/ x \in Event THEN task[x].nextRun
                       ELSE IF x \in Recurring THEN now + 1 ELSE 1
                row == [task[x] EXCEPT !.status = "active", !.nextRun = run]
    <2>1. task[x] \in TaskType
      BY DEF TypeInv, TaskInv
    <2>2. run \in 0 .. (MaxTime + 1)
      BY <2>1, BoundAssumption DEF TaskType, TypeInv, ClockInv
    <2>3. row \in TaskType
      BY <2>1, <2>2, StatusRow
    <2>4. row.version = task[x].version
      BY <2>1 DEF TaskType
    <2>5. SetTask(x, row)
      BY <1>5 DEF Resume
    <2>. HIDE DEF row
    <2>. QED  BY <1>3, <2>3, <2>4, <2>5
  <1>6. CASE OwnerBegins \/ OwnerEnds
    <2>1. \A x \in Tasks : ~Edit(x) /\ ~DeleteBegin(x)
      BY DEF Edit, DeleteBegin, Manage
    <2>2. ~OwnerEnds
      BY DEF OwnerEnds, Discard, DeleteOccurrences, DeleteTask, OwnerAtRest
    <2>3. CASE \E x \in Keys : Answer(x)
      BY <1>1, <2>3 DEF Answer
    <2>. QED  BY <1>4, <1>5, <1>6, <2>1, <2>2, <2>3 DEF OwnerBegins
  <1>7. ASSUME NEW w \in Workers, Work(w), ~Advance(w) PROVE Versioned(t)
    BY <1>1, <1>7 DEF Work, Create, Claim, Act, Succeed, Fail, Settle, Retry, Park, Prepare
  <1>8. CASE Scheduler \/ Boot \/ Recovery \/ Crash \/ Tick \/ (\E h \in Handlers : Deliver(h))
             \/ UNCHANGED vars
    BY <1>1, <1>8 DEF Scheduler, Wake, Sweep, Sleep, Admit, Boot, Crash, Tick, Deliver, vars,
         Recovery, RecoverList, RecoverNext, RecoverResolve, RecoverDone
  <1>. QED  BY <1>2, <1>6, <1>7, <1>8 DEF Next

(* The same judgement of a later table of tasks. *)
CurrentAfter(k, version) ==
    /\ version <= task'[k[1]].version
    /\ version = task'[k[1]].version => k[2] = task'[k[1]].nextRun

LEMMA CurrentStays ==
  ASSUME TypeInv, TypeInv', NEW k \in Keys, NEW version \in Nat, Current(k, version),
         Versioned(k[1])
  PROVE  CurrentAfter(k, version)
  <1>1. k[1] \in Tasks
    BY KeyTask
  <1>2. task[k[1]].version \in Nat /\ task'[k[1]].version \in Nat
    BY <1>1 DEF TypeInv, TaskInv, TaskType
  <1>3. CASE task'[k[1]] = task[k[1]]
    BY <1>3 DEF Current, CurrentAfter
  <1>4. CASE task'[k[1]].version > task[k[1]].version
    BY <1>2, <1>4 DEF Current, CurrentAfter
  <1>. QED  BY <1>3, <1>4 DEF Versioned

LEMMA OwnerStaysAtRest ==
  ASSUME "edit" \notin OwnerOps, "delete" \notin OwnerOps, OwnerAtRest, [Next]_vars
  PROVE  OwnerAtRest'
  <1>1. CASE Crash
    BY <1>1 DEF Crash, IdleOwner, OwnerAtRest
  <1>2. CASE OwnerBegins
    <2>1. \A t \in Tasks : ~Edit(t) /\ ~DeleteBegin(t)
      BY DEF Edit, DeleteBegin, Manage
    <2>. QED  BY <1>2, <2>1 DEF OwnerBegins, SetStatus, Resume, Answer, OwnerAtRest
  <1>3. ~OwnerEnds
    BY DEF OwnerEnds, Discard, DeleteOccurrences, DeleteTask, OwnerAtRest
  <1>4. CASE \E w \in Workers : Work(w)
    BY <1>4 DEF OwnerAtRest, Work, Create, Claim, Act, Succeed, Fail, Settle, Retry, Park, Advance,
         Prepare
  <1>5. CASE Scheduler \/ Boot \/ Recovery \/ Tick \/ (\E h \in Handlers : Deliver(h))
             \/ UNCHANGED vars
    BY <1>5 DEF OwnerAtRest, Scheduler, Wake, Sweep, Sleep, Admit, Boot, Tick, Deliver, vars,
         Recovery, RecoverList, RecoverNext, RecoverResolve, RecoverDone
  <1>. QED  BY <1>1, <1>2, <1>3, <1>4, <1>5 DEF Next

(* Coroutines carry what they were admitted with. *)
LEMMA WorkCarries ==
  ASSUME TypeInv, NEW w \in Workers, Work(w), NEW v \in Workers, worker'[v].kind = "due"
  PROVE  /\ worker[v].kind = "due"
         /\ worker'[v].key = worker[v].key /\ worker'[v].version = worker[v].version
  <1>1. ASSUME NEW pc, Step(w, pc)
        PROVE  /\ worker[v].kind = "due"
               /\ worker'[v].key = worker[v].key /\ worker'[v].version = worker[v].version
    BY <1>1 DEF Step, IdleWorker, TypeInv, WorkerInv, WorkerType
  <1>2. CASE Claim(w) /\ occ[worker[w].key].status \in Claimable
    BY <1>2 DEF Claim, TypeInv, WorkerInv, WorkerType
  <1>. QED  BY <1>1, <1>2 DEF Work, Create, Claim, Act, Succeed, Fail, Settle, Leave, Retry,
                              Park, Advance, Prepare

LEMMA ReadsStayCurrent ==
  ASSUME TypeInv, TypeInv', CadenceReads, \A t \in Tasks : Versioned(t), [Next]_vars
  PROVE  CadenceReads'
  <1>1. ASSUME NEW i \in batch, i.kind = "due" PROVE CurrentAfter(i.key, i.version)
    <2>1. i.key \in Keys /\ i.version \in Nat /\ Current(i.key, i.version)
      BY <1>1 DEF TypeInv, BatchInv, ItemType, CadenceReads
    <2>. QED  BY <2>1, CurrentStays, KeyTask
  <1>2. ASSUME NEW v \in Workers, worker[v].kind = "due"
        PROVE  CurrentAfter(worker[v].key, worker[v].version)
    <2>1. worker[v].key \in Keys /\ worker[v].version \in Nat
      BY <1>2, TimedKeysAreKeys DEF TypeInv, WorkerInv, Sound, WorkerType
    <2>2. Current(worker[v].key, worker[v].version)
      BY <1>2 DEF CadenceReads
    <2>. QED  BY <2>1, <2>2, CurrentStays, KeyTask
  <1>3. SUFFICES /\ \A i \in batch' : i.kind = "due" => CurrentAfter(i.key, i.version)
                 /\ \A v \in Workers : worker'[v].kind = "due" =>
                       CurrentAfter(worker'[v].key, worker'[v].version)
    BY DEF CadenceReads, Current, CurrentAfter
  <1>4. CASE Sweep
    <2>1. task' = task /\ worker' = worker
      BY <1>4 DEF Sweep
    <2>2. ASSUME NEW i \in batch' PROVE CurrentAfter(i.key, i.version)
      <3>1. PICK t \in DueTasks :
              i = Item("due", <<t, task[t].nextRun>>, task[t].version, task[t].gen)
        BY <1>4, <2>2 DEF Sweep
      <3>2. i.key = <<t, task[t].nextRun>> /\ i.version = task[t].version
        BY <3>1 DEF Item
      <3>3. task[t].version \in Nat
        BY DEF DueTasks, TypeInv, TaskInv, TaskType
      <3>4. i.key[1] = t /\ i.key[2] = task[t].nextRun
        BY <3>2
      <3>. QED  BY <2>1, <3>2, <3>3, <3>4 DEF CurrentAfter
    <2>. QED  BY <1>2, <2>1, <2>2
  <1>5. CASE Wake
    <2>1. worker' = worker /\ \A i \in batch' : i.kind = "retry"
      BY <1>5 DEF Wake, Item
    <2>. QED  BY <1>2, <2>1
  <1>6. CASE \E w \in Pool : Admit(w)
    <2>1. PICK w \in Pool : Admit(w)
      BY <1>6
    <2>2. PICK i \in batch :
            /\ batch' = batch \ {i}
            /\ worker' = [worker EXCEPT ![w] =
                  [pc |-> IF i.kind = "due" THEN "create" ELSE "claim", kind |-> i.kind,
                   key |-> i.key, version |-> i.version, gen |-> i.gen, attempt |-> 0]]
      BY <2>1 DEF Admit
    <2>3. \A v \in Workers : worker'[v] = worker[v] \/
             (worker'[v].kind = i.kind /\ worker'[v].key = i.key /\ worker'[v].version = i.version)
      BY <2>2 DEF TypeInv, WorkerInv
    <2>. QED  BY <1>1, <1>2, <2>2, <2>3
  <1>7. CASE \E h \in Handlers : Deliver(h)
    <2>1. PICK h \in Handlers : Deliver(h)
      BY <1>7
    <2>2. batch' = batch /\ \A v \in Workers : worker'[v] = worker[v] \/ worker'[v].kind = "event"
      BY <2>1 DEF Deliver, schedVars, TypeInv, WorkerInv
    <2>. QED  BY <1>1, <1>2, <2>2
  <1>8. CASE \E w \in Workers : Work(w)
    <2>1. PICK w \in Workers : Work(w)
      BY <1>8
    <2>2. batch' = batch
      BY <2>1 DEF Work, Create, Claim, Act, Succeed, Fail, Settle, Retry, Park, Advance, Prepare,
           schedVars
    <2>3. \A v \in Workers : worker'[v].kind = "due" =>
             /\ worker[v].kind = "due"
             /\ worker'[v].key = worker[v].key /\ worker'[v].version = worker[v].version
      BY <2>1, WorkCarries
    <2>. QED  BY <1>1, <1>2, <2>2, <2>3
  <1>9. CASE Crash
    BY <1>9 DEF Crash, IdleWorker
  <1>10. CASE Sleep \/ Boot \/ Tick \/ Recovery \/ OwnerBegins \/ OwnerEnds \/ UNCHANGED vars
    <2>1. batch' = batch /\ worker' = worker
      BY <1>10 DEF Sleep, Boot, Tick, Recovery, RecoverList, RecoverNext, RecoverResolve,
           RecoverDone, OwnerBegins, SetStatus, Resume, Edit, DeleteBegin, Answer, OwnerEnds,
           Discard, DeleteOccurrences, DeleteTask, schedVars, vars
    <2>. QED  BY <1>1, <1>2, <2>1
  <1>. QED  BY <1>4, <1>5, <1>6, <1>7, <1>8, <1>9, <1>10 DEF Next, Scheduler

(* The coroutine that takes a step: it is sent to advance only from a row    *)
(* that is started.                                                          *)
LEMMA WorkKeepsCadenceRows ==
  ASSUME TypeInv, CadenceRows, \A k \in Keys : Forward(k), NEW w \in Workers, Work(w)
  PROVE  CadenceRows'
  <1>. DEFINE x == worker[w].key
  <1>1. worker[w].pc # "idle" /\ x \in Keys /\ occ \in [Keys -> OccType] /\ occ[x] \in OccType
    BY DEF TypeInv, WorkerInv, OccInv, Sound, Work, Create, Claim, Act, Succeed, Fail, Settle,
           Retry, Park, Advance, Prepare
  <1>. SUFFICES ASSUME NEW v \in Workers, worker'[v].kind = "due"
                PROVE  /\ worker'[v].pc = "claim" => occ'[worker'[v].key].status # "none"
                       /\ worker'[v].pc \in {"exec", "acted", "advance"} =>
                             occ'[worker'[v].key].status \notin {"none", "claimed"}
    BY DEF CadenceRows, Started
  <1>2. worker[v].kind = "due" /\ worker'[v].key = worker[v].key
    BY WorkCarries
  <1>3. worker[v].key \in Keys
    BY <1>2, TimedKeysAreKeys DEF TypeInv, WorkerInv, Sound
  <1>4. /\ worker[v].pc = "claim" => occ'[worker[v].key].status # "none"
        /\ worker[v].pc \in {"exec", "acted", "advance"} =>
              occ'[worker[v].key].status \notin {"none", "claimed"}
    BY <1>2, <1>3 DEF CadenceRows, Forward, Started
  <1>5. CASE v # w
    <2>1. worker'[v] = worker[v]
      BY <1>5, OthersStay
    <2>. QED  BY <1>4, <2>1
  <1>6. CASE v = w
    <2>1. ASSUME NEW pc, Step(w, pc) PROVE worker'[w].pc = pc
      BY <2>1 DEF Step, IdleWorker, TypeInv, WorkerInv, WorkerType
    <2>2. Then(w) = "advance"
      BY <1>2, <1>6 DEF Then
    <2>3. CASE Create(w)
      <3>1. CASE worker'[w].pc = "idle"
        BY <1>6, <3>1
      <3>2. CASE worker'[w].pc # "idle"
        <4>. DEFINE fresh == occ[x].status = "none"
                    status == IF fresh THEN "claimed" ELSE occ[x].status
        <4>1. /\ IF fresh THEN Write(x, NewOcc(worker[w].gen)) ELSE UNCHANGED occ
              /\ Step(w, IF status \in {"claimed"} THEN "claim" ELSE "advance")
          BY <1>2, <1>6, <2>1, <2>2, <2>3, <3>2 DEF Create
        <4>2. CASE fresh
          <5>1. occ'[x].status = "claimed" /\ worker'[w].pc = "claim"
            BY <1>1, <2>1, <4>1, <4>2 DEF Write, NewOcc
          <5>. QED  BY <1>2, <1>6, <5>1
        <4>3. CASE ~fresh
          BY <1>2, <1>6, <2>1, <4>1, <4>3
        <4>. QED  BY <4>2, <4>3
      <3>. QED  BY <3>1, <3>2
    <2>4. CASE Claim(w)
      <3>1. CASE occ[x].status \in Claimable
        <4>1. occ'[x].status = "running" /\ worker'[w].pc = "exec"
          BY <1>1, <2>4, <3>1 DEF Claim, Mark, Write, OccType, TypeInv, WorkerInv, WorkerType
        <4>. QED  BY <1>2, <1>6, <4>1
      <3>2. CASE occ[x].status \notin Claimable
        <4>1. occ' = occ /\ worker'[w].pc = "advance"
          BY <2>1, <2>2, <2>4, <3>2 DEF Claim
        <4>2. occ[x].status # "none"
          BY <1>2, <1>6, <2>4 DEF Claim, CadenceRows
        <4>. QED  BY <1>2, <1>6, <3>2, <4>1, <4>2 DEF Claimable
      <3>. QED  BY <3>1, <3>2
    <2>5. CASE Act(w) \/ Succeed(w) \/ Fail(w) \/ Retry(w) \/ Park(w)
      <3>1. worker[w].pc \in {"exec", "acted"}
        BY <2>5 DEF Act, Succeed, Fail, Retry, Park
      <3>2. \E pc \in {"idle", "acted", "advance"} : Step(w, pc)
        BY <2>2, <2>5 DEF Act, Succeed, Fail, Settle, Leave, Retry, Park
      <3>3. worker'[w].pc # "claim"
        BY <2>1, <3>2
      <3>. QED  BY <1>2, <1>4, <1>6, <3>1, <3>3
    <2>6. CASE Advance(w) \/ Prepare(w)
      <3>1. \E pc \in {"idle", "prepare"} : Step(w, pc)
        BY <2>6 DEF Advance, Prepare
      <3>. QED  BY <1>6, <2>1, <3>1
    <2>. QED  BY <2>3, <2>4, <2>5, <2>6 DEF Work
  <1>. QED  BY <1>5, <1>6

LEMMA RowsKeepCadence ==
  ASSUME TypeInv, CadenceRows, \A k \in Keys : Forward(k), [Next]_vars
  PROVE  CadenceRows'
  <1>1. CASE \E w \in Workers : Work(w)
    BY <1>1, WorkKeepsCadenceRows
  <1>2. ASSUME \A v \in Workers : \/ worker'[v] = worker[v]
                                  \/ worker'[v].kind # "due"
                                  \/ worker'[v].pc = "create"
        PROVE  CadenceRows'
    <2>. SUFFICES ASSUME NEW v \in Workers, worker'[v] = worker[v], worker[v].kind = "due"
                  PROVE  /\ worker[v].pc = "claim" => occ'[worker[v].key].status # "none"
                         /\ worker[v].pc \in {"exec", "acted", "advance"} =>
                               occ'[worker[v].key].status \notin {"none", "claimed"}
      BY <1>2 DEF CadenceRows, Started
    <2>1. worker[v].key \in Keys
      BY TimedKeysAreKeys DEF TypeInv, WorkerInv, Sound
    <2>. QED  BY <2>1 DEF CadenceRows, Forward, Started
  <1>3. CASE \E w \in Pool : Admit(w)
    <2>1. PICK w \in Pool, i \in batch :
            worker' = [worker EXCEPT ![w] =
                  [pc |-> IF i.kind = "due" THEN "create" ELSE "claim", kind |-> i.kind,
                   key |-> i.key, version |-> i.version, gen |-> i.gen, attempt |-> 0]]
      BY <1>3 DEF Admit
    <2>2. \A v \in Workers : \/ worker'[v] = worker[v]
                             \/ worker'[v].kind # "due"
                             \/ worker'[v].pc = "create"
      BY <2>1 DEF TypeInv, WorkerInv
    <2>. QED  BY <1>2, <2>2
  <1>4. CASE \E h \in Handlers : Deliver(h)
    <2>1. \A v \in Workers : worker'[v] = worker[v] \/ worker'[v].pc = "create"
      BY <1>4 DEF Deliver, TypeInv, WorkerInv
    <2>. QED  BY <1>2, <2>1
  <1>5. CASE Crash
    BY <1>2, <1>5 DEF Crash, IdleWorker
  <1>6. CASE Wake \/ Sweep \/ Sleep \/ Boot \/ Tick \/ Recovery \/ OwnerBegins \/ OwnerEnds
             \/ UNCHANGED vars
    <2>1. worker' = worker
      BY <1>6 DEF Wake, Sweep, Sleep, Boot, Tick, Recovery, RecoverList, RecoverNext,
           RecoverResolve, RecoverDone, OwnerBegins, SetStatus, Resume, Edit, DeleteBegin, Answer,
           OwnerEnds, Discard, DeleteOccurrences, DeleteTask, vars
    <2>. QED  BY <1>2, <2>1
  <1>. QED  BY <1>1, <1>3, <1>4, <1>5, <1>6 DEF Next, Scheduler

LEMMA CadenceStep ==
  ASSUME "edit" \notin OwnerOps, "delete" \notin OwnerOps, TypeInv, CadenceInv, [Next]_vars
  PROVE  TypeInv' /\ CadenceInv'
  <1>1. TypeInv' /\ OwnerAtRest'
    BY TypeStep, OwnerStaysAtRest DEF CadenceInv
  <1>2. \A k \in Keys : Forward(k)
    BY StepIsForward DEF CadenceInv
  <1>3. \A t \in Tasks : Versioned(t)
    BY StepIsVersioned DEF CadenceInv
  <1>. QED  BY <1>1, <1>2, <1>3, ReadsStayCurrent, RowsKeepCadence DEF CadenceInv

(* The boundary of an active task is moved by its own advance alone, whose   *)
(* version says that it is the boundary of the row it started.               *)
LEMMA ConsumedWasStarted ==
  ASSUME "edit" \notin OwnerOps, "delete" \notin OwnerOps, TypeInv, CadenceInv, [Next]_vars,
         NEW t \in Timed, task[t].nextRun # 0, task'[t].nextRun # task[t].nextRun,
         task[t].status = "active", task'[t].status = "active"
  PROVE  occ[<<t, task[t].nextRun>>].status \notin {"none", "claimed"}
  <1>1. t \in Tasks /\ task \in [Tasks -> TaskType] /\ task' # task
    BY DEF Tasks, TypeInv, TaskInv
  <1>2. ASSUME NEW w \in Workers, Advance(w)
        PROVE  occ[<<t, task[t].nextRun>>].status \notin {"none", "claimed"}
    <2>. DEFINE x == worker[w].key
    <2>1. worker[w].pc = "advance" /\ worker[w].kind = "due" /\ x \in TimedKeys
      BY <1>2, WorkerParts DEF Advance, TypeInv, WorkerInv, Sound
    <2>2. x[1] = t /\ task[t].version = worker[w].version
      BY <1>1, <1>2 DEF Advance
    <2>3. x[2] = task[t].nextRun
      BY <2>1, <2>2 DEF CadenceInv, CadenceReads, Current
    <2>4. x = <<t, task[t].nextRun>>
      BY <2>1, <2>2, <2>3 DEF TimedKeys
    <2>5. Started(x)
      BY <2>1 DEF CadenceInv, CadenceRows
    <2>. QED  BY <2>4, <2>5 DEF Started
  <1>3. ASSUME NEW s \in Tasks, SetStatus(s) PROVE FALSE
    <2>1. PICK to \in {"paused", "completed"} :
            SetTask(s, [task[s] EXCEPT !.status = to, !.nextRun = 0])
      BY <1>3 DEF SetStatus
    <2>. DEFINE row == [[task[s] EXCEPT !.status = to, !.nextRun = 0] EXCEPT !.version = @ + 1]
    <2>2. task' = [task EXCEPT ![s] = row]
      BY <2>1 DEF SetTask
    <2>3. task[s] \in TaskType
      BY DEF TypeInv, TaskInv
    <2>4. row.status = to
      BY <2>3 DEF TaskType
    <2>5. to # "active"
      BY <2>1
    <2>. HIDE DEF row
    <2>. QED  BY <1>1, <2>2, <2>4, <2>5
  <1>4. ASSUME NEW s \in Tasks, Resume(s) PROVE FALSE
    <2>1. task[s].status = "paused"
      BY <1>4 DEF Resume
    <2>2. s # t
      BY <2>1
    <2>3. task'[t] = task[t]
      BY <1>1, <1>4, <2>2 DEF Resume, SetTask
    <2>. QED  BY <2>3
  <1>5. \A s \in Tasks : ~Edit(s) /\ ~DeleteBegin(s)
    BY DEF Edit, DeleteBegin, Manage
  <1>6. ~OwnerEnds /\ ~(\E k \in Keys : Answer(k))
    BY <1>1 DEF OwnerEnds, Discard, DeleteOccurrences, DeleteTask, CadenceInv, OwnerAtRest, Answer
  <1>7. ASSUME NEW w \in Workers, Work(w) PROVE Advance(w)
    BY <1>1, <1>7 DEF Work, Create, Claim, Act, Succeed, Fail, Settle, Retry, Park, Prepare
  <1>8. ~(Scheduler \/ Boot \/ Recovery \/ Crash \/ Tick \/ (\E h \in Handlers : Deliver(h))
             \/ UNCHANGED vars)
    BY <1>1 DEF Scheduler, Wake, Sweep, Sleep, Admit, Boot, Crash, Tick, Deliver, vars,
         Recovery, RecoverList, RecoverNext, RecoverResolve, RecoverDone
  <1>. QED  BY <1>2, <1>3, <1>4, <1>5, <1>6, <1>7, <1>8 DEF Next, OwnerBegins

(* While the owner only pauses, completes and resumes, no boundary of an     *)
(* active task is ever left behind unstarted, whatever crashes, failures,    *)
(* recoveries and lost swaps happen between creating its occurrence and      *)
(* advancing (_process_due_task, advance_next_run).                          *)
THEOREM NoBoundaryIsSkipped ==
  ASSUME "edit" \notin OwnerOps, "delete" \notin OwnerOps
  PROVE  Spec => BoundaryConsumedOnceStarted
  <1>. DEFINE Inv == TypeInv /\ CadenceInv
              Skips == \A t \in Timed :
                  LET b == task[t].nextRun
                  IN /\ b # 0 /\ task'[t].nextRun # b
                     /\ task[t].status = "active" /\ task'[t].status = "active"
                     /\ task'[t].gen = task[t].gen
                     => occ[<<t, b>>].status \notin {"none", "claimed"}
  <1>1. Init => Inv
    <2>1. Init => CadenceInv
      BY DEF Init, IdleWorker, IdleOwner, CadenceInv, OwnerAtRest, CadenceRows, CadenceReads
    <2>. QED  BY <2>1, InitType
  <1>2. Inv /\ [Next]_vars => Inv'
    BY CadenceStep
  <1>3. Inv /\ [Next]_vars => [Skips]_vars
    BY ConsumedWasStarted
  <1>. QED  BY <1>1, <1>2, <1>3, PTL DEF Spec, BoundaryConsumedOnceStarted


-----------------------------------------------------------------------------
(* The inductive invariant.  The life cycle counts side effects against       *)
(* attempts, but the code compares them nowhere: what bounds the effects is   *)
(* that an armed row always has an attempt that was not used yet, and that a  *)
(* coroutine and the recovery carry the attempt of the row they hold.         *)

(* A row that may still run has an unused attempt. *)
Row(k) ==
    /\ occ[k].status = "none" => occ[k].attempt = 0 /\ effects[k] = 0
    /\ occ[k].status = "claimed" => occ[k].attempt = 1 /\ effects[k] = 0
    /\ occ[k].status \in {"retry_pending", "waiting_answer", "interrupted"} =>
           effects[k] < occ[k].attempt
    /\ effects[k] <= occ[k].attempt
RowInv == \A k \in Keys : Row(k)

(* A coroutine executes the attempt of its row, unused until it acts. *)
Charged(w) ==
    /\ worker[w].attempt = occ[worker[w].key].attempt
    /\ worker[w].pc = "exec" => effects[worker[w].key] < occ[worker[w].key].attempt
ChargeInv == \A w \in Workers : Executing(w) => Charged(w)

(* While recovery runs, its snapshot and the row in hand are what the store   *)
(* holds, except for unstarted rows that an edit discards.                    *)
SnapshotInv ==
    phase = "recovering" =>
        /\ \A r \in rec.todo :
              occ[r.key].status \in IF r.status = "claimed" THEN {"claimed", "none"} ELSE {r.status}
        /\ \A r \in rec.todo : r.status = "interrupted" => occ[r.key].attempt = r.attempt
        /\ \A r, s \in rec.todo : r.key = s.key => r = s
        /\ rec.key # NoKey => /\ occ[rec.key].status = "interrupted"
                              /\ occ[rec.key].attempt = rec.attempt
                              /\ \A r \in rec.todo : r.key # rec.key
        /\ \A k \in Keys : occ[k].status = "interrupted" =>
              k = rec.key \/ \E r \in rec.todo : r.key = k
(* Recovery leaves no interrupted row to the wakes. *)
ResolvedInv == phase \in {"asleep", "retries", "sweeping"} =>
                   \A k \in Keys : occ[k].status # "interrupted"

LifeInv == RowInv /\ ChargeInv /\ SnapshotInv /\ ResolvedInv

-----------------------------------------------------------------------------
(* The steps of the life cycle, seen from the row. *)

Acted(k) == \E w \in Workers : worker[w].pc = "acted" /\ worker[w].key = k
Moves(k) == [Lifecycle(k)!Next]_(Lifecycle(k)!vars)

(* The changes of status the life cycle admits, with their attempts. *)
Turn(k) ==
    LET from == occ[k].status     to == occ'[k].status
        old == occ[k].attempt     new == occ'[k].attempt
    IN \/ from = "none" /\ to = "claimed" /\ new = 1
       \/ from = "claimed" /\ to = "none" /\ new = 0
       \/ from \in {"claimed", "retry_pending"} /\ to = "running" /\ new = old
       \/ from = "running" /\ Acted(k) /\ to = "succeeded" /\ new = old
       \/ from \in {"running", "interrupted"} /\ to = "failed" /\ new = old
       \/ from \in {"running", "interrupted"} /\ old < MaxAttempts /\ to = "retry_pending"
             /\ new = old + 1
       \/ from = "running" /\ ~Acted(k) /\ to \in {"retry_pending", "waiting_answer"} /\ new = old
       \/ from = "waiting_answer" /\ to = "retry_pending" /\ new = old
       \/ from = "claimed" /\ to = "interrupted" /\ new = old

LEMMA TurnMoves ==
  ASSUME NEW k \in Keys, effects'[k] = effects[k], Turn(k), ~Acted(k)'
  PROVE  Moves(k)
  BY DEF Turn, Moves, Acted, Lifecycle!Next, Lifecycle!Become, Lifecycle!Create,
         Lifecycle!Discard, Lifecycle!Start, Lifecycle!Succeed, Lifecycle!Fail, Lifecycle!Retry,
         Lifecycle!Park, Lifecycle!Answer, Lifecycle!Interrupt

LEMMA QuietMoves ==
  ASSUME NEW k \in Keys, occ'[k].status = occ[k].status, occ'[k].attempt = occ[k].attempt,
         effects'[k] = effects[k], Acted(k)' <=> Acted(k)
  PROVE  Moves(k)
  BY DEF Moves, Acted, Lifecycle!vars

LEMMA ActMoves ==
  ASSUME NEW k \in Keys, occ' = occ, occ[k].status = "running", ~Acted(k), Acted(k)',
         effects[k] < occ[k].attempt, effects'[k] = effects[k] + 1
  PROVE  Moves(k)
  BY DEF Moves, Acted, Lifecycle!Next, Lifecycle!Act

LEMMA ForgetMoves ==
  ASSUME NEW k \in Keys, occ' = occ, effects' = effects, Acted(k), ~Acted(k)'
  PROVE  Moves(k)
  BY DEF Moves, Acted, Lifecycle!Next, Lifecycle!Forget

(* A run is parked with its attempt unused, so what the life cycle's steps do *)
(* to a row keeps an attempt for every row that may still run.                *)
Parked(k) == occ[k].status = "running" /\ occ'[k].attempt = occ[k].attempt
                /\ occ'[k].status \in {"retry_pending", "waiting_answer"}
             => effects[k] < occ[k].attempt

LEMMA TurnKeepsRow ==
  ASSUME TypeInv, NEW k \in Keys, Row(k), Turn(k), Parked(k), effects'[k] = effects[k]
  PROVE  Row(k)'
  <1>1. occ[k].attempt \in Nat /\ effects[k] \in Nat
    BY AttemptsAssumption DEF TypeInv, OccInv, OccType, HistInv
  <1>. QED  BY <1>1 DEF Row, Turn, Parked

LEMMA QuietKeepsRow ==
  ASSUME NEW k \in Keys, Row(k), occ'[k].status = occ[k].status,
         occ'[k].attempt = occ[k].attempt, effects'[k] = effects[k]
  PROVE  Row(k)'
  BY DEF Row

(* Only a running row is being acted on. *)
LEMMA OnlyRunningActs ==
  ASSUME RunInv, NEW k \in Keys, occ[k].status # "running"
  PROVE  ~Acted(k)
  BY DEF RunInv, ExecutingIsRunning, Executing, Acted

-----------------------------------------------------------------------------
(* One execution. *)

LEMMA WorkingAtWakes ==
  ASSUME TypeInv, RunInv, LifeInv, NEW w \in Workers, Work(w)
  PROVE  /\ worker[w].pc # "idle" /\ worker[w].key \in Keys
         /\ phase \in {"asleep", "retries", "sweeping"} /\ phase' = phase
         /\ \A k \in Keys : occ[k].status # "interrupted"
  <1>1. worker[w].pc # "idle" /\ phase' = phase
    BY DEF Work, Create, Claim, Act, Succeed, Fail, Settle, Retry, Park, Advance, Prepare,
           schedVars
  <1>2. phase \in {"asleep", "retries", "sweeping"}
    BY <1>1 DEF RunInv, RecoveryIsAlone, TypeInv, ClockInv, Phases
  <1>. QED  BY <1>1, <1>2 DEF LifeInv, ResolvedInv, TypeInv, WorkerInv, Sound

LEMMA ActedElsewhere ==
  ASSUME TypeInv, NEW w \in Workers, Work(w), NEW k \in Keys,
         \/ k # worker[w].key
         \/ worker[w].pc # "acted" /\ worker'[w].pc # "acted"
  PROVE  Acted(k)' <=> Acted(k)
  <1>1. \A v \in Workers : v # w => worker'[v] = worker[v]
    BY OthersStay
  <1>2. worker'[w].pc = "acted" => worker'[w].key = worker[w].key
    BY WorkKeepsKeys
  <1>. QED  BY <1>1, <1>2 DEF Acted

(* A coroutine that leaves its execution leaves nobody acting on the row. *)
LEMMA LeavesNobody ==
  ASSUME TypeInv, RunInv, NEW w \in Workers, Work(w), Executing(w), ~Executing(w)',
         NEW k \in Keys, k = worker[w].key
  PROVE  ~Acted(k)'
  <1>. SUFFICES ASSUME NEW v \in Workers, worker'[v].pc = "acted", worker'[v].key = k
                PROVE  FALSE
    BY DEF Acted
  <1>1. v # w
    BY DEF Executing
  <1>2. worker'[v] = worker[v]
    BY <1>1, OthersStay
  <1>. QED  BY <1>1, <1>2 DEF RunInv, ExclusiveExecution, Executing

LEMMA ActedIsOwn ==
  ASSUME RunInv, NEW w \in Workers, Executing(w)
  PROVE  Acted(worker[w].key) <=> worker[w].pc = "acted"
  BY DEF RunInv, ExclusiveExecution, Executing, Acted

(* What one step of a coroutine does to each row: nothing, its side effect,  *)
(* or a change of status the life cycle admits.                              *)
LEMMA WorkTurns ==
  ASSUME TypeInv, RunInv, LifeInv, NEW w \in Workers, Work(w), NEW k \in Keys
  PROVE  \/ /\ occ'[k].status = occ[k].status /\ occ'[k].attempt = occ[k].attempt
            /\ effects'[k] = effects[k] /\ (Acted(k)' <=> Acted(k))
         \/ Turn(k) /\ Parked(k) /\ effects'[k] = effects[k] /\ ~Acted(k)'
         \/ Act(w) /\ k = worker[w].key
  <1>. DEFINE Quietly == /\ occ'[k].status = occ[k].status /\ occ'[k].attempt = occ[k].attempt
                         /\ effects'[k] = effects[k] /\ (Acted(k)' <=> Acted(k))
              Turned == Turn(k) /\ Parked(k) /\ effects'[k] = effects[k] /\ ~Acted(k)'
              own == worker[w].key
  <1>1. own \in Keys /\ occ \in [Keys -> OccType] /\ occ[k] \in OccType /\ occ[own] \in OccType
        /\ effects \in [Keys -> Nat] /\ occ[k].status # "interrupted"
    BY WorkingAtWakes DEF TypeInv, OccInv, HistInv
  <1>2. CASE Create(w) \/ Prepare(w)
    <2>1. worker[w].pc \in {"create", "prepare"} /\ effects' = effects
      BY <1>2 DEF Create, Prepare, history
    <2>2. worker'[w].pc # "acted"
      BY <1>2, <2>1, WhoExecutes DEF Act, Claim, Executing
    <2>3. Acted(k)' <=> Acted(k)
      BY <2>1, <2>2, ActedElsewhere
    <2>4. \/ occ' = occ
          \/ \E x \in Keys : occ[x].status = "none" /\ Write(x, NewOcc(worker[w].gen))
      <3>1. CASE Create(w)
        BY <1>1, <3>1 DEF Create
      <3>2. CASE Prepare(w)
        <4>1. CASE occ' = occ
          BY <4>1
        <4>2. CASE occ' # occ
          <5>. DEFINE x == <<worker[w].key[1], Following>>
          <5>1. occ[x].status = "none" /\ Write(x, NewOcc(worker[w].gen))
            BY <3>2, <4>2 DEF Prepare
          <5>2. x \in Keys
            <6>1. worker[w].pc = "prepare" /\ worker[w].key \in TimedKeys
              BY <3>2, WorkerParts DEF Prepare, TypeInv
            <6>2. worker[w].key[1] \in Timed /\ Following \in Boundaries
              BY <6>1, TimedKeyParts, BoundAssumption DEF Following, Boundaries, TypeInv, ClockInv
            <6>. QED  BY <6>2 DEF Keys, TimedKeys
          <5>. QED  BY <5>1, <5>2
        <4>. QED  BY <4>1, <4>2
      <3>. QED  BY <1>2, <3>1, <3>2
    <2>5. CASE occ'[k] = occ[k]
      BY <2>1, <2>3, <2>5
    <2>6. CASE occ'[k] # occ[k]
      <3>1. occ[k].status = "none" /\ occ'[k] = NewOcc(worker[w].gen)
        BY <1>1, <2>4, <2>6 DEF Write
      <3>2. Turn(k) /\ Parked(k)
        BY <3>1 DEF Turn, Parked, NewOcc
      <3>3. ~Acted(k)'
        BY <2>3, <3>1, OnlyRunningActs
      <3>. QED  BY <2>1, <3>2, <3>3
    <2>. QED  BY <2>5, <2>6
  <1>3. CASE Claim(w)
    <2>1. effects' = effects /\ worker[w].pc = "claim"
      BY <1>3 DEF Claim, history
    <2>2. worker'[w].pc # "acted"
      <3>1. CASE occ[own].status \in Claimable
        BY <1>3, <3>1 DEF Claim, TypeInv, WorkerInv, WorkerType
      <3>2. CASE occ[own].status \notin Claimable
        BY <1>3, <3>2, WhoExecutes DEF Claim, Act, Executing
      <3>. QED  BY <3>1, <3>2
    <2>3. Acted(k)' <=> Acted(k)
      BY <2>1, <2>2, ActedElsewhere
    <2>4. CASE occ'[k] = occ[k]
      BY <2>1, <2>3, <2>4
    <2>5. CASE occ'[k] # occ[k]
      <3>1. /\ k = own /\ occ[k].status \in {"claimed", "retry_pending"}
            /\ occ'[k] = [occ[k] EXCEPT !.status = "running"]
        BY <1>1, <1>3, <2>5 DEF Claim, Claimable, Mark, Write
      <3>2. Turn(k) /\ Parked(k)
        BY <1>1, <3>1 DEF Turn, Parked, OccType
      <3>3. ~Acted(k)'
        BY <2>3, <3>1, OnlyRunningActs
      <3>. QED  BY <2>1, <3>2, <3>3
    <2>. QED  BY <2>4, <2>5
  <1>4. CASE Act(w)
    <2>1. CASE k # own
      <3>1. Acted(k)' <=> Acted(k)
        BY <2>1, ActedElsewhere
      <3>. QED  BY <1>1, <1>4, <2>1, <3>1 DEF Act
    <2>. QED  BY <1>4, <2>1
  <1>5. CASE Succeed(w) \/ Fail(w) \/ Retry(w) \/ Park(w)
    <2>1. Executing(w) /\ effects' = effects
      BY <1>5 DEF Succeed, Fail, Settle, Retry, Park, Executing, history
    <2>2. ~Executing(w)'
      <3>1. ASSUME NEW pc, Step(w, pc) PROVE worker'[w].pc = pc
        BY <3>1 DEF Step, IdleWorker, TypeInv, WorkerInv, WorkerType
      <3>2. \E pc \in {"idle", "advance"} : Step(w, pc)
        BY <1>5 DEF Succeed, Fail, Settle, Leave, Retry, Park, Then
      <3>. QED  BY <3>1, <3>2 DEF Executing
    <2>3. occ[own].status = "running"
      BY <2>1 DEF RunInv, ExecutingIsRunning
    <2>4. \A s \in {"succeeded", "failed", "retry_pending", "waiting_answer"} : CanMove(own, s)
      <3>1. Successors("running") = {"running", "succeeded", "failed", "retry_pending",
                                     "interrupted", "waiting_answer"}
        BY DEF Successors, Terminal
      <3>. QED  BY <2>3, <3>1 DEF CanMove
    <2>5. CASE k # own
      <3>1. occ'[k] = occ[k]
        BY <1>1, <1>5, <2>5 DEF Succeed, Fail, Settle, Retry, Park, Rearm, Mark, Write
      <3>2. Acted(k)' <=> Acted(k)
        BY <2>5, ActedElsewhere
      <3>. QED  BY <2>1, <3>1, <3>2
    <2>6. CASE k = own
      <3>1. ~Acted(k)'
        BY <2>1, <2>2, <2>6, LeavesNobody
      <3>2. Acted(k) <=> worker[w].pc = "acted"
        BY <2>1, <2>6, ActedIsOwn
      <3>3. Charged(w)
        BY <2>1 DEF LifeInv, ChargeInv
      <3>4. CASE Succeed(w)
        <4>1. occ'[k] = [occ[k] EXCEPT !.status = "succeeded"] /\ worker[w].pc = "acted"
          BY <1>1, <2>4, <2>6, <3>4 DEF Succeed, Settle, Mark, Write
        <4>. QED  BY <1>1, <2>1, <2>3, <2>6, <3>1, <3>2, <4>1 DEF Turn, Parked, OccType
      <3>5. CASE Fail(w)
        <4>1. occ'[k] = [occ[k] EXCEPT !.status = "failed"]
          BY <1>1, <2>4, <2>6, <3>5 DEF Fail, Settle, Mark, Write
        <4>. QED  BY <1>1, <2>1, <2>3, <2>6, <3>1, <4>1 DEF Turn, Parked, OccType
      <3>6. CASE Retry(w)
        <4>1. PICK at : occ'[k] = [occ[k] EXCEPT !.status = "retry_pending",
                                     !.attempt = worker[w].attempt + 1, !.retryAt = at]
          BY <1>1, <2>4, <2>6, <3>6 DEF Retry, Rearm, Write
        <4>2. occ'[k].status = "retry_pending" /\ occ'[k].attempt = occ[k].attempt + 1
          BY <1>1, <2>6, <3>3, <4>1 DEF Charged, OccType
        <4>3. occ[k].attempt < MaxAttempts /\ occ[k].attempt \in Nat
          BY <1>1, <2>6, <3>3, <3>6, AttemptsAssumption DEF Retry, CanRetry, Charged, OccType
        <4>. QED  BY <2>1, <2>3, <2>6, <3>1, <4>2, <4>3 DEF Turn, Parked
      <3>7. CASE Park(w)
        <4>1. PICK s \in {"retry_pending", "waiting_answer"}, at \in Soon :
                 occ'[k] = [occ[k] EXCEPT !.status = s, !.parks = @ + 1,
                              !.retryAt = IF s = "retry_pending" THEN at ELSE @]
          BY <1>1, <2>4, <2>6, <3>7 DEF Park, Write
        <4>2. occ'[k].status = s /\ occ'[k].attempt = occ[k].attempt
          BY <1>1, <4>1 DEF OccType
        <4>3. worker[w].pc = "exec" /\ effects[k] < occ[k].attempt
          BY <2>6, <3>3, <3>7 DEF Park, Charged
        <4>. QED  BY <2>1, <2>3, <2>6, <3>1, <3>2, <4>2, <4>3 DEF Turn, Parked
      <3>. QED  BY <1>5, <3>4, <3>5, <3>6, <3>7
    <2>. QED  BY <2>5, <2>6
  <1>6. CASE Advance(w)
    <2>1. occ' = occ /\ effects' = effects /\ worker[w].pc = "advance"
      BY <1>6 DEF Advance, history
    <2>2. worker'[w].pc # "acted"
      BY <2>1, WhoExecutes DEF Act, Claim, Executing
    <2>3. Acted(k)' <=> Acted(k)
      BY <2>1, <2>2, ActedElsewhere
    <2>. QED  BY <2>1, <2>3
  <1>. QED  BY <1>2, <1>3, <1>4, <1>5, <1>6 DEF Work

LEMMA WorkMoves ==
  ASSUME TypeInv, RunInv, LifeInv, NEW w \in Workers, Work(w), NEW k \in Keys
  PROVE  Moves(k) /\ Row(k)'
  <1>1. Row(k)
    BY DEF LifeInv, RowInv
  <1>2. CASE Act(w) /\ k = worker[w].key
    <2>1. worker[w].pc = "exec" /\ Executing(w) /\ occ' = occ
      BY <1>2 DEF Act, Executing
    <2>2. occ[k].status = "running" /\ effects[k] < occ[k].attempt /\ ~Acted(k)
      BY <1>2, <2>1, ActedIsOwn DEF RunInv, ExecutingIsRunning, LifeInv, ChargeInv, Charged
    <2>3. effects'[k] = effects[k] + 1
      BY <1>2 DEF Act, TypeInv, HistInv
    <2>4. worker'[w].pc = "acted" /\ worker'[w].key = k
      BY <1>2 DEF Act, Step, TypeInv, WorkerInv, WorkerType
    <2>5. Acted(k)'
      BY <2>4 DEF Acted
    <2>6. occ[k].attempt \in Nat /\ effects[k] \in Nat
      BY AttemptsAssumption DEF TypeInv, OccInv, OccType, HistInv
    <2>. QED  BY <1>1, <2>1, <2>2, <2>3, <2>5, <2>6, ActMoves DEF Row
  <1>3. CASE ~(Act(w) /\ k = worker[w].key)
    BY <1>1, <1>3, WorkTurns, TurnMoves, QuietMoves, TurnKeepsRow, QuietKeepsRow
  <1>. QED  BY <1>2, <1>3

(* The row of another live run is left alone. *)
LEMMA OtherRunsKept ==
  ASSUME TypeInv, RunInv, LifeInv, NEW w \in Workers, Work(w), NEW v \in Workers, v # w,
         Executing(v)
  PROVE  /\ occ'[worker[v].key].attempt = occ[worker[v].key].attempt
         /\ effects'[worker[v].key] = effects[worker[v].key]
  <1>. DEFINE k == worker[v].key
  <1>1. k \in Keys /\ occ[k].status = "running"
    BY DEF RunInv, ExecutingIsRunning, Executing, TypeInv, WorkerInv, Sound
  <1>2. worker'[v] = worker[v]
    BY OthersStay
  <1>3. occ'[k].status = "running"
    BY <1>2, WorkKeepsRuns DEF RunInv, ExecutingIsRunning, Executing
  <1>4. ~(Act(w) /\ k = worker[w].key)
    BY DEF Act, RunInv, ExclusiveExecution, Executing
  <1>5. ~Turn(k)
    BY <1>1, <1>3 DEF Turn
  <1>. QED  BY <1>1, <1>4, <1>5, WorkTurns

LEMMA WorkKeepsLife ==
  ASSUME TypeInv, RunInv, LifeInv, NEW w \in Workers, Work(w)
  PROVE  LifeInv'
  <1>1. RowInv'
    BY WorkMoves DEF RowInv
  <1>2. phase \in {"asleep", "retries", "sweeping"} /\ phase' = phase
    BY WorkingAtWakes
  <1>3. SnapshotInv'
    BY <1>2 DEF SnapshotInv
  <1>4. ResolvedInv'
    <2>. SUFFICES ASSUME NEW k \in Keys, occ'[k].status = "interrupted" PROVE FALSE
      BY DEF ResolvedInv
    <2>1. occ[k].status # "interrupted"
      BY WorkingAtWakes
    <2>2. occ' = occ \/ ~Act(w)
      BY DEF Act
    <2>3. Turn(k)
      BY <2>1, <2>2, WorkTurns
    <2>4. occ[k].status = "claimed"
      BY <2>3 DEF Turn
    <2>. DEFINE own == worker[w].key
    <2>5. own \in Keys /\ occ \in [Keys -> OccType]
      BY WorkingAtWakes DEF TypeInv, OccInv
    <2>6. CASE Create(w) \/ Prepare(w)
      BY <2>4, <2>5, <2>6 DEF Create, Prepare, Write
    <2>7. CASE Claim(w)
      BY <2>4, <2>5, <2>7 DEF Claim, Mark, Write, OccType
    <2>8. CASE Act(w) \/ Advance(w)
      BY <2>1, <2>8 DEF Act, Advance
    <2>9. CASE Succeed(w) \/ Fail(w) \/ Retry(w) \/ Park(w)
      <3>1. occ[own].status = "running"
        BY <2>9 DEF Succeed, Fail, Retry, Park, Executing, RunInv, ExecutingIsRunning
      <3>. QED  BY <2>1, <2>4, <2>5, <2>9, <3>1
                DEF Succeed, Fail, Settle, Retry, Park, Rearm, Mark, Write
    <2>. QED  BY <2>6, <2>7, <2>8, <2>9 DEF Work
  <1>5. ChargeInv'
    <2>. SUFFICES ASSUME NEW v \in Workers, Executing(v)' PROVE Charged(v)'
      BY DEF ChargeInv
    <2>1. CASE v # w
      <3>1. worker'[v] = worker[v] /\ Executing(v)
        BY <2>1, OthersStay DEF Executing
      <3>. QED  BY <2>1, <3>1, OtherRunsKept DEF LifeInv, ChargeInv, Charged
    <2>2. CASE v = w /\ Act(w)
      <3>1. worker'[w].key = worker[w].key /\ worker'[w].attempt = worker[w].attempt
            /\ worker'[w].pc = "acted" /\ occ' = occ /\ Executing(w)
        BY <2>2 DEF Act, Step, Executing, TypeInv, WorkerInv, WorkerType
      <3>. QED  BY <2>2, <3>1 DEF LifeInv, ChargeInv, Charged
    <2>3. CASE v = w /\ Claim(w) /\ occ[worker[w].key].status \in Claimable
      <3>. DEFINE k == worker[w].key
      <3>1. k \in Keys /\ worker[w] \in WorkerType /\ occ[k] \in OccType
            /\ occ[k].status \in {"claimed", "retry_pending"}
        BY <2>3, WorkingAtWakes DEF Claimable, TypeInv, WorkerInv, OccInv
      <3>2. worker'[w] = [worker[w] EXCEPT !.pc = "exec", !.attempt = occ[k].attempt]
        BY <2>3 DEF Claim, TypeInv, WorkerInv
      <3>3. worker'[w].key = k /\ worker'[w].attempt = occ[k].attempt
        BY <3>1, <3>2 DEF WorkerType
      <3>4. occ'[k].attempt = occ[k].attempt /\ effects' = effects
        BY <2>3, <3>1 DEF Claim, Mark, Write, OccType, TypeInv, OccInv, history
      <3>5. effects[k] < occ[k].attempt
        BY <3>1 DEF LifeInv, RowInv, Row
      <3>. QED  BY <2>3, <3>3, <3>4, <3>5 DEF Charged
    <2>. QED  BY <2>1, <2>2, <2>3, WhoExecutes
  <1>. QED  BY <1>1, <1>3, <1>4, <1>5 DEF LifeInv

-----------------------------------------------------------------------------
(* The owner: an edit discards rows that were not started, an answer re-arms *)
(* a parked one; neither touches a running or an interrupted row.            *)

LEMMA OwnerTurns ==
  ASSUME TypeInv, NoDeletion, OwnerBegins \/ OwnerEnds, NEW k \in Keys
  PROVE  \/ occ'[k] = occ[k]
         \/ /\ occ[k].status = "claimed" /\ occ'[k] = NoOcc
         \/ /\ occ[k].status = "waiting_answer" /\ occ'[k].status = "retry_pending"
            /\ occ'[k].attempt = occ[k].attempt
  <1>1. CASE \E t \in Tasks : SetStatus(t) \/ Resume(t) \/ Edit(t) \/ DeleteBegin(t)
    BY <1>1 DEF SetStatus, Resume, Edit, DeleteBegin
  <1>2. CASE \E x \in Keys : Answer(x)
    <2>1. PICK x \in Keys : Answer(x)
      BY <1>2
    <2>2. CASE occ' = occ
      BY <2>2
    <2>3. CASE occ' = [occ EXCEPT ![x] = [occ[x] EXCEPT !.status = "retry_pending", !.retryAt = now]]
      BY <2>1, <2>3 DEF Answer, TypeInv, OccInv, OccType
    <2>. QED  BY <2>1, <2>2, <2>3 DEF Answer, Write
  <1>3. CASE Discard
    BY <1>3 DEF Discard
  <1>4. CASE DeleteTask
    BY <1>4 DEF DeleteTask
  <1>5. ~DeleteOccurrences
    BY DEF DeleteOccurrences, NoDeletion
  <1>. QED  BY <1>1, <1>2, <1>3, <1>4, <1>5 DEF OwnerBegins, OwnerEnds

LEMMA OwnerMoves ==
  ASSUME TypeInv, RunInv, LifeInv, NoDeletion, OwnerBegins \/ OwnerEnds
  PROVE  LifeInv' /\ \A k \in Keys : Moves(k)
  <1>1. UNCHANGED <<worker, phase, rec, effects>>
    BY DEF OwnerBegins, OwnerEnds, SetStatus, Resume, Edit, DeleteBegin, Answer, Discard,
           DeleteOccurrences, DeleteTask, schedVars, history
  <1>2. \A k \in Keys : Acted(k)' <=> Acted(k)
    BY <1>1 DEF Acted
  <1>3. ASSUME NEW k \in Keys PROVE Moves(k) /\ Row(k)'
    <2>1. Row(k)
      BY DEF LifeInv, RowInv
    <2>2. CASE occ'[k] = occ[k]
      BY <1>1, <1>2, <2>1, <2>2, QuietMoves, QuietKeepsRow
    <2>3. CASE occ'[k] # occ[k]
      <3>1. occ[k].status \in {"claimed", "waiting_answer"} /\ Turn(k) /\ Parked(k)
        BY <2>3, OwnerTurns DEF Turn, Parked, NoOcc
      <3>2. ~Acted(k)'
        BY <1>2, <3>1, OnlyRunningActs
      <3>. QED  BY <1>1, <2>1, <3>1, <3>2, TurnMoves, TurnKeepsRow
    <2>. QED  BY <2>2, <2>3
  <1>4. \A k \in Keys : occ[k].status \in {"running", "interrupted"} => occ'[k] = occ[k]
    BY OwnerTurns
  <1>5. \A k \in Keys : occ'[k].status = "interrupted" => occ[k].status = "interrupted"
    BY OwnerTurns DEF NoOcc
  <1>6. \A k \in Keys : occ[k].status \in {"claimed", "none"} => occ'[k].status \in {"claimed", "none"}
    BY OwnerTurns DEF NoOcc
  <1>7. \A w \in Workers : Executing(w) => worker[w].key \in Keys
                                            /\ occ[worker[w].key].status = "running"
    BY DEF RunInv, ExecutingIsRunning, Executing, TypeInv, WorkerInv, Sound
  <1>8. ChargeInv'
    BY <1>1, <1>4, <1>7 DEF LifeInv, ChargeInv, Charged, Executing
  <1>9. SnapshotInv'
    <2>. SUFFICES ASSUME phase = "recovering" PROVE SnapshotInv'
      BY <1>1 DEF SnapshotInv
    <2>1. \A r \in rec.todo : r.key \in Keys /\ r.status \in Recoverable
      BY DEF TypeInv, RecInv, Unresolved
    <2>2. rec.key # NoKey => rec.key \in Keys
      BY DEF TypeInv, RecInv
    <2>3. \A r \in rec.todo : r.status \in {"running", "interrupted"} => occ'[r.key] = occ[r.key]
      BY <1>4, <2>1 DEF LifeInv, SnapshotInv
    <2>4. ASSUME NEW r \in rec.todo
          PROVE  /\ occ'[r.key].status \in IF r.status = "claimed" THEN {"claimed", "none"}
                                                                 ELSE {r.status}
                 /\ r.status = "interrupted" => occ'[r.key].attempt = r.attempt
      <3>1. CASE r.status = "claimed"
        BY <1>6, <2>1, <3>1 DEF LifeInv, SnapshotInv
      <3>2. CASE r.status # "claimed"
        BY <2>1, <2>3, <3>2 DEF LifeInv, SnapshotInv, Recoverable
      <3>. QED  BY <3>1, <3>2
    <2>5. rec.key # NoKey => occ'[rec.key].status = "interrupted"
                             /\ occ'[rec.key].attempt = rec.attempt
      BY <1>4, <2>2 DEF LifeInv, SnapshotInv
    <2>6. \A k \in Keys : occ'[k].status = "interrupted" =>
             k = rec.key \/ \E r \in rec.todo : r.key = k
      BY <1>5 DEF LifeInv, SnapshotInv
    <2>. QED  BY <1>1, <2>4, <2>5, <2>6 DEF LifeInv, SnapshotInv
  <1>10. ResolvedInv'
    BY <1>1, <1>5 DEF LifeInv, ResolvedInv
  <1>. QED  BY <1>3, <1>8, <1>9, <1>10 DEF LifeInv, RowInv

-----------------------------------------------------------------------------
(* Recovery: no run is live, and the snapshot says what each row is. *)

LEMMA NoKeyIsNoKey == NoKey \notin Keys
  BY DEF NoKey, Keys, TimedKeys, EventKeys

LEMMA RecoveryIsQuiet ==
  ASSUME RunInv, Recovery
  PROVE  /\ worker' = worker /\ effects' = effects
         /\ \A w \in Workers : worker[w].pc = "idle"
         /\ \A k \in Keys : ~Acted(k) /\ ~Acted(k)'
         /\ ChargeInv'
  <1>1. worker' = worker /\ effects' = effects /\ phase \in {"starting", "recovering"}
    BY DEF Recovery, RecoverList, RecoverNext, RecoverResolve, RecoverDone, history
  <1>2. \A w \in Workers : worker[w].pc = "idle"
    BY <1>1 DEF RunInv, RecoveryIsAlone
  <1>. QED  BY <1>1, <1>2 DEF Acted, ChargeInv, Executing

(* A turn of one row is a step of every row's life cycle. *)
LEMMA OneTurns ==
  ASSUME TypeInv, RunInv, LifeInv, Recovery,
         occ' = occ \/ \E x \in Keys : /\ Turn(x) /\ Parked(x)
                                       /\ \A k \in Keys : k # x => occ'[k] = occ[k]
  PROVE  RowInv' /\ \A k \in Keys : Moves(k)
  <1>. SUFFICES ASSUME NEW k \in Keys PROVE Row(k)' /\ Moves(k)
    BY DEF RowInv
  <1>1. Row(k) /\ ~Acted(k) /\ ~Acted(k)' /\ effects'[k] = effects[k]
    BY RecoveryIsQuiet DEF LifeInv, RowInv
  <1>2. CASE occ'[k] = occ[k]
    BY <1>1, <1>2, QuietMoves, QuietKeepsRow
  <1>3. CASE Turn(k) /\ Parked(k)
    BY <1>1, <1>3, TurnMoves, TurnKeepsRow
  <1>. QED  BY <1>2, <1>3

LEMMA RecoverNextMoves ==
  ASSUME TypeInv, RunInv, LifeInv, RecoverNext
  PROVE  LifeInv' /\ \A k \in Keys : Moves(k)
  <1>1. Recovery /\ phase = "recovering" /\ phase' = phase /\ rec.key = NoKey
    BY DEF RecoverNext, Recovery, schedVars
  <1>2. PICK r \in rec.todo :
          LET k == r.key
              left == [rec EXCEPT !.todo = @ \ {r}]
          IN \/ r.status = "claimed" /\ rec' = left /\ UNCHANGED occ /\ Future(k)
             \/ r.status = "running" /\ rec' = left /\ AbandonRun(k)
             \/ /\ r.status = "claimed" /\ ~Future(k)
                /\ IF CanMove(k, "interrupted")
                   THEN /\ Mark(k, "interrupted")
                        /\ rec' = [left EXCEPT !.key = k, !.attempt = occ[k].attempt]
                   ELSE UNCHANGED occ /\ rec' = left
             \/ /\ r.status = "interrupted"
                /\ rec' = [left EXCEPT !.key = k, !.attempt = r.attempt]
                /\ UNCHANGED occ
    BY DEF RecoverNext
  <1>. DEFINE x == r.key
  <1>3. x \in Keys /\ r.status \in Recoverable /\ occ \in [Keys -> OccType] /\ occ[x] \in OccType
        /\ \A s \in rec.todo : s.key \in Keys /\ s.status \in Recoverable
    BY DEF TypeInv, RecInv, Unresolved, OccInv
  <1>4. /\ occ[x].status \in IF r.status = "claimed" THEN {"claimed", "none"} ELSE {r.status}
        /\ r.status = "interrupted" => occ[x].attempt = r.attempt
        /\ \A s \in rec.todo : s.key = x => s = r
    BY <1>1 DEF LifeInv, SnapshotInv
  <1>5. rec'.todo = rec.todo \ {r} /\ rec'.key \in {NoKey, x}
    BY <1>1, <1>2 DEF TypeInv, RecInv
  <1>6. \/ occ' = occ /\ r.status = "claimed" /\ rec'.key = NoKey
        \/ /\ r.status = "running" /\ occ[x].status = "running" /\ rec'.key = NoKey
           /\ occ' = [occ EXCEPT ![x] = [occ[x] EXCEPT !.status = "failed"]]
        \/ /\ r.status = "claimed" /\ occ[x].status = "claimed"
           /\ rec'.key = x /\ rec'.attempt = occ[x].attempt
           /\ occ' = [occ EXCEPT ![x] = [occ[x] EXCEPT !.status = "interrupted"]]
        \/ /\ occ' = occ /\ r.status = "interrupted"
           /\ rec'.key = x /\ rec'.attempt = r.attempt
    <2>1. Successors("running") = {"running", "succeeded", "failed", "retry_pending",
                                   "interrupted", "waiting_answer"}
          /\ Successors("none") = {}
      BY DEF Successors, Terminal
    <2>2. CASE r.status = "running"
      BY <1>1, <1>2, <1>4, <2>1, <2>2 DEF AbandonRun, CanMove, Mark, Write, TypeInv, RecInv
    <2>3. CASE r.status = "claimed"
      BY <1>1, <1>2, <1>4, <2>1, <2>3 DEF CanMove, Mark, Write, TypeInv, RecInv
    <2>4. CASE r.status = "interrupted"
      BY <1>1, <1>2, <2>4 DEF TypeInv, RecInv
    <2>. QED  BY <1>3, <2>2, <2>3, <2>4 DEF Recoverable
  <1>7. \A k \in Keys : k # x => occ'[k] = occ[k]
    BY <1>3, <1>6
  <1>8. occ' = occ \/ (Turn(x) /\ Parked(x))
    BY <1>3, <1>6 DEF Turn, Parked, OccType
  <1>9. RowInv' /\ (\A k \in Keys : Moves(k)) /\ ChargeInv'
    BY <1>1, <1>3, <1>7, <1>8, OneTurns, RecoveryIsQuiet
  <1>10. SnapshotInv'
    <2>1. \A s \in rec'.todo : s \in rec.todo /\ s.key \in Keys /\ s.key # x
                               /\ occ'[s.key] = occ[s.key]
      BY <1>3, <1>4, <1>5, <1>7
    <2>2. rec'.key # NoKey => /\ rec'.key = x /\ occ'[x].status = "interrupted"
                              /\ occ'[x].attempt = rec'.attempt
      BY <1>3, <1>4, <1>6 DEF OccType
    <2>3. \A k \in Keys : occ'[k].status = "interrupted" =>
             k = rec'.key \/ \E s \in rec'.todo : s.key = k
      <3>. SUFFICES ASSUME NEW k \in Keys, occ'[k].status = "interrupted"
                    PROVE  k = rec'.key \/ \E s \in rec'.todo : s.key = k
        OBVIOUS
      <3>1. CASE k = x
        BY <1>3, <1>4, <1>6, <3>1 DEF OccType
      <3>2. CASE k # x
        <4>1. occ[k].status = "interrupted"
          BY <1>7, <3>2
        <4>2. PICK s \in rec.todo : s.key = k
          BY <1>1, <4>1, NoKeyIsNoKey DEF LifeInv, SnapshotInv
        <4>. QED  BY <1>5, <3>2, <4>2
      <3>. QED  BY <3>1, <3>2
    <2>4. \A s \in rec'.todo :
             /\ occ'[s.key].status \in IF s.status = "claimed" THEN {"claimed", "none"}
                                                            ELSE {s.status}
             /\ s.status = "interrupted" => occ'[s.key].attempt = s.attempt
             /\ \A t \in rec'.todo : s.key = t.key => s = t
      BY <1>1, <2>1 DEF LifeInv, SnapshotInv
    <2>. QED  BY <2>1, <2>2, <2>3, <2>4 DEF SnapshotInv
  <1>11. ResolvedInv'
    BY <1>1 DEF ResolvedInv
  <1>. QED  BY <1>9, <1>10, <1>11 DEF LifeInv

LEMMA RecoverResolveMoves ==
  ASSUME TypeInv, RunInv, LifeInv, RecoverResolve
  PROVE  LifeInv' /\ \A k \in Keys : Moves(k)
  <1>. DEFINE x == rec.key
  <1>1. Recovery /\ phase = "recovering" /\ phase' = phase /\ x # NoKey
    BY DEF RecoverResolve, Recovery, schedVars
  <1>2. x \in Keys /\ occ \in [Keys -> OccType] /\ occ[x] \in OccType
        /\ \A s \in rec.todo : s.key \in Keys
    BY <1>1 DEF TypeInv, RecInv, Unresolved, OccInv
  <1>3. /\ occ[x].status = "interrupted" /\ occ[x].attempt = rec.attempt
        /\ \A s \in rec.todo : s.key # x
    BY <1>1 DEF LifeInv, SnapshotInv
  <1>4. rec'.todo = rec.todo /\ rec'.key = NoKey
    BY DEF RecoverResolve, TypeInv, RecInv
  <1>5. Successors("interrupted") = {"interrupted", "retry_pending", "failed"}
    BY DEF Successors, Terminal
  <1>6. /\ occ'[x].status # "interrupted" /\ Turn(x) /\ Parked(x)
        /\ \A k \in Keys : k # x => occ'[k] = occ[k]
    <2>1. CASE CanRetry(rec.attempt)
      <3>1. PICK at \in Soon : Write(x, [occ[x] EXCEPT !.status = "retry_pending",
                                            !.attempt = rec.attempt + 1, !.retryAt = at])
        BY <1>3, <1>5, <2>1 DEF RecoverResolve, CanMove, Rearm
      <3>2. /\ occ'[x].status = "retry_pending" /\ occ'[x].attempt = occ[x].attempt + 1
            /\ \A k \in Keys : k # x => occ'[k] = occ[k]
        BY <1>2, <1>3, <3>1 DEF Write, OccType
      <3>3. occ[x].attempt < MaxAttempts
        BY <1>3, <2>1 DEF CanRetry
      <3>. QED  BY <1>3, <3>2, <3>3 DEF Turn, Parked
    <2>2. CASE ~CanRetry(rec.attempt)
      <3>1. Mark(x, "failed")
        BY <1>3, <1>5, <2>2 DEF RecoverResolve, CanMove
      <3>2. /\ occ'[x].status = "failed" /\ occ'[x].attempt = occ[x].attempt
            /\ \A k \in Keys : k # x => occ'[k] = occ[k]
        BY <1>2, <3>1 DEF Mark, Write, OccType
      <3>. QED  BY <1>3, <3>2 DEF Turn, Parked
    <2>. QED  BY <2>1, <2>2
  <1>7. RowInv' /\ (\A k \in Keys : Moves(k)) /\ ChargeInv'
    BY <1>1, <1>2, <1>6, OneTurns, RecoveryIsQuiet
  <1>8. SnapshotInv'
    <2>1. \A s \in rec.todo : occ'[s.key] = occ[s.key]
      BY <1>2, <1>3, <1>6
    <2>2. \A k \in Keys : occ'[k].status = "interrupted" => \E s \in rec.todo : s.key = k
      BY <1>1, <1>6 DEF LifeInv, SnapshotInv
    <2>. QED  BY <1>1, <1>4, <2>1, <2>2 DEF LifeInv, SnapshotInv
  <1>9. ResolvedInv'
    BY <1>1 DEF ResolvedInv
  <1>. QED  BY <1>7, <1>8, <1>9 DEF LifeInv

LEMMA RecoveryMoves ==
  ASSUME TypeInv, RunInv, LifeInv, Recovery
  PROVE  LifeInv' /\ \A k \in Keys : Moves(k)
  <1>1. CASE RecoverList
    <2>1. occ' = occ /\ phase' = "recovering"
      BY <1>1 DEF RecoverList
    <2>2. rec'.key = NoKey
          /\ rec'.todo = {[key |-> k, status |-> occ[k].status, attempt |-> occ[k].attempt] :
                             k \in {y \in Keys : occ[y].status \in Recoverable}}
      BY <1>1 DEF RecoverList, NoRecovery
    <2>3. \A r \in rec'.todo : r.key \in Keys /\ r.status = occ[r.key].status
                               /\ r.attempt = occ[r.key].attempt /\ r.status \in Recoverable
      BY <2>2
    <2>4. \A r, s \in rec'.todo : r.key = s.key => r = s
      BY <2>2
    <2>5. \A k \in Keys : occ[k].status = "interrupted" => \E r \in rec'.todo : r.key = k
      <3>. SUFFICES ASSUME NEW k \in Keys, occ[k].status = "interrupted"
                    PROVE  \E r \in rec'.todo : r.key = k
        OBVIOUS
      <3>. DEFINE r == [key |-> k, status |-> occ[k].status, attempt |-> occ[k].attempt]
      <3>1. r \in rec'.todo
        BY <2>2 DEF Recoverable
      <3>2. r.key = k
        OBVIOUS
      <3>. QED  BY <3>1, <3>2
    <2>6. SnapshotInv'
      BY <2>1, <2>2, <2>3, <2>4, <2>5 DEF SnapshotInv, Recoverable
    <2>7. ResolvedInv'
      BY <2>1 DEF ResolvedInv
    <2>. QED  BY <2>1, <2>6, <2>7, OneTurns, RecoveryIsQuiet DEF LifeInv
  <1>2. CASE RecoverDone
    <2>1. occ' = occ /\ phase = "recovering" /\ phase' = "asleep" /\ rec.todo = {}
          /\ rec.key = NoKey
      BY <1>2 DEF RecoverDone, NoRecovery
    <2>2. \A k \in Keys : occ[k].status # "interrupted"
      BY <2>1, NoKeyIsNoKey DEF LifeInv, SnapshotInv
    <2>3. SnapshotInv' /\ ResolvedInv'
      BY <2>1, <2>2 DEF SnapshotInv, ResolvedInv
    <2>. QED  BY <2>1, <2>3, OneTurns, RecoveryIsQuiet DEF LifeInv
  <1>. QED  BY <1>1, <1>2, RecoverNextMoves, RecoverResolveMoves DEF Recovery

-----------------------------------------------------------------------------
(* Steps that write no row. *)

LEMMA OthersMove ==
  ASSUME TypeInv, RunInv, LifeInv, Scheduler \/ Boot \/ Tick \/ UNCHANGED vars
  PROVE  LifeInv' /\ \A k \in Keys : Moves(k)
  <1>1. UNCHANGED <<occ, effects, rec>>
    BY DEF Scheduler, Wake, Sweep, Sleep, Admit, Boot, Tick, vars, history
  <1>2. \A w \in Workers : \/ worker'[w] = worker[w]
                           \/ worker[w].pc = "idle" /\ worker'[w].pc \in {"create", "claim"}
    <2>1. CASE \E w \in Pool : Admit(w)
      BY <2>1 DEF Admit, TypeInv, WorkerInv
    <2>2. CASE Wake \/ Sweep \/ Sleep \/ Boot \/ Tick \/ UNCHANGED vars
      BY <2>2 DEF Wake, Sweep, Sleep, Boot, Tick, vars
    <2>. QED  BY <2>1, <2>2 DEF Scheduler
  <1>3. \/ phase' = phase
        \/ phase' \notin {"asleep", "retries", "sweeping", "recovering"}
        \/ {phase, phase'} \subseteq {"asleep", "retries", "sweeping"}
    BY DEF Scheduler, Wake, Sweep, Sleep, Admit, Boot, Tick, vars, schedVars
  <1>4. \A k \in Keys : Acted(k)' <=> Acted(k)
    BY <1>2 DEF Acted
  <1>5. ASSUME NEW k \in Keys PROVE Moves(k) /\ Row(k)'
    BY <1>1, <1>4, QuietMoves, QuietKeepsRow DEF LifeInv, RowInv
  <1>6. ChargeInv'
    BY <1>1, <1>2 DEF LifeInv, ChargeInv, Charged, Executing
  <1>7. SnapshotInv'
    BY <1>1, <1>3 DEF LifeInv, SnapshotInv
  <1>8. ResolvedInv'
    BY <1>1, <1>3 DEF LifeInv, ResolvedInv
  <1>. QED  BY <1>5, <1>6, <1>7, <1>8 DEF LifeInv, RowInv

LEMMA CrashMoves ==
  ASSUME TypeInv, RunInv, LifeInv, Crash
  PROVE  LifeInv' /\ \A k \in Keys : Moves(k)
  <1>1. occ' = occ /\ effects' = effects /\ phase' = "down"
        /\ \A w \in Workers : worker'[w].pc = "idle"
    BY DEF Crash, IdleWorker
  <1>2. \A k \in Keys : ~Acted(k)'
    BY <1>1 DEF Acted
  <1>3. \A k \in Keys : Moves(k)
    BY <1>1, <1>2, ForgetMoves, QuietMoves
  <1>4. RowInv'
    BY <1>1, QuietKeepsRow DEF LifeInv, RowInv
  <1>. QED  BY <1>1, <1>3, <1>4
            DEF LifeInv, ChargeInv, Executing, SnapshotInv, ResolvedInv

LEMMA LifeStep ==
  ASSUME Event = {}, TypeInv, RunInv, NoDeletion, LifeInv, [Next]_vars
  PROVE  LifeInv' /\ \A k \in Keys : Moves(k)
  <1>1. \A h \in Handlers : ~Deliver(h)
    BY DEF Deliver
  <1>2. CASE \E w \in Workers : Work(w)
    BY <1>2, WorkKeepsLife, WorkMoves
  <1>. QED  BY <1>1, <1>2, OwnerMoves, RecoveryMoves, OthersMove, CrashMoves DEF Next

(* While the owner deletes nothing and no event task is in play, every       *)
(* clock-driven occurrence lives the life cycle it is promised: outcomes are *)
(* final, attempts are charged as the budget allows, and the side effect     *)
(* happens at most once per attempt (transition_occurrence's table, the      *)
(* claim, handle_failure and recover together).                              *)
THEOREM OccurrencesLiveTheirCycle ==
  ASSUME Event = {}, "delete" \notin OwnerOps
  PROVE  Spec => Implements
  <1>. DEFINE Inv == TypeInv /\ RunInv /\ NoDeletion /\ LifeInv
              Cycles == \A k \in TimedKeys : [Lifecycle(k)!Next]_(Lifecycle(k)!vars)
              Starts == \A k \in TimedKeys : Lifecycle(k)!Init
  <1>1. Init => Inv /\ Starts
    <2>. SUFFICES ASSUME Init PROVE Inv /\ Starts
      OBVIOUS
    <2>1. \A w \in Workers : worker[w].pc = "idle"
      BY DEF Init, IdleWorker
    <2>2. \A k \in Keys : occ[k].status = "none" /\ occ[k].attempt = 0 /\ effects[k] = 0
      BY DEF Init, NoOcc
    <2>3. RunInv /\ NoDeletion
      BY <2>1 DEF Init, IdleOwner, NoDeletion, RunInv, RecoveryIsAlone, ExecutingIsRunning,
                  ExclusiveExecution, Executing
    <2>4. LifeInv
      BY <2>1, <2>2 DEF Init, LifeInv, RowInv, Row, ChargeInv, Executing, SnapshotInv, ResolvedInv
    <2>5. Starts
      BY <2>1, <2>2, TimedKeysAreKeys DEF Lifecycle!Init
    <2>. QED  BY <2>3, <2>4, <2>5, InitType
  <1>2. Inv /\ [Next]_vars => Inv' /\ Cycles
    <2>. SUFFICES ASSUME Inv, [Next]_vars PROVE Inv' /\ Cycles
      OBVIOUS
    <2>1. LifeInv' /\ \A k \in Keys : Moves(k)
      BY LifeStep
    <2>2. Cycles
      BY <2>1, TimedKeysAreKeys DEF Moves
    <2>. QED  BY <2>1, <2>2, TypeStep, DeletionNeverBegins, RunStep
  <1>. QED  BY <1>1, <1>2, PTL DEF Spec, Implements

=============================================================================
