--------------------------- MODULE TaskScheduling ---------------------------
(***************************************************************************)
(* The durable task subsystem of the userbot (backend/ai): the wake loop    *)
(* that serves due boundaries and due retries, restart recovery, the event  *)
(* dispatcher, and the owner's management operations, all of them sharing   *)
(* one row store through compare-and-swap writes.                           *)
(*                                                                          *)
(* One action is what one coroutine does between two awaits that touch the  *)
(* store.  A repository write that reads a row and then swaps on the value  *)
(* read is one action, taken at the swap.  Time is counted in boundaries:   *)
(* every recurring task has one boundary per tick.  What the actions of an  *)
(* occurrence do is the subject of another module: here a run has one side  *)
(* effect, before which it may park on a wait or a question.  The degraded  *)
(* in-memory store is not part of this module.                              *)
(***************************************************************************)
EXTENDS OccurrenceTable, FiniteSets

CONSTANTS
    Recurring, Once, Event,  \* the tasks, by schedule_type
    Interval,                \* recurring tasks on an interval, not on a daily clock
    AI,                      \* recurring tasks prepared ahead of their boundary
    Messages,                \* messages that may trigger an event task
    Pool,                    \* the wake loop's execution slots
    Handlers,                \* event-handler coroutines alive at once
    OwnerOps,                \* the owner operations of this instance
    MaxSteps,                \* scheduling.advance_interval's max_steps
    AnswerColumns,           \* whether the store has a column per key of an answer
    MaxTime, MaxParks, MaxCrashes, MaxOps   \* bounds of the instance

ASSUME TaskAssumption ==
    /\ Recurring \cap Once = {} /\ Recurring \cap Event = {} /\ Once \cap Event = {}
    /\ Interval \subseteq Recurring /\ AI \subseteq Recurring
    /\ Messages \subseteq Nat
ASSUME WorkerAssumption == Pool \cap Handlers = {}
ASSUME BoundAssumption ==
    /\ MaxTime \in Nat \ {0} /\ MaxSteps \in Nat /\ MaxParks \in Nat
    /\ MaxCrashes \in Nat /\ MaxOps \in Nat
ASSUME StoreAssumption == AnswerColumns \in BOOLEAN

Timed == Recurring \cup Once
Tasks == Timed \cup Event
Workers == Pool \cup Handlers

(* Every instant a boundary may fall on; the last lies beyond the horizon. *)
Boundaries == 1 .. (MaxTime + 1)

(* Occurrence identity: task and boundary, or task and triggering message. *)
TimedKeys == Timed \X Boundaries
EventKeys == Event \X Messages
Keys == TimedKeys \cup EventKeys
NoKey == << >>

VARIABLES
    now,        \* the clock
    task,       \* ai_tasks: status, CAS version, definition, next_run_at
    occ,        \* ai_task_occurrences
    phase,      \* what the scheduler coroutine is doing
    ref,        \* the reference instant of the current wake or recovery
    batch,      \* work of the current wake waiting for a slot
    progressed, \* whether this sweep advanced some task
    worker,     \* the executions in flight
    rec,        \* recovery: rows still to resolve and the one in hand
    owner,      \* the management operation in flight
    effects,    \* history: side effects per occurrence
    uncertain,  \* history: occurrences a crash caught running
    edited,     \* history: the instant of a task's last edit
    replied,    \* history: occurrences whose question the owner has answered
    crashes, ops

vars == <<now, task, occ, phase, ref, batch, progressed, worker, rec, owner,
          effects, uncertain, edited, replied, crashes, ops>>
schedVars == <<phase, ref, batch, progressed>>
history == <<effects, uncertain, edited, replied>>
bounds == <<crashes, ops>>

-----------------------------------------------------------------------------
(* Types *)

TaskType == [status: {"active", "paused", "completed", "gone"}, version: Nat, gen: Nat,
             nextRun: 0 .. (MaxTime + 1)]
OccType == [status: Statuses, attempt: 0 .. MaxAttempts, retryAt: 0 .. MaxTime,
            gen: Nat, parks: Nat]
NoOcc == [status |-> "none", attempt |-> 0, retryAt |-> 0, gen |-> 0, parks |-> 0]
NewOcc(g) == [status |-> "claimed", attempt |-> 1, retryAt |-> 0, gen |-> g, parks |-> 0]

(* Work is a due boundary (with the task as list_due_tasks read it), a due   *)
(* retry, or a delivered event (with the task as list_event_tasks read it).  *)
ItemType == [kind: {"due", "retry", "event"}, key: Keys, version: Nat, gen: Nat]
Item(kind, k, version, gen) == [kind |-> kind, key |-> k, version |-> version, gen |-> gen]

PCs == {"idle", "create", "claim", "exec", "acted", "advance", "prepare"}
WorkerType == [pc: PCs, kind: {"none", "due", "retry", "event"}, key: Keys \cup {NoKey},
               version: Nat, gen: Nat, attempt: 0 .. MaxAttempts]
IdleWorker == [pc |-> "idle", kind |-> "none", key |-> NoKey, version |-> 0, gen |-> 0,
               attempt |-> 0]

(* What recovery read: list_recoverable_occurrences is one snapshot. *)
Unresolved == [key: Keys, status: Recoverable, attempt: 0 .. MaxAttempts]
NoRecovery == [todo |-> {}, key |-> NoKey, attempt |-> 0]

IdleOwner == [pc |-> "idle", task |-> NoKey, version |-> 0, at |-> 0, removed |-> FALSE]
OwnerType == [pc: {"idle", "discard", "wipe", "delete"}, task: Tasks \cup {NoKey}, version: Nat,
              at: 0 .. MaxTime, removed: BOOLEAN]

Phases == {"down", "starting", "recovering", "asleep", "retries", "sweeping"}

TypeOK ==
    /\ now \in 0 .. MaxTime /\ ref \in 0 .. MaxTime
    /\ task \in [Tasks -> TaskType] /\ \A t \in Event : task[t].nextRun = 0
    /\ occ \in [Keys -> OccType]
    /\ phase \in Phases
    /\ batch \subseteq ItemType
    /\ progressed \in BOOLEAN
    /\ worker \in [Workers -> WorkerType]
    /\ rec \in [todo: SUBSET Unresolved, key: Keys \cup {NoKey}, attempt: 0 .. MaxAttempts]
    /\ owner \in OwnerType
    /\ effects \in [Keys -> Nat]
    /\ uncertain \subseteq Keys
    /\ edited \in [Tasks -> 0 .. MaxTime] /\ replied \subseteq Keys
    /\ crashes \in Nat /\ ops \in Nat

Init ==
    /\ now = 0 /\ ref = 0
    /\ task = [t \in Tasks |-> [status |-> "active", version |-> 1, gen |-> 1,
                                nextRun |-> IF t \in Timed THEN 1 ELSE 0]]
    /\ occ = [k \in Keys |-> NoOcc]
    /\ phase = "down" /\ batch = {} /\ progressed = FALSE
    /\ worker = [w \in Workers |-> IdleWorker]
    /\ rec = NoRecovery /\ owner = IdleOwner
    /\ effects = [k \in Keys |-> 0] /\ uncertain = {} /\ edited = [t \in Tasks |-> 0]
    /\ replied = {}
    /\ crashes = 0 /\ ops = 0

-----------------------------------------------------------------------------
(* Helpers *)

(* transition_occurrence finds the row and its table admits the new status. *)
CanMove(k, s) == s \in Successors(occ[k].status)

(* An instant a backoff or a wait may end: now, or a tick later if there is one. *)
Soon == {t \in {now, now + 1} : t <= MaxTime}

DueTasks == {t \in Tasks : /\ task[t].status = "active"
                           /\ task[t].nextRun > 0 /\ task[t].nextRun <= ref}
DueRetries == {k \in Keys : occ[k].status = "retry_pending" /\ occ[k].retryAt <= now}

(* advance_interval gives up after max_steps boundaries: ScheduleError. *)
Overrun(boundary) == ref - boundary >= MaxSteps - 1

(* The first boundary after the reference of the wake. *)
Following == ref + 1

Step(w, pc) == worker' = [worker EXCEPT ![w] = IF pc = "idle" THEN IdleWorker
                                               ELSE [@ EXCEPT !.pc = pc]]
ThenOnlyAfterARun(w) ==                                            \* mutant
    IF worker[w].kind = "due" /\ worker[w].pc # "create" THEN "advance" ELSE "idle"
(* Only a due boundary is advanced once its occurrence has been dealt with. *)
Then(w) == IF worker[w].kind = "due" THEN "advance" ELSE "idle"

Write(k, row) == occ' = [occ EXCEPT ![k] = row]
RearmUncharged(k, attempt) ==                                      \* mutant
    \E at \in Soon : Write(k, [occ[k] EXCEPT !.status = "retry_pending", !.retryAt = at])
Rearm(k, attempt) ==
    \E at \in Soon : Write(k, [occ[k] EXCEPT !.status = "retry_pending",
                                            !.attempt = attempt, !.retryAt = at])
Mark(k, s) == Write(k, [occ[k] EXCEPT !.status = s])

Quiet == batch = {} /\ \A w \in Pool : worker[w].pc = "idle"

-----------------------------------------------------------------------------
(* The wake loop: TaskScheduler.run, run_once and _run_due_sweeps *)

(* A wake fixes its reference instant and starts with the due retries. *)
Wake ==
    /\ phase = "asleep" /\ phase' = "retries"
    /\ ref' = now
    /\ batch' = {Item("retry", k, 0, 0) : k \in DueRetries}
    /\ progressed' = FALSE
    /\ UNCHANGED <<now, task, occ, worker, rec, owner, history, bounds>>

(* A sweep reads the due tasks and gathers one execution per task; it is     *)
(* repeated while some task advanced.  (MAX_TASKS_PER_WAKE and               *)
(* MAX_SWEEPS_PER_WAKE exceed what an instance can make due.)                *)
Sweep ==
    /\ Quiet
    /\ phase = "retries" \/ (phase = "sweeping" /\ progressed)
    /\ DueTasks # {}
    /\ phase' = "sweeping" /\ progressed' = FALSE
    /\ batch' = {Item("due", <<t, task[t].nextRun>>, task[t].version, task[t].gen) :
                     t \in DueTasks}
    /\ UNCHANGED <<now, ref, task, occ, worker, rec, owner, history, bounds>>

Sleep ==
    /\ Quiet
    /\ \/ phase = "retries" /\ DueTasks = {}
       \/ phase = "sweeping" /\ (DueTasks = {} \/ ~progressed)
    /\ phase' = "asleep" /\ progressed' = FALSE
    /\ UNCHANGED <<now, ref, batch, task, occ, worker, rec, owner, history, bounds>>

(* The semaphore admits one gathered execution. *)
Admit(w) ==
    /\ w \in Pool /\ worker[w].pc = "idle"
    /\ \E i \in batch :
          /\ batch' = batch \ {i}
          /\ worker' = [worker EXCEPT ![w] =
                [pc |-> IF i.kind = "due" THEN "create" ELSE "claim", kind |-> i.kind,
                 key |-> i.key, version |-> i.version, gen |-> i.gen, attempt |-> 0]]
    /\ UNCHANGED <<now, task, occ, phase, ref, progressed, rec, owner, history, bounds>>

(* TaskEventDispatcher.handle_event: a message, possibly delivered before,   *)
(* reaches an active event task.  The dispatcher is configured before the    *)
(* scheduler's recovery runs, so it is live in every phase but "down".       *)
Deliver(h) ==
    /\ h \in Handlers /\ worker[h].pc = "idle" /\ phase # "down"
    /\ \E t \in Event, m \in Messages :
          /\ task[t].status = "active"
          /\ worker' = [worker EXCEPT ![h] =
                [pc |-> "create", kind |-> "event", key |-> <<t, m>>,
                 version |-> task[t].version, gen |-> task[t].gen, attempt |-> 0]]
    /\ UNCHANGED <<now, task, occ, schedVars, rec, owner, history, bounds>>

-----------------------------------------------------------------------------
(* One execution: _process_due_task, _execute_claimed, _dispatch *)

(* create_occurrence is idempotent: an existing row is returned as it is,    *)
(* with the definition it was created from.  What is executed next depends   *)
(* on the status found.                                                      *)
Create(w) ==
    LET k == worker[w].key
        fresh == occ[k].status = "none"
        status == IF fresh THEN "claimed" ELSE occ[k].status
        wanted == IF worker[w].kind = "due" THEN {"claimed"} ELSE {"claimed", "interrupted"}
    IN /\ worker[w].pc = "create"
       /\ IF \/ task[k[1]].status = "gone"
             \/ k[1] \in Interval /\ Overrun(k[2])
          THEN Step(w, "idle") /\ UNCHANGED occ
          ELSE /\ IF fresh THEN Write(k, NewOcc(worker[w].gen)) ELSE UNCHANGED occ
               /\ Step(w, IF status \in wanted THEN "claim" ELSE Then(w))
       /\ UNCHANGED <<now, task, schedVars, rec, owner, history, bounds>>

(* claim_occurrence: the compare-and-swap that starts an execution. *)
Claim(w) ==
    LET k == worker[w].key
    IN /\ worker[w].pc = "claim"
       /\ IF occ[k].status \in Claimable
          THEN /\ Mark(k, "running")
               /\ worker' = [worker EXCEPT ![w].pc = "exec", ![w].attempt = occ[k].attempt]
          ELSE Step(w, Then(w)) /\ UNCHANGED occ
       /\ UNCHANGED <<now, task, schedVars, rec, owner, history, bounds>>

(* The Telegram mutation.  Nothing in the store says yet that it happened. *)
Act(w) ==
    LET k == worker[w].key
    IN /\ worker[w].pc = "exec"
       /\ Step(w, "acted")
       /\ effects' = [effects EXCEPT ![k] = @ + 1]
       /\ UNCHANGED <<now, task, occ, schedVars, rec, owner, uncertain, edited, replied, bounds>>

(* A missing row, or a swap lost after the table admitted the status, is     *)
(* reported as "unknown" and the boundary still advances; a status the table *)
(* refuses raises, and it does not.                                          *)
Leave(w, can) == \/ Step(w, Then(w))
                 \/ ~can /\ occ[worker[w].key].status # "none" /\ Step(w, "idle")

(* A terminal transition. *)
Settle(w, s) ==
    LET k == worker[w].key
    IN /\ IF CanMove(k, s) THEN Mark(k, s) ELSE UNCHANGED occ
       /\ Leave(w, CanMove(k, s))
       /\ UNCHANGED <<now, task, schedVars, rec, owner, history, bounds>>

Succeed(w) == worker[w].pc = "acted" /\ Settle(w, "succeeded")

(* A permanent failure, before or after the side effect, or a timeout with   *)
(* no attempt left.                                                          *)
Fail(w) == worker[w].pc \in {"exec", "acted"} /\ Settle(w, "failed")

(* handle_failure on a timeout: the side effect may or may not have happened. *)
Retry(w) ==
    LET k == worker[w].key
        can == CanMove(k, "retry_pending")
    IN /\ worker[w].pc \in {"exec", "acted"}
       /\ CanRetry(worker[w].attempt)
       /\ IF can THEN Rearm(k, worker[w].attempt + 1) ELSE UNCHANGED occ
       /\ Leave(w, can)
       /\ UNCHANGED <<now, task, schedVars, rec, owner, history, bounds>>

(* _park_at_wait and _park_at_question: the attempt is untouched, and a park *)
(* that cannot be written is swallowed.                                      *)
Park(w) ==
    LET k == worker[w].key
    IN /\ worker[w].pc = "exec" /\ occ[k].parks < MaxParks
       /\ \E s \in {"retry_pending", "waiting_answer"}, at \in Soon :
             IF CanMove(k, s)
             THEN Write(k, [occ[k] EXCEPT !.status = s, !.parks = @ + 1,
                              !.retryAt = IF s = "retry_pending" THEN at ELSE @])
             ELSE UNCHANGED occ
       /\ Step(w, Then(w))
       /\ UNCHANGED <<now, task, schedVars, rec, owner, history, bounds>>

(* advance_next_run: swaps on the version the sweep read, so an owner write  *)
(* in between keeps the boundary for the next sweep.                         *)
AdvanceBlindly(w) ==                                               \* mutant
    LET t == worker[w].key[1]
    IN /\ worker[w].pc = "advance"
       /\ task' = [task EXCEPT ![t].version = @ + 1,
                     ![t].nextRun = IF t \in Once THEN 0 ELSE Following]
       /\ progressed' = TRUE
       /\ Step(w, "idle")
       /\ UNCHANGED <<now, occ, phase, ref, batch, rec, owner, history, bounds>>
Advance(w) ==
    LET t == worker[w].key[1]
        fresh == task[t].status # "gone" /\ task[t].version = worker[w].version
    IN /\ worker[w].pc = "advance"
       /\ IF fresh
          THEN /\ task' = [task EXCEPT ![t].version = @ + 1,
                             ![t].nextRun = IF t \in Once THEN 0 ELSE Following]
               /\ progressed' = TRUE
          ELSE UNCHANGED <<task, progressed>>
       /\ Step(w, IF t \in AI THEN "prepare" ELSE "idle")
       /\ UNCHANGED <<now, occ, phase, ref, batch, rec, owner, history, bounds>>

(* _prepare_next_ahead: the next occurrence is created before its boundary   *)
(* from the task the sweep read, whether or not the advance won its swap.    *)
(* (The preparation itself only adds generated content to a claimed row.)    *)
Prepare(w) ==
    LET t == worker[w].key[1]
        k == <<t, Following>>
    IN /\ worker[w].pc = "prepare"
       /\ IF task[t].status # "gone" /\ occ[k].status = "none"
          THEN Write(k, NewOcc(worker[w].gen))
          ELSE UNCHANGED occ
       /\ Step(w, "idle")
       /\ UNCHANGED <<now, task, schedVars, rec, owner, history, bounds>>

-----------------------------------------------------------------------------
(* Restart and recovery: TaskScheduler.start and recover *)

CrashLeavingRuns ==                                                \* mutant
    /\ phase # "down" /\ crashes < MaxCrashes
    /\ crashes' = crashes + 1
    /\ phase' = "down" /\ batch' = {} /\ progressed' = FALSE
    /\ rec' = NoRecovery /\ owner' = IdleOwner
    /\ UNCHANGED <<now, ref, task, occ, worker, history, ops>>
(* The process dies: coroutines vanish, rows stay. *)
Crash ==
    /\ phase # "down" /\ crashes < MaxCrashes
    /\ crashes' = crashes + 1
    /\ phase' = "down" /\ batch' = {} /\ progressed' = FALSE
    /\ worker' = [w \in Workers |-> IdleWorker]
    /\ rec' = NoRecovery /\ owner' = IdleOwner
    /\ uncertain' = uncertain \cup {k \in Keys : occ[k].status = "running"}
    /\ UNCHANGED <<now, ref, task, occ, effects, edited, replied, ops>>

(* Restart: the event dispatcher goes live, then recovery begins.            *)
Boot ==
    /\ phase = "down" /\ phase' = "starting" /\ ref' = now
    /\ UNCHANGED <<now, batch, progressed, task, occ, worker, rec, owner, history, bounds>>

RecoverList ==
    /\ phase = "starting" /\ phase' = "recovering"
    /\ rec' = [NoRecovery EXCEPT !.todo =
                 {[key |-> k, status |-> occ[k].status, attempt |-> occ[k].attempt] :
                     k \in {x \in Keys : occ[x].status \in Recoverable}}]
    /\ UNCHANGED <<now, ref, batch, progressed, task, occ, worker, owner, history, bounds>>

RetryRun(k) ==                                                     \* mutant
    IF CanMove(k, "retry_pending") THEN Rearm(k, occ[k].attempt) ELSE UNCHANGED occ
(* A running row may have had its side effect: it fails, never retried. *)
AbandonRun(k) == IF CanMove(k, "failed") THEN Mark(k, "failed") ELSE UNCHANGED occ

NothingIsFuture(k) == FALSE                                        \* mutant
(* A row pre-created for a boundary after the start of the recovery. *)
Future(k) == k \in TimedKeys /\ k[2] > ref

(* One row of the snapshot.  A row pre-created for a future boundary is left *)
(* alone; a running row may have had its side effect and fails; a claimed    *)
(* row is first marked interrupted and then resolved, each under the table   *)
(* and not under the status the snapshot showed.                             *)
RecoverNext ==
    /\ phase = "recovering" /\ rec.key = NoKey
    /\ \E r \in rec.todo :
          LET k == r.key
              left == [rec EXCEPT !.todo = @ \ {r}]
          IN \/ /\ r.status = "claimed" /\ Future(k)
                /\ rec' = left /\ UNCHANGED occ
             \/ /\ r.status = "running"
                /\ rec' = left /\ AbandonRun(k)
             \/ /\ r.status = "claimed" /\ ~Future(k)
                /\ IF CanMove(k, "interrupted")
                   THEN /\ Mark(k, "interrupted")
                        /\ rec' = [left EXCEPT !.key = k, !.attempt = occ[k].attempt]
                   ELSE UNCHANGED occ /\ rec' = left
             \/ /\ r.status = "interrupted"
                /\ rec' = [left EXCEPT !.key = k, !.attempt = r.attempt]
                /\ UNCHANGED occ
    /\ UNCHANGED <<now, task, schedVars, worker, owner, history, bounds>>

(* _resolve_interrupted: another attempt if the budget allows one. *)
RecoverResolve ==
    LET k == rec.key
    IN /\ phase = "recovering" /\ k # NoKey
       /\ IF CanRetry(rec.attempt)
          THEN IF CanMove(k, "retry_pending") THEN Rearm(k, rec.attempt + 1) ELSE UNCHANGED occ
          ELSE IF CanMove(k, "failed") THEN Mark(k, "failed") ELSE UNCHANGED occ
       /\ rec' = [rec EXCEPT !.key = NoKey, !.attempt = 0]
       /\ UNCHANGED <<now, task, schedVars, worker, owner, history, bounds>>

RecoverDone ==
    /\ phase = "recovering" /\ rec = NoRecovery
    /\ phase' = "asleep"
    /\ UNCHANGED <<now, ref, batch, progressed, task, occ, worker, rec, owner, history, bounds>>

-----------------------------------------------------------------------------
(* The owner: TaskManagementService and TaskAnswerResolver *)

Manage(op) ==
    /\ op \in OwnerOps /\ ops < MaxOps /\ phase # "down" /\ owner = IdleOwner
    /\ ops' = ops + 1

SetTask(t, row) == task' = [task EXCEPT ![t] = [row EXCEPT !.version = @ + 1]]

(* set_status: leaving "active" clears the boundary. *)
SetStatus(t) ==
    /\ \/ Manage("pause") /\ SetTask(t, [task[t] EXCEPT !.status = "paused", !.nextRun = 0])
       \/ Manage("complete") /\ SetTask(t, [task[t] EXCEPT !.status = "completed", !.nextRun = 0])
    /\ task[t].status = "active"
    /\ UNCHANGED <<now, occ, schedVars, worker, rec, owner, history, crashes>>

(* set_status with _resume_next_run: a cleared boundary is recomputed, one   *)
(* interval from now or the one-shot's own instant.                          *)
Resume(t) ==
    /\ Manage("pause") /\ task[t].status = "paused"
    /\ SetTask(t, [task[t] EXCEPT !.status = "active",
                      !.nextRun = IF @ # 0 \/ t \in Event THEN @
                                  ELSE IF t \in Recurring THEN now + 1 ELSE 1])
    /\ UNCHANGED <<now, occ, schedVars, worker, rec, owner, history, crashes>>

(* update_definition: a new definition, and with a new schedule a new        *)
(* boundary; the unstarted future occurrences are discarded afterwards.      *)
Edit(t) ==
    /\ Manage("edit") /\ task[t].status # "gone"
    /\ \E run \in {task[t].nextRun} \cup (IF t \in Recurring THEN {now + 1} ELSE {}) :
          SetTask(t, [task[t] EXCEPT !.gen = @ + 1, !.nextRun = run])
    /\ owner' = [IdleOwner EXCEPT !.pc = "discard", !.task = t, !.at = now]
    /\ edited' = [edited EXCEPT ![t] = now]
    /\ UNCHANGED <<now, occ, schedVars, worker, rec, effects, uncertain, replied, crashes>>

DiscardStarted ==                                                  \* mutant
    /\ owner.pc = "discard"
    /\ occ' = [k \in Keys |-> IF k \in TimedKeys /\ k[1] = owner.task /\ k[2] > owner.at
                              THEN NoOcc ELSE occ[k]]
    /\ owner' = IdleOwner
    /\ UNCHANGED <<now, task, schedVars, worker, rec, history, bounds>>
(* discard_unstarted_occurrences, judged against the instant of the edit. *)
Discard ==
    /\ owner.pc = "discard"
    /\ occ' = [k \in Keys |-> IF /\ k \in TimedKeys /\ k[1] = owner.task
                                 /\ occ[k].status = "claimed" /\ k[2] > owner.at
                              THEN NoOcc ELSE occ[k]]
    /\ owner' = IdleOwner
    /\ UNCHANGED <<now, task, schedVars, worker, rec, history, bounds>>

(* delete_task: the version is checked by a read, the children go next and   *)
(* the row last, under its version.  The foreign key refuses the third       *)
(* statement while a child exists.                                           *)
DeleteBegin(t) ==
    /\ Manage("delete") /\ task[t].status # "gone"
    /\ owner' = [IdleOwner EXCEPT !.pc = "wipe", !.task = t, !.version = task[t].version]
    /\ UNCHANGED <<now, task, occ, schedVars, worker, rec, history, crashes>>

DeleteOccurrences ==
    /\ owner.pc = "wipe"
    /\ occ' = [k \in Keys |-> IF k[1] = owner.task THEN NoOcc ELSE occ[k]]
    /\ owner' = [owner EXCEPT !.pc = "delete",
                              !.removed = \E k \in Keys : k[1] = owner.task /\ occ[k] # NoOcc]
    /\ UNCHANGED <<now, task, schedVars, worker, rec, history, bounds>>

DeletableByVersion == task[owner.task].version = owner.version     \* mutant
Deletable == /\ task[owner.task].version = owner.version
             /\ \A k \in Keys : k[1] = owner.task => occ[k].status = "none"

DeleteTask ==
    /\ owner.pc = "delete"
    /\ task' = IF Deletable THEN [task EXCEPT ![owner.task].status = "gone",
                                              ![owner.task].nextRun = 0]
                            ELSE task
    /\ owner' = IdleOwner
    /\ UNCHANGED <<now, occ, schedVars, worker, rec, history, bounds>>

(* resume_waiting_for_answer: the correlated reply makes the occurrence due, *)
(* if the store takes the write.  The in-memory store does; the Supabase one *)
(* spreads the answer's keys over columns the table does not have, the write *)
(* is refused, and the fallback does not know the row.                       *)
Answer(k) ==
    /\ phase # "down" /\ occ[k].status = "waiting_answer"
    /\ IF AnswerColumns
       THEN Write(k, [occ[k] EXCEPT !.status = "retry_pending", !.retryAt = now])
       ELSE UNCHANGED occ
    /\ replied' = replied \cup {k}
    /\ UNCHANGED <<now, task, schedVars, worker, rec, owner, effects, uncertain, edited, bounds>>

Tick ==
    /\ now < MaxTime /\ now' = now + 1
    /\ UNCHANGED <<task, occ, schedVars, worker, rec, owner, history, bounds>>

-----------------------------------------------------------------------------
(* Specification *)

Scheduler == Wake \/ Sweep \/ Sleep \/ \E w \in Pool : Admit(w)
Recovery == RecoverList \/ RecoverNext \/ RecoverResolve \/ RecoverDone
Work(w) == \/ Create(w) \/ Claim(w) \/ Act(w) \/ Succeed(w) \/ Fail(w) \/ Retry(w) \/ Park(w)
           \/ Advance(w) \/ Prepare(w)
OwnerBegins == \/ \E t \in Tasks : SetStatus(t) \/ Resume(t) \/ Edit(t) \/ DeleteBegin(t)
               \/ \E k \in Keys : Answer(k)
OwnerEnds == Discard \/ DeleteOccurrences \/ DeleteTask

Next ==
    \/ Scheduler \/ Boot \/ Recovery \/ Crash \/ Tick
    \/ OwnerBegins \/ OwnerEnds
    \/ \E w \in Workers : Work(w)
    \/ \E h \in Handlers : Deliver(h)

Spec == Init /\ [][Next]_vars

(* asyncio runs every ready coroutine, the platform restarts a dead process  *)
(* and time passes; crashes, messages and the owner owe nothing.             *)
Fairness ==
    /\ WF_vars(Scheduler) /\ WF_vars(Recovery) /\ WF_vars(Boot) /\ WF_vars(Tick)
    /\ WF_vars(OwnerEnds)
    /\ \A w \in Workers : WF_vars(Work(w))

FairSpec == Spec /\ Fairness

-----------------------------------------------------------------------------
(* Properties *)

Executing(w) == worker[w].pc \in {"exec", "acted"}

(* No occurrence is executed by two coroutines at once, whether they come    *)
(* from a sweep, a retry or an event: the claim's compare-and-swap and the   *)
(* gathering of one wake are the only guards (claim_occurrence, _execute_one). *)
ExclusiveExecution ==
    \A v, w \in Workers :
        Executing(v) /\ Executing(w) /\ worker[v].key = worker[w].key => v = w

(* What a live coroutine is executing says "running" in the store: recovery  *)
(* resolves only what a previous process left (TaskScheduler.recover).       *)
ExecutingIsRunning ==
    \A w \in Workers : Executing(w) => occ[worker[w].key].status = "running"

(* A clock-driven occurrence is never executed before its boundary, though   *)
(* prepare-ahead creates its row early and recovery finds it claimed.        *)
NotBeforeBoundary ==
    \A w \in Workers : Executing(w) /\ worker[w].key \in TimedKeys => worker[w].key[2] <= now

(* An occurrence a crash caught between its claim and its outcome is never   *)
(* executed again, by any later wake of any later process.                   *)
UncertainNeverReplayed ==
    \A w \in Workers : Executing(w) => worker[w].key \notin uncertain

(* A deleted task leaves no occurrence behind, so no wake and no recovery    *)
(* ever runs one for it: delete_task removes the children first and the      *)
(* foreign key refuses the task while a concurrent sweep or event has        *)
(* created another.                                                          *)
NoOrphans ==
    \A k \in Keys : task[k[1]].status = "gone" => occ[k].status = "none"

(* The cadence never moves past a boundary whose occurrence was not started: *)
(* next_run_at leaves a boundary only behind a row that is past "claimed",   *)
(* unless the owner moved it (_process_due_task's order of writes).          *)
BoundaryConsumedOnceStarted ==
    [][\A t \in Timed :
          LET b == task[t].nextRun
          IN /\ b # 0 /\ task'[t].nextRun # b
             /\ task[t].status = "active" /\ task'[t].status = "active"
             /\ task'[t].gen = task[t].gen
             => occ[<<t, b>>].status \notin {"none", "claimed"}]_vars

(* Every clock-driven occurrence lives the promised life cycle: acted is     *)
(* whether a live run has had its side effect.                               *)
Lifecycle(k) == INSTANCE OccurrenceLifecycle
    WITH status <- occ[k].status, attempt <- occ[k].attempt, acts <- effects[k],
         acted <- \E w \in Workers : worker[w].pc = "acted" /\ worker[w].key = k

Implements ==
    /\ \A k \in TimedKeys : Lifecycle(k)!Init
    /\ [][\A k \in TimedKeys : [Lifecycle(k)!Next]_(Lifecycle(k)!vars)]_vars

(* A due boundary of an active task is eventually served, whatever crashes,  *)
(* failures and lost swaps happen on the way (_run_due_sweeps).              *)
DueEventuallyServed ==
    \A t \in Timed : \A b \in Boundaries :
        (task[t].status = "active" /\ task[t].nextRun = b /\ b <= now)
            ~> (task[t].status # "active" \/ task[t].nextRun # b)

(* A started occurrence eventually has an outcome, waits for the owner or is *)
(* gone with its task: no crash leaves it running or armed for ever.         *)
StartedEventuallySettles ==
    \A k \in Keys :
        (occ[k].status \in {"running", "retry_pending", "interrupted"})
            ~> (occ[k].status \in Terminal \cup {"waiting_answer", "none"})

(* After an edit, an unstarted occurrence of the old definition whose        *)
(* boundary was still to come never starts (update_definition promises to    *)
(* discard it, or that its boundary rejects it by the version).              *)
StaleDefinitionNeverStarts ==
    [][\A k \in TimedKeys :
          /\ occ[k].status = "claimed" /\ occ'[k].status = "running"
          /\ k[2] > edited[k[1]]
          => occ[k].gen = task[k[1]].gen]_vars

(* The owner's reply to a parked question makes its occurrence due ("so the  *)
(* wake loop resumes the SAME occurrence", resume_waiting_for_answer).       *)
ReplyResumes ==
    [][\A k \in Keys : k \in replied' \ replied => occ'[k].status = "retry_pending"]_vars

(* A deletion that does not delete the task has removed none of its history  *)
(* ("A stale expected_version fails and nothing changes").                   *)
StaleDeleteChangesNothing ==
    [][owner.pc = "delete" /\ owner.removed /\ owner'.pc = "idle" /\ phase' # "down"
          => task'[owner.task].status = "gone"]_vars
=============================================================================
