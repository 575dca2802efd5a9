# A verification of the self-bot

The repository is a Telegram userbot: one asyncio process that listens to its
owner's account, answers commands and panel taps, talks to AI providers, answers
private messages in the owner's name, archives edited and deleted messages, and
runs *durable tasks* whose rows live in Supabase and survive the death of the
process. This directory holds TLA+ specifications of the parts of it where the
order of things matters, TLC configurations that check them, and proofs checked
by TLAPS.

Almost nothing here blocks: every handler is a coroutine, every database call
runs in a thread that its caller may stop waiting for, and the owner, other
people, timers and restarts act between any two awaits. The specifications
follow that: *one action is what one coroutine does between two awaits that
others can observe*, and a database call is an action (or two, when its effect
and its answer can be told apart).

Paths below are relative to `src/backend` unless they begin with `src/`.

## 1. The system

| Component | Code | State | Operations | Modules |
|---|---|---|---|---|
| Task store | `ai/database/task_repository.py`, `src/supabase/migrations` | `ai_tasks`, `ai_task_occurrences`, `todo_steps`; the in-memory fallback | create, claim, transition, discard, delete, advance, answer, steps; compare-and-swap on a version or a status | `OccurrenceTable`, `TaskScheduling`, `TodoSteps`, `DegradedStore` |
| Scheduler and recovery | `ai/task_scheduler.py`, `ai/scheduling.py`, `ai/retry.py` | the wake loop, execution slots | wake, sweep, retry, prepare ahead; resolve what a dead process left | `TaskScheduling`, `OccurrenceLifecycle` |
| Execution | `ai/task_execution.py`, `ai/task_contract.py` | the claimed row and the per-action record in it | run the chain, park at a wait or a question, fail, retry, succeed | `TaskScheduling`, `ActionChain` |
| Event dispatcher, answers | `ai/task_event_dispatcher.py`, `ai/task_answers.py` | none beyond the store | deliver a message to event tasks; correlate a reply with a parked question | `TaskScheduling`, `ActionChain` |
| Management and todos | `ai/task_management.py` | the step lock | pause, resume, complete, edit, delete a task; the steps of a todo | `TaskScheduling`, `TodoSteps` |
| AI engine and tools | `ai/engine/dispatcher.py`, `ai/tools/executor.py`, `ai/confirmation.py`, `bot/handlers/ai_unified.py` | slots of requests, pending approvals | tool rounds, gating, approving by reply | `ToolRounds` |
| AI providers | `ai/providers/manager` | health of providers and models, slots | ordered fallback, retries, cooling, quarantine | `ProviderMesh` |
| Credential pools | `services/stt_fallback.py`, `stt_credential_pool.py` (and the `tts` twins) | cooldowns of keys and candidates, a plan per request | rotate, pin, give up | `CredentialRotation` |
| Runtime supervisor | `runtime/supervisor.py`, `heartbeat.py`, `keepalive.py`, `failsafe.py` | one recovery lock, cooldowns, the run loop | reconnect, escalate, recover, hard reset, stop | `RuntimeRecovery` |
| Glass UI | `helper/callback_gate.py`, `panels.py`, `lifecycle.py` | dedup window, turn queue, painter | admit a click, grant a turn, paint, close | `CallbackGate` |
| Private messages | `services/private_message_service.py`, `bot/handlers/private_message.py` | a counter row per person, the settings row | claim, deliver and release a reply; load, import and change settings | `ReplyAllowance`, `PolicyState` |
| Edited and deleted messages | `services/anti_edit_delete_service.py` | archived rows and settings, in tables or in shard documents | capture, remove, sweep, import, change settings | `MessageArchive` |
| Chats read unseen | `services/ghost_seen_v2.py`, `bot/handlers/ghost_seen_v2.py` | the row of allowed chats and its copy in memory, selections, replies asked for | allow, forbid, select; reply by typing or by the model | `GhostSeen` |
| Database client | `db/client.py` | a bounded thread pool | every call above; its timeout, its late effect | within the modules that use it |
| The rest | creation and notifications of tasks, other services, emoji, profile, observability, web, the dashboard in `src/src` | mostly per call | | not modelled, section 6 |

Scheduler, dispatcher, management and execution meet in the rows of the store;
the supervisor starts the dispatcher before the scheduler; the other components
share no mutable state with them or with each other (they share the event loop,
the Telegram client and the database client), which is why they are separate
modules, composed only where they interact: `TaskScheduling` is the composition
of scheduler, recovery, execution, dispatcher, answers and management over one
store; `DegradedStore` that of two stores with the scheduler on top.

**What is hard in it, and what makes each part correct**

* *Store and scheduler.* Rows are read, awaited upon, and written by status or
  version. Correct when an occurrence runs exclusively, in the intended life
  cycle, no boundary is skipped unstarted, none runs early, every due one is
  served; when the store is away, when nothing is carried out twice because two
  stores answer.
* *Recovery after a crash.* It cannot know whether a running row had its side
  effect. Correct when such a row is never executed again.
* *Chain.* The record of what was done is written best-effort. Correct when a
  recorded success is not repeated, one branch of a condition acts, an answer is
  only accepted for the question that was asked.
* *Todos.* Positions never collide, the limit holds, a completed todo has nothing
  left to do but what came later.
* *Tool rounds.* A round can fail anywhere and is tried late once more. Correct when
  no call runs twice, none that ran is reported as pending, and an approval is
  spent once, in time.
* *Providers, credentials.* Failures of concurrent requests reach one health record.
  Correct when a down provider is not contacted by who knows it, one ambiguous
  limit does not burn the pool, and a pair that failed is not tried again.
* *Supervisor.* Several monitors ask for recoveries. Correct when one of them works on
  the connection and a lost connection is restored.
* *Panels.* Clicks are tasks; a turn is handed over with bounded waits. Correct when
  no turn is lost or shared, the newest view is painted, and a closed panel is
  left alone.
* *Private messages.* A claim may land unseen. Correct when no window exceeds its
  limit, no allowance is spent for nothing, and saved settings survive.
* *Archive.* Rows are replaced wholesale, in two possible stores. Correct when a
  confirmed row stays until it is dropped on purpose, a removed one never returns,
  and the settings are never replaced by defaults.
* *Chats read unseen.* Toggles write the whole list, and two panels, typed messages and
  the model act beside each other. Correct when a confirmed permission survives and
  a reply goes only where it is allowed, to what is selected.

`PROJECT.json` lists each hazard at its line with the properties that watch it.

## 2. The modules

| Module | Models |
|---|---|
| `OccurrenceTable` | the status table, the claimable and recoverable statuses, the retry budget |
| `OccurrenceLifecycle` | the abstract specification: what is promised about *one* scheduled occurrence |
| `TaskScheduling` | wake loop, executions, deliveries, crash and recovery, owner operations over one row store |
| `ActionChain` | the chain of actions inside one run, with its record |
| `DegradedStore` | the durable store with its in-memory fallback, under create, serve and recover |
| `TodoSteps` | one todo and its steps under concurrent owner operations |
| `ToolRounds` | the requests of one chat, their tool rounds and approvals |
| `ProviderMesh` | concurrent requests over pools of providers and models |
| `CredentialRotation` | one transcription in chunks over candidates and keys |
| `RuntimeRecovery` | the supervisor's recovery of the connection |
| `CallbackGate` | the clicks on one panel |
| `ReplyAllowance`, `PolicyState` | the AI replies to one person; the settings of the replies |
| `MessageArchive` | the archive of edited and deleted messages over its two stores |
| `GhostSeen` | the private chats the owner reads unseen and answers from a panel |
| `MCTaskScheduling`, `MCComponents`, `MCServices` | the instances for TLC |
| `TaskSchedulingProofs`, `RepositoryProofs`, `RuntimeProofs`, `PanelProofs`, `PrivateMessageProofs`, `ArchiveProofs` | theorems about the components |
| `ComponentsProofs`, `ServicesProofs` | theorems about `MCComponents` and `MCServices` |

`MCComponents` and `MCServices` each hold several components that share no state:
a behaviour chooses one at its start (`focus`) and moves it alone, so the state
space is the sum and one run answers for all of them.

### TaskScheduling

*Granularity.* One action is what one coroutine does between two awaits that
touch the store. A repository write that reads a row and swaps on what it read
is one action, taken at the swap: a lost swap is what the action does when the
row is no longer what the coroutine expects.

*State and code.* `task` and `occ` are the two tables. `gen` is the
`definition_version` of a task or the one an occurrence was created from;
`version` is the compare-and-swap version, which every write moves. `phase`,
`ref`, `batch` and `progressed` are locals of `run_once` and `_run_due_sweeps`:
the reference instant of a wake, the gathered work waiting for the semaphore, and
whether this sweep advanced some task. `worker` holds the coroutines inside
`_process_due_task`, `_execute_claimed` or the dispatcher, with the snapshot each
carries; `rec` is the loop of `recover`; `owner` the multi-statement management
operation in flight. `effects`, `uncertain`, `edited` and `replied` are history,
read by properties only.

| Actions | Code |
|---|---|
| `Wake`, `Sweep`, `Sleep`, `Admit` | `TaskScheduler.run_once`, `_run_due_sweeps`, `_execute_one` |
| `Create`, `Claim`, `Act`, `Succeed`, `Fail`, `Retry`, `Park`, `Advance`, `Prepare` | `_process_due_task`, `_prepare_next_ahead`; `_execute_claimed`, `handle_failure`, `_park_at_wait`, `_park_at_question` |
| `Deliver` | `TaskEventDispatcher.handle_event` |
| `Crash`, `Boot`, `RecoverList`, `RecoverNext`, `RecoverResolve`, `RecoverDone` | death of the process; `_start_task_scheduler`, `TaskScheduler.start`, `recover`, `_resolve_interrupted` |
| `SetStatus`, `Resume`, `Edit`, `Discard`, `DeleteBegin`, `DeleteOccurrences`, `DeleteTask` | `TaskManagementService.set_status`, `update_definition`, `delete_task` |
| `Answer` | `TaskAnswerResolver`, `resume_waiting_for_answer` |

*Abstractions.* Time is counted in boundaries: every recurring task has one
boundary per tick, and `Following` is the first after the reference of the wake.
A run has one side effect, before which it may park; the action chain, its
conditions and its per-action record are `ActionChain`. A backoff or a
wait ends now or one tick later. Matching a message to a trigger is a
nondeterministic choice. An occurrence is identified by its task and boundary, or
its task and message, which is the unique key of the table. A missing execution
coordinator and the scheduler's own restart by the supervisor are left out; the
degraded store is `DegradedStore`. `AnswerColumns` says whether the store can take the
columns a reply is written to: TRUE is the in-memory store that the tests exercise
and what the code intends; FALSE is the schema the migrations build. With TRUE an
occurrence has strictly more behaviours, so the other properties are checked and
proved over both.

### OccurrenceLifecycle

The promise hidden behind all of the above: a terminal outcome is final; an
attempt is charged only by a retryable failure or by a restart that finds the row
claimed, never beyond the budget; the side effect happens only while the row says
`running`, at most once per run and never more often than attempts were charged;
success only after the side effect of that very run. `TaskScheduling!Implements`
instantiates it for every clock-driven occurrence, `acted` being whether some
live coroutine is between its side effect and its outcome. Event occurrences are
excluded: `sched_live_recovery` shows why.

### TodoSteps

`todo` and `step` are rows with independent versions, `lock` is the module-wide
`_STEP_MUTATION_LOCK`, `client` the operations in flight, cut at their awaits.
`AddBegin`/`AddCount`/`AddLock`/`AddInsert` are `add_steps` with `create_steps`;
`StepBegin`/`StepWrite` are `set_step_status`; `RenameStep` and `DeleteStep` swap on
the step alone; `CompleteBegin`/`CascadeList`/`CascadeTick`/`CompleteList`/
`CompleteSwap` are `complete_todo_with_steps` and `set_status`. `TodoRestart` loses
coroutines and the lock. Text resolution and deletion of the todo are left out.

### ActionChain

The coordinator (`ai/task_execution.py`) between the claim of a row and its next
durable status. `chain` is the immutable snapshot, `chainRow` the row with its two
metadata channels (`result`, and `error` which replaces it after a failure), `walk`
the attempt, which a crash loses; `effects`, `finished` and `recordLost` are history.

| Actions | Code |
|---|---|
| `ChainClaim`, `ChainLoad`, `ChainInvalid`, `ChainPrepare` | `_execute_claimed`, `execute`: contracts proved again, record loaded, arguments generated |
| `ChainSkip`, `ChainDecide`, `ChainReject`, `ChainPause`, `ChainStart`, `ChainEffect`, `ChainReturn`, `ChainRefused`, `ChainSucceed` | `execute`, `_persist_runs`, `_park_at_wait`, `handle_failure` |
| `ChainAsked`, `ChainAnswer`, `ChainExpire` | `_park_at_question`, `_question_answer`; `TaskAnswerResolver` |
| `ChainCrash`, `ChainRecover`, `ChainTick` | death and recovery of the process; time |

A durable chain may lose any write of its record; the in-memory one loses nothing
and is the only one a reply reaches (`sched_lost_reply`). What a tool does, and the
text of questions and answers, are left out; of the answers only whether the proof
of the question that was asked is there. The reopening block of `execute` and its
`branch_selection_unavailable` error cannot be reached by an admitted chain and have no action.

### DegradedStore

`SupabaseTaskRepository` answers a call whose round trip failed from an in-memory
repository, one call at a time. `stored` and `memory` are the two stores, each with
its own ids, `seen` is `_max_durable_task_id`, `late` a write whose caller gave up,
`worker` where the scheduler stands. `AskInsert`/`AskFallback` are `create_task`;
`Work…` the round trips of `_process_due_task`, `_execute_claimed` and the retry
sweep; `Recover…` those of `recover`; `OwnerEdit` moves a task's version;
`StoreGoes`/`StoreReturns`, `LateLands`/`LateIsLost` are the store's faults.

Every task is of type "once"; one task is served at a time; deletion, discard and
event queries are left out, and so is the read of `get_task` inside `execute`, which
chooses only a destination. Recovery runs at the start of a process alone, as in the
code: rows left `running` by a process that died while the store was down are
resolved by the next start, not before.

### ToolRounds

Every message of a chat starts a task (`bot/handlers/ai_unified.py`); nothing
serialises those of one chat but a semaphore of slots. `ai` holds the requests,
`approval` the one stored approval, `toolRuns` and `prompts` are history.

| Actions | Code |
|---|---|
| `AIArrive`, `AIAcquire`, `AIBegin`, `AIRunApproved` | the handler; `dispatch` up to taking an approval and running it |
| `AIModel`, `AIRound`, `AICall`, `AIRoundDone`, `AIContinue` | the tool loop, `ToolExecutor.execute_calls`, `_gate_confirmation_results`, the fallback to the next provider |
| `AIRest`, `AILateDone` | the last late batch |
| `AIAnswer`, `AICut`, `AITick` | delivery of the answer and its prompt; cancellation; expiry |

Retries of a provider before the first batch are part of `AIModel`; wording,
verbatim answers and the suppression of a repeated search are left out, as is the
loss of stored approvals when the process ends. A request cut after it took an
approval loses it: an approval is spent at most once, not exactly once. The task
wizard is seen in that its opening replaces the delivery of a prompt.

### ProviderMesh

`ProviderManager.chat` for concurrent requests. `health` is the tracker with the
manager's evidence about models, `request` the calls, `slotQueue` the waiters of each
provider's semaphore. `MeshAsk` orders the candidates; `MeshSuccess`, `MeshRetry`,
`MeshResend`, `MeshAuthFails`, `MeshModelDead`, `MeshTransient` and `MeshLimited` are
the answers of a call, each with the health decision and the move to the next
candidate, which the code makes without an await; `MeshTick` ends cooldowns.
Left out: the demotion for malformed JSON, a provider with no model at all, the
cooling of a local resource, what a model answers. Noted: a quarantine that expires
leaves the streak, so the next failure quarantines again; a `Retry-After: 0` is a
cooldown of nothing; nothing in production calls `mark_healthy`. A pool is a sequence of
the candidates that are up, in an order the code may give them (`InOrder`): of one provider
together, its configured model first, the active provider's before all others.

### CredentialRotation

One speech request over the candidates of `AttemptPlan` and the keys of
`stt_credential_pool`, chunk by chunk. `plan` is the attempt plan with its pin and its
failed sets; the cooldowns of candidates and keys are shared, and `RotElsewhere` is every
other request and the end of a cooldown. `RotUnit`, `RotCandidate`, `RotCredential` walk; `RotSuccess`,
`RotKeyFailure`, `RotProviderFailure`, `RotFatal` are the outcomes of one attempt, `RotAnswer` the
way out. `tts_fallback.py` is the same loop. Noted: the ceiling of
keys is counted per candidate and not per provider, and a pin is not compared with
the failed sets. What is still to be tried (`todo`, `keys`) is a set: the lists of the
code hold nothing twice, and `NextCandidate` and `KeyInTurn` take its first element in
the order of the configuration, the pin before all.

### RuntimeRecovery

The supervisor after `start`. `link` is the connection and what the runtime believes
of it, `loop` the run task, `lock` the holder of `_recovery_lock`, `recovery` the stage
of each recovery task. `SupDrop` and `SupTelethonReconnects` are the network and
Telethon; `SupKeepalive`, `SupHeartbeat`, `SupFailsafe` the monitors that ask;
`SupReconnect` … `SupHelper` the lightweight recovery and its escalation, `SupHardLock`,
`SupTearDown`, `SupCancelOrphans` the full one; `SupStop` and `SupSignal` the way out. `LongTasks` are
the names of the process's tasks, of which `Protected` survive the cancellation.
The memory monitor, jitter and messages to the owner are left out.
### CallbackGate

The clicks on one panel, each delivery a task. `recent` is the window of query ids,
`turn` the panel's entry of `_turns` (dropped and created anew, hence its id),
`painter` its `PanelPainter`, `slips` history. `GateAdmit` is `admit`; `GateArrive`, `GateLapse`,
`GateGiveUp`, `GateDispatch` and `GateCancel` are `acquire_turn` with its bounded wait
(the expiry and the coroutine's reaction to it are two steps, as in asyncio) and
`release`; `GateHandled` and `GateDrain` are the handler's end and `PanelPainter`; `GateClose`,
`GateForget` and `GateTimer` the closing by a click or by the timer. The other two gates
differ in their keys only. Noted about closing: `timeout_panel` calls `timers.stop`,
which cancels the very task it runs in, so `_close_message` is cut at its first
await; `close_panel` forgets the painter only after the closing edit, so a pending
view can be painted over the closed message, against `helper/panels.py:643-644`; and
the views of a handler that runs while the timer closes are painted still.
`ClosedPanelsStayQuiet` is about what a panel does after it has been forgotten.

### ReplyAllowance and PolicyState

`ReplyAllowance` is one person: `row` the counter row, `locks` the bounded table of locks
(which may drop a lock that is held), `replies` the handlers. `ReplyRead`/`ReplyWrite` are
`claim_private_message_ai_reply` with its compare-and-swap, `ReplyDeliver` the generated
answer, `ReplyRelease` the compensation, `ReplyAbandon` a cancellation or a timeout
after which the worker thread goes on. Stamps are kept as instants with their author,
since microseconds tell two claims apart. The `unlimited` flag, and the expiry of the marks by which updates are deduplicated, are
left out. `PolicyState` is the settings document: `config` the row, `policy` the copy in
memory with `_loaded` and `_locally_mutated`, `loads` the load tasks that callers share,
`changes` the owner's, `ghosts` writes that may still land. A change's validation
and the rebinding to a new event loop are left out.

### MessageArchive

`arcDb` holds both stores: dedicated rows and settings, shards and the older document.
`bot` is the memory of the service, `arcTask` the updates, removals, settings changes and
sweeps, `late` the writes that may still land, `arcLog` history.

| Actions | Code |
|---|---|
| `Probe`, `LoadBegin`, `LoadRead`, `Refresh`, `PauseEnds` | `aed_store_mode`, `ensure_loaded_async`, `_read_config`, `reload_async` |
| `ImportRead`, `ImportWrite` | `_import_legacy_store` |
| `Receive`, `LockTaken`, `ReadRows`, `SaveRows` | `record_message`, `record_deletion`, `load_rows_async`, `_save_rows` |
| `RemoveBegin`, then the same | `delete_group`, `clear_archive` |
| `ChangeBegin`, `SaveSettings` | `set_enabled`, `set_retention_days`, `_persist_state` |
| `SweepBegin` … `SweepSave` | `cleanup_expired`, in both its forms |
| `LateLands`, `ArchiveRestart`, `ArchiveTick` | a late thread, a restart, a day |

A write of shards may stop between two of them; a thread that goes on after its
caller has given up completes its whole write. Rows have an order (`n`) because the
shards are slices of a list. A day passes between tasks only. Noted: an update is noted as
handled before it is recorded, so a capture whose write fails is dropped for a
quarter of an hour when Telegram delivers it again; a torn write can lose or
duplicate a row that moved from one shard to the next.

### GhostSeen

`allowRow` is the row of allowed chats, `grants` its copy in memory with the state of
its only load; `toggles` the clicks on permissions; `panels`, `selections`, `armed`,
`asking`, `drafts` the navigation and the dictionaries of service and handlers; `typed`
and `aiRuns` the replies under way; `strays` writes that may still land; `told` and
`losses` history.

| Actions | Code |
|---|---|
| `GhostPreload`, `GhostLoad` | `register`, `_ensure_allowed_loaded_async`, `_load_allowed_chats_task` |
| `ToggleBegin`, `ToggleLoaded`, `ToggleSnapshot`, `ToggleWrite`, `ToggleShown`, `StrayLands` | `_toggle_permission_action`, `_persist_allowed_to_db` and its thread |
| `OpenPanel`, `OpenChat`, `ChatOpens`, `Select`, `ClearSelection`, `ShowActions`, `LeaveActions` | `create_panel` and the handlers of the viewer |
| `AskText`, `Type`, `TypedEnds` | `_begin_input_for`, the input listener, `_ghost_reply_input_handler` |
| `OfferAI`, `BeginAI`, `AIAnswered`, `AISent` | `_ai_generate_action`, `_ai_disclosure_action`, `_run_ai_reply` |
| `GhostRestart` | a new process |

Clicks of one panel take turns, so a panel waits for its AI reply; a panel opened anew
in the same chat does not. Paging, search and previews are left out, and so is the
difference between a reply and a plain message. A selection is one chat's, whichever
panel made it. Noted: `disallow_chat` looks the pending reply up by the chat that is
read, while it is kept by the chat of the panel; that a typed reply is refused all
the same rests on two things: the selection is cleared with the permission, and the
click that could make it again cancels the input asked for.

**Excuses.** `losses`, `slips`, `excuses`, `leaked`, `restarted`, `missed` and `arcLog.why`
record the rare events
under which a promise of the code does not hold. A property names the ones it
needs and no other; each was found by TLC as a counterexample to the property
without it, and is a finding (section 4) where a doc of the code promises more.
`restarted` was found by an attempt at the proof: a claim keeps its instant over its
attempts (`claim_private_message_ai_reply` computes it once), so one that landed
unconfirmed begins the same window a second time when the owner resets the counters
before the next attempt, and more than the limit can be sent in it.

## 3. The runs

| Run | Question | Result |
|---|---|---|
| `sched_safety` | with two slots, a crash, a park, a retry and one pause or edit, is an occurrence executed exclusively, never early, never after an uncertain crash, and within its life cycle? | holds |
| `sched_cadence` | with pause, resume, a park and a crash, is no boundary skipped unstarted and every due one served, and does every started occurrence settle? | holds |
| `sched_events` | with a deletion or completion and a crash, does a deleted task leave no row? | holds |
| `components` | do chain, panel, providers, supervisor, credentials, archive and the chats read unseen keep their promises, and does what they begin end? | holds |
| `services` | do todos, tool rounds, reply allowance, reply settings and the degraded store keep theirs, and does what is asked of them end? | holds |
| `sched_stale_edit` | does an old definition never start after an edit? | refuted |
| `sched_overrun` | is a due task served after any downtime? | refuted |
| `sched_live_recovery` | are event occurrences exclusive while recovery runs? | refuted |
| `sched_stale_delete` | does a stale deletion change nothing? | refuted |
| `sched_lost_reply` | does the owner's reply make its occurrence due? | refuted |
| `tool_unseen_approval` | does a "yes" approve only what its sender was shown? | refuted |
| `gate_shared_turn` | does one click of a panel run at a time? | refuted |

What the two large runs check:

| Component | Properties |
|---|---|
| chain | `SucceededActionsNeverRepeat`, `EffectsFollowTheChain`, `AnswersStayProven` |
| panel | `TurnsAreHandedOn`, `NewcomersNeverOvertake`, `NewestViewIsNeverStranded`, `ClosedPanelsStayQuiet` |
| providers | `DownProvidersStayOut`, `AmbiguousLimitsBurnTwoCandidates` |
| credentials | `FailedPairsStayOut` |
| supervisor | `OneOwnerOfTheConnection`, `RecoveryNeverRebuilds` |
| archive | `ArchivedRowsStay`, `RemovedRowsStayRemoved`, `SettingsOutliveOutages` |
| chats read unseen | `ConfirmedPermissionsSurvive`, `RepliesFollowTheSelection` |
| todos | `StepsKeepTheirPlaces`, `CompletionMissesOnlyLaterWrites`, `OnlyEarlierOperationsReviveSteps` |
| tool rounds | `CallsRunOnceAndAreReportedSo`, `ApprovalsAreSpentOnce` |
| private messages | `AllowanceIsKept`, `SavedSettingsSurvive` |
| degraded store | `EffectsFollowRows`, `ConsumedTasksWereServed` |
| all | `WhatBeginsEnds`, `WhatIsAskedEnds`, a type invariant each |

Each property of a passing run has a mutant in `PROJECT.json`: a plausible bug
(`\* mutant` in the modules) under which TLC finds that property violated.

**Bounds.** Boundaries are per task and rows per boundary, so one task with two
boundaries (`MaxTime = 2`, and a third beyond the horizon) already has a current
occurrence, a prepared one and a missed one. Two slots are the smallest pool in
which a retry and a boundary, or two retries, overlap; the slots are
interchangeable, so safety runs use their symmetry (liveness runs never do). One
crash suffices for what a *single* dead process leaves; recovery may crash too,
because `Crash` is enabled in every phase. `MaxAttempts = 2` (3 in the code) has a
first, a charged and an exhausted attempt. `MaxSteps = 10` is out of reach except in
`sched_overrun`, where 3 stands for 1000 (a one-minute task that was down about
seventeen hours). `sched_cadence` has no edit because the discard that ends an edit can
take a boundary's row from the sweep (section 4, smaller observations), and one
slot because liveness is checked without symmetry. `sched_events` has one attempt: an
event, a one-shot, a deletion and a crash with two attempts grow ten times; retries
of event rows are exercised in `sched_live_recovery`.

In `components`: five chains (a condition with a question and waits over either
store, a generated one, one whose contract fails, two generated actions), three
attempts, one instant of waiting. Four deliveries of two queries, a window of one:
enough for a holder, two waiters of which one lapses, and a third to whom the turn
is wrongly given. Two requests over three models of one provider, or one of each of two; one slot
each; every cooldown one tick, and thresholds of two (3 and more in the code), so a
failure below and one at each threshold occur. Three recovery tasks: a holder, an
escalation that inherits and a rival. Three candidates with two keys, one and none, two chunks.
Fifteen plots of two archive tasks over two rows, before, during and long after
the migration or after a fresh install, with at most one failed call and one restart, three shards of one
row, two versions, and two days, of which the owner keeps rows two and the default
one. A plot states which tasks meet because they together are the pairs that
share state, and all tasks at once do not fit the time a run may take. Of the chats read
unseen, three instances: two toggles over two chats with a failed call and a
restart; one toggle beside eight clicks of two panels, one of which is in the very
chat it reads; and six clicks over two chats. A whole reply takes five or six clicks;
eight leave room to disturb it.

In `services`: two clients of a todo with three steps, adds of one or two and four
operations (two adds that together overflow, or an add, a completion and a reopen);
three messages of a chat, two of which may approve, two rounds and two slots; two
handlers for a person with a limit of two, one earlier reply, two tries of a swap
and one lock evicted; two changes and three loads of the settings with a budget of
failures, refreshes and restarts each; two tasks asked of the degraded store, or
one with outages, a late write, a restart and an edit.

Deadlock is checked in the runs of the scheduler, where the wake loop never stops.
`components` and `services` say `CHECK_DEADLOCK FALSE`: their instances have finitely many
clicks, requests and tasks, and stop when these are served. That nothing stops
*before* is what `WhatBeginsEnds` and `WhatIsAskedEnds` check.

**Fairness.** `TaskScheduling!Fairness` is weak fairness of the wake loop, of
recovery, of restart, of time, of every coroutine's step and of the end of a
management operation already begun: asyncio runs every ready coroutine, the wake
loop sleeps a bounded time, and the platform restarts a dead process. Crashes,
messages and the start of an owner's operation owe nothing. A wait for the owner's
answer is an outcome of `StartedEventuallySettles`, since nobody owes an answer.
`TodoSteps!FairSpec` is strong fairness of an add, because `asyncio.Lock` wakes its
waiters in order: a waiter cannot be overtaken for ever.

The two large runs ask for weak fairness of the steps of a component's tasks
together: whenever some task can run, the event loop runs one. Since a component's
tasks are finitely many with boundedly many steps, that is enough for all of them to
end. Of the supervisor it asks for each task, since monitors could keep each other busy for ever. Nothing is
asked of the network (`SupDrop`, `SupTelethonReconnects`), of a panel's handler (which may hang:
`GateLoop` leaves `GateHandled` out, and a click ends behind it all the same), of the
owner or of faults; only an outage of the store ends. The archive is not part of the
liveness property, because each of its tasks takes boundedly many steps anyway.

## 4. What the runs refuted

Each is a finding in `PROJECT.json`, with the quoted claim and its line. The first
seven have a run of their own that ends in a counterexample. The others are claims
that a passing run had to weaken; the property says exactly what holds instead.

1. *Stale preparation* (`sched_stale_edit`). `_process_due_task` prepares the next
   boundary from the task it read before executing this one, even when
   `advance_next_run` lost its swap. An edit in between is undone for that boundary.
2. *Overrun* (`sched_overrun`). `advance_interval` raises after `max_steps` boundaries, before
   anything moves, so the task fails in the same way in every later sweep.
3. *Live recovery* (`sched_live_recovery`). The dispatcher is configured before `recover`
   runs. Recovery re-arms a row that a delivery has just created and claimed, and a
   second delivery claims it again.
4. *Stale delete* (`sched_stale_delete`). `delete_task` removes the occurrences before
   the one statement that is guarded by the version.
5. *Lost reply* (`sched_lost_reply`). The Supabase store spreads the reply's keys over
   columns the table does not have.
6. *Unseen approval* (`tool_unseen_approval`). A "yes" takes whatever approval its chat
   holds when it is handled, also one whose prompt came later or never.
7. *Shared turn* (`gate_shared_turn`). A waiter whose wait lapsed takes its absence from the
   queue for a granted turn and passes on a turn another click is using.
8. *Completed todo with a remaining step* (`CompletionMissesOnlyLaterWrites`). No step
   write moves the todo's version.
9. *Hard reset* (`RecoveryNeverRebuilds`). The cancellation of orphan tasks takes the main
   task along, so the process ends where a rebuilt client was promised.
10. *Spent allowance* (`AllowanceIsKept`). A claim that landed unseen, a cancellation after
    it or a lost release counts a reply nobody received.
11. *Unserved boundary* (`ConsumedTasksWereServed`). A claim answered by the in-memory
    store is taken for a lost race, and the boundary is advanced.
12. *Shared ids* (`EffectsFollowRows`). When the store is away for the read of its highest
    id as well, memory tasks are numbered from the ids of durable ones, and an edit or a
    write then meets the wrong task.
13. *Settings of the replies* (`SavedSettingsSurvive`). An older document that could not be
    read counts as absent.
14. *Settings of the archive* (`SettingsOutliveOutages`). The same, and the owner's next
    change writes the very marker that ends the import.
15. *Sweep* (`ArchivedRowsStay`, `RemovedRowsStayRemoved`). It takes no lock and may use the
    default retention; of the shard documents it replaces every row, so what was written
    since it read is lost, and what was removed since is back.
16. *List of allowed chats* (`ConfirmedPermissionsSurvive`). Its only read counts as done
    before it begins; after a failed one the next toggle stores a list without what
    the row had.
17. *Two stores* (`RemovedRowsStayRemoved`). A failed probe answers for one call; a
    removal then reads one store and writes the other.

Smaller observations met while modelling, with no run of their own, beside those in
section 2: a pause followed by an edit of the schedule gives a paused task a
`next_run_at`; an edit racing the sweep can skip a boundary, because `Discard` judges rows
by the instant of the edit: a boundary that falls due before the discard has run is
created by the sweep, dropped, found missing by its claim and advanced past, so
`BoundaryConsumedOnceStarted` fails with an edit in the instance; a position is used again
after the last step is deleted, and the limit is judged on the last position, so a todo
with deleted steps in the middle holds fewer than the limit; a prepared row of a
paused task is re-armed by the recovery that follows its boundary; after a stale
deletion (4), the boundary's row is created afresh and executed again, which is why
the theorem on uncertain occurrences excludes deletions; a credential plan that ends
after several attempts reports exhaustion although only one provider's pool was tried.

## 5. The proofs

Everything below holds for every value of the constants, under the assumptions named
in the modules (TLC evaluates them in every run).

**`TaskSchedulingProofs`**

* `TypeCorrect`: `Spec => []TypeOK`. The inductive form `TypeInv` has one conjunct per
  component. It adds that a coroutine which is not idle holds a real key, that only
  a due boundary reaches `advance` or `prepare`, and that a due item is clock-driven;
  without these `Advance` could index a task by a message.
* `NeverBeforeBoundary`: `Spec => []NotBeforeBoundary`. What a coroutine executes was
  started from a claimed row, a retry or a queued item, so the invariant bounds all
  four places where a boundary can be held (`BoundInv`): the reference of the wake
  is not ahead of the clock, a row past `claimed` has a boundary not ahead of it,
  and so have the queue and every coroutine. The claimed rows are the exception —
  prepare-ahead creates them early — and `Future` is what keeps recovery off them.
* `UncertainIsFinal`: while the owner deletes no task,
  `Spec => []UncertainNeverReplayed`. A crash leaves such a row `running`; the
  strengthening `UncertainInv` says it is `running` or `failed` from then on, that
  recovery's snapshot shows it `running`, and that recovery never has it in hand as
  an interrupted row; neither status can be claimed.
* `DeletedTasksLeaveNothing`: `Spec => []NoOrphans`. Inductive once two facts hold of
  every step: a row appears only under a task that exists (`Grounded`), and a task
  goes only by `DeleteTask`, when no row is left, and never returns (`Buried`).

* `OneExecutionAtATime` (`ExclusiveExecution`) and `LiveRunsAreRunning`
  (`ExecutingIsRunning`), with no event task and no deletion. The claim is not a lock —
  it admits an interrupted row, and recovery interrupts claimed rows — so `RunInv` adds
  that no work is queued and no coroutine lives until recovery is over
  (`RecoveryIsAlone`). Events are delivered earlier and break it (finding 3); a deletion
  wipes the row of a live run.
* `NoBoundaryIsSkipped` (`BoundaryConsumedOnceStarted`, an action property), while the
  owner neither edits nor deletes. The order of `_process_due_task`'s writes is not enough,
  for other sweeps, retries and recovery write the row between its claim and its advance,
  and a pause or a resume clears or moves the boundary. `CadenceInv` adds that a coroutine
  due to advance leaves a started row behind (`CadenceRows`), that the version it read
  stands for the boundary it read with it (`CadenceReads`), and every step that no row
  goes back to unstarted (`Forward`) and no boundary moves under the same version
  (`Versioned`). An edit discards claimed rows and does break it (section 4).

* `OccurrencesLiveTheirCycle`, with no event task and no deletion: `Spec => Implements`, the refinement of
  `OccurrenceLifecycle`. The abstract specification compares side effects with
  attempts, which no code does; `LifeInv` supplies what makes it true: a row that may
  still run has an unused attempt (`RowInv`), a coroutine executes the attempt of its
  row (`ChargeInv`), recovery's snapshot and the row in hand still are what the
  store holds but for rows an edit discards (`SnapshotInv`), and no interrupted row
  is left to the wakes (`ResolvedInv`). Every step is then a turn of one row's
  status, its side effect, a crash that forgets who acted, or a stutter.

**`RepositoryProofs`**

* For any asks, outages, late writes, restarts and edits, `TasksRunOncePerStore`
  (`EffectsFollowRows`) and `BoundariesWereServed` (`ConsumedTasksWereServed`). The
  invariant says whose a row is (`RowsInv`: a store holds a task only if that store gave it
  its id, and an occurrence only of a task that was given that id), that a task is written
  to a store at most once (`GivenInv`, a write that may still land included), that what
  was carried out or is about to be is no more than the stores in which the task's
  occurrence got past its claim (`EffectsInv`), and what the scheduler, a late write and a
  consumed boundary each know to have been served (`WorkerInv`, `LateInv`, `DueInv`). The
  rows of the fallback end with the process, so there "past its claim" has to include
  "gone" (`RanBeside`). `Follows` relates a store before and after a step, and every step
  that gives no new id is shown to follow.
* For any clients and limits, `TodoTypeCorrect` and `StepsStayInPlace` (`StepsKeepTheirPlaces`). Whoever is about to
  insert holds the lock and has room above the last step it read (`LockInv`,
  `RoomInv`), live steps have distinct positions (`PlaceInv`), and new ids are unused
  (`UnusedInv`). The code judges the limit on the last position and counts nothing;
  that a todo holds no more steps than the limit follows because the live steps
  inject into their positions.
* `DegradedTypeCorrect` (`DegradedTypeOK`): whatever the outages, late writes, restarts and
  edits, ids and versions stay within what was asked for. `GivenCounts` counts ids by the asks
  that hold them: the store's last id is the number of asks it was given to, the
  fallback's is at most that plus the number given to the fallback, and no durable id, and
  no durable ceiling, is above the store's last one. `RowsBounded` and `VersionBounded` add
  the edits that are left to every version on the way: a row gains one version for its
  boundary, and only under the version it was listed with while it was due
  (`AdvanceBounded`), so a late advance can never consume a boundary twice.
* `OnlyEarlierRevive` (`OnlyEarlierOperationsReviveSteps`) and `CompletionsMissLaterWrites`
  (`CompletionMissesOnlyLaterWrites`), for any clients and limits. The two action
  properties follow from what an operation remembers: whoever may still bring a step to
  life began at an earlier version of the todo than a completed todo has now
  (`EarlierInv`), and what a completion listed is still so or has gained a version since
  (`SeenInv`, `ListedDone`). Both rest on versions that only grow (`TodoAges`, `StepsAge`).

**`RuntimeProofs`**, for any number of recovery tasks. The invariant `SupInv` adds to
the type that a recovery in a stage past the lock is its holder (`HolderInv`; an
escalation keeps the lock of the reconnect it came from), that the run loop is down
while the holder works on the client (`LoopInv`), and that no client was rebuilt.

* `SupTypeCorrect`, and from the same invariant `ConnectionHasOneOwner`
  (`OneOwnerOfTheConnection`) and `NoClientIsRebuilt` (`RecoveryNeverRebuilds`).

The same module, for chains with any snapshots, attempts and horizons. What a record says of
an action is copied between the memory of the attempt, the row's result and the row's
error, and each copy may be stale, so `ChainInv` states of each what it may say
(`Sound`: nothing it calls succeeded did not succeed, nothing is skipped before the
condition was decided) and what it must (`Covers`: whatever finished and the branch that
has taken effect); `WalkInv` is about the attempt, `RowInv` about the copies the next
attempt would start from, `HistoryInv` about the effects themselves.

* `ChainTypeCorrect`, `AnswersAreKept` (`AnswersStayProven`), `NothingIsRepeated`
  (`SucceededActionsNeverRepeat`, an action property) and `EffectsKeepTheOrder`
  (`EffectsFollowTheChain`).

The same module, about what an AI request runs through:

* For any providers, slots and penalties, `MeshTypeCorrect`, `LimitsBurnTwo`
  (`AmbiguousLimitsBurnTwoCandidates`) and `DownStaysOut` (`DownProvidersStayOut`, an
  action property). The code counts no limits; `Walks` says where a request stands when
  it has met one or two: the first spent its probe of the provider, and a second took the
  provider down, so that the walk has left all of its models behind, whoever brings the
  provider back (`Counted`). That rests on the pool: models of one provider stand together
  (`DownProvidersArePassed`). `QueuesHold` says that a waiter waits once and for the provider of
  its candidate, so that a freed slot wakes a request that wants it; `RequestMoves` is
  the one lemma about `Move`, and `Honours` and `Enables` are what a step may do to whom
  it contacts and to a provider that was rejected.
* For any pools, orders, limits and chunks, `RotTypeCorrect` and `FailedStayOut`
  (`FailedPairsStayOut`). `InLine` says of each phase that the candidates and keys in line
  have not failed, that the candidate under way is not in line any more, and that the
  pin, which the code never compares with what failed, has not failed or is behind: a pin is
  set by a success only, and one whose credential fails later is not in line again before
  the next success replaces it.
* That a first candidate and a first key exist is that a set of numbers has a least
  member (`LeastOf`, from the well-foundedness of `<`); no induction over data is needed.

**`PanelProofs`**, for any number of clicks, and any chats, messages, panels and toggles

* `GateTypeCorrect`, `TurnsStayHandedOn` (`TurnsAreHandedOn`), `NobodyOvertakes`
  (`NewcomersNeverOvertake`), `NoViewIsStranded` (`NewestViewIsNeverStranded`) and
  `ClosedStaysQuiet` (`ClosedPanelsStayQuiet`), from one invariant, `GateInv`. Who has the
  turn is written nowhere in the code: `HoldsTurn` says it of a task that handles, was granted
  the turn, or lapsed and is no longer queued. A turn in use has a holder, whoever waits is
  queued behind a turn in use (`QueueInv`), and until a waiter is skipped there is one
  holder (`HeldOnce`). `Passes` describes what `_grant` and `release_turn` do in these terms
  and is used by every action that passes the turn on; `WithoutFacts`, `AppendFacts` and
  `BehindFacts` say what happens to the queue. That views are numbered within their type
  needs a count: those published and the clicks not yet over with the handler are no more
  than the deliveries (`Room`).
* `GhostTypeCorrect` and `PermissionsSurvive` (`ConfirmedPermissionsSurvive`). A toggle is
  confirmed long after it changed the list in memory, and another may have written a list
  of its own meanwhile: `ListInv` says which of memory, the list being written and the
  row agree with a toggle at each of its stages, and with the owner once it is told.
* `RepliesStaySelected` (`RepliesFollowTheSelection`). The typed reply is sent without a
  second look at the permission; `AskedInv` is why that is right: while a text is
  awaited, its message is no longer the one selected, or its chat is allowed.

**`PrivateMessageProofs`**, for any changes and loads, and any handlers, limit and intervals

* `PolicyTypeCorrect` and `SettingsSurvive` (`SavedSettingsSurvive`). While nothing is
  excused, one load runs at a time, the row has what was saved, whoever writes extends the
  policy in force (`Extends`), that policy is the stored one from the first load on
  (`InSync`), and what a load is about to install is not older than the row unless a
  change made it stale (`ReadIsFresh`).
* `AllowanceTypeCorrect` and `AllowanceKept` (`AllowanceIsKept`). The counter, not the
  replies, is what the code compares; `CountInv` ties them: in the window of the row as
  many replies are sent or on their way as it counts (fewer once an allowance is lost),
  and the same holds of the row a claim replaced when it opened a window, which its
  release may put back. That needs windows to begin once (`OpenedOnce`): until a claim
  writes, nobody has seen its instant; a claim that wrote unanswered and tries again meets
  its own window or a set of windows opened above it, none of which has expired for it.

The same module, for any requests, batches and limits. No property of the calls is
inductive alone: that a call has not run depends on the position of its request in its batch,
on the batch being of the current answer, and on where its approval is. `ToolInv`
therefore says where each call stands: its shape and that of the requests
(`ToolShape`), the calls stored for approval (`StoredInv`) and taken out (`TakenInv`), those
that ran (`RanInv`: of an earlier answer, or before the position, or approved) and those
reported as not run (`ReportInv`).

* `ToolInvariant`, `CallsRunOnce` (`CallsRunOnceAndAreReportedSo`), `ApprovalsSpentOnce`
  (`ApprovalsAreSpentOnce`).
* `ToolTypeCorrect` (`ToolTypeOK`). The code bounds rounds and the calls of one batch, but no
  answers: `TurnInv` says that a request has one answer more than rounds where its next round
  is to begin and as many where it asks again (`TurnOf`), so that every call of a request, stored
  and seen ones included, is one of finitely many; and that the requests under way are a
  finite set, no larger than the slots, because the only step that enters it looks first.

**`ArchiveProofs`**, for any tasks, stores, bounds and failures

* `SettingsStayTheOwners` (`SettingsOutliveOutages`). Settings are written unconditionally
  everywhere, by changes, by the import and by threads that outlive their callers. Until
  one of the excused losses, `SettingsInv` says why that is right: whoever talks to a
  store talks to the one in use, and nothing but what the import has marked is read from
  the tables (`BotIs`, `TaskIs`), so what is loaded is what is in force; a change begun,
  in flight or landing late writes the change of that (`LateIs`), and a second change
  changes nothing more (`ChangedTwice`); the import carries the older document, whose
  meaning the settings row then takes over. Most steps leave the settings alone (`Steady`).
* `ConfirmedRowsStay` (`ArchivedRowsStay`) and `RemovedRowsStayGone`
  (`RemovedRowsStayRemoved`). Rows are replaced wholesale, by whoever read them last, so
  both rest on `BaseInv`: who is between its read and its write holds the lock, and no
  update, change or sweep is served before the import of the older store is done, which
  only the first load and a removal (under the lock) carry out. Until a call goes to the
  other store, an import is cut short or a write lands late, this is inductive, and
  `KeptInv` then says that what is kept is in the store, in the older shards as long as
  nothing marks them as imported, and in the hands of whoever is to replace the rows,
  unless that is what it drops. Rows are split over the shards by their rank, and those
  past the last shard are lost: a list that was cut at the bound fits (`BoundedFits`,
  `SplitKeepsAll`), by counting. A sweep drops by the retention it read, which until
  such a loss is of the same kind as the one in force (`ClassTask`).
* `RemovedInv` says that a removed row is neither in the store nor with anyone who will
  write rows, and that nothing is removed before the import is marked, so that no import
  brings it back. The row of an update under way is not one of them because rows are
  numbered as they are made (`Numbered`). TLC over all pairs of jobs on all four stores
  found, before it was proved, that a sweep of the shards beside a removal has to be
  excused here as well (section 4, 15).
* `ArchiveTypeCorrect`: `ArchiveSpec => []ArchiveTypeOK`, whose last conjunct is the point:
  no store holds more rows than the limits allow. No write checks that; each replaces the
  rows by what its task had computed, so `BoundInv` says it of every set of rows there is —
  both stores, the tasks between their read and their write, the writes that may still
  land — until a write of the shards is torn. A row comes in only by `WithRow`, which cuts
  the row with the least number when a message has too many versions or the archive is
  full; there is a least one because numbers are natural (well-foundedness), it is one row
  because no two rows anywhere share a number, and the new row has the next (`captures`).
  The assumptions are those of the code: the limits are positive, and what a store holds
  before the first step is within them and numbered as it was made.

**`ComponentsProofs`** and **`ServicesProofs`**, about the two compositions

* `ComponentsAreThemselves` and `ServicesAreThemselves`: a behaviour of the composition is a
  behaviour of each of its parts, since a step moves one part and leaves the others' variables
  alone. Every theorem above therefore holds where the runs check it:
  `ComponentsTypeCorrect` (`ComponentsTypeOK`), `ServicesTypeCorrect` (`ServicesTypeOK`), and
  `ComponentsKeepTheirPromises` and `ServicesKeepTheirPromises`, which state every other
  safety and action property of the two runs.

Only model-checked: all liveness (`WhatBeginsEnds`, `WhatIsAskedEnds` and the scheduler's), which,
like `ENABLED`, is out of the prover's reach. Every invariant and every action property of the
passing runs is stated by a theorem; those of the scheduler under the conditions named with them.
No recursive definition is used.

## 6. Not modelled

* *Task creation and notifications*, the parsing of requests and of schedules, calendar
  arithmetic (daily clocks, time zones): transformations of data, with no state of their own
  beyond the store they end in.
* *Content preparation* ahead of a boundary, except that it may fail.
* *The other services* (saved items, translation, media engines beyond the
  rotation of their credentials, weather, downloads): most keep nothing between calls.
  Saved items do, and come next.
* *Emoji, profile, clock*: a loop that rewrites the owner's name and a table of emoji.
* *Handlers, client, web, observability, the dashboard*: I/O, wording and display.
* *Degraded store*: deletion, discards and event queries there; more than one task at
  a time. *Panels*: the other two gates, which differ in their keys only.
* *Of the supervisor*: the start of the runtime beyond the scheduler's, the memory and
  media monitors.

The hazards in `PROJECT.json` without a property have a note that says which of these
they belong to, or which finding shows that no property can be stated.

## 7. Plan

Done: the modules of section 2, twelve runs, eight modules of proofs. Next, in this order:

1. Saved items: saving, moving and deleting over Telegram and the database.
2. The name clock and the emoji table; the creation of tasks with its confirmation.
