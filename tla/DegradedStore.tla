----------------------------- MODULE DegradedStore -----------------------------
(***************************************************************************)
(* The task repository when its durable store fails:                       *)
(* SupabaseTaskRepository (ai/database/task_repository.py) answers a call   *)
(* whose round trip failed from an in-memory repository, one call at a      *)
(* time.  Nothing is copied between the two, and each issues its own ids.   *)
(* A round trip that times out goes on in its thread: its write may still   *)
(* land ("late").                                                           *)
(*                                                                         *)
(* On top of it, the owner asks for tasks and the scheduler serves their    *)
(* boundaries and recovers after a restart.  One action is one round trip   *)
(* with what follows it until the next one.  Every task is of schedule_type *)
(* "once" and due from its creation, so it has one boundary; its occurrence *)
(* key holds the id and the instant, so two tasks that share an id have two *)
(* occurrences.  The scheduler serves one task at a time here; an           *)
(* occurrence succeeds or fails for good.                                   *)
(***************************************************************************)
EXTENDS Integers, FiniteSets

CONSTANTS
    Asks,           \* what the owner asks for: one task each
    Budgets,        \* bounds: what is asked for in a behaviour, how often the store
                    \* becomes unreachable, how many writes land after their caller
                    \* gave up, restarts, and edits of a stored task by the owner
    MaxEdits        \* the largest of those edits

NoAsk == 0

ASSUME DegradedAssumption ==
    /\ IsFiniteSet(Asks) /\ NoAsk \notin Asks /\ MaxEdits \in Nat
    /\ Budgets \subseteq [asks: SUBSET Asks, outages: Nat, late: Nat, restarts: Nat, edits: 0 .. MaxEdits]

TaskIds == 1 .. 2 * Cardinality(Asks)
Keys == TaskIds \X Asks
NoTask == [ask |-> NoAsk, version |-> 0, due |-> FALSE]
NewTask(a) == [ask |-> a, version |-> 1, due |-> TRUE]
EmptyStore == [tasks |-> [id \in TaskIds |-> NoTask], occs |-> [k \in Keys |-> "none"], last |-> 0]
NoWrite == [op |-> "none", id |-> 0, ask |-> NoAsk, from |-> "none", to |-> "none", version |-> 0]
IdleWorker == [pc |-> "idle", id |-> 0, ask |-> NoAsk, version |-> 0, retry |-> FALSE,
               from |-> "none", todo |-> {}]

VARIABLES
    stored,   \* the tables of the store, with the last id its sequence issued
    memory,    \* the fallback, with the last id it issued
    seen,      \* _max_durable_task_id
    net,       \* is the store reachable, and what is left of the budget
    late,      \* a write whose caller gave up on it
    asks,      \* ask -> where its create_task stands
    worker,    \* where the scheduler stands
    carried,   \* ask -> times its actions were carried out
    given,     \* history: ask -> the <<store, id>> its task was given
    missed     \* history: keys whose claim did not get the answer of the store

degradedVars == <<stored, memory, seen, net, late, asks, worker, carried, given, missed>>

DegradedInit ==
    /\ stored = EmptyStore /\ memory = EmptyStore
    /\ seen = 0
    /\ \E b \in Budgets :
          /\ net = [up |-> TRUE, outages |-> b.outages, late |-> b.late,
                    restarts |-> b.restarts, edits |-> b.edits]
          /\ asks = [a \in Asks |-> IF a \in b.asks THEN "new" ELSE "done"]
    /\ late = NoWrite
    /\ worker = IdleWorker
    /\ carried = [a \in Asks |-> 0]
    /\ given = [a \in Asks |-> {}]
    /\ missed = {}

-----------------------------------------------------------------------------
(* The two stores. *)

\* A read is answered by the store that can be reached.
Read == IF net.up THEN stored ELSE memory

\* get_task and list_tasks observe the id of every row of the store they return.
Larger(m, n) == IF m >= n THEN m ELSE n
Observed(id) == IF net.up /\ stored.tasks[id] # NoTask THEN Larger(seen, id) ELSE seen

Inserted(store, id, a) == [store EXCEPT !.tasks[id] = NewTask(a), !.last = id]
Moved(store, key, to) == [store EXCEPT !.occs[key] = to]
Consumed(store, id) == [store EXCEPT !.tasks[id].due = FALSE, !.tasks[id].version = @ + 1]

\* What a write does to the tables of the store: each is conditional in SQL.
Landed(w) ==
    LET key == <<w.id, w.ask>>
    IN  CASE w.op = "task" -> Inserted(stored, stored.last + 1, w.ask)
          [] w.op = "occurrence" /\ stored.tasks[w.id] # NoTask /\ stored.occs[key] = "none" ->
                 Moved(stored, key, "claimed")
          [] w.op = "move" /\ stored.occs[key] = w.from -> Moved(stored, key, w.to)
          [] w.op = "advance" /\ stored.tasks[w.id].version = w.version -> Consumed(stored, w.id)
          [] OTHER -> stored

\* The write is answered by the store; or the caller gives up on it and it may
\* land later; or the store refuses it or cannot be reached.
Answered(w) == net.up /\ stored' = Landed(w) /\ UNCHANGED <<net, late>>
GivenUp(w) ==
    /\ net.up /\ late = NoWrite /\ net.late > 0
    /\ late' = w /\ net' = [net EXCEPT !.late = @ - 1]
    /\ UNCHANGED stored
Unreachable == ~net.up /\ UNCHANGED <<stored, net, late>>

LateLands ==
    /\ late # NoWrite
    /\ stored' = Landed(late)
    /\ given' = IF late.op = "task"
                THEN [given EXCEPT ![late.ask] = @ \union {<<"durable", stored.last + 1>>}]
                ELSE given
    /\ late' = NoWrite
    /\ UNCHANGED <<memory, seen, net, asks, worker, carried, missed>>

LateIsLost ==
    /\ late # NoWrite /\ late' = NoWrite
    /\ UNCHANGED <<stored, memory, seen, net, asks, worker, carried, given, missed>>

StoreGoes ==
    /\ net.up /\ net.outages > 0
    /\ net' = [net EXCEPT !.up = FALSE, !.outages = @ - 1]
    /\ UNCHANGED <<stored, memory, seen, late, asks, worker, carried, given, missed>>

StoreReturns ==
    /\ ~net.up /\ net' = [net EXCEPT !.up = TRUE]
    /\ UNCHANGED <<stored, memory, seen, late, asks, worker, carried, given, missed>>

-----------------------------------------------------------------------------
(* The owner. *)

AskInsert(a) ==
    LET w == [NoWrite EXCEPT !.op = "task", !.ask = a]
    IN  /\ asks[a] = "new"
        /\ \/ /\ Answered(w)
              /\ seen' = Larger(seen, stored.last + 1)
              /\ given' = [given EXCEPT ![a] = @ \union {<<"durable", stored.last + 1>>}]
              /\ asks' = [asks EXCEPT ![a] = "done"]
           \/ /\ GivenUp(w) \/ Unreachable
              /\ asks' = [asks EXCEPT ![a] = "ceiling"]
              /\ UNCHANGED <<seen, given>>
        /\ UNCHANGED <<memory, worker, carried, missed>>

\* _observe_durable_ceiling, the alignment of the ids, and the memory task.
MaxDurable == IF net.up THEN Larger(seen, stored.last) ELSE seen
AskFallback(a) ==
    LET id == Larger(memory.last, MaxDurable) + 1
    IN  /\ asks[a] = "ceiling"
        /\ seen' = MaxDurable
        /\ memory' = Inserted(memory, id, a)
        /\ given' = [given EXCEPT ![a] = @ \union {<<"memory", id>>}]
        /\ asks' = [asks EXCEPT ![a] = "done"]
        /\ UNCHANGED <<stored, net, late, worker, carried, missed>>

\* An edit of a stored task: read, check and swap, all answered by one store.
OwnerEdit(id) ==
    /\ net.up /\ net.edits > 0 /\ stored.tasks[id] # NoTask
    /\ stored' = [stored EXCEPT !.tasks[id].version = @ + 1]
    /\ net' = [net EXCEPT !.edits = @ - 1]
    /\ seen' = Observed(id)
    /\ UNCHANGED <<memory, late, asks, worker, carried, given, missed>>

-----------------------------------------------------------------------------
(* The scheduler. *)

Key == <<worker.id, worker.ask>>
Goto(pc) == worker' = [worker EXCEPT !.pc = pc]
Rest == worker' = IdleWorker

\* Whether or not it was executed, a due task goes on to its advance.
AfterRun == IF worker.retry THEN Rest ELSE Goto("advance read")

WorkDue(id) ==
    LET t == Read.tasks[id]
    IN  /\ worker.pc = "idle" /\ t # NoTask /\ t.due
        /\ worker' = [IdleWorker EXCEPT !.pc = "task", !.id = id, !.ask = t.ask, !.version = t.version]
        /\ UNCHANGED <<stored, memory, seen, net, late, asks, carried, given, missed>>

WorkRetry(key) ==
    /\ worker.pc = "idle" /\ Read.occs[key] = "retry_pending"
    /\ worker' = [IdleWorker EXCEPT !.pc = "claim read", !.id = key[1], !.ask = key[2], !.retry = TRUE]
    /\ UNCHANGED <<stored, memory, seen, net, late, asks, carried, given, missed>>

\* create_occurrence: without a task of that id there is nothing to schedule.
WorkTask ==
    /\ worker.pc = "task"
    /\ IF Read.tasks[worker.id] = NoTask THEN Rest ELSE Goto("occurrence")
    /\ seen' = Observed(worker.id)
    /\ UNCHANGED <<stored, memory, net, late, asks, carried, given, missed>>

\* Only a never-started occurrence is executed at its boundary.
AtBoundary(status) == IF status = "claimed" THEN Goto("claim read") ELSE Goto("advance read")

WorkOccurrence ==
    /\ worker.pc = "occurrence"
    /\ IF Read.occs[Key] = "none" THEN Goto("insert") ELSE AtBoundary(Read.occs[Key])
    /\ UNCHANGED <<stored, memory, seen, net, late, asks, carried, given, missed>>

\* The fallback refuses an occurrence of a task it does not have.
AdvanceUnscheduled ==
    IF memory.tasks[worker.id] = NoTask
    THEN Goto("advance read") /\ UNCHANGED memory
    ELSE IF memory.occs[Key] = "none"
         THEN Goto("claim read") /\ memory' = Moved(memory, Key, "claimed")
         ELSE AtBoundary(memory.occs[Key]) /\ UNCHANGED memory
InsertInMemory ==
    IF memory.tasks[worker.id] = NoTask
    THEN Rest /\ UNCHANGED memory
    ELSE IF memory.occs[Key] = "none"
         THEN Goto("claim read") /\ memory' = Moved(memory, Key, "claimed")
         ELSE AtBoundary(memory.occs[Key]) /\ UNCHANGED memory

WorkInsert ==
    LET w == [NoWrite EXCEPT !.op = "occurrence", !.id = worker.id, !.ask = worker.ask]
    IN  /\ worker.pc = "insert"
        /\ \/ /\ Answered(w) /\ Landed(w) # stored
              /\ Goto("claim read") /\ UNCHANGED memory
           \/ /\ \/ GivenUp(w)
                 \/ Unreachable
                 \/ net.up /\ Landed(w) = stored /\ UNCHANGED <<stored, net, late>>
              /\ InsertInMemory
        /\ UNCHANGED <<seen, asks, carried, given, missed>>

\* claim_occurrence reads, then swaps on the status it read.
Claimable == {"claimed", "retry_pending", "interrupted"}
Missed == missed \union {Key}

WorkClaimRead ==
    /\ worker.pc = "claim read"
    /\ \/ /\ Read.occs[Key] \in Claimable
          /\ worker' = [worker EXCEPT !.pc = "claim", !.from = Read.occs[Key]]
          /\ UNCHANGED missed
       \/ /\ Read.occs[Key] \notin Claimable
          /\ AfterRun
          /\ missed' = IF net.up THEN missed ELSE Missed
    /\ UNCHANGED <<stored, memory, seen, net, late, asks, carried, given>>

\* The fallback claims the occurrence if it has it, and else refuses.
ClaimAssumed == Goto("act") /\ UNCHANGED memory
ClaimInMemory ==
    IF memory.occs[Key] \in Claimable
    THEN Goto("act") /\ memory' = Moved(memory, Key, "running")
    ELSE AfterRun /\ UNCHANGED memory

WorkClaim ==
    LET w == [NoWrite EXCEPT !.op = "move", !.id = worker.id, !.ask = worker.ask,
                             !.from = worker.from, !.to = "running"]
    IN  /\ worker.pc = "claim"
        /\ \/ /\ Answered(w)
              /\ IF stored.occs[Key] = worker.from THEN Goto("act") ELSE AfterRun
              /\ UNCHANGED <<memory, missed>>
           \/ /\ GivenUp(w) \/ Unreachable
              /\ ClaimInMemory
              /\ missed' = Missed
        /\ UNCHANGED <<seen, asks, carried, given>>

WorkAct ==
    /\ worker.pc = "act"
    /\ carried' = [carried EXCEPT ![worker.ask] = @ + 1]
    /\ Goto("settle read")
    /\ UNCHANGED <<stored, memory, seen, net, late, asks, given, missed>>

\* transition_occurrence: an illegal transition ends the task's turn, an
\* occurrence that is not there does not.
WorkSettleRead ==
    /\ worker.pc = "settle read"
    /\ CASE Read.occs[Key] = "running" -> Goto("settle")
         [] Read.occs[Key] = "none" -> AfterRun
         [] OTHER -> Rest
    /\ UNCHANGED <<stored, memory, seen, net, late, asks, carried, given, missed>>

WorkSettle ==
    /\ worker.pc = "settle"
    /\ \E outcome \in {"succeeded", "failed"} :
          LET w == [NoWrite EXCEPT !.op = "move", !.id = worker.id, !.ask = worker.ask,
                                   !.from = "running", !.to = outcome]
          IN  \/ Answered(w) /\ AfterRun /\ UNCHANGED memory
              \/ /\ GivenUp(w) \/ Unreachable
                 /\ CASE memory.occs[Key] = "running" -> AfterRun /\ memory' = Moved(memory, Key, outcome)
                      [] memory.occs[Key] \in {"none", outcome} -> AfterRun /\ UNCHANGED memory
                      [] OTHER -> Rest /\ UNCHANGED memory
    /\ UNCHANGED <<seen, asks, carried, given, missed>>

\* advance_next_run: read, compare the version listed, swap on it.
WorkAdvanceRead ==
    /\ worker.pc = "advance read"
    /\ IF Read.tasks[worker.id].version = worker.version THEN Goto("advance") ELSE Rest
    /\ seen' = Observed(worker.id)
    /\ UNCHANGED <<stored, memory, net, late, asks, carried, given, missed>>

WorkAdvance ==
    LET w == [NoWrite EXCEPT !.op = "advance", !.id = worker.id, !.ask = worker.ask,
                             !.version = worker.version]
    IN  /\ worker.pc = "advance"
        /\ \/ Answered(w) /\ UNCHANGED memory
           \/ /\ GivenUp(w) \/ Unreachable
              /\ memory' = IF memory.tasks[worker.id].version = worker.version
                           THEN Consumed(memory, worker.id) ELSE memory
        /\ Rest
        /\ UNCHANGED <<seen, asks, carried, given, missed>>

-----------------------------------------------------------------------------
(* Restart and recovery. *)

Restart ==
    /\ net.restarts > 0
    /\ net' = [net EXCEPT !.restarts = @ - 1]
    /\ memory' = EmptyStore /\ seen' = 0
    /\ asks' = [a \in Asks |-> IF asks[a] = "ceiling" THEN "done" ELSE asks[a]]
    /\ worker' = [IdleWorker EXCEPT !.pc = "recover"]
    /\ UNCHANGED <<stored, late, carried, given, missed>>

\* recover: the store is asked once; a store that is down has nothing to resolve.
RecoverList ==
    /\ worker.pc = "recover"
    /\ worker' = [worker EXCEPT !.pc = "resolve",
                                !.todo = {k \in Keys : Read.occs[k] \in {"claimed", "running", "interrupted"}}]
    /\ UNCHANGED <<stored, memory, seen, net, late, asks, carried, given, missed>>

\* A running occurrence may have acted; an unstarted one is armed again.
Resolution == [running |-> "failed", claimed |-> "interrupted", interrupted |-> "retry_pending"]

RecoverOne(key) ==
    LET s == stored.occs[key]
    IN  /\ worker.pc = "resolve" /\ key \in worker.todo
        /\ IF net.up /\ s \in DOMAIN Resolution
           THEN /\ stored' = Moved(stored, key, Resolution[s])
                /\ worker' = IF s = "claimed" THEN worker ELSE [worker EXCEPT !.todo = @ \ {key}]
           ELSE /\ worker' = [worker EXCEPT !.todo = @ \ {key}]
                /\ UNCHANGED stored
        /\ UNCHANGED <<memory, seen, net, late, asks, carried, given, missed>>

RecoverDone ==
    /\ worker.pc = "resolve" /\ worker.todo = {}
    /\ Rest
    /\ UNCHANGED <<stored, memory, seen, net, late, asks, carried, given, missed>>

Work ==
    \/ \E id \in TaskIds : WorkDue(id)
    \/ \E key \in Keys : WorkRetry(key) \/ RecoverOne(key)
    \/ WorkTask \/ WorkOccurrence \/ WorkInsert \/ WorkClaimRead \/ WorkClaim \/ WorkAct
    \/ WorkSettleRead \/ WorkSettle \/ WorkAdvanceRead \/ WorkAdvance
    \/ RecoverList \/ RecoverDone

DegradedNext ==
    \/ \E a \in Asks : AskInsert(a) \/ AskFallback(a)
    \/ \E id \in TaskIds : OwnerEdit(id)
    \/ Work \/ LateLands \/ LateIsLost \/ StoreGoes \/ StoreReturns \/ Restart

DegradedSpec == DegradedInit /\ [][DegradedNext]_degradedVars

\* The scheduler loops, create_task goes on after a failure, an outage ends.
DegradedFairness ==
    /\ WF_degradedVars(Work) /\ WF_degradedVars(StoreReturns)
    /\ \A a \in Asks : WF_degradedVars(AskFallback(a))
DegradedFairSpec == DegradedSpec /\ DegradedFairness

-----------------------------------------------------------------------------

Stores == [tasks : [TaskIds -> [ask : Asks \union {NoAsk}, version : 0 .. MaxEdits + 2, due : BOOLEAN]],
           occs : [Keys -> {"none", "claimed", "running", "interrupted", "retry_pending",
                            "succeeded", "failed"}],
           last : 0 .. 2 * Cardinality(Asks)]

DegradedTypeOK ==
    /\ stored \in Stores /\ memory \in Stores
    /\ seen \in 0 .. stored.last
    /\ asks \in [Asks -> {"new", "ceiling", "done"}]
    /\ worker.id \in TaskIds \union {0} /\ worker.todo \subseteq Keys

\* Two asks were given one id, by one store or by both.
SharesAnId(a) ==
    \E b \in Asks \ {a} : \E g \in given[a], h \in given[b] : g[2] = h[2]

\* A task is carried out at most once for every store it was written to,
\* whatever outages, late writes, edits and restarts do to its boundary, its
\* claim and its recovery.  Twice needs a late insert: the task is then in both.
\* Asks that share an id can be taken for one another and are left out.
EffectsFollowRows ==
    \A a \in Asks : SharesAnId(a) \/ carried[a] <= Cardinality(given[a])

\* A boundary of the durable store is consumed with its occurrence never started
\* only if the claim was answered by the fallback, or the id is shared, or the
\* task lives in both stores.
ConsumedTasksWereServed ==
    \A id \in TaskIds :
        LET t == stored.tasks[id]
        IN  (t # NoTask /\ ~t.due /\ stored.occs[<<id, t.ask>>] \in {"none", "claimed"})
                => \/ <<id, t.ask>> \in missed
                   \/ SharesAnId(t.ask)
                   \/ Cardinality(given[t.ask]) > 1

\* What must come to an end: a boundary or a retry in the durable store, a turn
\* of the scheduler, a creation.
StoreIsBusy ==
    \/ \E id \in TaskIds : stored.tasks[id].due
    \/ \E key \in Keys : stored.occs[key] = "retry_pending"
    \/ worker.pc # "idle"
    \/ \E a \in Asks : asks[a] = "ceiling"

===============================================================================
