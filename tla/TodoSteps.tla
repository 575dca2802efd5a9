------------------------------ MODULE TodoSteps ------------------------------
(***************************************************************************)
(* One todo and its steps under concurrent owner operations (panel taps,    *)
(* chat commands and AI tools run as separate coroutines): the operations   *)
(* of TaskManagementService, each cut at its awaits.  The todo and every    *)
(* step have a compare-and-swap version of their own, and a step write does *)
(* not move the version of its todo.  The deletion of the todo is not part  *)
(* of this module.                                                          *)
(***************************************************************************)
EXTENDS Integers, FiniteSets

CONSTANTS Clients,             \* operations in flight at once
          MaxStepsPerTodo,     \* task_repository.MAX_STEPS_PER_TODO
          MaxStepsPerAdd,      \* task_repository.MAX_STEPS_PER_ADD
          MaxOps               \* bound of the instance: operations begun

ASSUME TodoAssumption ==
    MaxStepsPerTodo \in Nat /\ MaxStepsPerAdd \in Nat /\ MaxOps \in Nat

Free == 0
ASSUME ClientAssumption == Free \notin Clients

(* Identifiers come from a sequence and are never reused. *)
Steps == 1 .. (MaxOps * MaxStepsPerAdd)

VARIABLES todo,    \* the ai_tasks row: status and version
          step,    \* todo_steps
          nextId,  \* its sequence
          lock,    \* who holds _STEP_MUTATION_LOCK
          client,  \* the operations in flight
          ops

todoVars == <<todo, step, nextId, lock, client, ops>>

-----------------------------------------------------------------------------
StepType == [status: {"none", "active", "completed", "deleted"}, version: Nat,
             position: 0 .. MaxStepsPerTodo]
NoStep == [status |-> "none", version |-> 0, position |-> 0]

Idle == [pc |-> "idle", since |-> 0, n |-> 0, last |-> 0, step |-> 0, version |-> 0,
         want |-> "none", seen |-> {}]
ClientType ==
    [pc: {"idle", "count", "wait", "insert", "write", "cascade", "tick", "list", "swap"},
     since: Nat, n: 0 .. MaxStepsPerAdd, last: 0 .. MaxStepsPerTodo, step: Steps \cup {0},
     version: Nat, want: {"none", "active", "completed"}, seen: SUBSET (Steps \X Nat)]

TodoTypeOK ==
    /\ todo \in [status: {"active", "completed"}, version: Nat]
    /\ step \in [Steps -> StepType]
    /\ nextId \in Nat /\ ops \in Nat
    /\ lock \in Clients \cup {Free}
    /\ client \in [Clients -> ClientType]

Live == {s \in Steps : step[s].status \in {"active", "completed"}}
Remaining == {s \in Steps : step[s].status = "active"}
Listed(S) == {<<s, step[s].version>> : s \in S}

(* The largest position in use, 0 for a todo without steps. *)
IsLast(p) == /\ p = 0 \/ \E s \in Live : step[s].position = p
             /\ \A s \in Live : step[s].position <= p

TodoInit ==
    /\ todo = [status |-> "active", version |-> 1]
    /\ step = [s \in Steps |-> NoStep]
    /\ nextId = 1 /\ lock = Free /\ ops = 0
    /\ client = [c \in Clients |-> Idle]

TodoBegin(c, op) ==
    /\ client[c].pc = "idle"
    /\ ops < MaxOps /\ ops' = ops + 1
    /\ client' = [client EXCEPT ![c] = op]
Go(c, pc) == client' = [client EXCEPT ![c].pc = pc]
Return(c) == client' = [client EXCEPT ![c] = Idle]

-----------------------------------------------------------------------------
(* add_steps *)

MayAlwaysAdd == TRUE                                               \* mutant
(* The todo must be active when it is read. *)
MayAdd == todo.status = "active"
AddBegin(c) ==
    /\ MayAdd
    /\ \E n \in 1 .. MaxStepsPerAdd :
          TodoBegin(c, [Idle EXCEPT !.pc = "count", !.since = todo.version, !.n = n])
    /\ UNCHANGED <<todo, step, nextId, lock>>

AddCount(c) ==
    /\ client[c].pc = "count"
    /\ IF Cardinality(Live) + client[c].n <= MaxStepsPerTodo THEN Go(c, "wait") ELSE Return(c)
    /\ UNCHANGED <<todo, step, nextId, lock, ops>>

LockIgnored == TRUE                                                \* mutant
StepLockFree == lock = Free
KeepLock == lock' = lock                                           \* mutant
LeaveLock == lock' = Free
OverfullByOne(p, n) == p + n > MaxStepsPerTodo + 1                 \* mutant
Overfull(p, n) == p + n > MaxStepsPerTodo

(* Under the lock create_steps reads the last position and checks the limit  *)
(* again; a refusal leaves the lock at once.                                 *)
AddLock(c) ==
    /\ client[c].pc = "wait" /\ StepLockFree
    /\ \E p \in 0 .. MaxStepsPerTodo :
          /\ IsLast(p)
          /\ IF Overfull(p, client[c].n)
             THEN Return(c) /\ UNCHANGED lock
             ELSE /\ lock' = c
                  /\ client' = [client EXCEPT ![c].pc = "insert", ![c].last = p]
    /\ UNCHANGED <<todo, step, nextId, ops>>

(* The positions the client is about to insert at. *)
Claimed(c) == (client[c].last + 1) .. (client[c].last + client[c].n)
Collides(c) == \E s \in Live : step[s].position \in Claimed(c)

(* One multi-row INSERT: all rows or, when a position is taken, none. *)
AddInsert(c) ==
    LET n == client[c].n
        new == nextId .. (nextId + n - 1)
    IN /\ client[c].pc = "insert"
       /\ nextId' = nextId + n
       /\ step' = IF Collides(c) THEN step
                  ELSE [s \in Steps |-> IF s \in new
                          THEN [status |-> "active", version |-> 1,
                                position |-> client[c].last + 1 + (s - nextId)]
                          ELSE step[s]]
       /\ LeaveLock
       /\ Return(c)
       /\ UNCHANGED <<todo, ops>>

-----------------------------------------------------------------------------
(* set_step_status, rename_step, delete_step *)

(* A step is reopened only under a todo that reads active. *)
MayWrite(want) == want = "active" => todo.status = "active"
StepBegin(c) ==
    /\ \E s \in Live, want \in {"active", "completed"} :
          /\ MayWrite(want)
          /\ TodoBegin(c, [Idle EXCEPT !.pc = "write", !.since = todo.version, !.step = s,
                                   !.version = step[s].version, !.want = want])
    /\ UNCHANGED <<todo, step, nextId, lock>>

(* update_step: the compare-and-swap on the step's own version. *)
UpdateStep(s, version, want) ==
    step' = IF s \in Live /\ step[s].version = version
            THEN [step EXCEPT ![s].status = want, ![s].version = version + 1]
            ELSE step

StepWrite(c) ==
    /\ client[c].pc = "write"
    /\ UpdateStep(client[c].step, client[c].version, client[c].want)
    /\ Return(c)
    /\ UNCHANGED <<todo, nextId, lock, ops>>

(* Renaming and deleting read nothing but the step they swap on. *)
RenameStep(s) ==
    /\ s \in Live /\ ops < MaxOps /\ ops' = ops + 1
    /\ step' = [step EXCEPT ![s].version = @ + 1]
    /\ UNCHANGED <<todo, nextId, lock, client>>

DeleteStep(s) ==
    /\ s \in Live /\ ops < MaxOps /\ ops' = ops + 1
    /\ step' = [step EXCEPT ![s].status = "deleted"]
    /\ UNCHANGED <<todo, nextId, lock, client>>

-----------------------------------------------------------------------------
(* complete (set_status) and complete_todo_with_steps *)

CompleteBegin(c) ==
    /\ \E pc \in {"list", "cascade"} :
          TodoBegin(c, [Idle EXCEPT !.pc = pc, !.since = todo.version])
    /\ UNCHANGED <<todo, step, nextId, lock>>

CascadeList(c) ==
    /\ client[c].pc = "cascade"
    /\ client' = [client EXCEPT ![c].pc = IF Remaining = {} THEN "list" ELSE "tick",
                                ![c].seen = Listed(Remaining)]
    /\ UNCHANGED <<todo, step, nextId, lock, ops>>

(* Each remaining step is completed under the version listed; a lost swap is *)
(* not noticed here.                                                         *)
CascadeTick(c) ==
    /\ client[c].pc = "tick"
    /\ \E x \in client[c].seen :
          /\ UpdateStep(x[1], x[2], "completed")
          /\ client' = [client EXCEPT ![c].seen = @ \ {x},
                                      ![c].pc = IF client[c].seen = {x} THEN "list" ELSE "tick"]
    /\ UNCHANGED <<todo, nextId, lock, ops>>

MayAlwaysComplete == TRUE                                          \* mutant
(* Completion is refused while the list read here shows a remaining step. *)
MayComplete == Remaining = {}
CompleteList(c) ==
    /\ client[c].pc = "list"
    /\ client' = [client EXCEPT ![c] =
                    IF MayComplete THEN [@ EXCEPT !.pc = "swap", !.seen = Listed(Live)]
                    ELSE Idle]
    /\ UNCHANGED <<todo, step, nextId, lock, ops>>

CompleteSwap(c) ==
    /\ client[c].pc = "swap"
    /\ todo' = IF todo.version = client[c].since
               THEN [status |-> "completed", version |-> todo.version + 1] ELSE todo
    /\ Return(c)
    /\ UNCHANGED <<step, nextId, lock, ops>>

-----------------------------------------------------------------------------
(* reopen and edit_todo_title, and the death of the process *)

Reopen ==
    /\ todo.status = "completed" /\ ops < MaxOps /\ ops' = ops + 1
    /\ todo' = [status |-> "active", version |-> todo.version + 1]
    /\ UNCHANGED <<step, nextId, lock, client>>

EditTitle ==
    /\ ops < MaxOps /\ ops' = ops + 1
    /\ todo' = [todo EXCEPT !.version = @ + 1]
    /\ UNCHANGED <<step, nextId, lock, client>>

TodoRestart ==
    /\ client' = [c \in Clients |-> Idle] /\ lock' = Free
    /\ UNCHANGED <<todo, step, nextId, ops>>

Adding(c) == AddCount(c) \/ AddLock(c) \/ AddInsert(c)
Completing(c) == CascadeList(c) \/ CascadeTick(c) \/ CompleteList(c) \/ CompleteSwap(c)

TodoNext ==
    \/ \E c \in Clients : AddBegin(c) \/ StepBegin(c) \/ CompleteBegin(c)
    \/ \E c \in Clients : Adding(c) \/ StepWrite(c) \/ Completing(c)
    \/ \E s \in Steps : RenameStep(s) \/ DeleteStep(s)
    \/ Reopen \/ EditTitle \/ TodoRestart

TodoSpec == TodoInit /\ [][TodoNext]_todoVars

-----------------------------------------------------------------------------
(* Properties *)

InsertsNeverCollide == \A c \in Clients : client[c].pc = "insert" => ~Collides(c)
AtMostMaxSteps == Cardinality(Live) <= MaxStepsPerTodo

(* However adds interleave with removals, an insert never meets a taken      *)
(* position and a todo never holds more steps than the limit: the lock covers *)
(* the read of the last position, the second judgement of the limit and the  *)
(* insert (add_steps, create_steps).                                         *)
StepsKeepTheirPlaces == InsertsNeverCollide /\ AtMostMaxSteps

(* A step is added to or reopened under a completed todo only by an          *)
(* operation that read the todo before its completion: one begun afterwards  *)
(* is refused (add_steps, set_step_status).                                  *)
OnlyEarlierOperationsReviveSteps ==
    [][todo.status = "completed" /\ ~(Remaining' \subseteq Remaining)
          => \E c \in Clients : /\ client[c].pc \in {"insert", "write"}
                                /\ client'[c].pc = "idle"
                                /\ client[c].since < todo.version]_todoVars

(* A completion leaves a step remaining only if that step was written after  *)
(* the completion listed the steps (set_status, complete_todo_with_steps).   *)
CompletionMissesOnlyLaterWrites ==
    [][\A c \in Clients :
          client[c].pc = "swap" /\ client'[c].pc = "idle" /\ todo'.version # todo.version
          => Listed(Remaining) \cap client[c].seen = {}]_todoVars

AddWaits(c) == client[c].pc \in {"wait", "insert"}

=============================================================================
