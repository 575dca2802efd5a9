------------------------------ MODULE PolicyState ------------------------------
(***************************************************************************)
(* The owner's settings document for private messages                      *)
(* (services/private_message_service.py): one row of the database, one     *)
(* copy in memory that every incoming message is judged by, loads that     *)
(* several callers share, a refresh that forces a new load, the import of  *)
(* an older document when there is no row yet, and changes that are        *)
(* written first and kept in memory only when the write is confirmed.      *)
(*                                                                         *)
(* A document is the set of changes it contains; Imported stands for what  *)
(* the older document says.  Every database call runs in a thread: its     *)
(* effect and its answer are two steps, and a call that times out may      *)
(* still take effect.  One action is what a coroutine does between two     *)
(* awaits.                                                                 *)
(***************************************************************************)
EXTENDS Integers, FiniteSets

CONSTANTS
    Changes,         \* changes of the owner, each made at most once
    Loads,           \* bound: load tasks, 1 .. n
    PolicyBudgets    \* bounds: the changes made in a behaviour, the database calls
                     \* that fail or time out, uses of Refresh, restarts

Imported == 0
Marks == Changes \union {Imported}
NoLoad == 0

ASSUME PolicyAssumption == NoLoad \notin Changes /\ Loads \in Nat

IdleLoad == [pc |-> "none", doc |-> {}, legacy |-> FALSE]
IdleChange == [pc |-> "new", load |-> NoLoad, doc |-> {}]

VARIABLES
    config,     \* the row, whether it exists, and whether there is an older document
    policy,     \* _state, _loaded, _locally_mutated, the retry pause, _load_task
    lockedBy,   \* the change that holds the mutation lock, or NoLoad
    loads,      \* the load tasks
    changes,    \* the owner's changes
    ghosts,     \* documents whose write timed out and may still land
    budget,     \* what is left of the bounds
    excuses     \* history: how a setting can get lost

policyVars == <<config, policy, lockedBy, loads, changes, ghosts, budget, excuses>>

EmptyPolicy == [doc |-> {}, loaded |-> FALSE, mutated |-> FALSE, paused |-> FALSE, load |-> NoLoad]

PolicyInit ==
    /\ config \in {[row |-> FALSE, doc |-> {}, legacy |-> l] : l \in BOOLEAN}
    /\ policy = EmptyPolicy
    /\ lockedBy = NoLoad
    /\ loads = [l \in 1 .. Loads |-> IdleLoad]
    /\ budget \in PolicyBudgets
    /\ changes = [c \in Changes |-> IF c \in budget.changes THEN IdleChange
                                    ELSE [IdleChange EXCEPT !.pc = "refused"]]
    /\ ghosts = {}
    /\ excuses = {}

-----------------------------------------------------------------------------

Busy(l) == loads[l].pc \notin {"none", "over"}
Fresh == {l \in 1 .. Loads : loads[l].pc = "none"}
CanFail == budget.failures > 0
Fails == CanFail /\ budget' = [budget EXCEPT !.failures = @ - 1]

\* ensure_loaded_async, for a policy that says what is loaded and which load runs:
\* the load to wait for, if any, which is started when none is under way.
NoLoadNeeded(p) == p.loaded \/ p.paused
Shared(p) == p.load # NoLoad /\ Busy(p.load)
NextLoad == CHOOSE l \in Fresh : TRUE
Awaited(p) == IF NoLoadNeeded(p) THEN NoLoad ELSE IF Shared(p) THEN p.load ELSE NextLoad
Ensure(p) ==
    IF NoLoadNeeded(p) \/ Shared(p)
    THEN policy' = p /\ UNCHANGED loads
    ELSE /\ Fresh # {}
         /\ policy' = [p EXCEPT !.load = NextLoad]
         /\ loads' = [loads EXCEPT ![NextLoad].pc = "read"]

\* A private message arrives, or a panel is shown.
Look ==
    /\ ~policy.loaded
    /\ Ensure(policy)
    /\ UNCHANGED <<config, lockedBy, changes, ghosts, budget, excuses>>

\* reload_async.  A load that is under way goes on beside the new one.
Reload ==
    /\ budget.reloads > 0
    /\ budget' = [budget EXCEPT !.reloads = @ - 1]
    /\ Ensure([policy EXCEPT !.load = NoLoad, !.loaded = FALSE, !.mutated = FALSE, !.paused = FALSE])
    /\ excuses' = IF \E l \in 1 .. Loads : Busy(l) THEN excuses \union {"overlapping loads"} ELSE excuses
    /\ UNCHANGED <<config, lockedBy, changes, ghosts>>

PauseEnds ==
    /\ policy.paused
    /\ policy' = [policy EXCEPT !.paused = FALSE]
    /\ UNCHANGED <<config, lockedBy, loads, changes, ghosts, budget, excuses>>

-----------------------------------------------------------------------------
(* A load. *)

LoadEnds(l) == loads' = [loads EXCEPT ![l] = [IdleLoad EXCEPT !.pc = "over"]]

\* Under the lock: a change made during the read is newer than what was read.
StaleNever == FALSE
LoadIsStale == policy.mutated
Install(l, p, doc, legacy) ==
    IF LoadIsStale
    THEN LoadEnds(l) /\ policy' = p
    ELSE /\ policy' = [p EXCEPT !.doc = doc]
         /\ IF legacy
            THEN loads' = [loads EXCEPT ![l] = [pc |-> "import", doc |-> doc, legacy |-> TRUE]]
            ELSE LoadEnds(l)

\* A lock that is free and wanted by nobody is taken without waiting.
LockFree == lockedBy = NoLoad /\ \A c \in Changes : changes[c].pc # "locking"
Loaded == [policy EXCEPT !.loaded = TRUE]
LoadGot(l, doc, legacy) ==
    IF LockFree
    THEN Install(l, Loaded, doc, legacy)
    ELSE /\ policy' = Loaded
         /\ loads' = [loads EXCEPT ![l] = [pc |-> "install", doc |-> doc, legacy |-> legacy]]

LoadInstall(l) ==
    /\ loads[l].pc = "install" /\ lockedBy = NoLoad
    /\ Install(l, policy, loads[l].doc, loads[l].legacy)
    /\ UNCHANGED <<config, lockedBy, changes, ghosts, budget, excuses>>

\* The dedicated row; an unreadable store is not an empty one.
Unreadable(l) == LoadEnds(l) /\ policy' = [policy EXCEPT !.paused = TRUE]

LoadRow(l) ==
    /\ loads[l].pc = "read"
    /\ \/ config.row /\ LoadGot(l, config.doc, FALSE) /\ UNCHANGED budget
       \/ /\ ~config.row
          /\ loads' = [loads EXCEPT ![l].pc = "legacy"]
          /\ UNCHANGED <<policy, budget>>
       \/ Fails /\ Unreadable(l)
    /\ UNCHANGED <<config, lockedBy, changes, ghosts, excuses>>

\* The older document; a failed read of it looks like its absence.
NothingLoaded(l) == LoadEnds(l) /\ policy' = Loaded
LoadLegacy(l) ==
    /\ loads[l].pc = "legacy"
    /\ \/ config.legacy /\ LoadGot(l, {Imported}, TRUE) /\ UNCHANGED <<budget, excuses>>
       \/ ~config.legacy /\ NothingLoaded(l) /\ UNCHANGED <<budget, excuses>>
       \/ /\ Fails /\ NothingLoaded(l)
          /\ excuses' = excuses \union {"older document unread"}
    /\ UNCHANGED <<config, lockedBy, changes, ghosts>>

\* The import writes its row outside the lock.
Written(doc) == config' = [config EXCEPT !.row = TRUE, !.doc = doc]
LoadImport(l) ==
    /\ loads[l].pc = "import"
    /\ \/ Written(loads[l].doc) /\ UNCHANGED <<ghosts, budget>>
       \/ Fails /\ UNCHANGED <<config, ghosts>>
       \/ Fails /\ ghosts' = ghosts \union {loads[l].doc} /\ UNCHANGED config
    /\ LoadEnds(l)
    /\ excuses' = IF \E c \in Changes : changes[c].pc \in {"writing", "landed", "saved"}
                  THEN excuses \union {"import beside a change"} ELSE excuses
    /\ UNCHANGED <<policy, lockedBy, changes>>

-----------------------------------------------------------------------------
(* A change. *)

Refused(c) == changes' = [changes EXCEPT ![c] = [IdleChange EXCEPT !.pc = "refused"]]

\* A change needs the stored policy, then the lock.
WhenLoaded(c) ==
    IF policy.loaded
    THEN changes' = [changes EXCEPT ![c] = [IdleChange EXCEPT !.pc = "locking"]]
    ELSE Refused(c)

ChangeBegin(c) ==
    /\ changes[c].pc = "new"
    /\ Ensure(policy)
    /\ IF Awaited(policy) = NoLoad
       THEN WhenLoaded(c)
       ELSE changes' = [changes EXCEPT ![c].pc = "loading", ![c].load = Awaited(policy)]
    /\ UNCHANGED <<config, lockedBy, ghosts, budget, excuses>>

ChangeLoaded(c) ==
    /\ changes[c].pc = "loading" /\ ~Busy(changes[c].load)
    /\ WhenLoaded(c)
    /\ UNCHANGED <<config, policy, lockedBy, loads, ghosts, budget, excuses>>

ChangeLock(c) ==
    /\ changes[c].pc = "locking" /\ lockedBy = NoLoad
    /\ lockedBy' = c
    /\ changes' = [changes EXCEPT ![c].pc = "writing", ![c].doc = policy.doc \union {c}]
    /\ UNCHANGED <<config, policy, loads, ghosts, budget, excuses>>

ChangeWrite(c) ==
    /\ changes[c].pc = "writing"
    /\ \/ /\ Written(changes[c].doc)
          /\ changes' = [changes EXCEPT ![c].pc = "landed"]
          /\ UNCHANGED <<lockedBy, ghosts, budget>>
       \/ /\ Fails /\ Refused(c) /\ lockedBy' = NoLoad
          /\ UNCHANGED <<config, ghosts>>
       \/ /\ Fails /\ Refused(c) /\ lockedBy' = NoLoad
          /\ ghosts' = ghosts \union {changes[c].doc}
          /\ UNCHANGED config
    /\ UNCHANGED <<policy, loads, excuses>>

\* The answer arrives: the candidate becomes the policy; or it comes too late.
Keep(c) == policy' = [policy EXCEPT !.doc = changes[c].doc, !.mutated = TRUE]
ChangeAnswered(c) ==
    /\ changes[c].pc = "landed"
    /\ lockedBy' = NoLoad
    /\ \/ /\ Keep(c)
          /\ changes' = [changes EXCEPT ![c] = [IdleChange EXCEPT !.pc = "saved"]]
          /\ UNCHANGED <<budget, excuses>>
       \/ /\ Fails /\ Refused(c)
          /\ excuses' = excuses \union {"unconfirmed write"}
          /\ UNCHANGED policy
    /\ UNCHANGED <<config, loads, ghosts>>

GhostLands(doc) ==
    /\ Written(doc)
    /\ ghosts' = ghosts \ {doc}
    /\ excuses' = excuses \union {"unconfirmed write"}
    /\ UNCHANGED <<policy, lockedBy, loads, changes, budget>>

\* The process restarts: its memory is gone, its last writes may still land.
Rebuild ==
    /\ budget.rebuilds > 0
    /\ budget' = [budget EXCEPT !.rebuilds = @ - 1]
    /\ policy' = EmptyPolicy /\ lockedBy' = NoLoad
    /\ loads' = [l \in 1 .. Loads |-> IF Busy(l) THEN [IdleLoad EXCEPT !.pc = "over"] ELSE loads[l]]
    /\ changes' = [c \in Changes |-> IF changes[c].pc \in {"new", "saved"} THEN changes[c]
                                     ELSE [IdleChange EXCEPT !.pc = "refused"]]
    /\ ghosts' \in {ghosts, ghosts \union {changes[c].doc : c \in {d \in Changes : changes[d].pc = "writing"}}}
    /\ UNCHANGED <<config, excuses>>

LoadStep(l) == LoadRow(l) \/ LoadLegacy(l) \/ LoadInstall(l) \/ LoadImport(l)
ChangeStep(c) == ChangeLoaded(c) \/ ChangeLock(c) \/ ChangeWrite(c) \/ ChangeAnswered(c)

PolicyWork == (\E l \in 1 .. Loads : LoadStep(l)) \/ (\E c \in Changes : ChangeStep(c))
PolicyNext ==
    \/ PolicyWork
    \/ \E c \in Changes : ChangeBegin(c)
    \/ \E doc \in ghosts : GhostLands(doc)
    \/ Look \/ Reload \/ PauseEnds \/ Rebuild

PolicySpec == PolicyInit /\ [][PolicyNext]_policyVars

PolicyFairness ==
    /\ \A l \in 1 .. Loads : WF_policyVars(LoadStep(l))
    /\ \A c \in Changes : WF_policyVars(ChangeStep(c))
PolicyFairSpec == PolicySpec /\ PolicyFairness

-----------------------------------------------------------------------------

PolicyTypeOK ==
    /\ config \in [row : BOOLEAN, doc : SUBSET Marks, legacy : BOOLEAN]
    /\ policy \in [doc : SUBSET Marks, loaded : BOOLEAN, mutated : BOOLEAN, paused : BOOLEAN,
                   load : 0 .. Loads]
    /\ lockedBy \in Changes \union {NoLoad}
    /\ \A c \in Changes : lockedBy = c <=> changes[c].pc \in {"writing", "landed"}

Saved == {c \in Changes : changes[c].pc = "saved"}

\* A change the owner was told is saved is in the row for good, with what the
\* older document said; and a loaded policy is the row whenever no change holds
\* the lock.  It holds across restarts, refreshes, failed reads and failed writes.
\* A write without an answer, two overlapping loads, an import beside a change,
\* or an older document that could not be read, excuse a loss.
SavedSettingsSurvive ==
    excuses = {} =>
        /\ Saved \subseteq config.doc
        /\ config.row /\ config.legacy => Imported \in config.doc
        /\ policy.loaded /\ config.row /\ lockedBy = NoLoad => policy.doc = config.doc

\* What must come to an end: a load, a change.
PolicyIsBusy ==
    \/ \E l \in 1 .. Loads : Busy(l)
    \/ \E c \in Changes : changes[c].pc \notin {"new", "refused", "saved"}

================================================================================
