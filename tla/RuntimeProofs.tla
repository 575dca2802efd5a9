------------------------------ MODULE RuntimeProofs ------------------------------
(***************************************************************************)
(* Proofs about RuntimeRecovery, for any number of recovery tasks: type     *)
(* correctness; that only the holder of the recovery lock ever works on the *)
(* connection, with the run loop out of it; and that no recovery ever       *)
(* brings a rebuilt client.                                                 *)
(*                                                                         *)
(* Then about ActionChain, for any snapshots, attempts and horizon: type     *)
(* correctness; that what succeeded is never repeated; that effects follow   *)
(* the order, the boundaries and one branch; and that an answer stays proven. *)
(*                                                                         *)
(* Then about what an AI request runs through, for any number of requests   *)
(* and any limits.  ProviderMesh: an ambiguous limit burns two candidates of *)
(* a provider, and a provider that is down stays out.  CredentialRotation:   *)
(* nothing that failed in a request is tried again.                          *)
(***************************************************************************)
EXTENDS RuntimeRecovery, ActionChain, ProviderMesh, CredentialRotation, FiniteSetTheorems,
        WellFoundedInduction, TLAPS

-----------------------------------------------------------------------------
(* The stages in which a recovery holds the lock, and those in which it has    *)
(* taken the connection from the run loop.  The lock makes the holder unique;   *)
(* a queued recovery that inherits it, or a hard reset that takes it, still     *)
(* has to take the loop down before it touches the connection.                  *)
Holding == {"disconnect", "connect", "helper", "full", "orphans"}
Taken == {"disconnect", "connect", "orphans"}

HolderInv == \A t \in Recoveries : recovery[t] \in Holding => lock = t
LoopInv == \A t \in Recoveries : recovery[t] \in Taken => loop = "none"
SupInv == SupTypeOK /\ HolderInv /\ LoopInv /\ generation = 1

LEMMA RecoveriesAreNat == Recoveries \subseteq Nat /\ Nobody \notin Recoveries
  BY RecoveryAssumption DEF Recoveries, Nobody

LEMMA SupInitEstablishes == SupInit => SupInv
  <1>. SUFFICES ASSUME SupInit PROVE SupInv
    OBVIOUS
  <1>1. recovery \in [Recoveries -> Stages] /\ \A t \in Recoveries : recovery[t] = "none"
    BY DEF SupInit, Stages
  <1>2. link \in [connected: BOOLEAN, alive: BOOLEAN, shown: BOOLEAN, helper: BOOLEAN]
    <2>1. link \in [connected: {TRUE}, alive: {TRUE}, shown: {TRUE}, helper: BOOLEAN]
      BY DEF SupInit
    <2>. QED  BY <2>1
  <1>3. SupTypeOK
    BY <1>1, <1>2 DEF SupInit, SupTypeOK
  <1>. QED  BY <1>1, <1>3 DEF SupInit, SupInv, HolderInv, LoopInv, Holding, Taken

-----------------------------------------------------------------------------
(* The connection, the monitors and the end of the process.                    *)

LEMMA QuietKeeps ==
  ASSUME SupInv, SupDrop \/ SupTelethonReconnects \/ SupLoopReturns \/ SupCooled \/ SupSignal
  PROVE  SupInv'
  BY DEF SupInv, SupTypeOK, HolderInv, LoopInv, SupDrop, SupTelethonReconnects, SupLoopReturns,
         SupCooled, SupSignal

LEMMA StopKeeps == SupInv /\ SupStop => SupInv'
  BY DEF SupInv, SupTypeOK, HolderInv, LoopInv, SupStop, Stages, Holding, Taken

LEMMA AskKeeps ==
  ASSUME SupInv, NEW t \in Recoveries, NEW s \in {"reconnect", "hard"}, Ask(t, s)
  PROVE  SupInv'
  <1>1. s \in Stages /\ s \notin Holding /\ s \notin Taken
    BY DEF Stages, Holding, Taken
  <1>. QED  BY <1>1 DEF SupInv, SupTypeOK, HolderInv, LoopInv, Ask, Stage

LEMMA MonitorsKeep ==
  ASSUME SupInv, NEW t \in Recoveries, SupKeepalive(t) \/ SupHeartbeat(t) \/ SupFailsafe(t)
  PROVE  SupInv'
  BY AskKeeps DEF SupKeepalive, SupHeartbeat, SupFailsafe

-----------------------------------------------------------------------------
(* The recoveries.                                                             *)

LEMMA ReconnectKeeps ==
  ASSUME SupInv, NEW t \in Recoveries, SupReconnect(t)
  PROVE  SupInv'
  <1>1. CASE lock # Nobody \/ cooling
    BY <1>1 DEF SupInv, SupTypeOK, HolderInv, LoopInv, SupReconnect, Stage, Stages, Holding, Taken
  <1>2. CASE ~(lock # Nobody \/ cooling)
    <2>1. \A r \in Recoveries : recovery[r] \notin Holding
      BY <1>2, RecoveriesAreNat DEF SupInv, HolderInv
    <2>. QED
      BY <1>2, <2>1 DEF SupInv, SupTypeOK, HolderInv, LoopInv, SupReconnect, Stage, Stages, Holding, Taken
  <1>. QED  BY <1>1, <1>2

LEMMA DisconnectKeeps ==
  ASSUME SupInv, NEW t \in Recoveries, SupDisconnect(t)
  PROVE  SupInv'
  <1>1. recovery[t] \in Holding /\ lock = t /\ loop = "none"
    BY DEF SupInv, HolderInv, LoopInv, SupDisconnect, Holding, Taken
  <1>. QED
    BY <1>1 DEF SupInv, SupTypeOK, HolderInv, LoopInv, SupDisconnect, Stage, Stages, Holding, Taken

(* The loop is handed the connection back by the one task that had taken it.   *)
LEMMA ConnectedKeeps ==
  ASSUME SupInv, NEW t \in Recoveries, SupConnected(t)
  PROVE  SupInv'
  <1>1. lock = t /\ \A r \in Recoveries \ {t} : recovery[r] \notin Holding
    BY DEF SupInv, HolderInv, SupConnected, Holding
  <1>2. CASE link.helper
    BY <1>1, <1>2 DEF SupInv, SupTypeOK, HolderInv, LoopInv, SupConnected, Stage, Stages, Holding, Taken
  <1>3. CASE ~link.helper
    BY <1>1, <1>3 DEF SupInv, SupTypeOK, HolderInv, LoopInv, SupConnected, Stage, Stages, Holding, Taken
  <1>. QED  BY <1>2, <1>3

(* The lock passes to a waiting hard reset, or back to the escalating task.     *)
LEMMA EscalateKeeps ==
  ASSUME SupInv, NEW t \in Recoveries, SupEscalate(t)
  PROVE  SupInv'
  <1>1. lock = t /\ \A r \in Recoveries \ {t} : recovery[r] \notin Holding
    BY DEF SupInv, HolderInv, SupEscalate, Holding
  <1>2. PICK heir \in Recoveries : lock' = heir
                                   /\ recovery' = [recovery EXCEPT ![t] = "none", ![heir] = "full"]
    BY DEF SupEscalate
  <1>3. PICK up \in BOOLEAN : link' = [link EXCEPT !.connected = up]
    BY DEF SupEscalate
  <1>. QED
    BY <1>1, <1>2, <1>3 DEF SupInv, SupTypeOK, HolderInv, LoopInv, SupEscalate, Stages, Holding, Taken

LEMMA HelperKeeps ==
  ASSUME SupInv, NEW t \in Recoveries, SupHelper(t)
  PROVE  SupInv'
  <1>1. lock = t /\ \A r \in Recoveries \ {t} : recovery[r] \notin Holding
    BY DEF SupInv, HolderInv, SupHelper, Holding
  <1>. QED
    BY <1>1 DEF SupInv, SupTypeOK, HolderInv, LoopInv, SupHelper, Stage, Stages, Holding, Taken

LEMMA HardLockKeeps ==
  ASSUME SupInv, NEW t \in Recoveries, SupHardLock(t)
  PROVE  SupInv'
  <1>1. CASE lock = Nobody /\ process = "up" /\ lock' = t /\ Stage(t, "full")
    <2>1. \A r \in Recoveries : recovery[r] \notin Holding
      BY <1>1, RecoveriesAreNat DEF SupInv, HolderInv
    <2>. QED
      BY <1>1, <2>1 DEF SupInv, SupTypeOK, HolderInv, LoopInv, SupHardLock, Stage, Stages, Holding, Taken
  <1>2. CASE Stage(t, "none") /\ UNCHANGED lock
    BY <1>2 DEF SupInv, SupTypeOK, HolderInv, LoopInv, SupHardLock, Stage, Stages, Holding, Taken
  <1>. QED  BY <1>1, <1>2 DEF SupHardLock

LEMMA TearDownKeeps ==
  ASSUME SupInv, NEW t \in Recoveries, SupTearDown(t)
  PROVE  SupInv'
  BY DEF SupInv, SupTypeOK, HolderInv, LoopInv, SupTearDown, Stage, Stages, Holding, Taken

(* The main task is not protected, so the process ends and nothing is rebuilt. *)
LEMMA CancelOrphansKeeps ==
  ASSUME SupInv, NEW t \in Recoveries, SupCancelOrphans(t)
  PROVE  SupInv'
  <1>1. "main" \notin Protected
    BY DEF Protected, LongTasks
  <1>. QED
    BY <1>1 DEF SupInv, SupTypeOK, HolderInv, LoopInv, SupCancelOrphans, Stages, Holding, Taken

-----------------------------------------------------------------------------

LEMMA SupNextKeeps == SupInv /\ [SupNext]_supVars => SupInv'
  <1>. SUFFICES ASSUME SupInv, [SupNext]_supVars PROVE SupInv'
    OBVIOUS
  <1>1. CASE SupDrop \/ SupTelethonReconnects \/ SupLoopReturns \/ SupCooled \/ SupSignal
    BY <1>1, QuietKeeps
  <1>2. CASE SupStop
    BY <1>2, StopKeeps
  <1>3. ASSUME NEW t \in Recoveries, SupKeepalive(t) \/ SupHeartbeat(t) \/ SupFailsafe(t)
        PROVE  SupInv'
    BY <1>3, MonitorsKeep
  <1>4. ASSUME NEW t \in Recoveries, SupRound(t)
        PROVE  SupInv'
    BY <1>4, ReconnectKeeps, DisconnectKeeps, ConnectedKeeps, EscalateKeeps, HelperKeeps,
       HardLockKeeps, TearDownKeeps, CancelOrphansKeeps DEF SupRound
  <1>5. CASE UNCHANGED supVars
    BY <1>5 DEF supVars, SupInv, SupTypeOK, HolderInv, LoopInv
  <1>. QED  BY <1>1, <1>2, <1>3, <1>4, <1>5 DEF SupNext

LEMMA SupInvariant == SupSpec => []SupInv
  BY SupInitEstablishes, SupNextKeeps, PTL DEF SupSpec

(* Type correctness of the supervisor's state. *)
THEOREM SupTypeCorrect == SupSpec => []SupTypeOK
  <1>1. SupInv => SupTypeOK  BY DEF SupInv
  <1>. QED  BY <1>1, SupInvariant, PTL

(* However many monitors ask at once, two recoveries never work on the client   *)
(* together, and the run loop is out of the connection that one of them has      *)
(* taken (_trigger_reconnect, _trigger_full_recovery, _hard_reset_runtime).      *)
THEOREM ConnectionHasOneOwner == SupSpec => []OneOwnerOfTheConnection
  <1>1. SupInv => OneOwnerOfTheConnection
    BY DEF SupInv, SupTypeOK, HolderInv, LoopInv, OneOwnerOfTheConnection, Stages, Holding, Taken
  <1>. QED  BY <1>1, SupInvariant, PTL

(* No recovery ever brings a rebuilt client: the cancellation of orphan tasks    *)
(* ends the main task first (_cancel_orphan_tasks, main).                        *)
THEOREM NoClientIsRebuilt == SupSpec => []RecoveryNeverRebuilds
  <1>1. SupInv => RecoveryNeverRebuilds  BY DEF SupInv, RecoveryNeverRebuilds
  <1>. QED  BY <1>1, SupInvariant, PTL
-----------------------------------------------------------------------------
(* What a record may say, and what it must.  A sound record calls nothing        *)
(* succeeded that did not succeed, and skips nothing before the condition was     *)
(* decided.  A record covers the history when it accounts for whatever finished    *)
(* and for the branch that has taken effect.                                      *)
Places(c) == ActionsOf(c) \cap Positions
Sound(c, done, rec) ==
    /\ \A p \in Places(c) :
          /\ rec.run[p] = "succeeded" =>
                IF c.actions[p].kind = "condition" THEN rec.branch # "none" ELSE p \in done
          /\ rec.run[p] = "skipped" => c.actions[p].branch \notin {"both", rec.branch}
    /\ rec.branch # "none" => \E k \in Conditions(c) \cap Positions : rec.run[k] = "succeeded"
    /\ rec.branch = "none" => \A p \in Places(c) : rec.run[p] # "skipped"

Holds(done, rec) == \A p \in done : rec.run[p] = "succeeded"
Follows(c, eff, rec) ==
    \A p \in Places(c) : eff[p] > 0 /\ c.actions[p].branch # "both" => c.actions[p].branch = rec.branch
Covers(c, done, eff, rec) == Holds(done, rec) /\ Follows(c, eff, rec)

WalkInv ==
    /\ walk.pc # "rest" => chainRow.status = "running" /\ walk.at <= chainClock
    /\ walk.pc = "prepare" => chain.generated
    /\ walk.pc \in {"load", "prepare"} => walk.pos = 1
    /\ walk.pc \notin {"rest", "load"} =>
          /\ Admitted(chain)
          /\ Sound(chain, finished, walk.mem)
          /\ RecordKept => Covers(chain, finished, effects, walk.mem)
          /\ walk.pos <= Len(Acts) + 1
          /\ \A q \in 1 .. walk.pos - 1 : walk.mem.run[q] \in {"succeeded", "skipped"}
    /\ walk.pc \in {"act", "acted"} =>
          /\ walk.pos <= Len(Acts) /\ walk.mem.run[walk.pos] \in {"running", "pending"}
          /\ Acts[walk.pos].kind \in {"tool", "question"}
          /\ Selected /\ walk.at >= Boundary

RowInv ==
    /\ Sound(chain, finished, chainRow.result) /\ Sound(chain, finished, chainRow.error)
    /\ RecordKept /\ (chainRow.status \in {"claimed", "retry_pending"} \/ walk.pc = "load") =>
          Covers(chain, finished, effects, Recorded(chainRow))
    /\ chainRow.status = "waiting_answer" =>
          /\ chainRow.asked \in Questions(chain) /\ Admitted(chain)
          /\ RecordKept => Covers(chain, finished, effects, chainRow.result)
    /\ chain.generated /\ ~recordLost => Holds(finished, chainRow.result)
    /\ chainRow.answered # 0 => chainRow.answered \in finished /\ ~chain.durable

HistoryInv ==
    /\ OneBranchActs /\ SuccessIsComplete
    /\ \A p \in Positions : effects[p] > 0 => Admitted(chain) /\ p \in ActionsOf(chain)
    /\ \A p \in finished : p \in ActionsOf(chain) /\ Acts[p].kind # "condition"
    /\ ~chain.durable => ~recordLost

ChainInv == ChainTypeOK /\ WalkInv /\ RowInv /\ HistoryInv

-----------------------------------------------------------------------------
(* Snapshots and records. *)

ActionType == [kind: {"tool", "condition", "question"}, branch: {"both", "true", "false"},
               wait: 0 .. ChainHorizon]

LEMMA SnapshotType ==
  ASSUME NEW c \in Chains
  PROVE  /\ c.actions \in Seq(ActionType) /\ Len(c.actions) \in Nat
         /\ \A p \in ActionsOf(c) :
               /\ c.actions[p] \in ActionType
               /\ c.actions[p].kind \in {"tool", "condition", "question"}
               /\ c.actions[p].branch \in {"both", "true", "false"}
               /\ c.actions[p].wait \in 0 .. ChainHorizon
         /\ c.generated \in BOOLEAN /\ c.durable \in BOOLEAN
  <1>1. c.actions \in Seq(ActionType) /\ c.generated \in BOOLEAN /\ c.durable \in BOOLEAN
    BY ChainAssumption DEF ActionType
  <1>2. \A p \in ActionsOf(c) : c.actions[p] \in ActionType
    BY <1>1 DEF ActionsOf
  <1>. QED  BY <1>1, <1>2 DEF ActionType

\* The contract of a condition: it belongs to no branch, and comes before both.
LEMMA ContractOfConditions ==
  ASSUME NEW c \in Chains, Admitted(c)
  PROVE  /\ Len(c.actions) \in 1 .. MaxActions /\ ActionsOf(c) \subseteq Positions
         /\ \A k, m \in Conditions(c) : k = m
         /\ \A k \in Conditions(c) : c.actions[k].branch = "both"
         /\ \A p \in ActionsOf(c) : c.actions[p].branch # "both" =>
               ~c.generated /\ \E k \in Conditions(c) : k < p
         /\ \A k \in Conditions(c), p \in ActionsOf(c) : c.actions[p].branch # "both" => k < p
  <1>1. Len(c.actions) \in 1 .. MaxActions /\ ActionsOf(c) \subseteq Positions
    <2>1. Len(c.actions) \in 1 .. MaxActions
      BY DEF Admitted
    <2>2. \A n \in 1 .. MaxActions : 1 .. n \subseteq Positions
      BY DEF Positions, MaxActions
    <2>. QED  BY <2>1, <2>2 DEF ActionsOf
  <1>2. \A p \in ActionsOf(c) : c.actions[p].branch # "both" => p \in OnBranch(c, "true") \cup OnBranch(c, "false")
    BY SnapshotType DEF OnBranch
  <1>3. CASE Conditions(c) = {}
    BY <1>1, <1>2, <1>3 DEF Admitted, ConditionContract
  <1>4. CASE Conditions(c) # {}
    <2>1. PICK k \in Conditions(c), m \in ActionsOf(c) :
            /\ Conditions(c) = {k} /\ ~c.generated
            /\ k > 1 /\ k < m /\ m < Len(c.actions)
            /\ OnBranch(c, "true") = k + 1 .. m
            /\ OnBranch(c, "false") = m + 1 .. Len(c.actions)
      BY <1>4 DEF Admitted, ConditionContract
    <2>2. k \in Int /\ m \in Int /\ k \in ActionsOf(c)
      BY DEF Conditions, ActionsOf
    <2>3. \A p \in ActionsOf(c) : c.actions[p].branch # "both" => k < p
      BY <1>2, <2>1, <2>2 DEF ActionsOf
    <2>4. c.actions[k].branch = "both"
      BY <2>2, <2>3
    <2>. QED  BY <1>1, <2>1, <2>3, <2>4
  <1>. QED  BY <1>3, <1>4

LEMMA RecordTypes ==
  /\ NoRecord \in Records
  /\ \A rec \in Records : /\ rec.branch \in {"none", "true", "false"}
                          /\ \A p \in Positions : rec.run[p] \in RunStatuses
  BY DEF Records, NoRecord, RunStatuses

LEMMA NothingRecorded ==
  ASSUME NEW c, NEW done
  PROVE  Sound(c, done, NoRecord)
  BY DEF Sound, NoRecord, Places

\* A label that is not an outcome.
LEMMA NoteSays ==
  ASSUME ChainTypeOK, walk.pos \in Positions, NEW s \in RunStatuses
  PROVE  /\ Note(s) \in Records
         /\ Note(s).branch = walk.mem.branch
         /\ \A p \in Positions : Note(s).run[p] = IF p = walk.pos THEN s ELSE walk.mem.run[p]
  BY DEF ChainTypeOK, Note, Records

LEMMA LabelledSays ==
  ASSUME NEW rec \in Records
  PROVE  /\ Labelled(rec) \in Records
         /\ Labelled(rec).branch = rec.branch
         /\ \A p \in Positions :
               /\ Labelled(rec).run[p] = "succeeded" <=> rec.run[p] = "succeeded"
               /\ Labelled(rec).run[p] = "skipped" /\ rec.run[p] # "skipped" =>
                     rec.branch # "none" /\ Acts[p].branch \notin {"both", rec.branch}
  <1>. DEFINE label == [p \in Positions |->
        IF rec.run[p] # "none" \/ p > Len(Acts) THEN rec.run[p]
        ELSE IF rec.branch # "none" /\ Acts[p].branch \notin {"both", rec.branch}
          THEN "skipped" ELSE "pending"]
  <1>1. \A p \in Positions : rec.run[p] \in RunStatuses
    BY RecordTypes
  <1>2. label \in [Positions -> RunStatuses]
    BY <1>1 DEF RunStatuses
  <1>3. Labelled(rec) = [rec EXCEPT !.run = label]
    BY DEF Labelled
  <1>4. Labelled(rec) \in Records /\ Labelled(rec).branch = rec.branch /\ Labelled(rec).run = label
    BY <1>2, <1>3 DEF Records
  <1>. QED  BY <1>4

LEMMA LabelledKeeps ==
  ASSUME NEW rec \in Records, NEW done \in SUBSET Positions, NEW eff
  PROVE  /\ Sound(chain, done, rec) => Sound(chain, done, Labelled(rec))
         /\ Covers(chain, done, eff, rec) => Covers(chain, done, eff, Labelled(rec))
  <1>1. ASSUME Sound(chain, done, rec) PROVE Sound(chain, done, Labelled(rec))
    <2>1. rec.branch # "none" => \E k \in Conditions(chain) \cap Positions : Labelled(rec).run[k] = "succeeded"
      BY <1>1, LabelledSays DEF Sound
    <2>2. \A p \in Places(chain) :
             /\ Labelled(rec).run[p] = "succeeded" <=> rec.run[p] = "succeeded"
             /\ Labelled(rec).run[p] = "skipped" => chain.actions[p].branch \notin {"both", rec.branch}
             /\ rec.branch = "none" => Labelled(rec).run[p] # "skipped"
      BY <1>1, LabelledSays DEF Sound, Places, Acts
    <2>. QED  BY <1>1, <2>1, <2>2, LabelledSays DEF Sound
  <1>2. ASSUME Covers(chain, done, eff, rec) PROVE Covers(chain, done, eff, Labelled(rec))
    BY <1>2, LabelledSays DEF Covers, Holds, Follows
  <1>. QED  BY <1>1, <1>2

-----------------------------------------------------------------------------
(* What an attempt writes. *)

\* A label that is no outcome, on an action that has none, changes nothing that
\* was accounted for.
LEMMA NoteKeeps ==
  ASSUME ChainTypeOK, NEW s \in RunStatuses \ {"succeeded", "skipped"}, walk.pos \in Positions,
         walk.mem.run[walk.pos] # "succeeded", Sound(chain, finished, walk.mem)
  PROVE  /\ Sound(chain, finished, Note(s))
         /\ \A eff : Covers(chain, finished, eff, walk.mem) => Covers(chain, finished, eff, Note(s))
  <1>1. Sound(chain, finished, Note(s))
    <2>1. walk.mem.branch # "none" =>
            \E k \in Conditions(chain) \cap Positions : Note(s).run[k] = "succeeded"
      BY NoteSays DEF Sound
    <2>. QED  BY <2>1, NoteSays DEF Sound, Places
  <1>2. ASSUME NEW eff, Covers(chain, finished, eff, walk.mem) PROVE Covers(chain, finished, eff, Note(s))
    <2>1. walk.pos \notin finished
      BY <1>2 DEF Covers, Holds
    <2>. QED  BY <1>2, <2>1, NoteSays DEF Covers, Holds, Follows, ChainTypeOK
  <1>. QED  BY <1>1, <1>2

\* A record that accounts for the history is what the next attempt reads, also when
\* it is empty.
LEMMA ReadBack ==
  ASSUME ChainTypeOK, NEW rec \in Records, Covers(chain, finished, effects, rec)
  PROVE  \A result \in Records :
            Covers(chain, finished, effects, IF rec # NoRecord THEN rec ELSE result)
  <1>. SUFFICES ASSUME NEW result \in Records, rec = NoRecord
                PROVE  Covers(chain, finished, effects, result)
    OBVIOUS
  <1>1. finished = {}
    BY DEF Covers, Holds, NoRecord, ChainTypeOK
  <1>2. \A p \in Places(chain) : effects[p] > 0 => chain.actions[p].branch = "both"
    <2>1. \A p \in Places(chain) : chain.actions[p].branch # "none"
      BY SnapshotType DEF Places, ChainTypeOK
    <2>. QED  BY <2>1 DEF Covers, Follows, NoRecord
  <1>. QED  BY <1>1, <1>2 DEF Covers, Holds, Follows

\* The coordinator returns with a row that keeps the promises of a row, or with none.
LEMMA ConcludeKeeps ==
  ASSUME ChainInv, walk.pc # "rest", NEW row, Conclude(row), UNCHANGED <<effects, finished>>,
         row \in [status: {"retry_pending", "waiting_answer", "succeeded", "failed"},
                  attempt: 1 .. MaxChainAttempts, due: 0 .. ChainHorizon,
                  result: Records, error: Records, asked: 0 .. MaxActions, answered: 0 .. MaxActions],
         Sound(chain, finished, row.result), Sound(chain, finished, row.error),
         RecordKept /\ row.status = "retry_pending" => Covers(chain, finished, effects, Recorded(row)),
         row.status = "waiting_answer" =>
            /\ row.asked \in Questions(chain) /\ Admitted(chain)
            /\ RecordKept => Covers(chain, finished, effects, row.result),
         chain.generated /\ ~recordLost => Holds(finished, row.result),
         row.answered # 0 => row.answered = chainRow.answered,
         row.status = "succeeded" =>
            \A p \in ActionsOf(chain) :
                \/ p \in finished
                \/ Acts[p].kind = "condition" /\ row.result.run[p] = "succeeded"
                \/ Acts[p].branch \notin {"both", row.result.branch}
  PROVE  ChainInv'
  <1>. USE DEF ChainInv
  <1>1. UNCHANGED <<chain, chainClock, recordLost, effects, finished>> /\ walk' = Resting
    BY DEF Conclude
  <1>2. chainRow' = row \/ chainRow' = chainRow
    BY DEF Conclude
  <1>3. chainRow.status = "running"
    BY DEF WalkInv
  <1>4. ChainTypeOK'
    <2>1. walk' \in [pc: {"rest", "load", "prepare", "walk", "act", "acted"},
                     pos: 1 .. MaxActions + 1, at: 0 .. ChainHorizon, mem: Records]
      BY <1>1, RecordTypes, ChainAssumption DEF Resting, MaxActions
    <2>2. chainRow' \in
            [status: {"claimed", "running", "retry_pending", "waiting_answer", "succeeded", "failed"},
             attempt: 1 .. MaxChainAttempts, due: 0 .. ChainHorizon,
             result: Records, error: Records, asked: 0 .. MaxActions, answered: 0 .. MaxActions]
      BY <1>2 DEF ChainTypeOK
    <2>. QED  BY <1>1, <2>1, <2>2 DEF ChainTypeOK
  <1>5. WalkInv'
    BY <1>1 DEF WalkInv, Resting
  <1>6. RowInv'
    <2>1. CASE chainRow' = row
      BY <1>1, <2>1 DEF RowInv, RecordKept, Resting
    <2>2. CASE chainRow' = chainRow
      BY <1>1, <1>3, <2>2 DEF RowInv, RecordKept, Resting
    <2>. QED  BY <1>2, <2>1, <2>2
  <1>7. HistoryInv'
    <2>1. SuccessIsComplete'
      BY <1>1, <1>2 DEF HistoryInv, SuccessIsComplete, Acts
    <2>. QED  BY <1>1, <2>1 DEF HistoryInv, OneBranchActs, Acts
  <1>. QED  BY <1>4, <1>5, <1>6, <1>7

RowType ==
    [status: {"claimed", "running", "retry_pending", "waiting_answer", "succeeded", "failed"},
     attempt: 1 .. MaxChainAttempts, due: 0 .. ChainHorizon,
     result: Records, error: Records, asked: 0 .. MaxActions, answered: 0 .. MaxActions]

Fields(row) == <<row.status, row.attempt, row.due, row.result, row.error, row.asked, row.answered>>
Writes(row, fields) == row \in RowType /\ Fields(row) = fields

\* The rows that are written, two fields at a time.
LEMMA StatusAndError ==
  ASSUME NEW r \in RowType, NEW rec \in Records,
         NEW status \in {"running", "retry_pending", "waiting_answer", "succeeded", "failed"}
  PROVE  Writes([r EXCEPT !.status = status, !.error = rec],
                <<status, r.attempt, r.due, r.result, rec, r.asked, r.answered>>)
  BY DEF RowType, Fields, Writes

LEMMA StatusAndDue ==
  ASSUME NEW r \in RowType, NEW due \in 0 .. ChainHorizon,
         NEW status \in {"running", "retry_pending", "waiting_answer", "succeeded", "failed"}
  PROVE  Writes([r EXCEPT !.status = status, !.due = due],
                <<status, r.attempt, due, r.result, r.error, r.asked, r.answered>>)
  BY DEF RowType, Fields, Writes

LEMMA AttemptAndError ==
  ASSUME NEW r \in RowType, NEW a \in 1 .. MaxChainAttempts, NEW rec \in Records
  PROVE  Writes([r EXCEPT !.attempt = a, !.error = rec],
                <<r.status, a, r.due, r.result, rec, r.asked, r.answered>>)
  BY DEF RowType, Fields, Writes

LEMMA ResultAndError ==
  ASSUME NEW r \in RowType, NEW rec \in Records, NEW other \in Records
  PROVE  Writes([r EXCEPT !.result = rec, !.error = other],
                <<r.status, r.attempt, r.due, rec, other, r.asked, r.answered>>)
  BY DEF RowType, Fields, Writes

LEMMA AskedAndAnswered ==
  ASSUME NEW r \in RowType, NEW q \in 0 .. MaxActions, NEW n \in 0 .. MaxActions
  PROVE  Writes([r EXCEPT !.asked = q, !.answered = n],
                <<r.status, r.attempt, r.due, r.result, r.error, q, n>>)
  BY DEF RowType, Fields, Writes

LEMMA StatusAndResult ==
  ASSUME NEW r \in RowType, NEW rec \in Records,
         NEW status \in {"running", "retry_pending", "waiting_answer", "succeeded", "failed"}
  PROVE  Writes([r EXCEPT !.status = status, !.result = rec],
                <<status, r.attempt, r.due, rec, r.error, r.asked, r.answered>>)
  BY DEF RowType, Fields, Writes

LEMMA ResultAlone ==
  ASSUME NEW r \in RowType, NEW rec \in Records
  PROVE  Writes([r EXCEPT !.result = rec],
                <<r.status, r.attempt, r.due, rec, r.error, r.asked, r.answered>>)
  BY DEF RowType, Fields, Writes

LEMMA StatusAlone ==
  ASSUME NEW r \in RowType, NEW status \in {"running", "retry_pending", "waiting_answer", "succeeded", "failed"}
  PROVE  Writes([r EXCEPT !.status = status],
                <<status, r.attempt, r.due, r.result, r.error, r.asked, r.answered>>)
  BY DEF RowType, Fields, Writes

LEMMA RetriedRow ==
  ASSUME NEW row \in RowType, NEW rec \in Records, NEW due \in 0 .. ChainHorizon, NEW a \in 1 .. MaxChainAttempts
  PROVE  Writes([row EXCEPT !.status = "retry_pending", !.due = due, !.attempt = a, !.error = rec],
                <<"retry_pending", a, due, row.result, rec, row.asked, row.answered>>)
  <1>. DEFINE y == [row EXCEPT !.status = "retry_pending", !.due = due]
              x == [y EXCEPT !.attempt = a, !.error = rec]
  <1>1. Writes(y, <<"retry_pending", row.attempt, due, row.result, row.error, row.asked, row.answered>>)
    BY StatusAndDue
  <1>2. y \in RowType => Writes(x, <<y.status, a, y.due, y.result, rec, y.asked, y.answered>>)
    <2>. HIDE DEF y
    <2>. QED  BY AttemptAndError
  <1>. HIDE DEF y
  <1>3. Writes(x, <<"retry_pending", a, due, row.result, rec, row.asked, row.answered>>)
    BY <1>1, <1>2 DEF Fields, Writes
  <1>. QED  BY <1>3 DEF y

LEMMA ParkedRow ==
  ASSUME NEW row \in RowType, NEW rec \in Records, NEW due \in 0 .. ChainHorizon, NEW q \in 0 .. MaxActions,
         NEW status \in {"retry_pending", "waiting_answer"}
  PROVE  Writes([row EXCEPT !.status = status, !.due = due, !.result = rec, !.error = rec, !.asked = q,
                            !.answered = 0],
                <<status, row.attempt, due, rec, rec, q, 0>>)
  <1>. DEFINE y == [row EXCEPT !.status = status, !.due = due]
              x == [y EXCEPT !.result = rec, !.error = rec]
              w == [x EXCEPT !.asked = q, !.answered = 0]
  <1>1. Writes(y, <<status, row.attempt, due, row.result, row.error, row.asked, row.answered>>)
    BY StatusAndDue
  <1>2. y \in RowType => Writes(x, <<y.status, y.attempt, y.due, rec, rec, y.asked, y.answered>>)
    <2>. HIDE DEF y
    <2>. QED  BY ResultAndError
  <1>3. x \in RowType => Writes(w, <<x.status, x.attempt, x.due, x.result, x.error, q, 0>>)
    <2>1. 0 \in 0 .. MaxActions
      BY DEF MaxActions
    <2>. HIDE DEF x
    <2>. QED  BY <2>1, AskedAndAnswered
  <1>. HIDE DEF y, x, w
  <1>4. Writes(w, <<status, row.attempt, due, rec, rec, q, 0>>)
    BY <1>1, <1>2, <1>3 DEF Fields, Writes
  <1>. QED  BY <1>4 DEF y, x, w

LEMMA PersistedRow ==
  ASSUME NEW row \in RowType, NEW rec \in Records
  PROVE  /\ Writes([row EXCEPT !.result = rec, !.asked = 0, !.answered = 0],
                   <<row.status, row.attempt, row.due, rec, row.error, 0, 0>>)
         /\ Writes([row EXCEPT !.status = "succeeded", !.result = rec, !.asked = 0, !.answered = 0],
                   <<"succeeded", row.attempt, row.due, rec, row.error, 0, 0>>)
  <1>0. 0 \in 0 .. MaxActions
    BY DEF MaxActions
  <1>1. \A x \in RowType : Writes([x EXCEPT !.asked = 0, !.answered = 0],
                                  <<x.status, x.attempt, x.due, x.result, x.error, 0, 0>>)
    BY <1>0, AskedAndAnswered
  <1>2. Writes([row EXCEPT !.result = rec, !.asked = 0, !.answered = 0],
               <<row.status, row.attempt, row.due, rec, row.error, 0, 0>>)
    <2>. DEFINE y == [row EXCEPT !.result = rec]
                x == [y EXCEPT !.asked = 0, !.answered = 0]
    <2>1. Writes(y, <<row.status, row.attempt, row.due, rec, row.error, row.asked, row.answered>>)
      BY ResultAlone
    <2>2. y \in RowType => Writes(x, <<y.status, y.attempt, y.due, y.result, y.error, 0, 0>>)
      <3>. HIDE DEF y
      <3>. QED BY <1>1
    <2>. HIDE DEF y
    <2>3. Writes(x, <<row.status, row.attempt, row.due, rec, row.error, 0, 0>>)
      BY <2>1, <2>2 DEF Fields, Writes
    <2>. QED  BY <2>3 DEF y
  <1>3. Writes([row EXCEPT !.status = "succeeded", !.result = rec, !.asked = 0, !.answered = 0],
               <<"succeeded", row.attempt, row.due, rec, row.error, 0, 0>>)
    <2>. DEFINE y == [row EXCEPT !.status = "succeeded", !.result = rec]
                x == [y EXCEPT !.asked = 0, !.answered = 0]
    <2>1. Writes(y, <<"succeeded", row.attempt, row.due, rec, row.error, row.asked, row.answered>>)
      BY StatusAndResult
    <2>2. y \in RowType => Writes(x, <<y.status, y.attempt, y.due, y.result, y.error, 0, 0>>)
      <3>. HIDE DEF y
      <3>. QED BY <1>1
    <2>. HIDE DEF y
    <2>3. Writes(x, <<"succeeded", row.attempt, row.due, rec, row.error, 0, 0>>)
      BY <2>1, <2>2 DEF Fields, Writes
    <2>. QED  BY <2>3 DEF y
  <1>. QED  BY <1>2, <1>3

LEMMA FailureKeeps ==
  ASSUME ChainInv, walk.pc # "rest", NEW rec \in Records, NEW retryable \in BOOLEAN,
         HandleFailure(retryable, rec), UNCHANGED <<effects, finished>>,
         Sound(chain, finished, rec),
         RecordKept /\ retryable =>
            Covers(chain, finished, effects, IF rec # NoRecord THEN rec ELSE chainRow.result)
  PROVE  ChainInv'
  <1>0. chainRow \in RowType /\ chainClock \in 0 .. ChainHorizon
    BY DEF ChainInv, ChainTypeOK, RowType
  <1>1. PICK row \in RowType :
          /\ Conclude(row)
          /\ row.result = chainRow.result /\ row.error = rec /\ row.answered = chainRow.answered
          /\ row.status = "failed" \/ (retryable /\ row.status = "retry_pending")
    <2>1. CASE retryable /\ chainRow.attempt < MaxChainAttempts
      <3>. DEFINE row == [chainRow EXCEPT !.status = "retry_pending", !.due = chainClock,
                                          !.attempt = @ + 1, !.error = rec]
      <3>0. chainRow.attempt + 1 \in 1 .. MaxChainAttempts
        BY <1>0, <2>1, ChainAssumption DEF RowType
      <3>1. Writes(row, <<"retry_pending", chainRow.attempt + 1, chainClock, chainRow.result,
                          rec, chainRow.asked, chainRow.answered>>)
        BY <1>0, <3>0, RetriedRow
      <3>2. Conclude(row)
        BY <2>1 DEF HandleFailure
      <3>. HIDE DEF row
      <3>. QED  BY <2>1, <3>1, <3>2 DEF Fields, Writes
    <2>2. CASE ~(retryable /\ chainRow.attempt < MaxChainAttempts)
      <3>. DEFINE row == [chainRow EXCEPT !.status = "failed", !.error = rec]
      <3>1. Writes(row, <<"failed", chainRow.attempt, chainRow.due, chainRow.result,
                          rec, chainRow.asked, chainRow.answered>>)
        BY <1>0, StatusAndError
      <3>2. Conclude(row)
        BY <2>2 DEF HandleFailure
      <3>. HIDE DEF row
      <3>. QED  BY <3>1, <3>2 DEF Fields, Writes
    <2>. QED  BY <2>1, <2>2
  <1>2. row \in [status: {"retry_pending", "waiting_answer", "succeeded", "failed"},
                 attempt: 1 .. MaxChainAttempts, due: 0 .. ChainHorizon,
                 result: Records, error: Records, asked: 0 .. MaxActions, answered: 0 .. MaxActions]
    BY <1>1 DEF RowType
  <1>3. RecordKept /\ row.status = "retry_pending" => Covers(chain, finished, effects, Recorded(row))
    BY <1>1 DEF Recorded
  <1>. QED  BY <1>1, <1>2, <1>3, ConcludeKeeps DEF ChainInv, RowInv

LEMMA ParkKeeps ==
  ASSUME ChainInv, walk.pc # "rest", NEW status \in {"retry_pending", "waiting_answer"},
         NEW due \in 0 .. ChainHorizon, NEW rec \in Records, NEW q \in 0 .. MaxActions,
         Park(status, due, rec, q), UNCHANGED <<effects, finished>>,
         Admitted(chain), Sound(chain, finished, rec),
         RecordKept => Covers(chain, finished, effects, rec),
         status = "waiting_answer" => q \in Questions(chain)
  PROVE  ChainInv'
  <1>. DEFINE row == [chainRow EXCEPT !.status = status, !.due = due, !.result = rec,
                                      !.error = rec, !.asked = q, !.answered = 0]
  <1>1. Writes(row, <<status, chainRow.attempt, due, rec, rec, q, 0>>)
    BY ParkedRow DEF ChainInv, ChainTypeOK, RowType
  <1>2. Conclude(row)
    BY DEF Park
  <1>. HIDE DEF row
  <1>3. row.result = rec /\ row.error = rec /\ row.answered = 0 /\ row.asked = q /\ row.status = status
    BY <1>1 DEF Fields, Writes
  <1>4. row \in [status: {"retry_pending", "waiting_answer", "succeeded", "failed"},
                 attempt: 1 .. MaxChainAttempts, due: 0 .. ChainHorizon,
                 result: Records, error: Records, asked: 0 .. MaxActions, answered: 0 .. MaxActions]
    BY <1>1, <1>3 DEF RowType, Writes
  <1>5. Recorded(row) = rec
    BY <1>3 DEF Recorded
  <1>6. chain.generated /\ ~recordLost => Holds(finished, rec)
    BY DEF RecordKept, Covers
  <1>. QED  BY <1>2, <1>3, <1>4, <1>5, <1>6, ConcludeKeeps

\* The walk goes on with a record that says no less, and writes it or loses the write.
LEMMA WalkKeeps ==
  ASSUME ChainInv, walk.pc \in {"walk", "act", "acted"}, NEW rec \in Records,
         walk' \in [pc: {"walk", "act"}, pos: 1 .. MaxActions + 1, at: {walk.at}, mem: {rec}],
         Persist(rec) \/ UNCHANGED <<chainRow, recordLost, finished>>,
         UNCHANGED <<chain, chainClock, effects>>,
         \/ UNCHANGED finished
         \/ /\ finished' = finished \cup {walk.pos} /\ walk.pos \in ActionsOf(chain)
            /\ Acts[walk.pos].kind # "condition",
         Sound(chain, finished', rec),
         RecordKept => Covers(chain, finished', effects, rec),
         walk'.pos <= Len(Acts) + 1,
         \A q \in 1 .. walk'.pos - 1 : rec.run[q] \in {"succeeded", "skipped"},
         walk'.pc = "act" =>
            /\ walk'.pos <= Len(Acts) /\ rec.run[walk'.pos] \in {"running", "pending"}
            /\ Acts[walk'.pos].kind \in {"tool", "question"}
            /\ Acts[walk'.pos].branch \in {"both", rec.branch} /\ walk.at >= Acts[walk'.pos].wait
  PROVE  ChainInv'
  <1>. USE DEF ChainInv
  <1>1. chainRow.status = "running" /\ Admitted(chain) /\ walk.at <= chainClock
    BY DEF WalkInv
  <1>2. (RecordKept' => RecordKept) /\ (~recordLost' => ~recordLost)
    BY DEF Persist, RecordKept, ChainTypeOK
  <1>3. finished \subseteq finished' /\ finished' \subseteq Positions
    BY <1>1, ContractOfConditions DEF ChainTypeOK
  <1>4. \/ chainRow' = [chainRow EXCEPT !.result = rec, !.asked = 0, !.answered = 0]
        \/ chainRow' = chainRow /\ ((chain.durable /\ recordLost' = TRUE) \/ UNCHANGED <<recordLost, finished>>)
    BY DEF Persist
  <1>5. /\ chainRow' \in RowType /\ chainRow'.status = "running"
        /\ chainRow'.result \in {rec, chainRow.result} /\ chainRow'.error = chainRow.error
        /\ chainRow'.answered \in {0, chainRow.answered}
        /\ \/ chainRow'.result = rec
           \/ chainRow' = chainRow /\ ((chain.durable /\ recordLost' = TRUE) \/ UNCHANGED <<recordLost, finished>>)
    <2>1. chainRow \in RowType
      BY DEF ChainTypeOK, RowType
    <2>2. CASE chainRow' = [chainRow EXCEPT !.result = rec, !.asked = 0, !.answered = 0]
      <3>. DEFINE row == [chainRow EXCEPT !.result = rec, !.asked = 0, !.answered = 0]
      <3>1. Writes(row, <<chainRow.status, chainRow.attempt, chainRow.due, rec, chainRow.error, 0, 0>>)
        BY <2>1, PersistedRow
      <3>2. chainRow' = row
        BY <2>2
      <3>. HIDE DEF row
      <3>. QED  BY <1>1, <3>1, <3>2 DEF Fields, Writes
    <2>. QED  BY <1>1, <1>4, <2>1, <2>2
  <1>6. ChainTypeOK'
    <2>1. walk' \in [pc: {"rest", "load", "prepare", "walk", "act", "acted"},
                     pos: 1 .. MaxActions + 1, at: 0 .. ChainHorizon, mem: Records]
      BY DEF ChainTypeOK
    <2>2. chainRow' \in
            [status: {"claimed", "running", "retry_pending", "waiting_answer", "succeeded", "failed"},
             attempt: 1 .. MaxChainAttempts, due: 0 .. ChainHorizon,
             result: Records, error: Records, asked: 0 .. MaxActions, answered: 0 .. MaxActions]
      BY <1>5 DEF RowType
    <2>3. recordLost' \in BOOLEAN
      BY DEF Persist, ChainTypeOK
    <2>. QED  BY <1>3, <2>1, <2>2, <2>3 DEF ChainTypeOK
  <1>7. WalkInv'
    BY <1>1, <1>2, <1>5 DEF WalkInv, Acts, Selected, Boundary
  <1>8. RowInv'
    <2>1. Sound(chain, finished', chainRow.result) /\ Sound(chain, finished', chainRow.error)
      BY <1>3 DEF RowInv, Sound
    <2>2. Sound(chain', finished', chainRow'.result) /\ Sound(chain', finished', chainRow'.error)
      BY <1>5, <2>1
    <2>3. chain'.generated /\ ~recordLost' => Holds(finished', chainRow'.result)
      <3>1. CASE chainRow'.result = rec
        BY <1>2, <3>1 DEF RecordKept, Covers
      <3>2. CASE chainRow' = chainRow /\ recordLost' = TRUE
        BY <3>2
      <3>3. CASE UNCHANGED <<chainRow, recordLost, finished>>
        BY <3>3 DEF RowInv
      <3>. QED  BY <1>5, <3>1, <3>2, <3>3
    <2>. QED  BY <1>3, <1>5, <2>2, <2>3 DEF RowInv
  <1>9. HistoryInv'
    <2>1. ~chain'.durable => ~recordLost'
      BY <1>4 DEF HistoryInv, Persist
    <2>. QED  BY <1>3, <1>5, <2>1 DEF HistoryInv, OneBranchActs, SuccessIsComplete, Acts
  <1>. QED  BY <1>6, <1>7, <1>8, <1>9

-----------------------------------------------------------------------------
(* The walk. *)

LEMMA WalkTypes ==
  ASSUME ChainInv
  PROVE  /\ walk.pc \in {"rest", "load", "prepare", "walk", "act", "acted"}
         /\ walk.pos \in 1 .. MaxActions + 1 /\ walk.pos \in Nat /\ walk.at \in 0 .. ChainHorizon
         /\ walk.mem \in Records
         /\ chain \in Chains /\ finished \subseteq Positions /\ recordLost \in BOOLEAN
         /\ walk.pc \notin {"rest", "load"} /\ walk.pos <= Len(Acts) =>
               walk.pos \in Positions /\ walk.pos \in ActionsOf(chain) /\ walk.pos \in Places(chain)
  <1>1. ASSUME walk.pc \notin {"rest", "load"}, walk.pos <= Len(Acts)
        PROVE  walk.pos \in Positions /\ walk.pos \in ActionsOf(chain)
    <2>1. walk.pos \in 1 .. Len(Acts)
      BY <1>1, SnapshotType DEF ChainInv, ChainTypeOK, Acts, MaxActions
    <2>. QED  BY <1>1, <2>1, ContractOfConditions DEF ChainInv, ChainTypeOK, WalkInv, ActionsOf, Acts
  <1>. QED  BY <1>1 DEF ChainInv, ChainTypeOK, MaxActions, Places

\* The condition was decided before any action of a branch is reached.
LEMMA BranchIsDecided ==
  ASSUME ChainInv, walk.pc = "walk", walk.pos <= Len(Acts), Acts[walk.pos].branch # "both"
  PROVE  walk.mem.branch # "none"
  <1>1. walk.pos \in ActionsOf(chain) /\ Admitted(chain) /\ chain \in Chains /\ walk.pos \in Nat
    BY WalkTypes DEF ChainInv, WalkInv
  <1>2. PICK k \in Conditions(chain) : k < walk.pos
    BY <1>1, ContractOfConditions DEF Acts
  <1>3. k \in ActionsOf(chain) /\ k \in Places(chain) /\ chain.actions[k].kind = "condition"
    BY <1>1, ContractOfConditions DEF Conditions, Places
  <1>4. k \in 1 .. walk.pos - 1
    BY <1>1, <1>2, <1>3 DEF ActionsOf
  <1>5. walk.mem.run[k] \in {"succeeded", "skipped"} /\ Sound(chain, finished, walk.mem)
    BY <1>4 DEF ChainInv, WalkInv
  <1>6. chain.actions[k].branch = "both"
    BY <1>1, ContractOfConditions
  <1>. QED  BY <1>3, <1>5, <1>6 DEF Sound

\* Before the condition was decided nothing of a branch is recorded or done.
LEMMA NothingDecided ==
  ASSUME ChainInv, walk.pc = "walk", walk.pos <= Len(Acts), Acts[walk.pos].kind = "condition",
         walk.mem.run[walk.pos] # "succeeded"
  PROVE  /\ walk.mem.branch = "none" /\ walk.pos \in Conditions(chain)
         /\ \A p \in Places(chain) : walk.mem.run[p] # "skipped"
         /\ RecordKept => \A p \in Places(chain) : effects[p] > 0 => chain.actions[p].branch = "both"
  <1>1. walk.pos \in ActionsOf(chain) /\ Admitted(chain) /\ chain \in Chains
    BY WalkTypes DEF ChainInv, WalkInv
  <1>2. walk.pos \in Conditions(chain)
    BY <1>1 DEF Conditions, Acts
  <1>3. Sound(chain, finished, walk.mem) /\ (RecordKept => Follows(chain, effects, walk.mem))
    BY DEF ChainInv, WalkInv, Covers
  <1>4. walk.mem.branch = "none"
    <2>1. \A k \in Conditions(chain) : k = walk.pos
      BY <1>1, <1>2, ContractOfConditions
    <2>. QED  BY <1>3, <2>1 DEF Sound
  <1>5. \A p \in Places(chain) : chain.actions[p].branch # "none"
    BY <1>1, SnapshotType DEF Places
  <1>. QED  BY <1>2, <1>3, <1>4, <1>5 DEF Sound, Follows

LEMMA Proceeds ==
  ASSUME ChainInv, walk.pc \in {"walk", "act", "acted"}, walk.pos <= Len(Acts), NEW rec \in Records,
         Proceed(rec)
  PROVE  /\ walk' \in [pc: {"walk", "act"}, pos: 1 .. MaxActions + 1, at: {walk.at}, mem: {rec}]
         /\ walk'.pos = walk.pos + 1 /\ walk'.pc = "walk" /\ walk'.pos <= Len(Acts) + 1
  <1>1. walk \in [pc: {"rest", "load", "prepare", "walk", "act", "acted"},
                  pos: 1 .. MaxActions + 1, at: 0 .. ChainHorizon, mem: Records]
    BY DEF ChainInv, ChainTypeOK
  <1>2. walk.pos \in Positions /\ Len(Acts) \in Nat
    BY WalkTypes, SnapshotType DEF Acts
  <1>. DEFINE a == [walk EXCEPT !.pc = "walk"]
              b == [a EXCEPT !.pos = walk.pos + 1]
              d == [b EXCEPT !.mem = rec]
  <1>3. a = [pc |-> "walk", pos |-> walk.pos, at |-> walk.at, mem |-> walk.mem]
    BY <1>1
  <1>4. b = [pc |-> "walk", pos |-> walk.pos + 1, at |-> walk.at, mem |-> walk.mem]
    <2>. HIDE DEF a
    <2>. QED  BY <1>3
  <1>5. d = [pc |-> "walk", pos |-> walk.pos + 1, at |-> walk.at, mem |-> rec]
    <2>. HIDE DEF b
    <2>. QED  BY <1>4
  <1>6. walk' = d
    BY DEF Proceed
  <1>. HIDE DEF d
  <1>7. walk' = [pc |-> "walk", pos |-> walk.pos + 1, at |-> walk.at, mem |-> rec]
    BY <1>5, <1>6
  <1>8. walk.pos + 1 \in 1 .. MaxActions + 1 /\ walk.pos + 1 <= Len(Acts) + 1
    BY <1>2 DEF Positions, MaxActions
  <1>. QED  BY <1>7, <1>8

LEMMA SkipKeeps ==
  ASSUME ChainInv, ChainSkip
  PROVE  ChainInv'
  <1>1. /\ walk.pc = "walk" /\ walk.pos <= Len(Acts)
        /\ walk.mem.run[walk.pos] \in {"succeeded", "skipped"}
        /\ Proceed(walk.mem)
        /\ UNCHANGED <<chain, chainRow, chainClock, effects, finished, recordLost>>
    BY DEF ChainSkip
  <1>2. walk.mem \in Records /\ walk.pos \in Nat
    BY WalkTypes
  <1>3. \A q \in 1 .. walk.pos : walk.mem.run[q] \in {"succeeded", "skipped"}
    BY <1>1, <1>2 DEF ChainInv, WalkInv
  <1>4. \A q \in 1 .. walk'.pos - 1 : walk.mem.run[q] \in {"succeeded", "skipped"}
    BY <1>1, <1>2, <1>3, Proceeds
  <1>. QED  BY <1>1, <1>2, <1>4, Proceeds, WalkKeeps DEF ChainInv, WalkInv

LEMMA PrefixGrows ==
  ASSUME ChainInv, walk.pc \in {"walk", "act", "acted"}, walk.pos <= Len(Acts),
         NEW rec \in Records, rec.run[walk.pos] \in {"succeeded", "skipped"},
         \A q \in Positions \ {walk.pos} : rec.run[q] = walk.mem.run[q],
         NEW pos, pos = walk.pos + 1
  PROVE  \A q \in 1 .. pos - 1 : rec.run[q] \in {"succeeded", "skipped"}
  <1>1. walk.pos \in Positions
    BY WalkTypes
  <1>2. \A q \in 1 .. walk.pos - 1 : walk.mem.run[q] \in {"succeeded", "skipped"} /\ q \in Positions \ {walk.pos}
    BY <1>1 DEF ChainInv, WalkInv, Positions, MaxActions
  <1>3. \A q \in 1 .. pos - 1 : q = walk.pos \/ q \in 1 .. walk.pos - 1
    BY <1>1 DEF Positions, MaxActions
  <1>. QED  BY <1>2, <1>3

LEMMA RejectKeeps ==
  ASSUME ChainInv, ChainReject
  PROVE  ChainInv'
  <1>. DEFINE rec == Note("skipped")
  <1>1. /\ walk.pc = "walk" /\ walk.pos <= Len(Acts) /\ walk.mem.run[walk.pos] # "succeeded"
        /\ Acts[walk.pos].branch \notin {"both", walk.mem.branch}
        /\ Proceed(rec)
        /\ UNCHANGED <<chain, chainRow, chainClock, effects, finished, recordLost>>
    BY DEF ChainReject, NextIs, Selected
  <1>2. walk.pos \in Positions /\ walk.mem \in Records
    BY <1>1, WalkTypes
  <1>3. /\ rec \in Records /\ rec.branch = walk.mem.branch
        /\ \A p \in Positions : rec.run[p] = IF p = walk.pos THEN "skipped" ELSE walk.mem.run[p]
    BY <1>2, NoteSays DEF ChainInv, RunStatuses
  <1>. HIDE DEF rec
  <1>4. walk.mem.branch # "none"
    BY <1>1, BranchIsDecided
  <1>5. Sound(chain, finished, walk.mem) /\ (RecordKept => Covers(chain, finished, effects, walk.mem))
    BY <1>1 DEF ChainInv, WalkInv
  <1>6. Sound(chain, finished, rec)
    BY <1>1, <1>3, <1>4, <1>5 DEF Sound, Places, Acts
  <1>7. RecordKept => Covers(chain, finished, effects, rec)
    BY <1>1, <1>3, <1>5, WalkTypes DEF Covers, Holds, Follows
  <1>8. walk' \in [pc: {"walk", "act"}, pos: 1 .. MaxActions + 1, at: {walk.at}, mem: {rec}]
        /\ walk'.pos = walk.pos + 1 /\ walk'.pc = "walk" /\ walk'.pos <= Len(Acts) + 1
    BY <1>1, <1>3, Proceeds
  <1>9. \A q \in 1 .. walk'.pos - 1 : rec.run[q] \in {"succeeded", "skipped"}
    BY <1>1, <1>2, <1>3, <1>8, PrefixGrows
  <1>. QED  BY <1>1, <1>3, <1>6, <1>7, <1>8, <1>9, WalkKeeps

\* The record of an action that failed, or was started: no less than before.
LEMMA UnfinishedNote ==
  ASSUME ChainInv, walk.pc \in {"walk", "act", "acted"}, walk.pos <= Len(Acts),
         walk.mem.run[walk.pos] # "succeeded", NEW s \in RunStatuses \ {"succeeded", "skipped"}
  PROVE  /\ Note(s) \in Records /\ Sound(chain, finished, Note(s))
         /\ RecordKept => Covers(chain, finished, effects, Note(s))
         /\ Labelled(Note(s)) \in Records /\ Sound(chain, finished, Labelled(Note(s)))
         /\ RecordKept => Covers(chain, finished, effects, Labelled(Note(s)))
  <1>1. walk.pos \in Positions /\ finished \subseteq Positions
    BY WalkTypes
  <1>2. Sound(chain, finished, walk.mem) /\ (RecordKept => Covers(chain, finished, effects, walk.mem))
    BY DEF ChainInv, WalkInv
  <1>3. Note(s) \in Records
    BY <1>1, NoteSays DEF ChainInv
  <1>4. Sound(chain, finished, Note(s)) /\ (RecordKept => Covers(chain, finished, effects, Note(s)))
    BY <1>1, <1>2, NoteKeeps DEF ChainInv
  <1>5. \A rec \in Records :
           /\ Labelled(rec) \in Records
           /\ Sound(chain, finished, rec) => Sound(chain, finished, Labelled(rec))
           /\ Covers(chain, finished, effects, rec) => Covers(chain, finished, effects, Labelled(rec))
    BY <1>1, LabelledSays, LabelledKeeps
  <1>. QED  BY <1>3, <1>4, <1>5

LEMMA FailedNoteKeeps ==
  ASSUME ChainInv, walk.pc \in {"walk", "act", "acted"}, walk.pos <= Len(Acts),
         walk.mem.run[walk.pos] # "succeeded", NEW retryable \in BOOLEAN,
         HandleFailure(retryable, Labelled(Note("failed"))), UNCHANGED <<effects, finished>>
  PROVE  ChainInv'
  <1>. DEFINE rec == Labelled(Note("failed"))
  <1>1. /\ rec \in Records /\ Sound(chain, finished, rec)
        /\ RecordKept => Covers(chain, finished, effects, rec)
    BY UnfinishedNote DEF RunStatuses
  <1>2. HandleFailure(retryable, rec)
    OBVIOUS
  <1>. HIDE DEF rec
  <1>3. chainRow.result \in Records /\ ChainTypeOK
    BY DEF ChainInv, ChainTypeOK
  <1>4. RecordKept => Covers(chain, finished, effects, IF rec # NoRecord THEN rec ELSE chainRow.result)
    BY <1>1, <1>3, ReadBack
  <1>. QED  BY <1>1, <1>2, <1>4, FailureKeeps

LEMMA StartKeeps ==
  ASSUME ChainInv, ChainStart
  PROVE  ChainInv'
  <1>. DEFINE s == IF Acts[walk.pos].kind = "question" THEN "pending" ELSE "running"
              rec == Note(s)
  <1>1. /\ walk.pc = "walk" /\ walk.pos <= Len(Acts) /\ walk.mem.run[walk.pos] # "succeeded"
        /\ Acts[walk.pos].kind \in {"tool", "question"}
        /\ Acts[walk.pos].branch \in {"both", walk.mem.branch} /\ walk.at >= Acts[walk.pos].wait
        /\ UNCHANGED <<effects, finished>>
    BY DEF ChainStart, NextIs, Selected, Boundary
  <1>2. CASE HandleFailure(FALSE, Labelled(Note("failed")))
    BY <1>1, <1>2, FailedNoteKeeps
  <1>3. CASE Persist(rec) /\ walk' = [walk EXCEPT !.pc = "act", !.mem = rec] /\ UNCHANGED <<chain, chainClock>>
    <2>1. walk.pos \in Positions /\ walk.pos \in Nat /\ s \in {"pending", "running"}
      BY <1>1, WalkTypes
    <2>2. rec \in Records /\ rec.branch = walk.mem.branch
          /\ \A q \in Positions : rec.run[q] = IF q = walk.pos THEN s ELSE walk.mem.run[q]
      BY <2>1, NoteSays DEF ChainInv, RunStatuses
    <2>3. Sound(chain, finished, rec) /\ (RecordKept => Covers(chain, finished, effects, rec))
      BY <1>1, <2>1, UnfinishedNote DEF RunStatuses
    <2>. HIDE DEF rec
    <2>4. walk' \in [pc: {"walk", "act"}, pos: 1 .. MaxActions + 1, at: {walk.at}, mem: {rec}]
          /\ walk'.pos = walk.pos /\ walk'.pc = "act"
      BY <1>3 DEF ChainInv, ChainTypeOK
    <2>5. \A q \in 1 .. walk.pos - 1 : walk.mem.run[q] \in {"succeeded", "skipped"}
      BY <1>1 DEF ChainInv, WalkInv
    <2>6. \A q \in 1 .. walk.pos - 1 : q \in Positions /\ q # walk.pos
      BY <2>1 DEF Positions, MaxActions
    <2>7. \A q \in 1 .. walk'.pos - 1 : rec.run[q] \in {"succeeded", "skipped"}
      BY <2>2, <2>4, <2>5, <2>6
    <2>8. walk'.pos <= Len(Acts) + 1
      BY <1>1, <2>1, <2>4, WalkTypes, SnapshotType DEF Acts
    <2>. QED  BY <1>1, <1>3, <2>1, <2>2, <2>3, <2>4, <2>7, <2>8, WalkKeeps
  <1>. QED  BY <1>2, <1>3 DEF ChainStart

LEMMA DecideKeeps ==
  ASSUME ChainInv, ChainDecide
  PROVE  ChainInv'
  <1>1. /\ walk.pc = "walk" /\ walk.pos <= Len(Acts)
        /\ Acts[walk.pos].kind = "condition"
        /\ walk.mem.run[walk.pos] # "succeeded" /\ UNCHANGED <<effects, finished>>
    BY DEF ChainDecide, NextIs
  <1>2. CASE HandleFailure(FALSE, Labelled(Note("failed")))
    BY <1>1, <1>2, FailedNoteKeeps
  <1>3. ASSUME NEW b \in {"true", "false"},
               Persist([Note("succeeded") EXCEPT !.branch = b]),
               Proceed([Note("succeeded") EXCEPT !.branch = b]), UNCHANGED <<chain, chainClock>>
        PROVE  ChainInv'
    <2>. DEFINE rec == [Note("succeeded") EXCEPT !.branch = b]
    <2>1. walk.pos \in Positions /\ walk.pos \in Nat
      BY <1>1, WalkTypes
    <2>2. Note("succeeded") \in Records
          /\ \A q \in Positions : Note("succeeded").run[q] = IF q = walk.pos THEN "succeeded" ELSE walk.mem.run[q]
      BY <2>1, NoteSays DEF ChainInv, RunStatuses
    <2>3. rec \in Records /\ rec.branch = b /\ rec.run = Note("succeeded").run
      BY <2>2 DEF Records
    <2>4. \A q \in Positions : rec.run[q] = IF q = walk.pos THEN "succeeded" ELSE walk.mem.run[q]
      BY <2>2, <2>3
    <2>5. Persist(rec) /\ Proceed(rec)
      BY <1>3
    <2>. HIDE DEF rec
    <2>6. /\ walk.pos \in Conditions(chain)
          /\ \A p \in Places(chain) : walk.mem.run[p] # "skipped"
          /\ RecordKept => \A p \in Places(chain) : effects[p] > 0 => chain.actions[p].branch = "both"
      BY <1>1, NothingDecided
    <2>7. Sound(chain, finished, walk.mem) /\ (RecordKept => Covers(chain, finished, effects, walk.mem))
      BY <1>1 DEF ChainInv, WalkInv
    <2>8. Sound(chain, finished, rec)
      BY <1>1, <2>1, <2>3, <2>4, <2>6, <2>7 DEF Sound, Places, Acts
    <2>9. RecordKept => Covers(chain, finished, effects, rec)
      BY <2>4, <2>6, <2>7, WalkTypes DEF Covers, Holds, Follows
    <2>10. walk' \in [pc: {"walk", "act"}, pos: 1 .. MaxActions + 1, at: {walk.at}, mem: {rec}]
           /\ walk'.pos = walk.pos + 1 /\ walk'.pc = "walk" /\ walk'.pos <= Len(Acts) + 1
      BY <1>1, <2>3, <2>5, Proceeds
    <2>11. \A q \in 1 .. walk'.pos - 1 : rec.run[q] \in {"succeeded", "skipped"}
      BY <1>1, <2>1, <2>3, <2>4, <2>10, PrefixGrows
    <2>. QED  BY <1>1, <1>3, <2>3, <2>5, <2>8, <2>9, <2>10, <2>11, WalkKeeps
  <1>. QED  BY <1>2, <1>3 DEF ChainDecide

LEMMA ReturnKeeps ==
  ASSUME ChainInv, ChainReturn
  PROVE  ChainInv'
  <1>. DEFINE rec == Note("succeeded")
              done == finished \cup {walk.pos}
  <1>1. /\ walk.pc = "acted" /\ walk.pos <= Len(Acts) /\ Acts[walk.pos].kind = "tool"
        /\ Persist(rec) /\ Proceed(rec) /\ finished' = done
        /\ UNCHANGED <<chain, chainClock, effects>>
    BY DEF ChainReturn, ChainInv, WalkInv
  <1>2. walk.pos \in Positions /\ walk.pos \in Nat /\ walk.pos \in ActionsOf(chain)
    BY <1>1, WalkTypes
  <1>3. /\ rec \in Records /\ rec.branch = walk.mem.branch
        /\ \A q \in Positions : rec.run[q] = IF q = walk.pos THEN "succeeded" ELSE walk.mem.run[q]
    BY <1>2, NoteSays DEF ChainInv, RunStatuses
  <1>. HIDE DEF rec
  <1>4. Sound(chain, finished, walk.mem) /\ (RecordKept => Covers(chain, finished, effects, walk.mem))
    BY <1>1 DEF ChainInv, WalkInv
  <1>5. Sound(chain, done, rec)
    <2>1. rec.branch # "none" => \E k \in Conditions(chain) \cap Positions : rec.run[k] = "succeeded"
      BY <1>3, <1>4 DEF Sound
    <2>2. \A p \in Places(chain) :
            /\ rec.run[p] = "succeeded" =>
                  IF chain.actions[p].kind = "condition" THEN rec.branch # "none" ELSE p \in done
            /\ rec.run[p] = "skipped" => chain.actions[p].branch \notin {"both", rec.branch}
            /\ rec.branch = "none" => rec.run[p] # "skipped"
      BY <1>1, <1>3, <1>4 DEF Sound, Places, Acts
    <2>. QED  BY <2>1, <2>2 DEF Sound
  <1>6. RecordKept => Covers(chain, done, effects, rec)
    <2>1. finished \subseteq Positions
      BY WalkTypes
    <2>2. RecordKept => Holds(done, rec)
      BY <1>2, <1>3, <1>4, <2>1 DEF Covers, Holds
    <2>3. RecordKept => Follows(chain, effects, rec)
      BY <1>3, <1>4 DEF Covers, Follows
    <2>. QED  BY <2>2, <2>3 DEF Covers
  <1>7. walk' \in [pc: {"walk", "act"}, pos: 1 .. MaxActions + 1, at: {walk.at}, mem: {rec}]
        /\ walk'.pos = walk.pos + 1 /\ walk'.pc = "walk" /\ walk'.pos <= Len(Acts) + 1
    BY <1>1, <1>3, Proceeds
  <1>8. \A q \in 1 .. walk'.pos - 1 : rec.run[q] \in {"succeeded", "skipped"}
    BY <1>1, <1>2, <1>3, <1>7, PrefixGrows
  <1>. QED  BY <1>1, <1>2, <1>3, <1>5, <1>6, <1>7, <1>8, WalkKeeps

LEMMA PauseKeeps ==
  ASSUME ChainInv, ChainPause
  PROVE  ChainInv'
  <1>1. /\ walk.pc = "walk" /\ walk.pos <= Len(Acts) /\ UNCHANGED <<effects, finished>>
        /\ Park("retry_pending", Boundary, Labelled(walk.mem), 0)
    BY DEF ChainPause, NextIs
  <1>2. /\ walk.pos \in ActionsOf(chain) /\ chain \in Chains /\ walk.mem \in Records
        /\ finished \subseteq Positions
    BY <1>1, WalkTypes
  <1>3. Boundary \in 0 .. ChainHorizon /\ 0 \in 0 .. MaxActions
    BY <1>2, SnapshotType DEF Boundary, Acts, MaxActions
  <1>4. /\ Admitted(chain) /\ Sound(chain, finished, walk.mem)
        /\ RecordKept => Covers(chain, finished, effects, walk.mem)
    BY <1>1 DEF ChainInv, WalkInv
  <1>5. /\ Labelled(walk.mem) \in Records /\ Sound(chain, finished, Labelled(walk.mem))
        /\ RecordKept => Covers(chain, finished, effects, Labelled(walk.mem))
    BY <1>2, <1>4, LabelledSays, LabelledKeeps
  <1>. QED  BY <1>1, <1>3, <1>4, <1>5, ParkKeeps

LEMMA AskedKeeps ==
  ASSUME ChainInv, ChainAsked
  PROVE  ChainInv'
  <1>1. /\ walk.pc = "acted" /\ walk.pos <= Len(Acts) /\ Acts[walk.pos].kind = "question"
        /\ UNCHANGED <<effects, finished>>
        /\ Park("waiting_answer", chainRow.due, Labelled(walk.mem), walk.pos)
    BY DEF ChainAsked, ChainInv, WalkInv
  <1>2. /\ walk.pos \in ActionsOf(chain) /\ walk.pos \in Positions /\ chain \in Chains
        /\ walk.mem \in Records /\ finished \subseteq Positions
    BY <1>1, WalkTypes
  <1>3. /\ chainRow.due \in 0 .. ChainHorizon /\ walk.pos \in 0 .. MaxActions
        /\ walk.pos \in Questions(chain)
    BY <1>1, <1>2 DEF ChainInv, ChainTypeOK, Questions, Acts, Positions, MaxActions
  <1>4. /\ Admitted(chain) /\ Sound(chain, finished, walk.mem)
        /\ RecordKept => Covers(chain, finished, effects, walk.mem)
    BY <1>1 DEF ChainInv, WalkInv
  <1>5. /\ Labelled(walk.mem) \in Records /\ Sound(chain, finished, Labelled(walk.mem))
        /\ RecordKept => Covers(chain, finished, effects, Labelled(walk.mem))
    BY <1>2, <1>4, LabelledSays, LabelledKeeps
  <1>. QED  BY <1>1, <1>3, <1>4, <1>5, ParkKeeps

LEMMA RefusedKeeps ==
  ASSUME ChainInv, ChainRefused
  PROVE  ChainInv'
  <1>1. /\ walk.pc \in {"act", "acted"} /\ UNCHANGED <<effects, finished>>
        /\ walk.pos <= Len(Acts) /\ walk.mem.run[walk.pos] # "succeeded"
    BY DEF ChainRefused, ChainInv, WalkInv
  <1>2. PICK retryable \in BOOLEAN : HandleFailure(retryable, Labelled(Note("failed")))
    BY DEF ChainRefused
  <1>. QED  BY <1>1, <1>2, FailedNoteKeeps

LEMMA ExpireKeeps ==
  ASSUME ChainInv, ChainExpire
  PROVE  ChainInv'
  <1>1. /\ walk.pc \in {"walk", "act", "acted"} /\ UNCHANGED <<effects, finished>>
        /\ HandleFailure(TRUE, walk.mem)
    BY DEF ChainExpire
  <1>2. walk.mem \in Records /\ chainRow.result \in Records /\ ChainTypeOK
    BY WalkTypes DEF ChainInv, ChainTypeOK
  <1>3. Sound(chain, finished, walk.mem) /\ (RecordKept => Covers(chain, finished, effects, walk.mem))
    BY <1>1 DEF ChainInv, WalkInv
  <1>4. RecordKept => Covers(chain, finished, effects, IF walk.mem # NoRecord THEN walk.mem ELSE chainRow.result)
    BY <1>2, <1>3, ReadBack
  <1>. QED  BY <1>1, <1>2, <1>3, <1>4, FailureKeeps

LEMMA InvalidKeeps ==
  ASSUME ChainInv, ChainInvalid
  PROVE  ChainInv'
  BY RecordTypes, NothingRecorded, FailureKeeps DEF ChainInvalid

\* The walk came to the end: every action succeeded, was answered or belongs to the
\* branch not selected.
LEMMA SucceedKeeps ==
  ASSUME ChainInv, ChainSucceed
  PROVE  ChainInv'
  <1>. DEFINE row == [chainRow EXCEPT !.status = "succeeded", !.result = walk.mem,
                                      !.asked = 0, !.answered = 0]
  <1>1. /\ walk.pc = "walk" /\ walk.pos > Len(Acts) /\ UNCHANGED <<effects, finished>>
        /\ Conclude(row)
    BY DEF ChainSucceed
  <1>2. walk.mem \in Records /\ chainRow \in RowType /\ chain \in Chains /\ walk.pos \in Nat
    BY WalkTypes DEF ChainInv, ChainTypeOK, RowType
  <1>3. Writes(row, <<"succeeded", chainRow.attempt, chainRow.due, walk.mem, chainRow.error, 0, 0>>)
    BY <1>2, PersistedRow
  <1>. HIDE DEF row
  <1>4. /\ row \in RowType /\ row.status = "succeeded" /\ row.result = walk.mem
        /\ row.error = chainRow.error /\ row.answered = 0
    BY <1>3 DEF Fields, Writes
  <1>5. row \in [status: {"retry_pending", "waiting_answer", "succeeded", "failed"},
                 attempt: 1 .. MaxChainAttempts, due: 0 .. ChainHorizon,
                 result: Records, error: Records, asked: 0 .. MaxActions, answered: 0 .. MaxActions]
    BY <1>4 DEF RowType
  <1>6. /\ Admitted(chain) /\ Sound(chain, finished, walk.mem)
        /\ RecordKept => Covers(chain, finished, effects, walk.mem)
        /\ \A q \in 1 .. walk.pos - 1 : walk.mem.run[q] \in {"succeeded", "skipped"}
        /\ Sound(chain, finished, chainRow.error)
    BY <1>1 DEF ChainInv, WalkInv, RowInv
  <1>7. \A p \in ActionsOf(chain) : p \in Places(chain) /\ walk.mem.run[p] \in {"succeeded", "skipped"}
    <2>1. ActionsOf(chain) \subseteq Positions
      BY <1>2, <1>6, ContractOfConditions
    <2>2. Len(Acts) \in Nat
      BY <1>2, SnapshotType DEF Acts
    <2>3. \A p \in ActionsOf(chain) : p \in 1 .. walk.pos - 1
      BY <1>1, <1>2, <2>2 DEF ActionsOf, Acts
    <2>. QED  BY <1>6, <2>1, <2>3 DEF Places
  <1>8. \A p \in ActionsOf(chain) :
            \/ p \in finished
            \/ Acts[p].kind = "condition" /\ walk.mem.run[p] = "succeeded"
            \/ Acts[p].branch \notin {"both", walk.mem.branch}
    BY <1>6, <1>7 DEF Sound, Acts
  <1>9. chain.generated /\ ~recordLost => Holds(finished, walk.mem)
    BY <1>6 DEF RecordKept, Covers
  <1>. QED  BY <1>1, <1>4, <1>5, <1>6, <1>8, <1>9, ConcludeKeeps

LEMMA LoadKeeps ==
  ASSUME ChainInv, ChainLoad
  PROVE  ChainInv'
  <1>. USE DEF ChainInv
  <1>1. /\ walk.pc = "load" /\ Admitted(chain)
        /\ walk' = [walk EXCEPT !.pc = IF chain.generated THEN "prepare" ELSE "walk",
                                !.mem = Recorded(chainRow)]
        /\ UNCHANGED <<chain, chainRow, chainClock, effects, finished, recordLost>>
    BY DEF ChainLoad
  <1>2. Recorded(chainRow) \in Records
    BY DEF ChainTypeOK, Recorded
  <1>3. /\ walk' \in [pc: {"prepare", "walk"}, pos: {walk.pos}, at: {walk.at}, mem: {Recorded(chainRow)}]
        /\ walk'.pc = "prepare" => chain.generated
    BY <1>1, <1>2 DEF ChainTypeOK
  <1>4. walk.pos = 1 /\ walk.at \in 0 .. ChainHorizon /\ chainRow.status = "running"
        /\ walk.at <= chainClock
    BY <1>1 DEF WalkInv, ChainTypeOK
  <1>5. ChainTypeOK'
    <2>1. walk' \in [pc: {"rest", "load", "prepare", "walk", "act", "acted"},
                     pos: 1 .. MaxActions + 1, at: 0 .. ChainHorizon, mem: Records]
      BY <1>2, <1>3, <1>4 DEF MaxActions
    <2>. QED  BY <1>1, <2>1 DEF ChainTypeOK
  <1>6. /\ Sound(chain, finished, Recorded(chainRow))
        /\ RecordKept => Covers(chain, finished, effects, Recorded(chainRow))
    BY <1>1 DEF RowInv, Recorded
  <1>7. WalkInv'
    <2>1. walk'.pos = 1 /\ walk'.mem = Recorded(chainRow) /\ walk'.at = walk.at /\ walk'.pc \in {"prepare", "walk"}
      BY <1>3, <1>4
    <2>2. 1 <= Len(Acts) + 1 /\ 1 .. (1 - 1) = {}
      BY SnapshotType DEF ChainTypeOK, Acts
    <2>3. RecordKept' = RecordKept /\ Acts' = Acts
      BY <1>1 DEF RecordKept, Acts
    <2>. QED  BY <1>1, <1>3, <1>4, <1>6, <2>1, <2>2, <2>3 DEF WalkInv
  <1>8. RowInv'
    BY <1>1, <1>3 DEF RowInv, RecordKept
  <1>9. HistoryInv'
    BY <1>1 DEF HistoryInv, OneBranchActs, SuccessIsComplete, Acts
  <1>. QED  BY <1>5, <1>7, <1>8, <1>9

LEMMA PrepareKeeps ==
  ASSUME ChainInv, ChainPrepare
  PROVE  ChainInv'
  <1>1. walk.pc = "prepare" /\ UNCHANGED <<effects, finished>> /\ chain.generated
    BY DEF ChainPrepare, ChainInv, WalkInv
  <1>2. CASE walk' = [walk EXCEPT !.pc = "walk"] /\ UNCHANGED <<chain, chainRow, chainClock, recordLost>>
    <2>. USE DEF ChainInv
    <2>1. walk' \in [pc: {"walk"}, pos: {walk.pos}, at: {walk.at}, mem: {walk.mem}]
      BY <1>1, <1>2 DEF ChainTypeOK
    <2>2. ChainTypeOK'
      <3>1. walk' \in [pc: {"rest", "load", "prepare", "walk", "act", "acted"},
                       pos: 1 .. MaxActions + 1, at: 0 .. ChainHorizon, mem: Records]
        BY <2>1 DEF ChainTypeOK
      <3>. QED  BY <1>1, <1>2, <3>1 DEF ChainTypeOK
    <2>3. WalkInv'
      BY <1>1, <1>2, <2>1 DEF WalkInv, RecordKept, Acts
    <2>4. RowInv'
      BY <1>1, <1>2, <2>1 DEF RowInv, RecordKept
    <2>5. HistoryInv'
      BY <1>1, <1>2 DEF HistoryInv, OneBranchActs, SuccessIsComplete, Acts
    <2>. QED  BY <2>2, <2>3, <2>4, <2>5
  <1>3. ASSUME NEW retryable \in BOOLEAN, HandleFailure(retryable, NoRecord) PROVE ChainInv'
    <2>1. RecordKept => Covers(chain, finished, effects, chainRow.result)
      <3>1. \A p \in Places(chain) : chain.actions[p].branch = "both"
        BY <1>1, ContractOfConditions DEF ChainInv, WalkInv, ChainTypeOK, Places
      <3>. QED  BY <1>1, <3>1 DEF ChainInv, RowInv, ChainTypeOK, RecordKept, Covers, Follows
    <2>. QED  BY <1>1, <1>3, <2>1, RecordTypes, NothingRecorded, FailureKeeps
  <1>. QED  BY <1>2, <1>3 DEF ChainPrepare

\* The effect of the action that was started: no other branch has acted, now or in
\* an earlier attempt.
LEMMA EffectKeeps ==
  ASSUME ChainInv, ChainEffect
  PROVE  ChainInv'
  <1>. USE DEF ChainInv
  <1>1. /\ walk.pc = "act" /\ walk.pos <= Len(Acts)
        /\ effects' = [effects EXCEPT ![walk.pos] = @ + 1]
        /\ walk' = [walk EXCEPT !.pc = "acted"]
        /\ UNCHANGED <<chain, chainRow, chainClock, finished, recordLost>>
        /\ Acts[walk.pos].branch \in {"both", walk.mem.branch}
        /\ Admitted(chain) /\ chainRow.status = "running"
        /\ RecordKept => Covers(chain, finished, effects, walk.mem)
    BY DEF ChainEffect, WalkInv, Selected
  <1>2. walk.pos \in Positions /\ walk.pos \in ActionsOf(chain) /\ chain \in Chains
    BY <1>1, WalkTypes
  <1>3. /\ effects' \in [Positions -> Nat]
        /\ \A p \in Positions : effects'[p] = IF p = walk.pos THEN effects[p] + 1 ELSE effects[p]
    BY <1>1, <1>2 DEF ChainTypeOK
  <1>4. walk' \in [pc: {"acted"}, pos: {walk.pos}, at: {walk.at}, mem: {walk.mem}]
    BY <1>1 DEF ChainTypeOK
  <1>5. ChainTypeOK'
    <2>1. walk' \in [pc: {"rest", "load", "prepare", "walk", "act", "acted"},
                     pos: 1 .. MaxActions + 1, at: 0 .. ChainHorizon, mem: Records]
      BY <1>4 DEF ChainTypeOK
    <2>. QED  BY <1>1, <1>3, <2>1 DEF ChainTypeOK
  <1>6. RecordKept => Follows(chain, effects', walk.mem)
    BY <1>1, <1>3 DEF Covers, Follows, Acts, Places
  <1>7. WalkInv'
    BY <1>1, <1>4, <1>6 DEF WalkInv, RecordKept, Acts, Selected, Boundary, Covers
  <1>8. RowInv'
    BY <1>1, <1>4 DEF RowInv, RecordKept
  <1>9. HistoryInv'
    <2>1. ActionsOf(chain) \subseteq Positions
      BY <1>1, <1>2, ContractOfConditions
    <2>2. \A p \in Positions : effects'[p] > 0 => p \in ActionsOf(chain)
      BY <1>2, <1>3 DEF HistoryInv
    <2>3. OneBranchActs'
      <3>1. CASE RecordKept
        <4>1. \A p \in Positions : effects'[p] > 0 =>
                 Acts[p].branch = "both" \/ Acts[p].branch = walk.mem.branch
          BY <1>6, <2>1, <2>2, <3>1 DEF Follows, Acts, Places
        <4>2. Acts' = Acts
          BY <1>1 DEF Acts
        <4>. QED  BY <4>1, <4>2 DEF OneBranchActs
      <3>2. CASE ~RecordKept
        <4>1. \A p \in ActionsOf(chain) : Acts[p].branch = "both"
          BY <1>1, <1>2, <3>2, ContractOfConditions DEF RecordKept, Acts
        <4>2. Acts' = Acts
          BY <1>1 DEF Acts
        <4>. QED  BY <2>2, <4>1, <4>2 DEF OneBranchActs
      <3>. QED  BY <3>1, <3>2
    <2>4. SuccessIsComplete'
      BY <1>1 DEF SuccessIsComplete
    <2>. QED  BY <1>1, <2>2, <2>3, <2>4 DEF HistoryInv, Acts
  <1>. QED  BY <1>5, <1>7, <1>8, <1>9

-----------------------------------------------------------------------------
(* The row between attempts. *)

LEMMA ClaimKeeps ==
  ASSUME ChainInv, ChainClaim
  PROVE  ChainInv'
  <1>. USE DEF ChainInv
  <1>. DEFINE row == [chainRow EXCEPT !.status = "running"]
  <1>1. /\ walk.pc = "rest" /\ chainRow.status \in {"claimed", "retry_pending"}
        /\ chainRow' = row /\ walk' = [Resting EXCEPT !.pc = "load", !.at = chainClock]
        /\ UNCHANGED <<chain, chainClock, effects, finished, recordLost>>
    BY DEF ChainClaim
  <1>2. chainRow \in RowType
    BY DEF ChainTypeOK, RowType
  <1>3. Writes(row, <<"running", chainRow.attempt, chainRow.due, chainRow.result, chainRow.error,
                      chainRow.asked, chainRow.answered>>)
    BY <1>2, StatusAlone
  <1>. HIDE DEF row
  <1>4. /\ chainRow' \in RowType /\ chainRow'.status = "running"
        /\ chainRow'.result = chainRow.result /\ chainRow'.error = chainRow.error
        /\ chainRow'.answered = chainRow.answered
    BY <1>1, <1>3 DEF Fields, Writes
  <1>5. walk' = [pc |-> "load", pos |-> 1, at |-> chainClock, mem |-> NoRecord]
    BY <1>1 DEF Resting
  <1>6. ChainTypeOK'
    <2>1. walk' \in [pc: {"rest", "load", "prepare", "walk", "act", "acted"},
                     pos: 1 .. MaxActions + 1, at: 0 .. ChainHorizon, mem: Records]
      BY <1>5, RecordTypes DEF ChainTypeOK, MaxActions
    <2>. QED  BY <1>1, <1>4, <2>1 DEF ChainTypeOK, RowType
  <1>7. WalkInv'
    <2>1. walk'.pc = "load" /\ walk'.pos = 1 /\ walk'.at = chainClock /\ chainClock \in Int
      BY <1>5 DEF ChainTypeOK
    <2>. QED  BY <1>1, <1>4, <2>1 DEF WalkInv
  <1>8. RowInv'
    <2>1. Recorded(chainRow)' = Recorded(chainRow)
      BY <1>4 DEF Recorded
    <2>2. RecordKept => Covers(chain, finished, effects, Recorded(chainRow))
      BY <1>1 DEF RowInv
    <2>3. RecordKept' = RecordKept
      BY <1>1 DEF RecordKept
    <2>4. (RecordKept /\ (chainRow.status \in {"claimed", "retry_pending"} \/ walk.pc = "load")
             => Covers(chain, finished, effects, Recorded(chainRow)))'
      BY <1>1, <2>1, <2>2, <2>3
    <2>. QED  BY <1>1, <1>4, <2>3, <2>4 DEF RowInv
  <1>9. HistoryInv'
    BY <1>1, <1>4 DEF HistoryInv, OneBranchActs, SuccessIsComplete, Acts
  <1>. QED  BY <1>6, <1>7, <1>8, <1>9

LEMMA CrashKeeps ==
  ASSUME ChainInv, ChainCrash
  PROVE  ChainInv'
  <1>. USE DEF ChainInv
  <1>1. /\ walk' = Resting /\ walk'.pc = "rest" /\ walk.pc # "rest"
        /\ UNCHANGED <<chain, chainRow, chainClock, effects, finished, recordLost>>
    BY DEF ChainCrash, Resting
  <1>2. ChainTypeOK'
    <2>1. walk' \in [pc: {"rest", "load", "prepare", "walk", "act", "acted"},
                     pos: 1 .. MaxActions + 1, at: 0 .. ChainHorizon, mem: Records]
      BY <1>1, RecordTypes, ChainAssumption DEF Resting, MaxActions
    <2>. QED  BY <1>1, <2>1 DEF ChainTypeOK
  <1>3. WalkInv'
    BY <1>1 DEF WalkInv
  <1>4. RowInv'
    BY <1>1 DEF RowInv, RecordKept
  <1>5. HistoryInv'
    BY <1>1 DEF HistoryInv, OneBranchActs, SuccessIsComplete, Acts
  <1>. QED  BY <1>2, <1>3, <1>4, <1>5

LEMMA RecoverKeeps ==
  ASSUME ChainInv, ChainRecover
  PROVE  ChainInv'
  <1>. USE DEF ChainInv
  <1>. DEFINE row == [chainRow EXCEPT !.status = "failed", !.error = NoRecord]
  <1>1. /\ walk.pc = "rest" /\ chainRow' = row
        /\ UNCHANGED <<chain, walk, chainClock, effects, finished, recordLost>>
    BY DEF ChainRecover
  <1>2. chainRow \in RowType
    BY DEF ChainTypeOK, RowType
  <1>3. Writes(row, <<"failed", chainRow.attempt, chainRow.due, chainRow.result, NoRecord,
                      chainRow.asked, chainRow.answered>>)
    BY <1>2, RecordTypes, StatusAndError
  <1>. HIDE DEF row
  <1>4. /\ chainRow' \in RowType /\ chainRow'.status = "failed"
        /\ chainRow'.result = chainRow.result /\ chainRow'.error = NoRecord
        /\ chainRow'.answered = chainRow.answered
    BY <1>1, <1>3 DEF Fields, Writes
  <1>5. ChainTypeOK'
    BY <1>1, <1>4 DEF ChainTypeOK, RowType
  <1>6. WalkInv'
    BY <1>1 DEF WalkInv
  <1>7. RowInv'
    BY <1>1, <1>4, NothingRecorded DEF RowInv, RecordKept
  <1>8. HistoryInv'
    BY <1>1, <1>4 DEF HistoryInv, OneBranchActs, SuccessIsComplete, Acts
  <1>. QED  BY <1>5, <1>6, <1>7, <1>8

LEMMA TimePasses ==
  ASSUME ChainInv, ChainTick \/ UNCHANGED chainVars
  PROVE  ChainInv'
  <1>. USE DEF ChainInv
  <1>1. /\ UNCHANGED <<chain, chainRow, walk, effects, finished, recordLost>>
        /\ chainClock' \in 0 .. ChainHorizon /\ chainClock' >= chainClock
    BY ChainAssumption DEF ChainTick, ChainTypeOK, chainVars
  <1>2. ChainTypeOK'
    BY <1>1 DEF ChainTypeOK
  <1>3. WalkInv'
    <2>1. walk.at <= chainClock => walk.at <= chainClock'
      BY <1>1 DEF ChainTypeOK
    <2>. QED  BY <1>1, <2>1 DEF WalkInv, RecordKept, Acts, Selected, Boundary
  <1>4. RowInv'
    BY <1>1 DEF RowInv, RecordKept
  <1>5. HistoryInv'
    BY <1>1 DEF HistoryInv, OneBranchActs, SuccessIsComplete, Acts
  <1>. QED  BY <1>2, <1>3, <1>4, <1>5

LEMMA RunAlone ==
  ASSUME NEW r \in RowType, NEW q \in Positions
  PROVE  Writes([r EXCEPT !.result.run[q] = "succeeded"],
                <<r.status, r.attempt, r.due, [r.result EXCEPT !.run[q] = "succeeded"], r.error,
                  r.asked, r.answered>>)
  <1>1. r.result \in Records
    BY DEF RowType
  <1>2. [r.result EXCEPT !.run[q] = "succeeded"] \in Records
    BY <1>1 DEF Records, RunStatuses
  <1>3. [r EXCEPT !.result.run[q] = "succeeded"]
          = [r EXCEPT !.result = [r.result EXCEPT !.run[q] = "succeeded"]]
    BY DEF RowType, Records
  <1>. QED  BY <1>2, <1>3, ResultAlone

LEMMA ErrorAndAnswered ==
  ASSUME NEW r \in RowType, NEW rec \in Records, NEW n \in 0 .. MaxActions
  PROVE  Writes([r EXCEPT !.error = rec, !.answered = n],
                <<r.status, r.attempt, r.due, r.result, rec, r.asked, n>>)
  BY DEF RowType, Fields, Writes

LEMMA AnsweredRow ==
  ASSUME NEW row \in RowType, NEW q \in Positions, NEW due \in 0 .. ChainHorizon
  PROVE  Writes([row EXCEPT !.status = "retry_pending", !.due = due,
                            !.result.run[q] = "succeeded", !.error = NoRecord, !.answered = q],
                <<"retry_pending", row.attempt, due, [row.result EXCEPT !.run[q] = "succeeded"],
                  NoRecord, row.asked, q>>)
  <1>. DEFINE y == [row EXCEPT !.status = "retry_pending", !.due = due]
              x == [y EXCEPT !.result.run[q] = "succeeded"]
              w == [x EXCEPT !.error = NoRecord, !.answered = q]
  <1>1. Writes(y, <<"retry_pending", row.attempt, due, row.result, row.error, row.asked, row.answered>>)
    BY StatusAndDue
  <1>2. y \in RowType => Writes(x, <<y.status, y.attempt, y.due, [y.result EXCEPT !.run[q] = "succeeded"],
                                     y.error, y.asked, y.answered>>)
    <2>. HIDE DEF y
    <2>. QED  BY RunAlone
  <1>3. x \in RowType => Writes(w, <<x.status, x.attempt, x.due, x.result, NoRecord, x.asked, q>>)
    <2>1. q \in 0 .. MaxActions
      BY DEF Positions, MaxActions
    <2>. HIDE DEF x
    <2>. QED  BY <2>1, RecordTypes, ErrorAndAnswered
  <1>. HIDE DEF y, x, w
  <1>4. Writes(w, <<"retry_pending", row.attempt, due, [row.result EXCEPT !.run[q] = "succeeded"],
                    NoRecord, row.asked, q>>)
    BY <1>1, <1>2, <1>3 DEF Fields, Writes
  <1>. QED  BY <1>4 DEF y, x, w

LEMMA AnswerKeeps ==
  ASSUME ChainInv, ChainAnswer
  PROVE  ChainInv'
  <1>. USE DEF ChainInv
  <1>. DEFINE q == chainRow.asked
              rec == [chainRow.result EXCEPT !.run[q] = "succeeded"]
              done == finished \cup {q}
              row == [chainRow EXCEPT !.status = "retry_pending", !.due = chainClock,
                                      !.result.run[q] = "succeeded", !.error = NoRecord, !.answered = q]
  <1>1. /\ ~chain.durable /\ chainRow.status = "waiting_answer" /\ chainRow' = row
        /\ finished' = done /\ UNCHANGED <<chain, walk, chainClock, effects, recordLost>>
    BY DEF ChainAnswer
  <1>2. /\ chainRow \in RowType /\ chainRow.result \in Records /\ chainClock \in 0 .. ChainHorizon
        /\ chain \in Chains /\ finished \subseteq Positions /\ walk.pc = "rest"
    BY <1>1 DEF ChainTypeOK, RowType, WalkInv
  <1>3. /\ q \in Questions(chain) /\ Admitted(chain)
        /\ RecordKept => Covers(chain, finished, effects, chainRow.result)
        /\ Sound(chain, finished, chainRow.result)
        /\ chain.generated /\ ~recordLost => Holds(finished, chainRow.result)
    BY <1>1 DEF RowInv
  <1>4. /\ q \in Positions /\ q \in ActionsOf(chain) /\ q # 0
        /\ chain.actions[q].kind = "question"
    BY <1>2, <1>3, ContractOfConditions DEF Questions, Positions
  <1>5. Writes(row, <<"retry_pending", chainRow.attempt, chainClock, rec, NoRecord, q, q>>)
    BY <1>2, <1>4, AnsweredRow
  <1>6. /\ rec \in Records /\ rec.branch = chainRow.result.branch
        /\ \A p \in Positions : rec.run[p] = IF p = q THEN "succeeded" ELSE chainRow.result.run[p]
    BY <1>2, <1>4 DEF Records, RunStatuses
  <1>. HIDE DEF row, rec
  <1>7. /\ chainRow' \in RowType /\ chainRow'.status = "retry_pending" /\ chainRow'.result = rec
        /\ chainRow'.error = NoRecord /\ chainRow'.answered = q
    BY <1>1, <1>5 DEF Fields, Writes
  <1>8. Sound(chain, done, rec)
    <2>1. rec.branch # "none" => \E k \in Conditions(chain) \cap Positions : rec.run[k] = "succeeded"
      BY <1>3, <1>6 DEF Sound
    <2>2. \A p \in Places(chain) :
            /\ rec.run[p] = "succeeded" =>
                  IF chain.actions[p].kind = "condition" THEN rec.branch # "none" ELSE p \in done
            /\ rec.run[p] = "skipped" => chain.actions[p].branch \notin {"both", rec.branch}
            /\ rec.branch = "none" => rec.run[p] # "skipped"
      BY <1>3, <1>4, <1>6 DEF Sound, Places
    <2>. QED  BY <2>1, <2>2 DEF Sound
  <1>9. /\ RecordKept => Covers(chain, done, effects, rec)
        /\ chain.generated /\ ~recordLost => Holds(done, rec)
    <2>1. Holds(finished, chainRow.result) => Holds(done, rec)
      BY <1>2, <1>4, <1>6 DEF Holds
    <2>2. Follows(chain, effects, chainRow.result) => Follows(chain, effects, rec)
      BY <1>6 DEF Follows
    <2>. QED  BY <1>3, <2>1, <2>2 DEF Covers
  <1>10. ChainTypeOK'
    BY <1>1, <1>2, <1>4, <1>7 DEF ChainTypeOK, RowType
  <1>11. WalkInv'
    BY <1>1, <1>2 DEF WalkInv
  <1>12. RowInv'
    <2>1. RecordKept' = RecordKept
      BY <1>1 DEF RecordKept
    <2>2. (RecordKept => Covers(chain, finished, effects, Recorded(chainRow)))'
      BY <1>1, <1>7, <1>9, <2>1 DEF Recorded
    <2>. QED  BY <1>1, <1>7, <1>8, <1>9, <2>1, <2>2, NothingRecorded DEF RowInv
  <1>13. HistoryInv'
    BY <1>1, <1>4, <1>7 DEF HistoryInv, OneBranchActs, SuccessIsComplete, Acts
  <1>. QED  BY <1>10, <1>11, <1>12, <1>13

-----------------------------------------------------------------------------
LEMMA InitEstablishes == ChainInit => ChainInv
  <1>. SUFFICES ASSUME ChainInit PROVE ChainInv
    OBVIOUS
  <1>. USE DEF ChainInit
  <1>1. ChainTypeOK
    <2>1. 1 \in 1 .. MaxChainAttempts /\ 0 \in 0 .. ChainHorizon /\ 0 \in 0 .. MaxActions
          /\ 1 \in 1 .. MaxActions + 1
      BY ChainAssumption DEF MaxActions
    <2>2. walk \in [pc: {"rest", "load", "prepare", "walk", "act", "acted"},
                    pos: 1 .. MaxActions + 1, at: 0 .. ChainHorizon, mem: Records]
      BY <2>1, RecordTypes DEF Resting
    <2>3. chainRow \in RowType
      BY <2>1, RecordTypes DEF RowType
    <2>. QED  BY <2>1, <2>2, <2>3 DEF ChainTypeOK, RowType
  <1>2. WalkInv
    BY DEF WalkInv, Resting
  <1>3. RowInv
    <2>1. Covers(chain, finished, effects, NoRecord)
      BY DEF Covers, Holds, Follows, Places
    <2>. QED  BY <2>1, NothingRecorded DEF RowInv, Recorded, Covers
  <1>4. HistoryInv
    BY DEF HistoryInv, OneBranchActs, SuccessIsComplete
  <1>. QED  BY <1>1, <1>2, <1>3, <1>4 DEF ChainInv

LEMMA StepKeeps == ChainInv /\ [ChainNext]_chainVars => ChainInv'
  <1>. SUFFICES ASSUME ChainInv, [ChainNext]_chainVars PROVE ChainInv'
    OBVIOUS
  <1>1. CASE ChainStep
    BY <1>1, ClaimKeeps, LoadKeeps, InvalidKeeps, PrepareKeeps, SkipKeeps, DecideKeeps, RejectKeeps,
       PauseKeeps, StartKeeps, EffectKeeps, ReturnKeeps, AskedKeeps, RefusedKeeps, ExpireKeeps,
       SucceedKeeps DEF ChainStep
  <1>. QED
    BY <1>1, AnswerKeeps, CrashKeeps, RecoverKeeps, TimePasses DEF ChainNext

LEMMA InvAlways == ChainSpec => []ChainInv
  BY InitEstablishes, StepKeeps, PTL DEF ChainSpec

-----------------------------------------------------------------------------
(* The theorems. *)

LEMMA OnlyExecutorsAct == [ChainNext]_chainVars => UNCHANGED effects \/ ChainEffect
  BY DEF ChainNext, ChainStep, ChainClaim, ChainLoad, ChainInvalid, ChainPrepare, ChainSkip, ChainDecide,
         ChainReject, ChainPause, ChainStart, ChainReturn, ChainAsked, ChainRefused, ChainExpire,
         ChainSucceed, ChainAnswer, ChainCrash, ChainRecover, ChainTick, chainVars

LEMMA EffectsOfAStep ==
  ASSUME ChainInv, ChainEffect
  PROVE  /\ walk.pos \in Positions /\ effects \in [Positions -> Nat]
         /\ effects' = [effects EXCEPT ![walk.pos] = @ + 1]
  BY WalkTypes DEF ChainEffect, ChainInv, ChainTypeOK, WalkInv

(* Type correctness of one occurrence's walk, for any snapshots, maximum of     *)
(* attempts and horizon.                                                         *)
THEOREM ChainTypeCorrect == ChainSpec => []ChainTypeOK
  <1>1. ChainInv => ChainTypeOK
    BY DEF ChainInv
  <1>. QED  BY <1>1, InvAlways, PTL

(* An answer the owner gave is still proven when the occurrence resumes: the     *)
(* attempt after it never ends with answered_question_record_invalid.            *)
THEOREM AnswersAreKept == ChainSpec => []AnswersStayProven
  <1>1. ChainInv => AnswersStayProven
    <2>. SUFFICES ASSUME ChainInv, chainRow.answered # 0, chainRow.status = "retry_pending"
                  PROVE  Recorded(chainRow).run[chainRow.answered] = "succeeded"
      BY DEF AnswersStayProven
    <2>1. chainRow.answered \in finished /\ ~chain.durable
      BY DEF ChainInv, RowInv
    <2>2. RecordKept
      BY <2>1 DEF ChainInv, HistoryInv, RecordKept
    <2>3. Holds(finished, Recorded(chainRow))
      BY <2>2 DEF ChainInv, RowInv, Covers
    <2>. QED  BY <2>1, <2>3 DEF Holds
  <1>. QED  BY <1>1, InvAlways, PTL

(* execute: a side effect that succeeded, or a question that was answered, is    *)
(* not done again in any later attempt, crash, pause or retry, as long as the    *)
(* record of generated arguments was not lost.                                   *)
THEOREM NothingIsRepeated == ChainSpec => SucceededActionsNeverRepeat
  <1>1. ChainInv /\ [ChainNext]_chainVars
           => (RecordKept => \A p \in finished : effects'[p] = effects[p])
    <2>. SUFFICES ASSUME ChainInv, [ChainNext]_chainVars, RecordKept, NEW p \in finished
                  PROVE  effects'[p] = effects[p]
      OBVIOUS
    <2>1. CASE UNCHANGED effects
      BY <2>1
    <2>2. CASE ChainEffect
      <3>1. /\ Holds(finished, walk.mem) /\ p \in Positions
            /\ walk.mem.run[walk.pos] \in {"running", "pending"}
        BY <2>2 DEF ChainEffect, ChainInv, ChainTypeOK, WalkInv, Covers
      <3>2. p # walk.pos
        BY <3>1 DEF Holds
      <3>. QED  BY <2>2, <3>1, <3>2, EffectsOfAStep
    <2>. QED  BY <2>1, <2>2, OnlyExecutorsAct
  <1>. QED  BY <1>1, InvAlways, PTL DEF ChainSpec, SucceededActionsNeverRepeat

(* _execute_chain: an action takes effect at its boundary or later and when all   *)
(* before it are settled; one branch acts; a success has done everything it       *)
(* selected.                                                                       *)
THEOREM EffectsKeepTheOrder == ChainSpec => EffectsFollowTheChain
  <1>1. ChainInv /\ [ChainNext]_chainVars
           => \A p \in Positions : effects'[p] # effects[p] =>
                 chainClock >= Acts[p].wait /\ \A q \in 1 .. p - 1 : Settled(q)
    <2>. SUFFICES ASSUME ChainInv, [ChainNext]_chainVars, NEW p \in Positions, effects'[p] # effects[p]
                  PROVE  chainClock >= Acts[p].wait /\ \A q \in 1 .. p - 1 : Settled(q)
      OBVIOUS
    <2>1. ChainEffect
      BY OnlyExecutorsAct
    <2>2. p = walk.pos
      BY <2>1, EffectsOfAStep
    <2>3. /\ walk.at <= chainClock /\ walk.at >= Acts[walk.pos].wait
          /\ Admitted(chain) /\ Sound(chain, finished, walk.mem) /\ walk.pos <= Len(Acts)
          /\ \A q \in 1 .. walk.pos - 1 : walk.mem.run[q] \in {"succeeded", "skipped"}
      BY <2>1 DEF ChainEffect, ChainInv, WalkInv, Boundary
    <2>4. /\ p \in ActionsOf(chain) /\ chain \in Chains /\ walk.at \in Int /\ chainClock \in Int
          /\ Acts[p].wait \in Int
      BY <2>1, <2>2, <2>3, WalkTypes, SnapshotType DEF ChainEffect, ChainInv, ChainTypeOK, Acts
    <2>5. \A q \in 1 .. p - 1 : q \in Places(chain)
      BY <2>4, ContractOfConditions, <2>3 DEF ActionsOf, Places
    <2>. QED  BY <2>2, <2>3, <2>4, <2>5 DEF Sound, Settled, Acts
  <1>2. ChainInv /\ [ChainNext]_chainVars => OneBranchActs' /\ SuccessIsComplete'
    BY StepKeeps DEF ChainInv, HistoryInv
  <1>. QED  BY <1>1, <1>2, InvAlways, PTL DEF ChainSpec, EffectsFollowTheChain


-----------------------------------------------------------------------------
(* Every set of numbers has a least member: the next candidate and the next        *)
(* credential exist.                                                               *)
LEMMA LeastOf ==
  ASSUME NEW T, T \subseteq Nat, T # {}
  PROVE  \E i \in T : \A j \in T : i <= j
  <1>. DEFINE R == OpToRel(<, Nat)
  <1>1. IsWellFoundedOn(R, Nat)
    BY NatLessThanWellFounded
  <1>2. ASSUME NEW x \in Nat, NEW y \in Nat, y < x  PROVE <<y, x>> \in R
    BY <1>2 DEF OpToRel
  <1>. HIDE DEF R
  <1>3. PICK x \in T : \A y \in T : ~(<<y, x>> \in R)
    BY <1>1, WFMin
  <1>4. ASSUME NEW y \in T  PROVE x <= y
    <2>1. ~(y < x)
      BY <1>2, <1>3
    <2>. QED  BY <2>1
  <1>. QED  BY <1>4

-----------------------------------------------------------------------------
(* The inductive invariant of the mesh.  A waiter of a provider's semaphore is a   *)
(* request that is to call that provider, and waits once.  A request in flight      *)
(* stands inside its pool, which keeps each provider's candidates together; where   *)
(* it has counted an ambiguous limit, it has probed the provider once and still      *)
(* stands at it, or none of the provider's candidates is left in its pool.           *)

InFlight == {"queued", "calling", "backoff"}
HealthType ==
    [disabled: SUBSET Providers,
     cool: [Providers -> 0 .. MaxPenalty],
     quarantine: [Providers -> 0 .. QuarantineTicks],
     streak: [Providers -> 0 .. QuarantineAfter],
     modelCool: [Known -> 0 .. MaxPenalty],
     modelDead: [Known -> 0 .. OutageWindow],
     recent: [Known -> 0 .. OutageWindow]]
CallType ==
    [pc: {"idle", "queued", "calling", "backoff", "ended"}, pool: Seq(Known), pos: Nat,
     sibling: BOOLEAN, probed: SUBSET Providers, retried: BOOLEAN, limits: [Providers -> Nat]]

PassedBy(q, p) == \A j \in DOMAIN q.pool : j >= q.pos => q.pool[j][1] # p
Counted(q, p) ==
    \/ PassedBy(q, p)
    \/ q.limits[p] = 1 /\ p \in q.probed
Walks(q) ==
    /\ \A p \in Providers : q.limits[p] <= 2
    /\ q.pc \in InFlight =>
          /\ q.pos \in DOMAIN q.pool
          /\ InOrder(q.pool)
          /\ \A p \in Providers : q.limits[p] > 0 => Counted(q, p)

WaitsFor(q, p) == q.pc = "queued" /\ Here(q)[1] = p
QueuesHold ==
    \A p \in Providers :
        /\ \A i \in DOMAIN slotQueue[p] : WaitsFor(request[slotQueue[p][i]], p)
        /\ \A i, j \in DOMAIN slotQueue[p] : i # j => slotQueue[p][i] # slotQueue[p][j]

MeshInv ==
    /\ MeshTypeOK
    /\ \A r \in MeshRequests : Walks(request[r])
    /\ QueuesHold

-----------------------------------------------------------------------------
LEMMA TypesAreMeshTypes ==
  MeshTypeOK <=> /\ catalog \in Catalogs
                 /\ health \in HealthType
                 /\ request \in [MeshRequests -> CallType]
                 /\ slotQueue \in [Providers -> Seq(MeshRequests)]
  BY DEF MeshTypeOK, HealthType, CallType

LEMMA KnownIsKept ==
  ASSUME UNCHANGED catalog
  PROVE  Known' = Known /\ HealthType' = HealthType /\ CallType' = CallType
  <1>1. Known' = Known
    BY DEF Known
  <1>. QED  BY <1>1 DEF HealthType, CallType

LEMMA NextTypes ==
  ASSUME UNCHANGED catalog, catalog \in Catalogs, health' \in HealthType,
         request' \in [MeshRequests -> CallType],
         slotQueue' \in [Providers -> Seq(MeshRequests)]
  PROVE  MeshTypeOK'
  <1>1. Known' = Known
    BY DEF Known
  <1>. QED  BY <1>1 DEF MeshTypeOK, HealthType, CallType

LEMMA KnownAreCandidates ==
  /\ \A c \in Known : c = <<c[1], c[2]>> /\ c[1] \in Providers /\ c[2] \in Nat
  /\ IsFiniteSet(Known)
  <1>1. Known \subseteq Providers \X (1 .. 3)
    BY DEF Known, Candidates
  <1>2. IsFiniteSet(Providers \X (1 .. 3))
    <2>1. IsFiniteSet(1 .. 3)
      <3>1. \A m, n \in Int : IsFiniteSet(m .. n)
        <4>. SUFFICES ASSUME NEW m \in Int, NEW n \in Int PROVE IsFiniteSet(m .. n)
          OBVIOUS
        <4>. QED  BY FS_Interval
      <3>2. 1 \in Int /\ 3 \in Int
        OBVIOUS
      <3>. QED  BY <3>1, <3>2, Zenon
    <2>2. IsFiniteSet(Providers)
      BY MeshAssumption
    <2>. HIDE MeshAssumption
    <2>. QED  BY <2>1, <2>2, FS_Product
  <1>3. IsFiniteSet(Known)
    BY <1>1, <1>2, FS_Subset
  <1>. QED  BY <1>1, <1>3

(* A pool is a sequence of candidates, in order. *)
LEMMA PoolsAreSequences ==
  ASSUME NEW h, NEW pool \in Pools(h)
  PROVE  pool \in Seq(Known) /\ InOrder(pool)
  <1>1. PICK names : pool \in SetToSeqs(CandidateModels(h, names)) /\ InOrder(pool)
    BY DEF Pools
  <1>. DEFINE C == CandidateModels(h, names)
  <1>2. C \subseteq Known
    BY DEF CandidateModels
  <1>3. IsFiniteSet(C)
    BY <1>2, KnownAreCandidates, FS_Subset
  <1>. HIDE DEF C
  <1>4. Cardinality(C) \in Nat
    BY <1>3, FS_CardinalityType
  <1>5. pool \in [1 .. Cardinality(C) -> C]
    <2>1. pool \in SetToSeqs(C)
      BY <1>1 DEF C
    <2>. QED  BY <2>1 DEF SetToSeqs
  <1>. QED  BY <1>1, <1>2, <1>4, <1>5

-----------------------------------------------------------------------------
(* The health decisions keep the types; a provider is disabled by a rejected key,  *)
(* enabled by its own success and by nothing else.                                 *)

LEMMA PenaltyBounds ==
  /\ MaxPenalty \in Nat /\ 0 \in 0 .. MaxPenalty
  /\ QuarantineTicks \in Nat \ {0} /\ {0, QuarantineTicks} \subseteq 0 .. QuarantineTicks
  /\ QuarantineAfter \in Nat /\ {0, QuarantineAfter} \subseteq 0 .. QuarantineAfter
  /\ OutageWindow \in Nat /\ {0, OutageWindow} \subseteq 0 .. OutageWindow
  BY MeshAssumption

LEMMA FailureIsRecorded ==
  ASSUME NEW h \in HealthType, NEW p \in Providers, NEW ticks \in 0 .. MaxPenalty
  PROVE  /\ RecordFailure(h, p, ticks) \in HealthType
         /\ RecordFailure(h, p, ticks).disabled = h.disabled
         /\ ticks > 0 => ~Available(RecordFailure(h, p, ticks), p)
  <1>1. /\ 0 \in 0 .. MaxPenalty /\ QuarantineTicks > 0 /\ QuarantineTicks \in 0 .. QuarantineTicks
        /\ QuarantineAfter \in Nat /\ QuarantineAfter \in 0 .. QuarantineAfter
    BY PenaltyBounds
  <1>. HIDE MeshAssumption
  <1>2. h.streak[p] \in 0 .. QuarantineAfter
    BY DEF HealthType
  <1>3. CASE h.streak[p] + 1 >= QuarantineAfter
    <2>. DEFINE g == [h EXCEPT !.streak[p] = QuarantineAfter, !.quarantine[p] = QuarantineTicks,
                               !.cool[p] = 0]
    <2>1. g \in HealthType
      BY <1>1 DEF HealthType
    <2>2. g.disabled = h.disabled /\ g.quarantine[p] = QuarantineTicks
      BY DEF HealthType
    <2>3. RecordFailure(h, p, ticks) = g
      BY <1>3 DEF RecordFailure
    <2>. HIDE DEF g
    <2>. QED  BY <1>1, <2>1, <2>2, <2>3 DEF Available
  <1>4. CASE ~(h.streak[p] + 1 >= QuarantineAfter)
    <2>. DEFINE g == [h EXCEPT !.streak[p] = @ + 1, !.cool[p] = ticks]
    <2>1. g \in HealthType
      <3>1. h.streak[p] + 1 \in 0 .. QuarantineAfter
        BY <1>1, <1>2, <1>4
      <3>. QED  BY <3>1 DEF HealthType
    <2>2. g.disabled = h.disabled /\ g.cool[p] = ticks
      BY DEF HealthType
    <2>3. RecordFailure(h, p, ticks) = g
      BY <1>4 DEF RecordFailure
    <2>. HIDE DEF g
    <2>. QED  BY <2>1, <2>2, <2>3 DEF Available
  <1>. QED  BY <1>3, <1>4

LEMMA DisablingKeepsTypes ==
  ASSUME NEW h \in HealthType, NEW p \in Providers
  PROVE  /\ MarkDisabled(h, p) \in HealthType
         /\ MarkDisabled(h, p).disabled = h.disabled \union {p}
  <1>1. 0 \in 0 .. MaxPenalty /\ 0 \in 0 .. QuarantineTicks /\ 0 \in 0 .. QuarantineAfter
    BY PenaltyBounds
  <1>. HIDE MeshAssumption
  <1>. QED  BY <1>1 DEF MarkDisabled, HealthType

LEMMA ForgettingKeepsTypes ==
  ASSUME NEW h \in HealthType, NEW p \in Providers
  PROVE  ForgetRecent(h, p) \in HealthType /\ ForgetRecent(h, p).disabled = h.disabled
  <1>1. OutageWindow \in Nat
    BY MeshAssumption
  <1>2. [c \in Known |-> IF c[1] = p THEN 0 ELSE h.recent[c]] \in [Known -> 0 .. OutageWindow]
    BY <1>1 DEF HealthType
  <1>. QED  BY <1>2 DEF ForgetRecent, HealthType

LEMMA SuccessIsRecorded ==
  ASSUME NEW h \in HealthType, NEW c \in Known
  PROVE  /\ RecordSuccess(h, c) \in HealthType
         /\ RecordSuccess(h, c).disabled = h.disabled \ {c[1]}
  <1>. DEFINE g == [h EXCEPT !.disabled = @ \ {c[1]}, !.cool[c[1]] = 0, !.quarantine[c[1]] = 0,
                             !.streak[c[1]] = 0, !.modelCool[c] = 0]
  <1>1. 0 \in 0 .. MaxPenalty /\ 0 \in 0 .. QuarantineTicks /\ 0 \in 0 .. QuarantineAfter
    BY PenaltyBounds
  <1>. HIDE MeshAssumption
  <1>2. c[1] \in Providers
    BY KnownAreCandidates
  <1>3. g \in HealthType /\ g.disabled = h.disabled \ {c[1]}
    BY <1>1, <1>2 DEF HealthType
  <1>4. RecordSuccess(h, c) = ForgetRecent(g, c[1])
    BY DEF RecordSuccess
  <1>. HIDE DEF g
  <1>. QED  BY <1>2, <1>3, <1>4, ForgettingKeepsTypes

LEMMA ModelsAreCooled ==
  ASSUME NEW h \in HealthType, NEW c \in Known, NEW ticks \in 0 .. MaxPenalty
  PROVE  /\ [h EXCEPT !.modelCool[c] = ticks] \in HealthType
         /\ [h EXCEPT !.modelCool[c] = ticks].disabled = h.disabled
  BY DEF HealthType

LEMMA ModelsAreBuried ==
  ASSUME NEW h \in HealthType, NEW c \in Known
  PROVE  /\ [h EXCEPT !.modelDead[c] = OutageWindow] \in HealthType
         /\ [h EXCEPT !.modelDead[c] = OutageWindow].disabled = h.disabled
  <1>1. OutageWindow \in 0 .. OutageWindow
    BY MeshAssumption
  <1>. QED  BY <1>1 DEF HealthType

LEMMA EscalationKeepsTypes ==
  ASSUME NEW h \in HealthType, NEW c \in Known, NEW ticks \in 0 .. MaxPenalty
  PROVE  Escalate(h, c, ticks) \in HealthType /\ Escalate(h, c, ticks).disabled = h.disabled
  <1>. DEFINE seen == [h EXCEPT !.recent[c] = OutageWindow]
  <1>1. OutageWindow \in 0 .. OutageWindow
    BY MeshAssumption
  <1>2. seen \in HealthType /\ seen.disabled = h.disabled
    BY <1>1 DEF HealthType
  <1>3. c[1] \in Providers
    BY KnownAreCandidates
  <1>4. \/ Escalate(h, c, ticks) = seen
        \/ Escalate(h, c, ticks) = RecordFailure(ForgetRecent(seen, c[1]), c[1], ticks)
    BY DEF Escalate
  <1>. HIDE DEF seen
  <1>5. /\ ForgetRecent(seen, c[1]) \in HealthType
        /\ ForgetRecent(seen, c[1]).disabled = h.disabled
    BY <1>2, <1>3, ForgettingKeepsTypes
  <1>6. PICK g \in HealthType : g = ForgetRecent(seen, c[1]) /\ g.disabled = h.disabled
    BY <1>5
  <1>7. /\ RecordFailure(g, c[1], ticks) \in HealthType
        /\ RecordFailure(g, c[1], ticks).disabled = h.disabled
    BY <1>3, <1>6, FailureIsRecorded
  <1>. QED  BY <1>2, <1>4, <1>6, <1>7

LEMMA TransientKeepsTypes ==
  ASSUME NEW h \in HealthType, NEW c \in Known, NEW ticks \in 0 .. MaxPenalty
  PROVE  Transient(h, c, ticks) \in HealthType /\ Transient(h, c, ticks).disabled = h.disabled
  <1>1. PICK g \in HealthType : g = [h EXCEPT !.modelCool[c] = ticks] /\ g.disabled = h.disabled
    BY ModelsAreCooled
  <1>2. c[1] \in Providers
    BY KnownAreCandidates
  <1>3. Transient(h, c, ticks) \in {Escalate(g, c, ticks), RecordFailure(h, c[1], ticks)}
    BY <1>1 DEF Transient
  <1>4. Escalate(g, c, ticks) \in HealthType /\ Escalate(g, c, ticks).disabled = g.disabled
    BY EscalationKeepsTypes
  <1>5. /\ RecordFailure(h, c[1], ticks) \in HealthType
        /\ RecordFailure(h, c[1], ticks).disabled = h.disabled
    BY <1>2, FailureIsRecorded
  <1>. HIDE MeshAssumption
  <1>. QED  BY <1>1, <1>3, <1>4, <1>5

LEMMA ElapseKeepsTypes ==
  ASSUME NEW S, NEW n \in Nat, NEW f \in [S -> 0 .. n]
  PROVE  Elapse(f) \in [S -> 0 .. n]
  BY DEF Elapse

-----------------------------------------------------------------------------
(* The walk over the pool. *)

LEMMA FirstRequestHasItsType ==
  /\ NoRequest \in CallType /\ NoRequest.pc = "idle" /\ NoRequest.pos = 0
  /\ NoRequest.limits = [p \in Providers |-> 0]
  <1>1. <<>> \in Seq(Known)
    OBVIOUS
  <1>2. [p \in Providers |-> 0] \in [Providers -> Nat]
    OBVIOUS
  <1>. QED  BY <1>1, <1>2 DEF NoRequest, CallType

LEMMA EndedRequestsRest ==
  ASSUME NEW q \in CallType
  PROVE  /\ EndedRequest(q) \in CallType /\ EndedRequest(q).pc = "ended"
         /\ EndedRequest(q).limits = q.limits
  <1>1. q.limits \in [Providers -> Nat]
    BY DEF CallType
  <1>. QED  BY <1>1, FirstRequestHasItsType DEF EndedRequest, CallType

LEMMA OnwardGoesOn ==
  ASSUME NEW h, NEW q \in CallType
  PROVE  \/ Onward(h, q) = EndedRequest(q)
         \/ \E i \in DOMAIN q.pool :
               i > q.pos /\ Eligible(h, q.pool[i]) /\ Onward(h, q) = AtCandidate(h, q, i)
  <1>. DEFINE T == Remaining(h, q)
  <1>1. CASE T = {}
    BY <1>1 DEF Onward
  <1>2. CASE T # {}
    <2>1. T \subseteq Nat
      BY DEF Remaining, CallType
    <2>2. \E i \in T : \A j \in T : i <= j
      <3>. HIDE DEF T
      <3>. QED  BY <1>2, <2>1, LeastOf
    <2>3. PICK i \in T : i = CHOOSE k \in T : \A j \in T : k <= j
      BY <2>2
    <2>4. Onward(h, q) = AtCandidate(h, q, i)
      BY <1>2, <2>3 DEF Onward
    <2>. QED  BY <2>3, <2>4 DEF Remaining
  <1>. QED  BY <1>1, <1>2

(* A provider that is down is left behind with all of its candidates. *)
LEMMA DownProvidersArePassed ==
  ASSUME NEW q \in CallType, InOrder(q.pool), q.pos \in DOMAIN q.pool,
         NEW i \in DOMAIN q.pool, i > q.pos, q.pool[i][1] # Here(q)[1]
  PROVE  \A j \in DOMAIN q.pool : j >= i => q.pool[j][1] # Here(q)[1]
  <1>. SUFFICES ASSUME NEW j \in DOMAIN q.pool, j >= i, q.pool[j][1] = Here(q)[1] PROVE FALSE
    OBVIOUS
  <1>1. q.pool \in Seq(Known) /\ q.pos \in Nat
    BY DEF CallType
  <1>2. q.pos < j /\ i \in q.pos .. j
    BY <1>1
  <1>3. \A k \in q.pos .. j : q.pool[k][1] = q.pool[q.pos][1]
    BY <1>2 DEF InOrder, Here
  <1>. QED  BY <1>2, <1>3 DEF Here

LEMMA OnwardWalks ==
  ASSUME NEW h, NEW q \in CallType, InOrder(q.pool),
         \A p \in Providers : q.limits[p] <= 2,
         \A p \in Providers : q.limits[p] > 0 =>
            \/ Counted(q, p)
            \/ q.pos \in DOMAIN q.pool /\ Here(q)[1] = p /\ ~Available(h, p)
  PROVE  /\ Onward(h, q) \in CallType
         /\ Onward(h, q).pc \in {"calling", "ended"}
         /\ Onward(h, q).pc = "calling" => Available(h, Here(Onward(h, q))[1])
         /\ Walks(Onward(h, q))
  <1>1. CASE Onward(h, q) = EndedRequest(q)
    BY <1>1, EndedRequestsRest DEF Walks, InFlight
  <1>2. ASSUME NEW i \in DOMAIN q.pool, i > q.pos, Eligible(h, q.pool[i]),
               Onward(h, q) = AtCandidate(h, q, i)
        PROVE  /\ Onward(h, q) \in CallType
               /\ Onward(h, q).pc \in {"calling", "ended"}
               /\ Onward(h, q).pc = "calling" => Available(h, Here(Onward(h, q))[1])
               /\ Walks(Onward(h, q))
    <2>. DEFINE n == AtCandidate(h, q, i)
    <2>1. q.pool \in Seq(Known) /\ q.pos \in Nat /\ i \in Nat
      BY DEF CallType
    <2>2. /\ n.pc = "calling" /\ n.pos = i /\ n.pool = q.pool /\ n.limits = q.limits
          /\ n.probed = q.probed
      BY DEF AtCandidate, CallType
    <2>3. n \in CallType
      <3>. DEFINE b == \E j \in DOMAIN q.pool :
                j > i /\ q.pool[j][1] = q.pool[i][1] /\ Eligible(h, q.pool[j])
      <3>1. n = [q EXCEPT !.pos = i, !.retried = FALSE, !.pc = "calling", !.sibling = b]
        BY DEF AtCandidate
      <3>2. b \in BOOLEAN
        OBVIOUS
      <3>. HIDE DEF n, b
      <3>. QED  BY <2>1, <3>1, <3>2 DEF CallType
    <2>. HIDE DEF n
    <2>3a. Onward(h, q) = n
      BY <1>2 DEF n
    <2>4. Here(n) = q.pool[i]
      BY <2>2 DEF Here
    <2>5. Available(h, Here(n)[1])
      BY <1>2, <2>4 DEF Eligible
    <2>6. ASSUME NEW p \in Providers, n.limits[p] > 0  PROVE Counted(n, p)
      <3>1. q.limits[p] > 0
        BY <2>2, <2>6
      <3>2. CASE q.limits[p] = 1 /\ p \in q.probed
        BY <2>2, <3>2 DEF Counted
      <3>3. CASE PassedBy(q, p)
        <4>1. PassedBy(n, p)
          BY <1>2, <2>1, <2>2, <3>3 DEF PassedBy
        <4>. QED  BY <4>1 DEF Counted
      <3>4. CASE q.pos \in DOMAIN q.pool /\ Here(q)[1] = p /\ ~Available(h, p)
        <4>1. q.pool[i][1] # Here(q)[1]
          BY <2>4, <2>5, <3>4
        <4>2. \A j \in DOMAIN q.pool : j >= i => q.pool[j][1] # Here(q)[1]
          BY <1>2, <3>4, <4>1, DownProvidersArePassed
        <4>3. PassedBy(n, p)
          BY <2>2, <3>4, <4>2 DEF PassedBy
        <4>. QED  BY <4>3 DEF Counted
      <3>. QED  BY <3>1, <3>2, <3>3, <3>4 DEF Counted
    <2>7. Walks(n)
      BY <2>2, <2>6 DEF Walks
    <2>. QED  BY <2>2, <2>3, <2>3a, <2>5, <2>7
  <1>. QED  BY <1>1, <1>2, OnwardGoesOn

LEMMA EndedWalks ==
  ASSUME NEW q \in CallType, Walks(q)
  PROVE  Walks(EndedRequest(q))
  BY EndedRequestsRest DEF Walks, InFlight

-----------------------------------------------------------------------------
(* A request moves on, and the waiters of the slots it frees are woken.         *)

LEMMA TailsOfQueues ==
  ASSUME NEW S, NEW s \in Seq(S), s # <<>>, \A i, j \in DOMAIN s : i # j => s[i] # s[j]
  PROVE  /\ 1 \in DOMAIN s /\ Head(s) = s[1] /\ Tail(s) \in Seq(S)
         /\ \A i \in DOMAIN Tail(s) :
               i + 1 \in DOMAIN s /\ Tail(s)[i] = s[i + 1] /\ Tail(s)[i] # Head(s)
         /\ \A i, j \in DOMAIN Tail(s) : i # j => Tail(s)[i] # Tail(s)[j]
  <1>1. 1 \in DOMAIN s /\ Head(s) = s[1] /\ Tail(s) \in Seq(S)
    OBVIOUS
  <1>2. \A i \in DOMAIN Tail(s) : i \in Nat /\ i >= 1 /\ i + 1 \in DOMAIN s /\ Tail(s)[i] = s[i + 1]
    OBVIOUS
  <1>3. \A i \in DOMAIN Tail(s) : Tail(s)[i] # Head(s)
    BY <1>1, <1>2
  <1>4. \A i, j \in DOMAIN Tail(s) : i # j => Tail(s)[i] # Tail(s)[j]
    BY <1>2
  <1>. QED  BY <1>1, <1>2, <1>3, <1>4

LEMMA AppendedQueues ==
  ASSUME NEW S, NEW s \in Seq(S), NEW e \in S, \A i, j \in DOMAIN s : i # j => s[i] # s[j],
         \A i \in DOMAIN s : s[i] # e
  PROVE  /\ Append(s, e) \in Seq(S)
         /\ \A i \in DOMAIN Append(s, e) :
               Append(s, e)[i] = e \/ (i \in DOMAIN s /\ Append(s, e)[i] = s[i])
         /\ \A i, j \in DOMAIN Append(s, e) : i # j => Append(s, e)[i] # Append(s, e)[j]
  <1>1. \A i \in DOMAIN Append(s, e) :
           \/ i = Len(s) + 1 /\ Append(s, e)[i] = e
           \/ i \in DOMAIN s /\ Append(s, e)[i] = s[i]
    OBVIOUS
  <1>. QED  BY <1>1

LEMMA RequestMoves ==
  ASSUME MeshInv, NEW r \in MeshRequests, request[r].pc \in {"idle", "calling"},
         NEW freed, NEW q \in CallType, q.pc \in {"calling", "ended"}, Walks(q),
         Move(r, freed, q), health' \in HealthType
  PROVE  /\ MeshInv'
         /\ request'[r] = q \/ (q.pc = "calling" /\ request'[r] = [q EXCEPT !.pc = "queued"])
         /\ \A s \in MeshRequests \ {r} :
               \/ request'[s] = request[s]
               \/ /\ request[s].pc = "queued"
                  /\ request'[s] = [request[s] EXCEPT !.pc = "calling"]
  <1>. DEFINE woken == [p \in Providers |->
                 IF p \in freed /\ slotQueue[p] # <<>> THEN {Head(slotQueue[p])} ELSE {}]
              left == [p \in Providers |->
                 IF woken[p] # {} THEN Tail(slotQueue[p]) ELSE slotQueue[p]]
              to == IF q.pc = "calling" THEN Here(q)[1] ELSE ActiveProvider
              held == Cardinality((Holders(to) \ {r}) \union woken[to])
              waits == q.pc = "calling" /\ held >= Slots[to]
  <1>1. /\ request' = [s \in MeshRequests |->
                IF s = r THEN (IF waits THEN [q EXCEPT !.pc = "queued"] ELSE q)
                ELSE IF \E x \in Providers : s \in woken[x]
                  THEN [request[s] EXCEPT !.pc = "calling"] ELSE request[s]]
        /\ slotQueue' = IF waits THEN [left EXCEPT ![to] = Append(@, r)] ELSE left
        /\ UNCHANGED catalog
    BY DEF Move
  <1>2. /\ catalog \in Catalogs /\ request \in [MeshRequests -> CallType]
        /\ slotQueue \in [Providers -> Seq(MeshRequests)] /\ QueuesHold
        /\ \A s \in MeshRequests : Walks(request[s])
    BY TypesAreMeshTypes DEF MeshInv
  <1>3. to \in Providers
    <2>1. CASE q.pc = "calling"
      <3>1. q.pos \in DOMAIN q.pool /\ q.pool \in Seq(Known)
        BY <2>1 DEF Walks, InFlight, CallType
      <3>2. Here(q) \in Known
        BY <3>1 DEF Here
      <3>. QED  BY <2>1, <3>2, KnownAreCandidates
    <2>2. CASE q.pc # "calling"
      BY <2>2, MeshAssumption
    <2>. QED  BY <2>1, <2>2
  (* Who is woken was queued for that provider, and is in no queue any more. *)
  <1>4. ASSUME NEW p \in Providers
        PROVE  /\ left[p] \in Seq(MeshRequests)
               /\ \A i, j \in DOMAIN left[p] : i # j => left[p][i] # left[p][j]
               /\ \A i \in DOMAIN left[p] : WaitsFor(request[left[p][i]], p) /\ left[p][i] \notin woken[p]
               /\ \A s \in woken[p] : s \in MeshRequests /\ WaitsFor(request[s], p)
    <2>. DEFINE line == slotQueue[p]
    <2>1. /\ line \in Seq(MeshRequests)
          /\ \A i \in DOMAIN line : WaitsFor(request[line[i]], p)
          /\ \A i, j \in DOMAIN line : i # j => line[i] # line[j]
      BY <1>2 DEF QueuesHold
    <2>2. CASE p \in freed /\ line # <<>>
      <3>1. woken[p] = {Head(line)} /\ left[p] = Tail(line)
        BY <2>2
      <3>. HIDE DEF line, woken, left
      <3>2. /\ 1 \in DOMAIN line /\ Head(line) = line[1] /\ Tail(line) \in Seq(MeshRequests)
            /\ \A i \in DOMAIN Tail(line) :
                  i + 1 \in DOMAIN line /\ Tail(line)[i] = line[i + 1] /\ Tail(line)[i] # Head(line)
            /\ \A i, j \in DOMAIN Tail(line) : i # j => Tail(line)[i] # Tail(line)[j]
        BY <2>1, <2>2, TailsOfQueues
      <3>3. Head(line) \in MeshRequests
        BY <2>1, <3>2
      <3>. QED  BY <2>1, <3>1, <3>2, <3>3
    <2>3. CASE ~(p \in freed /\ line # <<>>)
      <3>1. woken[p] = {} /\ left[p] = line
        BY <2>3
      <3>. HIDE DEF line, woken, left
      <3>. QED  BY <2>1, <3>1
    <2>. QED  BY <2>2, <2>3
  <1>5. left = [p \in Providers |-> left[p]]
    OBVIOUS
  <1>. HIDE DEF woken, left, to, held, waits
  <1>6. /\ request'[r] = IF waits THEN [q EXCEPT !.pc = "queued"] ELSE q
        /\ \A s \in MeshRequests \ {r} :
               \/ request'[s] = request[s] /\ \A p \in Providers : s \notin woken[p]
               \/ /\ request[s].pc = "queued"
                  /\ request'[s] = [request[s] EXCEPT !.pc = "calling"]
    BY <1>1, <1>4 DEF WaitsFor
  <1>7. request' \in [MeshRequests -> CallType]
    <2>1. \A c \in CallType : /\ [c EXCEPT !.pc = "queued"] \in CallType
                               /\ [c EXCEPT !.pc = "calling"] \in CallType
      BY DEF CallType
    <2>2. ASSUME NEW s \in MeshRequests  PROVE request'[s] \in CallType
      <3>1. request[s] \in CallType
        BY <1>2
      <3>2. request'[s] \in {request[s], [request[s] EXCEPT !.pc = "calling"], q, [q EXCEPT !.pc = "queued"]}
        BY <1>6
      <3>. QED  BY <2>1, <3>1, <3>2
    <2>3. request' = [s \in MeshRequests |-> request'[s]]
      BY <1>1
    <2>. QED  BY <2>2, <2>3
  <1>8. \A s \in MeshRequests : Walks(request'[s])
    <2>1. ASSUME NEW c \in CallType, Walks(c), c.pc \in InFlight, NEW pc \in InFlight
          PROVE  Walks([c EXCEPT !.pc = pc])
      BY <2>1 DEF Walks, CallType, Counted, PassedBy
    <2>2. Walks(request'[r])
      <3>1. waits => q.pc \in InFlight
        BY DEF waits, InFlight
      <3>. QED  BY <1>6, <2>1, <3>1 DEF InFlight
    <2>3. ASSUME NEW s \in MeshRequests \ {r}  PROVE Walks(request'[s])
      <3>1. CASE request'[s] = request[s]
        BY <1>2, <2>3, <3>1
      <3>2. CASE request[s].pc = "queued" /\ request'[s] = [request[s] EXCEPT !.pc = "calling"]
        <4>1. request[s] \in CallType /\ Walks(request[s]) /\ request[s].pc \in InFlight
          BY <1>2, <2>3, <3>2 DEF InFlight
        <4>2. Walks([request[s] EXCEPT !.pc = "calling"])
          BY <2>1, <4>1 DEF InFlight
        <4>. QED  BY <3>2, <4>2
      <3>. QED  BY <1>6, <2>3, <3>1, <3>2
    <2>. QED  BY <2>2, <2>3
  (* The queues that are left hold only requests that did not move. *)
  <1>9. ASSUME NEW p \in Providers, NEW i \in DOMAIN left[p]
        PROVE  /\ left[p][i] \in MeshRequests \ {r}
               /\ WaitsFor(request'[left[p][i]], p)
    <2>. DEFINE s == left[p][i]
    <2>1. s \in MeshRequests /\ WaitsFor(request[s], p) /\ s \notin woken[p]
      BY <1>4, <1>9
    <2>2. s # r
      BY <2>1 DEF WaitsFor
    <2>3. \A x \in Providers : s \notin woken[x]
      BY <1>4, <2>1 DEF WaitsFor
    <2>4. request'[s] = request[s]
      BY <1>1, <2>1, <2>2, <2>3
    <2>. QED  BY <2>1, <2>2, <2>4
  <1>10. CASE ~waits
    <2>1. slotQueue' = left
      BY <1>1, <1>10
    <2>2. slotQueue' \in [Providers -> Seq(MeshRequests)]
      BY <1>4, <1>5, <2>1
    <2>3. QueuesHold'
      BY <1>4, <1>9, <2>1 DEF QueuesHold, WaitsFor, Here
    <2>4. MeshTypeOK'
      BY <1>1, <1>2, <1>7, <2>2, NextTypes
    <2>. QED  BY <1>6, <1>8, <1>10, <2>3, <2>4 DEF MeshInv
  <1>11. CASE waits
    <2>1. /\ left[to] \in Seq(MeshRequests)
          /\ \A i, j \in DOMAIN left[to] : i # j => left[to][i] # left[to][j]
          /\ \A i \in DOMAIN left[to] : left[to][i] # r
      BY <1>3, <1>4, <1>9
    <2>. DEFINE line == Append(left[to], r)
    <2>2. /\ line \in Seq(MeshRequests)
          /\ \A i \in DOMAIN line : line[i] = r \/ (i \in DOMAIN left[to] /\ line[i] = left[to][i])
          /\ \A i, j \in DOMAIN line : i # j => line[i] # line[j]
      BY <2>1, AppendedQueues
    <2>3. /\ slotQueue' = [p \in Providers |-> IF p = to THEN line ELSE left[p]]
      BY <1>1, <1>5, <1>11
    <2>. HIDE DEF line
    <2>4. WaitsFor(request'[r], to)
      <3>1. request'[r] = [q EXCEPT !.pc = "queued"] /\ q.pc = "calling" /\ to = Here(q)[1]
        BY <1>6, <1>11 DEF waits, to
      <3>. QED  BY <3>1 DEF WaitsFor, Here, CallType
    <2>5. slotQueue' \in [Providers -> Seq(MeshRequests)]
      BY <1>4, <2>2, <2>3
    <2>6. ASSUME NEW p \in Providers
          PROVE  /\ \A i \in DOMAIN slotQueue'[p] : WaitsFor(request'[slotQueue'[p][i]], p)
                 /\ \A i, j \in DOMAIN slotQueue'[p] : i # j => slotQueue'[p][i] # slotQueue'[p][j]
      <3>1. CASE p = to
        BY <1>3, <1>9, <2>2, <2>3, <2>4, <3>1
      <3>2. CASE p # to
        BY <1>4, <1>9, <2>3, <3>2
      <3>. QED  BY <3>1, <3>2
    <2>7. QueuesHold'
      BY <2>6 DEF QueuesHold, WaitsFor, Here
    <2>8. MeshTypeOK'
      BY <1>1, <1>2, <1>7, <2>5, NextTypes
    <2>9. q.pc = "calling"
      BY <1>11 DEF waits
    <2>. QED  BY <1>6, <1>8, <1>11, <2>7, <2>8, <2>9 DEF MeshInv
  <1>. QED  BY <1>10, <1>11

-----------------------------------------------------------------------------
(* What a step of request r does to the requests: r asks a provider that is up, or  *)
(* ends; another goes on only if it was waiting for the slot r frees.               *)
Honours(r) ==
    /\ \/ request'[r].pc = "ended"
       \/ /\ request'[r].pc \in {"calling", "queued"}
          /\ Available(health', Here(request'[r])[1])
    /\ \A s \in MeshRequests \ {r} :
          \/ request'[s] = request[s]
          \/ /\ request[s].pc = "queued"
             /\ request'[s] = [request[s] EXCEPT !.pc = "calling"]

(* A provider is enabled again by the end of a call of it, and by nothing else. *)
Enables(r) ==
    \A p \in health.disabled :
        p \in health'.disabled \/ (request[r].pc = "calling" /\ p = Here(request[r])[1])

LEMMA OnwardKeeps ==
  ASSUME MeshInv, NEW r \in MeshRequests, request[r].pc \in {"idle", "calling"},
         NEW freed, NEW h \in HealthType, NEW q \in CallType, InOrder(q.pool),
         \A p \in Providers : q.limits[p] <= 2,
         \A p \in Providers : q.limits[p] > 0 =>
            \/ Counted(q, p)
            \/ q.pos \in DOMAIN q.pool /\ Here(q)[1] = p /\ ~Available(h, p),
         health' = h, Move(r, freed, Onward(h, q))
  PROVE  MeshInv' /\ Honours(r)
  <1>1. PICK n : n = Onward(h, q)
    OBVIOUS
  <1>2. /\ n \in CallType /\ n.pc \in {"calling", "ended"} /\ Walks(n)
        /\ n.pc = "calling" => Available(h, Here(n)[1])
    BY <1>1, OnwardWalks
  <1>3. Move(r, freed, n) /\ health' \in HealthType
    BY <1>1
  <1>4. /\ MeshInv'
        /\ request'[r] = n \/ (n.pc = "calling" /\ request'[r] = [n EXCEPT !.pc = "queued"])
        /\ \A s \in MeshRequests \ {r} :
               \/ request'[s] = request[s]
               \/ /\ request[s].pc = "queued"
                  /\ request'[s] = [request[s] EXCEPT !.pc = "calling"]
    BY <1>2, <1>3, RequestMoves
  <1>5. \/ request'[r].pc = "ended"
        \/ /\ request'[r].pc \in {"calling", "queued"}
           /\ Available(health', Here(request'[r])[1])
    <2>1. CASE n.pc = "ended"
      BY <1>4, <2>1
    <2>2. CASE n.pc = "calling"
      <3>1. Available(health', Here(n)[1])
        BY <1>2, <2>2
      <3>2. /\ request'[r].pc \in {"calling", "queued"}
            /\ request'[r].pool = n.pool /\ request'[r].pos = n.pos
        BY <1>2, <1>4, <2>2 DEF CallType
      <3>. QED  BY <3>1, <3>2 DEF Here
    <2>. QED  BY <1>2, <2>1, <2>2
  <1>. QED  BY <1>4, <1>5 DEF Honours

LEMMA CallsStand ==
  ASSUME MeshInv, NEW r \in MeshRequests, request[r].pc = "calling"
  PROVE  /\ health \in HealthType /\ request[r] \in CallType /\ InOrder(request[r].pool)
         /\ request[r].pos \in DOMAIN request[r].pool
         /\ Here(request[r]) \in Known /\ Here(request[r])[1] \in Providers
         /\ \A p \in Providers : request[r].limits[p] <= 2
         /\ \A p \in Providers : request[r].limits[p] > 0 => Counted(request[r], p)
  <1>1. health \in HealthType /\ request[r] \in CallType
    BY TypesAreMeshTypes DEF MeshInv
  <1>2. Walks(request[r])
    BY DEF MeshInv
  <1>3. request[r].pos \in DOMAIN request[r].pool /\ request[r].pool \in Seq(Known)
    BY <1>1, <1>2 DEF Walks, InFlight, CallType
  <1>4. Here(request[r]) \in Known
    BY <1>3 DEF Here
  <1>5. Here(request[r])[1] \in Providers
    BY <1>4, KnownAreCandidates
  <1>. QED  BY <1>1, <1>2, <1>3, <1>4, <1>5 DEF Walks, InFlight

(* The failed or useless call of a candidate, with whatever it teaches. *)
LEMMA FinishKeeps ==
  ASSUME MeshInv, NEW r \in MeshRequests, request[r].pc = "calling", NEW h \in HealthType,
         Finish(r, h, request[r])
  PROVE  MeshInv' /\ Honours(r) /\ health' = h
  <1>1. /\ request[r] \in CallType /\ InOrder(request[r].pool)
        /\ \A p \in Providers : request[r].limits[p] <= 2
        /\ \A p \in Providers : request[r].limits[p] > 0 => Counted(request[r], p)
    BY CallsStand
  <1>2. PICK q : q = request[r]
    OBVIOUS
  <1>3. PICK freed : freed = {Here(request[r])[1]}
    OBVIOUS
  <1>4. health' = h /\ Move(r, freed, Onward(h, q))
    BY <1>2, <1>3 DEF Finish
  <1>5. /\ q \in CallType /\ InOrder(q.pool)
        /\ \A p \in Providers : q.limits[p] <= 2
        /\ \A p \in Providers : q.limits[p] > 0 => Counted(q, p)
    BY <1>1, <1>2
  <1>6. MeshInv' /\ Honours(r)
    BY <1>4, <1>5, OnwardKeeps
  <1>. QED  BY <1>4, <1>6

LEMMA MeshAskKeeps ==
  ASSUME MeshInv, NEW r \in MeshRequests, MeshAsk(r)
  PROVE  MeshInv' /\ Honours(r) /\ Enables(r)
  <1>1. PICK pool \in Pools(health) : Move(r, {}, Onward(health, [NoRequest EXCEPT !.pool = pool]))
    BY DEF MeshAsk
  <1>2. pool \in Seq(Known) /\ InOrder(pool)
    BY PoolsAreSequences
  <1>3. PICK q : q = [NoRequest EXCEPT !.pool = pool]
    OBVIOUS
  <1>4. /\ q \in CallType /\ q.pool = pool
        /\ \A p \in Providers : q.limits[p] = 0
    <2>1. NoRequest \in CallType /\ NoRequest.limits = [p \in Providers |-> 0]
      BY FirstRequestHasItsType
    <2>2. q \in CallType /\ q.pool = pool /\ q.limits = NoRequest.limits
      BY <1>2, <1>3, <2>1 DEF CallType
    <2>. QED  BY <2>1, <2>2
  <1>5. PICK freed : freed = {}
    OBVIOUS
  <1>6. PICK h : h = health
    OBVIOUS
  <1>7. /\ h \in HealthType /\ health' = h /\ Move(r, freed, Onward(h, q))
        /\ request[r].pc \in {"idle", "calling"}
    BY <1>1, <1>3, <1>5, <1>6, TypesAreMeshTypes DEF MeshAsk, MeshInv
  <1>8. /\ InOrder(q.pool) /\ \A p \in Providers : q.limits[p] <= 2
        /\ \A p \in Providers : q.limits[p] > 0 => Counted(q, p)
    BY <1>2, <1>4
  <1>9. MeshInv' /\ Honours(r)
    BY <1>4, <1>7, <1>8, OnwardKeeps
  <1>. QED  BY <1>6, <1>7, <1>9 DEF Enables

LEMMA SuccessKeeps ==
  ASSUME MeshInv, NEW r \in MeshRequests, MeshSuccess(r)
  PROVE  MeshInv' /\ Honours(r) /\ Enables(r)
  <1>1. request[r].pc = "calling"
    BY DEF MeshSuccess, Answering
  <1>2. /\ health \in HealthType /\ request[r] \in CallType
        /\ Here(request[r]) \in Known
    BY <1>1, CallsStand
  <1>3. PICK h \in HealthType : /\ h = RecordSuccess(health, Here(request[r]))
                                /\ h.disabled = health.disabled \ {Here(request[r])[1]}
    BY <1>2, SuccessIsRecorded
  <1>4. health' = h => Enables(r)
    BY <1>1, <1>3 DEF Enables
  <1>5. CASE Finish(r, h, request[r])
    BY <1>1, <1>4, <1>5, FinishKeeps
  <1>6. CASE health' = h /\ Move(r, {Here(request[r])[1]}, EndedRequest(request[r]))
    <2>1. PICK n : n = EndedRequest(request[r])
      OBVIOUS
    <2>2. PICK freed : freed = {Here(request[r])[1]}
      OBVIOUS
    <2>3. Walks(request[r])
      BY DEF MeshInv
    <2>4. n \in CallType /\ n.pc = "ended" /\ Walks(n)
      BY <1>2, <2>1, <2>3, EndedRequestsRest, EndedWalks
    <2>5. /\ request[r].pc \in {"idle", "calling"} /\ n.pc \in {"calling", "ended"}
          /\ Move(r, freed, n) /\ health' \in HealthType
      BY <1>1, <1>3, <1>6, <2>1, <2>2, <2>4
    <2>6. /\ MeshInv'
          /\ request'[r] = n \/ (n.pc = "calling" /\ request'[r] = [n EXCEPT !.pc = "queued"])
          /\ \A s \in MeshRequests \ {r} :
                 \/ request'[s] = request[s]
                 \/ /\ request[s].pc = "queued"
                    /\ request'[s] = [request[s] EXCEPT !.pc = "calling"]
      BY <2>4, <2>5, RequestMoves
    <2>. QED  BY <1>4, <1>6, <2>4, <2>6 DEF Honours
  <1>. QED  BY <1>3, <1>5, <1>6 DEF MeshSuccess

LEMMA AuthFailsKeeps ==
  ASSUME MeshInv, NEW r \in MeshRequests, MeshAuthFails(r)
  PROVE  MeshInv' /\ Honours(r) /\ Enables(r)
  <1>1. request[r].pc = "calling"
    BY DEF MeshAuthFails, Answering
  <1>2. health \in HealthType /\ Here(request[r])[1] \in Providers
    BY <1>1, CallsStand
  <1>3. PICK h \in HealthType : /\ h = MarkDisabled(health, Here(request[r])[1])
                                /\ h.disabled = health.disabled \union {Here(request[r])[1]}
    BY <1>2, DisablingKeepsTypes
  <1>4. Finish(r, h, request[r])
    BY <1>3 DEF MeshAuthFails
  <1>5. MeshInv' /\ Honours(r) /\ health' = h
    BY <1>1, <1>4, FinishKeeps
  <1>. QED  BY <1>3, <1>5 DEF Enables

LEMMA SameDisabled ==
  ASSUME MeshInv, NEW r \in MeshRequests, request[r].pc = "calling", NEW h \in HealthType,
         h.disabled = health.disabled, Finish(r, h, request[r])
  PROVE  MeshInv' /\ Honours(r) /\ Enables(r)
  <1>1. MeshInv' /\ Honours(r) /\ health' = h
    BY FinishKeeps
  <1>. QED  BY <1>1 DEF Enables

LEMMA ModelDeadKeeps ==
  ASSUME MeshInv, NEW r \in MeshRequests, MeshModelDead(r)
  PROVE  MeshInv' /\ Honours(r) /\ Enables(r)
  <1>1. request[r].pc = "calling"
    BY DEF MeshModelDead, Answering
  <1>2. health \in HealthType /\ Here(request[r]) \in Known
    BY <1>1, CallsStand
  <1>3. PICK h \in HealthType : /\ h = [health EXCEPT !.modelDead[Here(request[r])] = OutageWindow]
                                /\ h.disabled = health.disabled
    BY <1>2, ModelsAreBuried
  <1>4. PICK g \in HealthType : g = health /\ g.disabled = health.disabled
    BY <1>2
  <1>5. Finish(r, h, request[r]) \/ Finish(r, g, request[r])
    BY <1>3, <1>4 DEF MeshModelDead
  <1>. QED  BY <1>1, <1>3, <1>4, <1>5, SameDisabled

LEMMA TransientFailureKeeps ==
  ASSUME MeshInv, NEW r \in MeshRequests, MeshTransient(r)
  PROVE  MeshInv' /\ Honours(r) /\ Enables(r)
  <1>1. request[r].pc = "calling"
    BY DEF MeshTransient, Answering
  <1>2. health \in HealthType /\ Here(request[r]) \in Known
    BY <1>1, CallsStand
  <1>3. PICK ticks \in 1 .. MaxPenalty :
           Finish(r, Transient(health, Here(request[r]), ticks), request[r])
    BY DEF MeshTransient
  <1>4. ticks \in 0 .. MaxPenalty
    BY <1>3
  <1>5. PICK h \in HealthType : /\ h = Transient(health, Here(request[r]), ticks)
                                /\ h.disabled = health.disabled
    BY <1>2, <1>4, TransientKeepsTypes
  <1>. QED  BY <1>1, <1>3, <1>5, SameDisabled

(* A limit that proves nothing is counted: the first leaves the provider probed,     *)
(* the second takes it down, so that the walk leaves all of its candidates behind.    *)
LEMMA AmbiguousLimitKeeps ==
  ASSUME MeshInv, NEW r \in MeshRequests, request[r].pc = "calling", NEW ticks \in 0 .. MaxPenalty,
         LET c == Here(request[r])
             q == [request[r] EXCEPT !.limits[c[1]] = IF ticks > 0 THEN @ + 1 ELSE @]
         IN  IF Probes(q, c)
               THEN Finish(r, [health EXCEPT !.modelCool[c] = ticks], [q EXCEPT !.probed = @ \union {c[1]}])
               ELSE Finish(r, RecordFailure(health, c[1], ticks), q)
  PROVE  MeshInv' /\ Honours(r) /\ Enables(r)
  <1>1. PICK c : c = Here(request[r])
    OBVIOUS
  <1>2. PICK was : was = request[r]
    OBVIOUS
  <1>3. /\ health \in HealthType /\ was \in CallType /\ InOrder(was.pool) /\ c \in Known
        /\ c[1] \in Providers /\ was.pos \in DOMAIN was.pool /\ c = Here(was)
        /\ \A p \in Providers : was.limits[p] <= 2
        /\ \A p \in Providers : was.limits[p] > 0 => Counted(was, p)
    BY <1>1, <1>2, CallsStand
  <1>. DEFINE n == IF ticks > 0 THEN was.limits[c[1]] + 1 ELSE was.limits[c[1]]
              q == [was EXCEPT !.limits[c[1]] = n]
              probing == [q EXCEPT !.probed = @ \union {c[1]}]
  <1>4. /\ was.limits \in [Providers -> Nat] /\ was.probed \in SUBSET Providers /\ was.pool \in Seq(Known)
        /\ was.pos \in Nat
    BY <1>3 DEF CallType
  (* Standing at the provider, the request has counted at most one limit of it. *)
  <1>5. /\ was.limits[c[1]] <= 1
        /\ was.limits[c[1]] > 0 => c[1] \in was.probed
    <2>1. ~PassedBy(was, c[1])
      <3>1. was.pos >= was.pos
        BY <1>4
      <3>2. was.pool[was.pos] = c
        BY <1>3 DEF Here
      <3>. QED  BY <1>3, <3>1, <3>2 DEF PassedBy
    <2>2. was.limits[c[1]] > 0 => was.limits[c[1]] = 1 /\ c[1] \in was.probed
      BY <1>3, <2>1 DEF Counted
    <2>. QED  BY <1>3, <1>4, <2>2
  <1>6. n \in Nat /\ n <= 2
    BY <1>3, <1>4, <1>5
  <1>7. /\ q \in CallType /\ q.pool = was.pool /\ q.pos = was.pos /\ q.probed = was.probed
        /\ q.sibling = was.sibling
        /\ q.limits[c[1]] = n
        /\ \A p \in Providers : p # c[1] => q.limits[p] = was.limits[p]
    <2>. HIDE DEF n
    <2>. QED  BY <1>3, <1>4, <1>6 DEF CallType
  <1>8. IF Probes(q, c) THEN Finish(r, [health EXCEPT !.modelCool[c] = ticks], probing)
                        ELSE Finish(r, RecordFailure(health, c[1], ticks), q)
    BY <1>1, <1>2
  <1>9. PICK freed : freed = {Here(request[r])[1]}
    OBVIOUS
  <1>10. /\ InOrder(q.pool) /\ \A p \in Providers : q.limits[p] <= 2
         /\ Here(q) = c /\ q.pos \in DOMAIN q.pool
    BY <1>3, <1>6, <1>7 DEF Here
  <1>11. \A p \in Providers : p # c[1] /\ q.limits[p] > 0 => Counted(q, p)
    BY <1>3, <1>7 DEF Counted, PassedBy
  <1>12. CASE Probes(q, c)
    <2>1. /\ probing \in CallType /\ probing.pool = q.pool /\ probing.pos = q.pos
          /\ probing.limits = q.limits /\ probing.probed = q.probed \union {c[1]}
      <3>. HIDE DEF q
      <3>. QED  BY <1>3, <1>7 DEF CallType
    <2>. HIDE DEF probing, q, n
    <2>2. PICK h \in HealthType : /\ h = [health EXCEPT !.modelCool[c] = ticks]
                                  /\ h.disabled = health.disabled
      BY <1>3, ModelsAreCooled
    <2>3. was.limits[c[1]] = 0
      <3>1. c[1] \notin was.probed
        BY <1>7, <1>12 DEF Probes
      <3>2. was.limits[c[1]] \in Nat
        BY <1>3, <1>4
      <3>. HIDE MeshAssumption
      <3>. QED  BY <1>5, <3>1, <3>2
    <2>4. \A p \in Providers : probing.limits[p] > 0 => Counted(probing, p)
      <3>1. probing.limits[c[1]] > 0 => probing.limits[c[1]] = 1 /\ c[1] \in probing.probed
        BY <1>7, <2>1, <2>3 DEF n
      <3>2. \A p \in Providers : p # c[1] /\ probing.limits[p] > 0 => Counted(probing, p)
        BY <1>11, <2>1 DEF Counted, PassedBy
      <3>. QED  BY <3>1, <3>2 DEF Counted
    <2>5. health' = h /\ Move(r, freed, Onward(h, probing))
      BY <1>8, <1>9, <1>12, <2>2 DEF Finish
    <2>6. InOrder(probing.pool) /\ \A p \in Providers : probing.limits[p] <= 2
      BY <1>10, <2>1
    <2>7. MeshInv' /\ Honours(r)
      BY <2>1, <2>4, <2>5, <2>6, OnwardKeeps
    <2>. QED  BY <2>2, <2>5, <2>7 DEF Enables
  <1>13. CASE ~Probes(q, c)
    <2>. HIDE DEF probing, q
    <2>1. PICK h \in HealthType : /\ h = RecordFailure(health, c[1], ticks)
                                  /\ h.disabled = health.disabled
                                  /\ ticks > 0 => ~Available(h, c[1])
      BY <1>3, FailureIsRecorded
    <2>2. \A p \in Providers : q.limits[p] > 0 =>
             \/ Counted(q, p)
             \/ q.pos \in DOMAIN q.pool /\ Here(q)[1] = p /\ ~Available(h, p)
      <3>1. CASE ticks > 0
        BY <1>10, <1>11, <2>1, <3>1
      <3>2. CASE ~(ticks > 0)
        <4>1. q.limits[c[1]] = was.limits[c[1]]
          BY <1>7, <3>2
        <4>2. q.limits[c[1]] > 0 => Counted(q, c[1])
          BY <1>3, <1>7, <4>1 DEF Counted, PassedBy
        <4>. QED  BY <1>11, <4>2
      <3>. QED  BY <3>1, <3>2
    <2>3. health' = h /\ Move(r, freed, Onward(h, q))
      BY <1>8, <1>9, <1>13, <2>1 DEF Finish
    <2>4. MeshInv' /\ Honours(r)
      BY <1>7, <1>10, <2>2, <2>3, OnwardKeeps
    <2>. QED  BY <2>1, <2>3, <2>4 DEF Enables
  <1>. QED  BY <1>12, <1>13

LEMMA LimitedKeeps ==
  ASSUME MeshInv, NEW r \in MeshRequests, MeshLimited(r)
  PROVE  MeshInv' /\ Honours(r) /\ Enables(r)
  <1>1. request[r].pc = "calling"
    BY DEF MeshLimited, Answering
  <1>2. /\ health \in HealthType /\ Here(request[r]) \in Known
        /\ Here(request[r])[1] \in Providers
    BY <1>1, CallsStand
  <1>3. PICK ticks \in 0 .. MaxPenalty :
           LET c == Here(request[r])
           IN  \/ Finish(r, [health EXCEPT !.modelCool[c] = ticks], request[r])
               \/ Finish(r, RecordFailure(health, c[1], ticks), request[r])
               \/ LET q == [request[r] EXCEPT !.limits[c[1]] = IF ticks > 0 THEN @ + 1 ELSE @]
                  IN  IF Probes(q, c)
                        THEN Finish(r, [health EXCEPT !.modelCool[c] = ticks],
                                    [q EXCEPT !.probed = @ \union {c[1]}])
                        ELSE Finish(r, RecordFailure(health, c[1], ticks), q)
    BY DEF MeshLimited
  <1>4. PICK g \in HealthType : /\ g = [health EXCEPT !.modelCool[Here(request[r])] = ticks]
                                /\ g.disabled = health.disabled
    BY <1>2, ModelsAreCooled
  <1>5. PICK h \in HealthType : /\ h = RecordFailure(health, Here(request[r])[1], ticks)
                                /\ h.disabled = health.disabled
    BY <1>2, FailureIsRecorded
  <1>6. CASE Finish(r, g, request[r]) \/ Finish(r, h, request[r])
    BY <1>1, <1>4, <1>5, <1>6, SameDisabled
  <1>7. CASE LET c == Here(request[r])
                 q == [request[r] EXCEPT !.limits[c[1]] = IF ticks > 0 THEN @ + 1 ELSE @]
             IN  IF Probes(q, c)
                   THEN Finish(r, [health EXCEPT !.modelCool[c] = ticks],
                               [q EXCEPT !.probed = @ \union {c[1]}])
                   ELSE Finish(r, RecordFailure(health, c[1], ticks), q)
    BY <1>1, <1>7, AmbiguousLimitKeeps
  <1>. QED  BY <1>3, <1>4, <1>5, <1>6, <1>7

(* The retry of the same model: the request stays where it is. *)
LEMMA RetryKeeps ==
  ASSUME MeshInv, NEW r \in MeshRequests, MeshRetry(r) \/ MeshResend(r)
  PROVE  /\ MeshInv' /\ UNCHANGED health
         /\ request[r].pc \in {"calling", "backoff"}
         /\ request'[r].pool = request[r].pool /\ request'[r].pos = request[r].pos
         /\ \A s \in MeshRequests \ {r} : request'[s] = request[s]
  <1>1. /\ request \in [MeshRequests -> CallType] /\ catalog \in Catalogs /\ health \in HealthType
        /\ slotQueue \in [Providers -> Seq(MeshRequests)] /\ QueuesHold
        /\ \A s \in MeshRequests : Walks(request[s])
    BY TypesAreMeshTypes DEF MeshInv
  <1>2. /\ request[r].pc \in {"calling", "backoff"} /\ UNCHANGED <<catalog, health, slotQueue>>
    BY DEF MeshRetry, MeshResend, Answering
  <1>3. PICK n : /\ n \in CallType /\ request' = [request EXCEPT ![r] = n]
                 /\ n.pc \in {"calling", "backoff"} /\ n.pool = request[r].pool
                 /\ n.pos = request[r].pos /\ n.limits = request[r].limits
                 /\ n.probed = request[r].probed
    <2>1. CASE MeshRetry(r)
      <3>1. PICK n : n = [request[r] EXCEPT !.pc = "backoff", !.retried = TRUE]
        OBVIOUS
      <3>2. request' = [request EXCEPT ![r] = n]
        BY <1>1, <2>1, <3>1 DEF MeshRetry, CallType
      <3>3. request[r] \in CallType
        BY <1>1
      <3>4. n \in CallType
        BY <3>1, <3>3 DEF CallType
      <3>5. /\ n.pc \in {"calling", "backoff"} /\ n.pool = request[r].pool
            /\ n.pos = request[r].pos /\ n.limits = request[r].limits
            /\ n.probed = request[r].probed
        BY <3>1, <3>3 DEF CallType
      <3>. QED  BY <3>2, <3>4, <3>5
    <2>2. CASE MeshResend(r)
      <3>1. PICK n : n = [request[r] EXCEPT !.pc = "calling"]
        OBVIOUS
      <3>2. request' = [request EXCEPT ![r] = n]
        BY <1>1, <2>2, <3>1 DEF MeshResend, CallType
      <3>3. request[r] \in CallType
        BY <1>1
      <3>4. n \in CallType
        BY <3>1, <3>3 DEF CallType
      <3>5. /\ n.pc \in {"calling", "backoff"} /\ n.pool = request[r].pool
            /\ n.pos = request[r].pos /\ n.limits = request[r].limits
            /\ n.probed = request[r].probed
        BY <3>1, <3>3 DEF CallType
      <3>. QED  BY <3>2, <3>4, <3>5
    <2>. QED  BY <2>1, <2>2
  <1>4. Walks(n)
    <2>1. Walks(request[r]) /\ request[r].pc \in InFlight
      BY <1>1, <1>2 DEF InFlight
    <2>. QED  BY <1>3, <2>1 DEF Walks, InFlight, Counted, PassedBy
  <1>5. /\ request'[r] = n /\ \A s \in MeshRequests \ {r} : request'[s] = request[s]
        /\ request' \in [MeshRequests -> CallType]
    BY <1>1, <1>3
  <1>6. MeshTypeOK'
    BY <1>1, <1>2, <1>5, NextTypes
  <1>7. \A s \in MeshRequests : Walks(request'[s])
    BY <1>1, <1>4, <1>5
  <1>8. QueuesHold'
    <2>1. ASSUME NEW p \in Providers, NEW i \in DOMAIN slotQueue[p]
          PROVE  WaitsFor(request'[slotQueue[p][i]], p)
      <3>1. slotQueue[p][i] \in MeshRequests /\ WaitsFor(request[slotQueue[p][i]], p)
        BY <1>1 DEF QueuesHold
      <3>2. slotQueue[p][i] # r
        BY <1>2, <3>1 DEF WaitsFor
      <3>. QED  BY <1>5, <3>1, <3>2
    <2>. QED  BY <1>1, <1>2, <2>1 DEF QueuesHold, WaitsFor, Here
  <1>. QED  BY <1>2, <1>3, <1>5, <1>6, <1>7, <1>8 DEF MeshInv

LEMMA TimeKeeps ==
  ASSUME MeshInv, MeshTick
  PROVE  MeshInv' /\ UNCHANGED request /\ health'.disabled = health.disabled
  <1>1. /\ request \in [MeshRequests -> CallType] /\ catalog \in Catalogs /\ health \in HealthType
        /\ slotQueue \in [Providers -> Seq(MeshRequests)] /\ QueuesHold
        /\ \A s \in MeshRequests : Walks(request[s])
    BY TypesAreMeshTypes DEF MeshInv
  <1>2. /\ UNCHANGED <<catalog, request, slotQueue>>
        /\ health' = [health EXCEPT !.cool = Elapse(@), !.quarantine = Elapse(@),
                                    !.modelCool = Elapse(@), !.modelDead = Elapse(@),
                                    !.recent = Elapse(@)]
    BY DEF MeshTick
  <1>3. /\ Elapse(health.cool) \in [Providers -> 0 .. MaxPenalty]
        /\ Elapse(health.quarantine) \in [Providers -> 0 .. QuarantineTicks]
        /\ Elapse(health.modelCool) \in [Known -> 0 .. MaxPenalty]
        /\ Elapse(health.modelDead) \in [Known -> 0 .. OutageWindow]
        /\ Elapse(health.recent) \in [Known -> 0 .. OutageWindow]
    <2>1. MaxPenalty \in Nat /\ QuarantineTicks \in Nat /\ OutageWindow \in Nat
      BY PenaltyBounds
    <2>2. /\ health.cool \in [Providers -> 0 .. MaxPenalty]
          /\ health.quarantine \in [Providers -> 0 .. QuarantineTicks]
          /\ health.modelCool \in [Known -> 0 .. MaxPenalty]
          /\ health.modelDead \in [Known -> 0 .. OutageWindow]
          /\ health.recent \in [Known -> 0 .. OutageWindow]
      BY <1>1 DEF HealthType
    <2>. QED  BY <2>1, <2>2, ElapseKeepsTypes
  <1>4. health' \in HealthType /\ health'.disabled = health.disabled
    BY <1>1, <1>2, <1>3 DEF HealthType
  <1>5. MeshTypeOK'
    BY <1>1, <1>2, <1>4, NextTypes
  <1>. QED  BY <1>1, <1>2, <1>4, <1>5 DEF MeshInv, QueuesHold, WaitsFor, Here

(* Every step keeps the invariant, and is of one of three kinds. *)
LEMMA MeshSteps ==
  ASSUME MeshInv, [MeshNext]_meshVars
  PROVE  /\ MeshInv'
         /\ \/ UNCHANGED request /\ health'.disabled = health.disabled
            \/ \E r \in MeshRequests :
                  /\ UNCHANGED health /\ request[r].pc \in {"calling", "backoff"}
                  /\ request'[r].pool = request[r].pool /\ request'[r].pos = request[r].pos
                  /\ \A s \in MeshRequests \ {r} : request'[s] = request[s]
            \/ \E r \in MeshRequests : Honours(r) /\ Enables(r)
  <1>1. CASE UNCHANGED meshVars
    <2>1. UNCHANGED <<catalog, health, request, slotQueue>>
      BY <1>1 DEF meshVars
    <2>2. MeshTypeOK'
      BY <2>1, NextTypes, TypesAreMeshTypes DEF MeshInv
    <2>. QED  BY <2>1, <2>2 DEF MeshInv, QueuesHold, WaitsFor, Here
  <1>2. CASE MeshTick
    BY <1>2, TimeKeeps
  <1>3. ASSUME NEW r \in MeshRequests, MeshRetry(r) \/ MeshResend(r)
        PROVE  /\ MeshInv'
               /\ UNCHANGED health /\ request[r].pc \in {"calling", "backoff"}
               /\ request'[r].pool = request[r].pool /\ request'[r].pos = request[r].pos
               /\ \A s \in MeshRequests \ {r} : request'[s] = request[s]
    BY <1>3, RetryKeeps
  <1>4. ASSUME NEW r \in MeshRequests, MeshAsk(r) \/ MeshRound(r), ~(MeshRetry(r) \/ MeshResend(r))
        PROVE  MeshInv' /\ Honours(r) /\ Enables(r)
    BY <1>4, MeshAskKeeps, SuccessKeeps, AuthFailsKeeps, ModelDeadKeeps, TransientFailureKeeps,
       LimitedKeeps DEF MeshRound
  <1>. QED  BY <1>1, <1>2, <1>3, <1>4 DEF MeshNext

LEMMA MeshInitially == MeshInit => MeshInv
  <1>. SUFFICES ASSUME MeshInit PROVE MeshInv
    OBVIOUS
  <1>1. health \in HealthType
    <2>1. 0 \in 0 .. MaxPenalty /\ 0 \in 0 .. QuarantineTicks /\ 0 \in 0 .. QuarantineAfter /\ 0 \in 0 .. OutageWindow
      BY PenaltyBounds
    <2>. QED  BY <2>1 DEF MeshInit, HealthType
  <1>2. /\ request = [r \in MeshRequests |-> NoRequest] /\ catalog \in Catalogs
        /\ slotQueue = [p \in Providers |-> <<>>]
    BY DEF MeshInit
  <1>3. request \in [MeshRequests -> CallType]
    BY <1>2, FirstRequestHasItsType
  <1>4. slotQueue \in [Providers -> Seq(MeshRequests)]
    BY <1>2
  <1>5. MeshTypeOK
    BY <1>1, <1>2, <1>3, <1>4, TypesAreMeshTypes
  <1>6. Walks(NoRequest)
    BY FirstRequestHasItsType DEF Walks, InFlight
  <1>7. QueuesHold
    BY <1>2 DEF QueuesHold
  <1>. QED  BY <1>2, <1>5, <1>6, <1>7 DEF MeshInv

(* The invariant of every reachable state. *)
THEOREM MeshInvariant == MeshSpec => []MeshInv
  <1>1. MeshInv /\ [MeshNext]_meshVars => MeshInv'
    BY MeshSteps
  <1>. QED  BY <1>1, MeshInitially, PTL DEF MeshSpec

-----------------------------------------------------------------------------
(* The mesh keeps its state within its types. *)
THEOREM MeshTypeCorrect == MeshSpec => []MeshTypeOK
  <1>1. MeshInv => MeshTypeOK
    BY DEF MeshInv
  <1>. QED  BY <1>1, MeshInvariant, PTL

(* An ambiguous limit burns at most two candidates of a provider, for any pools, *)
(* any number of concurrent requests and whatever they learn of its health.      *)
THEOREM LimitsBurnTwo == MeshSpec => []AmbiguousLimitsBurnTwoCandidates
  <1>1. MeshInv => AmbiguousLimitsBurnTwoCandidates
    BY DEF MeshInv, Walks, AmbiguousLimitsBurnTwoCandidates
  <1>. QED  BY <1>1, MeshInvariant, PTL

(* A provider that is down is contacted only by who waited for its slot, and one   *)
(* whose key was rejected stays out once its calls have ended.                     *)
THEOREM DownStaysOut == MeshSpec => DownProvidersStayOut
  <1>. DEFINE Contact(r) ==
                (/\ request'[r].pc = "calling"
                 /\ \/ request[r].pc \in {"idle", "queued"} \/ request'[r].pos # request[r].pos
                 /\ ~Available(health', Here(request'[r])[1])) => request[r].pc = "queued"
  <1>1. ASSUME MeshInv, [MeshNext]_meshVars, NEW s \in MeshRequests  PROVE Contact(s)
    <2>1. CASE UNCHANGED request
      BY <2>1
    <2>2. ASSUME NEW r \in MeshRequests, request[r].pc \in {"calling", "backoff"},
                 request'[r].pos = request[r].pos,
                 \A x \in MeshRequests \ {r} : request'[x] = request[x]
          PROVE  Contact(s)
      BY <1>1, <2>2
    <2>3. ASSUME NEW r \in MeshRequests, Honours(r)  PROVE Contact(s)
      <3>1. CASE s = r
        BY <2>3, <3>1 DEF Honours
      <3>2. CASE s # r /\ request'[s] = request[s]
        BY <3>2
      <3>3. CASE request[s].pc = "queued"
        BY <3>3
      <3>. QED  BY <1>1, <2>3, <3>1, <3>2, <3>3 DEF Honours
    <2>. HIDE DEF Contact
    <2>. QED  BY <1>1, <2>1, <2>2, <2>3, MeshSteps
  <1>2. ASSUME MeshInv, [MeshNext]_meshVars, NEW p \in Providers, Retired(p)  PROVE Retired(p)'
    <2>. DEFINE Away(q) == q.pc \in {"idle", "ended"} \/ Here(q)[1] # p
    <2>1. p \in health.disabled /\ \A s \in MeshRequests : Away(request[s])
      BY <1>2 DEF Retired
    <2>2. \A s \in MeshRequests : request[s] \in CallType
      BY <1>2, TypesAreMeshTypes DEF MeshInv
    <2>3. CASE UNCHANGED request /\ health'.disabled = health.disabled
      BY <2>1, <2>3 DEF Retired, Here
    <2>4. ASSUME NEW r \in MeshRequests, UNCHANGED health, request[r].pc \in {"calling", "backoff"},
                 request'[r].pool = request[r].pool, request'[r].pos = request[r].pos,
                 \A s \in MeshRequests \ {r} : request'[s] = request[s]
          PROVE  Retired(p)'
      <3>1. Away(request'[r])
        BY <2>1, <2>4 DEF Here
      <3>2. \A s \in MeshRequests : Away(request'[s])
        BY <2>1, <2>4, <3>1
      <3>. QED  BY <2>1, <2>4, <3>2 DEF Retired, Here
    <2>5. ASSUME NEW r \in MeshRequests, Honours(r), Enables(r)  PROVE Retired(p)'
      <3>1. p \in health'.disabled
        BY <2>1, <2>5 DEF Enables
      <3>2. Away(request'[r])
        BY <2>5, <3>1 DEF Honours, Available
      <3>3. ASSUME NEW s \in MeshRequests \ {r}  PROVE Away(request'[s])
        <4>1. CASE request'[s] = request[s]
          BY <2>1, <3>3, <4>1
        <4>2. CASE /\ request[s].pc = "queued"
                   /\ request'[s] = [request[s] EXCEPT !.pc = "calling"]
          <5>1. request'[s].pool = request[s].pool /\ request'[s].pos = request[s].pos
            BY <2>2, <3>3, <4>2 DEF CallType
          <5>2. Here(request[s])[1] # p
            BY <2>1, <3>3, <4>2
          <5>. QED  BY <5>1, <5>2 DEF Here
        <4>. QED  BY <2>5, <3>3, <4>1, <4>2 DEF Honours
      <3>4. \A s \in MeshRequests : Away(request'[s])
        BY <3>2, <3>3
      <3>. QED  BY <3>1, <3>4 DEF Retired, Here
    <2>. QED  BY <1>2, <2>3, <2>4, <2>5, MeshSteps
  <1>3. MeshInv /\ [MeshNext]_meshVars => [\A r \in MeshRequests : Contact(r)]_meshVars
    BY <1>1
  <1>4. MeshInv /\ [MeshNext]_meshVars => [\A p \in Providers : Retired(p) => Retired(p)']_meshVars
    BY <1>2
  <1>5. MeshSpec => DownProvidersAreContactedOnlyFromTheQueue
    BY <1>3, MeshInvariant, PTL DEF MeshSpec, DownProvidersAreContactedOnlyFromTheQueue
  <1>6. MeshSpec => DisabledStaysOut
    BY <1>4, MeshInvariant, PTL DEF MeshSpec, DisabledStaysOut
  <1>. QED  BY <1>5, <1>6 DEF DownProvidersStayOut

-----------------------------------------------------------------------------
(* The rotation.  What is still to be tried has not failed: a candidate in line is  *)
(* not failed and not the one under way, whose credentials in line are not rejected; *)
(* and a pin of a candidate in line is not rejected, though the lists do not look.    *)

PlanType ==
    [phase: {"idle", "unit", "choosing", "calling", "done", "failed"},
     chunk: 1 .. MaxChunks, todo: SUBSET RotCandidates,
     keys: SUBSET (RotKeys \union {NoCredential}), at: RotCandidates,
     tried: SUBSET RotPairs, spent: BOOLEAN, pinned: RotPairs \union {NoPin},
     failedCandidates: SUBSET RotCandidates, failedKeys: SUBSET RotPairs]

UnfailedPin(q) == q.pinned[1] \notin q.failedCandidates /\ q.pinned \notin q.failedKeys
InLine(q) ==
    /\ q.phase = "calling" => q.keys # {}
    /\ q.keys # {} =>
          /\ q.phase \in {"choosing", "calling"}
          /\ q.at \notin q.failedCandidates /\ q.at \notin q.todo
    /\ \A k \in q.keys :
          /\ <<q.at, k>> \notin q.failedKeys
          /\ k = NoCredential \/ k \in Configured(RotProvider[q.at])
    /\ \A c \in q.todo : c \notin q.failedCandidates /\ (PinsCandidate(q, c) => q.pinned \notin q.failedKeys)
    /\ q.phase = "unit" /\ q.pinned # NoPin => UnfailedPin(q)
    /\ \A pair \in q.failedKeys : pair[2] # NoCredential

RotInv == RotTypeOK /\ InLine(plan)

LEMMA ConfiguredAreKeys ==
  ASSUME NEW c \in RotCandidates
  PROVE  Configured(RotProvider[c]) \subseteq RotKeys /\ NoCredential \notin RotKeys
         /\ RotProvider[c] \in DOMAIN RotPool /\ RotPool[RotProvider[c]] \in Seq(RotKeys)
  <1>1. RotProvider[c] \in DOMAIN RotPool /\ NoCredential \notin RotKeys
    BY RotAssumption
  <1>2. RotPool[RotProvider[c]] \in Seq(RotKeys)
    BY <1>1, RotAssumption
  <1>. QED  BY <1>1, <1>2 DEF Configured

LEMMA FirstIsInTheSet ==
  ASSUME NEW V, NEW order \in Seq(V), NEW S, NEW x \in S, \E i \in DOMAIN order : order[i] = x
  PROVE  FirstOf(order, S) \in S
  <1>. DEFINE places == {i \in DOMAIN order : order[i] \in S}
  <1>1. places \subseteq Nat /\ places # {}
    OBVIOUS
  <1>2. \E i \in places : \A j \in places : i <= j
    <2>. HIDE DEF places
    <2>. QED  BY <1>1, LeastOf
  <1>3. (CHOOSE i \in places : \A j \in places : i <= j) \in places
    BY <1>2
  <1>. QED  BY <1>3 DEF FirstOf

LEMMA NextIsInLine ==
  ASSUME NEW q \in PlanType, q.todo # {}
  PROVE  NextCandidate(q) \in q.todo
  <1>1. CASE \E c \in q.todo : PinsCandidate(q, c)
    BY <1>1 DEF NextCandidate, PinsCandidate
  <1>2. CASE ~\E c \in q.todo : PinsCandidate(q, c)
    <2>1. PICK x \in q.todo : x \in RotCandidates
      BY DEF PlanType
    <2>2. RotOrder \in Seq(RotCandidates)
      BY RotAssumption
    <2>3. \E i \in DOMAIN RotOrder : RotOrder[i] = x
      BY <2>1, <2>2 DEF RotCandidates
    <2>4. FirstOf(RotOrder, q.todo) \in q.todo
      BY <2>1, <2>2, <2>3, FirstIsInTheSet
    <2>. QED  BY <1>2, <2>4 DEF NextCandidate
  <1>. QED  BY <1>1, <1>2

LEMMA TurnIsInLine ==
  ASSUME NEW q \in PlanType, InLine(q), q.keys # {}
  PROVE  /\ KeyInTurn(q) \in q.keys /\ KeyInTurn(q) \in RotKeys \union {NoCredential}
         /\ <<q.at, KeyInTurn(q)>> \in RotPairs /\ q.at \in RotCandidates
         /\ <<q.at, KeyInTurn(q)>> \notin q.failedKeys
  <1>1. q.at \in RotCandidates /\ q.keys \subseteq RotKeys \union {NoCredential}
    BY DEF PlanType
  <1>2. KeyInTurn(q) \in q.keys
    <2>1. CASE \E k \in q.keys : PinsKey(q, q.at, k)
      BY <2>1 DEF KeyInTurn, PinsKey
    <2>2. CASE (~\E k \in q.keys : PinsKey(q, q.at, k)) /\ NoCredential \in q.keys
      BY <2>2 DEF KeyInTurn
    <2>3. CASE (~\E k \in q.keys : PinsKey(q, q.at, k)) /\ NoCredential \notin q.keys
      <3>. DEFINE pool == RotPool[RotProvider[q.at]]
      <3>1. PICK x : x \in q.keys
        OBVIOUS
      <3>2. x \in Configured(RotProvider[q.at])
        BY <2>3, <3>1 DEF InLine
      <3>3. pool \in Seq(RotKeys)
        BY <1>1, ConfiguredAreKeys
      <3>4. \E i \in DOMAIN pool : pool[i] = x
        BY <3>2 DEF Configured
      <3>. HIDE DEF pool
      <3>5. FirstOf(pool, q.keys) \in q.keys
        BY <3>1, <3>3, <3>4, FirstIsInTheSet
      <3>. QED  BY <2>3, <3>5 DEF KeyInTurn, pool
    <2>. QED  BY <2>1, <2>2, <2>3
  <1>. QED  BY <1>1, <1>2 DEF InLine, RotPairs

LEMMA NewPlansAreInLine ==
  /\ NewPlan \in PlanType /\ InLine(NewPlan)
  /\ NewPlan.todo = {} /\ NewPlan.keys = {} /\ NewPlan.pinned = NoPin /\ NewPlan.failedKeys = {}
  <1>1. RotOrder[1] \in RotCandidates /\ 1 \in 1 .. MaxChunks
    BY RotAssumption DEF RotCandidates
  <1>2. NewPlan \in PlanType
    BY <1>1 DEF NewPlan, PlanType
  <1>. QED  BY <1>2 DEF NewPlan, InLine

LEMMA PlansOfPhases ==
  ASSUME NEW phase \in {"unit", "done", "failed"}
  PROVE  [NewPlan EXCEPT !.phase = phase] \in PlanType /\ InLine([NewPlan EXCEPT !.phase = phase])
  <1>. DEFINE q == [NewPlan EXCEPT !.phase = phase]
  <1>1. q \in PlanType
    BY NewPlansAreInLine DEF PlanType
  <1>2. /\ q.phase = phase /\ q.keys = {} /\ q.todo = {} /\ q.pinned = NoPin /\ q.failedKeys = {}
    BY NewPlansAreInLine DEF PlanType
  <1>. HIDE DEF q
  <1>3. InLine(q)
    BY <1>2 DEF InLine
  <1>. QED  BY <1>1, <1>3 DEF q

LEMMA PlanSteps ==
  ASSUME NEW q \in PlanType, InLine(q), plan' = q,
         restingCandidates' \subseteq RotCandidates, restingKeys' \subseteq RotKeys
  PROVE  RotInv'
  <1>1. RotTypeOK'
    BY DEF RotTypeOK, PlanType
  <1>2. InLine(plan)'
    BY DEF InLine, UnfailedPin, PinsCandidate
  <1>. QED  BY <1>1, <1>2 DEF RotInv

LEMMA PlanEnds ==
  ASSUME NEW phase \in {"unit", "done", "failed"}, plan' = [NewPlan EXCEPT !.phase = phase],
         restingCandidates' \subseteq RotCandidates, restingKeys' \subseteq RotKeys
  PROVE  RotInv'
  BY PlansOfPhases, PlanSteps

LEMMA UnitInv ==
  ASSUME RotInv, RotUnit
  PROVE  RotInv'
  <1>. DEFINE q == [plan EXCEPT !.phase = "choosing", !.todo = PlanOrder]
  <1>1. plan \in PlanType /\ InLine(plan) /\ plan.phase = "unit"
    BY DEF RotInv, RotTypeOK, PlanType, RotUnit
  <1>2. PlanOrder \subseteq RotCandidates
    BY DEF PlanOrder
  <1>3. PICK order : order = PlanOrder
    OBVIOUS
  <1>4. q \in PlanType
    BY <1>1, <1>2, <1>3 DEF PlanType
  <1>5. /\ q.phase = "choosing" /\ q.todo = order /\ q.keys = plan.keys /\ q.pinned = plan.pinned
        /\ q.failedCandidates = plan.failedCandidates /\ q.failedKeys = plan.failedKeys /\ q.at = plan.at
    BY <1>1, <1>3 DEF PlanType
  <1>. HIDE DEF q
  <1>6. plan.keys = {}
    BY <1>1 DEF InLine
  <1>7. \A c \in order : c \notin plan.failedCandidates
                         /\ (PinsCandidate(plan, c) => plan.pinned \notin plan.failedKeys)
    BY <1>1, <1>3 DEF PlanOrder, PinsCandidate, InLine, UnfailedPin
  <1>8. InLine(q)
    BY <1>1, <1>5, <1>6, <1>7 DEF InLine, PinsCandidate
  <1>9. plan' = q /\ restingCandidates' \subseteq RotCandidates /\ restingKeys' \subseteq RotKeys
    BY DEF q, RotUnit, RotInv, RotTypeOK
  <1>. QED  BY <1>4, <1>8, <1>9, PlanSteps

LEMMA EntriesMayBeTried ==
  ASSUME RotInv, NEW c \in plan.todo, NEW k \in Entries(c)
  PROVE  /\ k = NoCredential \/ k \in Configured(RotProvider[c])
         /\ <<c, k>> \notin plan.failedKeys
  <1>1. plan \in PlanType /\ InLine(plan)
    BY DEF RotInv, RotTypeOK, PlanType
  <1>2. k = NoCredential \/ (k \in Configured(RotProvider[c]) /\ (PinsKey(plan, c, k) \/ <<c, k>> \notin plan.failedKeys))
    BY DEF Entries, RotationFor
  <1>3. CASE k = NoCredential
    BY <1>1, <1>3 DEF InLine
  <1>4. CASE PinsKey(plan, c, k)
    <2>1. plan.pinned \in RotPairs /\ plan.pinned[1] = c /\ plan.pinned[2] = k
      BY <1>1, <1>4 DEF PlanType, PinsKey, PinsCandidate
    <2>2. plan.pinned = <<c, k>>
      BY <2>1 DEF RotPairs
    <2>3. plan.pinned \notin plan.failedKeys
      BY <1>1, <1>4 DEF InLine, PinsKey
    <2>. QED  BY <1>2, <1>3, <2>2, <2>3
  <1>. QED  BY <1>2, <1>3, <1>4

LEMMA CandidateInv ==
  ASSUME RotInv, RotCandidate
  PROVE  RotInv'
  <1>1. /\ plan \in PlanType /\ InLine(plan) /\ plan.phase = "choosing" /\ plan.keys = {}
        /\ restingCandidates' \subseteq RotCandidates /\ restingKeys' \subseteq RotKeys
    BY DEF RotInv, RotTypeOK, PlanType, RotCandidate
  <1>2. PICK c : c = NextCandidate(plan)
    OBVIOUS
  <1>3. CASE plan' = EndedPlan("failed")
    BY <1>1, <1>3, PlanEnds DEF EndedPlan
  <1>4. CASE plan.todo # {} /\ plan' = [plan EXCEPT !.todo = @ \ {c}]
    <2>. DEFINE q == [plan EXCEPT !.todo = @ \ {c}]
    <2>1. q \in PlanType
      BY <1>1 DEF PlanType
    <2>2. /\ q.phase = "choosing" /\ q.todo = plan.todo \ {c} /\ q.keys = {} /\ q.pinned = plan.pinned
          /\ q.failedCandidates = plan.failedCandidates /\ q.failedKeys = plan.failedKeys
      BY <1>1 DEF PlanType
    <2>3. plan' = q
      BY <1>4
    <2>. HIDE DEF q
    <2>4. InLine(q)
      BY <1>1, <2>2 DEF InLine, PinsCandidate
    <2>. QED  BY <1>1, <2>1, <2>3, <2>4, PlanSteps
  <1>5. CASE plan.todo # {} /\ plan' = [plan EXCEPT !.at = c, !.todo = @ \ {c}, !.keys = Entries(c)]
    <2>1. c \in plan.todo /\ c \in RotCandidates /\ c \notin plan.failedCandidates
      BY <1>1, <1>2, <1>5, NextIsInLine DEF PlanType, InLine
    <2>2. PICK keys : keys = Entries(c)
      OBVIOUS
    <2>3. \A k \in keys : /\ k = NoCredential \/ k \in Configured(RotProvider[c])
                          /\ <<c, k>> \notin plan.failedKeys
      BY <2>1, <2>2, EntriesMayBeTried
    <2>4. keys \subseteq RotKeys \union {NoCredential}
      BY <2>1, <2>3, ConfiguredAreKeys
    <2>. DEFINE q == [plan EXCEPT !.at = c, !.todo = @ \ {c}, !.keys = keys]
    <2>5. q \in PlanType
      BY <1>1, <2>1, <2>4 DEF PlanType
    <2>6. /\ q.phase = "choosing" /\ q.todo = plan.todo \ {c} /\ q.keys = keys /\ q.pinned = plan.pinned
          /\ q.failedCandidates = plan.failedCandidates /\ q.failedKeys = plan.failedKeys /\ q.at = c
      BY <1>1 DEF PlanType
    <2>7. plan' = q
      BY <1>5, <2>2
    <2>. HIDE DEF q
    <2>8. InLine(q)
      BY <1>1, <2>1, <2>3, <2>6 DEF InLine, PinsCandidate
    <2>. QED  BY <1>1, <2>5, <2>7, <2>8, PlanSteps
  <1>. QED  BY <1>2, <1>3, <1>4, <1>5 DEF RotCandidate, OutOfTurns

(* The steps of the loop over the credentials of a candidate, but for a failure. *)
LEMMA CredentialInv ==
  ASSUME RotInv, RotCredential
  PROVE  RotInv'
  <1>1. /\ plan \in PlanType /\ InLine(plan) /\ plan.phase = "choosing" /\ plan.keys # {}
        /\ restingCandidates' \subseteq RotCandidates /\ restingKeys' \subseteq RotKeys
    BY DEF RotInv, RotTypeOK, PlanType, RotCredential
  <1>2. PairInTurn \in RotPairs /\ NextKeys \subseteq plan.keys
    BY <1>1, TurnIsInLine DEF PairInTurn, NextKeys
  <1>3. PICK q : /\ plan' = q /\ q \in PlanType /\ q.keys \subseteq plan.keys
                 /\ q.phase \in {"choosing", "calling"} /\ (q.phase = "calling" => q.keys # {})
                 /\ q.todo = plan.todo /\ q.pinned = plan.pinned /\ q.at = plan.at
                 /\ q.failedCandidates = plan.failedCandidates /\ q.failedKeys = plan.failedKeys
    <2>1. ASSUME NEW keys \in SUBSET plan.keys, plan' = [plan EXCEPT !.keys = keys]
          PROVE  /\ plan' \in PlanType /\ plan'.keys \subseteq plan.keys
                 /\ plan'.phase \in {"choosing", "calling"} /\ (plan'.phase = "calling" => plan'.keys # {})
                 /\ plan'.todo = plan.todo /\ plan'.pinned = plan.pinned /\ plan'.at = plan.at
                 /\ plan'.failedCandidates = plan.failedCandidates /\ plan'.failedKeys = plan.failedKeys
      BY <1>1, <2>1 DEF PlanType
    <2>2. ASSUME NEW pair \in RotPairs, plan' = [plan EXCEPT !.phase = "calling", !.tried = @ \union {pair}]
          PROVE  /\ plan' \in PlanType /\ plan'.keys \subseteq plan.keys
                 /\ plan'.phase \in {"choosing", "calling"} /\ (plan'.phase = "calling" => plan'.keys # {})
                 /\ plan'.todo = plan.todo /\ plan'.pinned = plan.pinned /\ plan'.at = plan.at
                 /\ plan'.failedCandidates = plan.failedCandidates /\ plan'.failedKeys = plan.failedKeys
      BY <1>1, <2>2 DEF PlanType
    <2>3. \/ \E keys \in SUBSET plan.keys : plan' = [plan EXCEPT !.keys = keys]
          \/ \E pair \in RotPairs : plan' = [plan EXCEPT !.phase = "calling", !.tried = @ \union {pair}]
      BY <1>2 DEF RotCredential
    <2>. QED  BY <2>1, <2>2, <2>3
  <1>4. InLine(q)
    BY <1>1, <1>3 DEF InLine, PinsCandidate
  <1>. QED  BY <1>1, <1>3, <1>4, PlanSteps

LEMMA SuccessInv ==
  ASSUME RotInv, RotSuccess
  PROVE  RotInv'
  <1>1. /\ plan \in PlanType /\ InLine(plan) /\ plan.phase = "calling" /\ plan.keys # {}
        /\ restingCandidates' \subseteq RotCandidates /\ restingKeys' \subseteq RotKeys
    BY DEF RotInv, RotTypeOK, PlanType, RotSuccess, InLine
  <1>2. PICK pin : pin = Pin
    OBVIOUS
  <1>3. /\ pin \in RotPairs /\ pin \notin plan.failedKeys /\ pin[1] \notin plan.failedCandidates
    BY <1>1, <1>2, TurnIsInLine DEF Pin, PairInTurn, InLine
  <1>4. CASE plan' = EndedPlan("done") \/ plan' = EndedPlan("failed")
    BY <1>1, <1>4, PlanEnds DEF EndedPlan
  <1>5. CASE /\ plan.chunk < MaxChunks
             /\ plan' = [plan EXCEPT !.phase = "unit", !.pinned = pin, !.chunk = @ + 1,
                                     !.tried = {}, !.spent = FALSE, !.keys = {}, !.todo = {}]
    <2>. DEFINE q == [plan EXCEPT !.phase = "unit", !.pinned = pin, !.chunk = @ + 1,
                                  !.tried = {}, !.spent = FALSE, !.keys = {}, !.todo = {}]
    <2>1. plan.chunk + 1 \in 1 .. MaxChunks
      BY <1>1, <1>5, RotAssumption DEF PlanType
    <2>2. q \in PlanType
      BY <1>1, <1>3, <2>1 DEF PlanType
    <2>3. /\ q.phase = "unit" /\ q.pinned = pin /\ q.keys = {} /\ q.todo = {}
          /\ q.failedCandidates = plan.failedCandidates /\ q.failedKeys = plan.failedKeys
      BY <1>1 DEF PlanType
    <2>4. plan' = q
      BY <1>5
    <2>. HIDE DEF q
    <2>5. InLine(q)
      BY <1>1, <1>3, <2>3 DEF InLine, UnfailedPin
    <2>. QED  BY <1>1, <2>2, <2>4, <2>5, PlanSteps
  <1>. QED  BY <1>2, <1>4, <1>5 DEF RotSuccess

LEMMA KeyFailureInv ==
  ASSUME RotInv, NEW eligible \in BOOLEAN, RotKeyFailure(eligible)
  PROVE  RotInv'
  <1>1. /\ plan \in PlanType /\ InLine(plan) /\ plan.phase = "calling" /\ plan.keys # {}
        /\ KeyInTurn(plan) # NoCredential
    BY DEF RotInv, RotTypeOK, PlanType, RotKeyFailure, InLine
  <1>2. PICK key : key = KeyInTurn(plan)
    OBVIOUS
  <1>3. /\ key \in plan.keys /\ key \in RotKeys /\ <<plan.at, key>> \in RotPairs /\ plan.at \in RotCandidates
    BY <1>1, <1>2, TurnIsInLine
  <1>4. restingKeys' \subseteq RotKeys /\ restingCandidates' \subseteq RotCandidates
    BY <1>2, <1>3 DEF RotKeyFailure, RotInv, RotTypeOK
  <1>5. PICK spent \in BOOLEAN :
          \/ plan' = [plan EXCEPT !.phase = "choosing", !.keys = plan.keys \ {key}, !.spent = spent,
                                  !.failedKeys = plan.failedKeys \union {<<plan.at, key>>}]
          \/ plan' = [plan EXCEPT !.phase = "choosing", !.keys = {}, !.spent = spent,
                                  !.failedKeys = plan.failedKeys \union {<<plan.at, key>>},
                                  !.failedCandidates = @ \union {plan.at}]
          \/ plan' = EndedPlan("failed")
    BY <1>1, <1>2 DEF RotKeyFailure, NextKeys, RememberKey, PairInTurn, PlanType
  (* The pins of candidates in line are not of the candidate under way. *)
  <1>6. /\ plan.at \notin plan.todo /\ plan.at \notin plan.failedCandidates
        /\ \A c \in plan.todo : PinsCandidate(plan, c) => plan.pinned # <<plan.at, key>>
    BY <1>1 DEF InLine, PinsCandidate
  <1>7. CASE plan' = EndedPlan("failed")
    BY <1>4, <1>7, PlanEnds DEF EndedPlan
  <1>8. CASE plan' = [plan EXCEPT !.phase = "choosing", !.keys = plan.keys \ {key}, !.spent = spent,
                                  !.failedKeys = plan.failedKeys \union {<<plan.at, key>>}]
    <2>. DEFINE q == [plan EXCEPT !.phase = "choosing", !.keys = plan.keys \ {key}, !.spent = spent,
                                  !.failedKeys = plan.failedKeys \union {<<plan.at, key>>}]
    <2>1. q \in PlanType
      BY <1>1, <1>3 DEF PlanType
    <2>2. /\ q.phase = "choosing" /\ q.keys = plan.keys \ {key} /\ q.todo = plan.todo
          /\ q.pinned = plan.pinned /\ q.at = plan.at /\ q.failedCandidates = plan.failedCandidates
          /\ q.failedKeys = plan.failedKeys \union {<<plan.at, key>>}
      BY <1>1 DEF PlanType
    <2>3. plan' = q
      BY <1>8
    <2>. HIDE DEF q
    <2>4. InLine(q)
      BY <1>1, <1>2, <1>6, <2>2 DEF InLine, PinsCandidate
    <2>. QED  BY <1>4, <2>1, <2>3, <2>4, PlanSteps
  <1>9. CASE plan' = [plan EXCEPT !.phase = "choosing", !.keys = {}, !.spent = spent,
                                  !.failedKeys = plan.failedKeys \union {<<plan.at, key>>},
                                  !.failedCandidates = @ \union {plan.at}]
    <2>. DEFINE q == [plan EXCEPT !.phase = "choosing", !.keys = {}, !.spent = spent,
                                  !.failedKeys = plan.failedKeys \union {<<plan.at, key>>},
                                  !.failedCandidates = @ \union {plan.at}]
    <2>1. q \in PlanType
      BY <1>1, <1>3 DEF PlanType
    <2>2. /\ q.phase = "choosing" /\ q.keys = {} /\ q.todo = plan.todo
          /\ q.pinned = plan.pinned /\ q.failedCandidates = plan.failedCandidates \union {plan.at}
          /\ q.failedKeys = plan.failedKeys \union {<<plan.at, key>>}
      BY <1>1 DEF PlanType
    <2>3. plan' = q
      BY <1>9
    <2>. HIDE DEF q
    <2>4. InLine(q)
      BY <1>1, <1>2, <1>6, <2>2 DEF InLine, PinsCandidate
    <2>. QED  BY <1>4, <2>1, <2>3, <2>4, PlanSteps
  <1>. QED  BY <1>5, <1>7, <1>8, <1>9

LEMMA ProviderFailureInv ==
  ASSUME RotInv, RotProviderFailure
  PROVE  RotInv'
  <1>1. /\ plan \in PlanType /\ InLine(plan) /\ plan.phase = "calling" /\ plan.keys # {}
    BY DEF RotInv, RotTypeOK, PlanType, RotProviderFailure, InLine
  <1>2. PICK spent \in BOOLEAN : LeaveCandidate(spent)
    BY <1>1 DEF RotProviderFailure, PlanType
  <1>. DEFINE q == [plan EXCEPT !.phase = "choosing", !.keys = {}, !.spent = spent,
                                !.failedCandidates = @ \union {plan.at}]
  <1>3. q \in PlanType
    BY <1>1 DEF PlanType
  <1>4. /\ q.phase = "choosing" /\ q.keys = {} /\ q.todo = plan.todo
        /\ q.pinned = plan.pinned /\ q.failedCandidates = plan.failedCandidates \union {plan.at}
        /\ q.failedKeys = plan.failedKeys
    BY <1>1 DEF PlanType
  <1>5. plan' = q
    BY <1>2 DEF LeaveCandidate
  <1>6. restingKeys' \subseteq RotKeys /\ restingCandidates' \subseteq RotCandidates
    BY <1>1, <1>2 DEF LeaveCandidate, RotProviderFailure, RotInv, RotTypeOK, PlanType
  <1>. HIDE DEF q
  <1>7. InLine(q)
    BY <1>1, <1>4 DEF InLine, PinsCandidate
  <1>. QED  BY <1>3, <1>5, <1>6, <1>7, PlanSteps

LEMMA RotSteps == RotInv /\ [RotNext]_rotVars => RotInv'
  <1>. SUFFICES ASSUME RotInv, [RotNext]_rotVars PROVE RotInv'
    OBVIOUS
  <1>1. plan \in PlanType /\ InLine(plan) /\ restingKeys \subseteq RotKeys /\ restingCandidates \subseteq RotCandidates
    BY DEF RotInv, RotTypeOK, PlanType
  <1>2. ASSUME UNCHANGED plan, restingCandidates' \subseteq RotCandidates, restingKeys' \subseteq RotKeys
        PROVE  RotInv'
    <2>1. PICK q : q = plan
      OBVIOUS
    <2>. QED  BY <1>1, <1>2, <2>1, PlanSteps
  <1>3. CASE UNCHANGED rotVars
    BY <1>1, <1>2, <1>3 DEF rotVars
  <1>4. CASE RotElsewhere
    BY <1>1, <1>2, <1>4 DEF RotElsewhere
  <1>5. CASE RotOpen \/ RotFatal
    <2>1. plan' = [NewPlan EXCEPT !.phase = "unit"] \/ plan' = [NewPlan EXCEPT !.phase = "failed"]
      BY <1>5 DEF RotOpen, RotFatal, EndedPlan
    <2>2. restingCandidates' \subseteq RotCandidates /\ restingKeys' \subseteq RotKeys
      BY <1>1, <1>5 DEF RotOpen, RotFatal
    <2>. QED  BY <2>1, <2>2, PlanEnds
  <1>. QED  BY <1>3, <1>4, <1>5, UnitInv, CandidateInv, CredentialInv, SuccessInv, KeyFailureInv,
               ProviderFailureInv DEF RotNext, RotWork, RotAnswer

(* The invariant of every reachable state. *)
THEOREM RotInvariant == RotSpec => []RotInv
  <1>1. RotInit => RotInv
    BY NewPlansAreInLine DEF RotInit, RotInv, RotTypeOK, PlanType
  <1>. QED  BY <1>1, RotSteps, PTL DEF RotSpec

(* The rotation keeps its state within its types. *)
THEOREM RotTypeCorrect == RotSpec => []RotTypeOK
  <1>1. RotInv => RotTypeOK
    BY DEF RotInv
  <1>. QED  BY <1>1, RotInvariant, PTL

(* Nothing that failed is attempted again, whatever the order, the pools and the pins. *)
THEOREM FailedStayOut == RotSpec => []FailedPairsStayOut
  <1>1. ASSUME RotInv PROVE FailedPairsStayOut
    <2>1. plan \in PlanType /\ InLine(plan)
      BY <1>1 DEF RotInv, RotTypeOK, PlanType
    <2>2. ASSUME plan.phase = "calling"
          PROVE  plan.at \notin plan.failedCandidates /\ PairInTurn \notin plan.failedKeys
      <3>1. plan.keys # {}
        BY <2>1, <2>2 DEF InLine
      <3>2. <<plan.at, KeyInTurn(plan)>> \notin plan.failedKeys
        BY <2>1, <3>1, TurnIsInLine
      <3>. QED  BY <2>1, <3>1, <3>2 DEF InLine, PairInTurn
    <2>. QED  BY <2>2 DEF FailedPairsStayOut
  <1>. QED  BY <1>1, RotInvariant, PTL
==================================================================================
