----------------------------- MODULE MCComponents -----------------------------
(***************************************************************************)
(* The components that share no state with the scheduler, checked in one    *)
(* run: a behaviour chooses a component at its start ("focus") and moves     *)
(* that component alone, so the state space is the sum of theirs.  The       *)
(* others stay in one of their initial states.                               *)
(***************************************************************************)
EXTENDS ActionChain, CallbackGate, ProviderMesh, RuntimeRecovery,
        CredentialRotation, MessageArchive, GhostSeen

VARIABLE focus

-----------------------------------------------------------------------------
(* The instance of ActionChain: a condition with a question on its true branch *)
(* and a wait on both, against either store; generated arguments with a        *)
(* question before a wait; a chain whose contract fails; two generated actions *)
(* against the durable store.                                                  *)
Act(kind, branch, wait) == [kind |-> kind, branch |-> branch, wait |-> wait]
Branching == <<Act("tool", "both", 0), Act("condition", "both", 0),
               Act("question", "true", 0), Act("tool", "true", 1), Act("tool", "false", 1)>>
Plain == <<Act("tool", "both", 0), Act("question", "both", 0), Act("tool", "both", 1)>>
Early == <<Act("tool", "both", 1), Act("question", "both", 0)>>
Twice == <<Act("tool", "both", 0), Act("tool", "both", 0)>>
Chain(actions, generated, durable) ==
    [actions |-> actions, generated |-> generated, durable |-> durable]
MCChains == {Chain(Branching, FALSE, FALSE), Chain(Branching, FALSE, TRUE),
             Chain(Plain, TRUE, FALSE), Chain(Early, FALSE, FALSE), Chain(Twice, TRUE, TRUE)}

(* ProviderMesh: the active provider has its configured model and two others,  *)
(* or one model and a substitute provider with one.                            *)
Catalog(a, b) == [p \in {"a", "b"} |-> IF p = "a" THEN a ELSE b]
MCCatalogs == {Catalog(3, 0), Catalog(1, 1)}
MCSlots == [p \in {"a", "b"} |-> 1]

(* CredentialRotation: a pool of two credentials, one of a single credential,  *)
(* and a provider without any.                                                 *)
MCOrder == <<"c1", "c2", "c3">>
MCProvider == [c \in {"c1", "c2", "c3"} |-> CASE c = "c1" -> "p" [] c = "c2" -> "q" [] OTHER -> "r"]
MCPool == [p \in {"p", "q", "r"} |->
               CASE p = "p" -> <<"k1", "k2">> [] p = "q" -> <<"k3">> [] OTHER -> <<>>]
MCBuildable == {<<"c1", "k1">>, <<"c1", "k2">>, <<"c2", "k3">>}

(* MessageArchive: two rows, of yesterday and of today, in an archive that holds *)
(* three; before the migration of its tables, after it with the import still to  *)
(* be done or done long ago.                                                     *)
MCRow(m, at) == [msg |-> m, kind |-> "snapshot", ver |-> 0, n |-> m, at |-> at]
MCRows == {MCRow(1, -1), MCRow(2, 0)}
MCShards == [i \in 1 .. 3 |-> {row \in MCRows : row.n = 3 - i}]
NoShards == [i \in 1 .. 3 |-> {}]
Does(do, m, v) == [do |-> do, msg |-> m, ver |-> v]
Old == [tables |-> FALSE, db |-> [entries |-> {}, cfg |-> "none", shards |-> MCShards, doc |-> "own"]]
New == [tables |-> TRUE, db |-> [entries |-> MCRows, cfg |-> "own", shards |-> NoShards, doc |-> "none"]]
Migrated == [tables |-> TRUE, db |-> [entries |-> MCRows, cfg |-> "own+", shards |-> MCShards, doc |-> "own"]]
Migrating == [tables |-> TRUE, db |-> Old.db]
Fresh == [tables |-> TRUE, db |-> [entries |-> {}, cfg |-> "none", shards |-> NoShards, doc |-> "none"]]
Plot(store, jobs, failures, restarts) ==
    [tables |-> store.tables, db |-> store.db, rows |-> MCRows, jobs |-> jobs,
     bounds |-> [failures |-> failures, restarts |-> restarts]]
MCPlots == {
    Plot(Old, <<Does("snapshot", 3, 0), Does("sweep", 0, 0)>>, 1, 0),
    Plot(Old, <<Does("remove", 2, 0), Does("sweep", 0, 0)>>, 1, 0),
    Plot(Old, <<Does("edit", 1, 1), Does("remove", 2, 0)>>, 1, 1),
    Plot(Old, <<Does("edit", 1, 1), Does("edit", 1, 1)>>, 0, 1),
    Plot(Old, <<Does("snapshot", 3, 0), Does("deletion", 2, 0)>>, 0, 1),
    Plot(New, <<Does("edit", 2, 1), Does("edit", 2, 2)>>, 1, 1),
    Plot(New, <<Does("edit", 1, 1), Does("sweep", 0, 0)>>, 1, 1),
    Plot(New, <<Does("clear", 0, 0), Does("change", 0, 0)>>, 1, 1),
    Plot(Migrated, <<Does("deletion", 1, 0), Does("remove", 1, 0)>>, 1, 1),
    Plot(Migrating, <<Does("clear", 0, 0), Does("remove", 2, 0)>>, 1, 0),
    Plot(Migrating, <<Does("clear", 0, 0), Does("remove", 2, 0)>>, 0, 1),
    Plot(Migrating, <<Does("remove", 1, 0), Does("change", 0, 0)>>, 1, 0),
    Plot(Migrating, <<Does("remove", 1, 0), Does("change", 0, 0)>>, 0, 1),
    Plot(Migrating, <<Does("edit", 2, 1), Does("sweep", 0, 0)>>, 1, 0),
    [Plot(Fresh, <<Does("change", 0, 0), Does("change", 0, 0)>>, 1, 1) EXCEPT !.rows = {}]}

(* GhostSeen: two toggles over two chats with a failed call and a restart; a toggle *)
(* beside the clicks of two panels, one of them in the chat it reads; two chats.   *)
GhostBudget(ts, of, clicks, failures, restarts) ==
    [toggles |-> ts, chats |-> of, clicks |-> clicks, failures |-> failures, restarts |-> restarts]
MCGhostBudgets == {GhostBudget(Toggles, Sources, 0, 1, 1),
                   GhostBudget({"first"}, Sources \intersect PanelChats, 8, 0, 0),
                   GhostBudget({}, Sources, 6, 0, 0)}

-----------------------------------------------------------------------------
Components == {"chain", "gate", "mesh", "recovery", "rotation", "archive", "ghost"}

Init ==
    /\ focus \in Components
    /\ ChainInit /\ (focus # "chain" => chain = CHOOSE c \in Chains : TRUE)
    /\ GateInit
    /\ MeshInit /\ (focus # "mesh" => catalog = CHOOSE c \in Catalogs : TRUE)
    /\ SupInit /\ (focus # "recovery" => link.helper)
    /\ RotInit
    /\ ArchiveInit /\ (focus # "archive" => plot = CHOOSE p \in Plots : TRUE)
    /\ GhostInit /\ (focus # "ghost" => allowRow = {} /\ ghostBudget.failures = 1)

Next ==
    \/ /\ focus = "chain" /\ ChainNext
       /\ UNCHANGED <<focus, gateVars, meshVars, supVars, rotVars, archiveVars, ghostVars>>
    \/ /\ focus = "gate" /\ GateNext
       /\ UNCHANGED <<focus, chainVars, meshVars, supVars, rotVars, archiveVars, ghostVars>>
    \/ /\ focus = "mesh" /\ MeshNext
       /\ UNCHANGED <<focus, chainVars, gateVars, supVars, rotVars, archiveVars, ghostVars>>
    \/ /\ focus = "recovery" /\ SupNext
       /\ UNCHANGED <<focus, chainVars, gateVars, meshVars, rotVars, archiveVars, ghostVars>>
    \/ /\ focus = "rotation" /\ RotNext
       /\ UNCHANGED <<focus, chainVars, gateVars, meshVars, supVars, archiveVars, ghostVars>>
    \/ /\ focus = "archive" /\ ArchiveNext
       /\ UNCHANGED <<focus, chainVars, gateVars, meshVars, supVars, rotVars, ghostVars>>
    \/ /\ focus = "ghost" /\ GhostNext
       /\ UNCHANGED <<focus, chainVars, gateVars, meshVars, supVars, rotVars, archiveVars>>

vars == <<focus, chainVars, gateVars, meshVars, supVars, rotVars, archiveVars, ghostVars>>

(* Some progress, asked of the component in focus: the actions of its tasks     *)
(* together, of the supervisor's tasks each.                                    *)
Fairness ==
    /\ WF_chainVars(focus = "chain" /\ (ChainStep \/ ChainTick))
    /\ WF_gateVars(focus = "gate" /\ \E c \in ClickTasks : GateLoop(c))
    /\ WF_meshVars(focus = "mesh" /\ \E r \in MeshRequests : MeshRound(r))
    /\ WF_supVars(focus = "recovery" /\ SupLoopReturns)
    /\ WF_supVars(focus = "recovery" /\ SupCooled)
    /\ WF_supVars(focus = "recovery" /\ SupStop)
    /\ WF_supVars(focus = "recovery" /\ \E t \in Recoveries : SupHeartbeat(t))
    /\ \A t \in Recoveries : WF_supVars(focus = "recovery" /\ SupRound(t))
    /\ WF_rotVars(focus = "rotation" /\ RotWork)
    /\ WF_ghostVars(focus = "ghost" /\ GhostWork)

Spec == Init /\ [][Next]_vars
FairSpec == Spec /\ Fairness

-----------------------------------------------------------------------------
(* The component in focus keeps its state within its types. *)
ComponentsTypeOK ==
    CASE focus = "chain" -> ChainTypeOK
      [] focus = "gate" -> GateTypeOK
      [] focus = "mesh" -> MeshTypeOK
      [] focus = "recovery" -> SupTypeOK
      [] focus = "rotation" -> RotTypeOK
      [] focus = "archive" -> ArchiveTypeOK
      [] focus = "ghost" -> GhostTypeOK

(* Whatever a component has begun comes to its end: an occurrence to rest, every *)
(* click to its turn or its drop, every AI request through its candidates, a lost *)
(* connection to a recovery or a restart, a transcription through its             *)
(* credentials, a toggle or a reply of a panel to its answer.  (A task of the     *)
(* archive takes boundedly many steps.)                                           *)
SomethingRuns ==
    CASE focus = "chain" -> ChainBusy
      [] focus = "gate" -> \E c \in ClickTasks : ClickWaits(c)
      [] focus = "mesh" -> \E r \in MeshRequests : RequestRuns(r)
      [] focus = "recovery" -> ConnectionLost
      [] focus = "rotation" -> RotationRuns
      [] focus = "archive" -> FALSE
      [] focus = "ghost" -> GhostIsBusy
WhatBeginsEnds == SomethingRuns ~> ~SomethingRuns

===============================================================================
