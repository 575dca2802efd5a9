------------------------- MODULE PrivateMessageProofs -------------------------
(***************************************************************************)
(* Proofs about the two halves of the private-message service.  PolicyState,*)
(* for any number of changes and loads and any bounds on failures, refreshes*)
(* and restarts: type correctness, and that the settings the owner was told *)
(* are saved survive.  ReplyAllowance, for any number of handlers, any limit*)
(* and any intervals: type correctness, and that the allowance is kept.     *)
(*                                                                         *)
(* Then about ToolRounds, for any number of requests and any limits: no call *)
(* runs twice or is reported as pending after it ran, and an approval is     *)
(* spent once, in time, on the call it was stored for.                       *)
(***************************************************************************)
EXTENDS PolicyState, ReplyAllowance, ToolRounds, FiniteSetTheorems, TLAPS

-----------------------------------------------------------------------------
(* The inductive invariant.  While no loss is excused: one load runs at a time; *)
(* the row has what was saved; whoever writes extends the policy in force, and   *)
(* that policy is the stored one from the first load on, unless a write has       *)
(* landed whose answer is still under way; and a load that is yet to install       *)
(* what it read holds nothing older than the row, unless a change made it stale.   *)

LoadStates == [pc : {"none", "read", "legacy", "install", "import", "over"},
               doc : SUBSET Marks, legacy : BOOLEAN]
ChangeStates == [pc : {"new", "loading", "locking", "writing", "landed", "saved", "refused"},
                 load : 0 .. Loads, doc : SUBSET Marks]
Policies == [doc : SUBSET Marks, loaded : BOOLEAN, mutated : BOOLEAN, paused : BOOLEAN, load : 0 .. Loads]
Configs == [row : BOOLEAN, doc : SUBSET Marks, legacy : BOOLEAN]

PolicyShape ==
    /\ config \in Configs /\ policy \in Policies
    /\ lockedBy \in Changes \union {NoLoad}
    /\ \A c \in Changes : lockedBy = c <=> changes[c].pc \in {"writing", "landed"}
    /\ loads \in [1 .. Loads -> LoadStates]
    /\ changes \in [Changes -> ChangeStates]
    /\ ghosts \in SUBSET (SUBSET Marks)

LoadRuns(load) == load.pc \notin {"none", "over"}
NoneLanded(chs) == \A c \in Changes : chs[c].pc # "landed"
AsStored(cfg) == IF cfg.row THEN cfg.doc ELSE IF cfg.legacy THEN {Imported} ELSE {}

OneLoad(p, ls) == \A l \in 1 .. Loads : LoadRuns(ls[l]) => p.load = l
StoreKeeps(cfg, p, chs) ==
    /\ \A c \in Changes : chs[c].pc = "saved" => c \in cfg.doc
    /\ ~cfg.row => cfg.doc = {} /\ ~p.mutated
    /\ ~cfg.row /\ ~cfg.legacy => p.doc = {}
    /\ cfg.row /\ cfg.legacy => Imported \in cfg.doc
Extends(cfg, p, chs) ==
    \A c \in Changes :
        /\ chs[c].pc = "writing" => chs[c].doc = p.doc \union {c}
        /\ chs[c].pc = "landed" => cfg.row /\ cfg.doc = chs[c].doc /\ c \in cfg.doc
InSync(cfg, p, chs) ==
    /\ p.loaded \/ p.mutated \/ \E c \in Changes : chs[c].pc \in {"locking", "writing"}
    /\ NoneLanded(chs)
    => p.doc = AsStored(cfg)
ReadIsFresh(cfg, p, chs, load) ==
    /\ load.pc \in {"install", "import"} => p.loaded
    /\ load.pc = "import" => /\ load.doc = {Imported} /\ cfg.legacy
                             /\ cfg.row => \E c \in Changes : chs[c].pc \in {"landed", "saved"}
    /\ ~p.mutated /\ NoneLanded(chs) =>
          /\ load.pc = "legacy" => ~cfg.row
          /\ load.pc = "install" => /\ load.doc = AsStored(cfg)
                                    /\ cfg.row # load.legacy /\ (load.legacy => cfg.legacy)

Promises(cfg, p, chs, ls) ==
    /\ OneLoad(p, ls) /\ StoreKeeps(cfg, p, chs) /\ Extends(cfg, p, chs) /\ InSync(cfg, p, chs)
    /\ \A l \in 1 .. Loads : ReadIsFresh(cfg, p, chs, ls[l])

PolicyInv ==
    /\ PolicyShape
    /\ excuses = {} => Promises(config, policy, changes, loads)

-----------------------------------------------------------------------------
(* Loads that are started. *)

LEMMA NextLoadIsFresh ==
  ASSUME Fresh # {}
  PROVE  NextLoad \in Fresh
  BY DEF NextLoad

\* Whoever needs the stored policy starts a load, unless one is under way.
LEMMA EnsureStartsALoad ==
  ASSUME PolicyShape, NEW p \in Policies, Ensure(p)
  PROVE  /\ policy' \in Policies
         /\ policy'.doc = p.doc /\ policy'.loaded = p.loaded /\ policy'.mutated = p.mutated
         /\ loads' \in [1 .. Loads -> LoadStates]
         /\ \A l \in 1 .. Loads : loads'[l] = loads[l] \/ loads'[l].pc = "read"
         /\ OneLoad(p, loads) => OneLoad(policy', loads')
  <1>1. CASE NoLoadNeeded(p) \/ Shared(p)
    BY <1>1 DEF Ensure, PolicyShape
  <1>2. CASE ~(NoLoadNeeded(p) \/ Shared(p))
    <2>1. /\ policy' = [p EXCEPT !.load = NextLoad]
          /\ loads' = [loads EXCEPT ![NextLoad].pc = "read"]
      BY <1>2 DEF Ensure
    <2>2. NextLoad \in 1 .. Loads
      BY <1>2, NextLoadIsFresh DEF Ensure, Fresh
    <2>3. policy' \in Policies /\ policy'.load = NextLoad
          /\ policy'.doc = p.doc /\ policy'.loaded = p.loaded /\ policy'.mutated = p.mutated
      BY <2>1, <2>2, PolicyAssumption DEF Policies
    <2>4. loads[NextLoad] \in LoadStates
      BY <2>2 DEF PolicyShape
    <2>5. [loads[NextLoad] EXCEPT !.pc = "read"] \in LoadStates
          /\ [loads[NextLoad] EXCEPT !.pc = "read"].pc = "read"
      BY <2>4 DEF LoadStates
    <2>6. loads' = [loads EXCEPT ![NextLoad] = [loads[NextLoad] EXCEPT !.pc = "read"]]
      BY <2>1
    <2>7. /\ loads' \in [1 .. Loads -> LoadStates]
          /\ loads'[NextLoad].pc = "read"
          /\ \A l \in 1 .. Loads : l # NextLoad => loads'[l] = loads[l]
      BY <2>2, <2>5, <2>6 DEF PolicyShape
    <2>8. OneLoad(p, loads) => \A l \in 1 .. Loads : ~LoadRuns(loads[l])
      BY <1>2, PolicyAssumption DEF OneLoad, Shared, Busy, LoadRuns, NoLoad
    <2>. QED  BY <2>3, <2>7, <2>8 DEF OneLoad
  <1>. QED  BY <1>1, <1>2

-----------------------------------------------------------------------------
(* What a load and a change become in a step. *)

LoadBecomes(l, q) == q \in LoadStates /\ loads' = [loads EXCEPT ![l] = q]
ChangeBecomes(c, q) == q \in ChangeStates /\ changes' = [changes EXCEPT ![c] = q]
OverLoad == [IdleLoad EXCEPT !.pc = "over"]
ReadLoad(pc, doc, legacy) == [pc |-> pc, doc |-> doc, legacy |-> legacy]

\* The policy takes over what was read, unless a change made it stale.
TakesOver(p, q, doc, legacy) ==
    \/ p.mutated /\ policy'.doc = p.doc /\ q = OverLoad
    \/ /\ ~p.mutated /\ policy'.doc = doc
       /\ q = IF legacy THEN ReadLoad("import", doc, TRUE) ELSE OverLoad

LEMMA OverIsALoad == OverLoad \in LoadStates /\ OverLoad.pc = "over"
  BY DEF OverLoad, IdleLoad, LoadStates

LEMMA InstallTakesOver ==
  ASSUME NEW l \in 1 .. Loads, NEW p \in Policies, p.mutated = policy.mutated,
         NEW doc \in SUBSET Marks, NEW legacy \in BOOLEAN,
         Install(l, p, doc, legacy)
  PROVE  /\ policy' \in Policies
         /\ policy'.loaded = p.loaded /\ policy'.mutated = p.mutated /\ policy'.load = p.load
         /\ \E q : LoadBecomes(l, q) /\ TakesOver(p, q, doc, legacy)
  <1>1. CASE policy.mutated
    <2>1. policy' = p /\ loads' = [loads EXCEPT ![l] = OverLoad]
      BY <1>1 DEF Install, LoadIsStale, LoadEnds, OverLoad
    <2>. QED  BY <1>1, <2>1, OverIsALoad DEF LoadBecomes, TakesOver
  <1>2. CASE ~policy.mutated
    <2>1. policy' = [p EXCEPT !.doc = doc]
      BY <1>2 DEF Install, LoadIsStale
    <2>2. /\ policy' \in Policies /\ policy'.doc = doc
          /\ policy'.loaded = p.loaded /\ policy'.mutated = p.mutated /\ policy'.load = p.load
      BY <2>1 DEF Policies
    <2> DEFINE q == IF legacy THEN ReadLoad("import", doc, TRUE) ELSE OverLoad
    <2>3. q \in LoadStates
      BY OverIsALoad DEF ReadLoad, LoadStates
    <2>4. loads' = [loads EXCEPT ![l] = q]
      BY <1>2 DEF Install, LoadIsStale, LoadEnds, OverLoad, ReadLoad
    <2>5. LoadBecomes(l, q)
      BY <2>3, <2>4 DEF LoadBecomes
    <2>6. TakesOver(p, q, doc, legacy)
      BY <1>2, <2>2 DEF TakesOver
    <2>. QED  BY <2>2, <2>5, <2>6
  <1>. QED  BY <1>1, <1>2

\* What was read is installed at once, or when the lock is free.
LEMMA GotIsInstalled ==
  ASSUME PolicyShape, NEW l \in 1 .. Loads, NEW doc \in SUBSET Marks, NEW legacy \in BOOLEAN,
         LoadGot(l, doc, legacy)
  PROVE  /\ policy' \in Policies
         /\ policy'.loaded /\ policy'.mutated = policy.mutated /\ policy'.load = policy.load
         /\ \E q : /\ LoadBecomes(l, q)
                   /\ \/ LockFree /\ TakesOver(policy, q, doc, legacy)
                      \/ /\ ~LockFree /\ policy'.doc = policy.doc
                         /\ q = ReadLoad("install", doc, legacy)
  <1>1. /\ Loaded \in Policies /\ Loaded.loaded /\ Loaded.doc = policy.doc
        /\ Loaded.mutated = policy.mutated /\ Loaded.load = policy.load
    BY DEF PolicyShape, Policies, Loaded
  <1>2. CASE LockFree
    <2>1. Install(l, Loaded, doc, legacy)
      BY <1>2 DEF LoadGot
    <2>2. /\ policy' \in Policies
          /\ policy'.loaded = Loaded.loaded /\ policy'.mutated = Loaded.mutated /\ policy'.load = Loaded.load
          /\ \E q : LoadBecomes(l, q) /\ TakesOver(Loaded, q, doc, legacy)
      BY <1>1, <2>1, InstallTakesOver
    <2>3. \A q : TakesOver(Loaded, q, doc, legacy) => TakesOver(policy, q, doc, legacy)
      BY <1>1 DEF TakesOver
    <2>. QED  BY <1>1, <1>2, <2>2, <2>3
  <1>3. CASE ~LockFree
    <2>1. policy' = Loaded /\ loads' = [loads EXCEPT ![l] = ReadLoad("install", doc, legacy)]
      BY <1>3 DEF LoadGot, ReadLoad
    <2>2. ReadLoad("install", doc, legacy) \in LoadStates
      BY DEF ReadLoad, LoadStates
    <2>3. LoadBecomes(l, ReadLoad("install", doc, legacy))
      BY <2>1, <2>2 DEF LoadBecomes
    <2>. QED  BY <1>1, <1>3, <2>1, <2>3
  <1>. QED  BY <1>2, <1>3

LEMMA RefusedIsAChange ==
  [IdleChange EXCEPT !.pc = "refused"] \in ChangeStates /\ [IdleChange EXCEPT !.pc = "refused"].pc = "refused"
  BY PolicyAssumption DEF IdleChange, ChangeStates, NoLoad

LEMMA RefusedChange ==
  ASSUME NEW c, Refused(c)
  PROVE  \E q : ChangeBecomes(c, q) /\ q.pc = "refused"
  BY RefusedIsAChange DEF Refused, ChangeBecomes

LEMMA LoadedChange ==
  ASSUME NEW c, WhenLoaded(c)
  PROVE  \E q : /\ ChangeBecomes(c, q) /\ q.pc \in {"locking", "refused"}
                /\ q.pc = "locking" => policy.loaded
  <1>1. /\ [IdleChange EXCEPT !.pc = "locking"] \in ChangeStates
        /\ [IdleChange EXCEPT !.pc = "locking"].pc = "locking"
    BY PolicyAssumption DEF IdleChange, ChangeStates, NoLoad
  <1>. QED  BY <1>1, RefusedChange DEF WhenLoaded, ChangeBecomes

\* A change that begins waits for a load, or for the lock, or is refused.
LEMMA BegunChange ==
  ASSUME PolicyShape, NEW c \in Changes, ChangeBegin(c)
  PROVE  \E q : /\ ChangeBecomes(c, q) /\ q.pc \in {"loading", "locking", "refused"}
                /\ q.pc = "locking" => policy.loaded
  <1>1. CASE Awaited(policy) = NoLoad
    BY <1>1, LoadedChange DEF ChangeBegin
  <1>2. CASE Awaited(policy) # NoLoad
    <2>1. Awaited(policy) \in 0 .. Loads
      BY NextLoadIsFresh, PolicyAssumption
      DEF ChangeBegin, Ensure, Awaited, PolicyShape, Policies, Fresh, NoLoad
    <2>2. changes[c] \in ChangeStates
      BY DEF PolicyShape
    <2> DEFINE q == [changes[c] EXCEPT !.pc = "loading", !.load = Awaited(policy)]
    <2>3. q \in ChangeStates /\ q.pc = "loading"
      BY <2>1, <2>2 DEF ChangeStates
    <2>4. changes' = [changes EXCEPT ![c] = q]
      BY <1>2 DEF ChangeBegin, PolicyShape
    <2>. QED  BY <2>3, <2>4 DEF ChangeBecomes
  <1>. QED  BY <1>1, <1>2

LEMMA OneLoadChanges ==
  ASSUME PolicyShape, NEW l \in 1 .. Loads, NEW q, LoadBecomes(l, q)
  PROVE  /\ q \in LoadStates /\ loads' \in [1 .. Loads -> LoadStates]
         /\ loads'[l] = q /\ \A k \in 1 .. Loads : k # l => loads'[k] = loads[k]
  BY DEF PolicyShape, LoadBecomes

Holds(pc) == pc \in {"writing", "landed"}
LEMMA OneChangeChanges ==
  ASSUME PolicyShape, NEW c \in Changes, NEW q, ChangeBecomes(c, q)
  PROVE  /\ q \in ChangeStates /\ changes' \in [Changes -> ChangeStates]
         /\ changes'[c] = q /\ \A d \in Changes : d # c => changes'[d] = changes[d]
  BY DEF PolicyShape, ChangeBecomes

\* The lock is held by the change that writes, and by no other.
LEMMA LockIsHeld ==
  ASSUME PolicyShape, NEW c \in Changes, NEW q, ChangeBecomes(c, q),
         \/ lockedBy' = lockedBy /\ (Holds(changes[c].pc) <=> Holds(q.pc))
         \/ lockedBy' = NoLoad /\ Holds(changes[c].pc) /\ ~Holds(q.pc)
         \/ lockedBy' = c /\ lockedBy = NoLoad /\ Holds(q.pc)
  PROVE  /\ lockedBy' \in Changes \union {NoLoad}
         /\ \A d \in Changes : lockedBy' = d <=> changes'[d].pc \in {"writing", "landed"}
  <1>1. changes'[c] = q /\ \A d \in Changes : d # c => changes'[d] = changes[d]
    BY OneChangeChanges
  <1>2. \A d \in Changes : lockedBy = d <=> Holds(changes[d].pc)
    BY DEF PolicyShape, Holds
  <1>3. \A d \in Changes : d # NoLoad
    BY PolicyAssumption
  <1>4. lockedBy' \in Changes \union {NoLoad}
    BY DEF PolicyShape
  <1>5. ASSUME NEW d \in Changes
        PROVE  lockedBy' = d <=> Holds(changes'[d].pc)
    BY <1>1, <1>2, <1>3
  <1>. QED  BY <1>4, <1>5 DEF Holds

LEMMA StoreIsWritten ==
  ASSUME PolicyShape, NEW doc \in SUBSET Marks, Written(doc)
  PROVE  config' \in Configs /\ config'.row /\ config'.doc = doc /\ config'.legacy = config.legacy
  BY DEF PolicyShape, Configs, Written

-----------------------------------------------------------------------------
(* Type correctness. *)

LEMMA ShapeAtStart == PolicyInit => PolicyShape
  <1> SUFFICES ASSUME PolicyInit PROVE PolicyShape
    OBVIOUS
  <1>1. config \in Configs /\ policy \in Policies
    <2>1. PICK old \in BOOLEAN : config = [row |-> FALSE, doc |-> {}, legacy |-> old]
      BY DEF PolicyInit
    <2>2. config \in Configs
      BY <2>1 DEF Configs
    <2>3. EmptyPolicy \in Policies
      BY PolicyAssumption DEF Policies, EmptyPolicy, NoLoad
    <2>. QED  BY <2>2, <2>3 DEF PolicyInit
  <1>2. IdleChange \in ChangeStates /\ IdleLoad \in LoadStates /\ IdleChange.pc = "new"
    BY PolicyAssumption DEF IdleChange, IdleLoad, ChangeStates, LoadStates, NoLoad
  <1>3. loads \in [1 .. Loads -> LoadStates]
    BY <1>2 DEF PolicyInit
  <1>4. /\ changes \in [Changes -> ChangeStates]
        /\ \A c \in Changes : changes[c].pc \in {"new", "refused"}
    BY <1>2, RefusedIsAChange DEF PolicyInit
  <1>5. lockedBy = NoLoad /\ ghosts = {}
    BY DEF PolicyInit
  <1>. QED  BY <1>1, <1>3, <1>4, <1>5, PolicyAssumption DEF PolicyShape

LEMMA UnloadedPolicy ==
  ASSUME PolicyShape, NEW p,
         p = [policy EXCEPT !.load = NoLoad, !.loaded = FALSE, !.mutated = FALSE, !.paused = FALSE]
  PROVE  /\ p \in Policies /\ p.load = NoLoad
         /\ p.doc = policy.doc /\ ~p.loaded /\ ~p.mutated
  <1>1. policy \in Policies /\ NoLoad \in 0 .. Loads
    BY PolicyAssumption DEF PolicyShape, NoLoad
  <1>2. p = [doc |-> policy.doc, loaded |-> FALSE, mutated |-> FALSE, paused |-> FALSE, load |-> NoLoad]
    BY <1>1 DEF Policies
  <1>. QED  BY <1>1, <1>2 DEF Policies

LEMMA LooksKeepShape ==
  ASSUME PolicyShape, Look \/ Reload \/ PauseEnds
  PROVE  PolicyShape'
  <1>1. CASE Look
    <2>1. policy' \in Policies /\ loads' \in [1 .. Loads -> LoadStates]
      BY <1>1, EnsureStartsALoad DEF Look, PolicyShape
    <2>. QED  BY <1>1, <2>1 DEF Look, PolicyShape
  <1>2. CASE Reload
    <2> DEFINE p == [policy EXCEPT !.load = NoLoad, !.loaded = FALSE, !.mutated = FALSE, !.paused = FALSE]
    <2>1. p \in Policies
      BY UnloadedPolicy
    <2>2. Ensure(p)
      BY <1>2 DEF Reload
    <2>3. policy' \in Policies /\ loads' \in [1 .. Loads -> LoadStates]
      <3> HIDE DEF p
      <3>. QED  BY <2>1, <2>2, EnsureStartsALoad
    <2>. QED  BY <1>2, <2>3 DEF Reload, PolicyShape
  <1>3. CASE PauseEnds
    <2>1. policy' \in Policies
      BY <1>3 DEF PauseEnds, PolicyShape, Policies
    <2>. QED  BY <1>3, <2>1 DEF PauseEnds, PolicyShape
  <1>. QED  BY <1>1, <1>2, <1>3

LEMMA LoadsKeepShape ==
  ASSUME PolicyShape, NEW l \in 1 .. Loads, LoadStep(l)
  PROVE  PolicyShape'
  <1>1. loads[l] \in LoadStates
    BY DEF PolicyShape
  <1>2. config.doc \in SUBSET Marks /\ {Imported} \in SUBSET Marks /\ loads[l].doc \in SUBSET Marks
        /\ loads[l].legacy \in BOOLEAN
    BY <1>1 DEF PolicyShape, Configs, LoadStates, Marks
  <1>3. LoadEnds(l) => \E q : LoadBecomes(l, q)
    BY OverIsALoad DEF LoadEnds, LoadBecomes, OverLoad
  <1>4. /\ [policy EXCEPT !.loaded = TRUE] \in Policies
        /\ [policy EXCEPT !.paused = TRUE] \in Policies
    BY DEF PolicyShape, Policies
  <1>5. [loads[l] EXCEPT !.pc = "legacy"] \in LoadStates
    BY <1>1 DEF LoadStates
  <1>6. policy' \in Policies /\ \E q : LoadBecomes(l, q)
    <2>1. CASE LoadRow(l)
      <3>1. CASE LoadGot(l, config.doc, FALSE)
        BY <1>2, <3>1, GotIsInstalled
      <3>2. CASE loads' = [loads EXCEPT ![l].pc = "legacy"] /\ UNCHANGED policy
        BY <1>5, <3>2 DEF LoadBecomes, PolicyShape
      <3>3. CASE Unreadable(l)
        BY <1>3, <1>4, <3>3 DEF Unreadable
      <3>. QED  BY <2>1, <3>1, <3>2, <3>3 DEF LoadRow
    <2>2. CASE LoadLegacy(l)
      <3>1. CASE LoadGot(l, {Imported}, TRUE)
        BY <1>2, <3>1, GotIsInstalled
      <3>2. CASE NothingLoaded(l)
        BY <1>3, <1>4, <3>2 DEF NothingLoaded, Loaded
      <3>. QED  BY <2>2, <3>1, <3>2 DEF LoadLegacy
    <2>3. CASE LoadInstall(l)
      BY <1>2, <2>3, InstallTakesOver DEF LoadInstall, PolicyShape
    <2>4. CASE LoadImport(l)
      BY <1>3, <2>4 DEF LoadImport, PolicyShape
    <2>. QED  BY <2>1, <2>2, <2>3, <2>4 DEF LoadStep
  <1>7. loads' \in [1 .. Loads -> LoadStates]
    BY <1>6, OneLoadChanges
  <1>8. UNCHANGED <<lockedBy, changes>>
    BY DEF LoadStep, LoadRow, LoadLegacy, LoadInstall, LoadImport
  <1>9. config' \in Configs /\ ghosts' \in SUBSET (SUBSET Marks)
    <2>1. CASE UNCHANGED <<config, ghosts>>
      BY <2>1 DEF PolicyShape
    <2>2. CASE LoadImport(l)
      <3>1. Written(loads[l].doc) => config' \in Configs
        BY <1>2, StoreIsWritten
      <3>2. config \in Configs /\ ghosts \in SUBSET (SUBSET Marks)
        BY DEF PolicyShape
      <3>. QED  BY <1>2, <2>2, <3>1, <3>2 DEF LoadImport
    <2>. QED  BY <2>1, <2>2 DEF LoadStep, LoadRow, LoadLegacy, LoadInstall
  <1>. QED  BY <1>6, <1>7, <1>8, <1>9 DEF PolicyShape

LEMMA BeginKeepsShape ==
  ASSUME PolicyShape, NEW c \in Changes, ChangeBegin(c)
  PROVE  PolicyShape'
  <1>1. PICK q : ChangeBecomes(c, q) /\ q.pc \in {"loading", "locking", "refused"}
    BY BegunChange
  <1>2. changes[c].pc = "new" /\ UNCHANGED <<config, lockedBy, ghosts>>
    BY DEF ChangeBegin
  <1>3. /\ lockedBy' \in Changes \union {NoLoad}
        /\ \A d \in Changes : lockedBy' = d <=> changes'[d].pc \in {"writing", "landed"}
    BY <1>1, <1>2, LockIsHeld DEF Holds
  <1>4. policy' \in Policies /\ loads' \in [1 .. Loads -> LoadStates]
    BY EnsureStartsALoad DEF ChangeBegin, PolicyShape
  <1>5. changes' \in [Changes -> ChangeStates]
    BY <1>1, OneChangeChanges
  <1>. QED  BY <1>2, <1>3, <1>4, <1>5 DEF PolicyShape

\* What a change becomes when it takes the lock, writes, and is answered.
LEMMA LockingChange ==
  ASSUME PolicyShape, NEW c \in Changes, ChangeLock(c)
  PROVE  \E q : ChangeBecomes(c, q) /\ q.pc = "writing" /\ q.doc = policy.doc \union {c}
  <1>1. changes[c] \in ChangeStates /\ policy.doc \union {c} \in SUBSET Marks
    BY DEF PolicyShape, Policies, Marks
  <1> DEFINE q == [changes[c] EXCEPT !.pc = "writing", !.doc = policy.doc \union {c}]
  <1>2. q \in ChangeStates /\ q.pc = "writing" /\ q.doc = policy.doc \union {c}
    BY <1>1 DEF ChangeStates
  <1>3. changes' = [changes EXCEPT ![c] = q]
    BY DEF ChangeLock, PolicyShape
  <1>. QED  BY <1>2, <1>3 DEF ChangeBecomes

LEMMA WritingChange ==
  ASSUME PolicyShape, NEW c \in Changes, ChangeWrite(c)
  PROVE  \E q : /\ ChangeBecomes(c, q)
                /\ \/ /\ q.pc = "landed" /\ q.doc = changes[c].doc
                      /\ Written(changes[c].doc) /\ UNCHANGED <<lockedBy, ghosts>>
                   \/ /\ q.pc = "refused" /\ lockedBy' = NoLoad /\ UNCHANGED config
                      /\ ghosts' \in {ghosts, ghosts \union {changes[c].doc}}
  <1>1. changes[c] \in ChangeStates
    BY DEF PolicyShape
  <1>2. CASE Written(changes[c].doc) /\ changes' = [changes EXCEPT ![c].pc = "landed"]
             /\ UNCHANGED <<lockedBy, ghosts>>
    <2> DEFINE q == [changes[c] EXCEPT !.pc = "landed"]
    <2>1. q \in ChangeStates /\ q.pc = "landed" /\ q.doc = changes[c].doc
      BY <1>1 DEF ChangeStates
    <2>2. changes' = [changes EXCEPT ![c] = q]
      BY <1>2 DEF PolicyShape
    <2>. QED  BY <1>2, <2>1, <2>2 DEF ChangeBecomes
  <1>3. CASE /\ Refused(c) /\ lockedBy' = NoLoad /\ UNCHANGED config
             /\ ghosts' \in {ghosts, ghosts \union {changes[c].doc}}
    BY <1>3, RefusedChange
  <1>. QED  BY <1>2, <1>3 DEF ChangeWrite

LEMMA AnsweredChange ==
  ASSUME PolicyShape, NEW c \in Changes, ChangeAnswered(c)
  PROVE  \E q : /\ ChangeBecomes(c, q)
                /\ \/ /\ q.pc = "saved" /\ UNCHANGED excuses /\ policy' \in Policies
                      /\ policy'.doc = changes[c].doc /\ policy'.mutated
                      /\ policy'.load = policy.load /\ policy'.loaded = policy.loaded
                   \/ q.pc = "refused" /\ UNCHANGED policy /\ excuses' # {}
  <1>1. CASE Keep(c) /\ changes' = [changes EXCEPT ![c] = [IdleChange EXCEPT !.pc = "saved"]]
             /\ UNCHANGED excuses
    <2>1. /\ [IdleChange EXCEPT !.pc = "saved"] \in ChangeStates
          /\ [IdleChange EXCEPT !.pc = "saved"].pc = "saved"
      BY PolicyAssumption DEF IdleChange, ChangeStates, NoLoad
    <2>2. policy \in Policies /\ changes[c].doc \in SUBSET Marks
      BY DEF PolicyShape, ChangeStates
    <2>3. /\ policy' \in Policies /\ policy'.doc = changes[c].doc /\ policy'.mutated
          /\ policy'.load = policy.load /\ policy'.loaded = policy.loaded
      BY <1>1, <2>2 DEF Keep, Policies
    <2>. QED  BY <1>1, <2>1, <2>3 DEF ChangeBecomes
  <1>2. CASE Refused(c) /\ UNCHANGED policy /\ excuses' = excuses \union {"unconfirmed write"}
    BY <1>2, RefusedChange
  <1>. QED  BY <1>1, <1>2 DEF ChangeAnswered

LEMMA ChangesKeepShape ==
  ASSUME PolicyShape, NEW c \in Changes, ChangeStep(c)
  PROVE  PolicyShape'
  <1>1. CASE ChangeLoaded(c)
    <2>1. PICK q : ChangeBecomes(c, q) /\ q.pc \in {"locking", "refused"}
      BY <1>1, LoadedChange DEF ChangeLoaded
    <2>2. changes[c].pc = "loading" /\ UNCHANGED <<config, policy, lockedBy, loads, ghosts>>
      BY <1>1 DEF ChangeLoaded
    <2>3. /\ lockedBy' \in Changes \union {NoLoad}
          /\ \A d \in Changes : lockedBy' = d <=> changes'[d].pc \in {"writing", "landed"}
      BY <2>1, <2>2, LockIsHeld DEF Holds
    <2>4. changes' \in [Changes -> ChangeStates]
      BY <2>1, OneChangeChanges
    <2>. QED  BY <2>2, <2>3, <2>4 DEF PolicyShape
  <1>2. CASE ChangeLock(c)
    <2>1. PICK q : ChangeBecomes(c, q) /\ q.pc = "writing"
      BY <1>2, LockingChange
    <2>2. lockedBy = NoLoad /\ lockedBy' = c /\ UNCHANGED <<config, policy, loads, ghosts>>
      BY <1>2 DEF ChangeLock
    <2>3. /\ lockedBy' \in Changes \union {NoLoad}
          /\ \A d \in Changes : lockedBy' = d <=> changes'[d].pc \in {"writing", "landed"}
      BY <2>1, <2>2, LockIsHeld DEF Holds
    <2>4. changes' \in [Changes -> ChangeStates]
      BY <2>1, OneChangeChanges
    <2>. QED  BY <2>2, <2>3, <2>4 DEF PolicyShape
  <1>3. CASE ChangeWrite(c)
    <2>1. PICK q : /\ ChangeBecomes(c, q)
                   /\ \/ /\ q.pc = "landed"
                         /\ Written(changes[c].doc) /\ UNCHANGED <<lockedBy, ghosts>>
                      \/ /\ q.pc = "refused" /\ lockedBy' = NoLoad /\ UNCHANGED config
                         /\ ghosts' \in {ghosts, ghosts \union {changes[c].doc}}
      BY <1>3, WritingChange
    <2>2. changes[c].pc = "writing" /\ UNCHANGED <<policy, loads>>
      BY <1>3 DEF ChangeWrite
    <2>3. /\ lockedBy' \in Changes \union {NoLoad}
          /\ \A d \in Changes : lockedBy' = d <=> changes'[d].pc \in {"writing", "landed"}
      BY <2>1, <2>2, LockIsHeld DEF Holds
    <2>4. changes' \in [Changes -> ChangeStates]
      BY <2>1, OneChangeChanges
    <2>5. changes[c].doc \in SUBSET Marks
      BY DEF PolicyShape, ChangeStates
    <2>6. config' \in Configs
      BY <2>1, <2>5, StoreIsWritten DEF PolicyShape
    <2>7. ghosts' \in SUBSET (SUBSET Marks)
      BY <2>1, <2>5 DEF PolicyShape
    <2>. QED  BY <2>2, <2>3, <2>4, <2>6, <2>7 DEF PolicyShape
  <1>4. CASE ChangeAnswered(c)
    <2>1. PICK q : /\ ChangeBecomes(c, q) /\ q.pc \in {"saved", "refused"}
                   /\ policy' \in Policies
      BY <1>4, AnsweredChange DEF PolicyShape
    <2>2. changes[c].pc = "landed" /\ lockedBy' = NoLoad /\ UNCHANGED <<config, loads, ghosts>>
      BY <1>4 DEF ChangeAnswered
    <2>3. /\ lockedBy' \in Changes \union {NoLoad}
          /\ \A d \in Changes : lockedBy' = d <=> changes'[d].pc \in {"writing", "landed"}
      BY <2>1, <2>2, LockIsHeld DEF Holds
    <2>4. changes' \in [Changes -> ChangeStates]
      BY <2>1, OneChangeChanges
    <2>. QED  BY <2>1, <2>2, <2>3, <2>4 DEF PolicyShape
  <1>. QED  BY <1>1, <1>2, <1>3, <1>4 DEF ChangeStep

\* After a restart nothing runs; the writes that were under way may still land.
LEMMA RebuildForgets ==
  ASSUME PolicyShape, Rebuild
  PROVE  /\ \A l \in 1 .. Loads : loads'[l] \in LoadStates /\ ~LoadRuns(loads'[l])
         /\ \A c \in Changes :
               /\ changes'[c] \in ChangeStates
               /\ \/ changes'[c].pc = changes[c].pc /\ changes[c].pc \in {"new", "saved"}
                  \/ changes'[c].pc = "refused"
         /\ PolicyShape'
  <1>1. ASSUME NEW l \in 1 .. Loads
        PROVE  loads'[l] \in LoadStates /\ ~LoadRuns(loads'[l])
    <2>1. loads'[l] = IF Busy(l) THEN OverLoad ELSE loads[l]
      BY DEF Rebuild, OverLoad
    <2>. QED  BY <2>1, OverIsALoad DEF PolicyShape, Busy, LoadRuns
  <1>2. ASSUME NEW c \in Changes
        PROVE  /\ changes'[c] \in ChangeStates
               /\ \/ changes'[c].pc = changes[c].pc /\ changes[c].pc \in {"new", "saved"}
                  \/ changes'[c].pc = "refused"
    BY RefusedIsAChange DEF Rebuild, PolicyShape
  <1>3. /\ loads' \in [1 .. Loads -> LoadStates] /\ changes' \in [Changes -> ChangeStates]
    BY <1>1, <1>2 DEF Rebuild
  <1>4. policy' \in Policies
    BY PolicyAssumption DEF Rebuild, EmptyPolicy, Policies, NoLoad
  <1>5. lockedBy' = NoLoad /\ config' \in Configs
    BY DEF Rebuild, PolicyShape
  <1>6. ghosts' \in SUBSET (SUBSET Marks)
    <2>1. {changes[c].doc : c \in {d \in Changes : changes[d].pc = "writing"}} \in SUBSET (SUBSET Marks)
      BY DEF PolicyShape, ChangeStates
    <2>. QED  BY <2>1 DEF Rebuild, PolicyShape
  <1>7. \A c \in Changes : lockedBy' = c <=> changes'[c].pc \in {"writing", "landed"}
    BY <1>2, <1>5, PolicyAssumption
  <1>. QED  BY <1>1, <1>2, <1>3, <1>4, <1>5, <1>6, <1>7 DEF PolicyShape

LEMMA StepsKeepShape == PolicyShape /\ [PolicyNext]_policyVars => PolicyShape'
  <1> SUFFICES ASSUME PolicyShape, [PolicyNext]_policyVars PROVE PolicyShape'
    OBVIOUS
  <1>1. ASSUME NEW doc \in ghosts, GhostLands(doc) PROVE PolicyShape'
    <2>1. doc \in SUBSET Marks
      BY DEF PolicyShape
    <2>2. config' \in Configs
      BY <1>1, <2>1, StoreIsWritten DEF GhostLands
    <2>. QED  BY <1>1, <2>2 DEF GhostLands, PolicyShape
  <1>2. CASE UNCHANGED policyVars
    BY <1>2 DEF PolicyShape, policyVars
  <1>. QED  BY <1>1, <1>2, LooksKeepShape, LoadsKeepShape, BeginKeepsShape, ChangesKeepShape,
               RebuildForgets DEF PolicyNext, PolicyWork

-----------------------------------------------------------------------------
(* The promises, step by step.  First what a step may do without touching them: *)
(* a load starts or ends, and the policy says the same.                          *)

LEMMA SameDocument ==
  ASSUME NEW cfg, NEW p, NEW chs, NEW ls, NEW p2, NEW ls2,
         Promises(cfg, p, chs, ls), OneLoad(p2, ls2),
         p2.doc = p.doc, p2.mutated = p.mutated, p2.loaded = p.loaded,
         \A l \in 1 .. Loads : ls2[l] = ls[l] \/ ls2[l].pc \in {"read", "over"}
  PROVE  Promises(cfg, p2, chs, ls2)
  <1>1. StoreKeeps(cfg, p2, chs) /\ Extends(cfg, p2, chs) /\ InSync(cfg, p2, chs)
    BY DEF Promises, StoreKeeps, Extends, InSync
  <1>2. ASSUME NEW l \in 1 .. Loads
        PROVE  ReadIsFresh(cfg, p2, chs, ls2[l])
    <2>1. ReadIsFresh(cfg, p, chs, ls[l])
      BY DEF Promises
    <2>2. CASE ls2[l] = ls[l]
      BY <2>1, <2>2 DEF ReadIsFresh
    <2>3. CASE ls2[l].pc \in {"read", "over"}
      BY <2>3 DEF ReadIsFresh
    <2>. QED  BY <2>2, <2>3
  <1>. QED  BY <1>1, <1>2 DEF Promises

\* A change that has written nothing waits, is admitted to a loaded policy, or
\* is refused.
LEMMA ChangeWaits ==
  ASSUME NEW cfg, NEW p, NEW chs, NEW ls, NEW chs2, NEW c \in Changes,
         Promises(cfg, p, chs, ls),
         \A d \in Changes : d # c => chs2[d] = chs[d],
         chs[c].pc \notin {"landed", "saved"},
         chs2[c].pc \in {"loading", "locking", "refused"},
         chs2[c].pc = "locking" => p.loaded
  PROVE  Promises(cfg, p, chs2, ls)
  <1>1. \A d \in Changes : /\ chs2[d].pc \in {"writing", "landed", "saved"} => chs2[d] = chs[d]
                           /\ chs[d].pc \in {"landed", "saved"} => chs2[d] = chs[d]
    OBVIOUS
  <1>2. NoneLanded(chs2) <=> NoneLanded(chs)
    BY <1>1 DEF NoneLanded
  <1>3. StoreKeeps(cfg, p, chs2)
    BY <1>1 DEF Promises, StoreKeeps
  <1>4. Extends(cfg, p, chs2)
    BY <1>1 DEF Promises, Extends
  <1>5. InSync(cfg, p, chs2)
    <2>1. (\E d \in Changes : chs2[d].pc \in {"locking", "writing"}) =>
             (p.loaded \/ \E d \in Changes : chs[d].pc \in {"locking", "writing"})
      OBVIOUS
    <2>. QED  BY <1>2, <2>1 DEF Promises, InSync
  <1>6. ASSUME NEW l \in 1 .. Loads
        PROVE  ReadIsFresh(cfg, p, chs2, ls[l])
    <2>1. (\E d \in Changes : chs[d].pc \in {"landed", "saved"}) =>
             \E d \in Changes : chs2[d].pc \in {"landed", "saved"}
      BY <1>1
    <2>. QED  BY <1>2, <2>1 DEF Promises, ReadIsFresh
  <1>. QED  BY <1>3, <1>4, <1>5, <1>6 DEF Promises

Kept == Promises(config, policy, changes, loads)

LEMMA LooksKeep ==
  ASSUME PolicyShape, Kept, Look \/ Reload \/ PauseEnds, excuses' = {}
  PROVE  Kept'
  <1>1. CASE Look
    <2>1. /\ policy'.doc = policy.doc /\ policy'.loaded = policy.loaded /\ policy'.mutated = policy.mutated
          /\ \A l \in 1 .. Loads : loads'[l] = loads[l] \/ loads'[l].pc = "read"
          /\ OneLoad(policy', loads')
      BY <1>1, EnsureStartsALoad DEF Look, PolicyShape, Kept, Promises
    <2>2. Promises(config, policy', changes, loads')
      BY <2>1, SameDocument DEF Kept
    <2>. QED  BY <1>1, <2>2 DEF Look, Kept
  <1>2. CASE Reload
    <2>1. PICK p : /\ p = [policy EXCEPT !.load = NoLoad, !.loaded = FALSE, !.mutated = FALSE, !.paused = FALSE]
                   /\ Ensure(p)
      BY <1>2 DEF Reload
    <2>2. p \in Policies /\ p.doc = policy.doc /\ ~p.loaded /\ ~p.mutated
      BY <2>1, UnloadedPolicy
    <2>3. \A l \in 1 .. Loads : ~LoadRuns(loads[l])
      BY <1>2 DEF Reload, Busy, LoadRuns
    <2>4. /\ policy'.doc = p.doc /\ policy'.loaded = p.loaded /\ policy'.mutated = p.mutated
          /\ \A l \in 1 .. Loads : loads'[l] = loads[l] \/ loads'[l].pc = "read"
          /\ OneLoad(p, loads) => OneLoad(policy', loads')
      BY <2>1, <2>2, EnsureStartsALoad
    <2>5. UNCHANGED <<config, changes>>
      BY <1>2 DEF Reload
    <2>6. OneLoad(policy', loads')
      BY <2>3, <2>4 DEF OneLoad
    <2>7. StoreKeeps(config, policy', changes) /\ Extends(config, policy', changes)
          /\ InSync(config, policy', changes)
      BY <2>2, <2>4 DEF Kept, Promises, StoreKeeps, Extends, InSync
    <2>8. \A l \in 1 .. Loads : ReadIsFresh(config, policy', changes, loads'[l])
      BY <2>3, <2>4 DEF ReadIsFresh, LoadRuns
    <2>. QED  BY <2>5, <2>6, <2>7, <2>8 DEF Kept, Promises
  <1>3. CASE PauseEnds
    <2>1. /\ policy'.doc = policy.doc /\ policy'.loaded = policy.loaded
          /\ policy'.mutated = policy.mutated /\ policy'.load = policy.load
      BY <1>3 DEF PauseEnds, PolicyShape, Policies
    <2>2. OneLoad(policy', loads)
      BY <2>1 DEF Kept, Promises, OneLoad
    <2>3. Promises(config, policy', changes, loads)
      BY <2>1, <2>2, SameDocument DEF Kept
    <2>. QED  BY <1>3, <2>3 DEF PauseEnds, Kept
  <1>. QED  BY <1>1, <1>2, <1>3

-----------------------------------------------------------------------------
(* Loads.  A load that runs is the only one. *)

LEMMA TheLoadRuns ==
  ASSUME PolicyShape, Kept, NEW l \in 1 .. Loads, NEW q, LoadRuns(loads[l]), LoadBecomes(l, q),
         policy'.load = policy.load
  PROVE  /\ OneLoad(policy', loads')
         /\ \A k \in 1 .. Loads : k # l => ~LoadRuns(loads'[k])
         /\ loads'[l] = q
  BY OneLoadChanges DEF Kept, Promises, OneLoad

\* What holds of the load that runs, holds of all.
LEMMA OnlyOneReads ==
  ASSUME NEW cfg, NEW p, NEW chs, NEW ls, NEW l \in 1 .. Loads,
         \A k \in 1 .. Loads : k # l => ~LoadRuns(ls[k]),
         ReadIsFresh(cfg, p, chs, ls[l])
  PROVE  \A k \in 1 .. Loads : ReadIsFresh(cfg, p, chs, ls[k])
  BY DEF ReadIsFresh, LoadRuns

LEMMA FreeMeansNone ==
  ASSUME PolicyShape, lockedBy = NoLoad
  PROVE  NoneLanded(changes) /\ \A c \in Changes : changes[c].pc \notin {"writing", "landed"}
  BY PolicyAssumption DEF PolicyShape, NoneLanded

\* What was read is worth installing: nothing newer is stored or in memory.
WorthInstalling(doc, legacy) ==
    ~policy.mutated /\ NoneLanded(changes) =>
        doc = AsStored(config) /\ config.row # legacy /\ (legacy => config.legacy)

LEMMA TakenOver ==
  ASSUME PolicyShape, Kept, NEW l \in 1 .. Loads, NEW q, LoadRuns(loads[l]), LoadBecomes(l, q),
         NEW doc, NEW legacy \in BOOLEAN, WorthInstalling(doc, legacy),
         policy'.loaded, policy'.mutated = policy.mutated, policy'.load = policy.load,
         TakesOver(policy, q, doc, legacy), lockedBy = NoLoad, UNCHANGED <<config, changes>>
  PROVE  Kept'
  <1>1. /\ OneLoad(policy', loads')
        /\ \A k \in 1 .. Loads : k # l => ~LoadRuns(loads'[k])
        /\ loads'[l] = q
    BY TheLoadRuns
  <1>2. NoneLanded(changes) /\ \A c \in Changes : changes[c].pc \notin {"writing", "landed"}
    BY FreeMeansNone
  <1>3. CASE policy.mutated /\ policy'.doc = policy.doc /\ q = OverLoad
    <2>1. InSync(config, policy', changes)
      BY <1>3 DEF Kept, Promises, InSync
    <2>2. StoreKeeps(config, policy', changes)
      BY <1>3 DEF Kept, Promises, StoreKeeps
    <2>3. Extends(config, policy', changes)
      BY <1>2 DEF Extends
    <2>4. ReadIsFresh(config, policy', changes, loads'[l])
      BY <1>1, <1>3, OverIsALoad DEF ReadIsFresh
    <2>5. \A k \in 1 .. Loads : ReadIsFresh(config, policy', changes, loads'[k])
      BY <1>1, <2>4, OnlyOneReads
    <2>6. Promises(config, policy', changes, loads')
      BY <1>1, <2>1, <2>2, <2>3, <2>5 DEF Promises
    <2>. QED  BY <2>6 DEF Kept
  <1>4. CASE /\ ~policy.mutated /\ policy'.doc = doc
             /\ q = IF legacy THEN ReadLoad("import", doc, TRUE) ELSE OverLoad
    <2>1. doc = AsStored(config) /\ config.row # legacy /\ (legacy => config.legacy)
      BY <1>2, <1>4 DEF WorthInstalling
    <2>2. InSync(config, policy', changes)
      BY <1>4, <2>1 DEF InSync
    <2>3. StoreKeeps(config, policy', changes)
      BY <1>4, <2>1 DEF Kept, Promises, StoreKeeps, AsStored
    <2>4. Extends(config, policy', changes)
      BY <1>2 DEF Extends
    <2>5. ReadIsFresh(config, policy', changes, loads'[l])
      <3>1. CASE legacy
        <4>1. q.pc = "import" /\ q.doc = doc
          BY <1>4, <3>1 DEF ReadLoad
        <4>2. config.row = FALSE /\ doc = {Imported} /\ config.legacy
          BY <2>1, <3>1 DEF PolicyShape, Configs, AsStored
        <4>. QED  BY <1>1, <4>1, <4>2 DEF ReadIsFresh
      <3>2. CASE ~legacy
        BY <1>1, <1>4, <3>2, OverIsALoad DEF ReadIsFresh
      <3>. QED  BY <3>1, <3>2
    <2>6. \A k \in 1 .. Loads : ReadIsFresh(config, policy', changes, loads'[k])
      BY <1>1, <2>5, OnlyOneReads
    <2>7. Promises(config, policy', changes, loads')
      BY <1>1, <2>2, <2>3, <2>4, <2>6 DEF Promises
    <2>. QED  BY <2>7 DEF Kept
  <1>. QED  BY <1>3, <1>4 DEF TakesOver

\* The lock is wanted: the policy is in force already, and the load waits.
LEMMA InstallWaits ==
  ASSUME PolicyShape, Kept, NEW l \in 1 .. Loads, NEW q, LoadRuns(loads[l]), LoadBecomes(l, q),
         NEW doc, NEW legacy \in BOOLEAN, WorthInstalling(doc, legacy),
         policy'.loaded, policy'.mutated = policy.mutated, policy'.load = policy.load,
         policy'.doc = policy.doc, q = ReadLoad("install", doc, legacy),
         ~LockFree, UNCHANGED <<config, changes>>
  PROVE  Kept'
  <1>1. /\ OneLoad(policy', loads')
        /\ \A k \in 1 .. Loads : k # l => ~LoadRuns(loads'[k])
        /\ loads'[l] = q
    BY TheLoadRuns
  <1>2. NoneLanded(changes) => \E c \in Changes : changes[c].pc \in {"locking", "writing"}
    BY DEF LockFree, PolicyShape, NoneLanded
  <1>3. InSync(config, policy', changes)
    BY <1>2 DEF Kept, Promises, InSync
  <1>4. StoreKeeps(config, policy', changes) /\ Extends(config, policy', changes)
    BY DEF Kept, Promises, StoreKeeps, Extends
  <1>5. q.pc = "install" /\ q.doc = doc /\ q.legacy = legacy
    BY DEF ReadLoad
  <1>6. ReadIsFresh(config, policy', changes, loads'[l])
    BY <1>1, <1>5 DEF ReadIsFresh, WorthInstalling
  <1>7. \A k \in 1 .. Loads : ReadIsFresh(config, policy', changes, loads'[k])
    BY <1>1, <1>6, OnlyOneReads
  <1>8. Promises(config, policy', changes, loads')
    BY <1>1, <1>3, <1>4, <1>7 DEF Promises
  <1>. QED  BY <1>8 DEF Kept

LEMMA GotKeeps ==
  ASSUME PolicyShape, Kept, NEW l \in 1 .. Loads, LoadRuns(loads[l]),
         NEW doc \in SUBSET Marks, NEW legacy \in BOOLEAN, WorthInstalling(doc, legacy),
         LoadGot(l, doc, legacy), UNCHANGED <<config, changes>>
  PROVE  Kept'
  <1>1. PICK q : /\ LoadBecomes(l, q)
                 /\ \/ LockFree /\ TakesOver(policy, q, doc, legacy)
                    \/ /\ ~LockFree /\ policy'.doc = policy.doc
                       /\ q = ReadLoad("install", doc, legacy)
    BY GotIsInstalled
  <1>2. policy'.loaded /\ policy'.mutated = policy.mutated /\ policy'.load = policy.load
    BY GotIsInstalled
  <1>3. CASE LockFree /\ TakesOver(policy, q, doc, legacy)
    BY <1>1, <1>2, <1>3, TakenOver DEF LockFree
  <1>4. CASE ~LockFree /\ policy'.doc = policy.doc /\ q = ReadLoad("install", doc, legacy)
    BY <1>1, <1>2, <1>4, InstallWaits
  <1>. QED  BY <1>1, <1>3, <1>4

\* A load that ends, and a policy that says the same.
LEMMA EndKeeps ==
  ASSUME PolicyShape, Kept, NEW l \in 1 .. Loads, NEW q, LoadRuns(loads[l]), LoadBecomes(l, q),
         q.pc = "over",
         policy'.doc = policy.doc, policy'.mutated = policy.mutated,
         policy'.load = policy.load, policy'.loaded = policy.loaded,
         UNCHANGED <<config, changes>>
  PROVE  Kept'
  <1>1. OneLoad(policy', loads')
    BY TheLoadRuns
  <1>2. \A k \in 1 .. Loads : loads'[k] = loads[k] \/ loads'[k].pc \in {"read", "over"}
    BY OneLoadChanges
  <1>3. Promises(config, policy', changes, loads')
    BY <1>1, <1>2, SameDocument DEF Kept
  <1>. QED  BY <1>3 DEF Kept

\* There is nothing to load: neither a row nor an older document.
LEMMA NothingKeeps ==
  ASSUME PolicyShape, Kept, NEW l \in 1 .. Loads, loads[l].pc = "legacy", ~config.legacy,
         NothingLoaded(l), UNCHANGED <<config, changes>>
  PROVE  Kept'
  <1>1. LoadBecomes(l, OverLoad) /\ LoadRuns(loads[l])
    BY OverIsALoad DEF NothingLoaded, LoadEnds, OverLoad, LoadBecomes, LoadRuns
  <1>2. /\ policy'.loaded /\ policy'.doc = policy.doc
        /\ policy'.mutated = policy.mutated /\ policy'.load = policy.load
    BY DEF NothingLoaded, Loaded, PolicyShape, Policies
  <1>3. /\ OneLoad(policy', loads')
        /\ \A k \in 1 .. Loads : k # l => ~LoadRuns(loads'[k])
        /\ loads'[l].pc = "over"
    BY <1>1, <1>2, TheLoadRuns, OverIsALoad
  <1>4. ~policy.mutated /\ NoneLanded(changes) => ~config.row
    BY DEF Kept, Promises, ReadIsFresh
  <1>5. ~config.row => policy.doc = AsStored(config)
    BY DEF Kept, Promises, StoreKeeps, AsStored
  <1>6. InSync(config, policy', changes)
    BY <1>2, <1>4, <1>5 DEF Kept, Promises, InSync
  <1>7. StoreKeeps(config, policy', changes) /\ Extends(config, policy', changes)
    BY <1>2 DEF Kept, Promises, StoreKeeps, Extends
  <1>8. \A k \in 1 .. Loads : ReadIsFresh(config, policy', changes, loads'[k])
    BY <1>3 DEF ReadIsFresh, LoadRuns
  <1>9. Promises(config, policy', changes, loads')
    BY <1>3, <1>6, <1>7, <1>8 DEF Promises
  <1>. QED  BY <1>9 DEF Kept

\* The import writes what the policy says, when no change wrote before it.
LEMMA ImportKeeps ==
  ASSUME PolicyShape, Kept, NEW l \in 1 .. Loads, LoadImport(l), excuses' = {}
  PROVE  Kept'
  <1>1. loads[l].pc = "import" /\ LoadRuns(loads[l]) /\ LoadBecomes(l, OverLoad)
    BY OverIsALoad DEF LoadImport, LoadEnds, OverLoad, LoadBecomes, LoadRuns
  <1>2. UNCHANGED <<policy, changes>>
    BY DEF LoadImport
  <1>3. \A c \in Changes : changes[c].pc \notin {"writing", "landed", "saved"}
    BY DEF LoadImport
  <1>4. CASE UNCHANGED config
    BY <1>1, <1>2, <1>4, EndKeeps, OverIsALoad
  <1>5. CASE Written(loads[l].doc)
    <2>1. loads[l].doc = {Imported} /\ config.legacy /\ policy.loaded /\ ~config.row
      BY <1>1, <1>3 DEF Kept, Promises, ReadIsFresh
    <2>2. {Imported} \in SUBSET Marks
      BY DEF Marks
    <2>3. config'.row /\ config'.doc = {Imported} /\ config'.legacy = config.legacy
      BY <1>5, <2>1, <2>2, StoreIsWritten
    <2>4. policy.doc = {Imported}
      BY <1>3, <2>1 DEF Kept, Promises, InSync, NoneLanded, AsStored
    <2>5. /\ OneLoad(policy, loads')
          /\ \A k \in 1 .. Loads : k # l => ~LoadRuns(loads'[k])
          /\ loads'[l].pc = "over"
      BY <1>1, <1>2, TheLoadRuns, OverIsALoad
    <2>6. StoreKeeps(config', policy, changes) /\ Extends(config', policy, changes)
      BY <1>3, <2>3 DEF StoreKeeps, Extends
    <2>7. InSync(config', policy, changes)
      BY <2>3, <2>4 DEF InSync, AsStored
    <2>8. \A k \in 1 .. Loads : ReadIsFresh(config', policy, changes, loads'[k])
      BY <2>5 DEF ReadIsFresh, LoadRuns
    <2>9. Promises(config', policy, changes, loads')
      BY <2>5, <2>6, <2>7, <2>8 DEF Promises
    <2>. QED  BY <1>2, <2>9 DEF Kept
  <1>. QED  BY <1>4, <1>5 DEF LoadImport

LEMMA LoadsKeep ==
  ASSUME PolicyShape, Kept, NEW l \in 1 .. Loads, LoadStep(l), excuses' = {}
  PROVE  Kept'
  <1>1. loads[l] \in LoadStates
    BY DEF PolicyShape
  <1>2. ReadIsFresh(config, policy, changes, loads[l])
    BY DEF Kept, Promises
  <1>3. config.doc \in SUBSET Marks /\ {Imported} \in SUBSET Marks
    BY DEF PolicyShape, Configs, Marks
  <1>4. CASE LoadRow(l)
    <2>1. loads[l].pc = "read" /\ LoadRuns(loads[l]) /\ UNCHANGED <<config, changes>>
      BY <1>4 DEF LoadRow, LoadRuns
    <2>2. CASE config.row /\ LoadGot(l, config.doc, FALSE)
      <3>1. WorthInstalling(config.doc, FALSE)
        BY <2>2 DEF WorthInstalling, AsStored
      <3>2. FALSE \in BOOLEAN
        OBVIOUS
      <3>. QED  BY <1>3, <2>1, <2>2, <3>1, <3>2, GotKeeps
    <2>3. CASE /\ ~config.row /\ UNCHANGED policy
               /\ loads' = [loads EXCEPT ![l].pc = "legacy"]
      <3> DEFINE q == [loads[l] EXCEPT !.pc = "legacy"]
      <3>1. q \in LoadStates /\ q.pc = "legacy"
        BY <1>1 DEF LoadStates
      <3>2. LoadBecomes(l, q)
        BY <2>3, <3>1 DEF LoadBecomes, PolicyShape
      <3>3. /\ OneLoad(policy, loads')
            /\ \A k \in 1 .. Loads : k # l => ~LoadRuns(loads'[k])
            /\ loads'[l].pc = "legacy"
        <4> HIDE DEF q
        <4>. QED  BY <2>1, <2>3, <3>1, <3>2, TheLoadRuns
      <3>4. ReadIsFresh(config, policy, changes, loads'[l])
        BY <2>3, <3>3 DEF ReadIsFresh
      <3>5. \A k \in 1 .. Loads : ReadIsFresh(config, policy, changes, loads'[k])
        BY <3>3, <3>4, OnlyOneReads
      <3>6. Promises(config, policy, changes, loads')
        BY <3>3, <3>5 DEF Kept, Promises
      <3>. QED  BY <2>1, <2>3, <3>6 DEF Kept
    <2>4. CASE Unreadable(l)
      <3>1. LoadBecomes(l, OverLoad)
        BY <2>4, OverIsALoad DEF Unreadable, LoadEnds, OverLoad, LoadBecomes
      <3>2. /\ policy'.doc = policy.doc /\ policy'.mutated = policy.mutated
            /\ policy'.load = policy.load /\ policy'.loaded = policy.loaded
        BY <2>4 DEF Unreadable, PolicyShape, Policies
      <3>. QED  BY <2>1, <3>1, <3>2, EndKeeps, OverIsALoad
    <2>. QED  BY <1>4, <2>2, <2>3, <2>4 DEF LoadRow
  <1>5. CASE LoadLegacy(l)
    <2>1. loads[l].pc = "legacy" /\ LoadRuns(loads[l]) /\ UNCHANGED <<config, changes>>
      BY <1>5 DEF LoadLegacy, LoadRuns
    <2>2. CASE config.legacy /\ LoadGot(l, {Imported}, TRUE)
      <3>1. WorthInstalling({Imported}, TRUE)
        <4>1. config.row \in BOOLEAN
          BY DEF PolicyShape, Configs
        <4>. QED  BY <1>2, <2>1, <2>2, <4>1 DEF WorthInstalling, AsStored, ReadIsFresh
      <3>2. TRUE \in BOOLEAN
        OBVIOUS
      <3>. QED  BY <1>3, <2>1, <2>2, <3>1, <3>2, GotKeeps
    <2>3. CASE ~config.legacy /\ NothingLoaded(l)
      BY <2>1, <2>3, NothingKeeps
    <2>4. CASE excuses' = excuses \union {"older document unread"}
      BY <2>4
    <2>. QED  BY <1>5, <2>2, <2>3, <2>4 DEF LoadLegacy
  <1>6. CASE LoadInstall(l)
    <2>1. loads[l].pc = "install" /\ lockedBy = NoLoad /\ UNCHANGED <<config, changes>>
      BY <1>6 DEF LoadInstall
    <2>2. loads[l].doc \in SUBSET Marks /\ loads[l].legacy \in BOOLEAN /\ policy \in Policies
      BY <1>1 DEF LoadStates, PolicyShape
    <2>3. PICK q : LoadBecomes(l, q) /\ TakesOver(policy, q, loads[l].doc, loads[l].legacy)
      BY <1>6, <2>2, InstallTakesOver DEF LoadInstall
    <2>4. policy'.loaded = policy.loaded /\ policy'.mutated = policy.mutated /\ policy'.load = policy.load
      BY <1>6, <2>2, InstallTakesOver DEF LoadInstall
    <2>5. WorthInstalling(loads[l].doc, loads[l].legacy)
      BY <1>2, <2>1 DEF WorthInstalling, ReadIsFresh
    <2>6. policy.loaded /\ LoadRuns(loads[l])
      BY <1>2, <2>1 DEF ReadIsFresh, LoadRuns
    <2>. QED  BY <2>1, <2>2, <2>3, <2>4, <2>5, <2>6, TakenOver
  <1>7. CASE LoadImport(l)
    BY <1>7, ImportKeeps
  <1>. QED  BY <1>4, <1>5, <1>6, <1>7 DEF LoadStep

-----------------------------------------------------------------------------
(* Changes.  The change that holds the lock is the only one that writes. *)

LEMMA TheHolderWrites ==
  ASSUME PolicyShape, NEW c \in Changes, Holds(changes[c].pc)
  PROVE  \A d \in Changes : d # c => changes[d].pc \notin {"writing", "landed"}
  BY DEF PolicyShape, Holds

LEMMA BeginKeeps ==
  ASSUME PolicyShape, Kept, NEW c \in Changes, ChangeBegin(c)
  PROVE  Kept'
  <1>1. PICK q : /\ ChangeBecomes(c, q) /\ q.pc \in {"loading", "locking", "refused"}
                 /\ q.pc = "locking" => policy.loaded
    BY BegunChange
  <1>2. changes'[c] = q /\ \A d \in Changes : d # c => changes'[d] = changes[d]
    BY <1>1, OneChangeChanges
  <1>3. changes[c].pc = "new" /\ Ensure(policy) /\ UNCHANGED config
    BY DEF ChangeBegin
  <1>4. Promises(config, policy, changes', loads)
    BY <1>1, <1>2, <1>3, ChangeWaits DEF Kept
  <1>5. /\ policy'.doc = policy.doc /\ policy'.loaded = policy.loaded /\ policy'.mutated = policy.mutated
        /\ \A l \in 1 .. Loads : loads'[l] = loads[l] \/ loads'[l].pc = "read"
        /\ OneLoad(policy', loads')
    BY <1>3, EnsureStartsALoad DEF PolicyShape, Kept, Promises
  <1>6. Promises(config, policy', changes', loads')
    BY <1>4, <1>5, SameDocument
  <1>. QED  BY <1>3, <1>6 DEF Kept

LEMMA LoadedKeeps ==
  ASSUME PolicyShape, Kept, NEW c \in Changes, ChangeLoaded(c)
  PROVE  Kept'
  <1>1. PICK q : /\ ChangeBecomes(c, q) /\ q.pc \in {"locking", "refused"}
                 /\ q.pc = "locking" => policy.loaded
    BY LoadedChange DEF ChangeLoaded
  <1>2. changes'[c] = q /\ \A d \in Changes : d # c => changes'[d] = changes[d]
    BY <1>1, OneChangeChanges
  <1>3. changes[c].pc = "loading" /\ UNCHANGED <<config, policy, loads>>
    BY DEF ChangeLoaded
  <1>4. Promises(config, policy, changes', loads)
    BY <1>1, <1>2, <1>3, ChangeWaits DEF Kept
  <1>. QED  BY <1>3, <1>4 DEF Kept

LEMMA LockKeeps ==
  ASSUME PolicyShape, Kept, NEW c \in Changes, ChangeLock(c)
  PROVE  Kept'
  <1>1. PICK q : ChangeBecomes(c, q) /\ q.pc = "writing" /\ q.doc = policy.doc \union {c}
    BY LockingChange
  <1>2. changes'[c] = q /\ \A d \in Changes : d # c => changes'[d] = changes[d]
    BY <1>1, OneChangeChanges
  <1>3. changes[c].pc = "locking" /\ UNCHANGED <<config, policy, loads>>
    BY DEF ChangeLock
  <1>4. NoneLanded(changes') <=> NoneLanded(changes)
    BY <1>1, <1>2, <1>3 DEF NoneLanded
  <1>5. StoreKeeps(config, policy, changes')
    BY <1>1, <1>2 DEF Kept, Promises, StoreKeeps
  <1>6. Extends(config, policy, changes')
    BY <1>1, <1>2 DEF Kept, Promises, Extends
  <1>7. InSync(config, policy, changes')
    BY <1>3, <1>4 DEF Kept, Promises, InSync
  <1>8. ASSUME NEW l \in 1 .. Loads
        PROVE  ReadIsFresh(config, policy, changes', loads[l])
    <2>1. (\E d \in Changes : changes[d].pc \in {"landed", "saved"}) =>
             \E d \in Changes : changes'[d].pc \in {"landed", "saved"}
      BY <1>2, <1>3
    <2>. QED  BY <1>4, <2>1 DEF Kept, Promises, ReadIsFresh
  <1>9. Promises(config, policy, changes', loads)
    BY <1>5, <1>6, <1>7, <1>8 DEF Kept, Promises
  <1>. QED  BY <1>3, <1>9 DEF Kept

\* The document written has what was saved, because the policy it extends is
\* the stored one.
LEMMA WriteKeeps ==
  ASSUME PolicyShape, Kept, NEW c \in Changes, ChangeWrite(c)
  PROVE  Kept'
  <1>1. PICK q : /\ ChangeBecomes(c, q)
                 /\ \/ /\ q.pc = "landed" /\ q.doc = changes[c].doc
                       /\ Written(changes[c].doc)
                    \/ q.pc = "refused" /\ UNCHANGED config
    BY WritingChange
  <1>2. changes'[c] = q /\ \A d \in Changes : d # c => changes'[d] = changes[d]
    BY <1>1, OneChangeChanges
  <1>3. changes[c].pc = "writing" /\ UNCHANGED <<policy, loads>>
    BY DEF ChangeWrite
  <1>4. CASE q.pc = "refused" /\ UNCHANGED config
    <2>1. Promises(config, policy, changes', loads)
      BY <1>2, <1>3, <1>4, ChangeWaits DEF Kept
    <2>. QED  BY <1>3, <1>4, <2>1 DEF Kept
  <1>5. CASE q.pc = "landed" /\ q.doc = changes[c].doc /\ Written(changes[c].doc)
    <2> DEFINE doc == policy.doc \union {c}
    <2>1. changes[c].doc = doc
      BY <1>3 DEF Kept, Promises, Extends
    <2>2. doc \in SUBSET Marks
      BY DEF PolicyShape, Policies, Marks
    <2>3. config'.row /\ config'.doc = doc /\ config'.legacy = config.legacy
      BY <1>5, <2>1, <2>2, StoreIsWritten
    <2>4. \A d \in Changes : d # c => changes[d].pc \notin {"writing", "landed"}
      BY <1>3, TheHolderWrites DEF Holds
    <2>5. NoneLanded(changes)
      BY <1>3, <2>4 DEF NoneLanded
    <2>6. policy.doc = AsStored(config)
      BY <1>3, <2>5 DEF Kept, Promises, InSync
    <2>7. StoreKeeps(config', policy, changes')
      <3>1. ASSUME NEW d \in Changes, changes'[d].pc = "saved"
            PROVE  d \in doc
        <4>1. changes[d].pc = "saved"
          BY <1>2, <1>5, <3>1
        <4>. QED  BY <4>1, <2>6 DEF Kept, Promises, StoreKeeps, AsStored
      <3>2. config.legacy => Imported \in doc
        BY <2>6 DEF Kept, Promises, StoreKeeps, AsStored
      <3>. QED  BY <2>3, <3>1, <3>2 DEF StoreKeeps
    <2>8. Extends(config', policy, changes')
      BY <1>2, <1>5, <2>1, <2>3, <2>4 DEF Extends
    <2>9. ~NoneLanded(changes')
      BY <1>2, <1>5 DEF NoneLanded
    <2>10. InSync(config', policy, changes')
      BY <2>9 DEF InSync
    <2>11. ASSUME NEW l \in 1 .. Loads
           PROVE  ReadIsFresh(config', policy, changes', loads[l])
      <3>1. \E d \in Changes : changes'[d].pc \in {"landed", "saved"}
        BY <1>2, <1>5
      <3>. QED  BY <2>3, <2>9, <3>1 DEF Kept, Promises, ReadIsFresh
    <2>12. Promises(config', policy, changes', loads)
      BY <2>7, <2>8, <2>10, <2>11 DEF Kept, Promises
    <2>. QED  BY <1>3, <2>12 DEF Kept
  <1>. QED  BY <1>1, <1>4, <1>5

LEMMA AnswerKeeps ==
  ASSUME PolicyShape, Kept, NEW c \in Changes, ChangeAnswered(c), excuses' = {}
  PROVE  Kept'
  <1>1. PICK q : /\ ChangeBecomes(c, q) /\ q.pc = "saved"
                 /\ policy'.doc = changes[c].doc /\ policy'.mutated
                 /\ policy'.load = policy.load /\ policy'.loaded = policy.loaded
    BY AnsweredChange
  <1>2. changes'[c] = q /\ \A d \in Changes : d # c => changes'[d] = changes[d]
    BY <1>1, OneChangeChanges
  <1>3. changes[c].pc = "landed" /\ UNCHANGED <<config, loads>>
    BY DEF ChangeAnswered
  <1>4. config.row /\ config.doc = changes[c].doc /\ c \in config.doc
    BY <1>3 DEF Kept, Promises, Extends
  <1>5. \A d \in Changes : d # c => changes[d].pc \notin {"writing", "landed"}
    BY <1>3, TheHolderWrites DEF Holds
  <1>6. StoreKeeps(config, policy', changes')
    BY <1>2, <1>4 DEF Kept, Promises, StoreKeeps
  <1>7. Extends(config, policy', changes')
    BY <1>1, <1>2, <1>5 DEF Extends
  <1>8. InSync(config, policy', changes')
    BY <1>1, <1>4 DEF InSync, AsStored
  <1>9. OneLoad(policy', loads)
    BY <1>1 DEF Kept, Promises, OneLoad
  <1>10. ASSUME NEW l \in 1 .. Loads
         PROVE  ReadIsFresh(config, policy', changes', loads[l])
    <2>1. \E d \in Changes : changes'[d].pc \in {"landed", "saved"}
      BY <1>1, <1>2
    <2>. QED  BY <1>1, <2>1 DEF Kept, Promises, ReadIsFresh
  <1>11. Promises(config, policy', changes', loads)
    BY <1>6, <1>7, <1>8, <1>9, <1>10 DEF Promises
  <1>. QED  BY <1>3, <1>11 DEF Kept

\* A restart forgets the policy, not the row.
LEMMA RebuildKeeps ==
  ASSUME PolicyShape, Kept, Rebuild
  PROVE  Kept'
  <1>1. policy' = EmptyPolicy /\ UNCHANGED config
    BY DEF Rebuild
  <1>2. policy'.doc = {} /\ ~policy'.loaded /\ ~policy'.mutated
    BY <1>1 DEF EmptyPolicy
  <1>3. /\ \A l \in 1 .. Loads : ~LoadRuns(loads'[l])
        /\ \A c \in Changes : \/ changes'[c].pc = changes[c].pc /\ changes[c].pc \in {"new", "saved"}
                              \/ changes'[c].pc = "refused"
    BY RebuildForgets
  <1>4. StoreKeeps(config, policy', changes')
    BY <1>2, <1>3 DEF Kept, Promises, StoreKeeps
  <1>5. Extends(config, policy', changes') /\ InSync(config, policy', changes')
    BY <1>2, <1>3 DEF Extends, InSync
  <1>6. \A l \in 1 .. Loads : ReadIsFresh(config, policy', changes', loads'[l])
    BY <1>3 DEF ReadIsFresh, LoadRuns
  <1>7. OneLoad(policy', loads')
    BY <1>3 DEF OneLoad
  <1>8. Promises(config, policy', changes', loads')
    BY <1>4, <1>5, <1>6, <1>7 DEF Promises
  <1>. QED  BY <1>1, <1>8 DEF Kept

-----------------------------------------------------------------------------
(* The invariant. *)

LEMMA InvAtStart == PolicyInit => PolicyInv
  <1> SUFFICES ASSUME PolicyInit PROVE PolicyInv
    OBVIOUS
  <1>1. PolicyShape
    BY ShapeAtStart
  <1>2. /\ config.doc = {} /\ ~config.row /\ policy.doc = {} /\ ~policy.mutated /\ ~policy.loaded
        /\ \A l \in 1 .. Loads : loads[l].pc = "none"
    BY DEF PolicyInit, EmptyPolicy, IdleLoad
  <1>3. \A c \in Changes : changes[c].pc \in {"new", "refused"}
    BY RefusedIsAChange DEF PolicyInit, IdleChange
  <1>4. StoreKeeps(config, policy, changes)
    BY <1>2, <1>3 DEF StoreKeeps
  <1>5. Extends(config, policy, changes) /\ InSync(config, policy, changes)
    BY <1>2, <1>3 DEF Extends, InSync
  <1>6. OneLoad(policy, loads) /\ \A l \in 1 .. Loads : ReadIsFresh(config, policy, changes, loads[l])
    BY <1>2 DEF OneLoad, LoadRuns, ReadIsFresh
  <1>. QED  BY <1>1, <1>4, <1>5, <1>6 DEF PolicyInv, Promises

LEMMA ExcusesStay == [PolicyNext]_policyVars /\ excuses' = {} => excuses = {}
  BY DEF PolicyNext, PolicyWork, LoadStep, LoadRow, LoadLegacy, LoadInstall, LoadImport, ChangeStep,
         ChangeBegin, ChangeLoaded, ChangeLock, ChangeWrite, ChangeAnswered, GhostLands, Look, Reload,
         PauseEnds, Rebuild, policyVars

LEMMA InvIsKept == PolicyInv /\ [PolicyNext]_policyVars => PolicyInv'
  <1> SUFFICES ASSUME PolicyInv, [PolicyNext]_policyVars PROVE PolicyInv'
    OBVIOUS
  <1>1. PolicyShape /\ PolicyShape'
    BY StepsKeepShape DEF PolicyInv
  <1>2. ASSUME excuses' = {} PROVE Kept'
    <2>1. Kept
      BY <1>2, ExcusesStay DEF PolicyInv, Kept
    <2>2. ASSUME NEW c \in Changes, ChangeStep(c) PROVE Kept'
      BY <1>1, <1>2, <2>1, <2>2, LoadedKeeps, LockKeeps, WriteKeeps, AnswerKeeps DEF ChangeStep
    <2>3. ASSUME NEW doc \in ghosts PROVE ~GhostLands(doc)
      BY <1>2 DEF GhostLands
    <2>4. CASE UNCHANGED policyVars
      BY <2>1, <2>4 DEF Kept, policyVars
    <2>. QED  BY <1>1, <1>2, <2>1, <2>2, <2>3, <2>4, LooksKeep, LoadsKeep, BeginKeeps, RebuildKeeps
              DEF PolicyNext, PolicyWork
  <1>. QED  BY <1>1, <1>2 DEF PolicyInv, Kept

THEOREM PolicyInductive == PolicySpec => []PolicyInv
  <1>. QED  BY InvAtStart, InvIsKept, PTL DEF PolicySpec

\* The policy, the row and the lock keep their types, and the lock is held by the
\* change that writes: private_message_service's state and its mutation lock.
THEOREM PolicyTypeCorrect == PolicySpec => []PolicyTypeOK
  <1>1. PolicyInv => PolicyTypeOK
    BY DEF PolicyInv, PolicyShape, PolicyTypeOK, Configs, Policies
  <1>. QED  BY <1>1, PolicyInductive, PTL

\* What update_settings told the owner is saved stays in the row, with what the
\* older document said, and the policy in force is the row when nothing runs: for
\* any number of changes and loads, whatever fails and whenever it restarts.
THEOREM SettingsSurvive == PolicySpec => []SavedSettingsSurvive
  <1>1. PolicyInv => SavedSettingsSurvive
    <2> SUFFICES ASSUME PolicyInv, excuses = {}
                 PROVE  /\ Saved \subseteq config.doc
                        /\ config.row /\ config.legacy => Imported \in config.doc
                        /\ policy.loaded /\ config.row /\ lockedBy = NoLoad => policy.doc = config.doc
      BY DEF SavedSettingsSurvive
    <2>1. Kept /\ PolicyShape
      BY DEF PolicyInv, Kept
    <2>2. Saved \subseteq config.doc /\ (config.row /\ config.legacy => Imported \in config.doc)
      BY <2>1 DEF Kept, Promises, StoreKeeps, Saved
    <2>3. ASSUME policy.loaded, config.row, lockedBy = NoLoad PROVE policy.doc = config.doc
      BY <2>1, <2>3, FreeMeansNone DEF Kept, Promises, InSync, AsStored
    <2>. QED  BY <2>2, <2>3
  <1>. QED  BY <1>1, PolicyInductive, PTL

-----------------------------------------------------------------------------
(* The allowance.  A row that exists has no window exactly when nothing is      *)
(* counted; a claim is worked out from the row it read.                          *)

Rows == {r \in CounterRows : /\ r.used = 0 <=> r.window = NoStamp
                             /\ ~r.exists => r = NoRow}
Replies == [pc : {"idle", "waiting", "reading", "writing", "answering", "releasing", "sent", "over"},
            lock : Nat, owned : BOOLEAN, tries : 0 .. CasAttempts - 1,
            stamp : Stamps, read : Rows, write : Rows, window : Stamps]

Claims(pc) == pc \in {"reading", "writing", "answering", "releasing"}
Writes(pc) == pc \in {"writing", "answering", "releasing"}
Holding(pc) == pc \in {"answering", "releasing"}
Tries(pc) == pc \in {"reading", "writing"}

ReplyShape(t, c, current) ==
    /\ c \in Replies
    /\ Claims(c.pc) => c.stamp.by = t /\ c.stamp.at > 0
    /\ Writes(c.pc) => ~Denied(c.read, c.stamp) /\ c.write = ClaimedRow(c.read, c.stamp)
    /\ ~Claims(c.pc) => c.read = NoRow
    /\ c.pc = "sent" <=> c.window # NoStamp
    /\ c.lock <= current /\ (c.pc = "waiting" => c.lock > 0)

AllowanceShape ==
    /\ row \in Rows
    /\ replyClock \in 1 .. ReplyHorizon
    /\ replies \in [AllReplies -> Replies]
    /\ ReplyOver(replies[Past].pc)
    /\ \A t \in AllReplies : ReplyShape(t, replies[t], locks.current)
    /\ locks.current \in Nat /\ locks.current > 0 /\ locks.held \subseteq 1 .. locks.current
    /\ leaked \in BOOLEAN /\ restarted \in BOOLEAN

(* Who counts in a window: whoever was sent a reply in it, or holds a claim. *)
WindowOf(c) == IF c.pc = "sent" THEN c.window ELSE IF Holding(c.pc) THEN c.write.window ELSE NoStamp
Counted(rp, w) == {t \in AllReplies : WindowOf(rp[t]) = w}
Fits(rp, lk, r) ==
    r.window # NoStamp => /\ Cardinality(Counted(rp, r.window)) <= r.used
                          /\ ~lk => Cardinality(Counted(rp, r.window)) = r.used

(* A claim that opened a window keeps the row of the window before it, which     *)
(* counts right as long as nobody else can write in that window.                 *)
Opens(c) == Holding(c.pc) /\ c.write.window # c.read.window /\ c.read.window # NoStamp

CountInv(rw, rp, lk) ==
    /\ \A w \in Stamps : w # NoStamp => Cardinality(Counted(rp, w)) <= MaxReplies
    /\ Fits(rp, lk, rw)
    /\ \A v \in AllReplies : Opens(rp[v]) => Fits(rp, lk, rp[v].read) /\ rp[v].read.window # rw.window
    /\ \A v, z \in AllReplies : Opens(rp[v]) /\ Opens(rp[z]) /\ v # z => rp[v].read.window # rp[z].read.window

(* A window is opened once.  A claim is unseen until it writes; one that wrote  *)
(* without an answer and tries again meets its own window, or one opened above it. *)
Unseen(rw, rp, u) ==
    /\ rw.window.by # u
    /\ \A v \in AllReplies : rp[v].read.window.by # u /\ WindowOf(rp[v]).by # u
Above(rw, rp, ws, s) ==
    /\ rw.exists /\ rw.window \in ws
    /\ \A v \in AllReplies : (Holding(rp[v].pc) /\ rp[v].write.window \in ws) => rp[v].read.window \in ws
    /\ \A w \in ws : w.at >= s.at
Unwritten(c) == c.pc \in {"idle", "waiting"} \/ (Tries(c.pc) /\ c.tries = 0)

OpenedOnce(rw, rp, lk) ==
    \A u \in ReplyTasks :
        /\ Unwritten(rp[u]) => Unseen(rw, rp, u)
        /\ Tries(rp[u].pc) =>
               \/ Unseen(rw, rp, u)
               \/ lk /\ \E ws \in SUBSET Stamps : Above(rw, rp, ws, rp[u].stamp)

Sound(rw, rp, lk, rs) == ~(lk /\ rs) => CountInv(rw, rp, lk) /\ OpenedOnce(rw, rp, lk)

AllowanceInv ==
    /\ AllowanceShape
    /\ Sound(row, replies, leaked, restarted)

-----------------------------------------------------------------------------
(* Rows, claims and releases. *)

LEMMA NoStampFacts ==
  /\ NoStamp \in Stamps /\ NoStamp.at = 0 /\ NoStamp.by = Past
  /\ NoRow \in Rows /\ NoRow.window = NoStamp /\ NoRow.used = 0 /\ ~NoRow.exists
  <1>1. NoStamp \in Stamps /\ NoStamp.at = 0 /\ NoStamp.by = Past
    BY AllowanceAssumption DEF NoStamp, Stamps, AllReplies, Past
  <1>2. NoRow.window = NoStamp /\ NoRow.used = 0 /\ ~NoRow.exists
    BY DEF NoRow
  <1>3. NoRow \in CounterRows
    BY <1>1, AllowanceAssumption DEF NoRow, CounterRows
  <1>. QED  BY <1>1, <1>2, <1>3 DEF Rows

LEMMA RowFacts ==
  ASSUME NEW r \in Rows
  PROVE  /\ r \in CounterRows /\ r.used \in 0 .. MaxReplies /\ r.last \in Stamps /\ r.window \in Stamps
         /\ r.exists \in BOOLEAN /\ (r.used = 0 <=> r.window = NoStamp) /\ (~r.exists => r = NoRow)
  BY DEF Rows, CounterRows

\* A claim counts one more in the window it read, or opens a window of its own.
Joins(r, w) == w.window = r.window /\ r.window # NoStamp /\ w.used = r.used + 1
OpensAt(r, now, w) ==
    /\ w.window = now /\ w.used = 1
    /\ r.window = NoStamp \/ now.at > r.window.at

LEMMA ClaimJoinsOrOpens ==
  ASSUME NEW r \in Rows, NEW now \in Stamps, now.at > 0, ~Denied(r, now),
         NEW w, w = ClaimedRow(r, now)
  PROVE  /\ w \in Rows /\ w.exists /\ w.window # NoStamp /\ w.used \in 1 .. MaxReplies
         /\ Joins(r, w) \/ OpensAt(r, now, w)
  <1>1. /\ r.used \in 0 .. MaxReplies /\ r.window \in Stamps
        /\ r.used = 0 <=> r.window = NoStamp
    BY RowFacts
  <1>2. now # NoStamp /\ now.at \in Nat /\ (r.window # NoStamp => r.window.at \in Nat)
    BY <1>1, NoStampFacts, AllowanceAssumption DEF Stamps
  <1>3. EffectiveUsed(r, now) \in 0 .. MaxReplies /\ EffectiveUsed(r, now) < MaxReplies
    BY <1>1, AllowanceAssumption DEF EffectiveUsed, Denied
  <1>4. /\ w.used = EffectiveUsed(r, now) + 1 /\ w.last = now /\ w.exists
        /\ w.window = IF Expired(r, now) \/ r.window = NoStamp THEN now ELSE r.window
        /\ w = [used |-> w.used, last |-> now, exists |-> TRUE, window |-> w.window]
    BY DEF ClaimedRow
  <1>5. w.used \in 1 .. MaxReplies
    BY <1>3, <1>4, AllowanceAssumption
  <1>6. w.window \in Stamps /\ w.window # NoStamp
    BY <1>1, <1>2, <1>4
  <1>7. w \in Rows
    <2>1. \A used \in 0 .. MaxReplies, window \in Stamps :
             [used |-> used, last |-> now, exists |-> TRUE, window |-> window] \in CounterRows
      BY DEF CounterRows
    <2>2. w.used \in 0 .. MaxReplies
      BY <1>5
    <2>3. w \in CounterRows
      BY <1>4, <1>6, <2>1, <2>2, Zenon
    <2>. QED  BY <2>3, <1>4, <1>5, <1>6 DEF Rows
  <1>8. CASE Expired(r, now)
    <2>1. r.window # NoStamp /\ now.at - r.window.at >= ResetAfter
      BY <1>8 DEF Expired
    <2>2. now.at > r.window.at
      BY <1>2, <2>1, AllowanceAssumption
    <2>. QED  BY <1>4, <1>5, <1>6, <1>7, <1>8, <2>2 DEF OpensAt, EffectiveUsed
  <1>9. CASE ~Expired(r, now)
    BY <1>1, <1>4, <1>5, <1>6, <1>7, <1>9 DEF OpensAt, Joins, EffectiveUsed
  <1>. QED  BY <1>8, <1>9

LEMMA MatchedRow ==
  ASSUME NEW r \in Rows, NEW read \in Rows, CasMatches(r, read)
  PROVE  r.used = read.used /\ r.window = read.window
  <1>1. CASE read.exists
    BY <1>1, RowFacts DEF CasMatches
  <1>2. CASE ~read.exists
    BY <1>2, RowFacts DEF CasMatches
  <1>. QED  BY <1>1, <1>2

LEMMA RestoredRow ==
  ASSUME NEW c, c.read \in Rows
  PROVE  /\ Restored(c) \in Rows /\ Restored(c).exists
         /\ Restored(c).window = c.read.window /\ Restored(c).used = c.read.used
  <1>1. c.read \in CounterRows /\ (c.read.used = 0 <=> c.read.window = NoStamp)
    BY RowFacts
  <1>2. /\ Restored(c) \in CounterRows /\ Restored(c).exists
        /\ Restored(c).window = c.read.window /\ Restored(c).used = c.read.used
    BY <1>1 DEF Restored, CounterRows
  <1>. QED  BY <1>1, <1>2 DEF Rows

-----------------------------------------------------------------------------
(* Counting. *)

LEMMA CountedIsFinite ==
  ASSUME NEW rp, NEW w
  PROVE  IsFiniteSet(Counted(rp, w)) /\ Cardinality(Counted(rp, w)) \in Nat
  <1>1. IsFiniteSet(AllReplies)
    BY AllowanceAssumption, FS_AddElement DEF AllReplies
  <1>2. Counted(rp, w) \in SUBSET AllReplies
    BY DEF Counted
  <1>. QED  BY <1>1, <1>2, FS_Subset, FS_CardinalityType

\* One reply becomes q, the others stay.
OneBecomes(rp, rp2, t, q) ==
    t \in AllReplies /\ rp2[t] = q /\ \A v \in AllReplies : v # t => rp2[v] = rp[v]

LEMMA CountedAfter ==
  ASSUME NEW rp, NEW rp2, NEW t, NEW q, OneBecomes(rp, rp2, t, q), NEW w
  PROVE  /\ WindowOf(q) = WindowOf(rp[t]) => Counted(rp2, w) = Counted(rp, w)
         /\ WindowOf(q) # w /\ WindowOf(rp[t]) # w => Counted(rp2, w) = Counted(rp, w)
         /\ WindowOf(q) = w => Counted(rp2, w) = Counted(rp, w) \union {t}
         /\ WindowOf(q) # w => Counted(rp2, w) = Counted(rp, w) \ {t}
  BY DEF OneBecomes, Counted

LEMMA CardinalityAfter ==
  ASSUME NEW rp, NEW rp2, NEW t, NEW q, OneBecomes(rp, rp2, t, q), NEW w
  PROVE  /\ WindowOf(q) # w =>
               Cardinality(Counted(rp2, w)) =
                   IF WindowOf(rp[t]) = w THEN Cardinality(Counted(rp, w)) - 1 ELSE Cardinality(Counted(rp, w))
         /\ WindowOf(q) = w =>
               Cardinality(Counted(rp2, w)) =
                   IF WindowOf(rp[t]) = w THEN Cardinality(Counted(rp, w)) ELSE Cardinality(Counted(rp, w)) + 1
  <1>1. IsFiniteSet(Counted(rp, w))
    BY CountedIsFinite
  <1>2. t \in Counted(rp, w) <=> WindowOf(rp[t]) = w
    BY DEF OneBecomes, Counted
  <1>. QED  BY <1>1, <1>2, CountedAfter, FS_AddElement, FS_RemoveElement

-----------------------------------------------------------------------------
(* What a step may do.  A handler moves on without counting more than it did:   *)
(* it keeps its count, or drops it, which loses an allowance.                     *)

MovesOn(rw, c, q, lk) ==
    /\ WindowOf(q) = WindowOf(c) \/ (WindowOf(q) = NoStamp /\ lk)
    /\ Holding(q.pc) => Holding(c.pc) /\ q.read = c.read /\ q.write = c.write
    /\ q.read.window \in {NoStamp, c.read.window, rw.window}
    /\ Unwritten(q) => Unwritten(c)
    /\ Tries(q.pc) => \/ Tries(c.pc) /\ q.stamp = c.stamp
                      \/ Unwritten(c)

Typed(rw, rp) == rw \in Rows /\ \A v \in AllReplies : rp[v].read \in Rows

LEMMA CountSurvives ==
  ASSUME NEW rp, NEW rp2, NEW t, NEW q, OneBecomes(rp, rp2, t, q),
         NEW rw, Typed(rw, rp), NEW lk, NEW lk2, lk => lk2,
         MovesOn(rw, rp[t], q, lk2), CountInv(rw, rp, lk)
  PROVE  CountInv(rw, rp2, lk2)
  <1>1. ASSUME NEW w, w # NoStamp
        PROVE  /\ Cardinality(Counted(rp2, w)) <= Cardinality(Counted(rp, w))
               /\ ~lk2 => Cardinality(Counted(rp2, w)) = Cardinality(Counted(rp, w))
               /\ Cardinality(Counted(rp, w)) \in Nat /\ Cardinality(Counted(rp2, w)) \in Nat
    <2>1. Cardinality(Counted(rp, w)) \in Nat /\ Cardinality(Counted(rp2, w)) \in Nat
      BY CountedIsFinite
    <2>2. CASE WindowOf(q) = WindowOf(rp[t])
      BY <2>1, <2>2, CountedAfter
    <2>3. CASE WindowOf(q) = NoStamp /\ lk2
      BY <1>1, <2>1, <2>3, CardinalityAfter
    <2>. QED  BY <2>2, <2>3 DEF MovesOn
  <1>2. ASSUME NEW r \in Rows, Fits(rp, lk, r)
        PROVE  Fits(rp2, lk2, r)
    <2>1. r.used \in Nat
      BY RowFacts, AllowanceAssumption
    <2>. QED  BY <1>1, <1>2, <2>1 DEF Fits
  <1>3. \A w \in Stamps : w # NoStamp => Cardinality(Counted(rp2, w)) <= MaxReplies
    BY <1>1, AllowanceAssumption DEF CountInv
  <1>4. \A v \in AllReplies : Opens(rp2[v]) => Opens(rp[v]) /\ rp2[v].read = rp[v].read
    BY DEF OneBecomes, MovesOn, Opens
  <1>5. Fits(rp2, lk2, rw)
    BY <1>2 DEF CountInv, Typed
  <1>6. \A v \in AllReplies : Opens(rp2[v]) => Fits(rp2, lk2, rp2[v].read) /\ rp2[v].read.window # rw.window
    BY <1>2, <1>4 DEF CountInv, Typed
  <1>7. \A v, z \in AllReplies : Opens(rp2[v]) /\ Opens(rp2[z]) /\ v # z => rp2[v].read.window # rp2[z].read.window
    BY <1>4 DEF CountInv
  <1>. QED  BY <1>3, <1>5, <1>6, <1>7 DEF CountInv

LEMMA OpenedSurvives ==
  ASSUME NEW rp, NEW rp2, NEW t, NEW q, OneBecomes(rp, rp2, t, q),
         NEW rw, NEW lk, NEW lk2, lk => lk2,
         MovesOn(rw, rp[t], q, lk2), OpenedOnce(rw, rp, lk)
  PROVE  OpenedOnce(rw, rp2, lk2)
  <1>1. ASSUME NEW u \in ReplyTasks, Unseen(rw, rp, u)
        PROVE  Unseen(rw, rp2, u)
    <2>1. NoStamp.by # u
      BY NoStampFacts, AllowanceAssumption
    <2>2. q.read.window.by # u /\ WindowOf(q).by # u
      BY <1>1, <2>1 DEF Unseen, MovesOn, OneBecomes
    <2>. QED  BY <1>1, <2>2 DEF Unseen, OneBecomes
  <1>2. ASSUME NEW ws, NEW s, Above(rw, rp, ws, s)
        PROVE  Above(rw, rp2, ws, s)
    BY <1>2 DEF Above, OneBecomes, MovesOn
  <1>3. ASSUME NEW u \in ReplyTasks
        PROVE  /\ Unwritten(rp2[u]) => Unwritten(rp[u])
               /\ Tries(rp2[u].pc) => \/ Tries(rp[u].pc) /\ rp2[u].stamp = rp[u].stamp
                                      \/ Unwritten(rp[u])
    <2>1. u \in AllReplies
      BY DEF AllReplies
    <2>. QED  BY <2>1 DEF OneBecomes, MovesOn
  <1>4. ASSUME NEW u \in ReplyTasks
        PROVE  /\ Unwritten(rp2[u]) => Unseen(rw, rp2, u)
               /\ Tries(rp2[u].pc) =>
                      \/ Unseen(rw, rp2, u)
                      \/ lk2 /\ \E ws \in SUBSET Stamps : Above(rw, rp2, ws, rp2[u].stamp)
    BY <1>1, <1>2, <1>3 DEF OpenedOnce
  <1>. QED  BY <1>4 DEF OpenedOnce

\* A claim writes: it holds what it wrote, or nobody learns that it did.
Lands(rw, c, q, rw2, lk2) ==
    /\ c.pc = "writing" /\ c.read \in Rows
    /\ rw.used = c.read.used /\ rw.window = c.read.window
    /\ rw2 = c.write /\ rw2 \in Rows /\ rw2.exists
    /\ rw2.window # NoStamp /\ rw2.used \in 1 .. MaxReplies
    /\ \/ Holding(q.pc) /\ q.read = c.read /\ q.write = c.write
       \/ /\ lk2 /\ WindowOf(q) = NoStamp /\ ~Holding(q.pc) /\ ~Unwritten(q)
          /\ q.read.window \in {NoStamp, c.read.window}
          /\ Tries(q.pc) => q.stamp = c.stamp

CountsOne(rp, rp2, w, rw2, lk2) ==
    /\ Cardinality(Counted(rp2, w)) \in Nat /\ Cardinality(Counted(rp, w)) \in Nat
    /\ w # rw2.window => Counted(rp2, w) = Counted(rp, w)
    /\ w = rw2.window =>
          /\ Cardinality(Counted(rp2, w)) <= Cardinality(Counted(rp, w)) + 1
          /\ ~lk2 => Cardinality(Counted(rp2, w)) = Cardinality(Counted(rp, w)) + 1

LEMMA LandsCounting ==
  ASSUME NEW rp, NEW rp2, NEW t, NEW q, OneBecomes(rp, rp2, t, q),
         NEW rw, NEW rw2, NEW lk2, Lands(rw, rp[t], q, rw2, lk2)
  PROVE  \A w : w # NoStamp => CountsOne(rp, rp2, w, rw2, lk2)
  <1> SUFFICES ASSUME NEW w, w # NoStamp PROVE CountsOne(rp, rp2, w, rw2, lk2)
    OBVIOUS
  <1> USE DEF CountsOne
  <1>1. Cardinality(Counted(rp2, w)) \in Nat /\ Cardinality(Counted(rp, w)) \in Nat
    BY CountedIsFinite
  <1>2. WindowOf(rp[t]) = NoStamp
    BY DEF Lands, WindowOf, Holding
  <1>3. CASE Holding(q.pc) /\ q.write = rp[t].write
    <2>1. WindowOf(q) = rw2.window
      BY <1>3 DEF Lands, WindowOf, Holding
    <2>. QED  BY <1>1, <1>2, <2>1, CountedAfter, CardinalityAfter
  <1>4. CASE lk2 /\ WindowOf(q) = NoStamp
    <2>1. Counted(rp2, w) = Counted(rp, w)
      BY <1>2, <1>4, CountedAfter
    <2>. QED  BY <1>1, <1>4, <2>1
  <1>. QED  BY <1>3, <1>4 DEF Lands

\* In the window that is open, the count and the counter grow together.
LEMMA JoinKeepsCount ==
  ASSUME NEW rp, NEW rp2, NEW t, NEW q, OneBecomes(rp, rp2, t, q),
         NEW rw, NEW rw2, Typed(rw, rp), NEW lk, NEW lk2, lk => lk2,
         Lands(rw, rp[t], q, rw2, lk2), Joins(rp[t].read, rw2), CountInv(rw, rp, lk)
  PROVE  CountInv(rw2, rp2, lk2)
  <1>0. \A w : w # NoStamp => CountsOne(rp, rp2, w, rw2, lk2)
    BY LandsCounting
  <1>1. rw2.window = rw.window /\ rw2.used = rw.used + 1 /\ rw.window # NoStamp /\ rw.used \in Nat
    BY RowFacts, AllowanceAssumption DEF Lands, Joins, Typed
  <1>2. /\ Cardinality(Counted(rp2, rw.window)) \in Nat /\ Cardinality(Counted(rp, rw.window)) \in Nat
        /\ Cardinality(Counted(rp2, rw.window)) <= Cardinality(Counted(rp, rw.window)) + 1
        /\ ~lk2 => Cardinality(Counted(rp2, rw.window)) = Cardinality(Counted(rp, rw.window)) + 1
    BY <1>0, <1>1 DEF CountsOne
  <1>3. \A w : w # NoStamp /\ w # rw.window => Counted(rp2, w) = Counted(rp, w)
    BY <1>0, <1>1 DEF CountsOne
  <1>4. Fits(rp, lk, rw)
    BY DEF CountInv
  <1>5. Fits(rp2, lk2, rw2)
    BY <1>1, <1>2, <1>4 DEF Fits
  <1>6. Cardinality(Counted(rp2, rw.window)) <= MaxReplies
    BY <1>1, <1>2, <1>5, AllowanceAssumption DEF Fits, Lands
  <1>7. \A w \in Stamps : w # NoStamp => Cardinality(Counted(rp2, w)) <= MaxReplies
    BY <1>3, <1>6 DEF CountInv
  <1>8. \A v \in AllReplies : Opens(rp2[v]) => Opens(rp[v]) /\ rp2[v].read = rp[v].read
    BY DEF OneBecomes, Lands, Opens, Joins
  <1>9. ASSUME NEW v \in AllReplies, Opens(rp2[v])
        PROVE  Fits(rp2, lk2, rp2[v].read) /\ rp2[v].read.window # rw2.window
    <2>1. Fits(rp, lk, rp[v].read) /\ rp[v].read.window # rw.window /\ rp2[v].read = rp[v].read
      BY <1>8, <1>9 DEF CountInv
    <2>. QED  BY <1>1, <1>3, <2>1 DEF Fits
  <1>10. \A v, z \in AllReplies : Opens(rp2[v]) /\ Opens(rp2[z]) /\ v # z => rp2[v].read.window # rp2[z].read.window
    BY <1>8 DEF CountInv
  <1>. QED  BY <1>5, <1>7, <1>9, <1>10 DEF CountInv

\* A window nobody has seen begins with this claim alone; the one before it can
\* grow no more until the claim is given back.
LEMMA OpenKeepsCount ==
  ASSUME NEW rp, NEW rp2, NEW t, NEW q, OneBecomes(rp, rp2, t, q),
         NEW rw, NEW rw2, Typed(rw, rp), NEW lk, NEW lk2, lk => lk2,
         Lands(rw, rp[t], q, rw2, lk2), OpensAt(rp[t].read, rp[t].stamp, rw2), rp[t].stamp.by = t,
         Unseen(rw, rp, t), CountInv(rw, rp, lk)
  PROVE  CountInv(rw2, rp2, lk2)
  <1>0. \A w : w # NoStamp => CountsOne(rp, rp2, w, rw2, lk2)
    BY LandsCounting
  <1>1. rw2.window.by = t /\ rw2.used = 1 /\ rw2.window # NoStamp /\ rw2.window # rw.window
    BY DEF OpensAt, Lands, Unseen
  <1>2. Counted(rp, rw2.window) = {}
    BY <1>1 DEF Counted, Unseen
  <1>3. Cardinality(Counted(rp, rw2.window)) = 0
    BY <1>2, FS_EmptySet
  <1>4. /\ Cardinality(Counted(rp2, rw2.window)) \in Nat
        /\ Cardinality(Counted(rp2, rw2.window)) <= 1
        /\ ~lk2 => Cardinality(Counted(rp2, rw2.window)) = 1
    BY <1>0, <1>1, <1>3 DEF CountsOne
  <1>5. \A w : w # NoStamp /\ w # rw2.window => Counted(rp2, w) = Counted(rp, w)
    BY <1>0 DEF CountsOne
  <1>6. Fits(rp2, lk2, rw2)
    BY <1>1, <1>4 DEF Fits
  <1>7. \A w \in Stamps : w # NoStamp => Cardinality(Counted(rp2, w)) <= MaxReplies
    BY <1>4, <1>5, AllowanceAssumption DEF CountInv
  <1>8. \A r : r.window # rw2.window /\ Fits(rp, lk, r) => Fits(rp2, lk2, r)
    BY <1>5 DEF Fits
  <1>9. Fits(rp, lk, rp[t].read)
    BY DEF CountInv, Fits, Lands
  <1>10. \A v \in AllReplies : Opens(rp2[v]) =>
            /\ rp2[v].read = rp[v].read
            /\ rp[v].read.window # rw2.window
            /\ (v # t => Opens(rp[v]))
            /\ (v = t => rp[v].read.window = rw.window)
    BY <1>1 DEF OneBecomes, Lands, Opens, Unseen
  <1>11. \A v \in AllReplies : Opens(rp2[v]) => Fits(rp2, lk2, rp2[v].read) /\ rp2[v].read.window # rw2.window
    BY <1>8, <1>9, <1>10 DEF CountInv
  <1>12. \A v, z \in AllReplies : Opens(rp2[v]) /\ Opens(rp2[z]) /\ v # z => rp2[v].read.window # rp2[z].read.window
    BY <1>10 DEF CountInv
  <1>. QED  BY <1>6, <1>7, <1>11, <1>12 DEF CountInv

LEMMA JoinKeepsOpened ==
  ASSUME NEW rp, NEW rp2, NEW t, NEW q, OneBecomes(rp, rp2, t, q),
         NEW rw, NEW rw2, NEW lk, NEW lk2, lk => lk2,
         Lands(rw, rp[t], q, rw2, lk2), Joins(rp[t].read, rw2), OpenedOnce(rw, rp, lk)
  PROVE  OpenedOnce(rw2, rp2, lk2)
  <1>1. rw2.window = rw.window /\ rw2.exists /\ rp[t].read.window = rw.window /\ rp[t].write.window = rw.window
    BY DEF Lands, Joins
  <1>2. WindowOf(q) \in {NoStamp, rw.window} /\ q.read.window \in {NoStamp, rw.window}
    BY <1>1 DEF Lands, WindowOf, Holding
  <1>3. ASSUME NEW u \in ReplyTasks, Unseen(rw, rp, u)
        PROVE  Unseen(rw2, rp2, u)
    <2>1. NoStamp.by # u
      BY NoStampFacts, AllowanceAssumption
    <2>. QED  BY <1>1, <1>2, <1>3, <2>1 DEF Unseen, OneBecomes
  <1>4. ASSUME NEW ws, NEW s, Above(rw, rp, ws, s)
        PROVE  Above(rw2, rp2, ws, s)
    <2>1. Holding(q.pc) => q.read.window = rw.window
      BY <1>1 DEF Lands
    <2>2. \A v \in AllReplies : (Holding(rp2[v].pc) /\ rp2[v].write.window \in ws) => rp2[v].read.window \in ws
      BY <1>4, <2>1 DEF Above, OneBecomes
    <2>. QED  BY <1>1, <1>4, <2>2 DEF Above
  <1>5. ASSUME NEW u \in ReplyTasks
        PROVE  /\ Unwritten(rp2[u]) => Unwritten(rp[u])
               /\ Tries(rp2[u].pc) => Tries(rp[u].pc) /\ rp2[u].stamp = rp[u].stamp
    <2>1. u \in AllReplies
      BY DEF AllReplies
    <2>2. CASE u = t
      BY <2>2 DEF OneBecomes, Lands, Holding, Unwritten, Tries
    <2>3. CASE u # t
      BY <2>1, <2>3 DEF OneBecomes
    <2>. QED  BY <2>2, <2>3
  <1>6. ASSUME NEW u \in ReplyTasks
        PROVE  /\ Unwritten(rp2[u]) => Unseen(rw2, rp2, u)
               /\ Tries(rp2[u].pc) =>
                      \/ Unseen(rw2, rp2, u)
                      \/ lk2 /\ \E ws \in SUBSET Stamps : Above(rw2, rp2, ws, rp2[u].stamp)
    BY <1>3, <1>4, <1>5 DEF OpenedOnce
  <1>. QED  BY <1>6 DEF OpenedOnce

\* Whoever opens a window has not been seen: a claim that wrote before finds its
\* own window or a later one, which is not over yet.
LEMMA OpenerIsUnseen ==
  ASSUME NEW rp, NEW rw, NEW lk, NEW t \in ReplyTasks, NEW read \in Rows,
         Tries(rp[t].pc), rp[t].stamp \in Stamps, rp[t].stamp.at > 0, rw.window = read.window,
         NEW w, OpensAt(read, rp[t].stamp, w), OpenedOnce(rw, rp, lk)
  PROVE  Unseen(rw, rp, t)
  <1> SUFFICES ASSUME NEW ws \in SUBSET Stamps, Above(rw, rp, ws, rp[t].stamp)
               PROVE  FALSE
    BY DEF OpenedOnce
  <1>1. rw.window.at >= rp[t].stamp.at /\ rw.window.at \in Nat /\ rp[t].stamp.at \in Nat
    BY AllowanceAssumption DEF Above, Stamps
  <1>2. rw.window # NoStamp
    BY <1>1, NoStampFacts
  <1>. QED  BY <1>1, <1>2 DEF OpensAt

LEMMA OpenKeepsOpened ==
  ASSUME NEW rp, NEW rp2, NEW t, NEW q, OneBecomes(rp, rp2, t, q), t \in ReplyTasks,
         NEW rw, NEW rw2, NEW lk, NEW lk2, lk => lk2, rw.window \in Stamps,
         \A u \in ReplyTasks : Tries(rp[u].pc) => rp[u].stamp \in Stamps /\ rp[u].stamp.at > 0,
         Lands(rw, rp[t], q, rw2, lk2), OpensAt(rp[t].read, rp[t].stamp, rw2), rp[t].stamp.by = t,
         Unseen(rw, rp, t), OpenedOnce(rw, rp, lk)
  PROVE  OpenedOnce(rw2, rp2, lk2)
  <1> DEFINE s == rp[t].stamp
  <1>1. /\ rw2.window = s /\ rw2.exists /\ rp[t].write.window = s /\ s.by = t
        /\ rp[t].read.window = rw.window /\ rw.window # s
    BY DEF Lands, OpensAt, Unseen
  <1>2. WindowOf(q) \in {NoStamp, s} /\ q.read.window \in {NoStamp, rw.window}
    BY <1>1 DEF Lands, WindowOf, Holding
  <1>3. s \in Stamps /\ s.at \in Nat /\ rw.window.at \in Nat
    BY AllowanceAssumption DEF Stamps, Lands, Tries
  <1>4. ASSUME NEW u \in ReplyTasks, u # t, Unseen(rw, rp, u)
        PROVE  Unseen(rw2, rp2, u)
    <2>1. NoStamp.by # u
      BY NoStampFacts, AllowanceAssumption
    <2>. QED  BY <1>1, <1>2, <1>4, <2>1 DEF Unseen, OneBecomes
  <1>5. \A v \in AllReplies : v # t /\ Holding(rp2[v].pc) => rp2[v].write.window # s
    <2>1. \A v \in AllReplies : Holding(rp[v].pc) => rp[v].write.window = WindowOf(rp[v])
      BY DEF WindowOf, Holding
    <2>. QED  BY <1>1, <2>1 DEF Unseen, OneBecomes
  <1>6. ASSUME NEW u \in ReplyTasks, Tries(rp[u].pc),
               NEW ws \in SUBSET Stamps, Above(rw, rp, ws, rp[u].stamp)
        PROVE  Above(rw2, rp2, ws \union {s}, rp[u].stamp)
    <2>1. rw.window \in ws /\ rw.window.at >= rp[u].stamp.at /\ rp[u].stamp.at \in Nat /\ rp[u].stamp.at > 0
      BY <1>6, AllowanceAssumption DEF Above, Stamps
    <2>2. rw.window # NoStamp
      BY <2>1, NoStampFacts
    <2>3. s.at >= rp[u].stamp.at
      BY <1>1, <1>3, <2>1, <2>2 DEF OpensAt
    <2>4. \A w \in ws \union {s} : w.at >= rp[u].stamp.at
      BY <1>6, <2>3 DEF Above
    <2>5. Holding(q.pc) => q.read.window = rw.window
      BY <1>1 DEF Lands
    <2>6. ASSUME NEW v \in AllReplies, Holding(rp2[v].pc), rp2[v].write.window \in ws \union {s}
          PROVE  rp2[v].read.window \in ws \union {s}
      <3>1. CASE v = t
        BY <2>1, <2>5, <2>6, <3>1 DEF OneBecomes
      <3>2. CASE v # t
        BY <1>5, <1>6, <2>6, <3>2 DEF Above, OneBecomes
      <3>. QED  BY <3>1, <3>2
    <2>. QED  BY <1>1, <2>4, <2>6 DEF Above
  <1>7. ASSUME NEW u \in ReplyTasks, u # t
        PROVE  /\ Unwritten(rp2[u]) => Unseen(rw2, rp2, u)
               /\ Tries(rp2[u].pc) =>
                      \/ Unseen(rw2, rp2, u)
                      \/ lk2 /\ \E ws \in SUBSET Stamps : Above(rw2, rp2, ws, rp2[u].stamp)
    <2>1. rp2[u] = rp[u]
      BY <1>7 DEF OneBecomes, AllReplies
    <2>2. ASSUME Tries(rp[u].pc), NEW ws \in SUBSET Stamps, Above(rw, rp, ws, rp[u].stamp)
          PROVE  \E xs \in SUBSET Stamps : Above(rw2, rp2, xs, rp2[u].stamp)
      <3>1. ws \union {s} \in SUBSET Stamps
        BY <1>3
      <3>. QED  BY <1>6, <2>1, <2>2, <3>1
    <2>. QED  BY <1>4, <1>7, <2>1, <2>2 DEF OpenedOnce
  <1>8. ~Unwritten(rp2[t])
    BY DEF OneBecomes, Lands, Holding, Unwritten, Tries
  <1>9. ASSUME Tries(rp2[t].pc)
        PROVE  lk2 /\ \E ws \in SUBSET Stamps : Above(rw2, rp2, ws, rp2[t].stamp)
    <2>1. lk2 /\ ~Holding(q.pc) /\ rp2[t] = q /\ rp2[t].stamp = s
      BY <1>9 DEF OneBecomes, Lands, Tries, Holding
    <2>2. {s} \in SUBSET Stamps
      BY <1>3
    <2>3. Above(rw2, rp2, {s}, s)
      BY <1>1, <1>3, <1>5, <2>1 DEF Above
    <2>. QED  BY <2>1, <2>2, <2>3
  <1>10. ASSUME NEW u \in ReplyTasks
         PROVE  /\ Unwritten(rp2[u]) => Unseen(rw2, rp2, u)
                /\ Tries(rp2[u].pc) =>
                       \/ Unseen(rw2, rp2, u)
                       \/ lk2 /\ \E ws \in SUBSET Stamps : Above(rw2, rp2, ws, rp2[u].stamp)
    BY <1>7, <1>8, <1>9
  <1>. QED  BY <1>10 DEF OpenedOnce

-----------------------------------------------------------------------------
(* A claim is given back: the row is what the claim read, and the reply counts   *)
(* no more.                                                                         *)

GivesBack(rw, c, q, rw2) ==
    /\ Holding(c.pc) /\ rw = c.write /\ c.read \in Rows
    /\ Joins(c.read, c.write) \/ OpensAt(c.read, c.stamp, c.write)
    /\ (c.write.window # NoStamp /\ c.write.window # c.read.window) \/ Joins(c.read, c.write)
    /\ rw2 \in Rows /\ rw2.exists /\ rw2.window = c.read.window /\ rw2.used = c.read.used
    /\ WindowOf(q) = NoStamp /\ ~Holding(q.pc) /\ ~Unwritten(q) /\ ~Tries(q.pc)
    /\ q.read.window = NoStamp

LEMMA GivenBackCounting ==
  ASSUME NEW rp, NEW rp2, NEW t, NEW q, OneBecomes(rp, rp2, t, q),
         NEW rw, NEW rw2, GivesBack(rw, rp[t], q, rw2)
  PROVE  \A w : w # NoStamp =>
            /\ Cardinality(Counted(rp2, w)) \in Nat /\ Cardinality(Counted(rp, w)) \in Nat
            /\ Cardinality(Counted(rp2, w)) <= Cardinality(Counted(rp, w))
            /\ w # rw.window => Counted(rp2, w) = Counted(rp, w)
            /\ w = rw.window => Cardinality(Counted(rp2, w)) = Cardinality(Counted(rp, w)) - 1
  <1> SUFFICES ASSUME NEW w, w # NoStamp
               PROVE  /\ Cardinality(Counted(rp2, w)) \in Nat /\ Cardinality(Counted(rp, w)) \in Nat
                      /\ Cardinality(Counted(rp2, w)) <= Cardinality(Counted(rp, w))
                      /\ w # rw.window => Counted(rp2, w) = Counted(rp, w)
                      /\ w = rw.window => Cardinality(Counted(rp2, w)) = Cardinality(Counted(rp, w)) - 1
    OBVIOUS
  <1>1. Cardinality(Counted(rp2, w)) \in Nat /\ Cardinality(Counted(rp, w)) \in Nat
    BY CountedIsFinite
  <1>2. WindowOf(rp[t]) = rw.window /\ WindowOf(q) = NoStamp
    BY DEF GivesBack, WindowOf, Holding
  <1>. QED  BY <1>1, <1>2, CountedAfter, CardinalityAfter

LEMMA GivenBackCount ==
  ASSUME NEW rp, NEW rp2, NEW t, NEW q, OneBecomes(rp, rp2, t, q),
         NEW rw, NEW rw2, Typed(rw, rp), NEW lk, GivesBack(rw, rp[t], q, rw2), CountInv(rw, rp, lk)
  PROVE  CountInv(rw2, rp2, lk)
  <1>1. ASSUME NEW w, w # NoStamp
        PROVE  /\ Cardinality(Counted(rp2, w)) \in Nat /\ Cardinality(Counted(rp, w)) \in Nat
               /\ Cardinality(Counted(rp2, w)) <= Cardinality(Counted(rp, w))
               /\ w # rw.window => Counted(rp2, w) = Counted(rp, w)
               /\ w = rw.window => Cardinality(Counted(rp2, w)) = Cardinality(Counted(rp, w)) - 1
    BY <1>1, GivenBackCounting
  <1>2. \A w \in Stamps : w # NoStamp => Cardinality(Counted(rp2, w)) <= MaxReplies
    BY <1>1, AllowanceAssumption DEF CountInv
  <1>3. \A v \in AllReplies : Opens(rp2[v]) => v # t /\ Opens(rp[v]) /\ rp2[v].read = rp[v].read
    BY DEF OneBecomes, GivesBack, Opens
  <1>4. \A v, z \in AllReplies : Opens(rp2[v]) /\ Opens(rp2[z]) /\ v # z => rp2[v].read.window # rp2[z].read.window
    BY <1>3 DEF CountInv
  <1>5. \A v \in AllReplies : Opens(rp2[v]) => Fits(rp2, lk, rp2[v].read)
    BY <1>1, <1>3 DEF CountInv, Fits
  <1>6. CASE Joins(rp[t].read, rp[t].write)
    <2>1. rw2.window = rw.window /\ rw.used = rw2.used + 1 /\ rw2.used \in Nat /\ rw.window # NoStamp
      BY <1>6, RowFacts, AllowanceAssumption DEF GivesBack, Joins
    <2>2. Fits(rp2, lk, rw2)
      BY <1>1, <2>1 DEF CountInv, Fits
    <2>3. \A v \in AllReplies : Opens(rp2[v]) => rp2[v].read.window # rw2.window
      BY <1>3, <2>1 DEF CountInv
    <2>. QED  BY <1>2, <1>4, <1>5, <2>2, <2>3 DEF CountInv
  <1>7. CASE rp[t].write.window # rp[t].read.window
    <2>1. /\ rw2.window = rp[t].read.window /\ rw2.used = rp[t].read.used /\ rw.window # rw2.window
          /\ Holding(rp[t].pc) /\ t \in AllReplies
      BY <1>7 DEF GivesBack, OneBecomes
    <2>2. CASE rw2.window = NoStamp
      <3>1. Fits(rp2, lk, rw2)
        BY <2>2 DEF Fits
      <3>2. \A v \in AllReplies : Opens(rp2[v]) => rp2[v].read.window # rw2.window
        BY <2>2 DEF Opens
      <3>. QED  BY <1>2, <1>4, <1>5, <3>1, <3>2 DEF CountInv
    <2>3. CASE rw2.window # NoStamp
      <3>1. Opens(rp[t]) /\ Fits(rp, lk, rp[t].read)
        BY <1>7, <2>1, <2>3 DEF Opens, CountInv
      <3>2. Fits(rp2, lk, rw2)
        BY <1>1, <2>1, <2>3, <3>1 DEF Fits
      <3>3. \A v \in AllReplies : Opens(rp2[v]) => rp2[v].read.window # rw2.window
        BY <1>3, <2>1, <3>1 DEF CountInv
      <3>. QED  BY <1>2, <1>4, <1>5, <3>2, <3>3 DEF CountInv
    <2>. QED  BY <2>2, <2>3
  <1>. QED  BY <1>6, <1>7 DEF GivesBack

LEMMA GivenBackOpened ==
  ASSUME NEW rp, NEW rp2, NEW t, NEW q, OneBecomes(rp, rp2, t, q),
         NEW rw, NEW rw2, NEW lk, GivesBack(rw, rp[t], q, rw2), OpenedOnce(rw, rp, lk)
  PROVE  OpenedOnce(rw2, rp2, lk)
  <1>1. ASSUME NEW u \in ReplyTasks, Unseen(rw, rp, u)
        PROVE  Unseen(rw2, rp2, u)
    <2>1. NoStamp.by # u
      BY NoStampFacts, AllowanceAssumption
    <2>. QED  BY <1>1, <2>1 DEF Unseen, OneBecomes, GivesBack
  <1>2. ASSUME NEW ws, NEW s, Above(rw, rp, ws, s)
        PROVE  Above(rw2, rp2, ws, s)
    BY <1>2 DEF Above, OneBecomes, GivesBack
  <1>3. ASSUME NEW u \in ReplyTasks
        PROVE  /\ Unwritten(rp2[u]) => Unwritten(rp[u])
               /\ Tries(rp2[u].pc) => Tries(rp[u].pc) /\ rp2[u].stamp = rp[u].stamp
    BY DEF OneBecomes, GivesBack, AllReplies
  <1>4. ASSUME NEW u \in ReplyTasks
        PROVE  /\ Unwritten(rp2[u]) => Unseen(rw2, rp2, u)
               /\ Tries(rp2[u].pc) =>
                      \/ Unseen(rw2, rp2, u)
                      \/ lk /\ \E ws \in SUBSET Stamps : Above(rw2, rp2, ws, rp2[u].stamp)
    BY <1>1, <1>2, <1>3 DEF OpenedOnce
  <1>. QED  BY <1>4 DEF OpenedOnce

\* The owner resets the counters while no claim tries again, or none has written.
LEMMA ResetIsSafe ==
  ASSUME NEW rp, NEW rw, NEW lk, CountInv(rw, rp, lk), OpenedOnce(rw, rp, lk),
         lk => \A u \in ReplyTasks : Tries(rp[u].pc) => Unwritten(rp[u])
  PROVE  CountInv(NoRow, rp, lk) /\ OpenedOnce(NoRow, rp, lk)
  <1>1. CountInv(NoRow, rp, lk)
    BY NoStampFacts DEF CountInv, Fits, Opens
  <1>2. ASSUME NEW u \in ReplyTasks, Unseen(rw, rp, u)
        PROVE  Unseen(NoRow, rp, u)
    BY <1>2, NoStampFacts, AllowanceAssumption DEF Unseen
  <1>. QED  BY <1>1, <1>2 DEF OpenedOnce


-----------------------------------------------------------------------------
(* The steps of a handler. *)

ReplyBecomes(t, q) ==
    /\ replies' = [replies EXCEPT ![t] = q]
    /\ ReplyShape(t, q, locks.current)
    /\ locks'.current = locks.current /\ locks'.held \subseteq 1 .. locks.current
    /\ replyClock' = replyClock /\ restarted' = restarted
    /\ leaked' \in BOOLEAN /\ (leaked => leaked')

Accounts(c, q) ==
    \/ row' = row /\ MovesOn(row, c, q, leaked')
    \/ /\ Lands(row, c, q, row', leaked')
       /\ Joins(c.read, row') \/ OpensAt(c.read, c.stamp, row')
    \/ GivesBack(row, c, q, row') /\ leaked' = leaked

LEMMA ShapeFacts ==
  ASSUME NEW t, NEW c, NEW current, ReplyShape(t, c, current)
  PROVE  /\ c.pc \in {"idle", "waiting", "reading", "writing", "answering", "releasing", "sent", "over"}
         /\ c.lock \in Nat /\ c.owned \in BOOLEAN /\ c.tries \in 0 .. CasAttempts - 1
         /\ c.stamp \in Stamps /\ c.read \in Rows /\ c.write \in Rows /\ c.window \in Stamps
         /\ Tries(c.pc) => c.stamp.at > 0 /\ c.stamp.by = t
  BY DEF ReplyShape, Replies, Claims, Tries

\* What a claim wrote or would write.
LEMMA WriteFacts ==
  ASSUME NEW t, NEW c, NEW current, ReplyShape(t, c, current), Writes(c.pc)
  PROVE  /\ c.write \in Rows /\ c.write.exists /\ c.write.window # NoStamp
         /\ c.write.used \in 1 .. MaxReplies
         /\ Joins(c.read, c.write) \/ OpensAt(c.read, c.stamp, c.write)
  <1>1. /\ c.read \in Rows /\ c.stamp \in Stamps /\ c.stamp.at > 0
        /\ ~Denied(c.read, c.stamp) /\ c.write = ClaimedRow(c.read, c.stamp)
    BY ShapeFacts DEF ReplyShape, Writes, Claims
  <1>. QED  BY <1>1, ClaimJoinsOrOpens

LEMMA NewReplyFacts ==
  /\ NewReply \in Replies
  /\ NewReply.read = NoRow /\ NewReply.lock = 0 /\ NewReply.pc = "idle" /\ NewReply.window = NoStamp
  <1>1. 0 \in 0 .. CasAttempts - 1
    BY AllowanceAssumption
  <1>. QED  BY <1>1, NoStampFacts DEF NewReply, Replies

\* What a handler that ended leaves.
Ended(pc, w) == [NewReply EXCEPT !.pc = pc, !.window = w]

LEMMA EndedShape ==
  ASSUME NEW t, NEW pc \in {"sent", "over"}, NEW w \in Stamps, NEW current \in Nat,
         pc = "sent" <=> w # NoStamp
  PROVE  /\ ReplyShape(t, Ended(pc, w), current)
         /\ Ended(pc, w).pc = pc /\ Ended(pc, w).read = NoRow /\ Ended(pc, w).window = w
  <1>1. \A x \in Replies :
           /\ [x EXCEPT !.pc = pc, !.window = w] \in Replies
           /\ [x EXCEPT !.pc = pc, !.window = w].pc = pc
           /\ [x EXCEPT !.pc = pc, !.window = w].window = w
           /\ [x EXCEPT !.pc = pc, !.window = w].read = x.read
           /\ [x EXCEPT !.pc = pc, !.window = w].lock = x.lock
    BY DEF Replies
  <1>2. /\ Ended(pc, w) \in Replies
        /\ Ended(pc, w).pc = pc /\ Ended(pc, w).read = NoRow /\ Ended(pc, w).window = w
        /\ Ended(pc, w).lock = 0
    BY <1>1, NewReplyFacts DEF Ended
  <1>3. ReplyShape(t, Ended(pc, w), current)
    BY <1>2, AllowanceAssumption DEF ReplyShape, Claims, Writes
  <1>. QED  BY <1>2, <1>3

LEMMA EndsAs ==
  ASSUME AllowanceShape, NEW t \in AllReplies, NEW pc \in {"sent", "over"}, End(t, pc),
         pc = "sent" => replies[t].pc = "answering"
  PROVE  \E q : /\ replies' = [replies EXCEPT ![t] = q] /\ ReplyShape(t, q, locks.current)
                /\ q.pc = pc /\ q.read = NoRow
                /\ pc = "sent" => q.window = replies[t].write.window
  <1>0. PICK w : w = IF pc = "sent" THEN replies[t].write.window ELSE NoStamp
    OBVIOUS
  <1>1. replies' = [replies EXCEPT ![t] = Ended(pc, w)]
    BY <1>0 DEF End, Ended
  <1>2. ReplyShape(t, replies[t], locks.current) /\ locks.current \in Nat
    BY DEF AllowanceShape
  <1>3. w \in Stamps /\ (pc = "sent" <=> w # NoStamp)
    BY <1>0, <1>2, WriteFacts, RowFacts, NoStampFacts DEF Writes
  <1>4. /\ ReplyShape(t, Ended(pc, w), locks.current)
        /\ Ended(pc, w).pc = pc /\ Ended(pc, w).read = NoRow /\ Ended(pc, w).window = w
    BY <1>2, <1>3, EndedShape
  <1>. QED  BY <1>0, <1>1, <1>4

LEMMA Leaves ==
  ASSUME AllowanceShape, NEW t, locks' = Leave(t)
  PROVE  locks'.current = locks.current /\ locks'.held \subseteq 1 .. locks.current
  BY DEF Leave, AllowanceShape

\* A handler's record, field by field; its fields are set one, two or three at a time.
IsReply(q, pc, lock, tries, stamp, read, write, window) ==
    /\ q \in Replies /\ q.pc = pc /\ q.lock = lock /\ q.tries = tries
    /\ q.stamp = stamp /\ q.read = read /\ q.write = write /\ q.window = window

LEMMA MovedReply ==
  ASSUME NEW c \in Replies, NEW pc \in {"reading", "answering", "releasing"}
  PROVE  IsReply([c EXCEPT !.pc = pc], pc, c.lock, c.tries, c.stamp, c.read, c.write, c.window)
  BY DEF Replies, IsReply

LEMMA WaitingReply ==
  ASSUME NEW c \in Replies, NEW lock \in Nat
  PROVE  IsReply([c EXCEPT !.pc = "waiting", !.lock = lock],
                 "waiting", lock, c.tries, c.stamp, c.read, c.write, c.window)
  BY DEF Replies, IsReply

LEMMA StampedReply ==
  ASSUME NEW c \in Replies, NEW stamp \in Stamps
  PROVE  IsReply([c EXCEPT !.pc = "reading", !.stamp = stamp],
                 "reading", c.lock, c.tries, stamp, c.read, c.write, c.window)
  BY DEF Replies, IsReply

LEMMA RetriedReply ==
  ASSUME NEW c \in Replies, NEW tries \in 0 .. CasAttempts - 1
  PROVE  IsReply([c EXCEPT !.pc = "reading", !.tries = tries],
                 "reading", c.lock, tries, c.stamp, c.read, c.write, c.window)
  BY DEF Replies, IsReply

LEMMA OrphanedReply ==
  ASSUME NEW c \in Replies
  PROVE  IsReply([c EXCEPT !.owned = FALSE, !.lock = 0],
                 c.pc, 0, c.tries, c.stamp, c.read, c.write, c.window)
  BY DEF Replies, IsReply

LEMMA WritingReply ==
  ASSUME NEW c \in Replies, NEW read \in Rows, NEW write \in Rows
  PROVE  IsReply([c EXCEPT !.pc = "writing", !.read = read, !.write = write],
                 "writing", c.lock, c.tries, c.stamp, read, write, c.window)
  BY DEF Replies, IsReply

LEMMA ArrivesAs ==
  ASSUME AllowanceShape, NEW t \in ReplyTasks, ReplyArrive(t)
  PROVE  \E q : ReplyBecomes(t, q) /\ Accounts(replies[t], q)
  <1>1. t \in AllReplies /\ replies[t] \in Replies /\ ReplyShape(t, replies[t], locks.current)
    BY DEF AllReplies, AllowanceShape
  <1>2. replies[t].read = NoRow /\ replies[t].pc = "idle" /\ replies[t].window = NoStamp
    BY <1>1 DEF ReplyArrive, ReplyShape, Claims
  <1>3. /\ locks.current \in Nat /\ locks.current > 0 /\ locks.held \subseteq 1 .. locks.current
        /\ leaked \in BOOLEAN
    BY DEF AllowanceShape
  <1>4. UNCHANGED <<row, locks, replyClock, leaked, restarted>>
    BY DEF ReplyArrive
  <1>5. CASE End(t, "over")
    <2>1. PICK q : /\ replies' = [replies EXCEPT ![t] = q] /\ ReplyShape(t, q, locks.current)
                   /\ q.pc = "over" /\ q.read = NoRow
      BY <1>1, <1>5, EndsAs
    <2>2. ReplyBecomes(t, q)
      BY <1>3, <1>4, <2>1 DEF ReplyBecomes
    <2>3. MovesOn(row, replies[t], q, leaked')
      BY <1>2, <2>1, NoStampFacts DEF MovesOn, WindowOf, Holding, Unwritten, Tries
    <2>. QED  BY <1>4, <2>2, <2>3 DEF Accounts
  <1>6. CASE replies' = [replies EXCEPT ![t].pc = "waiting", ![t].lock = locks.current]
    <2>1. PICK q : q = [replies[t] EXCEPT !.pc = "waiting", !.lock = locks.current]
      OBVIOUS
    <2>2. replies' = [replies EXCEPT ![t] = q]
      BY <1>1, <1>6, <2>1 DEF AllowanceShape
    <2>3. IsReply(q, "waiting", locks.current, replies[t].tries, replies[t].stamp,
                  replies[t].read, replies[t].write, replies[t].window)
      BY <1>1, <1>3, <2>1, WaitingReply
    <2>4. ReplyShape(t, q, locks.current)
      BY <1>2, <1>3, <2>3 DEF IsReply, ReplyShape, Claims, Writes
    <2>5. ReplyBecomes(t, q)
      BY <1>3, <1>4, <2>2, <2>4 DEF ReplyBecomes
    <2>6. MovesOn(row, replies[t], q, leaked')
      BY <1>2, <2>3, NoStampFacts DEF IsReply, MovesOn, WindowOf, Holding, Unwritten, Tries
    <2>. QED  BY <1>4, <2>5, <2>6 DEF Accounts
  <1>. QED  BY <1>5, <1>6 DEF ReplyArrive

\* The handler ends without an answer.
LEMMA GivesUpAs ==
  ASSUME AllowanceShape, NEW t \in ReplyTasks, End(t, "over")
  PROVE  \E q : /\ replies' = [replies EXCEPT ![t] = q] /\ ReplyShape(t, q, locks.current)
                /\ WindowOf(q) = NoStamp /\ ~Holding(q.pc) /\ ~Unwritten(q) /\ ~Tries(q.pc)
                /\ q.read.window = NoStamp
  <1>1. t \in AllReplies
    BY DEF AllReplies
  <1>2. PICK q : /\ replies' = [replies EXCEPT ![t] = q] /\ ReplyShape(t, q, locks.current)
                 /\ q.pc = "over" /\ q.read = NoRow
    BY <1>1, EndsAs
  <1>. QED  BY <1>2, NoStampFacts DEF WindowOf, Holding, Unwritten, Tries

LEMMA LocksAs ==
  ASSUME AllowanceShape, NEW t \in ReplyTasks, ReplyLock(t)
  PROVE  \E q : ReplyBecomes(t, q) /\ Accounts(replies[t], q)
  <1>1. t \in AllReplies /\ replies[t] \in Replies /\ ReplyShape(t, replies[t], locks.current)
    BY DEF AllReplies, AllowanceShape
  <1>2. /\ replies[t].read = NoRow /\ replies[t].pc = "waiting" /\ replies[t].window = NoStamp
        /\ replies[t].lock \in Nat /\ replies[t].lock > 0 /\ replies[t].lock <= locks.current
    BY <1>1, ShapeFacts DEF ReplyLock, ReplyShape, Claims
  <1>3. /\ locks.current \in Nat /\ locks.held \subseteq 1 .. locks.current /\ leaked \in BOOLEAN
        /\ replyClock \in 1 .. ReplyHorizon
    BY DEF AllowanceShape
  <1>4. /\ UNCHANGED <<row, replyClock, leaked, restarted>>
        /\ locks' = [locks EXCEPT !.held = @ \union {replies[t].lock}]
    BY DEF ReplyLock
  <1>5. locks'.current = locks.current /\ locks'.held \subseteq 1 .. locks.current
    <2>1. replies[t].lock \in 1 .. locks.current
      BY <1>2, <1>3
    <2>2. locks'.current = locks.current /\ locks'.held \subseteq locks.held \union {replies[t].lock}
      BY <1>4
    <2>. QED  BY <1>3, <2>1, <2>2
  <1>6. PICK stamp : stamp = [at |-> replyClock, by |-> t]
    OBVIOUS
  <1>7. stamp \in Stamps /\ stamp.at > 0 /\ stamp.by = t
    BY <1>1, <1>3, <1>6, AllowanceAssumption DEF Stamps
  <1>8. PICK q : q = [replies[t] EXCEPT !.pc = "reading", !.stamp = stamp]
    OBVIOUS
  <1>9. replies' = [replies EXCEPT ![t] = q]
    BY <1>1, <1>6, <1>8 DEF AllowanceShape, ReplyLock
  <1>10. IsReply(q, "reading", replies[t].lock, replies[t].tries, stamp,
                 replies[t].read, replies[t].write, replies[t].window)
    BY <1>1, <1>7, <1>8, StampedReply
  <1>11. ReplyShape(t, q, locks.current)
    BY <1>2, <1>7, <1>10 DEF IsReply, ReplyShape, Claims, Writes
  <1>12. ReplyBecomes(t, q)
    BY <1>3, <1>4, <1>5, <1>9, <1>11 DEF ReplyBecomes
  <1>13. MovesOn(row, replies[t], q, leaked')
    BY <1>2, <1>10, NoStampFacts DEF IsReply, MovesOn, WindowOf, Holding, Unwritten, Tries
  <1>. QED  BY <1>4, <1>12, <1>13 DEF Accounts

LEMMA ReadsAs ==
  ASSUME AllowanceShape, NEW t \in ReplyTasks, ReplyRead(t)
  PROVE  \E q : ReplyBecomes(t, q) /\ Accounts(replies[t], q)
  <1>1. t \in AllReplies /\ replies[t] \in Replies /\ ReplyShape(t, replies[t], locks.current)
    BY DEF AllReplies, AllowanceShape
  <1>2. replies[t].pc = "reading" /\ replies[t].stamp \in Stamps
        /\ replies[t].stamp.at > 0 /\ replies[t].stamp.by = t /\ replies[t].window = NoStamp
        /\ replies[t].lock <= locks.current
    BY <1>1, ShapeFacts DEF ReplyRead, ReplyShape, Claims
  <1>3. /\ row \in Rows /\ leaked \in BOOLEAN
        /\ locks.current \in Nat /\ locks.held \subseteq 1 .. locks.current
    BY DEF AllowanceShape
  <1>4. UNCHANGED <<row, replyClock, leaked, restarted>>
    BY DEF ReplyRead
  <1>5. CASE /\ ~Denied(row, replies[t].stamp)
             /\ replies' = [replies EXCEPT ![t].pc = "writing", ![t].read = row,
                                           ![t].write = ClaimedRow(row, replies[t].stamp)]
             /\ UNCHANGED locks
    <2>1. PICK write : write = ClaimedRow(row, replies[t].stamp)
      OBVIOUS
    <2>2. write \in Rows
      BY <1>2, <1>3, <1>5, <2>1, ClaimJoinsOrOpens
    <2>3. PICK q : q = [replies[t] EXCEPT !.pc = "writing", !.read = row, !.write = write]
      OBVIOUS
    <2>4. replies' = [replies EXCEPT ![t] = q]
      BY <1>1, <1>5, <2>1, <2>3 DEF AllowanceShape
    <2>5. IsReply(q, "writing", replies[t].lock, replies[t].tries, replies[t].stamp,
                  row, write, replies[t].window)
      BY <1>1, <1>3, <2>2, <2>3, WritingReply
    <2>6. ReplyShape(t, q, locks.current)
      BY <1>2, <1>5, <2>1, <2>5 DEF IsReply, ReplyShape, Claims, Writes
    <2>7. ReplyBecomes(t, q)
      BY <1>3, <1>4, <1>5, <2>4, <2>6 DEF ReplyBecomes
    <2>8. MovesOn(row, replies[t], q, leaked')
      BY <1>2, <2>5, NoStampFacts DEF IsReply, MovesOn, WindowOf, Holding, Unwritten, Tries
    <2>. QED  BY <1>4, <2>7, <2>8 DEF Accounts
  <1>6. CASE End(t, "over") /\ locks' = Leave(t)
    <2>1. PICK q : /\ replies' = [replies EXCEPT ![t] = q] /\ ReplyShape(t, q, locks.current)
                   /\ WindowOf(q) = NoStamp /\ ~Holding(q.pc) /\ ~Unwritten(q) /\ ~Tries(q.pc)
                   /\ q.read.window = NoStamp
      BY <1>6, GivesUpAs
    <2>2. ReplyBecomes(t, q)
      BY <1>3, <1>4, <1>6, <2>1, Leaves DEF ReplyBecomes
    <2>3. MovesOn(row, replies[t], q, leaked')
      BY <1>2, <2>1 DEF MovesOn, WindowOf, Holding
    <2>. QED  BY <1>4, <2>2, <2>3 DEF Accounts
  <1>. QED  BY <1>5, <1>6 DEF ReplyRead

\* An attempt that won nothing is tried again, or the handler gives up.
LEMMA TriesAgainAs ==
  ASSUME AllowanceShape, NEW t \in ReplyTasks, replies[t].pc = "writing", Again(t)
  PROVE  \E q : /\ replies' = [replies EXCEPT ![t] = q] /\ ReplyShape(t, q, locks.current)
                /\ WindowOf(q) = NoStamp /\ ~Holding(q.pc) /\ ~Unwritten(q)
                /\ q.read.window \in {NoStamp, replies[t].read.window}
                /\ Tries(q.pc) => q.stamp = replies[t].stamp
                /\ locks'.current = locks.current /\ locks'.held \subseteq 1 .. locks.current
  <1>1. t \in AllReplies /\ replies[t] \in Replies /\ ReplyShape(t, replies[t], locks.current)
    BY DEF AllReplies, AllowanceShape
  <1>2. /\ replies[t].stamp.at > 0 /\ replies[t].stamp.by = t /\ replies[t].window = NoStamp
        /\ replies[t].lock <= locks.current /\ replies[t].tries \in 0 .. CasAttempts - 1
    BY <1>1, ShapeFacts DEF ReplyShape, Claims
  <1>3. CASE replies[t].tries + 1 < CasAttempts
    <2>1. /\ replies' = [replies EXCEPT ![t].pc = "reading", ![t].tries = @ + 1]
          /\ UNCHANGED locks
      BY <1>3 DEF Again
    <2>2. PICK tries : tries = replies[t].tries + 1
      OBVIOUS
    <2>3. tries \in 0 .. CasAttempts - 1 /\ tries > 0
      BY <1>2, <1>3, <2>2, AllowanceAssumption
    <2>4. PICK q : q = [replies[t] EXCEPT !.pc = "reading", !.tries = tries]
      OBVIOUS
    <2>5. replies' = [replies EXCEPT ![t] = q]
      BY <1>1, <2>1, <2>2, <2>4 DEF AllowanceShape
    <2>6. IsReply(q, "reading", replies[t].lock, tries, replies[t].stamp,
                  replies[t].read, replies[t].write, replies[t].window)
      BY <1>1, <2>3, <2>4, RetriedReply
    <2>7. ReplyShape(t, q, locks.current)
      BY <1>2, <2>6 DEF IsReply, ReplyShape, Claims, Writes
    <2>8. /\ WindowOf(q) = NoStamp /\ ~Holding(q.pc) /\ ~Unwritten(q)
          /\ q.read.window = replies[t].read.window /\ q.stamp = replies[t].stamp
      BY <2>3, <2>6 DEF IsReply, WindowOf, Holding, Unwritten, Tries
    <2>. QED  BY <2>1, <2>5, <2>7, <2>8 DEF AllowanceShape
  <1>4. CASE ~(replies[t].tries + 1 < CasAttempts)
    <2>1. End(t, "over") /\ locks' = Leave(t)
      BY <1>4 DEF Again
    <2>2. PICK q : /\ replies' = [replies EXCEPT ![t] = q] /\ ReplyShape(t, q, locks.current)
                   /\ WindowOf(q) = NoStamp /\ ~Holding(q.pc) /\ ~Unwritten(q) /\ ~Tries(q.pc)
                   /\ q.read.window = NoStamp
      BY <2>1, GivesUpAs
    <2>. QED  BY <2>1, <2>2, Leaves
  <1>. QED  BY <1>3, <1>4

LEMMA WritesAs ==
  ASSUME AllowanceShape, NEW t \in ReplyTasks, ReplyWrite(t)
  PROVE  /\ \E q : ReplyBecomes(t, q) /\ Accounts(replies[t], q)
         /\ row' \in Rows
  <1>1. t \in AllReplies /\ replies[t] \in Replies /\ ReplyShape(t, replies[t], locks.current)
    BY DEF AllReplies, AllowanceShape
  <1>2. /\ replies[t].pc = "writing" /\ replies[t].read \in Rows
        /\ replies[t].stamp.at > 0 /\ replies[t].stamp.by = t /\ replies[t].window = NoStamp
        /\ replies[t].lock <= locks.current
        /\ ~Denied(replies[t].read, replies[t].stamp)
        /\ replies[t].write = ClaimedRow(replies[t].read, replies[t].stamp)
    BY <1>1, ShapeFacts DEF ReplyWrite, ReplyShape, Claims, Writes
  <1>3. /\ replies[t].write \in Rows /\ replies[t].write.exists /\ replies[t].write.window # NoStamp
        /\ replies[t].write.used \in 1 .. MaxReplies
        /\ Joins(replies[t].read, replies[t].write)
              \/ OpensAt(replies[t].read, replies[t].stamp, replies[t].write)
    BY <1>1, <1>2, WriteFacts DEF Writes
  <1>4. /\ row \in Rows /\ leaked \in BOOLEAN
        /\ locks.current \in Nat /\ locks.held \subseteq 1 .. locks.current
    BY DEF AllowanceShape
  <1>5. UNCHANGED <<replyClock, restarted>>
    BY DEF ReplyWrite
  <1>6. ASSUME CasMatches(row, replies[t].read), row' = replies[t].write
        PROVE  row.used = replies[t].read.used /\ row.window = replies[t].read.window
    BY <1>2, <1>4, <1>6, MatchedRow
  <1>7. CASE /\ CasMatches(row, replies[t].read) /\ row' = replies[t].write
             /\ replies[t].owned /\ replies' = [replies EXCEPT ![t] = [replies[t] EXCEPT !.pc = "answering"]]
             /\ leaked' = leaked /\ UNCHANGED locks
    <2>1. PICK q : q = [replies[t] EXCEPT !.pc = "answering"]
      OBVIOUS
    <2>2. replies' = [replies EXCEPT ![t] = q]
      BY <1>7, <2>1
    <2>3. IsReply(q, "answering", replies[t].lock, replies[t].tries, replies[t].stamp,
                  replies[t].read, replies[t].write, replies[t].window)
      BY <1>1, <2>1, MovedReply
    <2>4. ReplyShape(t, q, locks.current)
      BY <1>2, <2>3 DEF IsReply, ReplyShape, Claims, Writes
    <2>5. ReplyBecomes(t, q)
      BY <1>4, <1>5, <1>7, <2>2, <2>4 DEF ReplyBecomes
    <2>6. Lands(row, replies[t], q, row', leaked')
      BY <1>2, <1>3, <1>6, <1>7, <2>3 DEF Lands, IsReply, Holding
    <2>. QED  BY <1>3, <1>7, <2>5, <2>6 DEF Accounts
  <1>8. CASE /\ CasMatches(row, replies[t].read) /\ row' = replies[t].write
             /\ End(t, "over") /\ leaked' = TRUE /\ UNCHANGED locks
    <2>1. PICK q : /\ replies' = [replies EXCEPT ![t] = q] /\ ReplyShape(t, q, locks.current)
                   /\ WindowOf(q) = NoStamp /\ ~Holding(q.pc) /\ ~Unwritten(q) /\ ~Tries(q.pc)
                   /\ q.read.window = NoStamp
      BY <1>8, GivesUpAs
    <2>2. ReplyBecomes(t, q)
      BY <1>4, <1>5, <1>8, <2>1 DEF ReplyBecomes
    <2>3. Lands(row, replies[t], q, row', leaked')
      BY <1>2, <1>3, <1>6, <1>8, <2>1 DEF Lands
    <2>. QED  BY <1>3, <1>8, <2>2, <2>3 DEF Accounts
  <1>9. ASSUME Again(t)
        PROVE  \E q : /\ replies' = [replies EXCEPT ![t] = q] /\ ReplyShape(t, q, locks.current)
                      /\ WindowOf(q) = NoStamp /\ ~Holding(q.pc) /\ ~Unwritten(q)
                      /\ q.read.window \in {NoStamp, replies[t].read.window}
                      /\ Tries(q.pc) => q.stamp = replies[t].stamp
                      /\ locks'.current = locks.current /\ locks'.held \subseteq 1 .. locks.current
    BY <1>2, <1>9, TriesAgainAs
  <1>10. CASE /\ CasMatches(row, replies[t].read) /\ row' = replies[t].write
              /\ leaked' = TRUE /\ Again(t)
    <2>1. PICK q : /\ replies' = [replies EXCEPT ![t] = q] /\ ReplyShape(t, q, locks.current)
                   /\ WindowOf(q) = NoStamp /\ ~Holding(q.pc) /\ ~Unwritten(q)
                   /\ q.read.window \in {NoStamp, replies[t].read.window}
                   /\ Tries(q.pc) => q.stamp = replies[t].stamp
                   /\ locks'.current = locks.current /\ locks'.held \subseteq 1 .. locks.current
      BY <1>9, <1>10
    <2>2. ReplyBecomes(t, q)
      BY <1>5, <1>10, <2>1 DEF ReplyBecomes
    <2>3. Lands(row, replies[t], q, row', leaked')
      BY <1>2, <1>3, <1>6, <1>10, <2>1 DEF Lands
    <2>. QED  BY <1>3, <1>10, <2>2, <2>3 DEF Accounts
  <1>11. CASE Again(t) /\ UNCHANGED <<row, leaked>>
    <2>1. PICK q : /\ replies' = [replies EXCEPT ![t] = q] /\ ReplyShape(t, q, locks.current)
                   /\ WindowOf(q) = NoStamp /\ ~Holding(q.pc) /\ ~Unwritten(q)
                   /\ q.read.window \in {NoStamp, replies[t].read.window}
                   /\ Tries(q.pc) => q.stamp = replies[t].stamp
                   /\ locks'.current = locks.current /\ locks'.held \subseteq 1 .. locks.current
      BY <1>9, <1>11
    <2>2. ReplyBecomes(t, q)
      BY <1>4, <1>5, <1>11, <2>1 DEF ReplyBecomes
    <2>3. MovesOn(row, replies[t], q, leaked')
      BY <1>2, <2>1 DEF MovesOn, WindowOf, Holding, Tries
    <2>. QED  BY <1>4, <1>11, <2>2, <2>3 DEF Accounts
  <1>12. \/ /\ CasMatches(row, replies[t].read) /\ row' = replies[t].write
            /\ replies[t].owned /\ replies' = [replies EXCEPT ![t] = [replies[t] EXCEPT !.pc = "answering"]]
            /\ leaked' = leaked /\ UNCHANGED locks
         \/ /\ CasMatches(row, replies[t].read) /\ row' = replies[t].write
            /\ End(t, "over") /\ leaked' = TRUE /\ UNCHANGED locks
         \/ /\ CasMatches(row, replies[t].read) /\ row' = replies[t].write
            /\ leaked' = TRUE /\ Again(t)
         \/ Again(t) /\ UNCHANGED <<row, leaked>>
    BY <1>1, <1>4, ShapeFacts DEF ReplyWrite, AllowanceShape
  <1>. QED  BY <1>7, <1>8, <1>10, <1>11, <1>12

LEMMA DeliversAs ==
  ASSUME AllowanceShape, NEW t \in ReplyTasks, ReplyDeliver(t)
  PROVE  \E q : ReplyBecomes(t, q) /\ Accounts(replies[t], q)
  <1>1. t \in AllReplies /\ replies[t] \in Replies /\ ReplyShape(t, replies[t], locks.current)
    BY DEF AllReplies, AllowanceShape
  <1>2. /\ replies[t].pc = "answering" /\ replies[t].stamp.at > 0 /\ replies[t].stamp.by = t
        /\ replies[t].window = NoStamp /\ replies[t].lock <= locks.current
        /\ ~Denied(replies[t].read, replies[t].stamp)
        /\ replies[t].write = ClaimedRow(replies[t].read, replies[t].stamp)
    BY <1>1 DEF ReplyDeliver, ReplyShape, Claims, Writes
  <1>3. /\ leaked \in BOOLEAN
        /\ locks.current \in Nat /\ locks.held \subseteq 1 .. locks.current
    BY DEF AllowanceShape
  <1>4. UNCHANGED <<row, replyClock, leaked, restarted>>
    BY DEF ReplyDeliver
  <1>5. CASE replies' = [replies EXCEPT ![t].pc = "releasing"] /\ UNCHANGED locks
    <2>1. PICK q : q = [replies[t] EXCEPT !.pc = "releasing"]
      OBVIOUS
    <2>2. replies' = [replies EXCEPT ![t] = q]
      BY <1>1, <1>5, <2>1 DEF AllowanceShape
    <2>3. IsReply(q, "releasing", replies[t].lock, replies[t].tries, replies[t].stamp,
                  replies[t].read, replies[t].write, replies[t].window)
      BY <1>1, <2>1, MovedReply
    <2>4. ReplyShape(t, q, locks.current)
      BY <1>2, <2>3 DEF IsReply, ReplyShape, Claims, Writes
    <2>5. ReplyBecomes(t, q)
      BY <1>3, <1>4, <1>5, <2>2, <2>4 DEF ReplyBecomes
    <2>6. MovesOn(row, replies[t], q, leaked')
      BY <1>2, <2>3 DEF IsReply, MovesOn, WindowOf, Holding, Unwritten, Tries
    <2>. QED  BY <1>4, <2>5, <2>6 DEF Accounts
  <1>6. CASE End(t, "sent") /\ locks' = Leave(t)
    <2>1. PICK q : /\ replies' = [replies EXCEPT ![t] = q] /\ ReplyShape(t, q, locks.current)
                   /\ q.pc = "sent" /\ q.read = NoRow /\ q.window = replies[t].write.window
      BY <1>1, <1>2, <1>6, EndsAs
    <2>2. ReplyBecomes(t, q)
      BY <1>3, <1>4, <1>6, <2>1, Leaves DEF ReplyBecomes
    <2>3. MovesOn(row, replies[t], q, leaked')
      BY <1>2, <2>1, NoStampFacts DEF MovesOn, WindowOf, Holding, Unwritten, Tries
    <2>. QED  BY <1>4, <2>2, <2>3 DEF Accounts
  <1>. QED  BY <1>5, <1>6 DEF ReplyDeliver

LEMMA ReleasesAs ==
  ASSUME AllowanceShape, NEW t \in ReplyTasks, ReplyRelease(t)
  PROVE  /\ \E q : ReplyBecomes(t, q) /\ Accounts(replies[t], q)
         /\ row' \in Rows
  <1>1. t \in AllReplies /\ replies[t] \in Replies /\ ReplyShape(t, replies[t], locks.current)
    BY DEF AllReplies, AllowanceShape
  <1>2. replies[t].pc = "releasing" /\ replies[t].read \in Rows
    BY <1>1, ShapeFacts DEF ReplyRelease
  <1>3. /\ replies[t].write.window # NoStamp
        /\ Joins(replies[t].read, replies[t].write)
              \/ OpensAt(replies[t].read, replies[t].stamp, replies[t].write)
        /\ replies[t].stamp \in Stamps
    BY <1>1, <1>2, WriteFacts, ShapeFacts DEF Writes
  <1>4. /\ row \in Rows /\ leaked \in BOOLEAN
        /\ locks.current \in Nat /\ locks.held \subseteq 1 .. locks.current
    BY DEF AllowanceShape
  <1>5. End(t, "over") /\ locks' = Leave(t) /\ UNCHANGED <<replyClock, restarted>>
    BY DEF ReplyRelease
  <1>6. PICK q : /\ replies' = [replies EXCEPT ![t] = q] /\ ReplyShape(t, q, locks.current)
                 /\ WindowOf(q) = NoStamp /\ ~Holding(q.pc) /\ ~Unwritten(q) /\ ~Tries(q.pc)
                 /\ q.read.window = NoStamp
    BY <1>5, GivesUpAs
  <1>7. CASE row = replies[t].write /\ row' = Restored(replies[t]) /\ UNCHANGED leaked
    <2>1. /\ row' \in Rows /\ row'.exists
          /\ row'.window = replies[t].read.window /\ row'.used = replies[t].read.used
      BY <1>2, <1>7, RestoredRow
    <2>2. ReplyBecomes(t, q)
      BY <1>4, <1>5, <1>6, <1>7, Leaves DEF ReplyBecomes
    <2>3. replies[t].write.window # replies[t].read.window \/ Joins(replies[t].read, replies[t].write)
      <3>1. CASE OpensAt(replies[t].read, replies[t].stamp, replies[t].write)
        BY <1>2, <1>3, <3>1, RowFacts, AllowanceAssumption DEF OpensAt, Stamps
      <3>. QED  BY <1>3, <3>1
    <2>4. GivesBack(row, replies[t], q, row')
      BY <1>2, <1>3, <1>6, <1>7, <2>1, <2>3 DEF GivesBack, Holding
    <2>. QED  BY <1>7, <2>1, <2>2, <2>4 DEF Accounts
  <1>8. CASE leaked' = TRUE /\ UNCHANGED row
    <2>1. ReplyBecomes(t, q)
      BY <1>5, <1>6, <1>8, Leaves DEF ReplyBecomes
    <2>2. MovesOn(row, replies[t], q, leaked')
      BY <1>6, <1>8 DEF MovesOn
    <2>. QED  BY <1>4, <1>8, <2>1, <2>2 DEF Accounts
  <1>. QED  BY <1>7, <1>8 DEF ReplyRelease, ReleaseMatches

LEMMA AbandonsAs ==
  ASSUME AllowanceShape, NEW t \in ReplyTasks, ReplyAbandon(t)
  PROVE  \E q : ReplyBecomes(t, q) /\ Accounts(replies[t], q)
  <1>1. t \in AllReplies /\ replies[t] \in Replies /\ ReplyShape(t, replies[t], locks.current)
    BY DEF AllReplies, AllowanceShape
  <1>2. /\ replies[t].pc \in InThread \union {"waiting", "answering"}
        /\ UNCHANGED <<row, replyClock, restarted>>
        /\ locks' = IF replies[t].pc = "waiting" THEN locks ELSE Leave(t)
    BY DEF ReplyAbandon
  <1>3. /\ leaked \in BOOLEAN
        /\ locks.current \in Nat /\ locks.held \subseteq 1 .. locks.current
    BY DEF AllowanceShape
  <1>4. locks'.current = locks.current /\ locks'.held \subseteq 1 .. locks.current
    BY <1>2, <1>3, Leaves
  <1>5. CASE replies[t].pc \in InThread
    <2>1. /\ replies' = [replies EXCEPT ![t].owned = FALSE, ![t].lock = 0]
          /\ UNCHANGED leaked
      BY <1>5 DEF ReplyAbandon
    <2>2. PICK q : q = [replies[t] EXCEPT !.owned = FALSE, !.lock = 0]
      OBVIOUS
    <2>3. replies' = [replies EXCEPT ![t] = q]
      BY <1>1, <2>1, <2>2 DEF AllowanceShape
    <2>4. IsReply(q, replies[t].pc, 0, replies[t].tries, replies[t].stamp,
                  replies[t].read, replies[t].write, replies[t].window)
      BY <1>1, <2>2, OrphanedReply
    <2>5. ReplyShape(t, q, locks.current)
      BY <1>1, <1>3, <1>5, <2>4 DEF IsReply, ReplyShape, Claims, Writes, InThread
    <2>6. ReplyBecomes(t, q)
      BY <1>2, <1>3, <1>4, <2>1, <2>3, <2>5 DEF ReplyBecomes
    <2>7. MovesOn(row, replies[t], q, leaked')
      BY <2>4 DEF IsReply, MovesOn, WindowOf, Holding, Unwritten, Tries
    <2>. QED  BY <1>2, <2>6, <2>7 DEF Accounts
  <1>6. CASE replies[t].pc \notin InThread
    <2>1. End(t, "over") /\ leaked' = (leaked \/ replies[t].pc = "answering")
      BY <1>6 DEF ReplyAbandon
    <2>2. PICK q : /\ replies' = [replies EXCEPT ![t] = q] /\ ReplyShape(t, q, locks.current)
                   /\ WindowOf(q) = NoStamp /\ ~Holding(q.pc) /\ ~Unwritten(q) /\ ~Tries(q.pc)
                   /\ q.read.window = NoStamp
      BY <2>1, GivesUpAs
    <2>3. leaked' \in BOOLEAN /\ (leaked => leaked')
      BY <1>3, <2>1
    <2>4. ReplyBecomes(t, q)
      BY <1>2, <1>4, <2>2, <2>3 DEF ReplyBecomes
    <2>5. WindowOf(replies[t]) = NoStamp \/ leaked'
      BY <1>2, <1>3, <1>6, <2>1 DEF InThread, WindowOf, Holding
    <2>6. MovesOn(row, replies[t], q, leaked')
      BY <2>2, <2>5 DEF MovesOn
    <2>. QED  BY <1>2, <2>4, <2>6 DEF Accounts
  <1>. QED  BY <1>5, <1>6

LEMMA HandlerSteps ==
  ASSUME AllowanceShape, NEW t \in ReplyTasks, ReplyStep(t) \/ ReplyAbandon(t)
  PROVE  /\ \E q : ReplyBecomes(t, q) /\ Accounts(replies[t], q)
         /\ row' \in Rows
  <1>1. row \in Rows
    BY DEF AllowanceShape
  <1>2. CASE ReplyArrive(t)
    BY <1>1, <1>2, ArrivesAs DEF ReplyArrive
  <1>3. CASE ReplyLock(t)
    BY <1>1, <1>3, LocksAs DEF ReplyLock
  <1>4. CASE ReplyRead(t)
    BY <1>1, <1>4, ReadsAs DEF ReplyRead
  <1>5. CASE ReplyWrite(t)
    BY <1>5, WritesAs
  <1>6. CASE ReplyDeliver(t)
    BY <1>1, <1>6, DeliversAs DEF ReplyDeliver
  <1>7. CASE ReplyRelease(t)
    BY <1>7, ReleasesAs
  <1>8. CASE ReplyAbandon(t)
    BY <1>1, <1>8, AbandonsAs DEF ReplyAbandon
  <1>. QED  BY <1>2, <1>3, <1>4, <1>5, <1>6, <1>7, <1>8 DEF ReplyStep

-----------------------------------------------------------------------------
(* The invariant of the allowance. *)

LEMMA StepKeepsShape ==
  ASSUME AllowanceShape, NEW t \in ReplyTasks, NEW q, ReplyBecomes(t, q), row' \in Rows
  PROVE  AllowanceShape'
  <1>1. t \in AllReplies /\ t # Past
    BY AllowanceAssumption DEF AllReplies
  <1>2. q \in Replies
    BY DEF ReplyBecomes, ReplyShape
  <1>3. replies' \in [AllReplies -> Replies]
    BY <1>1, <1>2 DEF AllowanceShape, ReplyBecomes
  <1>4. \A v \in AllReplies : replies'[v] = IF v = t THEN q ELSE replies[v]
    BY <1>1 DEF AllowanceShape, ReplyBecomes
  <1>5. Past \in AllReplies
    BY DEF AllReplies
  <1>6. ReplyOver(replies'[Past].pc)
    BY <1>1, <1>4, <1>5 DEF AllowanceShape
  <1>7. \A v \in AllReplies : ReplyShape(v, replies'[v], locks'.current)
    BY <1>4 DEF AllowanceShape, ReplyBecomes
  <1>8. /\ replyClock' \in 1 .. ReplyHorizon
        /\ locks'.current \in Nat /\ locks'.current > 0 /\ locks'.held \subseteq 1 .. locks'.current
        /\ leaked' \in BOOLEAN /\ restarted' \in BOOLEAN
    BY DEF AllowanceShape, ReplyBecomes
  <1>. QED  BY <1>3, <1>6, <1>7, <1>8 DEF AllowanceShape

LEMMA StepKeepsSound ==
  ASSUME AllowanceShape, Sound(row, replies, leaked, restarted),
         NEW t \in ReplyTasks, NEW q, ReplyBecomes(t, q), Accounts(replies[t], q), row' \in Rows
  PROVE  Sound(row', replies', leaked', restarted')
  <1> SUFFICES ASSUME ~(leaked' /\ restarted')
               PROVE  CountInv(row', replies', leaked') /\ OpenedOnce(row', replies', leaked')
    BY DEF Sound
  <1>1. t \in AllReplies
    BY DEF AllReplies
  <1>2. leaked => leaked'
    BY DEF ReplyBecomes
  <1>3. CountInv(row, replies, leaked) /\ OpenedOnce(row, replies, leaked)
    BY <1>2 DEF Sound, ReplyBecomes
  <1>4. OneBecomes(replies, replies', t, q)
    BY <1>1 DEF AllowanceShape, ReplyBecomes, OneBecomes
  <1>5. /\ row \in Rows /\ row.window \in Stamps
        /\ \A v \in AllReplies : ReplyShape(v, replies[v], locks.current)
    BY RowFacts DEF AllowanceShape
  <1>6. Typed(row, replies)
    BY <1>5, ShapeFacts DEF Typed
  <1>7. \A u \in ReplyTasks : Tries(replies[u].pc) =>
           replies[u].stamp \in Stamps /\ replies[u].stamp.at > 0 /\ replies[u].stamp.by = u
    BY <1>5, ShapeFacts DEF AllReplies
  <1>8. CASE row' = row /\ MovesOn(row, replies[t], q, leaked')
    <2>1. CountInv(row, replies', leaked') /\ OpenedOnce(row, replies', leaked')
      BY <1>2, <1>3, <1>4, <1>6, <1>8, CountSurvives, OpenedSurvives
    <2>. QED  BY <1>8, <2>1
  <1>9. CASE Lands(row, replies[t], q, row', leaked') /\ Joins(replies[t].read, row')
    BY <1>2, <1>3, <1>4, <1>6, <1>9, JoinKeepsCount, JoinKeepsOpened
  <1>10. CASE Lands(row, replies[t], q, row', leaked') /\ OpensAt(replies[t].read, replies[t].stamp, row')
    <2>1. Tries(replies[t].pc) /\ replies[t].read \in Rows /\ row.window = replies[t].read.window
      BY <1>10 DEF Lands, Tries
    <2>2. Unseen(row, replies, t)
      BY <1>3, <1>7, <1>10, <2>1, OpenerIsUnseen
    <2>3. CountInv(row', replies', leaked')
      BY <1>2, <1>3, <1>4, <1>6, <1>7, <1>10, <2>1, <2>2, OpenKeepsCount
    <2>4. OpenedOnce(row', replies', leaked')
      BY <1>2, <1>3, <1>4, <1>5, <1>7, <1>10, <2>1, <2>2, OpenKeepsOpened
    <2>. QED  BY <2>3, <2>4
  <1>11. CASE GivesBack(row, replies[t], q, row') /\ leaked' = leaked
    <2>1. CountInv(row', replies', leaked) /\ OpenedOnce(row', replies', leaked)
      BY <1>3, <1>4, <1>6, <1>11, GivenBackCount, GivenBackOpened
    <2>. QED  BY <1>11, <2>1
  <1>. QED  BY <1>8, <1>9, <1>10, <1>11 DEF Accounts

LEMMA AllowanceStarts == AllowanceInit => AllowanceInv
  <1> SUFFICES ASSUME AllowanceInit PROVE AllowanceInv
    OBVIOUS
  <1> USE DEF AllowanceInit
  <1>1. /\ PastStamp \in Stamps /\ PastStamp # NoStamp /\ PastStamp.by = Past
        /\ PastStamp.at + 1 \in 1 .. ReplyHorizon
    <2>1. PastStamp.at = 1 /\ PastStamp.by = Past /\ 1 \in 0 .. ReplyHorizon /\ Past \in AllReplies
      BY AllowanceAssumption DEF PastStamp, AllReplies
    <2>2. PastStamp \in Stamps
      BY <2>1 DEF PastStamp, Stamps
    <2>3. PastStamp # NoStamp
      BY <2>1, NoStampFacts
    <2>. QED  BY <2>1, <2>2, <2>3, AllowanceAssumption
  <1>2. PastRow \in Rows /\ PastRow.exists /\ PastRow.used = 1 /\ PastRow.window = PastStamp
    <2>1. PastRow.exists /\ PastRow.used = 1 /\ PastRow.window = PastStamp
      BY DEF PastRow
    <2>2. 1 \in 0 .. MaxReplies
      BY AllowanceAssumption
    <2>3. PastRow \in CounterRows
      BY <1>1, <2>2 DEF PastRow, CounterRows
    <2>. QED  BY <1>1, <2>1, <2>3 DEF Rows
  <1>3. row \in Rows /\ (row = NoRow \/ row = PastRow) /\ (row.exists <=> row = PastRow)
    BY <1>2, NoStampFacts
  <1>4. locks.current = 1 /\ locks.held = {}
    OBVIOUS
  <1>5. PICK over : over = [NewReply EXCEPT !.pc = "over"]
    OBVIOUS
  <1>6. /\ over \in Replies /\ over.pc = "over" /\ over.window = NoStamp
        /\ over.read = NoRow /\ over.lock = 0
    <2>1. \A x \in Replies : LET q == [x EXCEPT !.pc = "over"] IN
             /\ q \in Replies /\ q.pc = "over" /\ q.window = x.window
             /\ q.read = x.read /\ q.lock = x.lock
      BY DEF Replies
    <2>. QED  BY <1>5, <2>1, NewReplyFacts
  <1>7. PICK sent : sent = Ended("sent", PastStamp)
    OBVIOUS
  <1>8. /\ sent \in Replies /\ sent.pc = "sent" /\ sent.window = PastStamp
        /\ sent.read = NoRow /\ ReplyShape(Past, sent, 1)
    <2>1. /\ ReplyShape(Past, Ended("sent", PastStamp), 1)
          /\ Ended("sent", PastStamp).pc = "sent" /\ Ended("sent", PastStamp).read = NoRow
          /\ Ended("sent", PastStamp).window = PastStamp
      BY <1>1, EndedShape
    <2>. QED  BY <1>7, <2>1 DEF ReplyShape
  <1>9. Past \in AllReplies
    BY DEF AllReplies
  <1>10. replies = [t \in AllReplies |-> IF t = Past /\ row.exists THEN sent
                                        ELSE IF t = Past THEN over ELSE NewReply]
    BY <1>5, <1>7 DEF Ended
  <1>11. replies \in [AllReplies -> Replies]
    BY <1>6, <1>8, <1>10, NewReplyFacts
  <1>12. \A v \in AllReplies :
           /\ replies[v].read = NoRow
           /\ v # Past => replies[v] = NewReply
           /\ v = Past /\ row.exists => replies[v] = sent
           /\ v = Past /\ ~row.exists => replies[v] = over
    BY <1>6, <1>8, <1>10, NewReplyFacts
  <1>13. AllowanceShape
    <2>1. \A v : ReplyShape(v, NewReply, 1) /\ ReplyShape(v, over, 1)
      BY <1>6, NewReplyFacts DEF ReplyShape, Claims, Writes
    <2>2. \A v \in AllReplies : ReplyShape(v, replies[v], 1)
      BY <1>8, <1>12, <2>1
    <2>3. ReplyOver(replies[Past].pc)
      BY <1>6, <1>8, <1>9, <1>12 DEF ReplyOver
    <2>4. replyClock \in 1 .. ReplyHorizon /\ leaked \in BOOLEAN /\ restarted \in BOOLEAN
      BY <1>1
    <2>5. /\ locks.current \in Nat /\ locks.current > 0 /\ locks.held \subseteq 1 .. locks.current
          /\ \A v \in AllReplies : ReplyShape(v, replies[v], locks.current)
      BY <1>4, <2>2
    <2> HIDE DEF AllowanceInit
    <2>. QED  BY <1>3, <1>11, <2>3, <2>4, <2>5 DEF AllowanceShape
  <1>14. \A v \in AllReplies :
            /\ ~Holding(replies[v].pc) /\ ~Tries(replies[v].pc)
            /\ WindowOf(replies[v]) = IF v = Past /\ row.exists THEN PastStamp ELSE NoStamp
    BY <1>6, <1>8, <1>12, NewReplyFacts DEF Holding, Tries, WindowOf
  <1>15. \A w : w # NoStamp => Counted(replies, w) = IF row.exists /\ w = PastStamp THEN {Past} ELSE {}
    BY <1>1, <1>9, <1>14 DEF Counted
  <1>16. Cardinality({Past}) = 1 /\ Cardinality({}) = 0
    BY FS_Singleton, FS_EmptySet
  <1>17. CountInv(row, replies, leaked)
    <2>1. \A w \in Stamps : w # NoStamp => Cardinality(Counted(replies, w)) <= MaxReplies
      BY <1>15, <1>16, AllowanceAssumption
    <2>2. Fits(replies, leaked, row)
      BY <1>2, <1>3, <1>15, <1>16, NoStampFacts DEF Fits
    <2>3. \A v \in AllReplies : ~Opens(replies[v])
      BY <1>14 DEF Opens
    <2>. QED  BY <2>1, <2>2, <2>3 DEF CountInv
  <1>18. \A u \in ReplyTasks : Unseen(row, replies, u)
    BY <1>1, <1>2, <1>3, <1>12, <1>14, NoStampFacts, AllowanceAssumption DEF Unseen
  <1>19. OpenedOnce(row, replies, leaked)
    BY <1>18 DEF OpenedOnce
  <1>. QED  BY <1>13, <1>17, <1>19 DEF AllowanceInv, Sound

LEMMA AllowanceInductive == AllowanceInv /\ [AllowanceNext]_allowanceVars => AllowanceInv'
  <1> SUFFICES ASSUME AllowanceInv, [AllowanceNext]_allowanceVars PROVE AllowanceInv'
    OBVIOUS
  <1>0. AllowanceShape /\ Sound(row, replies, leaked, restarted)
    BY DEF AllowanceInv
  <1>1. CASE \E t \in ReplyTasks : ReplyStep(t) \/ ReplyAbandon(t)
    <2>1. PICK t \in ReplyTasks : ReplyStep(t) \/ ReplyAbandon(t)
      BY <1>1
    <2>2. PICK q : ReplyBecomes(t, q) /\ Accounts(replies[t], q)
      BY <1>0, <2>1, HandlerSteps
    <2>3. row' \in Rows
      BY <1>0, <2>1, HandlerSteps
    <2>. QED  BY <1>0, <2>2, <2>3, StepKeepsShape, StepKeepsSound DEF AllowanceInv
  <1>2. CASE EvictLock
    <2>1. /\ UNCHANGED <<row, replies, replyClock, leaked, restarted>>
          /\ locks.current \in Nat /\ locks'.current = locks.current + 1 /\ locks'.held = locks.held
      BY <1>0, <1>2 DEF EvictLock, AllowanceShape
    <2>2. ASSUME NEW v \in AllReplies PROVE ReplyShape(v, replies[v], locks.current + 1)
      <3>1. ReplyShape(v, replies[v], locks.current)
        BY <1>0 DEF AllowanceShape
      <3>2. replies[v].lock \in Nat
        BY <3>1, ShapeFacts
      <3>3. replies[v].lock <= locks.current
        BY <3>1 DEF ReplyShape
      <3>4. replies[v].lock <= locks.current + 1
        BY <2>1, <3>2, <3>3
      <3>. QED  BY <3>1, <3>4 DEF ReplyShape
    <2>3. locks'.held \subseteq 1 .. locks'.current
      BY <1>0, <2>1 DEF AllowanceShape
    <2>4. AllowanceShape'
      BY <1>0, <2>1, <2>2, <2>3 DEF AllowanceShape
    <2>. QED  BY <1>0, <2>1, <2>4 DEF AllowanceInv
  <1>3. CASE ResetCounters
    <2>1. /\ UNCHANGED <<replies, locks, replyClock, leaked>> /\ row' = NoRow
          /\ restarted' = (restarted \/ \E t \in ReplyTasks : TriedAgain(t))
      BY <1>3 DEF ResetCounters
    <2>2. AllowanceShape'
      BY <1>0, <2>1, NoStampFacts DEF AllowanceShape
    <2>3. ASSUME ~(leaked /\ restarted')
          PROVE  CountInv(NoRow, replies, leaked) /\ OpenedOnce(NoRow, replies, leaked)
      <3>1. CountInv(row, replies, leaked) /\ OpenedOnce(row, replies, leaked)
        BY <1>0, <2>1, <2>3 DEF Sound, AllowanceShape
      <3>2. leaked => \A u \in ReplyTasks : ~TriedAgain(u)
        BY <1>0, <2>1, <2>3 DEF AllowanceShape
      <3>3. \A u \in ReplyTasks : replies[u].tries \in Nat
        BY <1>0, ShapeFacts, AllowanceAssumption DEF AllowanceShape, AllReplies
      <3>4. leaked => \A u \in ReplyTasks : Tries(replies[u].pc) => Unwritten(replies[u])
        BY <3>2, <3>3 DEF TriedAgain, Tries, Unwritten
      <3>. QED  BY <3>1, <3>4, ResetIsSafe
    <2>4. Sound(row', replies', leaked', restarted')
      BY <2>1, <2>3 DEF Sound
    <2>. QED  BY <2>2, <2>4 DEF AllowanceInv
  <1>4. CASE AllowanceTick
    <2>1. /\ UNCHANGED <<row, replies, locks, leaked, restarted>> /\ replyClock' = replyClock + 1
          /\ replyClock < ReplyHorizon
      BY <1>4 DEF AllowanceTick
    <2>2. replyClock' \in 1 .. ReplyHorizon
      BY <1>0, <2>1, AllowanceAssumption DEF AllowanceShape
    <2>3. AllowanceShape'
      BY <1>0, <2>1, <2>2 DEF AllowanceShape
    <2>. QED  BY <1>0, <2>1, <2>3 DEF AllowanceInv
  <1>5. CASE UNCHANGED allowanceVars
    BY <1>5 DEF allowanceVars, AllowanceInv, AllowanceShape
  <1>. QED  BY <1>1, <1>2, <1>3, <1>4, <1>5 DEF AllowanceNext

LEMMA AllowanceInvariant == AllowanceSpec => []AllowanceInv
  <1>. QED  BY AllowanceStarts, AllowanceInductive, PTL DEF AllowanceSpec

LEMMA SoundIsKept == AllowanceInv => AllowanceIsKept
  <1> SUFFICES ASSUME AllowanceInv PROVE AllowanceIsKept
    OBVIOUS
  <1>1. AllowanceShape /\ Sound(row, replies, leaked, restarted)
    BY DEF AllowanceInv
  <1>2. ASSUME NEW t \in AllReplies
        PROVE  /\ replies[t].pc = "sent" <=> replies[t].window # NoStamp
               /\ replies[t].window \in Stamps
    <2>1. ReplyShape(t, replies[t], locks.current)
      BY <1>1 DEF AllowanceShape
    <2>. QED  BY <2>1, ShapeFacts DEF ReplyShape
  <1>3. ASSUME ~restarted, NEW t \in AllReplies
        PROVE  Cardinality(SentIn(replies[t].window)) <= MaxReplies
    <2>1. CASE replies[t].window = NoStamp
      <3>1. SentIn(replies[t].window) = {}
        BY <1>2, <2>1 DEF SentIn
      <3>. QED  BY <3>1, FS_EmptySet, AllowanceAssumption
    <2>2. CASE replies[t].window # NoStamp
      <3>1. CountInv(row, replies, leaked)
        BY <1>1, <1>3 DEF Sound
      <3>2. Cardinality(Counted(replies, replies[t].window)) <= MaxReplies
        BY <1>2, <2>2, <3>1 DEF CountInv
      <3>3. SentIn(replies[t].window) \subseteq Counted(replies, replies[t].window)
        BY DEF SentIn, Counted, WindowOf
      <3>4. /\ Cardinality(SentIn(replies[t].window)) <= Cardinality(Counted(replies, replies[t].window))
            /\ Cardinality(SentIn(replies[t].window)) \in Nat
            /\ Cardinality(Counted(replies, replies[t].window)) \in Nat
        BY <3>3, CountedIsFinite, FS_Subset, FS_CardinalityType
      <3>. QED  BY <3>2, <3>4, AllowanceAssumption
    <2>. QED  BY <2>1, <2>2
  <1>4. ASSUME ~leaked, row.window # NoStamp,
               \A t \in ReplyTasks : replies[t].pc = "idle" \/ ReplyOver(replies[t].pc)
        PROVE  row.used = Cardinality(SentIn(row.window))
    <2>1. CountInv(row, replies, leaked)
      BY <1>1, <1>4 DEF Sound
    <2>2. Cardinality(Counted(replies, row.window)) = row.used
      BY <1>4, <2>1 DEF CountInv, Fits
    <2>3. \A t \in AllReplies : ~Holding(replies[t].pc)
      BY <1>1, <1>4 DEF AllReplies, AllowanceShape, ReplyOver, Holding
    <2>4. SentIn(row.window) = Counted(replies, row.window)
      BY <1>4, <2>3 DEF SentIn, Counted, WindowOf
    <2>. QED  BY <2>2, <2>4
  <1>. QED  BY <1>3, <1>4 DEF AllowanceIsKept, LimitHoldsInEveryWindow, QuietCounterIsExact

\* The counter row, what a claim keeps of it, the attempts and the locks stay within
\* their bounds, whatever a handler, its thread or the owner does
\* (claim_ai_reply, release_ai_reply, _sender_lock).
THEOREM AllowanceTypeCorrect == AllowanceSpec => []AllowanceTypeOK
  <1>1. AllowanceInv => AllowanceTypeOK
    BY ShapeFacts, RowFacts DEF AllowanceInv, AllowanceShape, AllowanceTypeOK
  <1>. QED  BY <1>1, AllowanceInvariant, PTL

\* No reset window sees more replies than the owner allows unless he resets the
\* counters between two attempts of one claim; and with no handler under way the
\* counter is exactly the replies sent in its window unless an allowance was lost
\* (claim_ai_reply and release_ai_reply against each other, against a claim that
\* outlives its handler, and under the dropped lock of _sender_lock).
THEOREM AllowanceKept == AllowanceSpec => []AllowanceIsKept
  <1>. QED  BY AllowanceInvariant, SoundIsKept, PTL

-----------------------------------------------------------------------------
(* The inductive invariant.  A request that is answered or over runs none of its  *)
(* calls any more: that is where the calls of approvals and of reports belong.    *)
(* A call that ran by itself belongs to an earlier answer of its request, or to   *)
(* the present one, before the position reached or with the round noted.          *)

Stages == {"idle", "queued", "begun", "approved", "model", "round", "calls", "asked",
           "rest", "late", "answer", "over"}
Settled == {"answer", "over"}
Kinds == {"auto", "gated"}
Batches == Seq(Kinds)
AnyCall == AIRequests \X Nat \X Nat \X Kinds

RequestType ==
    [pc: Stages, batch: Batches, answer: Nat, pos: Nat \ {0}, rounds: Nat,
     ran: BOOLEAN, failed: BOOLEAN, once: BOOLEAN, prompt: AnyCall \union {NoCall},
     took: [call: AnyCall \union {NoCall}, age: Int], seen: SUBSET AnyCall]

ToolShape ==
    /\ talk \in Talks
    /\ ai \in [AIRequests -> RequestType]
    /\ approval \in [call: AnyCall \union {NoCall}, at: Int]
    /\ toolRuns \in [done: SUBSET AnyCall, again: SUBSET AnyCall, denied: SUBSET AnyCall]
    /\ prompts \subseteq AnyCall
    /\ aiClock \in Int

(* What an approval may name, stored or taken. *)
Approvable(call) ==
    /\ call \in AnyCall /\ call[4] = "gated"
    /\ ai[call[1]].pc \in Settled
    /\ call \notin toolRuns.denied

StoredInv == approval # NoApproval => Approvable(approval.call)

TakenInv ==
    \A r \in AIRequests :
        /\ ai[r].pc = "approved" => ai[r].took # NothingTaken
        /\ ai[r].took # NothingTaken =>
              /\ Approvable(ai[r].took.call)
              /\ ai[r].took.age < ApprovalTTL
              /\ ai[r].pc \in {"approved", "answer", "over"}
              /\ ai[r].took.call # approval.call
              /\ \A q \in AIRequests \ {r} : ai[q].took.call # ai[r].took.call

PlacedIn(call, q) ==
    \/ q.pc \in Settled
    \/ call[2] < q.answer
    \/ /\ call[2] = q.answer
       /\ \/ q.pc \in {"calls", "late"} /\ call[3] < q.pos
          \/ q.pc \in {"asked", "rest"} /\ q.ran

RanInv ==
    \A call \in toolRuns.done :
        \/ call[4] = "auto" /\ PlacedIn(call, ai[call[1]])
        \/ /\ call[4] = "gated"
           /\ \E r \in AIRequests : ai[r].took.call = call /\ ai[r].pc \in Settled

ReportInv ==
    /\ toolRuns.again = {}
    /\ \A call \in toolRuns.denied : ai[call[1]].pc \in Settled /\ call \notin toolRuns.done

ToolInv == ToolShape /\ StoredInv /\ TakenInv /\ RanInv /\ ReportInv

-----------------------------------------------------------------------------
(* Facts about the model's operators.                                          *)

LEMMA BatchesAreSequences == \A t \in Talks : t.batches \subseteq Batches
  BY ToolAssumption DEF Kinds, Batches

LEMMA NewRequestHasItsType == NewRequest \in RequestType
  <1>1. <<>> \in Batches
    BY DEF Batches
  <1>2. [call |-> NoCall, age |-> 0] \in [call: AnyCall \union {NoCall}, age: Int]
    OBVIOUS
  <1>. QED  BY <1>1, <1>2 DEF NewRequest, RequestType, NothingTaken, Stages

LEMMA NoCallIsNoCall == NoCall \notin AnyCall
  BY DEF NoCall, AnyCall

LEMMA CallsOfBatches ==
  ASSUME ToolShape, NEW r \in AIRequests, NEW i \in 1 .. Len(ai[r].batch)
  PROVE  /\ Call(r, i) \in AnyCall
         /\ Call(r, i)[1] = r /\ Call(r, i)[2] = ai[r].answer /\ Call(r, i)[3] = i
         /\ Call(r, i)[4] = ai[r].batch[i]
  <1>1. ai[r].batch \in Seq(Kinds) /\ ai[r].answer \in Nat
    BY DEF ToolShape, RequestType, Batches
  <1>2. ai[r].batch[i] \in Kinds /\ i \in Nat
    BY <1>1
  <1>. QED  BY <1>1, <1>2 DEF Call, AnyCall

LEMMA InitEstablishes == ToolInit => ToolInv
  <1>. SUFFICES ASSUME ToolInit PROVE ToolInv
    OBVIOUS
  <1>1. ToolShape
    BY NewRequestHasItsType DEF ToolInit, ToolShape, NoApproval
  <1>. QED
    BY <1>1 DEF ToolInit, ToolInv, StoredInv, TakenInv, RanInv, ReportInv, NewRequest

-----------------------------------------------------------------------------
(* A step of one request that stores, takes and runs nothing.                  *)

LEMMA MoveKeeps ==
  ASSUME ToolInv, NEW r \in AIRequests, NEW q \in RequestType,
         ai' = [ai EXCEPT ![r] = q],
         UNCHANGED <<talk, toolRuns, aiClock>>, approval' \in {approval, NoApproval},
         prompts' \subseteq AnyCall, q.took = ai[r].took, q.pc # "approved",
         ai[r].pc \in Settled => q.pc \in Settled,
         ai[r].took # NothingTaken => q.pc \in {"approved", "answer", "over"},
         \A call \in toolRuns.done :
            call[1] = r /\ call[4] = "auto" /\ PlacedIn(call, ai[r]) => PlacedIn(call, q)
  PROVE  ToolInv'
  <1>1. ToolShape'
    BY DEF ToolInv, ToolShape, NoApproval
  <1>2. /\ ai'[r] = q
        /\ \A p \in AIRequests : p # r => ai'[p] = ai[p]
        /\ \A p \in AIRequests : ai'[p].took = ai[p].took
        /\ \A p \in AIRequests : ai[p].pc \in Settled => ai'[p].pc \in Settled
    BY DEF ToolInv, ToolShape
  <1>3. \A call \in AnyCall : call[1] \in AIRequests
    BY DEF AnyCall
  <1>4. \A call : Approvable(call) => Approvable(call)'
    BY <1>2, <1>3 DEF Approvable
  <1>5. StoredInv'
    BY <1>4 DEF ToolInv, StoredInv
  <1>6. TakenInv'
    <2>1. \A c : Approvable(c) => c # NoCall
      BY NoCallIsNoCall DEF Approvable
    <2>2. \A p \in AIRequests : ai[p].took # NothingTaken => ai[p].took.call # approval'.call
      BY <2>1 DEF ToolInv, TakenInv, NoApproval
    <2>. QED  BY <1>2, <1>4, <2>2 DEF ToolInv, TakenInv
  <1>7. RanInv'
    <2>. SUFFICES ASSUME NEW call \in toolRuns.done
                  PROVE  \/ call[4] = "auto" /\ PlacedIn(call, ai'[call[1]])
                         \/ /\ call[4] = "gated"
                            /\ \E p \in AIRequests : ai'[p].took.call = call /\ ai'[p].pc \in Settled
      BY DEF RanInv, PlacedIn
    <2>1. call[1] \in AIRequests
      BY <1>3 DEF ToolInv, ToolShape
    <2>2. CASE call[4] = "auto" /\ PlacedIn(call, ai[call[1]])
      BY <1>2, <2>1, <2>2
    <2>3. CASE call[4] = "gated" /\ \E p \in AIRequests : ai[p].took.call = call /\ ai[p].pc \in Settled
      BY <1>2, <2>3
    <2>. QED  BY <2>2, <2>3 DEF ToolInv, RanInv
  <1>8. ReportInv'
    BY <1>2, <1>3 DEF ToolInv, ToolShape, ReportInv
  <1>. QED  BY <1>1, <1>5, <1>6, <1>7, <1>8 DEF ToolInv

LEMMA EndHasItsType ==
  ASSUME ToolShape, NEW r \in AIRequests, NEW took \in [call: AnyCall \union {NoCall}, age: Int]
  PROVE  [NewRequest EXCEPT !.pc = "over", !.took = took, !.seen = ai[r].seen] \in RequestType
  <1>1. ai[r].seen \in SUBSET AnyCall
    BY DEF ToolShape, RequestType
  <1>2. "over" \in Stages
    BY DEF Stages
  <1>. QED  BY <1>1, <1>2, NewRequestHasItsType DEF RequestType

LEMMA TurnEndKeeps ==
  ASSUME ToolInv, NEW r \in AIRequests, EndRequest(r, ai[r].took),
         UNCHANGED <<talk, approval, toolRuns, aiClock>>, prompts' \subseteq AnyCall
  PROVE  ToolInv'
  <1>. DEFINE q == [NewRequest EXCEPT !.pc = "over", !.took = ai[r].took, !.seen = ai[r].seen]
  <1>1. q \in RequestType
    BY EndHasItsType DEF ToolInv, ToolShape, RequestType
  <1>2. q.pc = "over" /\ q.took = ai[r].took
    BY DEF NewRequest
  <1>3. ai' = [ai EXCEPT ![r] = q]
    BY DEF EndRequest
  <1>4. \A call : PlacedIn(call, q)
    BY <1>2 DEF PlacedIn, Settled
  <1>. HIDE DEF q
  <1>. QED  BY <1>1, <1>2, <1>3, <1>4, MoveKeeps DEF Settled

LEMMA ArriveKeeps ==
  ASSUME ToolInv, NEW r \in AIRequests, AIArrive(r)
  PROVE  ToolInv'
  <1>. DEFINE q == [ai[r] EXCEPT !.pc = "queued", !.seen = IF talk.says[r] = "yes" THEN prompts ELSE {}]
  <1>1. ai[r] \in RequestType /\ prompts \in SUBSET AnyCall
    BY DEF ToolInv, ToolShape
  <1>2. q \in RequestType
    BY <1>1 DEF RequestType, Stages
  <1>3. q.pc = "queued" /\ q.took = ai[r].took /\ q.answer = ai[r].answer
    BY <1>1 DEF RequestType
  <1>4. ai' = [ai EXCEPT ![r] = q] /\ ai[r].pc = "idle" /\ UNCHANGED <<talk, approval, toolRuns, prompts, aiClock>>
    BY <1>1, ZenonT(40) DEF AIArrive, RequestType
  <1>5. ai[r].took = NothingTaken
    BY <1>4 DEF ToolInv, TakenInv
  <1>6. \A call : PlacedIn(call, ai[r]) => PlacedIn(call, q)
    BY <1>3, <1>4 DEF PlacedIn, Settled
  <1>. HIDE DEF q
  <1>. QED  BY <1>1, <1>2, <1>3, <1>4, <1>5, <1>6, MoveKeeps DEF Settled

(* A request that has taken nothing yet moves on; its calls stay where they were. *)
LEMMA LoopKeeps ==
  ASSUME ToolInv, NEW r \in AIRequests, NEW q \in RequestType,
         ai' = [ai EXCEPT ![r] = q], UNCHANGED <<talk, approval, toolRuns, prompts, aiClock>>,
         q.took = ai[r].took, ai[r].pc \notin {"approved", "answer", "over"}, q.pc # "approved",
         \A call \in AnyCall : PlacedIn(call, ai[r]) => PlacedIn(call, q)
  PROVE  ToolInv'
  <1>1. ai[r].took = NothingTaken
    BY DEF ToolInv, TakenInv
  <1>2. toolRuns.done \subseteq AnyCall /\ prompts \subseteq AnyCall
    BY DEF ToolInv, ToolShape
  <1>. QED  BY <1>1, <1>2, MoveKeeps DEF Settled

LEMMA StepToKeeps ==
  ASSUME ToolInv, NEW r \in AIRequests, NEW pc \in Stages \ {"approved"}, StepTo(r, pc),
         UNCHANGED <<talk, approval, toolRuns, prompts, aiClock>>,
         ai[r].pc \notin {"approved", "answer", "over"},
         \/ pc \in Settled
         \/ ai[r].pc \in {"queued", "begun", "model", "round"}
         \/ ai[r].pc = "asked" /\ pc = "rest"
  PROVE  ToolInv'
  <1>. DEFINE q == [ai[r] EXCEPT !.pc = pc]
  <1>1. ai[r] \in RequestType
    BY DEF ToolInv, ToolShape
  <1>2. /\ q \in RequestType /\ q.pc = pc /\ q.took = ai[r].took /\ q.answer = ai[r].answer
        /\ q.ran = ai[r].ran
    BY <1>1 DEF RequestType
  <1>3. ai' = [ai EXCEPT ![r] = q]
    BY <1>1 DEF StepTo, RequestType
  <1>4. \A call : PlacedIn(call, ai[r]) => PlacedIn(call, q)
    BY <1>2 DEF PlacedIn, Settled
  <1>. HIDE DEF q
  <1>. QED  BY <1>2, <1>3, <1>4, LoopKeeps

LEMMA AcquireKeeps ==
  ASSUME ToolInv, NEW r \in AIRequests, AIAcquire(r)
  PROVE  ToolInv'
  <1>1. ai[r].took = NothingTaken /\ prompts \subseteq AnyCall
    BY DEF AIAcquire, ToolInv, TakenInv, ToolShape
  <1>2. CASE StepTo(r, "begun")
    BY <1>2, StepToKeeps DEF AIAcquire, Stages
  <1>3. CASE EndRequest(r, NothingTaken)
    BY <1>1, <1>3, TurnEndKeeps DEF AIAcquire
  <1>. QED  BY <1>2, <1>3 DEF AIAcquire

LEMMA CutKeeps ==
  ASSUME ToolInv, NEW r \in AIRequests, AICut(r)
  PROVE  ToolInv'
  <1>1. prompts \subseteq AnyCall
    BY DEF ToolInv, ToolShape
  <1>. QED  BY <1>1, TurnEndKeeps DEF AICut

LEMMA ToolAnswerKeeps ==
  ASSUME ToolInv, NEW r \in AIRequests, AIAnswer(r)
  PROVE  ToolInv'
  <1>1. prompts \subseteq AnyCall /\ ai[r].prompt \in AnyCall \union {NoCall}
    BY DEF ToolInv, ToolShape, RequestType
  <1>2. prompts' \subseteq AnyCall
    BY <1>1 DEF AIAnswer
  <1>. QED  BY <1>2, TurnEndKeeps DEF AIAnswer

LEMMA ModelKeeps ==
  ASSUME ToolInv, NEW r \in AIRequests, AIModel(r)
  PROVE  ToolInv'
  <1>1. ai[r] \in RequestType /\ talk \in Talks /\ ai[r].pc = "model"
    BY DEF ToolInv, ToolShape, AIModel
  <1>2. CASE StepTo(r, "answer")
    BY <1>2, StepToKeeps DEF AIModel, Stages, Settled
  <1>3. ASSUME NEW b \in talk.batches, NEW once \in BOOLEAN,
               ai' = [ai EXCEPT ![r].pc = "round", ![r].batch = b, ![r].answer = @ + 1, ![r].once = once]
        PROVE  ToolInv'
    <2>. DEFINE q == [ai[r] EXCEPT !.pc = "round", !.batch = b, !.answer = @ + 1, !.once = once]
    <2>1. b \in Batches
      BY <1>1, BatchesAreSequences
    <2>2. ai[r].answer \in Nat
      BY <1>1 DEF RequestType
    <2>3. q \in RequestType
      <3>1. "round" \in Stages /\ ai[r].answer + 1 \in Nat
        BY <2>2 DEF Stages
      <3>. QED  BY <1>1, <2>1, <3>1 DEF RequestType
    <2>4. q.pc = "round" /\ q.took = ai[r].took /\ q.answer = ai[r].answer + 1
      BY <1>1 DEF RequestType
    <2>5. ai' = [ai EXCEPT ![r] = q]
      BY <1>1, <1>3 DEF RequestType
    <2>6. \A call \in AnyCall : PlacedIn(call, ai[r]) => PlacedIn(call, q)
      BY <1>1, <2>2, <2>4 DEF PlacedIn, Settled, AnyCall
    <2>. HIDE DEF q
    <2>. QED  BY <1>1, <2>3, <2>4, <2>5, <2>6, LoopKeeps DEF AIModel
  <1>. QED  BY <1>2, <1>3 DEF AIModel

LEMMA RoundKeeps ==
  ASSUME ToolInv, NEW r \in AIRequests, AIRound(r)
  PROVE  ToolInv'
  <1>1. ai[r] \in RequestType /\ ai[r].pc = "round"
    BY DEF ToolInv, ToolShape, AIRound
  <1>2. CASE StepTo(r, "rest")
    BY <1>1, <1>2, StepToKeeps DEF AIRound, Stages
  <1>3. CASE ai' = [ai EXCEPT ![r].pc = "calls", ![r].pos = 1]
    <2>. DEFINE q == [ai[r] EXCEPT !.pc = "calls", !.pos = 1]
    <2>1. /\ q \in RequestType /\ q.pc = "calls" /\ q.took = ai[r].took /\ q.answer = ai[r].answer
          /\ ai' = [ai EXCEPT ![r] = q]
      <3>1. "calls" \in Stages /\ 1 \in Nat \ {0}
        BY DEF Stages
      <3>2. q \in RequestType
        BY <1>1, <3>1 DEF RequestType
      <3>3. q.pc = "calls" /\ q.took = ai[r].took /\ q.answer = ai[r].answer
        BY <1>1, <3>1 DEF RequestType
      <3>4. ai' = [ai EXCEPT ![r] = q]
        BY <1>1, <1>3 DEF RequestType
      <3>. QED  BY <1>1, <3>2, <3>3, <3>4 DEF RequestType
    <2>2. \A call : PlacedIn(call, ai[r]) => PlacedIn(call, q)
      BY <1>1, <2>1 DEF PlacedIn, Settled
    <2>. HIDE DEF q
    <2>. QED  BY <1>1, <2>1, <2>2, LoopKeeps DEF AIRound
  <1>4. CASE ai' = [ai EXCEPT ![r].pc = "rest", ![r].failed = TRUE]
    <2>. DEFINE q == [ai[r] EXCEPT !.pc = "rest", !.failed = TRUE]
    <2>1. /\ q \in RequestType /\ q.pc = "rest" /\ q.took = ai[r].took /\ q.answer = ai[r].answer
          /\ ai' = [ai EXCEPT ![r] = q]
      <3>1. "rest" \in Stages
        BY DEF Stages
      <3>2. q \in RequestType
        BY <1>1, <3>1 DEF RequestType
      <3>3. q.pc = "rest" /\ q.took = ai[r].took /\ q.answer = ai[r].answer
        BY <1>1, <3>1 DEF RequestType
      <3>4. ai' = [ai EXCEPT ![r] = q]
        BY <1>1, <1>4 DEF RequestType
      <3>. QED  BY <1>1, <3>2, <3>3, <3>4 DEF RequestType
    <2>2. \A call : PlacedIn(call, ai[r]) => PlacedIn(call, q)
      BY <1>1, <2>1 DEF PlacedIn, Settled
    <2>. HIDE DEF q
    <2>. QED  BY <1>1, <2>1, <2>2, LoopKeeps DEF AIRound
  <1>. QED  BY <1>2, <1>3, <1>4 DEF AIRound

LEMMA ContinueKeeps ==
  ASSUME ToolInv, NEW r \in AIRequests, AIContinue(r)
  PROVE  ToolInv'
  <1>1. ai[r] \in RequestType /\ talk \in Talks /\ ai[r].pc = "asked" /\ ai[r].answer \in Nat
    BY DEF ToolInv, ToolShape, AIContinue, RequestType
  <1>2. CASE StepTo(r, "rest")
    BY <1>1, <1>2, StepToKeeps DEF AIContinue, Stages
  <1>3. CASE ai' = [ai EXCEPT ![r].pc = "answer", ![r].batch = <<>>, ![r].ran = FALSE]
    <2>. DEFINE q == [ai[r] EXCEPT !.pc = "answer", !.batch = <<>>, !.ran = FALSE]
    <2>1. q \in RequestType
      <3>1. "answer" \in Stages /\ <<>> \in Batches
        BY DEF Stages, Batches
      <3>. QED  BY <1>1, <3>1 DEF RequestType
    <2>2. q.took = ai[r].took /\ q.pc = "answer" /\ ai' = [ai EXCEPT ![r] = q]
      BY <1>1, <1>3, ZenonT(40) DEF RequestType
    <2>3. \A call : PlacedIn(call, q)
      BY <2>2 DEF PlacedIn, Settled
    <2>. HIDE DEF q
    <2>. QED  BY <1>1, <2>1, <2>2, <2>3, LoopKeeps DEF AIContinue
  <1>4. ASSUME NEW b \in talk.batches,
               ai' = [ai EXCEPT ![r].pc = "round", ![r].batch = b, ![r].answer = @ + 1, ![r].ran = FALSE]
        PROVE  ToolInv'
    <2>. DEFINE q == [ai[r] EXCEPT !.pc = "round", !.batch = b, !.answer = @ + 1, !.ran = FALSE]
    <2>1. b \in Batches
      BY <1>1, BatchesAreSequences
    <2>2. q \in RequestType
      <3>1. "round" \in Stages /\ ai[r].answer + 1 \in Nat
        BY <1>1 DEF Stages
      <3>. QED  BY <1>1, <2>1, <3>1 DEF RequestType
    <2>3. q.pc = "round" /\ q.took = ai[r].took /\ q.answer = ai[r].answer + 1
      BY <1>1 DEF RequestType
    <2>4. ai' = [ai EXCEPT ![r] = q]
      BY <1>1, <1>4 DEF RequestType
    <2>5. \A call \in AnyCall : PlacedIn(call, ai[r]) => PlacedIn(call, q)
      BY <1>1, <2>3 DEF PlacedIn, Settled, AnyCall
    <2>. HIDE DEF q
    <2>. QED  BY <1>1, <2>2, <2>3, <2>4, <2>5, LoopKeeps DEF AIContinue
  <1>. QED  BY <1>2, <1>3, <1>4 DEF AIContinue

-----------------------------------------------------------------------------
(* The gate: what is stored is of the answer just given, so no one holds it yet. *)

LEMMA GateKeeps ==
  ASSUME ToolInv, NEW r \in AIRequests, Gate(r), ai[r].pc \in {"calls", "late"},
         UNCHANGED <<talk, toolRuns, prompts, aiClock>>
  PROVE  ToolInv'
  <1>1. ai[r] \in RequestType /\ ai[r].took = NothingTaken
    BY DEF ToolInv, ToolShape, TakenInv
  <1>2. PICK i \in Blocked(ai[r].batch) :
               /\ approval' = IF MayStore THEN [call |-> Call(r, i), at |-> aiClock] ELSE approval
               /\ ai' = [ai EXCEPT ![r].pc = "answer", ![r].batch = <<>>,
                                   ![r].prompt = IF MayStore THEN Call(r, i) ELSE NoCall]
    BY DEF Gate
  <1>3. i \in 1 .. Len(ai[r].batch) /\ ai[r].batch[i] = "gated"
    BY DEF Blocked
  <1>4. PICK c : c = Call(r, i) /\ c \in AnyCall /\ c[1] = r /\ c[4] = "gated"
    BY <1>3, CallsOfBatches DEF ToolInv
  <1>. DEFINE asked == IF MayStore THEN c ELSE NoCall
              q == [ai[r] EXCEPT !.pc = "answer", !.batch = <<>>, !.prompt = asked]
  <1>5. q \in RequestType
    <2>1. "answer" \in Stages /\ <<>> \in Batches /\ asked \in AnyCall \union {NoCall}
      BY <1>4 DEF Stages, Batches
    <2>. HIDE DEF asked
    <2>. QED  BY <1>1, <2>1 DEF RequestType
  <1>6. ai' = [ai EXCEPT ![r] = q] /\ q.pc = "answer" /\ q.took = NothingTaken
    BY <1>1, <1>2, <1>4, ZenonT(40) DEF RequestType
  <1>7. \A p \in AIRequests : /\ ai'[p].took = ai[p].took
                              /\ ai[p].pc \in Settled => ai'[p].pc \in Settled
                              /\ ai'[p].pc = "approved" => ai[p].pc = "approved"
                              /\ ai[p].took # NothingTaken => ai'[p].pc \in {"approved", "answer", "over"}
    BY <1>1, <1>6 DEF ToolInv, ToolShape, Settled, TakenInv
  <1>8. ai'[r].pc = "answer" /\ \A p \in AIRequests : p # r => ai'[p] = ai[p]
    BY <1>6 DEF ToolInv, ToolShape
  <1>9. approval' = [call |-> c, at |-> aiClock] \/ approval' = approval
    BY <1>2, <1>4
  <1>. HIDE DEF q, asked
  <1>10. ToolShape'
    BY <1>4, <1>5, <1>6, <1>9 DEF ToolInv, ToolShape
  <1>11. \A call \in AnyCall : call[1] \in AIRequests
    BY DEF AnyCall
  <1>12. \A call : Approvable(call) => Approvable(call)'
    BY <1>7, <1>11 DEF Approvable
  <1>13. ~Approvable(c) /\ Approvable(c)'
    BY <1>4, <1>8 DEF Approvable, ToolInv, ReportInv, Settled
  <1>14. StoredInv'
    BY <1>9, <1>12, <1>13 DEF ToolInv, StoredInv
  <1>15. TakenInv'
    <2>. SUFFICES ASSUME NEW p \in AIRequests, ai[p].took # NothingTaken
                  PROVE  /\ Approvable(ai[p].took.call)'
                         /\ ai[p].took.age < ApprovalTTL
                         /\ ai[p].took.call # approval'.call
                         /\ \A o \in AIRequests \ {p} : ai[o].took.call # ai[p].took.call
      <3>1. \A p \in AIRequests : ai'[p].pc = "approved" => ai'[p].took # NothingTaken
        BY <1>7 DEF ToolInv, TakenInv
      <3>. QED  BY <1>7, <3>1 DEF TakenInv, Approvable
    <2>1. /\ Approvable(ai[p].took.call) /\ ai[p].took.call # approval.call
          /\ ai[p].took.age < ApprovalTTL
          /\ \A o \in AIRequests \ {p} : ai[o].took.call # ai[p].took.call
      BY DEF ToolInv, TakenInv
    <2>2. Approvable(ai[p].took.call)'
      BY <1>7, <1>11, <2>1 DEF Approvable
    <2>. QED  BY <1>1, <1>8, <1>9, <1>13, <2>1, <2>2
  <1>16. RanInv'
    <2>. SUFFICES ASSUME NEW call \in toolRuns.done
                  PROVE  \/ call[4] = "auto" /\ PlacedIn(call, ai'[call[1]])
                         \/ /\ call[4] = "gated"
                            /\ \E p \in AIRequests : ai'[p].took.call = call /\ ai'[p].pc \in Settled
      BY DEF RanInv, PlacedIn
    <2>1. call[1] \in AIRequests
      BY <1>11 DEF ToolInv, ToolShape
    <2>2. CASE call[4] = "auto" /\ PlacedIn(call, ai[call[1]])
      BY <1>8, <2>1, <2>2 DEF PlacedIn, Settled
    <2>3. CASE call[4] = "gated" /\ \E p \in AIRequests : ai[p].took.call = call /\ ai[p].pc \in Settled
      BY <1>7, <2>3
    <2>. QED  BY <2>2, <2>3 DEF ToolInv, RanInv
  <1>17. ReportInv'
    BY <1>7, <1>11 DEF ToolInv, ToolShape, ReportInv
  <1>. QED  BY <1>10, <1>14, <1>15, <1>16, <1>17 DEF ToolInv

(* Leaving a batch whose calls are over: with the round noted, or for the answer. *)
LEMMA LeaveKeeps ==
  ASSUME ToolInv, NEW r \in AIRequests, NEW q \in RequestType,
         ai' = [ai EXCEPT ![r] = q], UNCHANGED <<talk, approval, toolRuns, prompts, aiClock>>,
         ai[r].pc \in {"calls", "late", "rest"}, q.took = ai[r].took,
         \/ q.pc = "answer"
         \/ q.pc \in {"rest", "asked"} /\ q.ran /\ q.answer = ai[r].answer
  PROVE  ToolInv'
  <1>1. \A call : PlacedIn(call, ai[r]) => PlacedIn(call, q)
    BY DEF PlacedIn, Settled
  <1>. QED  BY <1>1, LoopKeeps

LEMMA RoundDoneKeeps ==
  ASSUME ToolInv, NEW r \in AIRequests, AIRoundDone(r)
  PROVE  ToolInv'
  <1>1. /\ ai[r] \in RequestType /\ ai[r].pc = "calls" /\ ai[r].rounds \in Nat
        /\ UNCHANGED <<talk, toolRuns, prompts, aiClock>>
    BY DEF ToolInv, ToolShape, AIRoundDone, RequestType
  <1>. DEFINE n == Noted(ai[r])
  <1>2. /\ n \in RequestType /\ n.ran /\ n.took = ai[r].took /\ n.answer = ai[r].answer
    <2>1. ai[r].rounds + 1 \in Nat
      BY <1>1
    <2>. QED  BY <1>1, <2>1 DEF Noted, RequestType
  <1>3. CASE Gate(r)
    BY <1>1, <1>3, GateKeeps
  <1>. HIDE DEF n
  <1>4. CASE ai' = [ai EXCEPT ![r] = [n EXCEPT !.pc = "rest", !.failed = TRUE]] /\ UNCHANGED approval
    <2>. DEFINE q == [n EXCEPT !.pc = "rest", !.failed = TRUE]
    <2>1. q \in RequestType /\ q.pc = "rest" /\ q.ran /\ q.took = ai[r].took /\ q.answer = ai[r].answer
      BY <1>2 DEF RequestType, Stages
    <2>9. ai' = [ai EXCEPT ![r] = q]
      BY <1>4
    <2>. HIDE DEF q
    <2>. QED  BY <1>1, <1>4, <2>9, <2>1, LeaveKeeps
  <1>5. CASE ai' = [ai EXCEPT ![r] = [n EXCEPT !.pc = "answer", !.batch = <<>>]] /\ UNCHANGED approval
    <2>. DEFINE q == [n EXCEPT !.pc = "answer", !.batch = <<>>]
    <2>1. <<>> \in Batches
      BY DEF Batches
    <2>2. q \in RequestType /\ q.pc = "answer" /\ q.took = ai[r].took
      BY <1>2, <2>1 DEF RequestType, Stages
    <2>9. ai' = [ai EXCEPT ![r] = q]
      BY <1>5
    <2>. HIDE DEF q
    <2>. QED  BY <1>1, <1>5, <2>9, <2>2, LeaveKeeps
  <1>6. CASE ai' = [ai EXCEPT ![r] = [n EXCEPT !.pc = "asked", !.batch = <<>>]] /\ UNCHANGED approval
    <2>. DEFINE q == [n EXCEPT !.pc = "asked", !.batch = <<>>]
    <2>1. <<>> \in Batches
      BY DEF Batches
    <2>2. q \in RequestType
      BY <1>2, <2>1 DEF RequestType, Stages
    <2>3. q.pc = "asked" /\ q.ran /\ q.took = ai[r].took /\ q.answer = ai[r].answer
      BY <1>2 DEF RequestType
    <2>9. ai' = [ai EXCEPT ![r] = q]
      BY <1>6
    <2>. HIDE DEF q
    <2>. QED  BY <1>1, <1>6, <2>9, <2>2, <2>3, LeaveKeeps
  <1>7. CASE ai' = [ai EXCEPT ![r] = [n EXCEPT !.pc = "asked"]] /\ UNCHANGED approval
    <2>. DEFINE q == [n EXCEPT !.pc = "asked"]
    <2>1. q \in RequestType /\ q.pc = "asked" /\ q.ran /\ q.took = ai[r].took /\ q.answer = ai[r].answer
      BY <1>2 DEF RequestType, Stages
    <2>9. ai' = [ai EXCEPT ![r] = q]
      BY <1>7
    <2>. HIDE DEF q
    <2>. QED  BY <1>1, <1>7, <2>9, <2>1, LeaveKeeps
  <1>. QED  BY <1>3, <1>4, <1>5, <1>6, <1>7 DEF AIRoundDone, n

LEMMA LateDoneKeeps ==
  ASSUME ToolInv, NEW r \in AIRequests, AILateDone(r)
  PROVE  ToolInv'
  <1>1. ai[r] \in RequestType /\ ai[r].pc = "late" /\ UNCHANGED <<talk, toolRuns, prompts, aiClock>>
    BY DEF ToolInv, ToolShape, AILateDone
  <1>2. CASE Gate(r)
    BY <1>1, <1>2, GateKeeps
  <1>3. CASE ai' = [ai EXCEPT ![r].pc = "answer", ![r].batch = <<>>] /\ UNCHANGED approval
    <2>. DEFINE q == [ai[r] EXCEPT !.pc = "answer", !.batch = <<>>]
    <2>1. "answer" \in Stages /\ <<>> \in Batches
      BY DEF Batches, Stages
    <2>2. q \in RequestType
      BY <1>1, <2>1 DEF RequestType
    <2>3. ai' = [ai EXCEPT ![r] = q] /\ q.pc = "answer" /\ q.took = ai[r].took
      BY <1>1, <1>3 DEF RequestType
    <2>. HIDE DEF q
    <2>. QED  BY <1>1, <1>3, <2>2, <2>3, LeaveKeeps
  <1>. QED  BY <1>2, <1>3 DEF AILateDone

-----------------------------------------------------------------------------
(* Steps that run, report or take calls.                                       *)

(* Every other request is untouched, and r's calls stay placed. *)
LEMMA PlacesKept ==
  ASSUME ToolShape, NEW r \in AIRequests, NEW q, ai' = [ai EXCEPT ![r] = q],
         \A call \in AnyCall : PlacedIn(call, ai[r]) => PlacedIn(call, q),
         NEW c \in toolRuns.done, PlacedIn(c, ai[c[1]])
  PROVE  PlacedIn(c, ai'[c[1]])
  <1>1. c \in AnyCall /\ c[1] \in AIRequests
    BY DEF ToolShape, AnyCall
  <1>2. ai'[c[1]] = IF c[1] = r THEN q ELSE ai[c[1]]
    BY <1>1 DEF ToolShape
  <1>. QED  BY <1>1, <1>2

LEMMA CallKeeps ==
  ASSUME ToolInv, NEW r \in AIRequests, AICall(r)
  PROVE  ToolInv'
  <1>1. /\ ai[r] \in RequestType /\ ai[r].pc \in {"calls", "late"} /\ ai[r].took = NothingTaken
        /\ ai[r].pos \in 1 .. Len(ai[r].batch) /\ ai[r].pos \in Nat \ {0}
    <2>1. ai[r].pos \in Nat \ {0} /\ Len(ai[r].batch) \in Nat
      BY DEF ToolInv, ToolShape, RequestType, Batches
    <2>. QED  BY <2>1 DEF AICall, CallsOver, ToolInv, ToolShape, TakenInv
  <1>. DEFINE q == [ai[r] EXCEPT !.pos = @ + 1]
  <1>2. q \in RequestType
    <2>1. ai[r].pos + 1 \in Nat \ {0}
      BY <1>1
    <2>. QED  BY <1>1, <2>1 DEF RequestType
  <1>3. /\ q.pc = ai[r].pc /\ q.took = ai[r].took /\ q.answer = ai[r].answer /\ q.pos = ai[r].pos + 1
        /\ q.ran = ai[r].ran /\ ai' = [ai EXCEPT ![r] = q]
    BY <1>1 DEF AICall, RequestType
  <1>4. \A call \in AnyCall : PlacedIn(call, ai[r]) => PlacedIn(call, q)
    BY <1>1, <1>3 DEF PlacedIn, AnyCall
  <1>. HIDE DEF q
  <1>5. CASE UNCHANGED toolRuns
    BY <1>1, <1>2, <1>3, <1>4, <1>5, LoopKeeps DEF AICall
  <1>6. ASSUME ai[r].batch[ai[r].pos] # "gated", Runs(Call(r, ai[r].pos)) PROVE ToolInv'
    <2>1. PICK c \in AnyCall : /\ c = Call(r, ai[r].pos) /\ c[1] = r /\ c[2] = ai[r].answer
                               /\ c[3] = ai[r].pos /\ c[4] = "auto"
      <3>1. Call(r, ai[r].pos)[4] = ai[r].batch[ai[r].pos] /\ Call(r, ai[r].pos) \in AnyCall
        BY <1>1, CallsOfBatches DEF ToolInv
      <3>2. Call(r, ai[r].pos)[4] = "auto"
        BY <1>6, <3>1 DEF AnyCall, Kinds
      <3>. QED  BY <1>1, <3>1, <3>2, CallsOfBatches DEF ToolInv
    <2>2. c \notin toolRuns.done
      <3>1. ai[r].answer \in Nat
        BY <1>1 DEF RequestType
      <3>2. ~PlacedIn(c, ai[r])
        BY <1>1, <2>1, <3>1 DEF PlacedIn, Settled
      <3>. QED  BY <2>1, <3>2 DEF ToolInv, RanInv
    <2>3. /\ toolRuns'.done = toolRuns.done \union {c} /\ toolRuns'.again = toolRuns.again
          /\ toolRuns'.denied = toolRuns.denied /\ UNCHANGED <<talk, approval, prompts, aiClock>>
          /\ toolRuns' \in [done: SUBSET AnyCall, again: SUBSET AnyCall, denied: SUBSET AnyCall]
      BY <1>6, <2>1, <2>2 DEF Runs, AICall, ToolInv, ToolShape
    <2>4. \A p \in AIRequests : ai'[p].took = ai[p].took /\ ai'[p].pc = ai[p].pc
      BY <1>3 DEF ToolInv, ToolShape
    <2>5. \A call \in AnyCall : call[1] \in AIRequests
      BY DEF AnyCall
    <2>6. ToolShape'
      BY <1>2, <1>3, <2>3 DEF ToolInv, ToolShape
    <2>7. \A call : Approvable(call) => Approvable(call)'
      BY <2>3, <2>4, <2>5 DEF Approvable
    <2>8. StoredInv' /\ TakenInv'
      BY <2>3, <2>4, <2>7 DEF ToolInv, StoredInv, TakenInv
    <2>9. RanInv'
      <3>. SUFFICES ASSUME NEW call \in toolRuns.done \union {c}
                    PROVE  \/ call[4] = "auto" /\ PlacedIn(call, ai'[call[1]])
                           \/ /\ call[4] = "gated"
                              /\ \E p \in AIRequests : ai'[p].took.call = call /\ ai'[p].pc \in Settled
        BY <2>3 DEF RanInv, PlacedIn
      <3>1. CASE call = c
        BY <1>1, <1>3, <2>1, <3>1 DEF PlacedIn, ToolInv, ToolShape
      <3>2. CASE call \in toolRuns.done /\ call[4] = "auto" /\ PlacedIn(call, ai[call[1]])
        BY <1>3, <1>4, <3>2, PlacesKept DEF ToolInv
      <3>3. CASE /\ call[4] = "gated"
                 /\ \E p \in AIRequests : ai[p].took.call = call /\ ai[p].pc \in Settled
        BY <2>4, <3>3
      <3>. QED  BY <3>1, <3>2, <3>3 DEF ToolInv, RanInv
    <2>10. ReportInv'
      BY <1>1, <2>1, <2>3, <2>4, <2>5 DEF ToolInv, ToolShape, ReportInv, Settled
    <2>. QED  BY <2>6, <2>8, <2>9, <2>10 DEF ToolInv
  <1>. QED  BY <1>5, <1>6 DEF AICall

LEMMA RunApprovedKeeps ==
  ASSUME ToolInv, NEW r \in AIRequests, AIRunApproved(r)
  PROVE  ToolInv'
  <1>1. /\ ai[r] \in RequestType /\ ai[r].pc = "approved" /\ ai[r].took # NothingTaken
        /\ UNCHANGED <<talk, approval, prompts, aiClock>>
    BY DEF ToolInv, ToolShape, TakenInv, AIRunApproved
  <1>2. PICK c \in AnyCall : c = ai[r].took.call /\ Approvable(c)
    BY <1>1 DEF ToolInv, TakenInv, Approvable
  <1>3. c \notin toolRuns.done
    <2>1. \A p \in AIRequests \ {r} : ai[p].took.call # c
      BY <1>1, <1>2 DEF ToolInv, TakenInv
    <2>2. c[4] = "gated" /\ ai[r].pc \notin Settled
      BY <1>1, <1>2 DEF Approvable, Settled
    <2>. QED  BY <2>1, <2>2 DEF ToolInv, RanInv
  <1>4. /\ toolRuns'.done = toolRuns.done \union {c} /\ toolRuns'.again = toolRuns.again
        /\ toolRuns'.denied = toolRuns.denied
        /\ toolRuns' \in [done: SUBSET AnyCall, again: SUBSET AnyCall, denied: SUBSET AnyCall]
    BY <1>2, <1>3 DEF Runs, AIRunApproved, ToolInv, ToolShape
  <1>. DEFINE q == [ai[r] EXCEPT !.pc = "answer"]
  <1>5. /\ q \in RequestType /\ q.pc = "answer" /\ q.took = ai[r].took /\ ai' = [ai EXCEPT ![r] = q]
    BY <1>1 DEF RequestType, Stages, AIRunApproved, StepTo
  <1>. HIDE DEF q
  <1>6. \A p \in AIRequests : /\ ai'[p].took = ai[p].took
                              /\ ai'[p].pc = IF p = r THEN "answer" ELSE ai[p].pc
    BY <1>5 DEF ToolInv, ToolShape
  <1>7. \A call \in AnyCall : call[1] \in AIRequests
    BY DEF AnyCall
  <1>8. ToolShape'
    BY <1>1, <1>4, <1>5 DEF ToolInv, ToolShape
  <1>9. \A call : Approvable(call) => Approvable(call)'
    BY <1>4, <1>6, <1>7 DEF Approvable, Settled
  <1>10. StoredInv' /\ TakenInv'
    BY <1>1, <1>6, <1>9 DEF ToolInv, StoredInv, TakenInv
  <1>11. RanInv'
    <2>. SUFFICES ASSUME NEW call \in toolRuns.done \union {c}
                  PROVE  \/ call[4] = "auto" /\ PlacedIn(call, ai'[call[1]])
                         \/ /\ call[4] = "gated"
                            /\ \E p \in AIRequests : ai'[p].took.call = call /\ ai'[p].pc \in Settled
      BY <1>4 DEF RanInv, PlacedIn
    <2>1. CASE call = c
      BY <1>2, <1>6, <2>1 DEF Approvable, Settled
    <2>2. CASE call \in toolRuns.done /\ call[4] = "auto" /\ PlacedIn(call, ai[call[1]])
      <3>1. \A other \in AnyCall : PlacedIn(other, ai[r]) => PlacedIn(other, q)
        BY <1>5 DEF PlacedIn, Settled
      <3>2. PlacedIn(call, ai'[call[1]])
        BY <1>5, <2>2, <3>1, PlacesKept DEF ToolInv
      <3>. QED  BY <2>2, <3>2
    <2>3. CASE call[4] = "gated" /\ \E p \in AIRequests : ai[p].took.call = call /\ ai[p].pc \in Settled
      BY <1>6, <2>3 DEF Settled
    <2>. QED  BY <2>1, <2>2, <2>3 DEF ToolInv, RanInv
  <1>12. ReportInv'
    BY <1>2, <1>4, <1>6, <1>7 DEF ToolInv, ToolShape, ReportInv, Settled, Approvable
  <1>. QED  BY <1>8, <1>10, <1>11, <1>12 DEF ToolInv

LEMMA RestKeeps ==
  ASSUME ToolInv, NEW r \in AIRequests, AIRest(r)
  PROVE  ToolInv'
  <1>1. /\ ai[r] \in RequestType /\ ai[r].pc = "rest" /\ ai[r].took = NothingTaken /\ ai[r].answer \in Nat
        /\ UNCHANGED <<talk, approval, prompts, aiClock>>
    BY DEF ToolInv, ToolShape, TakenInv, AIRest, RequestType
  <1>2. CASE ai' = [ai EXCEPT ![r].pc = "answer", ![r].batch = <<>>] /\ UNCHANGED toolRuns
    <2>. DEFINE q == [ai[r] EXCEPT !.pc = "answer", !.batch = <<>>]
    <2>1. "answer" \in Stages /\ <<>> \in Batches
      BY DEF Batches, Stages
    <2>2. q \in RequestType
      BY <1>1, <2>1 DEF RequestType
    <2>3. ai' = [ai EXCEPT ![r] = q] /\ q.pc = "answer" /\ q.took = ai[r].took
      BY <1>1, <1>2 DEF RequestType
    <2>. HIDE DEF q
    <2>. QED  BY <1>1, <1>2, <2>2, <2>3, LeaveKeeps
  <1>3. CASE /\ ai[r].batch # <<>> /\ ~ai[r].ran /\ ~ai[r].failed
             /\ ai' = [ai EXCEPT ![r].pc = "late", ![r].pos = 1] /\ UNCHANGED toolRuns
    <2>. DEFINE q == [ai[r] EXCEPT !.pc = "late", !.pos = 1]
    <2>1. /\ q \in RequestType /\ q.pc = "late" /\ q.took = ai[r].took /\ q.answer = ai[r].answer
          /\ ai' = [ai EXCEPT ![r] = q]
      <3>1. "late" \in Stages /\ 1 \in Nat \ {0}
        BY DEF Stages
      <3>2. q \in RequestType
        BY <1>1, <3>1 DEF RequestType
      <3>3. q.pc = "late" /\ q.took = ai[r].took /\ q.answer = ai[r].answer
        BY <1>1, <3>1 DEF RequestType
      <3>4. ai' = [ai EXCEPT ![r] = q]
        BY <1>1, <1>3 DEF RequestType
      <3>. QED  BY <1>1, <3>2, <3>3, <3>4 DEF RequestType
    <2>2. \A call \in AnyCall : PlacedIn(call, ai[r]) => PlacedIn(call, q)
      BY <1>1, <1>3, <2>1 DEF PlacedIn, Settled
    <2>. HIDE DEF q
    <2>. QED  BY <1>1, <1>3, <2>1, <2>2, LoopKeeps
  <1>4. ASSUME ~ai[r].ran, StepTo(r, "answer"),
               toolRuns' = [toolRuns EXCEPT !.denied = @ \union Batch(r)]
        PROVE  ToolInv'
    <2>1. \A c \in Batch(r) : c \in AnyCall /\ c[1] = r /\ c[2] = ai[r].answer
      BY CallsOfBatches DEF Batch, ToolInv
    <2>2. PICK D \in SUBSET AnyCall : D = Batch(r)
      BY <2>1
    <2>3. /\ toolRuns'.done = toolRuns.done /\ toolRuns'.again = toolRuns.again
          /\ toolRuns'.denied = toolRuns.denied \union D
          /\ toolRuns' \in [done: SUBSET AnyCall, again: SUBSET AnyCall, denied: SUBSET AnyCall]
      BY <1>4, <2>2 DEF ToolInv, ToolShape
    <2>. DEFINE q == [ai[r] EXCEPT !.pc = "answer"]
    <2>4. /\ q \in RequestType /\ q.pc = "answer" /\ q.took = ai[r].took /\ ai' = [ai EXCEPT ![r] = q]
      BY <1>1, <1>4 DEF RequestType, Stages, StepTo
    <2>. HIDE DEF q
    <2>5. \A p \in AIRequests : /\ ai'[p].took = ai[p].took
                                /\ ai'[p].pc = IF p = r THEN "answer" ELSE ai[p].pc
      BY <2>4 DEF ToolInv, ToolShape
    <2>6. \A call \in AnyCall : call[1] \in AIRequests
      BY DEF AnyCall
    <2>7. \A call : Approvable(call) => call \notin D
      BY <1>1, <2>1, <2>2 DEF Approvable, Settled
    <2>8. \A call : Approvable(call) => Approvable(call)'
      BY <2>3, <2>5, <2>6, <2>7 DEF Approvable, Settled
    <2>9. D \intersect toolRuns.done = {}
      <3>. SUFFICES ASSUME NEW c \in D, c \in toolRuns.done PROVE FALSE
        OBVIOUS
      <3>1. ~PlacedIn(c, ai[r]) /\ c[1] = r /\ c # NoCall
        BY <1>1, <1>4, <2>1, <2>2, NoCallIsNoCall DEF PlacedIn, Settled
      <3>2. PICK p \in AIRequests : ai[p].took.call = c
        BY <3>1 DEF ToolInv, RanInv
      <3>3. ai[p].took # NothingTaken
        BY <3>1, <3>2 DEF NothingTaken
      <3>. QED  BY <2>7, <3>2, <3>3 DEF ToolInv, TakenInv
    <2>10. ToolShape'
      BY <1>1, <2>3, <2>4 DEF ToolInv, ToolShape
    <2>11. StoredInv' /\ TakenInv'
      BY <1>1, <2>5, <2>8 DEF ToolInv, StoredInv, TakenInv
    <2>12. RanInv'
      <3>. SUFFICES ASSUME NEW call \in toolRuns.done
                    PROVE  \/ call[4] = "auto" /\ PlacedIn(call, ai'[call[1]])
                           \/ /\ call[4] = "gated"
                              /\ \E p \in AIRequests : ai'[p].took.call = call /\ ai'[p].pc \in Settled
        BY <2>3 DEF RanInv, PlacedIn
      <3>1. CASE call[4] = "auto" /\ PlacedIn(call, ai[call[1]])
        <4>1. \A other \in AnyCall : PlacedIn(other, ai[r]) => PlacedIn(other, q)
          BY <2>4 DEF PlacedIn, Settled
        <4>2. PlacedIn(call, ai'[call[1]])
          BY <2>4, <3>1, <4>1, PlacesKept DEF ToolInv
        <4>. QED  BY <3>1, <4>2
      <3>2. CASE call[4] = "gated" /\ \E p \in AIRequests : ai[p].took.call = call /\ ai[p].pc \in Settled
        BY <2>5, <3>2 DEF Settled
      <3>. QED  BY <3>1, <3>2 DEF ToolInv, RanInv
    <2>13. ReportInv'
      BY <2>1, <2>2, <2>3, <2>5, <2>6, <2>9 DEF ToolInv, ToolShape, ReportInv, Settled
    <2>. QED  BY <2>10, <2>11, <2>12, <2>13 DEF ToolInv
  <1>. QED  BY <1>2, <1>3, <1>4 DEF AIRest

(* A "yes" takes the stored approval, which nobody held. *)
LEMMA TakeKeeps ==
  ASSUME ToolInv, NEW r \in AIRequests, NEW q \in RequestType,
         ai' = [ai EXCEPT ![r] = q], UNCHANGED <<talk, toolRuns, prompts, aiClock>>,
         approval # NoApproval, approval' = NoApproval, ~StaleApproval, ai[r].pc = "begun",
         q.took = [call |-> approval.call, age |-> aiClock - approval.at],
         q.pc \in {"over", "approved"}, q.pc = "approved" => q.answer = ai[r].answer
  PROVE  ToolInv'
  <1>1. ai[r].took = NothingTaken /\ Approvable(approval.call) /\ approval.call # NoCall
    BY NoCallIsNoCall DEF ToolInv, TakenInv, StoredInv, Approvable
  <1>2. /\ q.took # NothingTaken /\ q.took.call = approval.call /\ q.took.age < ApprovalTTL
    <2>1. approval.at \in Int /\ aiClock \in Int /\ ApprovalTTL \in Nat
      BY ToolAssumption DEF ToolInv, ToolShape
    <2>. QED  BY <1>1, <2>1 DEF StaleApproval, NothingTaken
  <1>3. ai'[r] = q /\ \A p \in AIRequests : p # r => ai'[p] = ai[p]
    BY DEF ToolInv, ToolShape
  <1>4. \A call \in AnyCall : call[1] \in AIRequests
    BY DEF AnyCall
  <1>5. ToolShape'
    BY DEF ToolInv, ToolShape, NoApproval
  <1>6. \A call : Approvable(call) => Approvable(call)'
    BY <1>3, <1>4 DEF Approvable, Settled
  <1>7. StoredInv'
    BY DEF StoredInv
  <1>8. TakenInv'
    <2>1. \A p \in AIRequests \ {r} : ai[p].took # NothingTaken => ai[p].took.call # approval.call
      BY DEF ToolInv, TakenInv
    <2>2. \A p \in AIRequests \ {r} : ai[p].took = NothingTaken => ai[p].took.call # approval.call
      BY <1>1 DEF NothingTaken
    <2>3. \A c : Approvable(c) => c # NoCall
      BY NoCallIsNoCall DEF Approvable
    <2>4. PICK c : c = approval.call /\ Approvable(c)
      BY <1>1
    <2>5. /\ Approvable(c)' /\ c # NoCall /\ ai'[r].took.call = c /\ ai'[r].took.age < ApprovalTTL
          /\ ai'[r].pc \in {"approved", "answer", "over"} /\ ai'[r].took # NothingTaken
      BY <1>1, <1>2, <1>3, <1>6, <2>4
    <2>6. \A p \in AIRequests \ {r} : ai'[p].took.call # c /\ ai'[p] = ai[p]
      BY <1>3, <2>1, <2>2, <2>4
    <2>7. ASSUME NEW p \in AIRequests, ai'[p].took # NothingTaken
          PROVE  /\ Approvable(ai[p].took.call)'
                 /\ ai'[p].took.age < ApprovalTTL
                 /\ ai'[p].pc \in {"approved", "answer", "over"}
                 /\ ai'[p].took.call # NoCall
                 /\ \A o \in AIRequests \ {p} : ai'[o].took.call # ai'[p].took.call
      <3>1. CASE p = r
        BY <2>5, <2>6, <3>1 DEF Approvable
      <3>2. CASE p # r
        <4>1. ai'[p] = ai[p] /\ Approvable(ai[p].took.call)
          BY <2>6, <2>7, <3>2 DEF ToolInv, TakenInv
        <4>2. PICK d : d = ai[p].took.call /\ Approvable(d)
          BY <4>1
        <4>3. Approvable(d)' /\ d # NoCall /\ d = ai'[p].took.call
          BY <1>6, <2>3, <4>1, <4>2
        <4>4. \A o \in AIRequests \ {p} : ai'[o].took.call # d
          BY <2>5, <2>6, <2>7, <3>2, <4>1, <4>2 DEF ToolInv, TakenInv
        <4>5. ai[p].took.age < ApprovalTTL /\ ai[p].pc \in {"approved", "answer", "over"}
          BY <2>7, <4>1 DEF ToolInv, TakenInv
        <4>. QED  BY <4>1, <4>3, <4>4, <4>5 DEF Approvable
      <3>. QED  BY <3>1, <3>2
    <2>8. \A p \in AIRequests : ai'[p].pc = "approved" => ai'[p].took # NothingTaken
      BY <2>5, <2>6 DEF ToolInv, TakenInv
    <2>. QED  BY <2>7, <2>8 DEF TakenInv, NoApproval, Approvable
  <1>9. RanInv'
    <2>. SUFFICES ASSUME NEW call \in toolRuns.done
                  PROVE  \/ call[4] = "auto" /\ PlacedIn(call, ai'[call[1]])
                         \/ /\ call[4] = "gated"
                            /\ \E p \in AIRequests : ai'[p].took.call = call /\ ai'[p].pc \in Settled
      BY DEF RanInv, PlacedIn
    <2>1. CASE call[4] = "auto" /\ PlacedIn(call, ai[call[1]])
      <3>1. \A c \in AnyCall : PlacedIn(c, ai[r]) => PlacedIn(c, q)
        BY DEF PlacedIn, Settled
      <3>. QED  BY <2>1, <3>1, PlacesKept DEF ToolInv
    <2>2. CASE call[4] = "gated" /\ \E p \in AIRequests : ai[p].took.call = call /\ ai[p].pc \in Settled
      BY <1>3, <2>2 DEF Settled
    <2>. QED  BY <2>1, <2>2 DEF ToolInv, RanInv
  <1>10. ReportInv'
    BY <1>3, <1>4 DEF ToolInv, ToolShape, ReportInv, Settled
  <1>. QED  BY <1>5, <1>7, <1>8, <1>9, <1>10 DEF ToolInv

LEMMA TurnBeginKeeps ==
  ASSUME ToolInv, NEW r \in AIRequests, AIBegin(r)
  PROVE  ToolInv'
  <1>1. /\ ai[r] \in RequestType /\ ai[r].pc = "begun" /\ ai[r].took = NothingTaken
        /\ approval \in [call: AnyCall \union {NoCall}, at: Int] /\ aiClock \in Int
        /\ UNCHANGED <<talk, toolRuns, prompts, aiClock>> /\ prompts \subseteq AnyCall
    BY DEF ToolInv, ToolShape, TakenInv, AIBegin
  <1>2. CASE StepTo(r, "model") /\ UNCHANGED approval
    BY <1>1, <1>2, StepToKeeps DEF Stages
  <1>3. CASE approval # NoApproval /\ TakeOut /\ StaleApproval /\ StepTo(r, "answer")
    <2>. DEFINE q == [ai[r] EXCEPT !.pc = "answer"]
    <2>1. /\ q \in RequestType /\ q.pc = "answer" /\ q.took = ai[r].took /\ ai' = [ai EXCEPT ![r] = q]
      BY <1>1, <1>3 DEF RequestType, Stages, StepTo
    <2>2. \A call : PlacedIn(call, q)
      BY <2>1 DEF PlacedIn, Settled
    <2>. HIDE DEF q
    <2>. QED  BY <1>1, <1>3, <2>1, <2>2, MoveKeeps DEF TakeOut, Settled
  <1>4. CASE approval # NoApproval /\ TakeOut /\ ~StaleApproval
    <2>. DEFINE took == [call |-> approval.call, age |-> aiClock - approval.at]
    <2>1. took \in [call: AnyCall \union {NoCall}, age: Int]
      BY <1>1
    <2>2. CASE ai' = [ai EXCEPT ![r].pc = "approved", ![r].took = took]
      <3>. DEFINE q == [ai[r] EXCEPT !.pc = "approved", !.took = took]
      <3>1. "approved" \in Stages
        BY DEF Stages
      <3>2. q \in RequestType
        <4>. HIDE DEF took
        <4>. QED  BY <1>1, <2>1, <3>1 DEF RequestType
      <3>3. /\ q.pc = "approved" /\ q.took = took /\ q.answer = ai[r].answer /\ ai' = [ai EXCEPT ![r] = q]
        BY <1>1, <2>2, ZenonT(40) DEF RequestType
      <3>. HIDE DEF q
      <3>. QED  BY <1>1, <1>4, <3>2, <3>3, TakeKeeps DEF TakeOut
    <2>3. CASE EndRequest(r, took)
      <3>. DEFINE q == [NewRequest EXCEPT !.pc = "over", !.took = took, !.seen = ai[r].seen]
      <3>1. q \in RequestType
        BY <2>1, EndHasItsType DEF ToolInv
      <3>2. q.pc = "over" /\ q.took = took /\ ai' = [ai EXCEPT ![r] = q]
        BY <2>3 DEF EndRequest, NewRequest
      <3>3. approval # NoApproval /\ approval' = NoApproval /\ ~StaleApproval
        BY <1>4 DEF TakeOut
      <3>. HIDE DEF q
      <3>. QED  BY <1>1, <3>1, <3>2, <3>3, TakeKeeps
    <2>. QED  BY <1>4, <2>2, <2>3 DEF AIBegin, TakeOut
  <1>. QED  BY <1>2, <1>3, <1>4 DEF AIBegin

LEMMA TickKeeps ==
  ASSUME ToolInv, AITick
  PROVE  ToolInv'
  <1>1. ToolShape'
    BY DEF ToolInv, ToolShape, AITick
  <1>2. UNCHANGED <<talk, ai, approval, toolRuns, prompts>>
    BY DEF AITick
  <1>. QED  BY <1>1, <1>2 DEF ToolInv, StoredInv, TakenInv, RanInv, ReportInv, Approvable, PlacedIn

LEMMA StepKeeps == ToolInv /\ [ToolNext]_toolVars => ToolInv'
  <1>. SUFFICES ASSUME ToolInv, [ToolNext]_toolVars PROVE ToolInv'
    OBVIOUS
  <1>1. ASSUME NEW r \in AIRequests, AIStep(r) PROVE ToolInv'
    BY <1>1, AcquireKeeps, TurnBeginKeeps, RunApprovedKeeps, ModelKeeps, RoundKeeps, CallKeeps,
       RoundDoneKeeps, ContinueKeeps, RestKeeps, LateDoneKeeps, ToolAnswerKeeps DEF AIStep
  <1>2. ASSUME NEW r \in AIRequests, AIArrive(r) \/ AICut(r) PROVE ToolInv'
    BY <1>2, ArriveKeeps, CutKeeps
  <1>3. CASE UNCHANGED toolVars
    BY <1>3 DEF toolVars, ToolInv, ToolShape, StoredInv, TakenInv, RanInv, ReportInv, Approvable, PlacedIn
  <1>. QED  BY <1>1, <1>2, <1>3, TickKeeps DEF ToolNext

(* The invariant of every reachable state. *)
THEOREM ToolInvariant == ToolSpec => []ToolInv
  BY InitEstablishes, StepKeeps, PTL DEF ToolSpec

-----------------------------------------------------------------------------
(* No call of any batch runs twice, and none that ran is reported as pending, *)
(* whichever rounds fail, run late or are cut short.                          *)
THEOREM CallsRunOnce == ToolSpec => []CallsRunOnceAndAreReportedSo
  <1>1. ToolInv => CallsRunOnceAndAreReportedSo
    BY DEF ToolInv, ReportInv, CallsRunOnceAndAreReportedSo
  <1>. QED  BY <1>1, ToolInvariant, PTL

(* A gated call runs only for the one request that took its approval, in time. *)
THEOREM ApprovalsSpentOnce == ToolSpec => []ApprovalsAreSpentOnce
  <1>1. ASSUME ToolInv PROVE ApprovalsAreSpentOnce
    <2>1. \A call \in toolRuns.done :
             WaitsForApproval(call) => \E r \in AIRequests : ai[r].took.call = call
      BY <1>1 DEF ToolInv, RanInv, WaitsForApproval
    <2>. QED  BY <1>1, <2>1 DEF ToolInv, TakenInv, ApprovalsAreSpentOnce
  <1>. QED  BY <1>1, ToolInvariant, PTL


-----------------------------------------------------------------------------
(* The bounds of a turn.  Each answer is followed by at most one noted round, so *)
(* a request has one answer more than rounds when the next round is to begin:    *)
(* that is what bounds the answers, and with them the calls there can be.  A     *)
(* slot is taken only where one was free.                                        *)

Placed == {"round", "calls", "asked", "rest", "late"}
CallOrNone == Calls \union {NoCall}
TurnOf(q) ==
    /\ q.pc \in Stages \ (Placed \union Settled) => q.answer = 0 /\ q.rounds = 0
    /\ q.pc \in {"round", "calls"} => q.answer = q.rounds + 1
    /\ q.pc = "calls" => q.rounds < MaxToolRounds
    /\ q.pc = "asked" => q.answer = q.rounds
    /\ q.pc \in Placed => q.answer > 0
    /\ q.answer <= MaxToolRounds + 1 /\ q.rounds <= MaxToolRounds
    /\ q.prompt \in CallOrNone /\ q.took.call \in CallOrNone /\ q.seen \subseteq Calls
SlotHolders == {r \in AIRequests : HoldsSlotOf(r)}
TurnInv ==
    /\ \A r \in AIRequests : TurnOf(ai[r])
    /\ approval.call \in CallOrNone /\ toolRuns.done \subseteq Calls /\ prompts \subseteq Calls
    /\ IsFiniteSet(SlotHolders) /\ SlotsTaken <= AISlots

LEMMA ToolLimits == MaxToolRounds \in Nat /\ MaxToolsPerTurn \in Nat /\ AISlots \in Nat \ {0}
  BY ToolAssumption

LEMMA CallsAreBounded ==
  ASSUME ToolShape, TurnInv, NEW r \in AIRequests, ai[r].pc \in {"calls", "late"},
         NEW i \in 1 .. Len(ai[r].batch), i <= MaxToolsPerTurn
  PROVE  Call(r, i) \in Calls
  <1>1. ai[r].pc \in Placed /\ ai[r].answer \in Nat /\ TurnOf(ai[r]) /\ ai[r].batch \in Seq(Kinds)
    BY DEF ToolShape, RequestType, TurnInv, Placed, Batches
  <1>2. ai[r].answer \in 1 .. MaxToolRounds + 1
    BY <1>1, ToolLimits DEF TurnOf
  <1>3. i \in 1 .. MaxToolsPerTurn /\ ai[r].batch[i] \in {"auto", "gated"}
    BY <1>1, ToolLimits DEF Kinds
  <1>. QED  BY <1>2, <1>3 DEF Call, Calls

LEMMA SlotsOneMore ==
  ASSUME NEW S, NEW r, NEW T, IsFiniteSet(S), T \subseteq S \union {r}
  PROVE  /\ IsFiniteSet(T) /\ Cardinality(T) \in Nat /\ Cardinality(S) \in Nat
         /\ Cardinality(T) <= Cardinality(S) + 1
         /\ T \subseteq S => Cardinality(T) <= Cardinality(S)
  <1>1. IsFiniteSet(S \union {r}) /\ Cardinality(S) \in Nat /\ Cardinality(S \union {r}) \in Nat
        /\ Cardinality(S \union {r}) <= Cardinality(S) + 1
    <2>1. Cardinality(S) \in Nat
      BY FS_CardinalityType
    <2>2. /\ IsFiniteSet(S \union {r})
          /\ Cardinality(S \union {r}) = IF r \in S THEN Cardinality(S) ELSE Cardinality(S) + 1
      BY FS_AddElement
    <2>. QED  BY <2>1, <2>2
  <1>2. IsFiniteSet(T) /\ Cardinality(T) <= Cardinality(S \union {r})
    BY <1>1, FS_Subset
  <1>3. Cardinality(T) \in Nat
    BY <1>2, FS_CardinalityType
  <1>4. T \subseteq S => Cardinality(T) <= Cardinality(S)
    BY FS_Subset
  <1>. QED  BY <1>1, <1>2, <1>3, <1>4

(* A step of one request that keeps its turn, and takes a slot only where one is free. *)
Goes(r, q) ==
    /\ TurnOf(q) /\ ai' = [ai EXCEPT ![r] = q]
    /\ q.pc \notin {"idle", "queued", "over"} => HoldsSlotOf(r) \/ SlotsTaken < AISlots

LEMMA GoesKeeps ==
  ASSUME ToolShape, TurnInv, NEW r \in AIRequests, NEW q, Goes(r, q),
         approval'.call \in CallOrNone, toolRuns'.done \subseteq Calls, prompts' \subseteq Calls
  PROVE  TurnInv'
  <1>1. ai'[r] = q /\ \A p \in AIRequests : p # r => ai'[p] = ai[p]
    BY DEF Goes, ToolShape
  <1>2. \A p \in AIRequests : TurnOf(ai'[p])
    BY <1>1 DEF Goes, TurnInv
  <1>3. SlotHolders' \subseteq SlotHolders \union {r}
    BY <1>1 DEF SlotHolders, HoldsSlotOf
  <1>4. /\ IsFiniteSet(SlotHolders') /\ Cardinality(SlotHolders') \in Nat
        /\ Cardinality(SlotHolders) \in Nat /\ Cardinality(SlotHolders') <= Cardinality(SlotHolders) + 1
        /\ SlotHolders' \subseteq SlotHolders => Cardinality(SlotHolders') <= Cardinality(SlotHolders)
    BY <1>3, SlotsOneMore DEF TurnInv
  <1>5. SlotsTaken = Cardinality(SlotHolders) /\ SlotsTaken' = Cardinality(SlotHolders')
    BY DEF SlotsTaken, SlotHolders
  <1>6. SlotHolders' \subseteq SlotHolders \/ SlotsTaken < AISlots
    BY <1>1, <1>3 DEF Goes, SlotHolders, HoldsSlotOf
  <1>7. SlotsTaken' <= AISlots
    BY <1>4, <1>5, <1>6, ToolLimits DEF TurnInv
  <1>. QED  BY <1>2, <1>4, <1>7 DEF TurnInv, TurnOf

LEMMA EndOfTurn ==
  ASSUME TurnInv, NEW r \in AIRequests, NEW took, took.call \in CallOrNone, EndRequest(r, took)
  PROVE  \E q : Goes(r, q)
  <1>. DEFINE q == [NewRequest EXCEPT !.pc = "over", !.took = took, !.seen = ai[r].seen]
  <1>1. /\ q.pc = "over" /\ q.answer = 0 /\ q.rounds = 0 /\ q.prompt = NoCall
        /\ q.took = took /\ q.seen = ai[r].seen
    BY DEF NewRequest
  <1>2. TurnOf(q)
    BY <1>1, ToolLimits DEF TurnInv, TurnOf, Placed, Settled, CallOrNone
  <1>3. Goes(r, q)
    BY <1>1, <1>2 DEF EndRequest, Goes
  <1>. QED  BY <1>3

(* A change of stage alone, forwards. *)
LEMMA StepOfTurn ==
  ASSUME ToolShape, TurnInv, NEW r \in AIRequests, NEW pc \in Stages, StepTo(r, pc),
         HoldsSlotOf(r) \/ SlotsTaken < AISlots,
         \/ pc \in Settled
         \/ pc = "rest" /\ ai[r].pc \in Placed
         \/ {pc, ai[r].pc} \subseteq Stages \ (Placed \union Settled)
  PROVE  \E q : Goes(r, q)
  <1>. DEFINE q == [ai[r] EXCEPT !.pc = pc]
  <1>1. ai[r] \in RequestType /\ TurnOf(ai[r])
    BY DEF ToolShape, TurnInv
  <1>2. /\ q.pc = pc /\ q.answer = ai[r].answer /\ q.rounds = ai[r].rounds
        /\ q.prompt = ai[r].prompt /\ q.took = ai[r].took /\ q.seen = ai[r].seen
    BY <1>1 DEF RequestType
  <1>3. ai' = [ai EXCEPT ![r] = q]
    BY <1>1 DEF StepTo, RequestType
  <1>. HIDE DEF q
  <1>4. TurnOf(q)
    BY <1>1, <1>2 DEF TurnOf, Placed, Settled
  <1>5. Goes(r, q)
    BY <1>3, <1>4 DEF Goes
  <1>. QED  BY <1>5

LEMMA TurnArrive ==
  ASSUME ToolShape, TurnInv, NEW r \in AIRequests, AIArrive(r)
  PROVE  \E q : Goes(r, q)
  <1>. DEFINE seen == IF talk.says[r] = "yes" THEN prompts ELSE {}
              q == [ai[r] EXCEPT !.pc = "queued", !.seen = seen]
  <1>1. ai[r] \in RequestType /\ TurnOf(ai[r]) /\ ai[r].pc = "idle" /\ seen \subseteq Calls
    BY DEF ToolShape, TurnInv, AIArrive
  <1>2. /\ q.pc = "queued" /\ q.answer = ai[r].answer /\ q.rounds = ai[r].rounds
        /\ q.prompt = ai[r].prompt /\ q.took = ai[r].took /\ q.seen = seen
    BY <1>1 DEF RequestType
  <1>3. ai' = [ai EXCEPT ![r] = q]
    BY <1>1, ZenonT(40) DEF AIArrive, RequestType
  <1>. HIDE DEF q, seen
  <1>4. TurnOf(q)
    BY <1>1, <1>2 DEF TurnOf, Placed, Settled, Stages
  <1>5. Goes(r, q)
    BY <1>2, <1>3, <1>4 DEF Goes
  <1>. QED  BY <1>5

LEMMA TurnAcquire ==
  ASSUME ToolShape, TurnInv, NEW r \in AIRequests, AIAcquire(r)
  PROVE  \E q : Goes(r, q)
  <1>1. CASE SlotsTaken < AISlots /\ StepTo(r, "begun")
    BY <1>1, StepOfTurn DEF AIAcquire, Stages, Placed, Settled
  <1>2. CASE EndRequest(r, NothingTaken)
    BY <1>2, EndOfTurn DEF NothingTaken, CallOrNone
  <1>. QED  BY <1>1, <1>2 DEF AIAcquire

LEMMA TurnBegin ==
  ASSUME ToolShape, TurnInv, NEW r \in AIRequests, AIBegin(r)
  PROVE  /\ \E q : Goes(r, q)
         /\ approval'.call \in CallOrNone
  <1>1. ai[r] \in RequestType /\ TurnOf(ai[r]) /\ ai[r].pc = "begun" /\ approval.call \in CallOrNone
        /\ HoldsSlotOf(r)
    BY DEF ToolShape, TurnInv, AIBegin, HoldsSlotOf
  <1>2. approval' \in {approval, NoApproval}
    BY DEF AIBegin, TakeOut
  <1>3. approval'.call \in CallOrNone
    BY <1>1, <1>2 DEF NoApproval, CallOrNone
  <1>. DEFINE took == [call |-> approval.call, age |-> aiClock - approval.at]
  <1>4. CASE StepTo(r, "answer")
    BY <1>1, <1>3, <1>4, StepOfTurn DEF Stages, Settled
  <1>5. CASE ai' = [ai EXCEPT ![r].pc = "approved", ![r].took = took]
    <2>. DEFINE q == [ai[r] EXCEPT !.pc = "approved", !.took = took]
    <2>1. /\ q.pc = "approved" /\ q.answer = ai[r].answer /\ q.rounds = ai[r].rounds
          /\ q.prompt = ai[r].prompt /\ q.took = took /\ q.seen = ai[r].seen
      BY <1>1 DEF RequestType
    <2>2. ai' = [ai EXCEPT ![r] = q]
      BY <1>1, <1>5, ZenonT(40) DEF RequestType
    <2>3. took.call \in CallOrNone
      BY <1>1
    <2>. HIDE DEF q, took
    <2>4. TurnOf(q)
      BY <1>1, <2>1, <2>3 DEF TurnOf, Placed, Settled, Stages
    <2>5. Goes(r, q)
      BY <1>1, <2>2, <2>4 DEF Goes
    <2>. QED  BY <1>3, <2>5
  <1>6. CASE EndRequest(r, took)
    BY <1>1, <1>3, <1>6, EndOfTurn
  <1>7. CASE StepTo(r, "model")
    BY <1>1, <1>3, <1>7, StepOfTurn DEF Stages, Placed, Settled
  <1>. QED  BY <1>3, <1>4, <1>5, <1>6, <1>7 DEF AIBegin

LEMMA TurnRunApproved ==
  ASSUME ToolInv, TurnInv, NEW r \in AIRequests, AIRunApproved(r)
  PROVE  /\ \E q : Goes(r, q)
         /\ toolRuns'.done \subseteq Calls
  <1>1. /\ ai[r].pc = "approved" /\ HoldsSlotOf(r) /\ TurnOf(ai[r]) /\ ToolShape
        /\ ai[r].took # NothingTaken /\ Approvable(ai[r].took.call)
    BY DEF ToolInv, TakenInv, AIRunApproved, HoldsSlotOf, TurnInv
  <1>2. ai[r].took.call \in Calls
    BY <1>1, NoCallIsNoCall DEF TurnOf, CallOrNone, Approvable
  <1>3. toolRuns'.done \subseteq Calls
    BY <1>1, <1>2 DEF AIRunApproved, Runs, ToolShape, TurnInv
  <1>4. \E q : Goes(r, q)
    BY <1>1, StepOfTurn DEF AIRunApproved, Stages, Settled
  <1>. QED  BY <1>3, <1>4

LEMMA TurnModel ==
  ASSUME ToolShape, TurnInv, NEW r \in AIRequests, AIModel(r)
  PROVE  \E q : Goes(r, q)
  <1>1. ai[r] \in RequestType /\ TurnOf(ai[r]) /\ ai[r].pc = "model" /\ HoldsSlotOf(r)
    BY DEF ToolShape, TurnInv, AIModel, HoldsSlotOf
  <1>2. CASE StepTo(r, "answer")
    BY <1>1, <1>2, StepOfTurn DEF Stages, Settled
  <1>3. ASSUME NEW b, NEW once,
               ai' = [ai EXCEPT ![r].pc = "round", ![r].batch = b, ![r].answer = @ + 1, ![r].once = once]
        PROVE  \E q : Goes(r, q)
    <2>. DEFINE q == [ai[r] EXCEPT !.pc = "round", !.batch = b, !.answer = @ + 1, !.once = once]
    <2>1. /\ q.pc = "round" /\ q.answer = ai[r].answer + 1 /\ q.rounds = ai[r].rounds
          /\ q.prompt = ai[r].prompt /\ q.took = ai[r].took /\ q.seen = ai[r].seen
      BY <1>1 DEF RequestType
    <2>2. ai' = [ai EXCEPT ![r] = q]
      BY <1>1, <1>3 DEF RequestType
    <2>. HIDE DEF q
    <2>3. TurnOf(q)
      BY <1>1, <2>1, ToolLimits DEF TurnOf, Placed, Settled, Stages
    <2>4. Goes(r, q)
      BY <1>1, <2>2, <2>3 DEF Goes
    <2>. QED  BY <2>4
  <1>. QED  BY <1>2, <1>3 DEF AIModel

LEMMA TurnRound ==
  ASSUME ToolShape, TurnInv, NEW r \in AIRequests, AIRound(r)
  PROVE  \E q : Goes(r, q)
  <1>1. /\ ai[r] \in RequestType /\ TurnOf(ai[r]) /\ ai[r].pc = "round" /\ HoldsSlotOf(r)
        /\ ai[r].rounds \in Nat
    BY DEF ToolShape, TurnInv, AIRound, HoldsSlotOf, RequestType
  <1>2. CASE StepTo(r, "rest")
    BY <1>1, <1>2, StepOfTurn DEF Stages, Placed
  <1>3. CASE ~LoopEnds(r) /\ ai' = [ai EXCEPT ![r].pc = "calls", ![r].pos = 1]
    <2>. DEFINE q == [ai[r] EXCEPT !.pc = "calls", !.pos = 1]
    <2>1. /\ q.pc = "calls" /\ q.answer = ai[r].answer /\ q.rounds = ai[r].rounds
          /\ q.prompt = ai[r].prompt /\ q.took = ai[r].took /\ q.seen = ai[r].seen
      BY <1>1 DEF RequestType
    <2>2. ai' = [ai EXCEPT ![r] = q]
      BY <1>1, <1>3 DEF RequestType
    <2>3. ai[r].rounds < MaxToolRounds
      BY <1>1, <1>3, ToolLimits DEF LoopEnds, TurnOf
    <2>. HIDE DEF q
    <2>4. TurnOf(q)
      BY <1>1, <2>1, <2>3 DEF TurnOf, Placed, Settled, Stages
    <2>5. Goes(r, q)
      BY <1>1, <2>2, <2>4 DEF Goes
    <2>. QED  BY <2>5
  <1>4. CASE ai' = [ai EXCEPT ![r].pc = "rest", ![r].failed = TRUE]
    <2>. DEFINE q == [ai[r] EXCEPT !.pc = "rest", !.failed = TRUE]
    <2>1. /\ q.pc = "rest" /\ q.answer = ai[r].answer /\ q.rounds = ai[r].rounds
          /\ q.prompt = ai[r].prompt /\ q.took = ai[r].took /\ q.seen = ai[r].seen
      BY <1>1 DEF RequestType
    <2>2. ai' = [ai EXCEPT ![r] = q]
      BY <1>1, <1>4 DEF RequestType
    <2>. HIDE DEF q
    <2>3. TurnOf(q)
      BY <1>1, <2>1 DEF TurnOf, Placed, Settled, Stages
    <2>4. Goes(r, q)
      BY <1>1, <2>2, <2>3 DEF Goes
    <2>. QED  BY <2>4
  <1>. QED  BY <1>2, <1>3, <1>4 DEF AIRound

LEMMA TurnCall ==
  ASSUME ToolShape, TurnInv, NEW r \in AIRequests, AICall(r)
  PROVE  /\ \E q : Goes(r, q)
         /\ toolRuns'.done \subseteq Calls
  <1>1. /\ ai[r] \in RequestType /\ TurnOf(ai[r]) /\ ai[r].pc \in {"calls", "late"}
        /\ HoldsSlotOf(r) /\ ai[r].pos \in 1 .. Len(ai[r].batch)
    BY DEF ToolShape, TurnInv, AICall, HoldsSlotOf, RequestType, CallsOver, Batches
  <1>. DEFINE q == [ai[r] EXCEPT !.pos = @ + 1]
  <1>2. /\ q.pc = ai[r].pc /\ q.answer = ai[r].answer /\ q.rounds = ai[r].rounds
        /\ q.prompt = ai[r].prompt /\ q.took = ai[r].took /\ q.seen = ai[r].seen
    BY <1>1 DEF RequestType
  <1>3. ai' = [ai EXCEPT ![r] = q]
    BY <1>1 DEF AICall, RequestType
  <1>. HIDE DEF q
  <1>4. Goes(r, q)
    BY <1>1, <1>2, <1>3 DEF Goes, TurnOf
  <1>5. toolRuns'.done \subseteq Calls
    <2>1. CASE UNCHANGED toolRuns
      BY <2>1 DEF TurnInv
    <2>2. CASE ai[r].pos <= MaxToolsPerTurn /\ Runs(Call(r, ai[r].pos))
      <3>1. Call(r, ai[r].pos) \in Calls
        BY <1>1, <2>2, CallsAreBounded
      <3>. QED  BY <2>2, <3>1 DEF Runs, ToolShape, TurnInv
    <2>3. ai[r].pos \in Nat
      BY <1>1
    <2>. QED  BY <2>1, <2>2, <2>3, ToolLimits DEF AICall
  <1>. QED  BY <1>4, <1>5

LEMMA TurnGate ==
  ASSUME ToolShape, TurnInv, NEW r \in AIRequests, ai[r].pc \in {"calls", "late"}, Gate(r)
  PROVE  /\ \E q : Goes(r, q)
         /\ approval'.call \in CallOrNone
  <1>1. /\ ai[r] \in RequestType /\ TurnOf(ai[r]) /\ HoldsSlotOf(r)
    BY DEF ToolShape, TurnInv, HoldsSlotOf
  <1>2. PICK i \in Blocked(ai[r].batch) :
           /\ approval' = IF MayStore THEN [call |-> Call(r, i), at |-> aiClock] ELSE approval
           /\ ai' = [ai EXCEPT ![r].pc = "answer", ![r].batch = <<>>,
                               ![r].prompt = IF MayStore THEN Call(r, i) ELSE NoCall]
    BY DEF Gate
  <1>3. Call(r, i) \in Calls
    BY <1>2, CallsAreBounded DEF Blocked
  <1>4. approval'.call \in CallOrNone
    BY <1>2, <1>3 DEF TurnInv, CallOrNone
  <1>. DEFINE prompt == IF MayStore THEN Call(r, i) ELSE NoCall
              q == [ai[r] EXCEPT !.pc = "answer", !.batch = <<>>, !.prompt = prompt]
  <1>5. prompt \in CallOrNone
    BY <1>3 DEF CallOrNone
  <1>6. /\ q.pc = "answer" /\ q.answer = ai[r].answer /\ q.rounds = ai[r].rounds
        /\ q.prompt = prompt /\ q.took = ai[r].took /\ q.seen = ai[r].seen
    BY <1>1 DEF RequestType
  <1>7. ai' = [ai EXCEPT ![r] = q]
    BY <1>1, <1>2, ZenonT(40) DEF RequestType
  <1>. HIDE DEF q, prompt
  <1>8. TurnOf(q)
    BY <1>1, <1>5, <1>6 DEF TurnOf, Placed, Settled
  <1>9. Goes(r, q)
    BY <1>1, <1>7, <1>8 DEF Goes
  <1>. QED  BY <1>4, <1>9

LEMMA TurnRoundDone ==
  ASSUME ToolShape, TurnInv, NEW r \in AIRequests, AIRoundDone(r)
  PROVE  /\ \E q : Goes(r, q)
         /\ approval'.call \in CallOrNone
  <1>1. /\ ai[r] \in RequestType /\ TurnOf(ai[r]) /\ ai[r].pc = "calls" /\ HoldsSlotOf(r)
        /\ ai[r].rounds \in Nat /\ approval.call \in CallOrNone
    BY DEF ToolShape, TurnInv, AIRoundDone, HoldsSlotOf, RequestType
  <1>. DEFINE n == Noted(ai[r])
  <1>2. /\ n \in RequestType
        /\ n.pc = "calls" /\ n.answer = ai[r].answer /\ n.rounds = ai[r].rounds + 1
        /\ n.prompt = ai[r].prompt /\ n.took = ai[r].took /\ n.seen = ai[r].seen
    <2>1. n = [ai[r] EXCEPT !.rounds = ai[r].rounds + 1, !.ran = TRUE]
      BY <1>1 DEF RequestType, Noted
    <2>2. ai[r].rounds + 1 \in Nat
      BY <1>1
    <2>. HIDE DEF n
    <2>3. n \in RequestType
      BY <1>1, <2>1, <2>2 DEF RequestType
    <2>4. n.pc = "calls" /\ n.answer = ai[r].answer /\ n.rounds = ai[r].rounds + 1
      BY <1>1, <2>1 DEF RequestType
    <2>5. n.prompt = ai[r].prompt /\ n.took = ai[r].took /\ n.seen = ai[r].seen
      BY <1>1, <2>1 DEF RequestType
    <2>. QED  BY <2>3, <2>4, <2>5
  <1>. HIDE DEF n
  <1>3. ASSUME NEW q, ai' = [ai EXCEPT ![r] = q], q.pc \in {"rest", "answer", "asked"},
               q.answer = n.answer, q.rounds = n.rounds, q.prompt = n.prompt, q.took = n.took, q.seen = n.seen
        PROVE  Goes(r, q)
    <2>1. TurnOf(q)
      BY <1>1, <1>2, <1>3, ToolLimits DEF TurnOf, Placed, Settled, Stages
    <2>. QED  BY <1>1, <1>3, <2>1 DEF Goes
  <1>4. CASE Gate(r)
    BY <1>1, <1>4, TurnGate
  <1>5. ASSUME NEW q \in {[n EXCEPT !.pc = "rest", !.failed = TRUE],
                          [n EXCEPT !.pc = "answer", !.batch = <<>>],
                          [n EXCEPT !.pc = "asked", !.batch = <<>>], [n EXCEPT !.pc = "asked"]},
               ai' = [ai EXCEPT ![r] = q]
        PROVE  Goes(r, q)
    <2>1. /\ q.pc \in {"rest", "answer", "asked"} /\ q.answer = n.answer /\ q.rounds = n.rounds
          /\ q.prompt = n.prompt /\ q.took = n.took /\ q.seen = n.seen
      BY <1>2, <1>5 DEF RequestType
    <2>. QED  BY <1>3, <1>5, <2>1
  <1>6. CASE UNCHANGED approval
    <2>1. PICK q \in {[n EXCEPT !.pc = "rest", !.failed = TRUE],
                      [n EXCEPT !.pc = "answer", !.batch = <<>>],
                      [n EXCEPT !.pc = "asked", !.batch = <<>>], [n EXCEPT !.pc = "asked"]} :
             ai' = [ai EXCEPT ![r] = q] \/ Gate(r)
      BY DEF AIRoundDone, n
    <2>. QED  BY <1>1, <1>4, <1>5, <1>6, <2>1
  <1>7. UNCHANGED approval \/ Gate(r)
    BY DEF AIRoundDone
  <1>. QED  BY <1>4, <1>6, <1>7

LEMMA TurnContinue ==
  ASSUME ToolShape, TurnInv, NEW r \in AIRequests, AIContinue(r)
  PROVE  \E q : Goes(r, q)
  <1>1. ai[r] \in RequestType /\ TurnOf(ai[r]) /\ ai[r].pc = "asked" /\ HoldsSlotOf(r)
    BY DEF ToolShape, TurnInv, AIContinue, HoldsSlotOf
  <1>2. CASE StepTo(r, "rest")
    BY <1>1, <1>2, StepOfTurn DEF Stages, Placed
  <1>3. CASE ai' = [ai EXCEPT ![r].pc = "answer", ![r].batch = <<>>, ![r].ran = FALSE]
    <2>. DEFINE q == [ai[r] EXCEPT !.pc = "answer", !.batch = <<>>, !.ran = FALSE]
    <2>1. /\ q.pc = "answer" /\ q.answer = ai[r].answer /\ q.rounds = ai[r].rounds
          /\ q.prompt = ai[r].prompt /\ q.took = ai[r].took /\ q.seen = ai[r].seen
      BY <1>1 DEF RequestType
    <2>2. ai' = [ai EXCEPT ![r] = q]
      BY <1>1, <1>3, ZenonT(40) DEF RequestType
    <2>. HIDE DEF q
    <2>3. Goes(r, q)
      BY <1>1, <2>1, <2>2 DEF Goes, TurnOf, Placed, Settled
    <2>. QED  BY <2>3
  <1>4. ASSUME NEW b,
               ai' = [ai EXCEPT ![r].pc = "round", ![r].batch = b, ![r].answer = @ + 1, ![r].ran = FALSE]
        PROVE  \E q : Goes(r, q)
    <2>. DEFINE q == [ai[r] EXCEPT !.pc = "round", !.batch = b, !.answer = @ + 1, !.ran = FALSE]
    <2>1. /\ q.pc = "round" /\ q.answer = ai[r].answer + 1 /\ q.rounds = ai[r].rounds
          /\ q.prompt = ai[r].prompt /\ q.took = ai[r].took /\ q.seen = ai[r].seen
          /\ ai[r].answer \in Nat /\ ai[r].rounds \in Nat
      BY <1>1 DEF RequestType
    <2>2. ai' = [ai EXCEPT ![r] = q]
      BY <1>1, <1>4 DEF RequestType
    <2>. HIDE DEF q
    <2>3. TurnOf(q)
      BY <1>1, <2>1, ToolLimits DEF TurnOf, Placed, Settled, Stages
    <2>4. Goes(r, q)
      BY <1>1, <2>2, <2>3 DEF Goes
    <2>. QED  BY <2>4
  <1>. QED  BY <1>2, <1>3, <1>4 DEF AIContinue

LEMMA TurnRest ==
  ASSUME ToolShape, TurnInv, NEW r \in AIRequests, AIRest(r)
  PROVE  /\ \E q : Goes(r, q)
         /\ toolRuns'.done = toolRuns.done
  <1>1. /\ ai[r] \in RequestType /\ TurnOf(ai[r]) /\ ai[r].pc = "rest" /\ HoldsSlotOf(r)
        /\ toolRuns'.done = toolRuns.done
    BY DEF ToolShape, TurnInv, AIRest, HoldsSlotOf
  <1>2. CASE StepTo(r, "answer")
    BY <1>1, <1>2, StepOfTurn DEF Stages, Settled
  <1>3. CASE ai' = [ai EXCEPT ![r].pc = "answer", ![r].batch = <<>>]
    <2>. DEFINE q == [ai[r] EXCEPT !.pc = "answer", !.batch = <<>>]
    <2>1. /\ q.pc = "answer" /\ q.answer = ai[r].answer /\ q.rounds = ai[r].rounds
          /\ q.prompt = ai[r].prompt /\ q.took = ai[r].took /\ q.seen = ai[r].seen
      BY <1>1 DEF RequestType
    <2>2. ai' = [ai EXCEPT ![r] = q]
      BY <1>1, <1>3, ZenonT(40) DEF RequestType
    <2>. HIDE DEF q
    <2>3. Goes(r, q)
      BY <1>1, <2>1, <2>2 DEF Goes, TurnOf, Placed, Settled
    <2>. QED  BY <1>1, <2>3
  <1>4. CASE ai' = [ai EXCEPT ![r].pc = "late", ![r].pos = 1]
    <2>. DEFINE q == [ai[r] EXCEPT !.pc = "late", !.pos = 1]
    <2>1. /\ q.pc = "late" /\ q.answer = ai[r].answer /\ q.rounds = ai[r].rounds
          /\ q.prompt = ai[r].prompt /\ q.took = ai[r].took /\ q.seen = ai[r].seen
      BY <1>1 DEF RequestType
    <2>2. ai' = [ai EXCEPT ![r] = q]
      BY <1>1, <1>4, ZenonT(40) DEF RequestType
    <2>. HIDE DEF q
    <2>3. Goes(r, q)
      BY <1>1, <2>1, <2>2 DEF Goes, TurnOf, Placed, Settled
    <2>. QED  BY <1>1, <2>3
  <1>. QED  BY <1>2, <1>3, <1>4 DEF AIRest

LEMMA TurnLateDone ==
  ASSUME ToolShape, TurnInv, NEW r \in AIRequests, AILateDone(r)
  PROVE  /\ \E q : Goes(r, q)
         /\ approval'.call \in CallOrNone
  <1>1. /\ ai[r] \in RequestType /\ TurnOf(ai[r]) /\ ai[r].pc = "late" /\ HoldsSlotOf(r)
        /\ approval.call \in CallOrNone
    BY DEF ToolShape, TurnInv, AILateDone, HoldsSlotOf
  <1>2. CASE Gate(r)
    BY <1>1, <1>2, TurnGate
  <1>3. CASE ai' = [ai EXCEPT ![r].pc = "answer", ![r].batch = <<>>] /\ UNCHANGED approval
    <2>. DEFINE q == [ai[r] EXCEPT !.pc = "answer", !.batch = <<>>]
    <2>1. /\ q.pc = "answer" /\ q.answer = ai[r].answer /\ q.rounds = ai[r].rounds
          /\ q.prompt = ai[r].prompt /\ q.took = ai[r].took /\ q.seen = ai[r].seen
      BY <1>1 DEF RequestType
    <2>2. ai' = [ai EXCEPT ![r] = q]
      BY <1>1, <1>3, ZenonT(40) DEF RequestType
    <2>. HIDE DEF q
    <2>3. Goes(r, q)
      BY <1>1, <2>1, <2>2 DEF Goes, TurnOf, Placed, Settled
    <2>. QED  BY <1>1, <1>3, <2>3
  <1>. QED  BY <1>2, <1>3 DEF AILateDone

LEMMA TurnAnswer ==
  ASSUME ToolShape, TurnInv, NEW r \in AIRequests, AIAnswer(r)
  PROVE  /\ \E q : Goes(r, q)
         /\ prompts' \subseteq Calls
  <1>1. ai[r].took.call \in CallOrNone /\ ai[r].prompt \in CallOrNone /\ prompts \subseteq Calls
    BY DEF TurnInv, TurnOf
  <1>2. \E q : Goes(r, q)
    BY <1>1, EndOfTurn DEF AIAnswer
  <1>3. prompts' \subseteq Calls
    BY <1>1 DEF AIAnswer, CallOrNone
  <1>. QED  BY <1>2, <1>3

LEMMA TurnCut ==
  ASSUME ToolShape, TurnInv, NEW r \in AIRequests, AICut(r)
  PROVE  \E q : Goes(r, q)
  <1>1. ai[r].took.call \in CallOrNone
    BY DEF TurnInv, TurnOf
  <1>. QED  BY <1>1, EndOfTurn DEF AICut

LEMMA TurnInitially == ToolInit => TurnInv
  <1>. SUFFICES ASSUME ToolInit PROVE TurnInv
    OBVIOUS
  <1>1. \A r \in AIRequests : ai[r] = NewRequest /\ ai[r].pc = "idle"
    BY DEF ToolInit, NewRequest
  <1>2. TurnOf(NewRequest)
    BY ToolLimits DEF TurnOf, NewRequest, NothingTaken, CallOrNone, Placed, Settled, Stages
  <1>3. SlotHolders = {}
    BY <1>1 DEF SlotHolders, HoldsSlotOf
  <1>4. IsFiniteSet(SlotHolders) /\ SlotsTaken = 0
    BY <1>3, FS_EmptySet DEF SlotsTaken, SlotHolders
  <1>. QED  BY <1>1, <1>2, <1>4, ToolLimits DEF ToolInit, TurnInv, NoApproval, CallOrNone

LEMMA TurnOfRequest ==
  ASSUME ToolInv, TurnInv, NEW r \in AIRequests, AIArrive(r) \/ AIStep(r) \/ AICut(r)
  PROVE  TurnInv'
  <1>1. ToolShape /\ approval.call \in CallOrNone /\ toolRuns.done \subseteq Calls /\ prompts \subseteq Calls
    BY DEF ToolInv, TurnInv
  <1>2. CASE AIArrive(r) \/ AICut(r) \/ AIAcquire(r) \/ AIModel(r) \/ AIRound(r) \/ AIContinue(r)
    <2>1. UNCHANGED <<approval, toolRuns, prompts>>
      BY <1>2 DEF AIArrive, AICut, AIAcquire, AIModel, AIRound, AIContinue
    <2>2. \E q : Goes(r, q)
      BY <1>1, <1>2, TurnArrive, TurnCut, TurnAcquire, TurnModel, TurnRound, TurnContinue
    <2>. QED  BY <1>1, <2>1, <2>2, GoesKeeps
  <1>3. CASE AIBegin(r) \/ AIRoundDone(r) \/ AILateDone(r)
    <2>1. UNCHANGED <<toolRuns, prompts>>
      BY <1>3 DEF AIBegin, AIRoundDone, AILateDone
    <2>2. (\E q : Goes(r, q)) /\ approval'.call \in CallOrNone
      BY <1>1, <1>3, TurnBegin, TurnRoundDone, TurnLateDone
    <2>. QED  BY <1>1, <2>1, <2>2, GoesKeeps
  <1>4. CASE AIRunApproved(r) \/ AICall(r) \/ AIRest(r)
    <2>1. UNCHANGED <<approval, prompts>>
      BY <1>4 DEF AIRunApproved, AICall, AIRest
    <2>2. (\E q : Goes(r, q)) /\ toolRuns'.done \subseteq Calls
      BY <1>1, <1>4, TurnRunApproved, TurnCall, TurnRest
    <2>. QED  BY <1>1, <2>1, <2>2, GoesKeeps
  <1>5. CASE AIAnswer(r)
    <2>1. UNCHANGED <<approval, toolRuns>>
      BY <1>5 DEF AIAnswer
    <2>. QED  BY <1>1, <1>5, <2>1, TurnAnswer, GoesKeeps
  <1>. QED  BY <1>2, <1>3, <1>4, <1>5 DEF AIStep

LEMMA TurnKeeps == ToolInv /\ TurnInv /\ [ToolNext]_toolVars => TurnInv'
  <1>. SUFFICES ASSUME ToolInv, TurnInv, [ToolNext]_toolVars PROVE TurnInv'
    OBVIOUS
  <1>1. CASE UNCHANGED <<ai, approval, toolRuns, prompts>>
    BY <1>1 DEF TurnInv, TurnOf, SlotHolders, HoldsSlotOf, SlotsTaken
  <1>2. CASE AITick \/ UNCHANGED toolVars
    BY <1>1, <1>2 DEF AITick, toolVars
  <1>. QED  BY <1>2, TurnOfRequest DEF ToolNext

\* A request gives at most one answer more than there are rounds, what runs, is
\* stored or is seen are calls of those answers within the limit of a turn, and
\* never more requests than slots are under way (dispatcher's loop, execute_calls
\* and the semaphore of _execute_ai).
THEOREM ToolTypeCorrect == ToolSpec => []ToolTypeOK
  <1>1. ToolInv /\ TurnInv => ToolTypeOK
    <2>. SUFFICES ASSUME ToolInv, TurnInv PROVE ToolTypeOK
      OBVIOUS
    <2>1. talk \in Talks /\ \A r \in AIRequests : ai[r] \in RequestType /\ TurnOf(ai[r])
      BY DEF ToolInv, ToolShape, TurnInv
    <2>2. \A r \in AIRequests : ai[r].answer \in 0 .. MaxToolRounds + 1 /\ ai[r].rounds \in 0 .. MaxToolRounds
      BY <2>1, ToolLimits DEF TurnOf, RequestType
    <2>. QED  BY <2>1, <2>2 DEF ToolTypeOK, TurnInv, TurnOf, CallOrNone, RequestType, Stages
  <1>2. ToolSpec => []TurnInv
    <2>1. ToolInit => ToolInv /\ TurnInv
      BY InitEstablishes, TurnInitially
    <2>2. ToolInv /\ TurnInv /\ [ToolNext]_toolVars => (ToolInv /\ TurnInv)'
      BY StepKeeps, TurnKeeps
    <2>. QED  BY <2>1, <2>2, PTL DEF ToolSpec
  <1>. QED  BY <1>1, <1>2, ToolInvariant, PTL

===============================================================================
