------------------------------ MODULE ArchiveProofs ------------------------------
(***************************************************************************)
(* Proofs about MessageArchive, for any tasks, stores, bounds and failures: *)
(* the owner's settings of the archive are never replaced by the defaults,  *)
(* nor a confirmed change of them lost; a row whose write was confirmed     *)
(* stays; what the owner was told is removed never returns; and the archive *)
(* keeps its bounds.                                                        *)
(***************************************************************************)
EXTENDS MessageArchive, FiniteSetTheorems, WellFoundedInduction, TLAPS

-----------------------------------------------------------------------------
(* The settings of the archive.  Writing them is unconditional everywhere:   *)
(* what keeps the defaults out is that a change is refused until a load has  *)
(* succeeded, that a load of the dedicated store comes after its import, and  *)
(* that all of them ask for the same store.  The last two fail with the      *)
(* reasons the property excuses, so the invariant holds until one of them.   *)

Troubled == arcLog.why \cap {"two stores", "import cut short", "import beside a write"} # {}

StoreOf(tables) == IF tables THEN "dedicated" ELSE "legacy"
SettingsWrite(tables) == IF tables THEN "cfg" ELSE "doc"
RowWrites == {"entries", "prune", "shards"}
Importing == {"marker", "entries", "shards", "document", "rows", "settings"}
Talking == Importing \union {"read", "retention", "save"}

DbFields == {"entries", "cfg", "shards", "doc"}
BotFields == {"mode", "loaded", "paused", "doc", "handled", "imported"}
TaskFields == {"pc", "mode", "goal", "got", "row", "write"}
WriteFields == {"what", "cells", "drops", "doc"}
LogFields == {"kept", "dropped", "removed", "doc", "why"}

(* The owner's last confirmed settings, or a change of them still to be      *)
(* confirmed.                                                                 *)
Meant(confirmed, doc) == doc \in {confirmed, Changed(confirmed)}
InForce(tables, db) == Sanitized(IF tables /\ db.cfg # "none" THEN db.cfg ELSE db.doc)

StoreIs(tables, db, confirmed) ==
    /\ DOMAIN db = DbFields
    /\ db.cfg \in Docs \union {"none"} /\ db.doc \in Docs \union {"none"}
    /\ Meant(confirmed, InForce(tables, db))
BotIs(tables, db, confirmed, b) ==
    /\ DOMAIN b = BotFields
    /\ b.mode \in {"none", StoreOf(tables)}
    /\ b.loaded => Meant(confirmed, b.doc)
    /\ b.imported => db.cfg # "none"

(* A task that talks to a store talks to the one in use; only what the       *)
(* import has marked is read from the dedicated one; the import carries the  *)
(* older document, and a change the change of what was confirmed.             *)
TaskIs(tables, db, confirmed, job, q) ==
    /\ DOMAIN q = TaskFields /\ DOMAIN q.write = WriteFields /\ q.goal \in {"read", "save"}
    /\ q.pc \in Talking => q.mode = StoreOf(tables)
    /\ q.pc \in Importing => tables
    /\ q.pc = "read" /\ tables /\ job # "sweep" => db.cfg # "none"
    /\ q.pc = "rows" => q.write.what = "entries"
    /\ q.pc = "settings" => q.write.what = "cfg" /\ q.write.doc = Sanitized(db.doc)
    /\ job = "change" => \/ q.pc \in {"new", "over"}
                         \/ /\ q.pc \in {"probe", "save"} /\ q.goal = "save"
                            /\ q.write.doc = Changed(confirmed)
    /\ job = "sweep" => /\ q.pc \in {"new", "over", "probe", "read", "retention", "save"}
                        /\ q.pc \in {"new", "probe"} => q.goal = "read"
                        /\ q.pc = "save" => q.write.what \in RowWrites
LateIs(tables, confirmed, w) ==
    /\ w.what \in RowWrites \union {SettingsWrite(tables)}
    /\ w.what \notin RowWrites => w.doc = Changed(confirmed)

LogInv == DOMAIN arcLog = LogFields /\ arcLog.doc \in Docs
Healthy ==
    /\ plot \in Plots
    /\ StoreIs(plot.tables, arcDb, arcLog.doc)
    /\ BotIs(plot.tables, arcDb, arcLog.doc, bot)
    /\ \A w \in late : LateIs(plot.tables, arcLog.doc, w)
    /\ DOMAIN arcTask = ArchiveTasks \union {Loader}
    /\ \A t \in DOMAIN arcTask : TaskIs(plot.tables, arcDb, arcLog.doc, Job(t), arcTask[t])
SettingsInv == LogInv /\ (Troubled \/ Healthy)

LEMMA ChangedTwice ==
  /\ \A d \in Docs : /\ Changed(d) \in Docs /\ Changed(d) # "none" /\ Sanitized(d) = d
                     /\ Changed(Changed(d)) = Changed(d) /\ d # "none"
  /\ \A d : Sanitized(d) # "none"
  /\ \A d \in Docs : \A e : Meant(d, e) => Changed(e) = Changed(d) /\ e \in Docs
  BY DEF Changed, Docs, Sanitized, Meant

LEMMA LaterMeaning ==
  ASSUME NEW told \in Docs, NEW doc, Meant(told, doc)
  PROVE  Meant(told, doc) /\ Meant(told, Changed(told)) /\ Meant(Changed(told), Changed(told))
  BY DEF Meant

(* What a write leaves alone. *)
LEMMA RowWriteLands ==
  ASSUME DOMAIN arcDb = DbFields, NEW w, w.what \in RowWrites
  PROVE  \A db \in {arcDb, Landed(w)} \union Torn(w) :
             DOMAIN db = DbFields /\ db.cfg = arcDb.cfg /\ db.doc = arcDb.doc
  <1>1. ASSUME NEW e, NEW db, db = [arcDb EXCEPT !.entries = e] \/ db = [arcDb EXCEPT !.shards = e]
        PROVE  DOMAIN db = DbFields /\ db.cfg = arcDb.cfg /\ db.doc = arcDb.doc
    BY <1>1 DEF DbFields
  <1>2. CASE w.what = "entries"
    <2>1. Landed(w) = [arcDb EXCEPT !.entries = RowsOf(w.cells)]
      BY <1>2 DEF Landed
    <2>. DEFINE torn == [arcDb EXCEPT !.entries = arcDb.entries \union RowsOf(w.cells)]
    <2>2. Torn(w) = {torn}
      BY <1>2 DEF Torn
    <2>3. DOMAIN torn = DbFields /\ torn.cfg = arcDb.cfg /\ torn.doc = arcDb.doc
      BY <1>1
    <2>4. /\ DOMAIN Landed(w) = DbFields /\ Landed(w).cfg = arcDb.cfg
          /\ Landed(w).doc = arcDb.doc
      BY <1>1, <2>1
    <2>. HIDE DEF torn
    <2>. QED  BY <2>2, <2>3, <2>4
  <1>3. CASE w.what = "prune"
    <2>1. Landed(w) = [arcDb EXCEPT !.entries = arcDb.entries \ w.drops]
      BY <1>3 DEF Landed
    <2>2. Torn(w) = {}
      BY <1>3 DEF Torn
    <2>. QED  BY <1>1, <2>1, <2>2
  <1>4. CASE w.what = "shards"
    <2>1. Landed(w) = [arcDb EXCEPT !.shards = w.cells]
      BY <1>4 DEF Landed
    <2>2. \A db \in Torn(w) : \E e : db = [arcDb EXCEPT !.shards = e]
      BY <1>4 DEF Torn
    <2>. QED  BY <1>1, <2>1, <2>2
  <1>. QED  BY <1>2, <1>3, <1>4 DEF RowWrites

LEMMA SettingsWriteLands ==
  ASSUME DOMAIN arcDb = DbFields, NEW w, NEW tables, w.what = SettingsWrite(tables)
  PROVE  /\ Torn(w) = {} /\ DOMAIN Landed(w) = DbFields
         /\ tables => Landed(w).cfg = w.doc /\ Landed(w).doc = arcDb.doc
         /\ ~tables => Landed(w).doc = w.doc /\ Landed(w).cfg = arcDb.cfg
  <1>1. CASE tables
    <2>1. w.what = "cfg"
      BY <1>1 DEF SettingsWrite
    <2>2. Landed(w) = [arcDb EXCEPT !.cfg = w.doc]
      BY <2>1 DEF Landed
    <2>3. Torn(w) = {}
      BY <2>1 DEF Torn
    <2>. QED  BY <1>1, <2>2, <2>3 DEF DbFields
  <1>2. CASE ~tables
    <2>1. w.what = "doc"
      BY <1>2 DEF SettingsWrite
    <2>2. Landed(w) = [arcDb EXCEPT !.doc = w.doc]
      BY <2>1 DEF Landed
    <2>3. Torn(w) = {}
      BY <2>1 DEF Torn
    <2>. QED  BY <1>2, <2>2, <2>3 DEF DbFields
  <1>. QED  BY <1>1, <1>2

LEMMA AttemptedWrite ==
  ASSUME NEW w, NEW sure \in BOOLEAN, Attempt(w, sure)
  PROVE  /\ arcDb' \in {arcDb, Landed(w)} \union Torn(w)
         /\ late' \subseteq late \union {w}
         /\ sure => arcDb' = Landed(w) /\ late' = late
  BY DEF Attempt

(* What was carried stays right when the settings move on. *)
LEMMA TaskStays ==
  ASSUME NEW tables, NEW db, NEW after, NEW told \in Docs, NEW later \in {told, Changed(told)},
         NEW job, NEW q, TaskIs(tables, db, told, job, q),
         db.cfg # "none" => after.cfg # "none", tables => after.doc = db.doc
  PROVE  TaskIs(tables, after, later, job, q)
  <1>1. Changed(later) = Changed(told)
    BY ChangedTwice
  <1>. QED  BY <1>1 DEF TaskIs, Importing

LEMMA LateStays ==
  ASSUME NEW tables, NEW told \in Docs, NEW later \in {told, Changed(told)}, NEW w,
         LateIs(tables, told, w)
  PROVE  LateIs(tables, later, w)
  <1>1. Changed(later) = Changed(told)
    BY ChangedTwice
  <1>. QED  BY <1>1 DEF LateIs

-----------------------------------------------------------------------------
(* The fields of a task. *)

LEMMA TaskTurns ==
  ASSUME NEW q, DOMAIN q = TaskFields, NEW pc
  PROVE  LET r == [q EXCEPT !.pc = pc]
         IN /\ DOMAIN r = TaskFields /\ r.pc = pc /\ r.mode = q.mode /\ r.goal = q.goal
            /\ r.write = q.write
  BY DEF TaskFields

LEMMA IdleFields ==
  /\ DOMAIN IdleTask = TaskFields /\ DOMAIN IdleTask.write = WriteFields
  /\ IdleTask.goal = "read" /\ IdleTask.write.what = "none"
  /\ DOMAIN NoWrite = WriteFields
  BY DEF IdleTask, TaskFields, NoWrite, WriteFields

LEMMA IdleIs ==
  ASSUME NEW tables, NEW db, NEW told, NEW job, NEW pc \in {"new", "over"}
  PROVE  TaskIs(tables, db, told, job, [IdleTask EXCEPT !.pc = pc])
  <1>. DEFINE r == [IdleTask EXCEPT !.pc = pc]
  <1>1. /\ DOMAIN r = TaskFields /\ r.pc = pc /\ r.goal = "read" /\ r.write = IdleTask.write
    BY IdleFields, TaskTurns
  <1>. HIDE DEF r
  <1>. QED  BY <1>1, IdleFields DEF TaskIs, Talking, Importing

(* Asking for the store: it is known, or a probe comes first. *)
LEMMA FirstStepIs ==
  ASSUME Healthy, NEW t \in DOMAIN arcTask, NEW q,
         DOMAIN q = TaskFields, DOMAIN q.write = WriteFields, q.goal \in {"read", "save"},
         q.mode = StoreOf(plot.tables),
         Job(t) = "change" => q.goal = "save" /\ q.write.doc = Changed(arcLog.doc),
         Job(t) = "sweep" => q.goal = "read"
  PROVE  TaskIs(plot.tables, arcDb, arcLog.doc, Job(t), [q EXCEPT !.pc = FirstStep(t, q)])
  <1>. DEFINE pc == FirstStep(t, q)
              r == [q EXCEPT !.pc = pc]
  <1>1. DOMAIN r = TaskFields /\ r.pc = pc /\ r.mode = q.mode /\ r.goal = q.goal /\ r.write = q.write
    BY TaskTurns
  <1>2. /\ pc \in {"marker", "read", "save"}
        /\ pc = "marker" => plot.tables /\ q.goal = "read" /\ Job(t) # "sweep"
        /\ pc = "read" => q.goal = "read"
        /\ pc = "save" => q.goal = "save"
    BY DEF FirstStep, StoreOf
  <1>3. pc = "read" /\ plot.tables /\ Job(t) # "sweep" => arcDb.cfg # "none"
    BY DEF FirstStep, StoreOf, Healthy, BotIs
  <1>4. TaskIs(plot.tables, arcDb, arcLog.doc, Job(t), r)
    <2>. HIDE DEF r, pc
    <2>. QED  BY <1>1, <1>2, <1>3 DEF TaskIs, Talking, Importing
  <1>. QED  BY <1>4

LEMMA AskingIs ==
  ASSUME Healthy, NEW t \in DOMAIN arcTask, NEW q,
         DOMAIN q = TaskFields, DOMAIN q.write = WriteFields, q.goal \in {"read", "save"},
         Job(t) = "change" => q.goal = "save" /\ q.write.doc = Changed(arcLog.doc),
         Job(t) = "sweep" => q.goal = "read"
  PROVE  TaskIs(plot.tables, arcDb, arcLog.doc, Job(t), Asking(t, q))
  <1>1. CASE bot.mode = "none"
    <2>. DEFINE r == [q EXCEPT !.pc = "probe"]
    <2>1. /\ DOMAIN r = TaskFields /\ r.pc = "probe" /\ r.mode = q.mode /\ r.goal = q.goal
          /\ r.write = q.write
      BY TaskTurns
    <2>2. Asking(t, q) = r
      BY <1>1 DEF Asking
    <2>. HIDE DEF r
    <2>. QED  BY <2>1, <2>2 DEF TaskIs, Talking, Importing
  <1>2. CASE bot.mode # "none"
    <2>. DEFINE known == [q EXCEPT !.mode = bot.mode]
    <2>1. /\ DOMAIN known = TaskFields /\ known.mode = bot.mode /\ known.goal = q.goal
          /\ known.write = q.write
      BY DEF TaskFields
    <2>2. bot.mode = StoreOf(plot.tables)
      BY <1>2 DEF Healthy, BotIs
    <2>3. Asking(t, q) = [known EXCEPT !.pc = FirstStep(t, known)]
      BY <1>2 DEF Asking
    <2>. HIDE DEF known
    <2>. QED  BY <2>1, <2>2, <2>3, FirstStepIs
  <1>. QED  BY <1>1, <1>2

-----------------------------------------------------------------------------
(* A step that leaves the settings as they are. *)

Moved(t) == arcTask'[t] = arcTask[t]
               \/ TaskIs(plot.tables, arcDb, arcLog.doc, Job(t), arcTask'[t])
Steady ==
    /\ plot' = plot /\ arcLog'.doc = arcLog.doc
    /\ DOMAIN arcDb' = DbFields /\ arcDb'.cfg = arcDb.cfg /\ arcDb'.doc = arcDb.doc
    /\ \A w \in late' : w \in late \/ w.what \in RowWrites
    /\ DOMAIN arcTask' = DOMAIN arcTask /\ \A t \in DOMAIN arcTask : Moved(t)
    /\ DOMAIN bot' = BotFields /\ bot'.mode \in {"none", StoreOf(plot.tables)}
    /\ bot'.loaded => Meant(arcLog.doc, bot'.doc)
    /\ bot'.imported => arcDb.cfg # "none"

LEMMA SteadyStep == ASSUME LogInv, Healthy, Steady PROVE Healthy'
  <1>1. plot' = plot /\ plot \in Plots /\ arcLog'.doc = arcLog.doc
    BY DEF Steady, Healthy
  <1>2. StoreIs(plot.tables, arcDb', arcLog.doc)
    BY DEF Steady, Healthy, StoreIs, InForce
  <1>3. BotIs(plot.tables, arcDb', arcLog.doc, bot')
    BY DEF Steady, BotIs
  <1>4. \A w \in late' : LateIs(plot.tables, arcLog.doc, w)
    BY DEF Steady, Healthy, LateIs
  <1>5. ASSUME NEW t \in DOMAIN arcTask
        PROVE  TaskIs(plot.tables, arcDb', arcLog.doc, Job(t), arcTask'[t])
    <2>1. TaskIs(plot.tables, arcDb, arcLog.doc, Job(t), arcTask'[t])
      BY DEF Steady, Moved, Healthy
    <2>. QED  BY <2>1 DEF TaskIs, Steady
  <1>6. \A t : Job(t)' = Job(t)
    BY <1>1 DEF Job
  <1>7. DOMAIN arcTask' = ArchiveTasks \union {Loader}
    BY DEF Steady, Healthy
  <1>. QED  BY <1>1, <1>2, <1>3, <1>4, <1>5, <1>6, <1>7 DEF Healthy, Steady

(* One task moves, and the memory keeps what it knows. *)
LEMMA OneMoves ==
  ASSUME Healthy, NEW t \in DOMAIN arcTask, NEW q, SetTask(t, q),
         TaskIs(plot.tables, arcDb, arcLog.doc, Job(t), q)
  PROVE  DOMAIN arcTask' = DOMAIN arcTask /\ \A u \in DOMAIN arcTask : Moved(u)
  BY DEF SetTask, Moved

LEMMA LeavingMoves ==
  ASSUME Healthy, NEW t \in DOMAIN arcTask, ArchiveLeave(t)
  PROVE  DOMAIN arcTask' = DOMAIN arcTask /\ \A u \in DOMAIN arcTask : Moved(u)
  <1>1. PICK pc \in {"new", "over"} : SetTask(t, [IdleTask EXCEPT !.pc = pc])
    BY DEF ArchiveLeave
  <1>2. TaskIs(plot.tables, arcDb, arcLog.doc, Job(t), [IdleTask EXCEPT !.pc = pc])
    BY IdleIs
  <1>. QED  BY <1>1, <1>2, OneMoves

BotKept(b) ==
    /\ DOMAIN b = BotFields /\ b.mode = bot.mode /\ b.loaded = bot.loaded /\ b.doc = bot.doc
    /\ b.imported = bot.imported

LEMMA HandlingKeepsBot ==
  ASSUME DOMAIN bot = BotFields, NEW h
  PROVE  BotKept([bot EXCEPT !.handled = h]) /\ BotKept(bot)
  BY DEF BotKept, BotFields

LEMMA KeptIsSteady ==
  ASSUME LogInv, Healthy, plot' = plot, arcLog'.doc = arcLog.doc, arcDb' = arcDb, late' = late,
         DOMAIN arcTask' = DOMAIN arcTask, \A t \in DOMAIN arcTask : Moved(t), BotKept(bot')
  PROVE  Healthy'
  <1>1. Steady
    BY DEF Steady, Healthy, StoreIs, BotIs, BotKept
  <1>. QED  BY <1>1, SteadyStep

LEMMA BlameKeepsDoc ==
  ASSUME LogInv, NEW reasons, Blame(reasons)
  PROVE  /\ DOMAIN arcLog' = LogFields /\ arcLog'.doc = arcLog.doc
         /\ arcLog'.why = arcLog.why \union reasons
  BY DEF LogInv, LogFields, Blame

LEMMA DbIsSteady ==
  ASSUME LogInv, Healthy, plot' = plot, arcLog'.doc = arcLog.doc, arcDb' = arcDb, late' = late,
         DOMAIN arcTask' = DOMAIN arcTask, \A t \in DOMAIN arcTask : Moved(t),
         DOMAIN bot' = BotFields, bot'.mode \in {"none", StoreOf(plot.tables)},
         bot'.loaded => Meant(arcLog.doc, bot'.doc), bot'.imported => arcDb.cfg # "none"
  PROVE  Healthy'
  <1>1. Steady
    BY DEF Steady, Healthy, StoreIs
  <1>. QED  BY <1>1, SteadyStep

LEMMA HereIs ==
  ASSUME Healthy, NEW t \in DOMAIN arcTask
  PROVE  /\ TaskIs(plot.tables, arcDb, arcLog.doc, Job(t), arcTask[t])
         /\ TheStore = StoreOf(plot.tables) /\ t \in ArchiveTasks \union {Loader}
         /\ DOMAIN bot = BotFields /\ DOMAIN arcDb = DbFields
         /\ t = Loader => Job(t) = "load"
  BY DEF Healthy, BotIs, StoreIs, TheStore, StoreOf, Job

LEMMA LogSteps ==
  ASSUME LogInv, ArchiveNext
  PROVE  LogInv' /\ arcLog.why \subseteq arcLog'.why
  <1>1. CASE UNCHANGED arcLog
    BY <1>1 DEF LogInv
  <1>2. ASSUME NEW reasons, Blame(reasons)
        PROVE  LogInv' /\ arcLog.why \subseteq arcLog'.why
    BY <1>2, BlameKeepsDoc DEF LogInv
  <1>3. ASSUME NEW t, Probe(t) \/ ImportRead(t) \/ ImportWrite(t)
        PROVE  LogInv' /\ arcLog.why \subseteq arcLog'.why
    <2>1. CASE Probe(t)
      BY <1>2, <2>1 DEF Probe
    <2>2. CASE ImportRead(t)
      <3>1. Blame({"import cut short"}) \/ UNCHANGED arcLog
        BY <2>2 DEF ImportRead
      <3>. QED  BY <1>1, <1>2, <3>1
    <2>3. CASE ImportWrite(t)
      <3>1. \E reasons : Blame(reasons)
        BY <2>3 DEF ImportWrite
      <3>. QED  BY <1>2, <3>1
    <2>. QED  BY <1>3, <2>1, <2>2, <2>3
  <1>4. ASSUME NEW t, TaskStep(t)
        PROVE  LogInv' /\ arcLog.why \subseteq arcLog'.why
    <2>1. CASE SaveRows(t)
      <3>1. DOMAIN arcLog' = LogFields /\ arcLog'.doc = arcLog.doc /\ arcLog.why \subseteq arcLog'.why
        BY <2>1 DEF SaveRows, LogInv, LogFields
      <3>. QED  BY <3>1 DEF LogInv
    <2>2. CASE SaveSettings(t)
      <3>1. \E d \in {arcLog.doc, Changed(arcLog.doc)} : arcLog' = [arcLog EXCEPT !.doc = d]
        BY <2>2 DEF SaveSettings
      <3>2. {arcLog.doc, Changed(arcLog.doc)} \subseteq Docs
        BY ChangedTwice DEF LogInv
      <3>. QED  BY <3>1, <3>2 DEF LogInv, LogFields
    <2>3. CASE SweepSave(t)
      <3>1. DOMAIN arcLog' = LogFields /\ arcLog'.doc = arcLog.doc /\ arcLog.why \subseteq arcLog'.why
        BY <2>3 DEF SweepSave, LogInv, LogFields
      <3>. QED  BY <3>1 DEF LogInv
    <2>4. CASE SweepRetention(t)
      <3>1. \E reasons : Blame(reasons)
        BY <2>4 DEF SweepRetention
      <3>. QED  BY <1>2, <3>1
    <2>5. CASE Receive(t) \/ RemoveBegin(t) \/ LockTaken(t) \/ ReadRows(t) \/ ChangeBegin(t)
                 \/ SweepBegin(t) \/ SweepRead(t)
      <3>1. UNCHANGED arcLog
        BY <2>5 DEF Receive, RemoveBegin, LockTaken, ReadRows, ChangeBegin, SweepBegin, SweepRead
      <3>. QED  BY <1>1, <3>1
    <2>. QED  BY <1>4, <2>1, <2>2, <2>3, <2>4, <2>5 DEF TaskStep
  <1>5. CASE LateLands
    BY <1>2, <1>5 DEF LateLands
  <1>6. CASE LoadBegin \/ LoadRead \/ PauseEnds \/ Refresh \/ ArchiveTick \/ ArchiveRestart
    <2>1. UNCHANGED arcLog
      BY <1>6 DEF LoadBegin, LoadRead, PauseEnds, Refresh, ArchiveTick, ArchiveRestart
    <2>. QED  BY <1>1, <2>1
  <1>. QED  BY <1>3, <1>4, <1>5, <1>6 DEF ArchiveNext, ArchiveStep

LEMMA BlamedIsTroubled ==
  ASSUME LogInv, NEW reasons, Blame(reasons), ~Troubled'
  PROVE  reasons \cap {"two stores", "import cut short", "import beside a write"} = {}
  <1>1. reasons \subseteq arcLog'.why
    BY BlameKeepsDoc
  <1>. QED  BY <1>1 DEF Troubled

-----------------------------------------------------------------------------
(* The steps that ask for the store, load and import. *)

LEMMA ProbeFinds ==
  ASSUME LogInv, Healthy, ~Troubled', NEW t \in DOMAIN arcTask, Probe(t)
  PROVE  Healthy'
  <1>1. PICK mode \in {"dedicated", "legacy"} :
           /\ bot' = bot \/ bot' = [bot EXCEPT !.mode = mode]
           /\ SetTask(t, [[arcTask[t] EXCEPT !.mode = mode] EXCEPT
                            !.pc = FirstStep(t, [arcTask[t] EXCEPT !.mode = mode])])
           /\ Blame(IF mode = TheStore THEN {} ELSE {"two stores"})
    BY DEF Probe
  <1>2. TaskIs(plot.tables, arcDb, arcLog.doc, Job(t), arcTask[t]) /\ TheStore = StoreOf(plot.tables)
    BY HereIs
  <1>3. mode = StoreOf(plot.tables)
    BY <1>1, <1>2, BlamedIsTroubled
  <1>4. arcTask[t].pc = "probe"
    BY DEF Probe, At
  <1>. DEFINE q == [arcTask[t] EXCEPT !.mode = mode]
  <1>5. DOMAIN q = TaskFields /\ q.mode = mode /\ q.goal = arcTask[t].goal /\ q.write = arcTask[t].write
    BY <1>2 DEF TaskIs, TaskFields
  <1>6. SetTask(t, [q EXCEPT !.pc = FirstStep(t, q)])
    BY <1>1
  <1>. HIDE DEF q
  <1>7. /\ DOMAIN q.write = WriteFields /\ q.goal \in {"read", "save"}
        /\ Job(t) = "change" => q.goal = "save" /\ q.write.doc = Changed(arcLog.doc)
        /\ Job(t) = "sweep" => q.goal = "read"
    BY <1>2, <1>4, <1>5 DEF TaskIs
  <1>8. TaskIs(plot.tables, arcDb, arcLog.doc, Job(t), [q EXCEPT !.pc = FirstStep(t, q)])
    BY <1>3, <1>5, <1>7, FirstStepIs
  <1>9. DOMAIN arcTask' = DOMAIN arcTask /\ \A u \in DOMAIN arcTask : Moved(u)
    BY <1>6, <1>8, OneMoves
  <1>10. /\ DOMAIN bot' = BotFields /\ bot'.mode \in {"none", StoreOf(plot.tables)}
         /\ bot'.loaded => Meant(arcLog.doc, bot'.doc)
         /\ bot'.imported => arcDb.cfg # "none"
    BY <1>1, <1>3 DEF Healthy, BotIs, BotFields
  <1>11. arcLog'.doc = arcLog.doc
    BY <1>1, BlameKeepsDoc
  <1>12. plot' = plot /\ arcDb' = arcDb /\ late' = late
    BY DEF Probe
  <1>. QED  BY <1>9, <1>10, <1>11, <1>12, DbIsSteady

LEMMA AsksAtFirst ==
  ASSUME LogInv, Healthy, NEW t \in DOMAIN arcTask, NEW q, SetTask(t, Asking(t, q)),
         plot' = plot, arcDb' = arcDb, late' = late, arcLog' = arcLog, BotKept(bot'),
         DOMAIN q = TaskFields, DOMAIN q.write = WriteFields, q.goal \in {"read", "save"},
         Job(t) = "change" => q.goal = "save" /\ q.write.doc = Changed(arcLog.doc),
         Job(t) = "sweep" => q.goal = "read"
  PROVE  Healthy'
  <1>1. TaskIs(plot.tables, arcDb, arcLog.doc, Job(t), Asking(t, q))
    BY AskingIs
  <1>2. DOMAIN arcTask' = DOMAIN arcTask /\ \A u \in DOMAIN arcTask : Moved(u)
    BY <1>1, OneMoves
  <1>. QED  BY <1>2, KeptIsSteady

LEMMA LoadBegins == ASSUME LogInv, Healthy, LoadBegin PROVE Healthy'
  <1>1. Loader \in DOMAIN arcTask /\ Job(Loader) = "load"
    BY DEF Healthy, Job
  <1>2. SetTask(Loader, Asking(Loader, IdleTask)) /\ plot' = plot /\ arcDb' = arcDb /\ late' = late
        /\ arcLog' = arcLog /\ bot' = bot
    BY DEF LoadBegin
  <1>3. BotKept(bot')
    BY <1>1, <1>2, HereIs, HandlingKeepsBot
  <1>. QED  BY <1>1, <1>2, <1>3, IdleFields, AsksAtFirst

LEMMA LoadReads == ASSUME LogInv, Healthy, LoadRead PROVE Healthy'
  <1>1. Loader \in DOMAIN arcTask
    BY DEF Healthy
  <1>2. /\ TaskIs(plot.tables, arcDb, arcLog.doc, "load", arcTask[Loader])
        /\ DOMAIN bot = BotFields
    BY <1>1, HereIs DEF Job
  <1>3. ArchiveLeave(Loader) /\ arcTask[Loader].pc = "read"
        /\ plot' = plot /\ arcDb' = arcDb /\ late' = late /\ arcLog' = arcLog
    BY DEF LoadRead, At
  <1>4. DOMAIN arcTask' = DOMAIN arcTask /\ \A u \in DOMAIN arcTask : Moved(u)
    BY <1>1, <1>3, LeavingMoves
  <1>5. arcTask[Loader].mode = StoreOf(plot.tables) /\ (plot.tables => arcDb.cfg # "none")
    BY <1>2, <1>3 DEF TaskIs, Talking
  <1>6. Meant(arcLog.doc, Sanitized(DocIn(arcTask[Loader].mode)))
    BY <1>5 DEF Healthy, StoreIs, InForce, DocIn, StoreOf
  <1>7. \/ bot' = [bot EXCEPT !.paused = TRUE]
        \/ bot' = [bot EXCEPT !.loaded = TRUE, !.doc = Sanitized(DocIn(arcTask[Loader].mode))]
    BY DEF LoadRead
  <1>8. /\ DOMAIN bot' = BotFields /\ bot'.mode = bot.mode /\ bot'.imported = bot.imported
        /\ \/ bot'.loaded = bot.loaded /\ bot'.doc = bot.doc
           \/ bot'.doc = Sanitized(DocIn(arcTask[Loader].mode))
    BY <1>2, <1>7 DEF BotFields
  <1>9. /\ bot.mode \in {"none", StoreOf(plot.tables)}
        /\ bot.loaded => Meant(arcLog.doc, bot.doc)
        /\ bot.imported => arcDb.cfg # "none"
    BY DEF Healthy, BotIs
  <1>. QED  BY <1>3, <1>4, <1>6, <1>8, <1>9, DbIsSteady

LEMMA MemoryMoves == ASSUME LogInv, Healthy, PauseEnds \/ Refresh \/ ArchiveTick PROVE Healthy'
  <1>1. /\ plot' = plot /\ arcDb' = arcDb /\ late' = late /\ arcLog' = arcLog /\ arcTask' = arcTask
        /\ \/ bot' = [bot EXCEPT !.paused = FALSE]
           \/ bot' = [bot EXCEPT !.loaded = FALSE]
           \/ bot' = [bot EXCEPT !.handled = {}]
    BY DEF PauseEnds, Refresh, ArchiveTick
  <1>2. /\ DOMAIN bot = BotFields /\ bot.mode \in {"none", StoreOf(plot.tables)}
        /\ bot.loaded => Meant(arcLog.doc, bot.doc)
        /\ bot.imported => arcDb.cfg # "none"
    BY DEF Healthy, BotIs
  <1>3. /\ DOMAIN bot' = BotFields /\ bot'.mode = bot.mode /\ bot'.imported = bot.imported
        /\ bot'.doc = bot.doc /\ (bot'.loaded => bot.loaded)
    BY <1>1, <1>2 DEF BotFields
  <1>4. \A t \in DOMAIN arcTask : Moved(t)
    BY <1>1 DEF Moved
  <1>. QED  BY <1>1, <1>2, <1>3, <1>4, DbIsSteady

LEMMA Restarts == ASSUME LogInv, Healthy, ArchiveRestart PROVE Healthy'
  <1>1. plot' = plot /\ arcDb' = arcDb /\ late' = late /\ arcLog' = arcLog /\ bot' = FreshBot
    BY DEF ArchiveRestart
  <1>2. DOMAIN arcTask' = DOMAIN arcTask
    BY DEF ArchiveRestart
  <1>3. ASSUME NEW t \in DOMAIN arcTask  PROVE Moved(t)
    <2>1. \/ arcTask'[t] = arcTask[t]
          \/ \E pc \in {"new", "over"} : arcTask'[t] = [IdleTask EXCEPT !.pc = pc]
      BY DEF ArchiveRestart
    <2>. QED  BY <2>1, IdleIs DEF Moved
  <1>4. /\ DOMAIN bot' = BotFields /\ bot'.mode = "none" /\ ~bot'.loaded /\ ~bot'.imported
    BY <1>1 DEF FreshBot, BotFields
  <1>. QED  BY <1>1, <1>2, <1>3, <1>4, DbIsSteady

(* A read of the import goes to what it reads next; only the marker says that *)
(* the import was done.                                                       *)
LEMMA ImportReads ==
  ASSUME LogInv, Healthy, ~Troubled', NEW t \in DOMAIN arcTask, ImportRead(t)
  PROVE  Healthy'
  <1>1. PICK from \in {"marker", "entries", "shards", "document"} :
          /\ At(t, from)
          /\ \/ /\ UNCHANGED bot
                /\ TaskTo(t, "read") /\ Blame({"import cut short"})
             \/ /\ UNCHANGED arcLog
                /\ bot' = [bot EXCEPT !.imported = @ \/ (from = "marker" /\ Marked)]
                /\ \/ /\ from = "marker"
                      /\ TaskTo(t, IF Marked THEN "read" ELSE "entries")
                   \/ /\ from = "entries"
                      /\ TaskTo(t, IF arcDb.entries # {} THEN "document" ELSE "shards")
                   \/ /\ from = "shards"
                      /\ LET rows == Bounded(RowsOf(arcDb.shards), NoRow)
                         IN SetTask(t, [arcTask[t] EXCEPT
                              !.pc = IF rows = {} THEN "document" ELSE "rows",
                              !.write = [NoWrite EXCEPT !.what = "entries", !.cells = Whole(rows)]])
                   \/ /\ from = "document"
                      /\ SetTask(t, [arcTask[t] EXCEPT !.pc = "settings",
                              !.write = [NoWrite EXCEPT !.what = "cfg", !.doc = Sanitized(arcDb.doc)]])
    BY DEF ImportRead
  <1>. DEFINE q == arcTask[t]
  <1>2. TaskIs(plot.tables, arcDb, arcLog.doc, Job(t), q) /\ DOMAIN bot = BotFields
    BY HereIs
  <1>3. q.pc = from
    BY <1>1 DEF At
  <1>. HIDE DEF q
  <1>4. /\ DOMAIN q = TaskFields /\ DOMAIN q.write = WriteFields /\ q.goal \in {"read", "save"}
        /\ q.mode = StoreOf(plot.tables) /\ plot.tables
        /\ Job(t) # "change" /\ Job(t) # "sweep"
    BY <1>2, <1>3 DEF TaskIs, Talking, Importing
  <1>5. ~Blame({"import cut short"})
    BY BlamedIsTroubled
  <1>6. /\ arcLog' = arcLog
        /\ bot' = [bot EXCEPT !.imported = bot.imported \/ (from = "marker" /\ Marked)]
    BY <1>1, <1>5
  <1>7. /\ DOMAIN bot' = BotFields /\ bot'.mode = bot.mode /\ bot'.loaded = bot.loaded
        /\ bot'.doc = bot.doc
        /\ bot'.imported = (bot.imported \/ (from = "marker" /\ Marked))
    BY <1>2, <1>6 DEF BotFields
  <1>8. /\ bot'.mode \in {"none", StoreOf(plot.tables)}
        /\ bot'.loaded => Meant(arcLog.doc, bot'.doc)
        /\ bot'.imported => arcDb.cfg # "none"
    BY <1>7 DEF Healthy, BotIs, Marked
  <1>9. ASSUME NEW pc \in {"entries", "shards", "document"} \union (IF Marked THEN {"read"} ELSE {}),
               TaskTo(t, pc)
        PROVE  DOMAIN arcTask' = DOMAIN arcTask /\ \A u \in DOMAIN arcTask : Moved(u)
    <2>. DEFINE r == [q EXCEPT !.pc = pc]
    <2>1. DOMAIN r = TaskFields /\ r.pc = pc /\ r.mode = q.mode /\ r.goal = q.goal /\ r.write = q.write
      BY <1>4, TaskTurns
    <2>2. SetTask(t, r)
      BY <1>9 DEF TaskTo, q
    <2>. HIDE DEF r
    <2>3. pc = "read" => arcDb.cfg # "none"
      BY <1>9 DEF Marked
    <2>4. pc \in {"entries", "shards", "document", "read"}
      BY <1>9
    <2>5. TaskIs(plot.tables, arcDb, arcLog.doc, Job(t), r)
      BY <1>4, <2>1, <2>3, <2>4 DEF TaskIs, Talking, Importing
    <2>. QED  BY <2>2, <2>5, OneMoves
  <1>10. ASSUME NEW pc \in {"document", "rows", "settings"}, NEW w, DOMAIN w = WriteFields,
                SetTask(t, [q EXCEPT !.pc = pc, !.write = w]),
                pc = "rows" => w.what = "entries",
                pc = "settings" => w.what = "cfg" /\ w.doc = Sanitized(arcDb.doc)
         PROVE  DOMAIN arcTask' = DOMAIN arcTask /\ \A u \in DOMAIN arcTask : Moved(u)
    <2>. DEFINE r == [q EXCEPT !.pc = pc, !.write = w]
    <2>1. DOMAIN r = TaskFields /\ r.pc = pc /\ r.mode = q.mode /\ r.goal = q.goal /\ r.write = w
      BY <1>4 DEF TaskFields
    <2>2. SetTask(t, r)
      BY <1>10
    <2>. HIDE DEF r
    <2>5. TaskIs(plot.tables, arcDb, arcLog.doc, Job(t), r)
      BY <1>4, <1>10, <2>1 DEF TaskIs, Talking, Importing
    <2>. QED  BY <2>2, <2>5, OneMoves
  <1>11. DOMAIN arcTask' = DOMAIN arcTask /\ \A u \in DOMAIN arcTask : Moved(u)
    <2>1. CASE from = "marker"
      <3>1. TaskTo(t, IF Marked THEN "read" ELSE "entries")
        BY <1>1, <1>5, <2>1
      <3>. QED  BY <1>9, <3>1
    <2>2. CASE from = "entries"
      <3>1. TaskTo(t, IF arcDb.entries # {} THEN "document" ELSE "shards")
        BY <1>1, <1>5, <2>2
      <3>2. PICK pc \in {"document", "shards"} : TaskTo(t, pc)
        BY <3>1
      <3>. QED  BY <1>9, <3>2
    <2>3. CASE from = "shards"
      <3>. DEFINE cells == Whole(Bounded(RowsOf(arcDb.shards), NoRow))
                  w == [NoWrite EXCEPT !.what = "entries", !.cells = cells]
      <3>1. PICK pc \in {"document", "rows"} : SetTask(t, [q EXCEPT !.pc = pc, !.write = w])
        BY <1>1, <1>5, <2>3 DEF q
      <3>2. DOMAIN w = WriteFields /\ w.what = "entries"
        BY DEF NoWrite, WriteFields
      <3>. HIDE DEF w
      <3>. QED  BY <1>10, <3>1, <3>2
    <2>4. CASE from = "document"
      <3>. DEFINE doc == Sanitized(arcDb.doc)
                  w == [NoWrite EXCEPT !.what = "cfg", !.doc = doc]
      <3>1. SetTask(t, [q EXCEPT !.pc = "settings", !.write = w])
        BY <1>1, <1>5, <2>4 DEF q
      <3>2. DOMAIN w = WriteFields /\ w.what = "cfg" /\ w.doc = Sanitized(arcDb.doc)
        BY DEF NoWrite, WriteFields
      <3>. HIDE DEF w
      <3>. QED  BY <1>10, <3>1, <3>2
    <2>. QED  BY <2>1, <2>2, <2>3, <2>4
  <1>12. plot' = plot /\ arcDb' = arcDb /\ late' = late
    BY DEF ImportRead
  <1>. QED  BY <1>6, <1>7, <1>8, <1>11, <1>12, DbIsSteady

(* The import's own writes: unsure ones and those beside another write are    *)
(* excused, so the rows change nothing of the settings, and the settings row  *)
(* takes over what the older document said.                                   *)
LEMMA ImportWrites ==
  ASSUME LogInv, Healthy, ~Troubled', NEW t \in DOMAIN arcTask, ImportWrite(t)
  PROVE  Healthy'
  <1>. DEFINE q == arcTask[t]
              w == q.write
  <1>1. PICK from \in {"rows", "settings"}, sure \in BOOLEAN :
          /\ q.pc = from /\ Attempt(w, sure)
          /\ TaskTo(t, IF sure /\ from = "rows" THEN "document" ELSE "read")
          /\ bot' = [bot EXCEPT !.imported = @ \/ (sure /\ from = "settings")]
          /\ \E newer \in BOOLEAN :
                /\ arcDb.cfg # "none" => newer
                /\ Blame(Tearing(w) \union (IF sure THEN {} ELSE {"import cut short"})
                                    \union (IF newer THEN {"import beside a write"} ELSE {}))
    BY DEF ImportWrite, At
  <1>2. PICK newer \in BOOLEAN :
          /\ arcDb.cfg # "none" => newer
          /\ Blame(Tearing(w) \union (IF sure THEN {} ELSE {"import cut short"})
                              \union (IF newer THEN {"import beside a write"} ELSE {}))
    BY <1>1
  <1>3. sure /\ ~newer
    BY <1>2, BlamedIsTroubled
  <1>4. sure /\ arcDb.cfg = "none" /\ arcLog'.doc = arcLog.doc
    BY <1>2, <1>3, BlameKeepsDoc
  <1>5. TaskIs(plot.tables, arcDb, arcLog.doc, Job(t), q) /\ DOMAIN bot = BotFields /\ DOMAIN arcDb = DbFields
    BY HereIs
  <1>6. q.pc = from /\ Attempt(w, sure)
    BY <1>1
  <1>7. SetTask(t, [q EXCEPT !.pc = IF from = "rows" THEN "document" ELSE "read"])
    BY <1>1, <1>4 DEF TaskTo
  <1>. HIDE DEF q
  <1>8. /\ DOMAIN q = TaskFields /\ DOMAIN w = WriteFields /\ q.goal \in {"read", "save"}
        /\ q.mode = StoreOf(plot.tables) /\ plot.tables
        /\ Job(t) # "change" /\ Job(t) # "sweep"
    BY <1>5, <1>6 DEF TaskIs, Talking, Importing
  <1>9. arcDb' = Landed(w) /\ late' = late
    BY <1>4, <1>6, AttemptedWrite
  <1>10. /\ DOMAIN bot' = BotFields /\ bot'.mode = bot.mode /\ bot'.loaded = bot.loaded
         /\ bot'.doc = bot.doc
         /\ bot'.imported = (bot.imported \/ from = "settings")
    BY <1>1, <1>4, <1>5 DEF BotFields
  <1>11. /\ bot.mode \in {"none", StoreOf(plot.tables)}
         /\ bot.loaded => Meant(arcLog.doc, bot.doc)
         /\ ~bot.imported
    BY <1>4 DEF Healthy, BotIs
  <1>12. plot' = plot
    BY DEF ImportWrite
  <1>13. ASSUME NEW pc \in {"document", "read"}, NEW db, pc = "read" => db.cfg # "none"
         PROVE  TaskIs(plot.tables, db, arcLog.doc, Job(t), [q EXCEPT !.pc = pc])
    <2>. DEFINE r == [q EXCEPT !.pc = pc]
    <2>1. DOMAIN r = TaskFields /\ r.pc = pc /\ r.mode = q.mode /\ r.goal = q.goal /\ r.write = q.write
      BY <1>8, TaskTurns
    <2>2. TaskIs(plot.tables, db, arcLog.doc, Job(t), r)
      <3>. HIDE DEF r
      <3>. QED  BY <1>8, <1>13, <2>1 DEF TaskIs, Talking, Importing
    <2>. QED  BY <2>2
  <1>14. CASE from = "rows"
    <2>1. w.what \in RowWrites
      BY <1>5, <1>6, <1>14 DEF TaskIs, RowWrites
    <2>2. DOMAIN arcDb' = DbFields /\ arcDb'.cfg = arcDb.cfg /\ arcDb'.doc = arcDb.doc
      BY <1>5, <1>9, <2>1, RowWriteLands
    <2>3. SetTask(t, [q EXCEPT !.pc = "document"])
      BY <1>7, <1>14
    <2>4. TaskIs(plot.tables, arcDb, arcLog.doc, Job(t), [q EXCEPT !.pc = "document"])
      BY <1>13
    <2>5. DOMAIN arcTask' = DOMAIN arcTask /\ \A u \in DOMAIN arcTask : Moved(u)
      BY <2>3, <2>4, OneMoves
    <2>6. Steady
      BY <1>4, <1>9, <1>10, <1>11, <1>12, <1>14, <2>2, <2>5 DEF Steady
    <2>. QED  BY <2>6, SteadyStep
  <1>15. CASE from = "settings"
    <2>1. w.what = SettingsWrite(plot.tables) /\ w.doc = Sanitized(arcDb.doc)
      BY <1>5, <1>6, <1>8, <1>15 DEF TaskIs, SettingsWrite
    <2>2. DOMAIN arcDb' = DbFields /\ arcDb'.cfg = Sanitized(arcDb.doc) /\ arcDb'.doc = arcDb.doc
      BY <1>5, <1>8, <1>9, <2>1, SettingsWriteLands
    <2>3. arcDb'.cfg # "none" /\ arcDb'.cfg \in Docs
      BY <2>2, ChangedTwice DEF Healthy, StoreIs, Sanitized, Docs
    <2>4. InForce(plot.tables, arcDb') = InForce(plot.tables, arcDb)
      BY <1>4, <1>8, <2>2, <2>3, ChangedTwice DEF InForce
    <2>5. StoreIs(plot.tables, arcDb', arcLog.doc)
      BY <2>2, <2>3, <2>4 DEF Healthy, StoreIs
    <2>6. BotIs(plot.tables, arcDb', arcLog.doc, bot')
      BY <1>10, <1>11, <2>3 DEF BotIs
    <2>7. SetTask(t, [q EXCEPT !.pc = "read"])
      BY <1>7, <1>15
    <2>8. TaskIs(plot.tables, arcDb', arcLog.doc, Job(t), [q EXCEPT !.pc = "read"])
      BY <1>13, <2>3
    <2>9. ASSUME NEW u \in DOMAIN arcTask
          PROVE  TaskIs(plot.tables, arcDb', arcLog.doc, Job(u), arcTask'[u])
      <3>1. CASE u = t
        BY <2>7, <2>8, <3>1 DEF SetTask
      <3>2. CASE u # t
        <4>1. arcTask'[u] = arcTask[u]
          BY <2>7, <3>2 DEF SetTask
        <4>2. TaskIs(plot.tables, arcDb, arcLog.doc, Job(u), arcTask[u])
          BY HereIs
        <4>3. arcLog.doc \in Docs /\ arcLog.doc \in {arcLog.doc, Changed(arcLog.doc)}
          BY DEF LogInv
        <4>. QED  BY <2>2, <2>3, <4>1, <4>2, <4>3, TaskStays
      <3>. QED  BY <3>1, <3>2
    <2>10. \A u : Job(u)' = Job(u)
      BY <1>12 DEF Job
    <2>11. DOMAIN arcTask' = DOMAIN arcTask
      BY <2>7 DEF SetTask
    <2>. QED  BY <1>4, <1>9, <1>12, <2>5, <2>6, <2>9, <2>10, <2>11 DEF Healthy
  <1>. QED  BY <1>14, <1>15

-----------------------------------------------------------------------------
(* The updates and the removals: they change rows, never the settings. *)

LEMMA WaitingIs ==
  ASSUME NEW tables, NEW db, NEW told, NEW job, NEW q,
         DOMAIN q = TaskFields, DOMAIN q.write = WriteFields, q.goal \in {"read", "save"},
         q.pc = "lock", job \notin {"change", "sweep"}
  PROVE  TaskIs(tables, db, told, job, q)
  BY DEF TaskIs, Talking, Importing

LEMMA LockAwaited ==
  ASSUME Healthy, NEW t \in DOMAIN arcTask, Job(t) \notin {"change", "sweep"}, NEW row, NEW q,
         q \in {[arcTask[t] EXCEPT !.pc = "lock"], [arcTask[t] EXCEPT !.pc = "lock", !.row = row]},
         SetTask(t, q)
  PROVE  DOMAIN arcTask' = DOMAIN arcTask /\ \A u \in DOMAIN arcTask : Moved(u)
  <1>1. TaskIs(plot.tables, arcDb, arcLog.doc, Job(t), arcTask[t])
    BY HereIs
  <1>2. /\ DOMAIN q = TaskFields /\ q.pc = "lock" /\ q.goal = arcTask[t].goal
        /\ q.write = arcTask[t].write
    BY <1>1 DEF TaskIs, TaskFields
  <1>3. DOMAIN q.write = WriteFields /\ q.goal \in {"read", "save"}
    BY <1>1, <1>2 DEF TaskIs
  <1>4. TaskIs(plot.tables, arcDb, arcLog.doc, Job(t), q)
    BY <1>2, <1>3, WaitingIs
  <1>. QED  BY <1>4, OneMoves

LEMMA Receives ==
  ASSUME LogInv, Healthy, NEW t \in DOMAIN arcTask, Receive(t)
  PROVE  Healthy'
  <1>1. Job(t) \notin {"change", "sweep"}
    BY DEF Receive, Captures
  <1>2. \/ ArchiveLeave(t)
        \/ TaskTo(t, "lock")
        \/ \E row : SetTask(t, [arcTask[t] EXCEPT !.pc = "lock", !.row = row])
    BY DEF Receive
  <1>3. DOMAIN arcTask' = DOMAIN arcTask /\ \A u \in DOMAIN arcTask : Moved(u)
    BY <1>1, <1>2, LeavingMoves, LockAwaited DEF TaskTo
  <1>4. bot' = bot \/ \E h : bot' = [bot EXCEPT !.handled = h]
    BY DEF Receive
  <1>5. BotKept(bot')
    BY <1>4, HereIs, HandlingKeepsBot
  <1>6. plot' = plot /\ arcDb' = arcDb /\ late' = late /\ arcLog' = arcLog
    BY DEF Receive
  <1>. QED  BY <1>3, <1>5, <1>6, KeptIsSteady

LEMMA RemoveBegins ==
  ASSUME LogInv, Healthy, NEW t \in DOMAIN arcTask, RemoveBegin(t)
  PROVE  Healthy'
  <1>1. Job(t) \notin {"change", "sweep"} /\ SetTask(t, [arcTask[t] EXCEPT !.pc = "lock"])
    BY DEF RemoveBegin, Removes, TaskTo
  <1>2. DOMAIN arcTask' = DOMAIN arcTask /\ \A u \in DOMAIN arcTask : Moved(u)
    BY <1>1, LockAwaited
  <1>3. plot' = plot /\ arcDb' = arcDb /\ late' = late /\ arcLog' = arcLog /\ bot' = bot
    BY DEF RemoveBegin
  <1>4. BotKept(bot')
    BY <1>3, HereIs, HandlingKeepsBot
  <1>. QED  BY <1>2, <1>3, <1>4, KeptIsSteady

LEMMA LocksTaken ==
  ASSUME LogInv, Healthy, NEW t \in DOMAIN arcTask, LockTaken(t)
  PROVE  Healthy'
  <1>1. TaskIs(plot.tables, arcDb, arcLog.doc, Job(t), arcTask[t])
    BY HereIs
  <1>2. arcTask[t].pc = "lock" /\ SetTask(t, Asking(t, arcTask[t]))
    BY DEF LockTaken, At
  <1>3. /\ DOMAIN arcTask[t] = TaskFields /\ DOMAIN arcTask[t].write = WriteFields
        /\ arcTask[t].goal \in {"read", "save"} /\ Job(t) \notin {"change", "sweep"}
    BY <1>1, <1>2 DEF TaskIs
  <1>4. plot' = plot /\ arcDb' = arcDb /\ late' = late /\ arcLog' = arcLog /\ bot' = bot
    BY DEF LockTaken
  <1>5. BotKept(bot')
    BY <1>4, HereIs, HandlingKeepsBot
  <1>. QED  BY <1>2, <1>3, <1>4, <1>5, AsksAtFirst

LEMMA Replaces ==
  ASSUME Healthy, NEW t \in DOMAIN arcTask, Job(t) \notin {"change", "sweep"},
         NEW rows, NEW row, Replace(t, rows, row)
  PROVE  DOMAIN arcTask' = DOMAIN arcTask /\ \A u \in DOMAIN arcTask : Moved(u)
  <1>. DEFINE drops == RowsOf(InStore(arcTask[t].mode)) \ rows
              cells == Whole(rows)
              w == [NoWrite EXCEPT !.cells = cells, !.drops = drops]
              q == [arcTask[t] EXCEPT !.goal = "save", !.row = row, !.write = w]
  <1>1. TaskIs(plot.tables, arcDb, arcLog.doc, Job(t), arcTask[t])
    BY HereIs
  <1>2. SetTask(t, Asking(t, q))
    BY DEF Replace
  <1>3. DOMAIN w = WriteFields
    BY DEF NoWrite, WriteFields
  <1>. HIDE DEF w
  <1>4. DOMAIN q = TaskFields /\ q.goal = "save" /\ q.write = w
    BY <1>1 DEF TaskIs, TaskFields
  <1>. HIDE DEF q
  <1>5. TaskIs(plot.tables, arcDb, arcLog.doc, Job(t), Asking(t, q))
    BY <1>3, <1>4, AskingIs
  <1>. QED  BY <1>2, <1>5, OneMoves

LEMMA RowsAreRead ==
  ASSUME LogInv, Healthy, NEW t \in DOMAIN arcTask, ReadRows(t)
  PROVE  Healthy'
  <1>1. Job(t) \notin {"change", "sweep"}
    BY DEF ReadRows, Captures, Removes
  <1>2. ArchiveLeave(t) \/ \E rows, row : Replace(t, rows, row)
    BY DEF ReadRows
  <1>3. DOMAIN arcTask' = DOMAIN arcTask /\ \A u \in DOMAIN arcTask : Moved(u)
    BY <1>1, <1>2, LeavingMoves, Replaces
  <1>4. bot' = bot \/ \E h : bot' = [bot EXCEPT !.handled = h]
    BY DEF ReadRows
  <1>5. BotKept(bot')
    BY <1>4, HereIs, HandlingKeepsBot
  <1>6. plot' = plot /\ arcDb' = arcDb /\ late' = late /\ arcLog' = arcLog
    BY DEF ReadRows
  <1>. QED  BY <1>3, <1>5, <1>6, KeptIsSteady

(* A write of rows, sure, unsure or half-way, leaves the settings alone. *)
LEMMA RowAttempt ==
  ASSUME LogInv, Healthy, NEW t \in DOMAIN arcTask, NEW w, NEW sure \in BOOLEAN,
         w.what \in RowWrites, Attempt(w, sure), ArchiveLeave(t),
         plot' = plot, bot' = bot, arcLog'.doc = arcLog.doc
  PROVE  Healthy'
  <1>1. DOMAIN arcTask' = DOMAIN arcTask /\ \A u \in DOMAIN arcTask : Moved(u)
    BY LeavingMoves
  <1>2. DOMAIN arcDb = DbFields
    BY HereIs
  <1>3. arcDb' \in {arcDb, Landed(w)} \union Torn(w) /\ late' \subseteq late \union {w}
    BY AttemptedWrite
  <1>4. DOMAIN arcDb' = DbFields /\ arcDb'.cfg = arcDb.cfg /\ arcDb'.doc = arcDb.doc
    BY <1>2, <1>3, RowWriteLands
  <1>5. Steady
    BY <1>1, <1>3, <1>4 DEF Steady, Healthy, BotIs
  <1>. QED  BY <1>5, SteadyStep

LEMMA RowsAreSaved ==
  ASSUME LogInv, Healthy, NEW t \in DOMAIN arcTask, SaveRows(t)
  PROVE  Healthy'
  <1>. DEFINE q == arcTask[t]
              w == IF q.mode = "dedicated" THEN [q.write EXCEPT !.what = "entries"]
                   ELSE [q.write EXCEPT !.what = "shards", !.cells = Split(RowsOf(q.write.cells), q.row)]
  <1>1. PICK sure \in BOOLEAN : Attempt(w, sure)
    BY DEF SaveRows
  <1>2. arcLog'.doc = arcLog.doc
    BY DEF SaveRows, LogInv, LogFields
  <1>3. DOMAIN q.write = WriteFields
    BY HereIs DEF TaskIs
  <1>4. w.what \in RowWrites
    BY <1>3 DEF RowWrites, WriteFields
  <1>5. ArchiveLeave(t) /\ plot' = plot /\ bot' = bot
    BY DEF SaveRows
  <1>. HIDE DEF w
  <1>. QED  BY <1>1, <1>2, <1>4, <1>5, RowAttempt

-----------------------------------------------------------------------------
(* The sweep. *)

LEMMA SweepBegins ==
  ASSUME LogInv, Healthy, NEW t \in DOMAIN arcTask, SweepBegin(t)
  PROVE  Healthy'
  <1>1. TaskIs(plot.tables, arcDb, arcLog.doc, Job(t), arcTask[t])
    BY HereIs
  <1>2. arcTask[t].pc = "new" /\ Job(t) = "sweep" /\ SetTask(t, Asking(t, arcTask[t]))
    BY DEF SweepBegin, At
  <1>3. /\ DOMAIN arcTask[t] = TaskFields /\ DOMAIN arcTask[t].write = WriteFields
        /\ arcTask[t].goal = "read"
    BY <1>1, <1>2 DEF TaskIs
  <1>4. plot' = plot /\ arcDb' = arcDb /\ late' = late /\ arcLog' = arcLog /\ bot' = bot
    BY DEF SweepBegin
  <1>5. BotKept(bot')
    BY <1>4, HereIs, HandlingKeepsBot
  <1>. QED  BY <1>2, <1>3, <1>4, <1>5, AsksAtFirst

LEMMA SweepReads ==
  ASSUME LogInv, Healthy, NEW t \in DOMAIN arcTask, SweepRead(t)
  PROVE  Healthy'
  <1>. DEFINE got == InStore(arcTask[t].mode)
              r == [arcTask[t] EXCEPT !.pc = "retention", !.got = got]
  <1>1. ArchiveLeave(t) \/ SetTask(t, r)
    BY DEF SweepRead
  <1>2. TaskIs(plot.tables, arcDb, arcLog.doc, Job(t), arcTask[t])
    BY HereIs
  <1>3. arcTask[t].pc = "read" /\ Job(t) = "sweep"
    BY DEF SweepRead, At
  <1>4. /\ DOMAIN r = TaskFields /\ r.pc = "retention" /\ r.mode = arcTask[t].mode
        /\ r.goal = arcTask[t].goal /\ r.write = arcTask[t].write
    BY <1>2 DEF TaskIs, TaskFields
  <1>. HIDE DEF r
  <1>5. TaskIs(plot.tables, arcDb, arcLog.doc, Job(t), r)
    BY <1>2, <1>3, <1>4 DEF TaskIs, Talking, Importing
  <1>6. DOMAIN arcTask' = DOMAIN arcTask /\ \A u \in DOMAIN arcTask : Moved(u)
    BY <1>1, <1>5, LeavingMoves, OneMoves
  <1>7. plot' = plot /\ arcDb' = arcDb /\ late' = late /\ arcLog' = arcLog /\ bot' = bot
    BY DEF SweepRead
  <1>8. BotKept(bot')
    BY <1>7, HereIs, HandlingKeepsBot
  <1>. QED  BY <1>6, <1>7, <1>8, KeptIsSteady

LEMMA RetentionIsRead ==
  ASSUME LogInv, Healthy, NEW t \in DOMAIN arcTask, SweepRetention(t)
  PROVE  Healthy'
  <1>1. PICK what, cells, expired, reasons :
          /\ what \in RowWrites
          /\ \/ ArchiveLeave(t)
             \/ SetTask(t, [arcTask[t] EXCEPT !.pc = "save", !.write = [NoWrite EXCEPT
                              !.what = what, !.cells = cells, !.drops = expired]])
          /\ Blame(reasons)
    <2>1. PICK readable \in BOOLEAN :
            LET got == arcTask[t].got
                doc == IF readable THEN DocIn(arcTask[t].mode) ELSE "none"
                expired == Expired(RowsOf(got), doc)
            IN /\ IF expired = {} THEN ArchiveLeave(t)
                  ELSE SetTask(t, [arcTask[t] EXCEPT !.pc = "save", !.write = [NoWrite EXCEPT
                                      !.what = IF arcTask[t].mode = "dedicated" THEN "prune" ELSE "shards",
                                      !.cells = [i \in Shards |-> got[i] \ expired],
                                      !.drops = expired]])
               /\ Blame(IF readable THEN {} ELSE {"retention unread"})
      BY DEF SweepRetention
    <2>2. (IF arcTask[t].mode = "dedicated" THEN "prune" ELSE "shards") \in RowWrites
      BY DEF RowWrites
    <2>. QED  BY <2>1, <2>2
  <1>2. TaskIs(plot.tables, arcDb, arcLog.doc, Job(t), arcTask[t])
    BY HereIs
  <1>3. arcTask[t].pc = "retention"
    BY DEF SweepRetention, At
  <1>. DEFINE w == [NoWrite EXCEPT !.what = what, !.cells = cells, !.drops = expired]
              r == [arcTask[t] EXCEPT !.pc = "save", !.write = w]
  <1>4. ArchiveLeave(t) \/ SetTask(t, r)
    BY <1>1
  <1>5. DOMAIN w = WriteFields /\ w.what = what
    BY DEF NoWrite, WriteFields
  <1>. HIDE DEF w
  <1>6. DOMAIN r = TaskFields /\ r.pc = "save" /\ r.mode = arcTask[t].mode
        /\ r.goal = arcTask[t].goal /\ r.write = w
    BY <1>2 DEF TaskIs, TaskFields
  <1>. HIDE DEF r
  <1>7. TaskIs(plot.tables, arcDb, arcLog.doc, Job(t), r)
    <2>1. Job(t) # "change" /\ r.mode = StoreOf(plot.tables) /\ r.goal \in {"read", "save"}
      BY <1>2, <1>3, <1>6 DEF TaskIs, Talking
    <2>2. r.write.what \in RowWrites /\ DOMAIN r.write = WriteFields
      BY <1>1, <1>5, <1>6
    <2>. QED  BY <1>6, <2>1, <2>2 DEF TaskIs, Talking, Importing
  <1>8. DOMAIN arcTask' = DOMAIN arcTask /\ \A u \in DOMAIN arcTask : Moved(u)
    BY <1>4, <1>7, LeavingMoves, OneMoves
  <1>9. arcLog'.doc = arcLog.doc
    BY <1>1, BlameKeepsDoc
  <1>10. plot' = plot /\ arcDb' = arcDb /\ late' = late /\ bot' = bot
    BY DEF SweepRetention
  <1>11. BotKept(bot')
    BY <1>10, HereIs, HandlingKeepsBot
  <1>. QED  BY <1>8, <1>9, <1>10, <1>11, KeptIsSteady

LEMMA SweepSaves ==
  ASSUME LogInv, Healthy, NEW t \in DOMAIN arcTask, SweepSave(t)
  PROVE  Healthy'
  <1>1. PICK sure \in BOOLEAN : Attempt(arcTask[t].write, sure)
    BY DEF SweepSave
  <1>2. arcLog'.doc = arcLog.doc
    BY DEF SweepSave, LogInv, LogFields
  <1>3. Job(t) = "sweep" /\ arcTask[t].pc = "save"
    BY DEF SweepSave, At
  <1>4. arcTask[t].write.what \in RowWrites
    BY <1>3, HereIs DEF TaskIs
  <1>5. ArchiveLeave(t) /\ plot' = plot /\ bot' = bot
    BY DEF SweepSave
  <1>. QED  BY <1>1, <1>2, <1>4, <1>5, RowAttempt

-----------------------------------------------------------------------------
(* A change of the settings, begun with what was loaded; whether it is told,  *)
(* lands unsure or lands late, what is in force is the change.                *)

LEMMA ChangeBegins ==
  ASSUME LogInv, Healthy, NEW t \in DOMAIN arcTask, ChangeBegin(t)
  PROVE  Healthy'
  <1>1. plot' = plot /\ arcDb' = arcDb /\ late' = late /\ arcLog' = arcLog /\ bot' = bot
    BY DEF ChangeBegin
  <1>2. BotKept(bot')
    BY <1>1, HereIs, HandlingKeepsBot
  <1>3. CASE ArchiveLeave(t)
    <2>1. DOMAIN arcTask' = DOMAIN arcTask /\ \A u \in DOMAIN arcTask : Moved(u)
      BY <1>3, LeavingMoves
    <2>. QED  BY <1>1, <1>2, <2>1, KeptIsSteady
  <1>4. CASE bot.loaded /\ ~ArchiveLeave(t)
    <2>. DEFINE doc == Changed(bot.doc)
                w == [NoWrite EXCEPT !.doc = doc]
                q == [arcTask[t] EXCEPT !.goal = "save", !.write = w]
    <2>1. SetTask(t, Asking(t, q)) /\ Job(t) = "change"
      BY <1>4 DEF ChangeBegin
    <2>2. Meant(arcLog.doc, bot.doc) /\ arcLog.doc \in Docs
      BY <1>4 DEF Healthy, BotIs, LogInv
    <2>3. doc = Changed(arcLog.doc)
      BY <2>2, ChangedTwice
    <2>. HIDE DEF doc
    <2>4. DOMAIN w = WriteFields /\ w.doc = doc
      BY DEF NoWrite, WriteFields
    <2>. HIDE DEF w
    <2>5. DOMAIN arcTask[t] = TaskFields
      BY HereIs DEF TaskIs
    <2>6. DOMAIN q = TaskFields /\ q.goal = "save" /\ q.write = w
      BY <2>5 DEF TaskFields
    <2>. HIDE DEF q
    <2>. QED  BY <1>1, <1>2, <2>1, <2>3, <2>4, <2>6, AsksAtFirst
  <1>. QED  BY <1>3, <1>4 DEF ChangeBegin

LEMMA SettingsLand ==
  ASSUME LogInv, LogInv', Healthy, NEW w,
         w.what = SettingsWrite(plot.tables), w.doc = Changed(arcLog.doc),
         \/ arcDb' = Landed(w) /\ arcLog'.doc \in {arcLog.doc, Changed(arcLog.doc)}
         \/ arcDb' = arcDb /\ arcLog'.doc = arcLog.doc,
         plot' = plot, late' \subseteq late \union {w},
         DOMAIN arcTask' = DOMAIN arcTask, \A t \in DOMAIN arcTask : Moved(t),
         DOMAIN bot' = BotFields, bot'.mode = bot.mode, bot'.imported = bot.imported,
         bot'.loaded => Meant(arcLog'.doc, bot'.doc)
  PROVE  Healthy'
  <1>. DEFINE told == arcLog.doc
              later == arcLog'.doc
  <1>1. told \in Docs /\ later \in {told, Changed(told)}
    BY DEF LogInv
  <1>2. /\ Changed(told) \in Docs /\ Changed(told) # "none"
        /\ Sanitized(Changed(told)) = Changed(told)
    BY <1>1, ChangedTwice
  <1>3. StoreIs(plot.tables, arcDb, told) /\ BotIs(plot.tables, arcDb, told, bot) /\ DOMAIN arcDb = DbFields
    BY DEF Healthy, StoreIs
  <1>6. /\ DOMAIN arcDb' = DbFields /\ StoreIs(plot.tables, arcDb', later)
        /\ arcDb.cfg # "none" => arcDb'.cfg # "none"
        /\ plot.tables => arcDb'.doc = arcDb.doc
    <2>1. CASE arcDb' = Landed(w)
      <3>1. /\ DOMAIN arcDb' = DbFields
            /\ plot.tables => arcDb'.cfg = Changed(told) /\ arcDb'.doc = arcDb.doc
            /\ ~plot.tables => arcDb'.doc = Changed(told) /\ arcDb'.cfg = arcDb.cfg
        <4>1. /\ DOMAIN Landed(w) = DbFields
              /\ plot.tables => Landed(w).cfg = w.doc /\ Landed(w).doc = arcDb.doc
              /\ ~plot.tables => Landed(w).doc = w.doc /\ Landed(w).cfg = arcDb.cfg
          BY <1>3, SettingsWriteLands
        <4>. QED  BY <2>1, <4>1
      <3>2. InForce(plot.tables, arcDb') = Changed(told)
        BY <1>2, <3>1 DEF InForce
      <3>3. Meant(later, Changed(told))
        BY <1>1, ChangedTwice DEF Meant
      <3>. QED  BY <1>2, <1>3, <3>1, <3>2, <3>3 DEF StoreIs
    <2>2. CASE arcDb' = arcDb /\ later = told
      BY <1>3, <2>2
    <2>. QED  BY <2>1, <2>2
  <1>7. BotIs(plot.tables, arcDb', later, bot')
    BY <1>3, <1>6 DEF BotIs
  <1>8. ASSUME NEW v \in late'
        PROVE  LateIs(plot.tables, later, v)
    <2>1. LateIs(plot.tables, told, v)
      BY DEF Healthy, LateIs
    <2>. QED  BY <1>1, <2>1, LateStays
  <1>9. ASSUME NEW t \in DOMAIN arcTask
        PROVE  TaskIs(plot.tables, arcDb', later, Job(t), arcTask'[t])
    <2>1. TaskIs(plot.tables, arcDb, told, Job(t), arcTask'[t])
      BY HereIs DEF Moved
    <2>. QED  BY <1>1, <1>6, <2>1, TaskStays
  <1>10. \A t : Job(t)' = Job(t)
    BY DEF Job
  <1>. QED  BY <1>6, <1>7, <1>8, <1>9, <1>10 DEF Healthy

LEMMA SettingsAreSaved ==
  ASSUME LogInv, LogInv', Healthy, NEW t \in DOMAIN arcTask, SaveSettings(t)
  PROVE  Healthy'
  <1>. DEFINE q == arcTask[t]
              what == IF q.mode = "dedicated" THEN "cfg" ELSE "doc"
              w == [q.write EXCEPT !.what = what]
  <1>1. PICK sure \in BOOLEAN :
          /\ Attempt(w, sure)
          /\ bot' = IF sure THEN [bot EXCEPT !.doc = w.doc] ELSE bot
          /\ arcLog' = [arcLog EXCEPT !.doc = IF sure THEN Changed(arcLog.doc) ELSE arcLog.doc]
    BY DEF SaveSettings
  <1>2. Job(t) = "change" /\ q.pc = "save" /\ ArchiveLeave(t) /\ plot' = plot
    BY DEF SaveSettings, At
  <1>3. TaskIs(plot.tables, arcDb, arcLog.doc, "change", q) /\ DOMAIN bot = BotFields /\ DOMAIN arcDb = DbFields
    BY <1>2, HereIs
  <1>. HIDE DEF q
  <1>4. /\ DOMAIN q.write = WriteFields /\ q.write.doc = Changed(arcLog.doc)
        /\ q.mode = StoreOf(plot.tables)
    BY <1>2, <1>3 DEF TaskIs, Talking
  <1>5. what = SettingsWrite(plot.tables)
    BY <1>4 DEF SettingsWrite, StoreOf
  <1>. HIDE DEF what
  <1>6. w.what = SettingsWrite(plot.tables) /\ w.doc = Changed(arcLog.doc)
    BY <1>4, <1>5 DEF WriteFields
  <1>. HIDE DEF w
  <1>7. arcDb' \in {arcDb, Landed(w)} \union Torn(w) /\ late' \subseteq late \union {w}
        /\ (sure => arcDb' = Landed(w))
    BY <1>1, AttemptedWrite
  <1>8. Torn(w) = {}
    BY <1>3, <1>6, SettingsWriteLands
  <1>9. arcLog'.doc = IF sure THEN Changed(arcLog.doc) ELSE arcLog.doc
    BY <1>1 DEF LogInv, LogFields
  <1>10. \/ arcDb' = Landed(w) /\ arcLog'.doc \in {arcLog.doc, Changed(arcLog.doc)}
         \/ arcDb' = arcDb /\ arcLog'.doc = arcLog.doc
    BY <1>7, <1>8, <1>9
  <1>11. /\ DOMAIN bot' = BotFields /\ bot'.mode = bot.mode /\ bot'.imported = bot.imported
         /\ bot'.loaded = bot.loaded
         /\ bot'.doc = IF sure THEN Changed(arcLog.doc) ELSE bot.doc
    BY <1>1, <1>3, <1>6 DEF BotFields
  <1>12. bot'.loaded => Meant(arcLog'.doc, bot'.doc)
    BY <1>9, <1>11 DEF Healthy, BotIs, Meant
  <1>13. DOMAIN arcTask' = DOMAIN arcTask /\ \A u \in DOMAIN arcTask : Moved(u)
    BY <1>2, LeavingMoves
  <1>. QED  BY <1>2, <1>6, <1>7, <1>10, <1>11, <1>12, <1>13, SettingsLand

LEMMA LateOnesLand ==
  ASSUME LogInv, LogInv', Healthy, LateLands
  PROVE  Healthy'
  <1>1. PICK w \in late : arcDb' = Landed(w) /\ late' = late \ {w}
    BY DEF LateLands
  <1>2. /\ plot' = plot /\ bot' = bot /\ arcTask' = arcTask /\ arcLog'.doc = arcLog.doc
    BY BlameKeepsDoc DEF LateLands
  <1>3. LateIs(plot.tables, arcLog.doc, w) /\ DOMAIN arcDb = DbFields /\ BotIs(plot.tables, arcDb, arcLog.doc, bot)
    BY DEF Healthy, StoreIs
  <1>4. DOMAIN arcTask' = DOMAIN arcTask /\ \A u \in DOMAIN arcTask : Moved(u)
    BY <1>2 DEF Moved
  <1>5. CASE w.what \in RowWrites
    <2>1. DOMAIN arcDb' = DbFields /\ arcDb'.cfg = arcDb.cfg /\ arcDb'.doc = arcDb.doc
      BY <1>1, <1>3, <1>5, RowWriteLands
    <2>2. Steady
      BY <1>1, <1>2, <1>3, <1>4, <2>1 DEF Steady, BotIs
    <2>. QED  BY <2>2, SteadyStep
  <1>6. CASE w.what \notin RowWrites
    <2>1. w.what = SettingsWrite(plot.tables) /\ w.doc = Changed(arcLog.doc)
      BY <1>3, <1>6 DEF LateIs
    <2>2. /\ DOMAIN bot' = BotFields /\ bot'.mode = bot.mode /\ bot'.imported = bot.imported
          /\ bot'.loaded => Meant(arcLog'.doc, bot'.doc)
      BY <1>2, <1>3 DEF BotIs
    <2>3. late' \subseteq late \union {w}
      BY <1>1
    <2>. QED  BY <1>1, <1>2, <1>4, <2>1, <2>2, <2>3, SettingsLand
  <1>. QED  BY <1>5, <1>6

-----------------------------------------------------------------------------
LEMMA SettingsInit == ArchiveInit => SettingsInv
  <1>. SUFFICES ASSUME ArchiveInit PROVE SettingsInv
    OBVIOUS
  <1>1. /\ plot \in Plots /\ arcDb = plot.db /\ bot = FreshBot /\ late = {}
        /\ arcTask = [t \in ArchiveTasks \union {Loader} |-> IdleTask]
        /\ arcLog = [kept |-> plot.rows, dropped |-> {}, removed |-> {}, doc |-> Effective, why |-> {}]
    BY DEF ArchiveInit
  <1>2. DOMAIN arcDb = DbFields /\ arcDb.cfg \in Docs \union {"none"} /\ arcDb.doc \in Docs \union {"none"}
    BY <1>1, PlotAssumption DEF DbFields
  <1>3. DOMAIN arcLog = LogFields /\ arcLog.doc = InForce(plot.tables, arcDb)
    BY <1>1 DEF LogFields, Effective, InForce
  <1>4. InForce(plot.tables, arcDb) \in Docs
    BY <1>2 DEF InForce, Sanitized, Docs
  <1>5. StoreIs(plot.tables, arcDb, arcLog.doc)
    BY <1>2, <1>3 DEF StoreIs, Meant
  <1>6. BotIs(plot.tables, arcDb, arcLog.doc, bot)
    BY <1>1 DEF BotIs, FreshBot, BotFields
  <1>7. ASSUME NEW t \in DOMAIN arcTask
        PROVE  TaskIs(plot.tables, arcDb, arcLog.doc, Job(t), arcTask[t])
    <2>1. arcTask[t] = IdleTask
      BY <1>1
    <2>2. DOMAIN IdleTask = TaskFields /\ IdleTask.pc = "new"
      BY IdleFields DEF IdleTask
    <2>. QED  BY <2>1, <2>2, IdleFields DEF TaskIs, Talking, Importing
  <1>. QED  BY <1>1, <1>3, <1>4, <1>5, <1>6, <1>7 DEF SettingsInv, LogInv, Healthy

LEMMA SettingsStep == SettingsInv /\ [ArchiveNext]_archiveVars => SettingsInv'
  <1>. SUFFICES ASSUME SettingsInv, [ArchiveNext]_archiveVars PROVE SettingsInv'
    OBVIOUS
  <1>1. CASE UNCHANGED archiveVars
    <2>1. /\ plot' = plot /\ arcDb' = arcDb /\ bot' = bot /\ arcTask' = arcTask /\ late' = late
          /\ arcLog' = arcLog
      BY <1>1 DEF archiveVars
    <2>2. LogInv' /\ (Troubled' <=> Troubled)
      BY <2>1 DEF SettingsInv, LogInv, Troubled
    <2>3. \A t : Job(t)' = Job(t)
      BY <2>1 DEF Job
    <2>4. Healthy => Healthy'
      BY <2>1, <2>3 DEF Healthy
    <2>. QED  BY <2>2, <2>4 DEF SettingsInv
  <1>2. CASE ArchiveNext
    <2>1. LogInv /\ LogInv' /\ (Troubled => Troubled')
      BY <1>2, LogSteps DEF SettingsInv, Troubled
    <2>2. CASE Troubled'
      BY <2>1, <2>2 DEF SettingsInv
    <2>3. CASE ~Troubled'
      <3>1. Healthy
        BY <2>1, <2>3 DEF SettingsInv
      <3>2. \A t \in ArchiveTasks : t \in DOMAIN arcTask
        BY <3>1 DEF Healthy
      <3>3. ASSUME NEW t \in DOMAIN arcTask, Probe(t) \/ ImportRead(t) \/ ImportWrite(t)
            PROVE  Healthy'
        BY <2>1, <2>3, <3>1, <3>3, ProbeFinds, ImportReads, ImportWrites
      <3>4. ASSUME NEW t \in DOMAIN arcTask, TaskStep(t)
            PROVE  Healthy'
        <4>1. CASE Receive(t) \/ RemoveBegin(t) \/ LockTaken(t) \/ ReadRows(t) \/ SaveRows(t)
          BY <2>1, <3>1, <4>1, Receives, RemoveBegins, LocksTaken, RowsAreRead, RowsAreSaved
        <4>2. CASE ChangeBegin(t) \/ SaveSettings(t)
          BY <2>1, <3>1, <4>2, ChangeBegins, SettingsAreSaved
        <4>3. CASE SweepBegin(t) \/ SweepRead(t) \/ SweepRetention(t) \/ SweepSave(t)
          BY <2>1, <3>1, <4>3, SweepBegins, SweepReads, RetentionIsRead, SweepSaves
        <4>. QED  BY <3>4, <4>1, <4>2, <4>3 DEF TaskStep
      <3>5. ASSUME LoadBegin \/ LoadRead
            PROVE  Healthy'
        BY <2>1, <3>1, <3>5, LoadBegins, LoadReads
      <3>6. ASSUME LateLands \/ PauseEnds \/ Refresh \/ ArchiveTick \/ ArchiveRestart
            PROVE  Healthy'
        BY <2>1, <3>1, <3>6, LateOnesLand, MemoryMoves, Restarts
      <3>7. Healthy'
        BY <1>2, <3>2, <3>3, <3>4, <3>5, <3>6 DEF ArchiveNext, ArchiveStep
      <3>. QED  BY <2>1, <3>7 DEF SettingsInv
    <2>. QED  BY <2>2, <2>3
  <1>. QED  BY <1>1, <1>2

(* The settings of the archive survive unreadable loads, overlapping ones,     *)
(* restarts, unsure and late writes: what is in force stays what the owner      *)
(* last had confirmed, or a change the owner asked for and was not sure of,     *)
(* unless the import was cut short or ran beside a change, or a probe that      *)
(* failed sent a call to the other store (services/anti_edit_delete_service.py, *)
(* _load_settings, _save_settings; db/client.py, aed_store_mode, _aed_import).  *)
THEOREM SettingsStayTheOwners == ArchiveSpec => []SettingsOutliveOutages
  <1>1. SettingsInv => SettingsOutliveOutages
    <2>. SUFFICES ASSUME SettingsInv, ~Troubled PROVE Effective \in {arcLog.doc, Changed(arcLog.doc)}
      BY DEF SettingsOutliveOutages, Troubled
    <2>1. StoreIs(plot.tables, arcDb, arcLog.doc)
      BY DEF SettingsInv, Healthy
    <2>. QED  BY <2>1 DEF StoreIs, InForce, Effective, Meant
  <1>. QED  BY <1>1, SettingsInit, SettingsStep, PTL DEF ArchiveSpec

-----------------------------------------------------------------------------
(* The rows of the archive.  What both of their properties rest on, until a  *)
(* call goes to the other store, an import is cut short or a write lands     *)
(* late: whose turn it is, and what was imported when.  Updates and removals *)
(* hold the lock from their read to their write.  A process imports before   *)
(* it serves an update, a change or a sweep, and only the load that comes    *)
(* first and a removal, under the lock, can be importing.                    *)

Astray == arcLog.why \cap {"two stores", "import cut short", "late write"} # {}

Capturing == {"snapshot", "edit", "deletion"}
Removing == {"remove", "clear"}
Locking == Capturing \union Removing
Outside == {"new", "over"}

DbShape(db) == /\ DOMAIN db = DbFields /\ DOMAIN db.shards = Shards
               /\ db.cfg \in Docs \union {"none"} /\ db.doc \in Docs \union {"none"}
               /\ IsFiniteSet(db.entries) /\ IsFiniteSet(RowsOf(db.shards))
ImportSettled(tables, b, loader) == tables => b.imported /\ loader.pc \notin Importing

BotBase(tables, db, b, loader) ==
    /\ DOMAIN b = BotFields /\ b.mode \in {"none", StoreOf(tables)}
    /\ b.imported => db.cfg # "none"
    /\ b.loaded \/ b.paused => ImportSettled(tables, b, loader)

TaskShape(q) ==
    /\ DOMAIN q = TaskFields /\ DOMAIN q.write = WriteFields
    /\ DOMAIN q.got = Shards /\ IsFiniteSet(RowsOf(q.got))
    /\ DOMAIN q.write.cells = Shards /\ IsFiniteSet(RowsOf(q.write.cells))
TaskStages(job, q) ==
    /\ job = "load" => q.pc \in {"new", "probe", "read"} \union Importing /\ q.goal = "read"
    /\ job = "change" => \/ q.pc \in Outside /\ q.goal = "read"
                         \/ q.pc \in {"probe", "save"} /\ q.goal = "save"
    /\ job = "sweep" => q.pc \in Outside \union {"probe", "read", "retention", "save"} /\ q.goal = "read"
    /\ job \in Capturing => q.pc \notin Importing
    /\ job \in Locking =>
          /\ q.pc \in Outside \union {"lock", "probe", "read", "save"} \union Importing
          /\ q.pc \in Outside \union {"lock", "read"} \union Importing => q.goal = "read"
          /\ q.pc = "save" => q.goal = "save"
TaskBase(tables, b, loader, lock, job, t, q) ==
    /\ TaskShape(q) /\ TaskStages(job, q) /\ q.goal \in {"read", "save"}
    /\ q.pc \in Talking => q.mode = StoreOf(tables)
    /\ q.pc \in Importing => tables
    /\ q.pc = "rows" => q.write.what = "entries"
    /\ q.pc = "settings" => q.write.what = "cfg" /\ q.write.doc \in Docs
    /\ tables /\ job # "sweep" /\ (q.pc = "read" \/ q.goal = "save") => b.imported
    /\ job \in Locking /\ q.pc \notin Outside \union {"lock"} => lock = t
    /\ job \in Capturing \union {"change", "sweep"} /\ q.pc \notin Outside =>
          ImportSettled(tables, b, loader)
    /\ job = "change" /\ q.goal = "save" => q.write.doc \in Docs
    /\ job = "sweep" /\ q.pc = "save" =>
          q.write.what = (IF tables THEN "prune" ELSE "shards")

Based ==
    /\ plot \in Plots /\ DOMAIN arcTask = ArchiveTasks \union {Loader}
    /\ DbShape(arcDb)
    /\ bot.doc \in Docs
    /\ BotBase(plot.tables, arcDb, bot, arcTask[Loader])
    /\ \A t \in DOMAIN arcTask :
          TaskBase(plot.tables, bot, arcTask[Loader], arcLock, Job(t), t, arcTask[t])
BaseInv == LogInv /\ (Astray \/ Based)

-----------------------------------------------------------------------------
(* What was kept stays in the store: in the tables once there is something    *)
(* in them or their settings say so, and before that in the shards.  Whoever  *)
(* is to replace the rows carries what is kept, or drops it on purpose.       *)

Calm == arcLog.why \subseteq {"import beside a write"}
Live(log) == log.kept \ (log.dropped \union log.removed)
OwnLike(doc) == doc \in {"own", "own+"}
Importable(db) == Bounded(RowsOf(db.shards), NoRow)
Fits(rows, new) == \A row \in rows : Rank(rows, new, row) < ShardCount * RowsPerShard

KeptStore(tables, db, live) ==
    /\ ~tables => live \subseteq RowsOf(db.shards)
    /\ tables /\ (db.cfg # "none" \/ db.entries # {}) => live \subseteq db.entries
    /\ tables /\ db.cfg = "none" => live \subseteq Importable(db)
KeptTask(db, live, job, q) ==
    /\ q.pc \in {"document", "settings"} => live \subseteq db.entries
    /\ q.pc \in {"entries", "shards", "rows"} => live \subseteq Importable(db)
    /\ q.pc = "rows" => live \subseteq RowsOf(q.write.cells)
    /\ job \in Locking /\ q.goal = "save" =>
          LET rows == RowsOf(q.write.cells)
          IN /\ live \subseteq rows \union q.write.drops
             /\ q.row = NoRow \/ (job \in Capturing /\ q.row \in rows)
             /\ Fits(rows, q.row)
ClassTask(db, own, clock, job, q) ==
    /\ q.pc \in {"entries", "shards", "rows", "document", "settings"} => (OwnLike(db.doc) <=> own)
    /\ q.pc = "settings" => (OwnLike(q.write.doc) <=> own)
    /\ job = "change" /\ q.goal = "save" => (OwnLike(q.write.doc) <=> own)
    /\ job = "sweep" /\ q.pc = "save" =>
          /\ \A row \in q.write.drops : clock - row.at > IF own THEN OwnKeep ELSE DefaultKeep
          /\ RowsOf(q.got) \subseteq RowsOf(q.write.cells) \union q.write.drops
Kept ==
    /\ KeptStore(plot.tables, arcDb, Live(arcLog))
    /\ bot.loaded => (OwnLike(bot.doc) <=> OwnLike(Effective))
    /\ \A t \in DOMAIN arcTask :
          /\ KeptTask(arcDb, Live(arcLog), Job(t), arcTask[t])
          /\ ClassTask(arcDb, OwnLike(Effective), arcClock, Job(t), arcTask[t])
KeptInv == Calm => Kept

-----------------------------------------------------------------------------
(* What was removed is nowhere from where it could return: not in the store,  *)
(* not with whoever is to replace the rows, and not with an update under way,  *)
(* whose row is new.                                                           *)

Clear == arcLog.why \subseteq {"torn write", "retention unread"}
RowsIn(db) == db.entries \union RowsOf(db.shards)
RowsWith(q) == RowsOf(q.write.cells) \union q.write.drops \union RowsOf(q.got) \union {q.row}
Carrying(job, q) == job \in Capturing /\ q.row # NoRow
Numbered(rows, count) == \A row \in rows : row.n \in Int /\ row.n <= count

RemovedStore(tables, db, removed) ==
    /\ ~tables => removed \cap RowsOf(db.shards) = {}
    /\ tables => removed \cap db.entries = {}
    /\ tables /\ db.cfg = "none" => removed = {}
RemovedTask(removed, job, q) ==
    /\ job \in Locking /\ q.goal = "save" =>
          RowsOf(q.write.cells) \cap (removed \union q.write.drops) = {}
    /\ Carrying(job, q) => q.row \notin removed
    /\ q.pc \in Outside => q.row = NoRow
    /\ job \in {"snapshot", "edit"} /\ q.pc \notin Outside => q.row # NoRow
    /\ job = "sweep" /\ q.pc = "save" => \A i \in Shards : q.write.cells[i] \subseteq q.got[i]
Gone ==
    /\ captures \in Nat
    /\ RemovedStore(plot.tables, arcDb, arcLog.removed)
    /\ Numbered(RowsIn(arcDb) \union arcLog.removed, captures)
    /\ \A t \in DOMAIN arcTask :
          /\ RemovedTask(arcLog.removed, Job(t), arcTask[t])
          /\ Numbered(RowsWith(arcTask[t]), captures)
          /\ Carrying(Job(t), arcTask[t]) =>
                /\ arcTask[t].row \notin RowsIn(arcDb)
                /\ \A u \in DOMAIN arcTask \ {t} : arcTask[t].row \notin RowsWith(arcTask[u])
RemovedInv == Clear => Gone

-----------------------------------------------------------------------------
(* Rows and cells. *)

LEMMA WholeRows ==
  ASSUME NEW rows
  PROVE  DOMAIN Whole(rows) = Shards /\ RowsOf(Whole(rows)) = rows
  <1>1. 1 \in Shards
    BY ArchiveAssumption DEF Shards
  <1>. QED  BY <1>1 DEF Whole, RowsOf

LEMMA SplitRows ==
  ASSUME NEW rows, NEW new
  PROVE  DOMAIN Split(rows, new) = Shards /\ RowsOf(Split(rows, new)) \subseteq rows
  BY DEF Split, RowsOf

LEMMA NoRows ==
  /\ DOMAIN Empty = Shards /\ RowsOf(Empty) = {} /\ IsFiniteSet(RowsOf(Empty))
  /\ NoWrite.cells = Empty /\ NoWrite.drops = {} /\ IdleTask.got = Empty /\ IdleTask.row = NoRow
  /\ IdleTask.write = NoWrite
  <1>1. DOMAIN Empty = Shards /\ RowsOf(Empty) = {}
    BY DEF Empty, RowsOf
  <1>. QED  BY <1>1, FS_EmptySet DEF NoWrite, IdleTask

LEMMA BoundedIsIn ==
  ASSUME NEW rows, NEW new
  PROVE  Bounded(rows, new) \subseteq rows
  BY DEF Bounded

LEMMA WithRowIsIn ==
  ASSUME NEW rows, NEW row
  PROVE  WithRow(rows, row) \subseteq rows \union {row}
  BY BoundedIsIn DEF WithRow

LEMMA InStoreRows ==
  ASSUME DbShape(arcDb), NEW mode
  PROVE  /\ RowsOf(InStore(mode)) = IF mode = "dedicated" THEN arcDb.entries ELSE RowsOf(arcDb.shards)
         /\ IsFiniteSet(RowsOf(InStore(mode))) /\ DOMAIN InStore(mode) = Shards
  BY WholeRows DEF InStore, DbShape

LEMMA SubsetIsFinite ==
  ASSUME NEW S, IsFiniteSet(S), NEW T, T \subseteq S
  PROVE  IsFiniteSet(T)
  BY FS_Subset

(* What a write leaves of the shape of the stores, done, undone or half-way. *)
LEMMA WriteKeepsShape ==
  ASSUME DbShape(arcDb), NEW w,
         DOMAIN w.cells = Shards, IsFiniteSet(RowsOf(w.cells)),
         w.what \in {"entries", "prune", "shards", "cfg", "doc"},
         w.what \in {"cfg", "doc"} => w.doc \in Docs
  PROVE  \A db \in {arcDb, Landed(w)} \union Torn(w) :
             DbShape(db) /\ (arcDb.cfg # "none" => db.cfg # "none")
  <1>1. CASE w.what = "entries"
    <2>. DEFINE torn == [arcDb EXCEPT !.entries = arcDb.entries \union RowsOf(w.cells)]
    <2>1. Landed(w) = [arcDb EXCEPT !.entries = RowsOf(w.cells)] /\ Torn(w) = {torn}
      BY <1>1 DEF Landed, Torn
    <2>2. IsFiniteSet(arcDb.entries \union RowsOf(w.cells))
      BY FS_Union DEF DbShape
    <2>3. DbShape(torn) /\ torn.cfg = arcDb.cfg
      BY <2>2 DEF DbShape, DbFields
    <2>4. DbShape(Landed(w)) /\ Landed(w).cfg = arcDb.cfg
      BY <2>1 DEF DbShape, DbFields
    <2>. HIDE DEF torn
    <2>. QED  BY <2>1, <2>3, <2>4
  <1>2. CASE w.what = "prune"
    <2>1. Landed(w) = [arcDb EXCEPT !.entries = arcDb.entries \ w.drops] /\ Torn(w) = {}
      BY <1>2 DEF Landed, Torn
    <2>2. IsFiniteSet(arcDb.entries \ w.drops)
      BY SubsetIsFinite DEF DbShape
    <2>3. DbShape(Landed(w)) /\ Landed(w).cfg = arcDb.cfg
      BY <2>1, <2>2 DEF DbShape, DbFields
    <2>. QED  BY <2>1, <2>3
  <1>3. CASE w.what = "shards"
    <2>1. Landed(w) = [arcDb EXCEPT !.shards = w.cells]
      BY <1>3 DEF Landed
    <2>2. DbShape(Landed(w)) /\ Landed(w).cfg = arcDb.cfg
      BY <2>1 DEF DbShape, DbFields
    <2>3. ASSUME NEW db \in Torn(w)
          PROVE  DbShape(db) /\ db.cfg = arcDb.cfg
      <3>1. PICK k \in 1 .. ShardCount - 1 :
              db = [arcDb EXCEPT !.shards =
                      [i \in Shards |-> IF i <= k THEN w.cells[i] ELSE arcDb.shards[i]]]
        BY <1>3 DEF Torn
      <3>. DEFINE mix == [i \in Shards |-> IF i <= k THEN w.cells[i] ELSE arcDb.shards[i]]
      <3>2. RowsOf(mix) \subseteq RowsOf(w.cells) \union RowsOf(arcDb.shards)
        BY DEF RowsOf
      <3>3. IsFiniteSet(RowsOf(w.cells) \union RowsOf(arcDb.shards))
        BY FS_Union DEF DbShape
      <3>4. IsFiniteSet(RowsOf(mix)) /\ DOMAIN mix = Shards
        BY <3>2, <3>3, SubsetIsFinite
      <3>5. db = [arcDb EXCEPT !.shards = mix]
        BY <3>1
      <3>. HIDE DEF mix
      <3>. QED  BY <3>4, <3>5 DEF DbShape, DbFields
    <2>. QED  BY <2>2, <2>3
  <1>4. CASE w.what = "cfg"
    <2>1. Landed(w) = [arcDb EXCEPT !.cfg = w.doc] /\ Torn(w) = {} /\ w.doc \in Docs
      BY <1>4 DEF Landed, Torn
    <2>2. DbShape(Landed(w)) /\ Landed(w).cfg # "none"
      BY <2>1 DEF DbShape, DbFields, Docs
    <2>. QED  BY <2>1, <2>2
  <1>5. CASE w.what = "doc"
    <2>1. Landed(w) = [arcDb EXCEPT !.doc = w.doc] /\ Torn(w) = {} /\ w.doc \in Docs
      BY <1>5 DEF Landed, Torn
    <2>2. DbShape(Landed(w)) /\ Landed(w).cfg = arcDb.cfg
      BY <2>1 DEF DbShape, DbFields
    <2>. QED  BY <2>1, <2>2
  <1>. QED  BY <1>1, <1>2, <1>3, <1>4, <1>5

-----------------------------------------------------------------------------
LEMMA JobsAre ==
  ASSUME Based, NEW t \in DOMAIN arcTask
  PROVE  /\ t = Loader <=> Job(t) = "load"
         /\ Job(t) \in Locking \union {"load", "change", "sweep"}
         /\ t \in ArchiveTasks \union {Loader} /\ Loader \in DOMAIN arcTask
  <1>1. t \in ArchiveTasks \union {Loader} /\ plot \in Plots /\ Loader \notin ArchiveTasks
    BY ArchiveAssumption DEF Based
  <1>2. CASE t = Loader
    BY <1>1, <1>2 DEF Job, Based
  <1>3. CASE t # Loader
    <2>1. Job(t) \in ArchiveJobs
      BY <1>1, <1>3, PlotAssumption DEF Job
    <2>. QED  BY <1>1, <1>3, <2>1 DEF ArchiveJobs, Locking, Capturing, Removing, Based
  <1>. QED  BY <1>2, <1>3

LEMMA BaseOf ==
  ASSUME Based, NEW t \in DOMAIN arcTask
  PROVE  /\ TaskBase(plot.tables, bot, arcTask[Loader], arcLock, Job(t), t, arcTask[t])
         /\ BotBase(plot.tables, arcDb, bot, arcTask[Loader])
         /\ DbShape(arcDb) /\ bot.doc \in Docs
         /\ TheStore = StoreOf(plot.tables)
  BY DEF Based, TheStore, StoreOf

(* A task keeps what holds of it when others move: the import stays done, the *)
(* first load stays over and its lock stays its own.                          *)
LEMMA OthersStay ==
  ASSUME NEW tables, NEW b, NEW loader, NEW lock, NEW b2, NEW loader2, NEW lock2, NEW job, NEW u, NEW q,
         TaskBase(tables, b, loader, lock, job, u, q),
         b.imported => b2.imported, ImportSettled(tables, b, loader) => ImportSettled(tables, b2, loader2),
         job \in Locking /\ lock = u => lock2 = u
  PROVE  TaskBase(tables, b2, loader2, lock2, job, u, q)
  BY DEF TaskBase

LEMMA BaseStep ==
  ASSUME Based, NEW t \in DOMAIN arcTask, NEW q, SetTask(t, q), plot' = plot,
         DbShape(arcDb'), arcDb.cfg # "none" => arcDb'.cfg # "none",
         DOMAIN bot' = BotFields, bot'.mode \in {"none", StoreOf(plot.tables)}, bot'.doc \in Docs,
         bot.imported => bot'.imported, bot'.imported => arcDb'.cfg # "none",
         bot'.loaded \/ bot'.paused =>
            bot.loaded \/ bot.paused \/ ImportSettled(plot.tables, bot', q),
         t # Loader /\ (bot'.loaded \/ bot'.paused) => bot.loaded \/ bot.paused,
         TaskBase(plot.tables, bot', arcTask[Loader], arcLock', Job(t), t, q),
         t = Loader /\ ImportSettled(plot.tables, bot, arcTask[Loader]) => q.pc \notin Importing,
         \A u \in DOMAIN arcTask \ {t, Loader} : arcLock = u => arcLock' = u
  PROVE  Based'
  <1>1. DOMAIN arcTask' = DOMAIN arcTask /\ arcTask'[t] = q
        /\ \A u \in DOMAIN arcTask \ {t} : arcTask'[u] = arcTask[u]
    BY DEF SetTask
  <1>2. Loader \in DOMAIN arcTask
    BY JobsAre
  <1>3. ImportSettled(plot.tables, bot, arcTask[Loader]) => ImportSettled(plot.tables, bot', arcTask'[Loader])
    <2>1. CASE t = Loader
      BY <1>1, <2>1 DEF ImportSettled
    <2>2. CASE t # Loader
      BY <1>1, <1>2, <2>2 DEF ImportSettled
    <2>. QED  BY <2>1, <2>2
  <1>4. BotBase(plot.tables, arcDb', bot', arcTask'[Loader])
    <2>1. bot.loaded \/ bot.paused => ImportSettled(plot.tables, bot, arcTask[Loader])
      BY DEF Based, BotBase
    <2>2. bot'.loaded \/ bot'.paused => ImportSettled(plot.tables, bot', arcTask'[Loader])
      BY <1>1, <1>3, <2>1
    <2>. QED  BY <2>2 DEF BotBase
  <1>5. ASSUME NEW u \in DOMAIN arcTask
        PROVE  TaskBase(plot.tables, bot', arcTask'[Loader], arcLock', Job(u), u, arcTask'[u])
    <2>1. CASE u = t /\ t # Loader
      <3>1. arcTask'[Loader] = arcTask[Loader] /\ arcTask'[u] = q
        BY <1>1, <1>2, <2>1
      <3>. QED  BY <2>1, <3>1
    <2>2. CASE u = t /\ t = Loader
      <3>1. Job(u) = "load" /\ arcTask'[u] = q
        BY <1>1, <2>2, JobsAre
      <3>2. TaskBase(plot.tables, bot', arcTask[Loader], arcLock', "load", u, q)
        BY <2>2, <3>1
      <3>3. TaskBase(plot.tables, bot', arcTask'[Loader], arcLock', "load", u, q)
        BY <3>2 DEF TaskBase, Locking, Capturing, Removing
      <3>. QED  BY <3>1, <3>3
    <2>3. CASE u # t
      <3>1. TaskBase(plot.tables, bot, arcTask[Loader], arcLock, Job(u), u, arcTask[u])
        BY BaseOf
      <3>2. arcTask'[u] = arcTask[u] /\ (Job(u) \in Locking /\ arcLock = u => arcLock' = u)
        BY <1>1, <2>3, JobsAre DEF Locking, Capturing, Removing
      <3>. QED  BY <1>3, <3>1, <3>2, OthersStay
    <2>. QED  BY <2>1, <2>2, <2>3
  <1>6. \A u : Job(u)' = Job(u)
    BY DEF Job
  <1>7. plot \in Plots /\ DOMAIN arcTask = ArchiveTasks \union {Loader}
    BY DEF Based
  <1>. QED  BY <1>1, <1>4, <1>5, <1>6, <1>7 DEF Based

BotSame(b) ==
    /\ DOMAIN b = BotFields /\ b.mode = bot.mode /\ b.loaded = bot.loaded /\ b.doc = bot.doc
    /\ b.imported = bot.imported /\ b.paused = bot.paused

LEMMA HandlingSame ==
  ASSUME Based, NEW h
  PROVE  BotSame([bot EXCEPT !.handled = h]) /\ BotSame(bot)
  <1>1. DOMAIN bot = BotFields
    BY DEF Based, BotBase
  <1>. QED  BY <1>1 DEF BotSame, BotFields

(* One task moves; the memory keeps what it knows. *)
LEMMA BaseMove ==
  ASSUME Based, NEW t \in DOMAIN arcTask, NEW q, SetTask(t, q), plot' = plot,
         DbShape(arcDb'), arcDb.cfg # "none" => arcDb'.cfg # "none", BotSame(bot'),
         TaskBase(plot.tables, bot, arcTask[Loader], arcLock', Job(t), t, q),
         t = Loader /\ ImportSettled(plot.tables, bot, arcTask[Loader]) => q.pc \notin Importing,
         \A u \in DOMAIN arcTask \ {t, Loader} : arcLock = u => arcLock' = u
  PROVE  Based'
  <1>1. TaskBase(plot.tables, bot', arcTask[Loader], arcLock', Job(t), t, q)
    BY OthersStay DEF BotSame, ImportSettled
  <1>2. /\ bot.doc \in Docs /\ bot.mode \in {"none", StoreOf(plot.tables)}
        /\ bot.imported => arcDb.cfg # "none"
    BY DEF Based, BotBase
  <1>3. /\ DOMAIN bot' = BotFields /\ bot'.mode \in {"none", StoreOf(plot.tables)} /\ bot'.doc \in Docs
        /\ bot'.imported = bot.imported /\ bot'.loaded = bot.loaded /\ bot'.paused = bot.paused
    BY <1>2 DEF BotSame
  <1>. QED  BY <1>1, <1>2, <1>3, BaseStep

LEMMA IdleBase ==
  ASSUME NEW tables, NEW b, NEW loader, NEW lock, NEW t, NEW pc, NEW job,
         job \in Locking \union {"load", "change", "sweep"},
         pc \in Outside, job = "load" => pc = "new"
  PROVE  TaskBase(tables, b, loader, lock, job, t, [IdleTask EXCEPT !.pc = pc])
  <1>. DEFINE r == [IdleTask EXCEPT !.pc = pc]
  <1>1. DOMAIN r = TaskFields /\ r.pc = pc /\ r.goal = "read" /\ r.write = NoWrite /\ r.got = Empty
    BY DEF IdleTask, TaskFields
  <1>2. TaskShape(r)
    BY <1>1, NoRows, IdleFields DEF TaskShape
  <1>. HIDE DEF r
  <1>3. TaskBase(tables, b, loader, lock, job, t, r)
    BY <1>1, <1>2 DEF TaskBase, TaskStages, Outside, Talking, Importing, Locking, Capturing, Removing
  <1>. QED  BY <1>3 DEF r

(* A task is over, and passes the lock on if it had it. *)
LEMMA Leaves ==
  ASSUME Based, NEW t \in DOMAIN arcTask, ArchiveLeave(t)
  PROVE  /\ \E pc \in Outside : /\ SetTask(t, [IdleTask EXCEPT !.pc = pc])
                                /\ t = Loader => pc = "new"
         /\ \A u \in DOMAIN arcTask \ {t, Loader} : arcLock = u => arcLock' = u
  BY DEF ArchiveLeave, Outside

LEMMA BaseLeave ==
  ASSUME Based, NEW t \in DOMAIN arcTask, ArchiveLeave(t), plot' = plot,
         DbShape(arcDb'), arcDb.cfg # "none" => arcDb'.cfg # "none", BotSame(bot')
  PROVE  Based'
  <1>1. PICK pc \in Outside : /\ SetTask(t, [IdleTask EXCEPT !.pc = pc])
                              /\ t = Loader => pc = "new"
    BY Leaves
  <1>2. \A u \in DOMAIN arcTask \ {t, Loader} : arcLock = u => arcLock' = u
    BY Leaves
  <1>3. TaskBase(plot.tables, bot, arcTask[Loader], arcLock', Job(t), t, [IdleTask EXCEPT !.pc = pc])
    BY <1>1, JobsAre, IdleBase
  <1>4. [IdleTask EXCEPT !.pc = pc].pc = pc
    BY DEF IdleTask
  <1>5. pc \notin Importing
    BY DEF Outside, Importing
  <1>. QED  BY <1>1, <1>2, <1>3, <1>4, <1>5, BaseMove

-----------------------------------------------------------------------------
(* Asking for the store. *)

AskBase(tables, b, loader, lock, job, t, q) ==
    /\ TaskShape(q) /\ q.goal \in {"read", "save"}
    /\ job \in Locking \union {"load", "change", "sweep"}
    /\ job \in {"load", "sweep"} => q.goal = "read"
    /\ job = "change" => q.goal = "save" /\ q.write.doc \in Docs
    /\ job \in Locking => lock = t
    /\ job \in Capturing \union {"change", "sweep"} => ImportSettled(tables, b, loader)
    /\ tables /\ job # "sweep" /\ q.goal = "save" => b.imported

LEMMA FirstStepBase ==
  ASSUME NEW lock, NEW t, NEW q, q.mode = StoreOf(plot.tables),
         AskBase(plot.tables, bot, arcTask[Loader], lock, Job(t), t, q)
  PROVE  /\ TaskBase(plot.tables, bot, arcTask[Loader], lock, Job(t), t,
                     [q EXCEPT !.pc = FirstStep(t, q)])
         /\ ImportSettled(plot.tables, bot, arcTask[Loader]) =>
               [q EXCEPT !.pc = FirstStep(t, q)].pc \notin Importing
  <1>. DEFINE pc == FirstStep(t, q)
              r == [q EXCEPT !.pc = pc]
  <1>1. /\ DOMAIN r = TaskFields /\ r.pc = pc /\ r.mode = q.mode /\ r.goal = q.goal
        /\ r.write = q.write /\ r.got = q.got
    BY DEF AskBase, TaskShape, TaskFields
  <1>2. TaskShape(r)
    BY <1>1 DEF AskBase, TaskShape
  <1>3. /\ pc \in {"marker", "read", "save"}
        /\ pc = "marker" => plot.tables /\ ~bot.imported /\ q.goal = "read" /\ Job(t) # "sweep"
        /\ pc = "read" => q.goal = "read" /\ (plot.tables /\ Job(t) # "sweep" => bot.imported)
        /\ pc = "save" => q.goal = "save"
        /\ q.goal = "save" => pc = "save"
    BY DEF FirstStep, StoreOf, AskBase
  <1>4. ImportSettled(plot.tables, bot, arcTask[Loader]) => pc # "marker"
    BY <1>3 DEF ImportSettled
  <1>. HIDE DEF r, pc
  <1>5. TaskStages(Job(t), r)
    BY <1>1, <1>3, <1>4 DEF TaskStages, AskBase, Importing, Outside, Locking, Capturing, Removing
  <1>6. /\ q.mode = StoreOf(plot.tables)
        /\ Job(t) \in Locking => lock = t
        /\ Job(t) \in Capturing \union {"change", "sweep"} => ImportSettled(plot.tables, bot, arcTask[Loader])
        /\ plot.tables /\ Job(t) # "sweep" /\ q.goal = "save" => bot.imported
        /\ Job(t) = "change" => q.write.doc \in Docs
        /\ Job(t) = "sweep" => q.goal = "read" /\ q.goal \in {"read", "save"}
        /\ q.goal \in {"read", "save"}
    BY DEF AskBase
  <1>7. TaskBase(plot.tables, bot, arcTask[Loader], lock, Job(t), t, r)
    BY <1>1, <1>2, <1>3, <1>5, <1>6 DEF TaskBase, Importing
  <1>8. ImportSettled(plot.tables, bot, arcTask[Loader]) => r.pc \notin Importing
    BY <1>1, <1>3, <1>4 DEF Importing
  <1>. QED  BY <1>7, <1>8 DEF r, pc

LEMMA AskingBase ==
  ASSUME Based, NEW lock, NEW t, NEW q,
         AskBase(plot.tables, bot, arcTask[Loader], lock, Job(t), t, q)
  PROVE  /\ TaskBase(plot.tables, bot, arcTask[Loader], lock, Job(t), t, Asking(t, q))
         /\ ImportSettled(plot.tables, bot, arcTask[Loader]) => Asking(t, q).pc \notin Importing
  <1>1. CASE bot.mode = "none"
    <2>. DEFINE r == [q EXCEPT !.pc = "probe"]
    <2>1. /\ DOMAIN r = TaskFields /\ r.pc = "probe" /\ r.mode = q.mode /\ r.goal = q.goal
          /\ r.write = q.write /\ r.got = q.got
      BY DEF AskBase, TaskShape, TaskFields
    <2>2. Asking(t, q) = r
      BY <1>1 DEF Asking
    <2>. HIDE DEF r
    <2>3. TaskShape(r)
      BY <2>1 DEF AskBase, TaskShape
    <2>4. TaskStages(Job(t), r)
      BY <2>1 DEF TaskStages, AskBase, Importing, Outside, Locking, Capturing, Removing
    <2>5. TaskBase(plot.tables, bot, arcTask[Loader], lock, Job(t), t, r)
      BY <2>1, <2>3, <2>4 DEF TaskBase, Talking, Importing, AskBase
    <2>. QED  BY <2>1, <2>2, <2>5 DEF Importing
  <1>2. CASE bot.mode # "none"
    <2>. DEFINE known == [q EXCEPT !.mode = bot.mode]
    <2>1. /\ DOMAIN known = TaskFields /\ known.mode = bot.mode /\ known.goal = q.goal
          /\ known.write = q.write /\ known.got = q.got
      BY DEF AskBase, TaskShape, TaskFields
    <2>2. bot.mode = StoreOf(plot.tables)
      BY <1>2 DEF Based, BotBase
    <2>3. Asking(t, q) = [known EXCEPT !.pc = FirstStep(t, known)]
      BY <1>2 DEF Asking
    <2>. HIDE DEF known
    <2>4. AskBase(plot.tables, bot, arcTask[Loader], lock, Job(t), t, known)
      BY <2>1 DEF AskBase, TaskShape
    <2>. QED  BY <2>1, <2>2, <2>3, <2>4, FirstStepBase
  <1>. QED  BY <1>1, <1>2

-----------------------------------------------------------------------------
(* Every step keeps the turns, until one that leads astray. *)

LEMMA BlamedIsAstray ==
  ASSUME LogInv, NEW reasons, Blame(reasons), ~Astray'
  PROVE  reasons \cap {"two stores", "import cut short", "late write"} = {}
  <1>1. reasons \subseteq arcLog'.why
    BY BlameKeepsDoc
  <1>. QED  BY <1>1 DEF Astray

LEMMA BaseProbe ==
  ASSUME LogInv, Based, ~Astray', NEW t \in DOMAIN arcTask, Probe(t)
  PROVE  Based'
  <1>1. PICK mode \in {"dedicated", "legacy"} :
           /\ bot' = bot \/ bot' = [bot EXCEPT !.mode = mode]
           /\ SetTask(t, [[arcTask[t] EXCEPT !.mode = mode] EXCEPT
                            !.pc = FirstStep(t, [arcTask[t] EXCEPT !.mode = mode])])
           /\ Blame(IF mode = TheStore THEN {} ELSE {"two stores"})
    BY DEF Probe
  <1>2. /\ TaskBase(plot.tables, bot, arcTask[Loader], arcLock, Job(t), t, arcTask[t])
        /\ BotBase(plot.tables, arcDb, bot, arcTask[Loader])
        /\ DbShape(arcDb) /\ bot.doc \in Docs /\ TheStore = StoreOf(plot.tables)
    BY BaseOf
  <1>3. mode = StoreOf(plot.tables)
    BY <1>1, <1>2, BlamedIsAstray
  <1>4. arcTask[t].pc = "probe"
    BY DEF Probe, At
  <1>. DEFINE q == [arcTask[t] EXCEPT !.mode = mode]
  <1>5. /\ DOMAIN q = TaskFields /\ q.mode = mode /\ q.goal = arcTask[t].goal /\ q.got = arcTask[t].got
        /\ q.write = arcTask[t].write
    BY <1>2 DEF TaskBase, TaskShape, TaskFields
  <1>6. SetTask(t, [q EXCEPT !.pc = FirstStep(t, q)])
    BY <1>1
  <1>. HIDE DEF q
  <1>7. AskBase(plot.tables, bot, arcTask[Loader], arcLock, Job(t), t, q)
    BY <1>2, <1>4, <1>5, JobsAre
       DEF AskBase, TaskBase, TaskShape, TaskStages, Outside, Importing, Locking, Capturing, Removing
  <1>. DEFINE r == [q EXCEPT !.pc = FirstStep(t, q)]
  <1>8. /\ TaskBase(plot.tables, bot, arcTask[Loader], arcLock, Job(t), t, r)
        /\ ImportSettled(plot.tables, bot, arcTask[Loader]) => r.pc \notin Importing
    BY <1>3, <1>5, <1>7, FirstStepBase
  <1>. HIDE DEF r
  <1>9. /\ DOMAIN bot' = BotFields /\ bot'.mode \in {"none", StoreOf(plot.tables)} /\ bot'.doc \in Docs
        /\ bot'.imported = bot.imported /\ bot'.loaded = bot.loaded /\ bot'.paused = bot.paused
        /\ bot'.imported => arcDb.cfg # "none"
    BY <1>1, <1>2, <1>3 DEF BotBase, BotFields
  <1>10. plot' = plot /\ arcDb' = arcDb /\ arcLock' = arcLock
    BY DEF Probe
  <1>11. TaskBase(plot.tables, bot', arcTask[Loader], arcLock', Job(t), t, r)
    BY <1>8, <1>9, <1>10, OthersStay DEF ImportSettled
  <1>12. SetTask(t, r)
    BY <1>6 DEF r
  <1>. QED  BY <1>2, <1>8, <1>9, <1>10, <1>11, <1>12, BaseStep

(* A turn of the import. *)
LEMMA ImportTurn ==
  ASSUME NEW tables, NEW b, NEW loader, NEW lock, NEW job, NEW t, NEW q, NEW r, NEW b2,
         TaskBase(tables, b, loader, lock, job, t, q), q.pc \in Importing,
         job \in Locking \union {"load", "change", "sweep"},
         DOMAIN r = TaskFields, r.mode = q.mode, r.goal = q.goal, r.got = q.got,
         DOMAIN r.write = WriteFields, DOMAIN r.write.cells = Shards, IsFiniteSet(RowsOf(r.write.cells)),
         r.pc \in Importing \union {"read"},
         r.pc = "rows" => r.write.what = "entries",
         r.pc = "settings" => r.write.what = "cfg" /\ r.write.doc \in Docs,
         b.imported => b2.imported, r.pc = "read" => b2.imported
  PROVE  TaskBase(tables, b2, loader, lock, job, t, r)
  <1>1. TaskShape(r)
    BY DEF TaskBase, TaskShape
  <1>2. /\ job \in Removing \union {"load"} /\ q.goal = "read" /\ tables /\ q.mode = StoreOf(tables)
        /\ job \in Locking => lock = t
    BY DEF TaskBase, TaskStages, Importing, Talking, Outside, Locking, Capturing, Removing
  <1>3. TaskStages(job, r)
    BY <1>2 DEF TaskStages, Importing, Outside, Locking, Capturing, Removing
  <1>. QED  BY <1>1, <1>2, <1>3 DEF TaskBase, Importing, Outside, Locking, Capturing, Removing

LEMMA BaseImportRead ==
  ASSUME LogInv, Based, ~Astray', NEW t \in DOMAIN arcTask, ImportRead(t)
  PROVE  Based'
  <1>1. PICK from \in {"marker", "entries", "shards", "document"} :
          /\ At(t, from)
          /\ \/ /\ UNCHANGED bot
                /\ TaskTo(t, "read") /\ Blame({"import cut short"})
             \/ /\ UNCHANGED arcLog
                /\ bot' = [bot EXCEPT !.imported = @ \/ (from = "marker" /\ Marked)]
                /\ \/ /\ from = "marker"
                      /\ TaskTo(t, IF Marked THEN "read" ELSE "entries")
                   \/ /\ from = "entries"
                      /\ TaskTo(t, IF arcDb.entries # {} THEN "document" ELSE "shards")
                   \/ /\ from = "shards"
                      /\ LET rows == Bounded(RowsOf(arcDb.shards), NoRow)
                         IN SetTask(t, [arcTask[t] EXCEPT
                              !.pc = IF rows = {} THEN "document" ELSE "rows",
                              !.write = [NoWrite EXCEPT !.what = "entries", !.cells = Whole(rows)]])
                   \/ /\ from = "document"
                      /\ SetTask(t, [arcTask[t] EXCEPT !.pc = "settings",
                              !.write = [NoWrite EXCEPT !.what = "cfg", !.doc = Sanitized(arcDb.doc)]])
    BY DEF ImportRead
  <1>. DEFINE q == arcTask[t]
  <1>2. /\ TaskBase(plot.tables, bot, arcTask[Loader], arcLock, Job(t), t, q)
        /\ BotBase(plot.tables, arcDb, bot, arcTask[Loader])
        /\ DbShape(arcDb) /\ bot.doc \in Docs
    BY BaseOf
  <1>3. q.pc = from /\ q.pc \in Importing
    BY <1>1 DEF At, Importing
  <1>4. t = Loader /\ ImportSettled(plot.tables, bot, arcTask[Loader]) => FALSE
    BY <1>2, <1>3 DEF TaskBase, ImportSettled
  <1>5. DOMAIN q = TaskFields /\ DOMAIN q.write = WriteFields /\ DOMAIN q.write.cells = Shards
        /\ IsFiniteSet(RowsOf(q.write.cells))
    BY <1>2 DEF TaskBase, TaskShape
  <1>. HIDE DEF q
  <1>6. ~Blame({"import cut short"})
    BY BlamedIsAstray
  <1>7. bot' = [bot EXCEPT !.imported = bot.imported \/ (from = "marker" /\ Marked)]
    BY <1>1, <1>6
  <1>8. /\ DOMAIN bot' = BotFields /\ bot'.mode \in {"none", StoreOf(plot.tables)} /\ bot'.doc \in Docs
        /\ bot'.loaded = bot.loaded /\ bot'.paused = bot.paused
        /\ bot'.imported = (bot.imported \/ (from = "marker" /\ Marked))
        /\ bot'.imported => arcDb.cfg # "none"
    BY <1>2, <1>7 DEF BotBase, BotFields, Marked
  <1>9. plot' = plot /\ arcDb' = arcDb /\ arcLock' = arcLock
    BY DEF ImportRead
  <1>10. ASSUME NEW r, SetTask(t, r), DOMAIN r = TaskFields, r.mode = q.mode, r.goal = q.goal, r.got = q.got,
                DOMAIN r.write = WriteFields, DOMAIN r.write.cells = Shards,
                IsFiniteSet(RowsOf(r.write.cells)),
                r.pc \in Importing \union {"read"},
                r.pc = "rows" => r.write.what = "entries",
                r.pc = "settings" => r.write.what = "cfg" /\ r.write.doc \in Docs,
                r.pc = "read" => from = "marker" /\ Marked
         PROVE  Based'
    <2>1. TaskBase(plot.tables, bot', arcTask[Loader], arcLock', Job(t), t, r)
      <3>1. bot.imported => bot'.imported
        BY <1>8
      <3>2. r.pc = "read" => bot'.imported
        BY <1>8, <1>10
      <3>3. Job(t) \in Locking \union {"load", "change", "sweep"}
        BY JobsAre
      <3>. QED  BY <1>2, <1>3, <1>9, <1>10, <3>1, <3>2, <3>3, ImportTurn
    <2>. QED  BY <1>2, <1>4, <1>8, <1>9, <1>10, <2>1, BaseStep
  <1>11. ASSUME NEW pc \in {"entries", "shards", "document", "read"}, TaskTo(t, pc),
                pc = "read" => from = "marker" /\ Marked
         PROVE  Based'
    <2>. DEFINE r == [q EXCEPT !.pc = pc]
    <2>1. DOMAIN r = TaskFields /\ r.pc = pc /\ r.mode = q.mode /\ r.goal = q.goal /\ r.got = q.got
          /\ r.write = q.write
      BY <1>5 DEF TaskFields
    <2>2. SetTask(t, r)
      BY <1>11 DEF TaskTo, q
    <2>. HIDE DEF r
    <2>3. r.pc \in Importing \union {"read"} /\ r.pc # "rows" /\ r.pc # "settings"
      BY <2>1 DEF Importing
    <2>. QED  BY <1>5, <1>10, <1>11, <2>1, <2>2, <2>3
  <1>12. ASSUME NEW pc \in {"document", "rows", "settings"}, NEW w, DOMAIN w = WriteFields,
                DOMAIN w.cells = Shards, IsFiniteSet(RowsOf(w.cells)),
                SetTask(t, [q EXCEPT !.pc = pc, !.write = w]),
                pc = "rows" => w.what = "entries",
                pc = "settings" => w.what = "cfg" /\ w.doc \in Docs
         PROVE  Based'
    <2>. DEFINE r == [q EXCEPT !.pc = pc, !.write = w]
    <2>1. DOMAIN r = TaskFields /\ r.pc = pc /\ r.mode = q.mode /\ r.goal = q.goal /\ r.got = q.got
          /\ r.write = w
      BY <1>5 DEF TaskFields
    <2>2. SetTask(t, r)
      BY <1>12
    <2>. HIDE DEF r
    <2>3. r.pc \in Importing \union {"read"} /\ r.pc # "read"
      BY <2>1 DEF Importing
    <2>. QED  BY <1>10, <1>12, <2>1, <2>2, <2>3
  <1>13. CASE from = "marker"
    <2>1. TaskTo(t, IF Marked THEN "read" ELSE "entries")
      BY <1>1, <1>6, <1>13
    <2>. QED  BY <1>11, <1>13, <2>1
  <1>14. CASE from = "entries"
    <2>1. TaskTo(t, IF arcDb.entries # {} THEN "document" ELSE "shards")
      BY <1>1, <1>6, <1>14
    <2>. QED  BY <1>11, <2>1
  <1>15. CASE from = "shards"
    <2>. DEFINE rows == Bounded(RowsOf(arcDb.shards), NoRow)
                cells == Whole(rows)
                w == [NoWrite EXCEPT !.what = "entries", !.cells = cells]
    <2>1. PICK pc \in {"document", "rows"} : SetTask(t, [q EXCEPT !.pc = pc, !.write = w])
      BY <1>1, <1>6, <1>15 DEF q
    <2>2. DOMAIN w = WriteFields /\ w.what = "entries" /\ w.cells = cells
      BY DEF NoWrite, WriteFields
    <2>3. IsFiniteSet(rows)
      BY <1>2, BoundedIsIn, SubsetIsFinite DEF DbShape
    <2>4. DOMAIN cells = Shards /\ RowsOf(cells) = rows
      BY WholeRows
    <2>. HIDE DEF w, cells, rows
    <2>. QED  BY <1>12, <2>1, <2>2, <2>3, <2>4
  <1>16. CASE from = "document"
    <2>. DEFINE doc == Sanitized(arcDb.doc)
                w == [NoWrite EXCEPT !.what = "cfg", !.doc = doc]
    <2>1. SetTask(t, [q EXCEPT !.pc = "settings", !.write = w])
      BY <1>1, <1>6, <1>16 DEF q
    <2>2. DOMAIN w = WriteFields /\ w.what = "cfg" /\ w.doc = doc /\ w.cells = Empty
      BY NoRows DEF NoWrite, WriteFields
    <2>3. doc \in Docs
      BY <1>2 DEF DbShape, Sanitized, Docs
    <2>. HIDE DEF w, doc
    <2>. QED  BY <1>12, <2>1, <2>2, <2>3, NoRows
  <1>. QED  BY <1>13, <1>14, <1>15, <1>16

LEMMA BaseImportWrite ==
  ASSUME LogInv, Based, ~Astray', NEW t \in DOMAIN arcTask, ImportWrite(t)
  PROVE  Based'
  <1>. DEFINE q == arcTask[t]
              w == q.write
  <1>1. PICK from \in {"rows", "settings"}, sure \in BOOLEAN, newer \in BOOLEAN :
          /\ q.pc = from /\ Attempt(w, sure)
          /\ TaskTo(t, IF sure /\ from = "rows" THEN "document" ELSE "read")
          /\ bot' = [bot EXCEPT !.imported = @ \/ (sure /\ from = "settings")]
          /\ Blame(Tearing(w) \union (IF sure THEN {} ELSE {"import cut short"})
                              \union (IF newer THEN {"import beside a write"} ELSE {}))
    BY DEF ImportWrite, At
  <1>2. sure
    BY <1>1, BlamedIsAstray
  <1>3. /\ TaskBase(plot.tables, bot, arcTask[Loader], arcLock, Job(t), t, q)
        /\ BotBase(plot.tables, arcDb, bot, arcTask[Loader])
        /\ DbShape(arcDb) /\ bot.doc \in Docs
    BY BaseOf
  <1>4. q.pc = from /\ Attempt(w, sure)
    BY <1>1
  <1>5. SetTask(t, [q EXCEPT !.pc = IF from = "rows" THEN "document" ELSE "read"])
    BY <1>1, <1>2 DEF TaskTo
  <1>6. t = Loader /\ ImportSettled(plot.tables, bot, arcTask[Loader]) => FALSE
    BY <1>3, <1>4 DEF TaskBase, ImportSettled, Importing
  <1>. HIDE DEF q
  <1>7. /\ DOMAIN q = TaskFields /\ DOMAIN w = WriteFields /\ DOMAIN w.cells = Shards
        /\ IsFiniteSet(RowsOf(w.cells))
        /\ from = "rows" => w.what = "entries"
        /\ from = "settings" => w.what = "cfg" /\ w.doc \in Docs
    BY <1>3, <1>4 DEF TaskBase, TaskShape
  <1>8. arcDb' = Landed(w)
    BY <1>2, <1>4, AttemptedWrite
  <1>9. w.what \in {"entries", "prune", "shards", "cfg", "doc"} /\ (w.what \in {"cfg", "doc"} => w.doc \in Docs)
    BY <1>7
  <1>10. DbShape(arcDb') /\ (arcDb.cfg # "none" => arcDb'.cfg # "none")
    BY <1>3, <1>7, <1>8, <1>9, WriteKeepsShape
  <1>11. /\ DOMAIN bot' = BotFields /\ bot'.mode \in {"none", StoreOf(plot.tables)} /\ bot'.doc \in Docs
         /\ bot'.loaded = bot.loaded /\ bot'.paused = bot.paused
         /\ bot'.imported = (bot.imported \/ from = "settings")
    BY <1>1, <1>2, <1>3 DEF BotBase, BotFields
  <1>12. from = "settings" => arcDb'.cfg # "none"
    <2>1. from = "settings" => SettingsWrite(TRUE) = w.what
      BY <1>7 DEF SettingsWrite
    <2>2. from = "settings" => Landed(w).cfg = w.doc
      BY <1>3, <2>1, SettingsWriteLands DEF DbShape
    <2>. QED  BY <1>7, <1>8, <2>2 DEF Docs
  <1>13. bot'.imported => arcDb'.cfg # "none"
    BY <1>3, <1>10, <1>11, <1>12 DEF BotBase
  <1>. DEFINE pc == IF from = "rows" THEN "document" ELSE "read"
              r == [q EXCEPT !.pc = pc]
  <1>14. DOMAIN r = TaskFields /\ r.pc = pc /\ r.mode = q.mode /\ r.goal = q.goal /\ r.got = q.got
         /\ r.write = q.write
    BY <1>7 DEF TaskFields
  <1>15. SetTask(t, r)
    BY <1>5
  <1>16. pc \in {"document", "read"} /\ (pc = "read" => from = "settings")
    BY <1>1
  <1>. HIDE DEF r, pc
  <1>17. plot' = plot /\ arcLock' = arcLock
    BY DEF ImportWrite
  <1>18. TaskBase(plot.tables, bot', arcTask[Loader], arcLock', Job(t), t, r)
    <2>1. q.pc \in Importing /\ r.pc \in Importing \union {"read"} /\ r.pc # "rows" /\ r.pc # "settings"
      BY <1>4, <1>14, <1>16 DEF Importing
    <2>2. (bot.imported => bot'.imported) /\ (r.pc = "read" => bot'.imported)
      BY <1>11, <1>14, <1>16
    <2>3. Job(t) \in Locking \union {"load", "change", "sweep"}
      BY JobsAre
    <2>4. DOMAIN r.write = WriteFields /\ DOMAIN r.write.cells = Shards /\ IsFiniteSet(RowsOf(r.write.cells))
      BY <1>7, <1>14
    <2>. QED  BY <1>3, <1>14, <1>17, <2>1, <2>2, <2>3, <2>4, ImportTurn
  <1>. QED  BY <1>6, <1>10, <1>11, <1>13, <1>15, <1>17, <1>18, BaseStep

LEMMA BaseLoadRead ==
  ASSUME Based, LoadRead
  PROVE  Based'
  <1>1. Loader \in DOMAIN arcTask
    BY DEF Based
  <1>2. /\ TaskBase(plot.tables, bot, arcTask[Loader], arcLock, Job(Loader), Loader, arcTask[Loader])
        /\ BotBase(plot.tables, arcDb, bot, arcTask[Loader])
        /\ DbShape(arcDb) /\ bot.doc \in Docs
        /\ Job(Loader) = "load"
    BY <1>1, BaseOf, JobsAre
  <1>3. ArchiveLeave(Loader) /\ arcTask[Loader].pc = "read" /\ plot' = plot /\ arcDb' = arcDb
    BY DEF LoadRead, At
  <1>. DEFINE r == [IdleTask EXCEPT !.pc = "new"]
  <1>4. SetTask(Loader, r) /\ \A u \in DOMAIN arcTask \ {Loader} : arcLock = u => arcLock' = u
    BY <1>1, <1>3, Leaves DEF ArchiveLeave
  <1>5. r.pc = "new"
    BY DEF IdleTask
  <1>. HIDE DEF r
  <1>6. plot.tables => bot.imported
    BY <1>2, <1>3 DEF TaskBase
  <1>7. \/ bot' = [bot EXCEPT !.paused = TRUE]
        \/ bot' = [bot EXCEPT !.loaded = TRUE, !.doc = Sanitized(DocIn(arcTask[Loader].mode))]
    BY DEF LoadRead
  <1>8. Sanitized(DocIn(arcTask[Loader].mode)) \in Docs
    BY <1>2 DEF DbShape, DocIn, Sanitized, Docs
  <1>9. /\ DOMAIN bot' = BotFields /\ bot'.mode \in {"none", StoreOf(plot.tables)} /\ bot'.doc \in Docs
        /\ bot'.imported = bot.imported /\ (bot'.imported => arcDb.cfg # "none")
    BY <1>2, <1>7, <1>8 DEF BotBase, BotFields
  <1>10. r.pc \notin Importing
    BY <1>5 DEF Importing
  <1>11. ImportSettled(plot.tables, bot', r)
    BY <1>6, <1>9, <1>10 DEF ImportSettled
  <1>12. TaskBase(plot.tables, bot', arcTask[Loader], arcLock', Job(Loader), Loader, r)
    BY <1>2, IdleBase DEF r, Outside
  <1>13. \A u \in DOMAIN arcTask \ {Loader, Loader} : arcLock = u => arcLock' = u
    BY <1>4
  <1>14. SetTask(Loader, r)
    BY <1>4
  <1>15. bot.imported => bot'.imported
    BY <1>9
  <1>. QED  BY <1>1, <1>2, <1>3, <1>9, <1>10, <1>11, <1>12, <1>13, <1>14, <1>15, BaseStep

LEMMA BaseMemory ==
  ASSUME Based, PauseEnds \/ Refresh \/ ArchiveTick
  PROVE  Based'
  <1>1. /\ plot' = plot /\ arcDb' = arcDb /\ arcTask' = arcTask /\ arcLock' = arcLock
        /\ \/ bot' = [bot EXCEPT !.paused = FALSE]
           \/ bot' = [bot EXCEPT !.loaded = FALSE]
           \/ bot' = [bot EXCEPT !.handled = {}]
    BY DEF PauseEnds, Refresh, ArchiveTick
  <1>2. BotBase(plot.tables, arcDb, bot, arcTask[Loader]) /\ bot.doc \in Docs
    BY DEF Based
  <1>3. /\ DOMAIN bot' = BotFields /\ bot'.mode = bot.mode /\ bot'.imported = bot.imported
        /\ bot'.doc = bot.doc /\ (bot'.loaded \/ bot'.paused => bot.loaded \/ bot.paused)
    BY <1>1, <1>2 DEF BotBase, BotFields
  <1>4. BotBase(plot.tables, arcDb, bot', arcTask[Loader])
    BY <1>2, <1>3 DEF BotBase, ImportSettled
  <1>5. ASSUME NEW t \in DOMAIN arcTask
        PROVE  TaskBase(plot.tables, bot', arcTask[Loader], arcLock, Job(t), t, arcTask[t])
    <2>1. TaskBase(plot.tables, bot, arcTask[Loader], arcLock, Job(t), t, arcTask[t])
      BY BaseOf
    <2>. QED  BY <1>3, <2>1, OthersStay DEF ImportSettled
  <1>6. \A t : Job(t)' = Job(t)
    BY <1>1 DEF Job
  <1>. QED  BY <1>1, <1>2, <1>3, <1>4, <1>5, <1>6 DEF Based

LEMMA BaseRestart ==
  ASSUME Based, ArchiveRestart
  PROVE  Based'
  <1>1. /\ plot' = plot /\ arcDb' = arcDb /\ bot' = FreshBot /\ arcLock' = Loader
        /\ DOMAIN arcTask' = DOMAIN arcTask
    BY DEF ArchiveRestart
  <1>2. Loader \in DOMAIN arcTask
    BY DEF Based
  <1>3. /\ DOMAIN bot' = BotFields /\ bot'.mode = "none" /\ ~bot'.imported /\ ~bot'.loaded
        /\ ~bot'.paused /\ bot'.doc \in Docs
    BY <1>1 DEF FreshBot, BotFields, Docs
  <1>4. BotBase(plot.tables, arcDb, bot', arcTask'[Loader])
    BY <1>3 DEF BotBase
  <1>5. ASSUME NEW t \in DOMAIN arcTask
        PROVE  TaskBase(plot.tables, bot', arcTask'[Loader], arcLock', Job(t), t, arcTask'[t])
    <2>1. Job(t) \in Locking \union {"load", "change", "sweep"} /\ (t = Loader <=> Job(t) = "load")
      BY JobsAre
    <2>2. CASE Quiet(t)
      <3>1. arcTask'[t] = arcTask[t] /\ arcTask[t].pc \in Outside
        BY <2>2 DEF ArchiveRestart, Quiet, Outside
      <3>2. TaskBase(plot.tables, bot, arcTask[Loader], arcLock, Job(t), t, arcTask[t])
        BY BaseOf
      <3>3. TaskShape(arcTask[t]) /\ TaskStages(Job(t), arcTask[t]) /\ arcTask[t].goal \in {"read", "save"}
        BY <3>2 DEF TaskBase
      <3>4. arcTask[t].goal = "read"
        BY <2>1, <3>1, <3>3 DEF TaskStages, Outside, Locking, Capturing, Removing
      <3>5. arcTask[t].pc \notin Talking /\ arcTask[t].pc \notin Importing
        BY <3>1 DEF Outside, Talking, Importing
      <3>. QED  BY <2>1, <3>1, <3>3, <3>4, <3>5 DEF TaskBase, Outside
    <2>3. CASE ~Quiet(t)
      <3>1. PICK pc \in Outside : /\ arcTask'[t] = [IdleTask EXCEPT !.pc = pc]
                                  /\ t = Loader => pc = "new"
        BY <2>3 DEF ArchiveRestart, Outside
      <3>. QED  BY <2>1, <3>1, IdleBase
    <2>. QED  BY <2>2, <2>3
  <1>6. \A t : Job(t)' = Job(t)
    BY <1>1 DEF Job
  <1>. QED  BY <1>1, <1>3, <1>4, <1>5, <1>6 DEF Based

(* A task that waits for the lock. *)
LEMMA BaseWait ==
  ASSUME Based, NEW t \in DOMAIN arcTask, NEW r, SetTask(t, r), arcTask[t].pc = "new",
         Job(t) \in Locking, Job(t) \in Capturing => ImportSettled(plot.tables, bot, arcTask[Loader]),
         DOMAIN r = TaskFields, r.pc = "lock", r.goal = arcTask[t].goal, r.got = arcTask[t].got,
         r.write = arcTask[t].write,
         plot' = plot, arcDb' = arcDb, arcLock' = arcLock, BotSame(bot')
  PROVE  Based'
  <1>1. TaskBase(plot.tables, bot, arcTask[Loader], arcLock, Job(t), t, arcTask[t]) /\ DbShape(arcDb)
    BY BaseOf
  <1>2. TaskShape(r) /\ arcTask[t].goal = "read"
    BY <1>1 DEF TaskBase, TaskShape, TaskStages, Outside
  <1>3. t # Loader
    BY JobsAre DEF Locking, Capturing, Removing
  <1>4. TaskBase(plot.tables, bot, arcTask[Loader], arcLock, Job(t), t, r)
    BY <1>1, <1>2 DEF TaskBase, TaskStages, Outside, Talking, Importing, Locking, Capturing, Removing
  <1>. QED  BY <1>1, <1>3, <1>4, BaseMove

LEMMA SettledOnceServed ==
  ASSUME Based, ~NeedsLoad
  PROVE  ImportSettled(plot.tables, bot, arcTask[Loader])
  BY DEF Based, BotBase, NeedsLoad

LEMMA BaseReceive ==
  ASSUME Based, NEW t \in DOMAIN arcTask, Receive(t)
  PROVE  Based'
  <1>1. Job(t) \in Capturing /\ arcTask[t].pc = "new"
    BY DEF Receive, Captures, At, Capturing
  <1>2. ImportSettled(plot.tables, bot, arcTask[Loader])
    BY SettledOnceServed DEF Receive
  <1>3. DOMAIN arcTask[t] = TaskFields /\ DbShape(arcDb)
    BY BaseOf DEF TaskBase, TaskShape
  <1>4. /\ plot' = plot /\ arcDb' = arcDb
        /\ bot' = bot \/ \E h : bot' = [bot EXCEPT !.handled = h]
    BY DEF Receive
  <1>5. BotSame(bot')
    BY <1>4, HandlingSame
  <1>6. \/ ArchiveLeave(t)
        \/ TaskTo(t, "lock") /\ arcLock' = arcLock
        \/ \E row : SetTask(t, [arcTask[t] EXCEPT !.pc = "lock", !.row = row]) /\ arcLock' = arcLock
    BY DEF Receive
  <1>7. CASE ArchiveLeave(t)
    BY <1>3, <1>4, <1>5, <1>7, BaseLeave
  <1>8. ASSUME NEW r, SetTask(t, r), arcLock' = arcLock,
               r = [arcTask[t] EXCEPT !.pc = "lock"]
               \/ \E row : r = [arcTask[t] EXCEPT !.pc = "lock", !.row = row]
        PROVE  Based'
    <2>1. /\ DOMAIN r = TaskFields /\ r.pc = "lock" /\ r.goal = arcTask[t].goal /\ r.got = arcTask[t].got
          /\ r.write = arcTask[t].write
      BY <1>3, <1>8 DEF TaskFields
    <2>2. Job(t) \in Locking
      BY <1>1 DEF Locking
    <2>. QED  BY <1>1, <1>2, <1>4, <1>5, <1>8, <2>1, <2>2, BaseWait
  <1>9. CASE TaskTo(t, "lock") /\ arcLock' = arcLock
    BY <1>8, <1>9 DEF TaskTo
  <1>10. CASE \E row : SetTask(t, [arcTask[t] EXCEPT !.pc = "lock", !.row = row]) /\ arcLock' = arcLock
    BY <1>8, <1>10
  <1>. QED  BY <1>6, <1>7, <1>9, <1>10

LEMMA BaseRemoveBegin ==
  ASSUME Based, NEW t \in DOMAIN arcTask, RemoveBegin(t)
  PROVE  Based'
  <1>1. Job(t) \in Removing /\ arcTask[t].pc = "new"
    BY DEF RemoveBegin, Removes, At, Removing
  <1>2. DOMAIN arcTask[t] = TaskFields
    BY BaseOf DEF TaskBase, TaskShape
  <1>3. /\ plot' = plot /\ arcDb' = arcDb /\ bot' = bot /\ arcLock' = arcLock
        /\ SetTask(t, [arcTask[t] EXCEPT !.pc = "lock"])
    BY DEF RemoveBegin, TaskTo
  <1>4. BotSame(bot')
    BY <1>3, HandlingSame
  <1>. DEFINE r == [arcTask[t] EXCEPT !.pc = "lock"]
  <1>5. /\ DOMAIN r = TaskFields /\ r.pc = "lock" /\ r.goal = arcTask[t].goal /\ r.got = arcTask[t].got
        /\ r.write = arcTask[t].write
    BY <1>2 DEF TaskFields
  <1>6. SetTask(t, r)
    BY <1>3
  <1>. HIDE DEF r
  <1>7. Job(t) \in Locking /\ Job(t) \notin Capturing
    BY <1>1 DEF Locking, Capturing, Removing
  <1>. QED  BY <1>1, <1>3, <1>4, <1>5, <1>6, <1>7, BaseWait

(* One task asks for the store. *)
LEMMA BaseAsk ==
  ASSUME Based, NEW t \in DOMAIN arcTask, NEW q, SetTask(t, Asking(t, q)),
         AskBase(plot.tables, bot, arcTask[Loader], arcLock', Job(t), t, q),
         plot' = plot, arcDb' = arcDb, BotSame(bot'),
         \A u \in DOMAIN arcTask \ {t, Loader} : arcLock = u => arcLock' = u
  PROVE  Based'
  <1>1. TaskBase(plot.tables, bot, arcTask[Loader], arcLock', Job(t), t, Asking(t, q))
        /\ (ImportSettled(plot.tables, bot, arcTask[Loader]) => Asking(t, q).pc \notin Importing)
    BY AskingBase
  <1>2. DbShape(arcDb)
    BY DEF Based
  <1>. QED  BY <1>1, <1>2, BaseMove

LEMMA BaseLoadBegin ==
  ASSUME Based, LoadBegin
  PROVE  Based'
  <1>1. Loader \in DOMAIN arcTask
    BY DEF Based
  <1>2. Job(Loader) = "load"
    BY <1>1, JobsAre
  <1>3. /\ plot' = plot /\ arcDb' = arcDb /\ bot' = bot /\ arcLock' = arcLock
        /\ SetTask(Loader, Asking(Loader, IdleTask))
    BY DEF LoadBegin
  <1>4. BotSame(bot')
    BY <1>1, <1>3, HandlingSame
  <1>5. TaskShape(IdleTask) /\ IdleTask.goal = "read"
    BY NoRows, IdleFields DEF TaskShape, IdleTask
  <1>6. AskBase(plot.tables, bot, arcTask[Loader], arcLock', Job(Loader), Loader, IdleTask)
    BY <1>2, <1>5 DEF AskBase, Locking, Capturing, Removing
  <1>. QED  BY <1>1, <1>3, <1>4, <1>6, BaseAsk

LEMMA BaseLockTaken ==
  ASSUME Based, NEW t \in DOMAIN arcTask, LockTaken(t)
  PROVE  Based'
  <1>1. /\ TaskBase(plot.tables, bot, arcTask[Loader], arcLock, Job(t), t, arcTask[t])
    BY BaseOf
  <1>2. /\ plot' = plot /\ arcDb' = arcDb /\ bot' = bot /\ arcLock = Loader /\ arcLock' = t
        /\ arcTask[t].pc = "lock" /\ SetTask(t, Asking(t, arcTask[t]))
    BY DEF LockTaken, At
  <1>3. Job(t) \in Locking
    <2>1. Job(t) \in Locking \union {"load", "change", "sweep"}
      BY JobsAre
    <2>. QED  BY <1>1, <1>2, <2>1 DEF TaskBase, TaskStages, Outside, Importing
  <1>4. AskBase(plot.tables, bot, arcTask[Loader], t, Job(t), t, arcTask[t])
    BY <1>1, <1>2, <1>3 DEF TaskBase, AskBase, TaskStages, Outside, Locking, Capturing, Removing
  <1>5. BotSame(bot')
    BY <1>2, HandlingSame
  <1>6. \A u \in DOMAIN arcTask \ {t, Loader} : arcLock = u => arcLock' = u
    BY <1>2
  <1>. QED  BY <1>2, <1>4, <1>5, <1>6, BaseAsk

(* The rows were read, and what is to replace them is known. *)
LEMMA BaseReplace ==
  ASSUME Based, NEW t \in DOMAIN arcTask, arcTask[t].pc = "read", Job(t) \in Locking,
         NEW rows, IsFiniteSet(rows), NEW row, Replace(t, rows, row),
         plot' = plot, arcDb' = arcDb, arcLock' = arcLock, BotSame(bot')
  PROVE  Based'
  <1>1. TaskBase(plot.tables, bot, arcTask[Loader], arcLock, Job(t), t, arcTask[t])
    BY BaseOf
  <1>. DEFINE drops == RowsOf(InStore(arcTask[t].mode)) \ rows
              w == [NoWrite EXCEPT !.cells = Whole(rows), !.drops = drops]
              q == [arcTask[t] EXCEPT !.goal = "save", !.row = row, !.write = w]
  <1>2. SetTask(t, Asking(t, q))
    BY DEF Replace
  <1>3. DOMAIN w = WriteFields /\ w.cells = Whole(rows)
    BY DEF NoWrite, WriteFields
  <1>. HIDE DEF w
  <1>4. DOMAIN q = TaskFields /\ q.goal = "save" /\ q.write = w /\ q.got = arcTask[t].got
    BY <1>1 DEF TaskBase, TaskShape, TaskFields
  <1>. HIDE DEF q
  <1>5. TaskShape(q)
    BY <1>1, <1>3, <1>4, WholeRows DEF TaskBase, TaskShape
  <1>6. AskBase(plot.tables, bot, arcTask[Loader], arcLock, Job(t), t, q)
    BY <1>1, <1>4, <1>5 DEF AskBase, TaskBase, Outside, Locking, Capturing, Removing
  <1>. QED  BY <1>2, <1>6, BaseAsk

LEMMA BaseReadRows ==
  ASSUME Based, NEW t \in DOMAIN arcTask, ReadRows(t)
  PROVE  Based'
  <1>. DEFINE all == RowsOf(InStore(arcTask[t].mode))
              rows == Bounded(all, NoRow)
  <1>1. /\ plot' = plot /\ arcDb' = arcDb /\ arcTask[t].pc = "read"
        /\ bot' = bot \/ \E h : bot' = [bot EXCEPT !.handled = h]
        /\ Job(t) \in Locking
    BY DEF ReadRows, At, Captures, Removes, Locking, Capturing, Removing
  <1>2. BotSame(bot')
    BY <1>1, HandlingSame
  <1>3. DbShape(arcDb)
    BY BaseOf
  <1>4. IsFiniteSet(rows)
    BY <1>3, InStoreRows, BoundedIsIn, SubsetIsFinite
  <1>5. \/ ArchiveLeave(t)
        \/ arcLock' = arcLock /\ Replace(t, rows \ Victims(t, rows), NoRow)
        \/ arcLock' = arcLock /\ \E row : Replace(t, WithRow(rows, row), row)
    BY DEF ReadRows
  <1>. HIDE DEF rows
  <1>6. CASE ArchiveLeave(t)
    BY <1>1, <1>2, <1>3, <1>6, BaseLeave
  <1>7. CASE arcLock' = arcLock /\ Replace(t, rows \ Victims(t, rows), NoRow)
    <2>1. IsFiniteSet(rows \ Victims(t, rows))
      BY <1>4, SubsetIsFinite
    <2>. QED  BY <1>1, <1>2, <1>7, <2>1, BaseReplace
  <1>8. CASE arcLock' = arcLock /\ \E row : Replace(t, WithRow(rows, row), row)
    <2>1. PICK row : Replace(t, WithRow(rows, row), row)
      BY <1>8
    <2>2. IsFiniteSet(rows \union {row})
      BY <1>4, FS_AddElement
    <2>3. IsFiniteSet(WithRow(rows, row))
      BY <2>2, WithRowIsIn, SubsetIsFinite
    <2>. QED  BY <1>1, <1>2, <1>8, <2>1, <2>3, BaseReplace
  <1>. QED  BY <1>5, <1>6, <1>7, <1>8

(* A write is tried, and the task is over. *)
LEMMA BaseSave ==
  ASSUME Based, NEW t \in DOMAIN arcTask, NEW w, NEW sure \in BOOLEAN, Attempt(w, sure),
         DOMAIN w.cells = Shards, IsFiniteSet(RowsOf(w.cells)),
         w.what \in {"entries", "prune", "shards"},
         ArchiveLeave(t), plot' = plot, bot' = bot
  PROVE  Based'
  <1>1. DbShape(arcDb)
    BY BaseOf
  <1>2. \A db \in {arcDb, Landed(w)} \union Torn(w) :
            DbShape(db) /\ (arcDb.cfg # "none" => db.cfg # "none")
    BY <1>1, WriteKeepsShape
  <1>3. arcDb' \in {arcDb, Landed(w)} \union Torn(w)
    BY AttemptedWrite
  <1>4. DbShape(arcDb') /\ (arcDb.cfg # "none" => arcDb'.cfg # "none")
    BY <1>2, <1>3
  <1>5. BotSame(bot')
    BY HandlingSame
  <1>. QED  BY <1>4, <1>5, BaseLeave

(* What replaces the rows, for the store in use. *)
RowsWrite(q) ==
    IF q.mode = "dedicated" THEN [q.write EXCEPT !.what = "entries"]
    ELSE [q.write EXCEPT !.what = "shards", !.cells = Split(RowsOf(q.write.cells), q.row)]

LEMMA RowsWriteIs ==
  ASSUME NEW q, TaskShape(q)
  PROVE  LET w == RowsWrite(q)
         IN /\ DOMAIN w.cells = Shards /\ IsFiniteSet(RowsOf(w.cells))
            /\ w.what = IF q.mode = "dedicated" THEN "entries" ELSE "shards"
            /\ w.cells = IF q.mode = "dedicated" THEN q.write.cells ELSE Split(RowsOf(q.write.cells), q.row)
            /\ w.drops = q.write.drops
  <1>. DEFINE w == RowsWrite(q)
  <1>1. DOMAIN q.write = WriteFields
    BY DEF TaskShape
  <1>2. /\ w.what = IF q.mode = "dedicated" THEN "entries" ELSE "shards"
        /\ w.cells = IF q.mode = "dedicated" THEN q.write.cells ELSE Split(RowsOf(q.write.cells), q.row)
        /\ w.drops = q.write.drops
    BY <1>1 DEF RowsWrite, WriteFields
  <1>. HIDE DEF w
  <1>3. DOMAIN w.cells = Shards /\ IsFiniteSet(RowsOf(w.cells))
    BY <1>2, SplitRows, SubsetIsFinite DEF TaskShape
  <1>. QED  BY <1>2, <1>3 DEF w

LEMMA BaseSaveRows ==
  ASSUME Based, NEW t \in DOMAIN arcTask, SaveRows(t)
  PROVE  Based'
  <1>1. TaskShape(arcTask[t])
    BY BaseOf DEF TaskBase
  <1>. DEFINE w == RowsWrite(arcTask[t])
  <1>2. \E sure \in BOOLEAN : Attempt(w, sure)
    BY DEF SaveRows, RowsWrite
  <1>3. ArchiveLeave(t) /\ plot' = plot /\ bot' = bot
    BY DEF SaveRows
  <1>4. /\ DOMAIN w.cells = Shards /\ IsFiniteSet(RowsOf(w.cells))
        /\ w.what \in {"entries", "prune", "shards"}
    BY <1>1, RowsWriteIs
  <1>. HIDE DEF w
  <1>. QED  BY <1>2, <1>3, <1>4, BaseSave

LEMMA BaseChangeBegin ==
  ASSUME Based, NEW t \in DOMAIN arcTask, ChangeBegin(t)
  PROVE  Based'
  <1>1. /\ TaskBase(plot.tables, bot, arcTask[Loader], arcLock, Job(t), t, arcTask[t])
        /\ DbShape(arcDb) /\ bot.doc \in Docs
    BY BaseOf
  <1>2. Job(t) = "change" /\ plot' = plot /\ arcDb' = arcDb /\ bot' = bot
    BY DEF ChangeBegin
  <1>3. BotSame(bot')
    BY <1>2, HandlingSame
  <1>4. ImportSettled(plot.tables, bot, arcTask[Loader])
    BY SettledOnceServed DEF ChangeBegin
  <1>. DEFINE w == [NoWrite EXCEPT !.doc = Changed(bot.doc)]
              q == [arcTask[t] EXCEPT !.goal = "save", !.write = w]
  <1>5. ArchiveLeave(t) \/ (SetTask(t, Asking(t, q)) /\ arcLock' = arcLock)
    BY DEF ChangeBegin
  <1>6. DOMAIN w = WriteFields /\ w.cells = Empty /\ w.doc = Changed(bot.doc)
    BY NoRows DEF NoWrite, WriteFields
  <1>. HIDE DEF w
  <1>7. DOMAIN q = TaskFields /\ q.goal = "save" /\ q.write = w /\ q.got = arcTask[t].got
    BY <1>1 DEF TaskBase, TaskShape, TaskFields
  <1>. HIDE DEF q
  <1>8. TaskShape(q)
    BY <1>1, <1>6, <1>7, NoRows DEF TaskBase, TaskShape
  <1>9. q.write.doc \in Docs
    BY <1>1, <1>6, <1>7, ChangedTwice
  <1>10. AskBase(plot.tables, bot, arcTask[Loader], arcLock, Job(t), t, q)
    BY <1>2, <1>4, <1>7, <1>8, <1>9 DEF AskBase, ImportSettled, Locking, Capturing, Removing
  <1>11. CASE ArchiveLeave(t)
    BY <1>1, <1>2, <1>3, <1>11, BaseLeave
  <1>12. CASE SetTask(t, Asking(t, q)) /\ arcLock' = arcLock
    BY <1>2, <1>3, <1>10, <1>12, BaseAsk
  <1>. QED  BY <1>5, <1>11, <1>12

LEMMA BaseSaveSettings ==
  ASSUME Based, NEW t \in DOMAIN arcTask, SaveSettings(t)
  PROVE  Based'
  <1>. DEFINE what == IF arcTask[t].mode = "dedicated" THEN "cfg" ELSE "doc"
              w == [arcTask[t].write EXCEPT !.what = what]
  <1>1. /\ TaskBase(plot.tables, bot, arcTask[Loader], arcLock, Job(t), t, arcTask[t])
        /\ BotBase(plot.tables, arcDb, bot, arcTask[Loader])
        /\ DbShape(arcDb) /\ bot.doc \in Docs
    BY BaseOf
  <1>2. PICK sure \in BOOLEAN : /\ Attempt(w, sure)
                                /\ bot' = IF sure THEN [bot EXCEPT !.doc = w.doc] ELSE bot
    BY DEF SaveSettings
  <1>3. Job(t) = "change" /\ arcTask[t].pc = "save" /\ ArchiveLeave(t) /\ plot' = plot
    BY DEF SaveSettings, At
  <1>4. DOMAIN arcTask[t].write = WriteFields /\ arcTask[t].write.doc \in Docs
        /\ DOMAIN arcTask[t].write.cells = Shards /\ IsFiniteSet(RowsOf(arcTask[t].write.cells))
    BY <1>1, <1>3 DEF TaskBase, TaskShape, TaskStages, Outside
  <1>5. /\ w.doc \in Docs /\ DOMAIN w.cells = Shards /\ IsFiniteSet(RowsOf(w.cells))
        /\ w.what \in {"entries", "prune", "shards", "cfg", "doc"}
    BY <1>4 DEF WriteFields
  <1>. HIDE DEF w
  <1>6. \A db \in {arcDb, Landed(w)} \union Torn(w) :
            DbShape(db) /\ (arcDb.cfg # "none" => db.cfg # "none")
    BY <1>1, <1>5, WriteKeepsShape
  <1>7. DbShape(arcDb') /\ (arcDb.cfg # "none" => arcDb'.cfg # "none")
    BY <1>2, <1>6, AttemptedWrite
  <1>8. /\ DOMAIN bot' = BotFields /\ bot'.mode \in {"none", StoreOf(plot.tables)} /\ bot'.doc \in Docs
        /\ bot'.imported = bot.imported /\ bot'.loaded = bot.loaded /\ bot'.paused = bot.paused
    BY <1>1, <1>2, <1>5 DEF BotBase, BotFields
  <1>9. bot'.imported => arcDb'.cfg # "none"
    BY <1>1, <1>7, <1>8 DEF BotBase
  <1>10. t # Loader
    BY <1>3, JobsAre
  <1>11. PICK pc \in Outside : SetTask(t, [IdleTask EXCEPT !.pc = pc])
    BY <1>3, Leaves
  <1>12. \A u \in DOMAIN arcTask \ {t, Loader} : arcLock = u => arcLock' = u
    BY <1>3, Leaves
  <1>13. TaskBase(plot.tables, bot', arcTask[Loader], arcLock', Job(t), t, [IdleTask EXCEPT !.pc = pc])
    BY <1>3, IdleBase
  <1>. QED  BY <1>3, <1>7, <1>8, <1>9, <1>10, <1>11, <1>12, <1>13, BaseStep

LEMMA BaseSweepBegin ==
  ASSUME Based, NEW t \in DOMAIN arcTask, SweepBegin(t)
  PROVE  Based'
  <1>1. TaskBase(plot.tables, bot, arcTask[Loader], arcLock, Job(t), t, arcTask[t])
    BY BaseOf
  <1>2. /\ Job(t) = "sweep" /\ plot' = plot /\ arcDb' = arcDb /\ bot' = bot /\ arcLock' = arcLock
        /\ SetTask(t, Asking(t, arcTask[t]))
    BY DEF SweepBegin
  <1>3. BotSame(bot')
    BY <1>2, HandlingSame
  <1>4. ImportSettled(plot.tables, bot, arcTask[Loader])
    BY SettledOnceServed DEF SweepBegin
  <1>5. AskBase(plot.tables, bot, arcTask[Loader], arcLock, Job(t), t, arcTask[t])
    BY <1>1, <1>2, <1>4 DEF AskBase, TaskBase, TaskStages, Locking, Capturing, Removing
  <1>. QED  BY <1>2, <1>3, <1>5, BaseAsk

(* A sweep goes on. *)
LEMMA BaseSweeping ==
  ASSUME Based, NEW t \in DOMAIN arcTask, Job(t) = "sweep", arcTask[t].pc \in {"read", "retention"},
         NEW r, SetTask(t, r), TaskShape(r), r.pc \in {"retention", "save"}, r.mode = arcTask[t].mode,
         r.goal = "read", r.pc = "save" => r.write.what = (IF plot.tables THEN "prune" ELSE "shards"),
         plot' = plot, arcDb' = arcDb, bot' = bot, arcLock' = arcLock
  PROVE  Based'
  <1>1. TaskBase(plot.tables, bot, arcTask[Loader], arcLock, Job(t), t, arcTask[t]) /\ DbShape(arcDb)
    BY BaseOf
  <1>2. BotSame(bot')
    BY HandlingSame
  <1>3. arcTask[t].mode = StoreOf(plot.tables) /\ ImportSettled(plot.tables, bot, arcTask[Loader])
    BY <1>1 DEF TaskBase, Talking, Outside
  <1>4. TaskStages(Job(t), r)
    BY DEF TaskStages, Outside, Importing, Locking, Capturing, Removing
  <1>5. TaskBase(plot.tables, bot, arcTask[Loader], arcLock, Job(t), t, r)
    BY <1>3, <1>4 DEF TaskBase, Importing, Locking, Capturing, Removing
  <1>6. t # Loader
    BY JobsAre
  <1>. QED  BY <1>1, <1>2, <1>5, <1>6, BaseMove

LEMMA BaseSweepRead ==
  ASSUME Based, NEW t \in DOMAIN arcTask, SweepRead(t)
  PROVE  Based'
  <1>1. /\ TaskBase(plot.tables, bot, arcTask[Loader], arcLock, Job(t), t, arcTask[t]) /\ DbShape(arcDb)
    BY BaseOf
  <1>2. /\ Job(t) = "sweep" /\ arcTask[t].pc = "read" /\ plot' = plot /\ arcDb' = arcDb /\ bot' = bot
    BY DEF SweepRead, At
  <1>. DEFINE got == InStore(arcTask[t].mode)
              r == [arcTask[t] EXCEPT !.pc = "retention", !.got = got]
  <1>3. ArchiveLeave(t) \/ (SetTask(t, r) /\ arcLock' = arcLock)
    BY DEF SweepRead
  <1>4. DOMAIN got = Shards /\ IsFiniteSet(RowsOf(got))
    BY <1>1, InStoreRows
  <1>. HIDE DEF got
  <1>5. /\ DOMAIN r = TaskFields /\ r.pc = "retention" /\ r.got = got /\ r.mode = arcTask[t].mode
        /\ r.goal = arcTask[t].goal /\ r.write = arcTask[t].write
    BY <1>1 DEF TaskBase, TaskShape, TaskFields
  <1>. HIDE DEF r
  <1>6. TaskShape(r) /\ r.goal = "read"
    BY <1>1, <1>2, <1>4, <1>5 DEF TaskBase, TaskShape, TaskStages
  <1>7. BotSame(bot')
    BY <1>2, HandlingSame
  <1>8. CASE ArchiveLeave(t)
    BY <1>1, <1>2, <1>7, <1>8, BaseLeave
  <1>9. CASE SetTask(t, r) /\ arcLock' = arcLock
    BY <1>2, <1>5, <1>6, <1>9, BaseSweeping
  <1>. QED  BY <1>3, <1>8, <1>9

LEMMA BaseSweepRetention ==
  ASSUME Based, NEW t \in DOMAIN arcTask, SweepRetention(t)
  PROVE  Based'
  <1>1. /\ TaskBase(plot.tables, bot, arcTask[Loader], arcLock, Job(t), t, arcTask[t]) /\ DbShape(arcDb)
    BY BaseOf
  <1>2. /\ arcTask[t].pc = "retention" /\ plot' = plot /\ arcDb' = arcDb /\ bot' = bot
    BY DEF SweepRetention, At
  <1>3. Job(t) = "sweep"
    <2>1. Job(t) \in Locking \union {"load", "change", "sweep"}
      BY JobsAre
    <2>. QED  BY <1>1, <1>2, <2>1 DEF TaskBase, TaskStages, Outside, Importing
  <1>. DEFINE got == arcTask[t].got
              what == IF arcTask[t].mode = "dedicated" THEN "prune" ELSE "shards"
  <1>4. \/ ArchiveLeave(t)
        \/ \E expired : /\ arcLock' = arcLock
                        /\ SetTask(t, [arcTask[t] EXCEPT !.pc = "save", !.write = [NoWrite EXCEPT
                                         !.what = what,
                                         !.cells = [i \in Shards |-> got[i] \ expired],
                                         !.drops = expired]])
    BY DEF SweepRetention
  <1>5. BotSame(bot')
    BY <1>2, HandlingSame
  <1>6. CASE ArchiveLeave(t)
    BY <1>1, <1>2, <1>5, <1>6, BaseLeave
  <1>7. ASSUME NEW expired, arcLock' = arcLock,
               SetTask(t, [arcTask[t] EXCEPT !.pc = "save", !.write = [NoWrite EXCEPT
                             !.what = what,
                             !.cells = [i \in Shards |-> got[i] \ expired],
                             !.drops = expired]])
        PROVE  Based'
    <2>. DEFINE cells == [i \in Shards |-> got[i] \ expired]
                w == [NoWrite EXCEPT !.what = what, !.cells = cells, !.drops = expired]
                r == [arcTask[t] EXCEPT !.pc = "save", !.write = w]
    <2>1. SetTask(t, r)
      BY <1>7
    <2>2. DOMAIN cells = Shards /\ RowsOf(cells) \subseteq RowsOf(got)
      BY DEF RowsOf
    <2>. HIDE DEF cells
    <2>3. DOMAIN w = WriteFields /\ w.what = what /\ w.cells = cells
      BY DEF NoWrite, WriteFields
    <2>. HIDE DEF w
    <2>4. /\ DOMAIN r = TaskFields /\ r.pc = "save" /\ r.got = got /\ r.mode = arcTask[t].mode
          /\ r.goal = arcTask[t].goal /\ r.write = w
      BY <1>1 DEF TaskBase, TaskShape, TaskFields
    <2>. HIDE DEF r
    <2>5. TaskShape(r)
      BY <1>1, <2>2, <2>3, <2>4, SubsetIsFinite DEF TaskBase, TaskShape
    <2>6. what = (IF plot.tables THEN "prune" ELSE "shards")
      BY <1>1, <1>2 DEF TaskBase, Talking, StoreOf
    <2>7. r.goal = "read"
      BY <1>1, <1>3, <2>4 DEF TaskBase, TaskStages
    <2>. QED  BY <1>2, <1>3, <1>7, <2>1, <2>3, <2>4, <2>5, <2>6, <2>7, BaseSweeping
  <1>. QED  BY <1>4, <1>6, <1>7

LEMMA BaseSweepSave ==
  ASSUME Based, NEW t \in DOMAIN arcTask, SweepSave(t)
  PROVE  Based'
  <1>1. /\ TaskBase(plot.tables, bot, arcTask[Loader], arcLock, Job(t), t, arcTask[t])
    BY BaseOf
  <1>2. /\ Job(t) = "sweep" /\ arcTask[t].pc = "save" /\ ArchiveLeave(t) /\ plot' = plot /\ bot' = bot
        /\ \E sure \in BOOLEAN : Attempt(arcTask[t].write, sure)
    BY DEF SweepSave, At
  <1>. DEFINE w == arcTask[t].write
  <1>3. /\ DOMAIN w.cells = Shards /\ IsFiniteSet(RowsOf(w.cells))
        /\ w.what \in {"entries", "prune", "shards"}
    BY <1>1, <1>2 DEF TaskBase, TaskShape
  <1>. QED  BY <1>2, <1>3, BaseSave

LEMMA BaseInit == ArchiveInit => BaseInv
  <1>. SUFFICES ASSUME ArchiveInit PROVE BaseInv
    OBVIOUS
  <1>1. /\ plot \in Plots /\ arcDb = plot.db /\ bot = FreshBot
        /\ arcTask = [t \in ArchiveTasks \union {Loader} |-> IdleTask]
        /\ arcLog = [kept |-> plot.rows, dropped |-> {}, removed |-> {}, doc |-> Effective, why |-> {}]
    BY DEF ArchiveInit
  <1>2. DbShape(arcDb)
    BY <1>1, PlotAssumption DEF DbShape, DbFields
  <1>3. /\ DOMAIN bot = BotFields /\ bot.mode = "none" /\ bot.doc \in Docs /\ ~bot.imported
        /\ ~bot.loaded /\ ~bot.paused
    BY <1>1 DEF FreshBot, BotFields, Docs
  <1>4. BotBase(plot.tables, arcDb, bot, arcTask[Loader])
    BY <1>3 DEF BotBase
  <1>5. Effective \in Docs
    BY <1>2 DEF Effective, Sanitized, Docs, DbShape
  <1>6. LogInv
    BY <1>1, <1>5 DEF LogInv, LogFields
  <1>7. ASSUME NEW t \in DOMAIN arcTask
        PROVE  TaskBase(plot.tables, bot, arcTask[Loader], arcLock, Job(t), t, arcTask[t])
    <2>1. Job(t) \in Locking \union {"load", "change", "sweep"}
      <3>1. CASE t = Loader
        BY <3>1 DEF Job
      <3>2. CASE t # Loader
        <4>1. Job(t) \in ArchiveJobs
          BY <1>1, <3>2, PlotAssumption DEF Job
        <4>. QED  BY <4>1 DEF ArchiveJobs, Locking, Capturing, Removing
      <3>. QED  BY <3>1, <3>2
    <2>2. [IdleTask EXCEPT !.pc = "new"] = IdleTask /\ "new" \in Outside
      BY DEF IdleTask, Outside
    <2>3. TaskBase(plot.tables, bot, arcTask[Loader], arcLock, Job(t), t, [IdleTask EXCEPT !.pc = "new"])
      BY <2>1, <2>2, IdleBase
    <2>. QED  BY <1>1, <2>2, <2>3
  <1>8. DOMAIN arcTask = ArchiveTasks \union {Loader}
    BY <1>1
  <1>. QED  BY <1>1, <1>2, <1>3, <1>4, <1>6, <1>7, <1>8 DEF BaseInv, Based

(* One step, until one that leads astray. *)
LEMMA BasedStep ==
  ASSUME LogInv, Based, ArchiveNext, ~Astray'
  PROVE  Based'
  <1>1. ASSUME NEW t \in DOMAIN arcTask, Probe(t) \/ ImportRead(t) \/ ImportWrite(t)
        PROVE  Based'
    BY <1>1, BaseProbe, BaseImportRead, BaseImportWrite
  <1>2. ASSUME NEW t \in ArchiveTasks, TaskStep(t)
        PROVE  Based'
    <2>1. t \in DOMAIN arcTask
      BY DEF Based
    <2>2. CASE Receive(t) \/ RemoveBegin(t) \/ LockTaken(t) \/ ReadRows(t) \/ SaveRows(t)
      BY <2>1, <2>2, BaseReceive, BaseRemoveBegin, BaseLockTaken, BaseReadRows, BaseSaveRows
    <2>3. CASE ChangeBegin(t) \/ SaveSettings(t)
      BY <2>1, <2>3, BaseChangeBegin, BaseSaveSettings
    <2>4. CASE SweepBegin(t) \/ SweepRead(t) \/ SweepRetention(t) \/ SweepSave(t)
      BY <2>1, <2>4, BaseSweepBegin, BaseSweepRead, BaseSweepRetention, BaseSweepSave
    <2>. QED  BY <1>2, <2>2, <2>3, <2>4 DEF TaskStep
  <1>3. CASE LoadBegin \/ LoadRead
    BY <1>3, BaseLoadBegin, BaseLoadRead
  <1>4. CASE LateLands
    <2>1. Blame({"late write"})
      BY <1>4 DEF LateLands
    <2>. QED  BY <2>1, BlamedIsAstray
  <1>5. CASE PauseEnds \/ Refresh \/ ArchiveTick
    BY <1>5, BaseMemory
  <1>6. CASE ArchiveRestart
    BY <1>6, BaseRestart
  <1>. QED  BY <1>1, <1>2, <1>3, <1>4, <1>5, <1>6 DEF ArchiveNext, ArchiveStep

LEMMA BaseInvStep == BaseInv /\ [ArchiveNext]_archiveVars => BaseInv'
  <1>. SUFFICES ASSUME BaseInv, [ArchiveNext]_archiveVars PROVE BaseInv'
    OBVIOUS
  <1>1. CASE UNCHANGED archiveVars
    <2>1. Based => Based'
      <3>1. \A t : Job(t)' = Job(t)
        BY <1>1 DEF archiveVars, Job
      <3>. QED  BY <1>1, <3>1 DEF archiveVars, Based
    <2>. QED  BY <1>1, <2>1 DEF archiveVars, BaseInv, LogInv, Astray
  <1>2. CASE ArchiveNext
    <2>1. LogInv' /\ arcLog.why \subseteq arcLog'.why
      BY <1>2, LogSteps DEF BaseInv
    <2>2. Astray => Astray'
      BY <2>1 DEF Astray
    <2>3. ~Astray' => Based'
      BY <1>2, <2>2, BasedStep DEF BaseInv
    <2>. QED  BY <2>1, <2>3 DEF BaseInv
  <1>. QED  BY <1>1, <1>2

-----------------------------------------------------------------------------
(* Ranks: fewer rows rank no higher, and rows that fit are all in some shard. *)

LEMMA RankIsNat ==
  ASSUME NEW rows, IsFiniteSet(rows), NEW new, NEW row
  PROVE  Rank(rows, new, row) \in Nat
  <1>1. {r \in rows : r = new \/ r.n > row.n} \subseteq rows
    OBVIOUS
  <1>2. IsFiniteSet({r \in rows : r = new \/ r.n > row.n})
    BY <1>1, FS_Subset
  <1>. QED  BY <1>2, FS_CardinalityType DEF Rank

LEMMA FewerRankNoHigher ==
  ASSUME NEW rows, IsFiniteSet(rows), NEW fewer, fewer \subseteq rows, NEW new, NEW row
  PROVE  Rank(fewer, new, row) <= Rank(rows, new, row)
  <1>. DEFINE Above(R) == {r \in R : r = new \/ r.n > row.n}
  <1>1. Above(fewer) \subseteq Above(rows) /\ Above(rows) \subseteq rows
    OBVIOUS
  <1>2. IsFiniteSet(Above(rows))
    BY <1>1, FS_Subset
  <1>3. Cardinality(Above(fewer)) <= Cardinality(Above(rows))
    BY <1>1, <1>2, FS_Subset
  <1>. QED  BY <1>3 DEF Rank

LEMMA BoundedFits ==
  ASSUME NEW rows, IsFiniteSet(rows), NEW new, NEW fewer, fewer \subseteq Bounded(rows, new)
  PROVE  Fits(fewer, new)
  <1>. SUFFICES ASSUME NEW row \in fewer
                PROVE  Rank(fewer, new, row) < ShardCount * RowsPerShard
    BY DEF Fits
  <1>1. fewer \subseteq rows /\ IsFiniteSet(fewer)
    BY BoundedIsIn, SubsetIsFinite
  <1>2. Rank(rows, new, row) < ShardCount * RowsPerShard
    BY DEF Bounded
  <1>3. Rank(fewer, new, row) <= Rank(rows, new, row)
    BY <1>1, FewerRankNoHigher
  <1>4. Rank(fewer, new, row) \in Nat /\ Rank(rows, new, row) \in Nat
    BY <1>1, RankIsNat
  <1>5. ShardCount * RowsPerShard \in Nat
    BY ArchiveAssumption
  <1>. QED  BY <1>2, <1>3, <1>4, <1>5

LEMMA ShardOfRank ==
  ASSUME NEW k \in Nat, NEW a \in Nat \ {0}, NEW b \in Nat \ {0}, k < a * b
  PROVE  (k \div b) + 1 \in 1 .. a
  <1>. DEFINE d == k \div b
  <1>1. d \in Int /\ k = b * d + (k % b) /\ k % b \in 0 .. b - 1
    OBVIOUS
  <1>2. d >= 0
    BY <1>1
  <1>3. d < a
    <2>1. SUFFICES ASSUME d >= a PROVE FALSE
      BY <1>1
    <2>2. b * d >= b * a
      BY <1>1, <2>1
    <2>. QED  BY <1>1, <2>2
  <1>. QED  BY <1>1, <1>2, <1>3

LEMMA SplitKeepsAll ==
  ASSUME NEW rows, IsFiniteSet(rows), NEW new, Fits(rows, new)
  PROVE  rows \subseteq RowsOf(Split(rows, new))
  <1>. SUFFICES ASSUME NEW row \in rows
                PROVE  \E i \in Shards : row \in Split(rows, new)[i]
    BY DEF RowsOf
  <1>. DEFINE k == Rank(rows, new, row)
              i == (k \div RowsPerShard) + 1
  <1>1. k \in Nat /\ k < ShardCount * RowsPerShard
    BY RankIsNat DEF Fits
  <1>2. i \in Shards
    BY <1>1, ArchiveAssumption, ShardOfRank DEF Shards
  <1>3. k \div RowsPerShard \in Int
    BY <1>1, ArchiveAssumption
  <1>4. k \div RowsPerShard = i - 1
    BY <1>3
  <1>. QED  BY <1>2, <1>4 DEF Split

(* A new row has the first place. *)
LEMMA WithRowHasIt ==
  ASSUME NEW rows, IsFiniteSet(rows), NEW row
  PROVE  row \in WithRow(rows, row) /\ Fits(WithRow(rows, row), row)
  <1>1. PICK fewer : fewer \subseteq rows /\ WithRow(rows, row) = Bounded(fewer \union {row}, row)
    BY DEF WithRow
  <1>2. IsFiniteSet(fewer \union {row})
    BY <1>1, SubsetIsFinite, FS_AddElement
  <1>3. Rank(fewer \union {row}, row, row) = 0
    BY DEF Rank
  <1>4. 0 < ShardCount * RowsPerShard
    BY ArchiveAssumption
  <1>5. row \in WithRow(rows, row)
    BY <1>1, <1>3, <1>4 DEF Bounded
  <1>. QED  BY <1>1, <1>2, <1>5, BoundedFits

-----------------------------------------------------------------------------
(* What a task carries stays right when fewer rows are live, and the store    *)
(* keeps what the imports under way have seen.                                *)

LEMMA KeptOf ==
  ASSUME Kept, NEW t \in DOMAIN arcTask
  PROVE  /\ KeptTask(arcDb, Live(arcLog), Job(t), arcTask[t])
         /\ ClassTask(arcDb, OwnLike(Effective), arcClock, Job(t), arcTask[t])
         /\ KeptStore(plot.tables, arcDb, Live(arcLog))
  BY DEF Kept

LEMMA CalmIsNotAstray == ~Calm \/ ~Astray
  BY DEF Calm, Astray

(* What holds of a task that carries nothing. *)
Bare(job, q) == /\ q.pc \notin {"entries", "shards", "rows", "document", "settings"}
                 /\ q.goal = "read" /\ ~(job = "sweep" /\ q.pc = "save")
LEMMA PlainIsKept ==
  ASSUME NEW db, NEW live, NEW own, NEW clock, NEW job, NEW q, Bare(job, q)
  PROVE  KeptTask(db, live, job, q) /\ ClassTask(db, own, clock, job, q)
  BY DEF Bare, KeptTask, ClassTask

(* One task moves; stores, history and clock stay. *)
LEMMA KeptMove ==
  ASSUME Based, Kept, NEW t \in DOMAIN arcTask, NEW q, SetTask(t, q), plot' = plot,
         arcDb' = arcDb, Live(arcLog') = Live(arcLog), arcClock' = arcClock,
         bot'.loaded => (OwnLike(bot'.doc) <=> OwnLike(Effective)),
         KeptTask(arcDb, Live(arcLog), Job(t), q),
         ClassTask(arcDb, OwnLike(Effective), arcClock, Job(t), q)
  PROVE  Kept'
  <1>1. DOMAIN arcTask' = DOMAIN arcTask /\ arcTask'[t] = q
        /\ \A u \in DOMAIN arcTask \ {t} : arcTask'[u] = arcTask[u]
    BY DEF SetTask
  <1>2. Effective' = Effective /\ \A u : Job(u)' = Job(u)
    BY DEF Effective, Job
  <1>3. ASSUME NEW u \in DOMAIN arcTask
        PROVE  /\ KeptTask(arcDb, Live(arcLog), Job(u), arcTask'[u])
               /\ ClassTask(arcDb, OwnLike(Effective), arcClock, Job(u), arcTask'[u])
    BY <1>1, KeptOf
  <1>4. KeptStore(plot.tables, arcDb, Live(arcLog))
    BY DEF Kept
  <1>. QED  BY <1>1, <1>2, <1>3, <1>4 DEF Kept

LEMMA LoadedKept ==
  ASSUME Kept, bot'.loaded => bot.loaded, bot'.doc = bot.doc
  PROVE  bot'.loaded => (OwnLike(bot'.doc) <=> OwnLike(Effective))
  BY DEF Kept

LEMMA LiveAfterBlame ==
  ASSUME LogInv, NEW reasons, Blame(reasons)
  PROVE  Live(arcLog') = Live(arcLog)
  <1>1. arcLog'.kept = arcLog.kept /\ arcLog'.dropped = arcLog.dropped /\ arcLog'.removed = arcLog.removed
    BY DEF Blame, LogInv, LogFields
  <1>. QED  BY <1>1 DEF Live

LEMMA KeptLeave ==
  ASSUME Based, Kept, NEW t \in DOMAIN arcTask, ArchiveLeave(t), plot' = plot,
         arcDb' = arcDb, Live(arcLog') = Live(arcLog), arcClock' = arcClock,
         bot'.loaded => (OwnLike(bot'.doc) <=> OwnLike(Effective))
  PROVE  Kept'
  <1>1. PICK pc \in Outside : SetTask(t, [IdleTask EXCEPT !.pc = pc])
    BY Leaves
  <1>. DEFINE r == [IdleTask EXCEPT !.pc = pc]
  <1>2. r.pc = pc /\ r.goal = "read"
    BY DEF IdleTask
  <1>. HIDE DEF r
  <1>3. Bare(Job(t), r)
    BY <1>2 DEF Bare, Outside
  <1>4. SetTask(t, r)
    BY <1>1 DEF r
  <1>. QED  BY <1>3, <1>4, PlainIsKept, KeptMove

(* Asking for the store changes nothing of what is carried. *)
LEMMA AskingKeeps ==
  ASSUME NEW t, NEW q, DOMAIN q = TaskFields, q.goal \in {"read", "save"}
  PROVE  LET r == Asking(t, q)
         IN /\ r.pc \in {"probe", "marker", "read", "save"} /\ (r.pc = "save" => q.goal = "save")
            /\ DOMAIN r = TaskFields
            /\ r.goal = q.goal /\ r.write = q.write /\ r.row = q.row /\ r.got = q.got
  <1>1. CASE bot.mode = "none"
    BY <1>1 DEF Asking, TaskFields
  <1>2. CASE bot.mode # "none"
    <2>. DEFINE known == [q EXCEPT !.mode = bot.mode]
                pc == FirstStep(t, known)
    <2>1. /\ DOMAIN known = TaskFields /\ known.goal = q.goal /\ known.write = q.write
          /\ known.row = q.row /\ known.got = q.got
      BY DEF TaskFields
    <2>2. Asking(t, q) = [known EXCEPT !.pc = pc]
      BY <1>2 DEF Asking
    <2>. HIDE DEF known
    <2>3. pc \in {"marker", "read", "save"} /\ (pc = "save" => q.goal = "save")
      BY <2>1 DEF FirstStep
    <2>. HIDE DEF pc
    <2>. QED  BY <2>1, <2>2, <2>3 DEF TaskFields
  <1>. QED  BY <1>1, <1>2

(* A task whose turn comes before or after an import, and which carries what  *)
(* it may. *)
LEMMA CarriedIsKept ==
  ASSUME NEW db, NEW live, NEW own, NEW clock, NEW job, NEW q,
         q.pc \in {"probe", "marker", "read", "save"}, q.pc = "save" => q.goal = "save",
         job = "sweep" => q.goal = "read",
         job = "change" /\ q.goal = "save" => (OwnLike(q.write.doc) <=> own),
         job \in Locking /\ q.goal = "save" =>
            LET rows == RowsOf(q.write.cells)
            IN /\ live \subseteq rows \union q.write.drops
               /\ q.row = NoRow \/ (job \in Capturing /\ q.row \in rows)
               /\ Fits(rows, q.row)
  PROVE  KeptTask(db, live, job, q) /\ ClassTask(db, own, clock, job, q)
  <1>1. KeptTask(db, live, job, q)
    BY DEF KeptTask
  <1>2. ClassTask(db, own, clock, job, q)
    BY DEF ClassTask
  <1>. QED  BY <1>1, <1>2

LEMMA KeptProbe ==
  ASSUME LogInv, Based, Kept, NEW t \in DOMAIN arcTask, Probe(t)
  PROVE  Kept'
  <1>1. PICK mode \in {"dedicated", "legacy"} :
           /\ bot' = bot \/ bot' = [bot EXCEPT !.mode = mode]
           /\ SetTask(t, [[arcTask[t] EXCEPT !.mode = mode] EXCEPT
                            !.pc = FirstStep(t, [arcTask[t] EXCEPT !.mode = mode])])
           /\ Blame(IF mode = TheStore THEN {} ELSE {"two stores"})
    BY DEF Probe
  <1>2. /\ TaskBase(plot.tables, bot, arcTask[Loader], arcLock, Job(t), t, arcTask[t])
        /\ BotBase(plot.tables, arcDb, bot, arcTask[Loader])
    BY BaseOf
  <1>3. arcTask[t].pc = "probe" /\ plot' = plot /\ arcDb' = arcDb /\ arcClock' = arcClock
    BY DEF Probe, At
  <1>. DEFINE q == [arcTask[t] EXCEPT !.mode = mode]
              pc == FirstStep(t, q)
              r == [q EXCEPT !.pc = pc]
  <1>4. /\ DOMAIN q = TaskFields /\ q.goal = arcTask[t].goal /\ q.write = arcTask[t].write
        /\ q.row = arcTask[t].row
    BY <1>2 DEF TaskBase, TaskShape, TaskFields
  <1>5. SetTask(t, r)
    BY <1>1
  <1>. HIDE DEF q
  <1>6. pc \in {"marker", "read", "save"} /\ (pc = "save" => q.goal = "save")
    BY <1>2, <1>4 DEF FirstStep, TaskBase
  <1>. HIDE DEF pc
  <1>7. r.pc = pc /\ r.goal = q.goal /\ r.write = q.write /\ r.row = q.row
    BY <1>4 DEF TaskFields
  <1>. HIDE DEF r
  <1>8. /\ KeptTask(arcDb, Live(arcLog), Job(t), arcTask[t])
        /\ ClassTask(arcDb, OwnLike(Effective), arcClock, Job(t), arcTask[t])
    BY KeptOf
  <1>9. Job(t) = "sweep" => r.goal = "read"
    BY <1>2, <1>3, <1>4, <1>7 DEF TaskBase, TaskStages
  <1>10. Job(t) = "change" /\ r.goal = "save" => (OwnLike(r.write.doc) <=> OwnLike(Effective))
    BY <1>4, <1>7, <1>8 DEF ClassTask
  <1>11. Job(t) \in Locking /\ r.goal = "save" =>
            LET rows == RowsOf(r.write.cells)
            IN /\ Live(arcLog) \subseteq rows \union r.write.drops
               /\ r.row = NoRow \/ (Job(t) \in Capturing /\ r.row \in rows)
               /\ Fits(rows, r.row)
    BY <1>4, <1>7, <1>8 DEF KeptTask
  <1>12. r.pc \in {"probe", "marker", "read", "save"} /\ (r.pc = "save" => r.goal = "save")
    BY <1>6, <1>7
  <1>13. /\ KeptTask(arcDb, Live(arcLog), Job(t), r)
         /\ ClassTask(arcDb, OwnLike(Effective), arcClock, Job(t), r)
    BY <1>9, <1>10, <1>11, <1>12, CarriedIsKept
  <1>14. Live(arcLog') = Live(arcLog)
    BY <1>1, LiveAfterBlame
  <1>15. bot'.loaded = bot.loaded /\ bot'.doc = bot.doc
    BY <1>1, <1>2 DEF BotBase, BotFields
  <1>16. bot'.loaded => (OwnLike(bot'.doc) <=> OwnLike(Effective))
    BY <1>15, LoadedKept
  <1>. QED  BY <1>3, <1>5, <1>13, <1>14, <1>16, KeptMove

(* A task that carries nothing goes on without anything. *)
LEMMA KeptPlain ==
  ASSUME Based, Kept, NEW t \in DOMAIN arcTask, NEW r, SetTask(t, r), Bare(Job(t), r),
         plot' = plot, arcDb' = arcDb, arcLog' = arcLog, arcClock' = arcClock, BotSame(bot')
  PROVE  Kept'
  <1>1. bot'.loaded => (OwnLike(bot'.doc) <=> OwnLike(Effective))
    BY LoadedKept DEF BotSame
  <1>. QED  BY <1>1, PlainIsKept, KeptMove

LEMMA KeptBegins ==
  ASSUME Based, Kept, NEW t \in DOMAIN arcTask,
         Receive(t) \/ RemoveBegin(t) \/ LockTaken(t) \/ SweepBegin(t)
  PROVE  Kept'
  <1>1. /\ plot' = plot /\ arcDb' = arcDb /\ arcLog' = arcLog /\ arcClock' = arcClock
        /\ bot' = bot \/ \E h : bot' = [bot EXCEPT !.handled = h]
    BY DEF Receive, RemoveBegin, LockTaken, SweepBegin
  <1>2. BotSame(bot')
    BY <1>1, HandlingSame
  <1>3. TaskBase(plot.tables, bot, arcTask[Loader], arcLock, Job(t), t, arcTask[t])
    BY BaseOf
  <1>4. DOMAIN arcTask[t] = TaskFields
    BY <1>3 DEF TaskBase, TaskShape
  <1>5. \/ ArchiveLeave(t)
        \/ SetTask(t, [arcTask[t] EXCEPT !.pc = "lock"])
        \/ \E row : SetTask(t, [arcTask[t] EXCEPT !.pc = "lock", !.row = row])
        \/ SetTask(t, Asking(t, arcTask[t]))
    BY DEF Receive, RemoveBegin, LockTaken, SweepBegin, TaskTo
  <1>6. arcTask[t].goal = "read"
    <2>1. Job(t) \in Locking \union {"sweep"}
      <3>1. arcTask[t].pc = "lock" \/ Job(t) \in Locking \union {"sweep"}
        BY DEF Receive, RemoveBegin, LockTaken, SweepBegin, At, Captures, Removes,
               Locking, Capturing, Removing
      <3>2. Job(t) \in Locking \union {"load", "change", "sweep"}
        BY JobsAre
      <3>. QED  BY <1>3, <3>1, <3>2 DEF TaskBase, TaskStages, Outside, Importing
    <2>2. arcTask[t].pc \in {"new", "lock"}
      BY DEF Receive, RemoveBegin, LockTaken, SweepBegin, At
    <2>. QED  BY <1>3, <2>1, <2>2 DEF TaskBase, TaskStages, Outside
  <1>7. CASE ArchiveLeave(t)
    <2>1. bot'.loaded => (OwnLike(bot'.doc) <=> OwnLike(Effective))
      BY <1>2, LoadedKept DEF BotSame
    <2>. QED  BY <1>1, <1>7, <2>1, KeptLeave
  <1>8. ASSUME NEW r, SetTask(t, r),
               r = [arcTask[t] EXCEPT !.pc = "lock"]
               \/ \E row : r = [arcTask[t] EXCEPT !.pc = "lock", !.row = row]
        PROVE  Kept'
    <2>1. r.pc = "lock" /\ r.goal = arcTask[t].goal
      BY <1>4, <1>8 DEF TaskFields
    <2>2. Bare(Job(t), r)
      BY <1>6, <2>1 DEF Bare
    <2>. QED  BY <1>1, <1>2, <1>8, <2>2, KeptPlain
  <1>9. CASE SetTask(t, Asking(t, arcTask[t]))
    <2>. DEFINE r == Asking(t, arcTask[t])
    <2>1. r.pc \in {"probe", "marker", "read", "save"} /\ (r.pc = "save" => arcTask[t].goal = "save")
          /\ r.goal = arcTask[t].goal
      BY <1>4, <1>6, AskingKeeps
    <2>2. SetTask(t, r)
      BY <1>9
    <2>. HIDE DEF r
    <2>3. Bare(Job(t), r)
      BY <1>6, <2>1 DEF Bare
    <2>. QED  BY <1>1, <1>2, <2>2, <2>3, KeptPlain
  <1>. QED  BY <1>5, <1>7, <1>8, <1>9

LEMMA KeptLoadBegin ==
  ASSUME Based, Kept, LoadBegin
  PROVE  Kept'
  <1>1. Loader \in DOMAIN arcTask
    BY DEF Based
  <1>2. /\ plot' = plot /\ arcDb' = arcDb /\ arcLog' = arcLog /\ arcClock' = arcClock /\ bot' = bot
        /\ SetTask(Loader, Asking(Loader, IdleTask))
    BY DEF LoadBegin
  <1>3. BotSame(bot')
    BY <1>1, <1>2, HandlingSame
  <1>4. IdleTask.goal = "read" /\ DOMAIN IdleTask = TaskFields
    BY DEF IdleTask, TaskFields
  <1>. DEFINE r == Asking(Loader, IdleTask)
  <1>5. r.pc \in {"probe", "marker", "read", "save"} /\ (r.pc = "save" => IdleTask.goal = "save")
        /\ r.goal = IdleTask.goal
    BY <1>4, AskingKeeps
  <1>6. SetTask(Loader, r)
    BY <1>2
  <1>. HIDE DEF r
  <1>7. Bare(Job(Loader), r)
    BY <1>4, <1>5 DEF Bare
  <1>. QED  BY <1>1, <1>2, <1>3, <1>6, <1>7, KeptPlain

LEMMA KeptLoadRead ==
  ASSUME Based, Kept, LoadRead
  PROVE  Kept'
  <1>1. Loader \in DOMAIN arcTask
    BY DEF Based
  <1>2. /\ TaskBase(plot.tables, bot, arcTask[Loader], arcLock, Job(Loader), Loader, arcTask[Loader])
        /\ BotBase(plot.tables, arcDb, bot, arcTask[Loader])
        /\ Job(Loader) = "load"
    BY <1>1, BaseOf, JobsAre
  <1>3. /\ ArchiveLeave(Loader) /\ arcTask[Loader].pc = "read" /\ plot' = plot /\ arcDb' = arcDb
        /\ arcLog' = arcLog /\ arcClock' = arcClock
    BY DEF LoadRead, At
  <1>4. \/ bot' = [bot EXCEPT !.paused = TRUE]
        \/ bot' = [bot EXCEPT !.loaded = TRUE, !.doc = Sanitized(DocIn(arcTask[Loader].mode))]
    BY DEF LoadRead
  <1>5. arcTask[Loader].mode = StoreOf(plot.tables) /\ (plot.tables => arcDb.cfg # "none")
    BY <1>2, <1>3 DEF TaskBase, BotBase, Talking
  <1>6. Sanitized(DocIn(arcTask[Loader].mode)) = Effective
    BY <1>5 DEF DocIn, Effective, StoreOf
  <1>7. \/ bot'.loaded = bot.loaded /\ bot'.doc = bot.doc
        \/ bot'.doc = Effective
    BY <1>2, <1>4, <1>6 DEF BotBase, BotFields
  <1>8. bot'.loaded => (OwnLike(bot'.doc) <=> OwnLike(Effective))
    BY <1>7 DEF Kept
  <1>. QED  BY <1>1, <1>3, <1>8, KeptLeave

(* The rows read are all that is live; what replaces them is kept or dropped. *)
LEMMA ReadIsLive ==
  ASSUME Based, Kept, NEW t \in DOMAIN arcTask, arcTask[t].pc = "read", Job(t) # "sweep"
  PROVE  Live(arcLog) \subseteq RowsOf(InStore(arcTask[t].mode))
  <1>1. /\ TaskBase(plot.tables, bot, arcTask[Loader], arcLock, Job(t), t, arcTask[t])
        /\ BotBase(plot.tables, arcDb, bot, arcTask[Loader]) /\ DbShape(arcDb)
    BY BaseOf
  <1>2. arcTask[t].mode = StoreOf(plot.tables) /\ (plot.tables => arcDb.cfg # "none")
    BY <1>1 DEF TaskBase, BotBase, Talking
  <1>3. KeptStore(plot.tables, arcDb, Live(arcLog))
    BY DEF Kept
  <1>4. RowsOf(InStore(arcTask[t].mode)) =
            IF arcTask[t].mode = "dedicated" THEN arcDb.entries ELSE RowsOf(arcDb.shards)
    BY <1>1, InStoreRows
  <1>. QED  BY <1>2, <1>3, <1>4 DEF KeptStore, StoreOf

LEMMA KeptReplace ==
  ASSUME Based, Kept, NEW t \in DOMAIN arcTask, arcTask[t].pc = "read", Job(t) \in Locking,
         NEW rows, NEW row, Replace(t, rows, row),
         Fits(rows, row), row = NoRow \/ (Job(t) \in Capturing /\ row \in rows),
         plot' = plot, arcDb' = arcDb, arcLog' = arcLog, arcClock' = arcClock, BotSame(bot')
  PROVE  Kept'
  <1>1. TaskBase(plot.tables, bot, arcTask[Loader], arcLock, Job(t), t, arcTask[t])
    BY BaseOf
  <1>. DEFINE drops == RowsOf(InStore(arcTask[t].mode)) \ rows
              w == [NoWrite EXCEPT !.cells = Whole(rows), !.drops = drops]
              q == [arcTask[t] EXCEPT !.goal = "save", !.row = row, !.write = w]
              r == Asking(t, q)
  <1>2. SetTask(t, r)
    BY DEF Replace
  <1>3. RowsOf(w.cells) = rows /\ w.drops = drops
    BY WholeRows DEF NoWrite
  <1>. HIDE DEF w
  <1>4. DOMAIN q = TaskFields /\ q.goal = "save" /\ q.write = w /\ q.row = row
    BY <1>1 DEF TaskBase, TaskShape, TaskFields
  <1>. HIDE DEF q
  <1>5. /\ r.pc \in {"probe", "marker", "read", "save"} /\ (r.pc = "save" => q.goal = "save")
        /\ r.goal = q.goal /\ r.write = q.write /\ r.row = q.row
    BY <1>4, AskingKeeps
  <1>. HIDE DEF r
  <1>6. Job(t) # "sweep" /\ Job(t) # "change"
    BY DEF Locking, Capturing, Removing
  <1>7. Live(arcLog) \subseteq rows \union drops
    BY <1>6, ReadIsLive
  <1>8. LET all == RowsOf(r.write.cells)
        IN /\ Live(arcLog) \subseteq all \union r.write.drops
           /\ r.row = NoRow \/ (Job(t) \in Capturing /\ r.row \in all)
           /\ Fits(all, r.row)
    BY <1>3, <1>4, <1>5, <1>7
  <1>9. /\ KeptTask(arcDb, Live(arcLog), Job(t), r)
        /\ ClassTask(arcDb, OwnLike(Effective), arcClock, Job(t), r)
    BY <1>4, <1>5, <1>6, <1>8, CarriedIsKept
  <1>10. bot'.loaded => (OwnLike(bot'.doc) <=> OwnLike(Effective))
    BY LoadedKept DEF BotSame
  <1>. QED  BY <1>2, <1>9, <1>10, KeptMove

LEMMA KeptReadRows ==
  ASSUME Based, Kept, NEW t \in DOMAIN arcTask, ReadRows(t)
  PROVE  Kept'
  <1>. DEFINE all == RowsOf(InStore(arcTask[t].mode))
              rows == Bounded(all, NoRow)
  <1>1. /\ plot' = plot /\ arcDb' = arcDb /\ arcLog' = arcLog /\ arcClock' = arcClock
        /\ arcTask[t].pc = "read" /\ (Captures(t) \/ Removes(t))
        /\ bot' = bot \/ \E h : bot' = [bot EXCEPT !.handled = h]
    BY DEF ReadRows, At
  <1>2. BotSame(bot')
    BY <1>1, HandlingSame
  <1>3. Job(t) \in Locking /\ (~Removes(t) => Job(t) \in Capturing)
    BY <1>1 DEF Captures, Removes, Locking, Capturing, Removing
  <1>4. IsFiniteSet(all)
    BY BaseOf, InStoreRows
  <1>5. IsFiniteSet(rows)
    BY <1>4, BoundedIsIn, SubsetIsFinite
  <1>6. \/ ArchiveLeave(t)
        \/ Removes(t) /\ Replace(t, rows \ Victims(t, rows), NoRow)
        \/ ~Removes(t) /\ \E row : Replace(t, WithRow(rows, row), row)
    <2>1. CASE Removes(t)
      <3>1. ~(Job(t) = "deletion")
        BY <2>1 DEF Removes
      <3>. QED  BY <2>1, <3>1 DEF ReadRows
    <2>2. CASE ~Removes(t)
      BY <2>2 DEF ReadRows
    <2>. QED  BY <2>1, <2>2
  <1>. HIDE DEF all
  <1>7. CASE ArchiveLeave(t)
    <2>1. bot'.loaded => (OwnLike(bot'.doc) <=> OwnLike(Effective))
      BY <1>2, LoadedKept DEF BotSame
    <2>. QED  BY <1>1, <1>7, <2>1, KeptLeave
  <1>8. CASE Removes(t) /\ Replace(t, rows \ Victims(t, rows), NoRow)
    <2>1. Fits(rows \ Victims(t, rows), NoRow)
      BY <1>4, BoundedFits
    <2>. HIDE DEF rows
    <2>. QED  BY <1>1, <1>2, <1>3, <1>8, <2>1, KeptReplace
  <1>9. CASE ~Removes(t) /\ \E row : Replace(t, WithRow(rows, row), row)
    <2>. HIDE DEF rows
    <2>1. PICK row : Replace(t, WithRow(rows, row), row)
      BY <1>9
    <2>2. row \in WithRow(rows, row) /\ Fits(WithRow(rows, row), row)
      BY <1>5, WithRowHasIt
    <2>. QED  BY <1>1, <1>2, <1>3, <1>9, <2>1, <2>2, KeptReplace
  <1>. QED  BY <1>6, <1>7, <1>8, <1>9

LEMMA KeptChangeBegin ==
  ASSUME Based, Kept, NEW t \in DOMAIN arcTask, ChangeBegin(t)
  PROVE  Kept'
  <1>1. TaskBase(plot.tables, bot, arcTask[Loader], arcLock, Job(t), t, arcTask[t])
    BY BaseOf
  <1>2. /\ Job(t) = "change" /\ plot' = plot /\ arcDb' = arcDb /\ bot' = bot
        /\ arcLog' = arcLog /\ arcClock' = arcClock
    BY DEF ChangeBegin
  <1>3. bot'.loaded => (OwnLike(bot'.doc) <=> OwnLike(Effective))
    BY <1>2, LoadedKept
  <1>. DEFINE w == [NoWrite EXCEPT !.doc = Changed(bot.doc)]
              q == [arcTask[t] EXCEPT !.goal = "save", !.write = w]
              r == Asking(t, q)
  <1>4. ArchiveLeave(t) \/ (SetTask(t, r) /\ bot.loaded)
    BY DEF ChangeBegin
  <1>5. w.doc = Changed(bot.doc)
    BY DEF NoWrite
  <1>. HIDE DEF w
  <1>6. DOMAIN q = TaskFields /\ q.goal = "save" /\ q.write = w
    BY <1>1 DEF TaskBase, TaskShape, TaskFields
  <1>. HIDE DEF q
  <1>7. /\ r.pc \in {"probe", "marker", "read", "save"} /\ (r.pc = "save" => q.goal = "save")
        /\ r.goal = q.goal /\ r.write = q.write
    BY <1>6, AskingKeeps
  <1>. HIDE DEF r
  <1>8. bot.loaded => (OwnLike(r.write.doc) <=> OwnLike(Effective))
    <2>1. OwnLike(Changed(bot.doc)) <=> OwnLike(bot.doc)
      BY DEF OwnLike, Changed
    <2>. QED  BY <1>5, <1>6, <1>7, <2>1 DEF Kept
  <1>9. CASE ArchiveLeave(t)
    BY <1>2, <1>3, <1>9, KeptLeave
  <1>10. CASE SetTask(t, r) /\ bot.loaded
    <2>1. Job(t) \notin Locking
      BY <1>2 DEF Locking, Capturing, Removing
    <2>2. /\ KeptTask(arcDb, Live(arcLog), Job(t), r)
          /\ ClassTask(arcDb, OwnLike(Effective), arcClock, Job(t), r)
      BY <1>2, <1>6, <1>7, <1>8, <1>10, <2>1, CarriedIsKept
    <2>. QED  BY <1>2, <1>3, <1>10, <2>2, KeptMove
  <1>. QED  BY <1>4, <1>9, <1>10

LEMMA KeptSweepRead ==
  ASSUME Based, Kept, NEW t \in DOMAIN arcTask, SweepRead(t)
  PROVE  Kept'
  <1>1. TaskBase(plot.tables, bot, arcTask[Loader], arcLock, Job(t), t, arcTask[t])
    BY BaseOf
  <1>2. /\ Job(t) = "sweep" /\ arcTask[t].pc = "read" /\ plot' = plot /\ arcDb' = arcDb /\ bot' = bot
        /\ arcLog' = arcLog /\ arcClock' = arcClock
    BY DEF SweepRead, At
  <1>. DEFINE got == InStore(arcTask[t].mode)
              r == [arcTask[t] EXCEPT !.pc = "retention", !.got = got]
  <1>3. ArchiveLeave(t) \/ SetTask(t, r)
    BY DEF SweepRead
  <1>. HIDE DEF got
  <1>4. r.pc = "retention" /\ r.goal = "read"
    BY <1>1, <1>2 DEF TaskBase, TaskShape, TaskFields, TaskStages
  <1>. HIDE DEF r
  <1>5. BotSame(bot') /\ (bot'.loaded => (OwnLike(bot'.doc) <=> OwnLike(Effective)))
    BY <1>2, HandlingSame, LoadedKept
  <1>6. CASE ArchiveLeave(t)
    BY <1>2, <1>5, <1>6, KeptLeave
  <1>7. CASE SetTask(t, r)
    BY <1>2, <1>4, <1>5, <1>7, KeptPlain DEF Bare
  <1>. QED  BY <1>3, <1>6, <1>7

LEMMA KeepIs == \A doc : Keep(doc) = IF OwnLike(doc) THEN OwnKeep ELSE DefaultKeep
  BY DEF Keep, OwnLike

LEMMA KeptSweepRetention ==
  ASSUME LogInv, Based, Kept, Calm', NEW t \in DOMAIN arcTask, SweepRetention(t)
  PROVE  Kept'
  <1>1. /\ TaskBase(plot.tables, bot, arcTask[Loader], arcLock, Job(t), t, arcTask[t])
        /\ BotBase(plot.tables, arcDb, bot, arcTask[Loader])
    BY BaseOf
  <1>2. /\ arcTask[t].pc = "retention" /\ plot' = plot /\ arcDb' = arcDb /\ bot' = bot
        /\ arcClock' = arcClock
    BY DEF SweepRetention, At
  <1>3. Job(t) = "sweep"
    <2>1. Job(t) \in Locking \union {"load", "change", "sweep"}
      BY JobsAre
    <2>. QED  BY <1>1, <1>2, <2>1 DEF TaskBase, TaskStages, Outside, Importing
  <1>. DEFINE got == arcTask[t].got
              what == IF arcTask[t].mode = "dedicated" THEN "prune" ELSE "shards"
              expired == Expired(RowsOf(got), DocIn(arcTask[t].mode))
              cells == [i \in Shards |-> got[i] \ expired]
              w == [NoWrite EXCEPT !.what = what, !.cells = cells, !.drops = expired]
              r == [arcTask[t] EXCEPT !.pc = "save", !.write = w]
  <1>4. /\ \E reasons : Blame(reasons)
        /\ Blame({"retention unread"}) \/ ArchiveLeave(t) \/ SetTask(t, r)
    BY DEF SweepRetention
  <1>5. ~Blame({"retention unread"})
    <2>1. Blame({"retention unread"}) => "retention unread" \in arcLog'.why
      BY BlameKeepsDoc
    <2>. QED  BY <2>1 DEF Calm
  <1>6. Live(arcLog') = Live(arcLog)
    BY <1>4, LiveAfterBlame
  <1>7. bot'.loaded => (OwnLike(bot'.doc) <=> OwnLike(Effective))
    BY <1>2, LoadedKept
  <1>8. Keep(DocIn(arcTask[t].mode)) = IF OwnLike(Effective) THEN OwnKeep ELSE DefaultKeep
    <2>1. arcTask[t].mode = StoreOf(plot.tables)
      BY <1>1, <1>2 DEF TaskBase, Talking
    <2>2. plot.tables => arcDb.cfg # "none"
      BY <1>1, <1>2, <1>3 DEF TaskBase, BotBase, Outside, ImportSettled
    <2>3. Effective = Sanitized(DocIn(arcTask[t].mode))
      BY <2>1, <2>2 DEF Effective, DocIn, StoreOf
    <2>4. OwnLike(Sanitized(DocIn(arcTask[t].mode))) <=> OwnLike(DocIn(arcTask[t].mode))
      BY DEF OwnLike, Sanitized
    <2>. QED  BY <2>3, <2>4, KeepIs
  <1>9. \A row \in expired : arcClock - row.at > IF OwnLike(Effective) THEN OwnKeep ELSE DefaultKeep
    BY <1>8 DEF Expired
  <1>10. RowsOf(got) \subseteq RowsOf(cells) \union expired
    <2>1. SUFFICES ASSUME NEW row \in RowsOf(got), row \notin expired  PROVE row \in RowsOf(cells)
      OBVIOUS
    <2>2. PICK i \in Shards : row \in got[i]
      BY <2>1 DEF RowsOf
    <2>. HIDE DEF expired
    <2>3. row \in cells[i]
      BY <2>1, <2>2
    <2>. QED  BY <2>2, <2>3 DEF RowsOf
  <1>. HIDE DEF cells, expired
  <1>11. w.drops = expired /\ w.cells = cells
    BY DEF NoWrite
  <1>. HIDE DEF w
  <1>12. r.pc = "save" /\ r.goal = arcTask[t].goal /\ r.write = w /\ r.got = got
    BY <1>1 DEF TaskBase, TaskShape, TaskFields
  <1>. HIDE DEF r
  <1>13. KeptTask(arcDb, Live(arcLog), Job(t), r)
    BY <1>3, <1>12 DEF KeptTask, Locking, Capturing, Removing
  <1>14. ClassTask(arcDb, OwnLike(Effective), arcClock, Job(t), r)
    BY <1>3, <1>9, <1>10, <1>11, <1>12 DEF ClassTask
  <1>15. CASE ArchiveLeave(t)
    BY <1>2, <1>6, <1>7, <1>15, KeptLeave
  <1>16. CASE SetTask(t, r)
    BY <1>2, <1>6, <1>7, <1>13, <1>14, <1>16, KeptMove
  <1>. QED  BY <1>4, <1>5, <1>15, <1>16

LEMMA KeptImportRead ==
  ASSUME LogInv, Based, Kept, Calm', NEW t \in DOMAIN arcTask, ImportRead(t)
  PROVE  Kept'
  <1>. DEFINE q == arcTask[t]
              db == arcDb
              live == Live(arcLog)
              own == OwnLike(Effective)
  <1>1. PICK from \in {"marker", "entries", "shards", "document"} :
          /\ q.pc = from
          /\ \/ Blame({"import cut short"})
             \/ /\ UNCHANGED arcLog
                /\ bot' = [bot EXCEPT !.imported = @ \/ (from = "marker" /\ Marked)]
                /\ \/ /\ from = "marker"
                      /\ TaskTo(t, IF Marked THEN "read" ELSE "entries")
                   \/ /\ from = "entries"
                      /\ TaskTo(t, IF arcDb.entries # {} THEN "document" ELSE "shards")
                   \/ /\ from = "shards"
                      /\ LET rows == Bounded(RowsOf(arcDb.shards), NoRow)
                         IN SetTask(t, [arcTask[t] EXCEPT
                              !.pc = IF rows = {} THEN "document" ELSE "rows",
                              !.write = [NoWrite EXCEPT !.what = "entries", !.cells = Whole(rows)]])
                   \/ /\ from = "document"
                      /\ SetTask(t, [arcTask[t] EXCEPT !.pc = "settings",
                              !.write = [NoWrite EXCEPT !.what = "cfg", !.doc = Sanitized(arcDb.doc)]])
    BY DEF ImportRead, At
  <1>2. ~Blame({"import cut short"})
    <2>1. Blame({"import cut short"}) => "import cut short" \in arcLog'.why
      BY BlameKeepsDoc
    <2>. QED  BY <2>1 DEF Calm
  <1>3. /\ TaskBase(plot.tables, bot, arcTask[Loader], arcLock, Job(t), t, q)
        /\ BotBase(plot.tables, arcDb, bot, arcTask[Loader])
    BY BaseOf
  <1>4. plot.tables /\ q.goal = "read"
    <2>1. Job(t) \in Locking \union {"load", "change", "sweep"}
      BY JobsAre
    <2>. QED  BY <1>1, <1>3, <2>1 DEF TaskBase, TaskStages, Importing, Outside
  <1>5. /\ KeptTask(db, live, Job(t), q) /\ ClassTask(db, own, arcClock, Job(t), q)
        /\ KeptStore(plot.tables, db, live)
    BY KeptOf
  <1>6. plot' = plot /\ arcDb' = arcDb /\ arcClock' = arcClock /\ arcLog' = arcLog
    BY <1>1, <1>2 DEF ImportRead
  <1>7. bot'.loaded => (OwnLike(bot'.doc) <=> OwnLike(Effective))
    <2>1. bot'.loaded = bot.loaded /\ bot'.doc = bot.doc
      BY <1>1, <1>2, <1>3 DEF BotBase, BotFields
    <2>. QED  BY <2>1, LoadedKept
  <1>8. DOMAIN q = TaskFields
    BY <1>3 DEF TaskBase, TaskShape
  <1>. HIDE DEF q
  <1>9. ASSUME NEW r, SetTask(t, r), r.goal = "read",
               r.pc \in {"read", "entries", "shards", "rows", "document", "settings"},
               r.pc \in {"document", "settings"} => live \subseteq db.entries,
               r.pc \in {"entries", "shards", "rows"} => live \subseteq Importable(db),
               r.pc = "rows" => live \subseteq RowsOf(r.write.cells),
               r.pc # "read" => (OwnLike(db.doc) <=> own),
               r.pc = "settings" => (OwnLike(r.write.doc) <=> own)
        PROVE  Kept'
    <2>1. KeptTask(db, live, Job(t), r)
      BY <1>9 DEF KeptTask
    <2>2. ClassTask(db, own, arcClock, Job(t), r)
      BY <1>9 DEF ClassTask
    <2>. QED  BY <1>6, <1>7, <1>9, <2>1, <2>2, KeptMove
  <1>10. CASE from = "marker"
    <2>. DEFINE pc == IF Marked THEN "read" ELSE "entries"
                r == [q EXCEPT !.pc = pc]
    <2>1. SetTask(t, r)
      BY <1>1, <1>2, <1>10 DEF TaskTo, q
    <2>2. r.pc = pc /\ r.goal = "read"
      BY <1>4, <1>8 DEF TaskFields
    <2>. HIDE DEF r
    <2>3. ~Marked => live \subseteq Importable(db) /\ (OwnLike(db.doc) <=> own)
      BY <1>4, <1>5 DEF Marked, KeptStore, Effective, Sanitized, OwnLike
    <2>. QED  BY <1>9, <2>1, <2>2, <2>3
  <1>11. CASE from = "entries"
    <2>. DEFINE pc == IF arcDb.entries # {} THEN "document" ELSE "shards"
                r == [q EXCEPT !.pc = pc]
    <2>1. SetTask(t, r)
      BY <1>1, <1>2, <1>11 DEF TaskTo, q
    <2>2. r.pc = pc /\ r.goal = "read"
      BY <1>4, <1>8 DEF TaskFields
    <2>. HIDE DEF r
    <2>3. live \subseteq Importable(db) /\ (OwnLike(db.doc) <=> own)
      BY <1>1, <1>5, <1>11 DEF KeptTask, ClassTask
    <2>4. arcDb.entries # {} => live \subseteq db.entries
      BY <1>4, <1>5 DEF KeptStore
    <2>. QED  BY <1>9, <2>1, <2>2, <2>3, <2>4
  <1>12. CASE from = "shards"
    <2>. DEFINE rows == Bounded(RowsOf(arcDb.shards), NoRow)
                pc == IF rows = {} THEN "document" ELSE "rows"
                w == [NoWrite EXCEPT !.what = "entries", !.cells = Whole(rows)]
                r == [q EXCEPT !.pc = pc, !.write = w]
    <2>1. SetTask(t, r)
      BY <1>1, <1>2, <1>12 DEF q
    <2>2. r.pc = pc /\ r.goal = "read" /\ r.write = w
      BY <1>4, <1>8 DEF TaskFields
    <2>. HIDE DEF r
    <2>3. RowsOf(w.cells) = rows
      BY WholeRows DEF NoWrite
    <2>. HIDE DEF w
    <2>4. live \subseteq Importable(db) /\ Importable(db) = rows /\ (OwnLike(db.doc) <=> own)
      BY <1>1, <1>5, <1>12 DEF KeptTask, ClassTask, Importable
    <2>5. rows = {} => live \subseteq db.entries
      BY <2>4
    <2>. HIDE DEF rows
    <2>. QED  BY <1>9, <2>1, <2>2, <2>3, <2>4, <2>5
  <1>13. CASE from = "document"
    <2>. DEFINE w == [NoWrite EXCEPT !.what = "cfg", !.doc = Sanitized(arcDb.doc)]
                r == [q EXCEPT !.pc = "settings", !.write = w]
    <2>1. SetTask(t, r)
      BY <1>1, <1>2, <1>13 DEF q
    <2>2. r.pc = "settings" /\ r.goal = "read" /\ r.write = w
      BY <1>4, <1>8 DEF TaskFields
    <2>. HIDE DEF r
    <2>3. w.doc = Sanitized(arcDb.doc)
      BY DEF NoWrite
    <2>. HIDE DEF w
    <2>4. live \subseteq db.entries /\ (OwnLike(db.doc) <=> own)
      BY <1>1, <1>5, <1>13 DEF KeptTask, ClassTask
    <2>5. OwnLike(w.doc) <=> own
      BY <2>3, <2>4 DEF OwnLike, Sanitized
    <2>. QED  BY <1>9, <2>1, <2>2, <2>4, <2>5
  <1>. QED  BY <1>10, <1>11, <1>12, <1>13

(* One task writes and moves. *)
LEMMA KeptWrite ==
  ASSUME Based, Kept, NEW t \in DOMAIN arcTask, NEW q, SetTask(t, q), plot' = plot, arcClock' = arcClock,
         OwnLike(Effective') <=> OwnLike(Effective),
         bot'.loaded => (OwnLike(bot'.doc) <=> OwnLike(Effective)),
         KeptStore(plot.tables, arcDb', Live(arcLog')),
         KeptTask(arcDb', Live(arcLog'), Job(t), q),
         ClassTask(arcDb', OwnLike(Effective), arcClock, Job(t), q),
         \A u \in DOMAIN arcTask \ {t} :
            /\ KeptTask(arcDb', Live(arcLog'), Job(u), arcTask[u])
            /\ ClassTask(arcDb', OwnLike(Effective), arcClock, Job(u), arcTask[u])
  PROVE  Kept'
  <1>1. DOMAIN arcTask' = DOMAIN arcTask /\ arcTask'[t] = q
        /\ \A u \in DOMAIN arcTask \ {t} : arcTask'[u] = arcTask[u]
    BY DEF SetTask
  <1>2. \A u : Job(u)' = Job(u)
    BY DEF Job
  <1>. DEFINE own == OwnLike(Effective)
  <1>3. ASSUME NEW u \in DOMAIN arcTask
        PROVE  /\ KeptTask(arcDb', Live(arcLog'), Job(u), arcTask'[u])
               /\ ClassTask(arcDb', own, arcClock, Job(u), arcTask'[u])
    BY <1>1
  <1>4. ASSUME NEW u \in DOMAIN arcTask
        PROVE  ClassTask(arcDb', OwnLike(Effective'), arcClock, Job(u), arcTask'[u])
    BY <1>3 DEF ClassTask
  <1>5. bot'.loaded => (OwnLike(bot'.doc) <=> OwnLike(Effective'))
    OBVIOUS
  <1>. QED  BY <1>1, <1>2, <1>3, <1>4, <1>5 DEF Kept

LEMMA KeptWriteLeave ==
  ASSUME Based, Kept, NEW t \in DOMAIN arcTask, ArchiveLeave(t), plot' = plot, arcClock' = arcClock,
         OwnLike(Effective') <=> OwnLike(Effective),
         bot'.loaded => (OwnLike(bot'.doc) <=> OwnLike(Effective)),
         KeptStore(plot.tables, arcDb', Live(arcLog')),
         \A u \in DOMAIN arcTask \ {t} :
            /\ KeptTask(arcDb', Live(arcLog'), Job(u), arcTask[u])
            /\ ClassTask(arcDb', OwnLike(Effective), arcClock, Job(u), arcTask[u])
  PROVE  Kept'
  <1>1. PICK pc \in Outside : SetTask(t, [IdleTask EXCEPT !.pc = pc])
    BY Leaves
  <1>. DEFINE r == [IdleTask EXCEPT !.pc = pc]
  <1>2. r.pc = pc /\ r.goal = "read"
    BY DEF IdleTask
  <1>3. SetTask(t, r)
    BY <1>1
  <1>. HIDE DEF r
  <1>4. Bare(Job(t), r)
    BY <1>2 DEF Bare, Outside
  <1>. QED  BY <1>3, <1>4, PlainIsKept, KeptWrite

(* What the others carry, after a write that makes no row live and leaves the *)
(* shards of an import and its document. *)
LEMMA OthersKept ==
  ASSUME NEW db, NEW db2, NEW live, NEW live2, NEW own, NEW clock, NEW job, NEW q,
         KeptTask(db, live, job, q), ClassTask(db, own, clock, job, q),
         live2 \subseteq live,
         q.pc \in Importing => db2.shards = db.shards /\ db2.doc = db.doc /\ (live \subseteq db.entries => live2 \subseteq db2.entries)
  PROVE  KeptTask(db2, live2, job, q) /\ ClassTask(db2, own, clock, job, q)
  <1>1. KeptTask(db2, live2, job, q)
    <2>1. q.pc \in {"document", "settings"} => live2 \subseteq db2.entries
      BY DEF KeptTask, Importing
    <2>2. q.pc \in {"entries", "shards", "rows"} => live2 \subseteq Importable(db2)
      BY DEF KeptTask, Importing, Importable
    <2>. QED  BY <2>1, <2>2 DEF KeptTask
  <1>2. ClassTask(db2, own, clock, job, q)
    BY DEF ClassTask, Importing
  <1>. QED  BY <1>1, <1>2

(* Nothing half-done while calm. *)
LEMMA CalmWrite ==
  ASSUME NEW w, NEW sure, Attempt(w, sure), Tearing(w) \cap {"torn write"} = {}
  PROVE  arcDb' \in {arcDb, Landed(w)}
  BY DEF Tearing

LEMMA EntriesLand ==
  ASSUME DbShape(arcDb), NEW w, w.what = "entries"
  PROVE  /\ Landed(w).entries = RowsOf(w.cells) /\ Landed(w).shards = arcDb.shards
         /\ Landed(w).cfg = arcDb.cfg /\ Landed(w).doc = arcDb.doc
  BY DEF Landed, DbShape, DbFields

LEMMA ShardsLand ==
  ASSUME DbShape(arcDb), NEW w, w.what = "shards"
  PROVE  /\ Landed(w).shards = w.cells /\ Landed(w).entries = arcDb.entries
         /\ Landed(w).cfg = arcDb.cfg /\ Landed(w).doc = arcDb.doc
  BY DEF Landed, DbShape, DbFields

LEMMA PruneLands ==
  ASSUME DbShape(arcDb), NEW w, w.what = "prune"
  PROVE  /\ Landed(w).entries = arcDb.entries \ w.drops /\ Landed(w).shards = arcDb.shards
         /\ Landed(w).cfg = arcDb.cfg /\ Landed(w).doc = arcDb.doc
  BY DEF Landed, DbShape, DbFields

LEMMA SettingsLandAs ==
  ASSUME DbShape(arcDb), NEW w
  PROVE  /\ w.what = "cfg" => /\ Landed(w).entries = arcDb.entries /\ Landed(w).shards = arcDb.shards
                              /\ Landed(w).cfg = w.doc /\ Landed(w).doc = arcDb.doc
         /\ w.what = "doc" => /\ Landed(w).entries = arcDb.entries /\ Landed(w).shards = arcDb.shards
                              /\ Landed(w).cfg = arcDb.cfg /\ Landed(w).doc = w.doc
  BY DEF Landed, DbShape, DbFields

LEMMA KeptImportWrite ==
  ASSUME LogInv, Based, Kept, Calm', NEW t \in DOMAIN arcTask, ImportWrite(t)
  PROVE  Kept'
  <1>. DEFINE q == arcTask[t]
              w == q.write
              live == Live(arcLog)
              own == OwnLike(Effective)
  <1>1. PICK from \in {"rows", "settings"}, sure \in BOOLEAN, newer \in BOOLEAN :
          /\ q.pc = from /\ Attempt(w, sure)
          /\ TaskTo(t, IF sure /\ from = "rows" THEN "document" ELSE "read")
          /\ bot' = [bot EXCEPT !.imported = @ \/ (sure /\ from = "settings")]
          /\ Blame(Tearing(w) \union (IF sure THEN {} ELSE {"import cut short"})
                              \union (IF newer THEN {"import beside a write"} ELSE {}))
    BY DEF ImportWrite, At
  <1>2. sure
    <2>. DEFINE cut == IF sure THEN {} ELSE {"import cut short"}
                beside == IF newer THEN {"import beside a write"} ELSE {}
    <2>1. Blame(Tearing(w) \union cut \union beside)
      BY <1>1
    <2>2. cut \subseteq arcLog'.why
      <3>. HIDE DEF cut, beside
      <3>. QED  BY <2>1, BlameKeepsDoc
    <2>. QED  BY <1>1, <2>2 DEF Calm
  <1>3. /\ TaskBase(plot.tables, bot, arcTask[Loader], arcLock, Job(t), t, q)
        /\ BotBase(plot.tables, arcDb, bot, arcTask[Loader]) /\ DbShape(arcDb)
    BY BaseOf
  <1>4. plot.tables /\ q.goal = "read"
    <2>1. Job(t) \in Locking \union {"load", "change", "sweep"}
      BY JobsAre
    <2>. QED  BY <1>1, <1>3, <2>1 DEF TaskBase, TaskStages, Importing, Outside
  <1>5. /\ KeptTask(arcDb, live, Job(t), q) /\ ClassTask(arcDb, own, arcClock, Job(t), q)
        /\ KeptStore(plot.tables, arcDb, live)
    BY KeptOf
  <1>6. plot' = plot /\ arcClock' = arcClock
    BY DEF ImportWrite
  <1>7. arcDb' = Landed(w)
    BY <1>1, <1>2, AttemptedWrite
  <1>8. Live(arcLog') = live
    BY <1>1, LiveAfterBlame
  <1>9. bot'.loaded => (OwnLike(bot'.doc) <=> OwnLike(Effective))
    <2>1. bot'.loaded = bot.loaded /\ bot'.doc = bot.doc
      BY <1>1, <1>3 DEF BotBase, BotFields
    <2>. QED  BY <2>1, LoadedKept
  <1>. DEFINE pc == IF from = "rows" THEN "document" ELSE "read"
              r == [q EXCEPT !.pc = pc]
  <1>10. SetTask(t, r)
    BY <1>1, <1>2 DEF TaskTo
  <1>11. r.pc = pc /\ r.goal = "read"
    BY <1>3, <1>4 DEF TaskBase, TaskShape, TaskFields
  <1>12. q.pc = from /\ (from = "rows" => w.what = "entries") /\ (from = "settings" => w.what = "cfg" /\ w.doc \in Docs)
    BY <1>1, <1>3 DEF TaskBase
  <1>. HIDE DEF r, w
  <1>13. /\ arcDb'.shards = arcDb.shards /\ arcDb'.doc = arcDb.doc /\ live \subseteq arcDb'.entries
         /\ OwnLike(Effective') <=> own
         /\ from = "rows" => arcDb'.cfg = arcDb.cfg
         /\ from = "settings" => arcDb'.cfg # "none"
    <2>1. CASE from = "rows"
      <3>1. /\ arcDb'.entries = RowsOf(w.cells) /\ arcDb'.shards = arcDb.shards
            /\ arcDb'.cfg = arcDb.cfg /\ arcDb'.doc = arcDb.doc
        BY <1>3, <1>7, <1>12, <2>1, EntriesLand
      <3>2. live \subseteq RowsOf(w.cells)
        BY <1>5, <1>12, <2>1 DEF KeptTask, w
      <3>3. Effective' = Effective
        BY <1>6, <3>1 DEF Effective
      <3>. QED  BY <2>1, <3>1, <3>2, <3>3
    <2>2. CASE from = "settings"
      <3>1. /\ arcDb'.entries = arcDb.entries /\ arcDb'.shards = arcDb.shards
            /\ arcDb'.cfg = w.doc /\ arcDb'.doc = arcDb.doc
        BY <1>3, <1>7, <1>12, <2>2, SettingsLandAs
      <3>2. live \subseteq arcDb.entries /\ (OwnLike(w.doc) <=> own)
        BY <1>5, <1>12, <2>2 DEF KeptTask, ClassTask, w
      <3>3. w.doc # "none" /\ Sanitized(w.doc) = w.doc
        BY <1>12, <2>2, ChangedTwice
      <3>4. Effective' = w.doc
        BY <1>4, <1>6, <3>1, <3>3 DEF Effective
      <3>. QED  BY <2>2, <3>1, <3>2, <3>3, <3>4
    <2>. QED  BY <1>1, <2>1, <2>2
  <1>14. KeptStore(plot.tables, arcDb', live)
    <2>1. Importable(arcDb') = Importable(arcDb)
      BY <1>13 DEF Importable
    <2>2. arcDb'.cfg = "none" => arcDb.cfg = "none"
      BY <1>1, <1>13
    <2>. QED  BY <1>4, <1>5, <1>13, <2>1, <2>2 DEF KeptStore
  <1>15. KeptTask(arcDb', live, Job(t), r)
    BY <1>11, <1>13 DEF KeptTask
  <1>16. ClassTask(arcDb', own, arcClock, Job(t), r)
    <2>1. pc = "document" => (OwnLike(arcDb.doc) <=> own)
      BY <1>5, <1>12 DEF ClassTask
    <2>. QED  BY <1>11, <1>13, <2>1 DEF ClassTask
  <1>17. ASSUME NEW u \in DOMAIN arcTask \ {t}
         PROVE  /\ KeptTask(arcDb', live, Job(u), arcTask[u])
                /\ ClassTask(arcDb', own, arcClock, Job(u), arcTask[u])
    <2>1. KeptTask(arcDb, live, Job(u), arcTask[u]) /\ ClassTask(arcDb, own, arcClock, Job(u), arcTask[u])
      BY KeptOf
    <2>. QED  BY <1>13, <2>1, OthersKept
  <1>. HIDE DEF live, own
  <1>18. OwnLike(Effective') <=> OwnLike(Effective)
    BY <1>13 DEF own
  <1>19. KeptStore(plot.tables, arcDb', Live(arcLog')) /\ KeptTask(arcDb', Live(arcLog'), Job(t), r)
         /\ ClassTask(arcDb', OwnLike(Effective), arcClock, Job(t), r)
    BY <1>8, <1>14, <1>15, <1>16 DEF own
  <1>20. \A u \in DOMAIN arcTask \ {t} :
            /\ KeptTask(arcDb', Live(arcLog'), Job(u), arcTask[u])
            /\ ClassTask(arcDb', OwnLike(Effective), arcClock, Job(u), arcTask[u])
    BY <1>8, <1>17 DEF own
  <1>. QED  BY <1>6, <1>9, <1>10, <1>18, <1>19, <1>20, KeptWrite

(* Who holds the lock is the only one with rows to write, and an update is    *)
(* not served while an import is under way.                                   *)
LEMMA OthersOfTheLock ==
  ASSUME Based, NEW t \in DOMAIN arcTask, Job(t) \in Locking, arcTask[t].pc = "save",
         NEW u \in DOMAIN arcTask \ {t}
  PROVE  /\ ~(Job(u) \in Locking /\ arcTask[u].goal = "save")
         /\ arcTask[u].pc \in Importing => u = Loader /\ Job(t) \in Removing
         /\ arcTask[u].pc \in Importing => plot.tables
  <1>1. /\ TaskBase(plot.tables, bot, arcTask[Loader], arcLock, Job(t), t, arcTask[t])
        /\ TaskBase(plot.tables, bot, arcTask[Loader], arcLock, Job(u), u, arcTask[u])
    BY BaseOf
  <1>2. arcLock = t
    BY <1>1 DEF TaskBase, Outside
  <1>3. Job(u) \in Locking => arcTask[u].pc \in Outside \union {"lock"} /\ arcTask[u].goal = "read"
    BY <1>1, <1>2 DEF TaskBase, TaskStages
  <1>4. arcTask[u].pc \in Importing => Job(u) = "load" /\ plot.tables
    <2>1. Job(u) \in Locking \union {"load", "change", "sweep"}
      BY JobsAre
    <2>. QED  BY <1>1, <1>3, <2>1 DEF TaskBase, TaskStages, Importing, Outside
  <1>5. arcTask[u].pc \in Importing => u = Loader
    BY <1>4, JobsAre
  <1>6. Job(t) \in Capturing => ImportSettled(plot.tables, bot, arcTask[Loader])
    BY <1>1 DEF TaskBase, Outside
  <1>7. arcTask[u].pc \in Importing => Job(t) \in Removing
    BY <1>4, <1>5, <1>6 DEF ImportSettled, Locking
  <1>. QED  BY <1>3, <1>4, <1>5, <1>7

LEMMA KeptSaveRows ==
  ASSUME LogInv, Based, Kept, Calm', NEW t \in DOMAIN arcTask, SaveRows(t)
  PROVE  Kept'
  <1>. DEFINE q == arcTask[t]
              w == RowsWrite(q)
              rows == RowsOf(q.write.cells)
              live == Live(arcLog)
              live2 == Live(arcLog')
              own == OwnLike(Effective)
  <1>1. PICK sure \in BOOLEAN :
          /\ Attempt(w, sure)
          /\ arcLog' = [arcLog EXCEPT
                   !.kept = IF sure THEN @ \union ({q.row} \ {NoRow}) ELSE @,
                   !.removed = IF sure /\ Removes(t) THEN @ \union w.drops ELSE @,
                   !.dropped = @ \union Dropping(w),
                   !.why = @ \union Tearing(w)]
    BY DEF SaveRows, RowsWrite
  <1>2. /\ q.pc = "save" /\ Job(t) \in Locking /\ ArchiveLeave(t)
        /\ plot' = plot /\ bot' = bot /\ arcClock' = arcClock
    BY DEF SaveRows, At, Captures, Removes, Locking, Capturing, Removing
  <1>3. /\ TaskBase(plot.tables, bot, arcTask[Loader], arcLock, Job(t), t, q)
        /\ BotBase(plot.tables, arcDb, bot, arcTask[Loader]) /\ DbShape(arcDb)
    BY BaseOf
  <1>4. /\ q.goal = "save" /\ q.mode = StoreOf(plot.tables) /\ TaskShape(q)
        /\ plot.tables => arcDb.cfg # "none"
    BY <1>2, <1>3 DEF TaskBase, BotBase, TaskStages, Talking, Locking, Capturing, Removing
  <1>5. /\ live \subseteq rows \union q.write.drops
        /\ q.row = NoRow \/ (Job(t) \in Capturing /\ q.row \in rows)
        /\ Fits(rows, q.row)
    BY <1>2, <1>4, KeptOf DEF KeptTask
  <1>6. IsFiniteSet(rows)
    BY <1>4 DEF TaskShape
  <1>7. /\ w.drops = q.write.drops
        /\ w.what = IF plot.tables THEN "entries" ELSE "shards"
        /\ w.cells = IF plot.tables THEN q.write.cells ELSE Split(rows, q.row)
    BY <1>4, RowsWriteIs DEF StoreOf
  <1>. DEFINE fresh == {q.row} \ {NoRow}
  <1>8. /\ arcLog'.kept \subseteq arcLog.kept \union fresh
        /\ (sure \/ arcLog'.kept = arcLog.kept)
        /\ arcLog.dropped \union Dropping(w) \subseteq arcLog'.dropped
        /\ arcLog.removed \subseteq arcLog'.removed
        /\ Tearing(w) \subseteq arcLog'.why
    BY <1>1 DEF LogInv, LogFields
  <1>9. arcDb' \in {arcDb, Landed(w)}
    <2>1. Tearing(w) \cap {"torn write"} = {}
      BY <1>8 DEF Calm
    <2>. QED  BY <1>1, <2>1, CalmWrite
  <1>10. sure => arcDb' = Landed(w)
    BY <1>1, AttemptedWrite
  <1>11. KeptStore(plot.tables, arcDb, live)
    BY KeptOf
  <1>. HIDE DEF w, q
  <1>12. live2 \subseteq live \union fresh /\ (arcDb' = Landed(w) => live2 \subseteq rows)
    <2>1. live2 \subseteq live \union fresh
      BY <1>8 DEF Live
    <2>2. ASSUME arcDb' = Landed(w)  PROVE live2 \subseteq rows
      <3>1. Dropping(w) = q.write.drops
        BY <1>7, <2>2 DEF Dropping
      <3>2. live2 \cap q.write.drops = {}
        BY <1>8, <3>1 DEF Live
      <3>3. fresh \subseteq rows
        BY <1>5
      <3>. QED  BY <1>5, <2>1, <3>2, <3>3
    <2>. QED  BY <2>1, <2>2
  <1>13. arcDb' = arcDb /\ arcDb' # Landed(w) => live2 \subseteq live
    BY <1>8, <1>10 DEF Live
  <1>14. /\ arcDb'.cfg = arcDb.cfg /\ arcDb'.doc = arcDb.doc
         /\ plot.tables => arcDb'.shards = arcDb.shards
         /\ ~plot.tables => arcDb'.entries = arcDb.entries
         /\ arcDb' = Landed(w) /\ plot.tables => arcDb'.entries = rows
         /\ arcDb' = Landed(w) /\ ~plot.tables => rows \subseteq RowsOf(arcDb'.shards)
    <2>1. CASE arcDb' = Landed(w) /\ plot.tables
      BY <1>3, <1>7, <2>1, EntriesLand
    <2>2. CASE arcDb' = Landed(w) /\ ~plot.tables
      <3>1. rows \subseteq RowsOf(Split(rows, q.row))
        BY <1>5, <1>6, SplitKeepsAll
      <3>. HIDE DEF rows
      <3>2. arcDb'.shards = Split(rows, q.row)
        BY <1>3, <1>7, <2>2, ShardsLand
      <3>. QED  BY <1>3, <1>7, <2>2, <3>1, <3>2, ShardsLand
    <2>3. CASE arcDb' = arcDb /\ arcDb' # Landed(w)
      BY <2>3
    <2>. QED  BY <1>9, <2>1, <2>2, <2>3
  <1>15. Effective' = Effective
    BY <1>2, <1>14 DEF Effective
  <1>16. KeptStore(plot.tables, arcDb', live2)
    <2>1. CASE arcDb' = Landed(w)
      BY <1>4, <1>12, <1>14, <2>1 DEF KeptStore
    <2>2. CASE arcDb' # Landed(w)
      BY <1>9, <1>11, <1>13, <2>2 DEF KeptStore
    <2>. QED  BY <2>1, <2>2
  <1>17. ASSUME NEW u \in DOMAIN arcTask \ {t}
         PROVE  /\ KeptTask(arcDb', live2, Job(u), arcTask[u])
                /\ ClassTask(arcDb', own, arcClock, Job(u), arcTask[u])
    <2>1. /\ ~(Job(u) \in Locking /\ arcTask[u].goal = "save")
          /\ arcTask[u].pc \in Importing => u = Loader /\ Job(t) \in Removing
          /\ arcTask[u].pc \in Importing => plot.tables
      BY <1>2, OthersOfTheLock DEF q
    <2>2. KeptTask(arcDb, live, Job(u), arcTask[u]) /\ ClassTask(arcDb, own, arcClock, Job(u), arcTask[u])
      BY KeptOf
    <2>3. CASE arcTask[u].pc \in Importing
      <3>1. q.row = NoRow
        BY <1>5, <2>1, <2>3 DEF Capturing, Removing
      <3>2. live2 \subseteq live
        BY <1>12, <3>1
      <3>3. live \subseteq arcDb.entries => live2 \subseteq arcDb'.entries
        BY <1>9, <1>12, <1>14, <2>1, <2>3, <3>2
      <3>. HIDE DEF live, live2, own
      <3>. QED  BY <1>14, <2>1, <2>2, <2>3, <3>2, <3>3, OthersKept
    <2>4. CASE arcTask[u].pc \notin Importing
      <3>1. KeptTask(arcDb', live2, Job(u), arcTask[u])
        BY <2>1, <2>4 DEF KeptTask, Importing
      <3>2. ClassTask(arcDb', own, arcClock, Job(u), arcTask[u])
        BY <2>2, <2>4 DEF ClassTask, Importing
      <3>. QED  BY <3>1, <3>2
    <2>. QED  BY <2>3, <2>4
  <1>18. bot'.loaded => (OwnLike(bot'.doc) <=> OwnLike(Effective))
    BY <1>2, LoadedKept
  <1>. QED  BY <1>2, <1>15, <1>16, <1>17, <1>18, KeptWriteLeave

LEMMA KeptSaveSettings ==
  ASSUME LogInv, Based, Kept, Calm', NEW t \in DOMAIN arcTask, SaveSettings(t)
  PROVE  Kept'
  <1>. DEFINE q == arcTask[t]
              what == IF q.mode = "dedicated" THEN "cfg" ELSE "doc"
              w == [q.write EXCEPT !.what = what]
              live == Live(arcLog)
              own == OwnLike(Effective)
  <1>1. PICK sure \in BOOLEAN :
          /\ Attempt(w, sure)
          /\ bot' = IF sure THEN [bot EXCEPT !.doc = w.doc] ELSE bot
          /\ arcLog' = [arcLog EXCEPT !.doc = IF sure THEN Changed(@) ELSE @]
    BY DEF SaveSettings
  <1>2. /\ Job(t) = "change" /\ q.pc = "save" /\ ArchiveLeave(t)
        /\ plot' = plot /\ arcClock' = arcClock
    BY DEF SaveSettings, At
  <1>3. /\ TaskBase(plot.tables, bot, arcTask[Loader], arcLock, Job(t), t, q)
        /\ BotBase(plot.tables, arcDb, bot, arcTask[Loader]) /\ DbShape(arcDb)
    BY BaseOf
  <1>4. /\ q.goal = "save" /\ q.mode = StoreOf(plot.tables) /\ TaskShape(q) /\ q.write.doc \in Docs
        /\ plot.tables => arcDb.cfg # "none"
    BY <1>2, <1>3 DEF TaskBase, BotBase, TaskStages, Talking, Outside
  <1>5. OwnLike(q.write.doc) <=> own
    BY <1>2, <1>4, KeptOf DEF ClassTask
  <1>6. w.doc = q.write.doc /\ w.what = (IF plot.tables THEN "cfg" ELSE "doc")
    BY <1>4 DEF TaskShape, WriteFields, StoreOf
  <1>7. Live(arcLog') = live
    <2>1. arcLog'.kept = arcLog.kept /\ arcLog'.dropped = arcLog.dropped /\ arcLog'.removed = arcLog.removed
      BY <1>1 DEF LogInv, LogFields
    <2>. QED  BY <2>1 DEF Live
  <1>8. KeptStore(plot.tables, arcDb, live)
    BY KeptOf
  <1>. HIDE DEF w, q
  <1>9. arcDb' \in {arcDb, Landed(w)}
    <2>1. Torn(w) = {}
      BY <1>6 DEF Torn
    <2>. QED  BY <1>1, <2>1, AttemptedWrite
  <1>10. /\ arcDb'.entries = arcDb.entries /\ arcDb'.shards = arcDb.shards
         /\ plot.tables => arcDb'.doc = arcDb.doc /\ arcDb'.cfg \in {arcDb.cfg, w.doc}
         /\ ~plot.tables => arcDb'.cfg = arcDb.cfg /\ arcDb'.doc \in {arcDb.doc, w.doc}
    BY <1>3, <1>6, <1>9, SettingsLandAs
  <1>11. w.doc \in Docs /\ w.doc # "none" /\ Sanitized(w.doc) = w.doc
    BY <1>4, <1>6, ChangedTwice
  <1>12. Effective' \in {Effective, w.doc}
    BY <1>2, <1>4, <1>10, <1>11 DEF Effective
  <1>13. OwnLike(Effective') <=> OwnLike(Effective)
    BY <1>5, <1>6, <1>12
  <1>14. bot'.loaded => (OwnLike(bot'.doc) <=> OwnLike(Effective))
    <2>1. bot'.loaded = bot.loaded /\ bot'.doc \in {bot.doc, w.doc}
      BY <1>1, <1>3 DEF BotBase, BotFields
    <2>. QED  BY <1>5, <1>6, <2>1 DEF Kept
  <1>15. KeptStore(plot.tables, arcDb', live)
    <2>1. plot.tables => arcDb'.cfg # "none"
      BY <1>4, <1>10, <1>11
    <2>. QED  BY <1>4, <1>8, <1>10, <2>1 DEF KeptStore
  <1>16. ASSUME NEW u \in DOMAIN arcTask \ {t}
         PROVE  /\ KeptTask(arcDb', live, Job(u), arcTask[u])
                /\ ClassTask(arcDb', own, arcClock, Job(u), arcTask[u])
    <2>1. KeptTask(arcDb, live, Job(u), arcTask[u]) /\ ClassTask(arcDb, own, arcClock, Job(u), arcTask[u])
      BY KeptOf
    <2>2. arcTask[u].pc \in Importing => plot.tables
      BY BaseOf DEF TaskBase
    <2>. HIDE DEF live, own
    <2>. QED  BY <1>10, <2>1, <2>2, OthersKept
  <1>17. /\ KeptStore(plot.tables, arcDb', Live(arcLog'))
         /\ \A u \in DOMAIN arcTask \ {t} :
              /\ KeptTask(arcDb', Live(arcLog'), Job(u), arcTask[u])
              /\ ClassTask(arcDb', OwnLike(Effective), arcClock, Job(u), arcTask[u])
    BY <1>7, <1>15, <1>16
  <1>. QED  BY <1>2, <1>13, <1>14, <1>17, KeptWriteLeave

LEMMA KeptSweepSave ==
  ASSUME LogInv, Based, Kept, Calm', NEW t \in DOMAIN arcTask, SweepSave(t)
  PROVE  Kept'
  <1>. DEFINE q == arcTask[t]
              w == q.write
              live == Live(arcLog)
              live2 == Live(arcLog')
              own == OwnLike(Effective)
              moved == w.what = "shards" /\ arcDb.shards # q.got
  <1>1. PICK sure \in BOOLEAN :
          /\ Attempt(w, sure)
          /\ arcLog' = [arcLog EXCEPT
                   !.dropped = @ \union Expired(Dropping(w), Effective),
                   !.why = @ \union Tearing(w) \union (IF moved THEN {"sweep beside a write"} ELSE {})]
    BY DEF SweepSave
  <1>2. /\ Job(t) = "sweep" /\ q.pc = "save" /\ ArchiveLeave(t)
        /\ plot' = plot /\ bot' = bot /\ arcClock' = arcClock
    BY DEF SweepSave, At
  <1>3. /\ TaskBase(plot.tables, bot, arcTask[Loader], arcLock, Job(t), t, q)
        /\ BotBase(plot.tables, arcDb, bot, arcTask[Loader]) /\ DbShape(arcDb)
    BY BaseOf
  <1>4. /\ w.what = (IF plot.tables THEN "prune" ELSE "shards")
        /\ plot.tables => arcDb.cfg # "none"
    BY <1>2, <1>3 DEF TaskBase, BotBase, ImportSettled, Outside
  <1>5. /\ \A row \in w.drops : arcClock - row.at > IF own THEN OwnKeep ELSE DefaultKeep
        /\ RowsOf(q.got) \subseteq RowsOf(w.cells) \union w.drops
    BY <1>2, KeptOf DEF ClassTask
  <1>6. KeptStore(plot.tables, arcDb, live)
    BY KeptOf
  <1>7. /\ arcLog'.kept = arcLog.kept /\ arcLog'.removed = arcLog.removed
        /\ arcLog'.dropped = arcLog.dropped \union Expired(Dropping(w), Effective)
        /\ Tearing(w) \subseteq arcLog'.why
        /\ moved => "sweep beside a write" \in arcLog'.why
    BY <1>1 DEF LogInv, LogFields
  <1>8. arcDb' \in {arcDb, Landed(w)} /\ ~moved
    <2>1. Tearing(w) \cap {"torn write"} = {} /\ ~moved
      BY <1>7 DEF Calm
    <2>. QED  BY <1>1, <2>1, CalmWrite
  <1>9. ~plot.tables => arcDb.shards = q.got
    BY <1>4, <1>8
  <1>. HIDE DEF q, w, moved
  <1>10. live2 \subseteq live
    BY <1>7 DEF Live
  <1>11. arcDb' = Landed(w) => live2 = live \ w.drops
    <2>1. SUFFICES ASSUME arcDb' = Landed(w) PROVE live2 = live \ w.drops
      OBVIOUS
    <2>2. Dropping(w) = w.drops
      BY <2>1 DEF Dropping
    <2>3. Expired(w.drops, Effective) = w.drops
      BY <1>5, KeepIs DEF Expired
    <2>. QED  BY <1>7, <2>2, <2>3 DEF Live
  <1>12. /\ arcDb'.cfg = arcDb.cfg /\ arcDb'.doc = arcDb.doc
         /\ plot.tables => arcDb'.shards = arcDb.shards
         /\ live \subseteq arcDb.entries => live2 \subseteq arcDb'.entries
         /\ ~plot.tables => live2 \subseteq RowsOf(arcDb'.shards)
    <2>1. CASE arcDb' = Landed(w) /\ plot.tables
      BY <1>3, <1>4, <1>11, <2>1, PruneLands
    <2>2. CASE arcDb' = Landed(w) /\ ~plot.tables
      <3>1. /\ arcDb'.shards = w.cells /\ arcDb'.entries = arcDb.entries
            /\ arcDb'.cfg = arcDb.cfg /\ arcDb'.doc = arcDb.doc
        BY <1>3, <1>4, <2>2, ShardsLand
      <3>2. live \subseteq RowsOf(q.got)
        BY <1>6, <1>9, <2>2 DEF KeptStore
      <3>. QED  BY <1>5, <1>10, <1>11, <2>2, <3>1, <3>2
    <2>3. CASE arcDb' = arcDb /\ arcDb' # Landed(w)
      BY <1>6, <1>10, <2>3 DEF KeptStore
    <2>. QED  BY <1>8, <2>1, <2>2, <2>3
  <1>13. Effective' = Effective
    BY <1>2, <1>12 DEF Effective
  <1>14. KeptStore(plot.tables, arcDb', live2)
    BY <1>4, <1>6, <1>12 DEF KeptStore
  <1>15. ASSUME NEW u \in DOMAIN arcTask \ {t}
         PROVE  /\ KeptTask(arcDb', live2, Job(u), arcTask[u])
                /\ ClassTask(arcDb', own, arcClock, Job(u), arcTask[u])
    <2>1. KeptTask(arcDb, live, Job(u), arcTask[u]) /\ ClassTask(arcDb, own, arcClock, Job(u), arcTask[u])
      BY KeptOf
    <2>2. arcTask[u].pc \in Importing => plot.tables
      BY BaseOf DEF TaskBase
    <2>. HIDE DEF live, live2, own
    <2>. QED  BY <1>10, <1>12, <2>1, <2>2, OthersKept
  <1>16. bot'.loaded => (OwnLike(bot'.doc) <=> OwnLike(Effective))
    BY <1>2, LoadedKept
  <1>. QED  BY <1>2, <1>13, <1>14, <1>15, <1>16, KeptWriteLeave

LEMMA KeptMemory ==
  ASSUME Based, Kept, PauseEnds \/ Refresh \/ ArchiveTick
  PROVE  Kept'
  <1>1. /\ plot' = plot /\ arcDb' = arcDb /\ arcTask' = arcTask /\ arcLog' = arcLog
        /\ \/ bot' = [bot EXCEPT !.paused = FALSE]
           \/ bot' = [bot EXCEPT !.loaded = FALSE]
           \/ bot' = [bot EXCEPT !.handled = {}]
    BY DEF PauseEnds, Refresh, ArchiveTick
  <1>2. DOMAIN bot = BotFields
    BY DEF Based, BotBase
  <1>3. bot'.doc = bot.doc /\ (bot'.loaded => bot.loaded)
    BY <1>1, <1>2 DEF BotFields
  <1>4. Effective' = Effective /\ \A t : Job(t)' = Job(t)
    BY <1>1 DEF Effective, Job
  <1>5. ASSUME NEW t \in DOMAIN arcTask
        PROVE  /\ KeptTask(arcDb, Live(arcLog), Job(t), arcTask[t])
               /\ ClassTask(arcDb, OwnLike(Effective), arcClock', Job(t), arcTask[t])
    <2>1. /\ KeptTask(arcDb, Live(arcLog), Job(t), arcTask[t])
          /\ ClassTask(arcDb, OwnLike(Effective), arcClock, Job(t), arcTask[t])
      BY KeptOf
    <2>2. arcClock' = arcClock \/ Quiet(t)
      BY DEF PauseEnds, Refresh, ArchiveTick
    <2>3. Quiet(t) => arcTask[t].pc # "save"
      BY DEF Quiet
    <2>. QED  BY <2>1, <2>2, <2>3 DEF ClassTask
  <1>6. bot'.loaded => (OwnLike(bot'.doc) <=> OwnLike(Effective))
    BY <1>3, LoadedKept
  <1>7. KeptStore(plot.tables, arcDb, Live(arcLog))
    BY DEF Kept
  <1>. QED  BY <1>1, <1>4, <1>5, <1>6, <1>7 DEF Kept

LEMMA KeptRestart ==
  ASSUME Based, Kept, ArchiveRestart
  PROVE  Kept'
  <1>1. /\ plot' = plot /\ arcDb' = arcDb /\ bot' = FreshBot /\ arcLog' = arcLog /\ arcClock' = arcClock
        /\ DOMAIN arcTask' = DOMAIN arcTask
    BY DEF ArchiveRestart
  <1>2. Effective' = Effective /\ \A t : Job(t)' = Job(t)
    BY <1>1 DEF Effective, Job
  <1>3. ~bot'.loaded
    BY <1>1 DEF FreshBot
  <1>4. ASSUME NEW t \in DOMAIN arcTask
        PROVE  /\ KeptTask(arcDb, Live(arcLog), Job(t), arcTask'[t])
               /\ ClassTask(arcDb, OwnLike(Effective), arcClock, Job(t), arcTask'[t])
    <2>1. \/ arcTask'[t] = arcTask[t]
          \/ \E pc \in Outside : arcTask'[t] = [IdleTask EXCEPT !.pc = pc]
      BY DEF ArchiveRestart, Outside
    <2>2. CASE arcTask'[t] = arcTask[t]
      BY <2>2, KeptOf
    <2>3. CASE \E pc \in Outside : arcTask'[t] = [IdleTask EXCEPT !.pc = pc]
      <3>1. arcTask'[t].pc \in Outside /\ arcTask'[t].goal = "read"
        BY <2>3 DEF IdleTask
      <3>2. Bare(Job(t), arcTask'[t])
        BY <3>1 DEF Bare, Outside
      <3>. QED  BY <3>2, PlainIsKept
    <2>. QED  BY <2>1, <2>2, <2>3
  <1>5. KeptStore(plot.tables, arcDb, Live(arcLog))
    BY DEF Kept
  <1>. QED  BY <1>1, <1>2, <1>3, <1>4, <1>5 DEF Kept

LEMMA KeptInit == ArchiveInit => KeptInv
  <1>. SUFFICES ASSUME ArchiveInit PROVE Kept
    BY DEF KeptInv
  <1>1. /\ plot \in Plots /\ arcDb = plot.db /\ bot = FreshBot
        /\ arcTask = [t \in ArchiveTasks \union {Loader} |-> IdleTask]
        /\ arcLog = [kept |-> plot.rows, dropped |-> {}, removed |-> {}, doc |-> Effective, why |-> {}]
    BY DEF ArchiveInit
  <1>2. Live(arcLog) = plot.rows
    BY <1>1 DEF Live
  <1>3. KeptStore(plot.tables, arcDb, plot.rows)
    BY <1>1, PlotAssumption DEF KeptStore, Importable
  <1>4. ~bot.loaded
    BY <1>1 DEF FreshBot
  <1>5. IdleTask.pc = "new" /\ IdleTask.goal = "read"
    BY DEF IdleTask
  <1>6. \A job : Bare(job, IdleTask)
    BY <1>5 DEF Bare
  <1>7. ASSUME NEW t \in DOMAIN arcTask
        PROVE  /\ KeptTask(arcDb, Live(arcLog), Job(t), arcTask[t])
               /\ ClassTask(arcDb, OwnLike(Effective), arcClock, Job(t), arcTask[t])
    <2>1. arcTask[t] = IdleTask
      BY <1>1
    <2>. QED  BY <1>6, <2>1, PlainIsKept
  <1>. QED  BY <1>2, <1>3, <1>4, <1>7 DEF Kept

LEMMA KeptStep ==
  ASSUME LogInv, Based, Kept, ArchiveNext, Calm'
  PROVE  Kept'
  <1>1. ASSUME NEW t \in DOMAIN arcTask, Probe(t) \/ ImportRead(t) \/ ImportWrite(t)
        PROVE  Kept'
    BY <1>1, KeptProbe, KeptImportRead, KeptImportWrite
  <1>2. ASSUME NEW t \in ArchiveTasks, TaskStep(t)
        PROVE  Kept'
    <2>1. t \in DOMAIN arcTask
      BY DEF Based
    <2>2. CASE Receive(t) \/ RemoveBegin(t) \/ LockTaken(t) \/ SweepBegin(t)
      BY <2>1, <2>2, KeptBegins
    <2>3. CASE ReadRows(t) \/ SaveRows(t)
      BY <2>1, <2>3, KeptReadRows, KeptSaveRows
    <2>4. CASE ChangeBegin(t) \/ SaveSettings(t)
      BY <2>1, <2>4, KeptChangeBegin, KeptSaveSettings
    <2>5. CASE SweepRead(t) \/ SweepRetention(t) \/ SweepSave(t)
      BY <2>1, <2>5, KeptSweepRead, KeptSweepRetention, KeptSweepSave
    <2>. QED  BY <1>2, <2>2, <2>3, <2>4, <2>5 DEF TaskStep
  <1>3. CASE LoadBegin \/ LoadRead
    BY <1>3, KeptLoadBegin, KeptLoadRead
  <1>4. CASE LateLands
    <2>1. Blame({"late write"})
      BY <1>4 DEF LateLands
    <2>2. "late write" \in arcLog'.why
      BY <2>1, BlameKeepsDoc
    <2>. QED  BY <2>2 DEF Calm
  <1>5. CASE PauseEnds \/ Refresh \/ ArchiveTick
    BY <1>5, KeptMemory
  <1>6. CASE ArchiveRestart
    BY <1>6, KeptRestart
  <1>. QED  BY <1>1, <1>2, <1>3, <1>4, <1>5, <1>6 DEF ArchiveNext, ArchiveStep

LEMMA KeptInvStep == BaseInv /\ KeptInv /\ [ArchiveNext]_archiveVars => KeptInv'
  <1>. SUFFICES ASSUME BaseInv, KeptInv, [ArchiveNext]_archiveVars, Calm' PROVE Kept'
    BY DEF KeptInv
  <1>1. CASE UNCHANGED archiveVars
    <2>1. Effective' = Effective /\ \A t : Job(t)' = Job(t)
      BY <1>1 DEF archiveVars, Effective, Job
    <2>2. Calm
      BY <1>1 DEF archiveVars, Calm
    <2>. QED  BY <1>1, <2>1, <2>2 DEF archiveVars, KeptInv, Kept
  <1>2. CASE ArchiveNext
    <2>1. arcLog.why \subseteq arcLog'.why
      BY <1>2, LogSteps DEF BaseInv
    <2>2. Calm
      BY <2>1 DEF Calm
    <2>. QED  BY <1>2, <2>2, KeptStep, CalmIsNotAstray DEF BaseInv, KeptInv
  <1>. QED  BY <1>1, <1>2

LEMMA KeptIsArchived == BaseInv /\ KeptInv => ArchivedRowsStay
  <1>. SUFFICES ASSUME BaseInv, KeptInv, Calm PROVE Live(arcLog) \subseteq Archived
    BY DEF ArchivedRowsStay, Calm, Live
  <1>1. DbShape(arcDb)
    BY CalmIsNotAstray DEF BaseInv, Based
  <1>2. KeptStore(plot.tables, arcDb, Live(arcLog))
    BY DEF KeptInv, Kept
  <1>3. Importable(arcDb) \subseteq RowsOf(arcDb.shards)
    BY BoundedIsIn DEF Importable
  <1>4. /\ RowsOf(InStore("dedicated")) = arcDb.entries
        /\ RowsOf(InStore("legacy")) = RowsOf(arcDb.shards)
    BY <1>1, InStoreRows
  <1>5. CASE AwaitsImport
    <2>1. Archived = RowsOf(arcDb.shards)
      BY <1>5 DEF Archived
    <2>2. plot.tables /\ arcDb.cfg = "none"
      BY <1>5 DEF AwaitsImport
    <2>. QED  BY <1>2, <1>3, <2>1, <2>2 DEF KeptStore
  <1>6. CASE ~AwaitsImport
    <2>1. Archived = IF plot.tables THEN arcDb.entries ELSE RowsOf(arcDb.shards)
      BY <1>4, <1>6 DEF Archived, TheStore
    <2>2. plot.tables => arcDb.cfg # "none" \/ arcDb.entries # {}
      BY <1>6 DEF AwaitsImport
    <2>. QED  BY <1>2, <2>1, <2>2 DEF KeptStore
  <1>. QED  BY <1>5, <1>6

(* A row whose write was confirmed stays in the archive (ArchivedRowsStay):  *)
(* whatever updates, removals, sweeps, changes, restarts and failures of     *)
(* database calls come between, for any number of them.                      *)
THEOREM ConfirmedRowsStay == ArchiveSpec => []ArchivedRowsStay
  <1>1. ArchiveInit => BaseInv /\ KeptInv
    BY BaseInit, KeptInit
  <1>2. (BaseInv /\ KeptInv) /\ [ArchiveNext]_archiveVars => (BaseInv /\ KeptInv)'
    BY BaseInvStep, KeptInvStep
  <1>3. BaseInv /\ KeptInv => ArchivedRowsStay
    BY KeptIsArchived
  <1>. QED  BY <1>1, <1>2, <1>3, PTL DEF ArchiveSpec

-----------------------------------------------------------------------------
(* Removed rows.  What a task comes to carry, it carried before, read from    *)
(* the store, or made new.                                                    *)

LEMMA ClearIsNotAstray == ~Clear \/ ~Astray
  BY DEF Clear, Astray

LEMMA GoneOf ==
  ASSUME Gone, NEW t \in DOMAIN arcTask
  PROVE  /\ RemovedTask(arcLog.removed, Job(t), arcTask[t])
         /\ Numbered(RowsWith(arcTask[t]), captures)
         /\ Carrying(Job(t), arcTask[t]) =>
                /\ arcTask[t].row \notin RowsIn(arcDb)
                /\ \A u \in DOMAIN arcTask \ {t} : arcTask[t].row \notin RowsWith(arcTask[u])
         /\ RemovedStore(plot.tables, arcDb, arcLog.removed)
         /\ Numbered(RowsIn(arcDb) \union arcLog.removed, captures) /\ captures \in Nat
  BY DEF Gone

LEMMA GoneMove ==
  ASSUME Based, Gone, NEW t \in DOMAIN arcTask, NEW q, SetTask(t, q), plot' = plot,
         NEW fresh, \A row \in fresh : row.n = captures + 1 /\ captures' = captures + 1,
         captures' \in {captures, captures + 1},
         RemovedStore(plot.tables, arcDb', arcLog'.removed),
         RowsIn(arcDb') \subseteq RowsIn(arcDb) \union RowsWith(arcTask[t]),
         arcLog'.removed \subseteq arcLog.removed \union RowsWith(arcTask[t]),
         RemovedTask(arcLog'.removed, Job(t), q),
         \A u \in DOMAIN arcTask \ {t} :
            Job(u) \in Locking /\ arcTask[u].goal = "save" => arcLog'.removed = arcLog.removed,
         RowsWith(q) \subseteq RowsWith(arcTask[t]) \union RowsIn(arcDb) \union {NoRow} \union fresh,
         Carrying(Job(t), q) => /\ RowsIn(arcDb') = RowsIn(arcDb)
                                /\ q.row = arcTask[t].row \/ q.row \in fresh
  PROVE  Gone'
  <1>1. DOMAIN arcTask' = DOMAIN arcTask /\ arcTask'[t] = q
        /\ \A u \in DOMAIN arcTask \ {t} : arcTask'[u] = arcTask[u]
    BY DEF SetTask
  <1>2. \A u : Job(u)' = Job(u)
    BY DEF Job
  <1>3. captures \in Nat /\ captures' \in Nat /\ captures <= captures'
    BY DEF Gone
  <1>4. ASSUME NEW rows, Numbered(rows, captures)  PROVE Numbered(rows, captures')
    BY <1>3, <1>4 DEF Numbered
  <1>5. \A row \in RowsWith(arcTask[t]) \union RowsIn(arcDb) \union arcLog.removed :
            row.n \in Int /\ row.n <= captures
    BY GoneOf DEF Numbered
  <1>6. \A row \in fresh : row.n \in Int /\ row.n <= captures' /\ ~(row.n <= captures)
    BY <1>3
  <1>7. NoRow.n = 0
    BY DEF NoRow
  <1>8. Numbered(RowsIn(arcDb') \union arcLog'.removed, captures') /\ Numbered(RowsWith(q), captures')
    BY <1>3, <1>5, <1>6, <1>7 DEF Numbered
  <1>9. ASSUME NEW u \in DOMAIN arcTask \ {t}
        PROVE  /\ RemovedTask(arcLog'.removed, Job(u), arcTask[u])
               /\ Numbered(RowsWith(arcTask[u]), captures')
               /\ Carrying(Job(u), arcTask[u]) =>
                    /\ arcTask[u].row \notin RowsIn(arcDb')
                    /\ \A v \in DOMAIN arcTask \ {u} : arcTask[u].row \notin RowsWith(arcTask'[v])
    <2>1. /\ RemovedTask(arcLog.removed, Job(u), arcTask[u])
          /\ Numbered(RowsWith(arcTask[u]), captures)
          /\ Carrying(Job(u), arcTask[u]) =>
                /\ arcTask[u].row \notin RowsIn(arcDb)
                /\ \A v \in DOMAIN arcTask \ {u} : arcTask[u].row \notin RowsWith(arcTask[v])
      BY GoneOf
    <2>2. Carrying(Job(u), arcTask[u]) =>
                arcTask[u].row \notin RowsWith(arcTask[t]) /\ arcTask[u].row # NoRow
      BY <2>1 DEF Carrying
    <2>3. arcTask[u].row \in RowsWith(arcTask[u])
      BY DEF RowsWith
    <2>4. arcTask[u].row \notin fresh
      BY <1>6, <2>1, <2>3 DEF Numbered
    <2>5. RemovedTask(arcLog'.removed, Job(u), arcTask[u])
      <3>1. Carrying(Job(u), arcTask[u]) => arcTask[u].row \notin arcLog'.removed
        BY <2>1, <2>2 DEF RemovedTask
      <3>2. Job(u) \in Locking /\ arcTask[u].goal = "save" => arcLog'.removed = arcLog.removed
        OBVIOUS
      <3>. QED  BY <2>1, <3>1, <3>2 DEF RemovedTask
    <2>6. Carrying(Job(u), arcTask[u]) => arcTask[u].row \notin RowsIn(arcDb')
      BY <2>1, <2>2
    <2>7. Carrying(Job(u), arcTask[u]) => arcTask[u].row \notin RowsWith(q)
      BY <2>1, <2>2, <2>4
    <2>8. Carrying(Job(u), arcTask[u]) =>
            \A v \in DOMAIN arcTask \ {u} : arcTask[u].row \notin RowsWith(arcTask'[v])
      BY <1>1, <2>1, <2>7
    <2>. QED  BY <1>4, <2>1, <2>5, <2>6, <2>8
  <1>10. Carrying(Job(t), q) =>
            /\ q.row \notin RowsIn(arcDb')
            /\ \A u \in DOMAIN arcTask \ {t} : q.row \notin RowsWith(arcTask'[u])
    <2>1. CASE Carrying(Job(t), q) /\ q.row = arcTask[t].row
      <3>1. Carrying(Job(t), arcTask[t])
        BY <2>1 DEF Carrying
      <3>. QED  BY <1>1, <2>1, <3>1, GoneOf
    <2>2. CASE Carrying(Job(t), q) /\ q.row \in fresh
      <3>1. \A row \in RowsIn(arcDb) : row.n <= captures
        BY <1>5
      <3>2. \A u \in DOMAIN arcTask \ {t} : \A row \in RowsWith(arcTask[u]) : row.n <= captures
        BY GoneOf DEF Numbered
      <3>. QED  BY <1>1, <1>6, <2>2, <3>1, <3>2
    <2>. QED  BY <2>1, <2>2
  <1>11. ASSUME NEW u \in DOMAIN arcTask
         PROVE  /\ RemovedTask(arcLog'.removed, Job(u), arcTask'[u])
                /\ Numbered(RowsWith(arcTask'[u]), captures')
                /\ Carrying(Job(u), arcTask'[u]) =>
                     /\ arcTask'[u].row \notin RowsIn(arcDb')
                     /\ \A v \in DOMAIN arcTask \ {u} : arcTask'[u].row \notin RowsWith(arcTask'[v])
    <2>1. CASE u = t
      BY <1>1, <1>8, <1>10, <2>1
    <2>2. CASE u # t
      BY <1>1, <1>9, <2>2
    <2>. QED  BY <2>1, <2>2
  <1>. QED  BY <1>1, <1>2, <1>3, <1>8, <1>11 DEF Gone

(* A task goes on; the stores and what was removed stay. *)
LEMMA GoneTurn ==
  ASSUME Based, Gone, NEW t \in DOMAIN arcTask, NEW q, SetTask(t, q), plot' = plot, arcDb' = arcDb,
         arcLog'.removed = arcLog.removed,
         NEW fresh, \A row \in fresh : row.n = captures + 1 /\ captures' = captures + 1,
         captures' \in {captures, captures + 1},
         RemovedTask(arcLog.removed, Job(t), q),
         RowsWith(q) \subseteq RowsWith(arcTask[t]) \union RowsIn(arcDb) \union {NoRow} \union fresh,
         Carrying(Job(t), q) => q.row = arcTask[t].row \/ q.row \in fresh
  PROVE  Gone'
  <1>1. RemovedStore(plot.tables, arcDb', arcLog'.removed)
    BY DEF Gone
  <1>2. RowsIn(arcDb') = RowsIn(arcDb)
    OBVIOUS
  <1>. QED  BY <1>1, <1>2, GoneMove

LEMMA IdleRows ==
  ASSUME NEW pc \in Outside, NEW removed, NEW job
  PROVE  LET q == [IdleTask EXCEPT !.pc = pc]
         IN RowsWith(q) = {NoRow} /\ ~Carrying(job, q) /\ RemovedTask(removed, job, q) /\ q.row = NoRow
  <1>. DEFINE q == [IdleTask EXCEPT !.pc = pc]
  <1>1. q.pc = pc /\ q.goal = "read" /\ q.row = NoRow /\ q.write = NoWrite /\ q.got = Empty
    BY DEF IdleTask
  <1>. HIDE DEF q
  <1>2. RowsWith(q) = {NoRow}
    BY <1>1, NoRows DEF RowsWith
  <1>3. ~Carrying(job, q)
    BY <1>1 DEF Carrying
  <1>4. RemovedTask(removed, job, q)
    BY <1>1, <1>3 DEF RemovedTask, Outside
  <1>. QED  BY <1>1, <1>2, <1>3, <1>4 DEF q

LEMMA GoneLeave ==
  ASSUME Based, Gone, NEW t \in DOMAIN arcTask, ArchiveLeave(t), plot' = plot,
         captures' = captures,
         RemovedStore(plot.tables, arcDb', arcLog'.removed),
         RowsIn(arcDb') \subseteq RowsIn(arcDb) \union RowsWith(arcTask[t]),
         arcLog'.removed \subseteq arcLog.removed \union RowsWith(arcTask[t]),
         \A u \in DOMAIN arcTask \ {t} :
            Job(u) \in Locking /\ arcTask[u].goal = "save" => arcLog'.removed = arcLog.removed
  PROVE  Gone'
  <1>1. PICK pc \in Outside : SetTask(t, [IdleTask EXCEPT !.pc = pc])
    BY Leaves
  <1>. DEFINE r == [IdleTask EXCEPT !.pc = pc]
  <1>2. RowsWith(r) = {NoRow} /\ ~Carrying(Job(t), r) /\ RemovedTask(arcLog'.removed, Job(t), r)
    BY IdleRows
  <1>3. SetTask(t, r)
    BY <1>1
  <1>. HIDE DEF r
  <1>. DEFINE fresh == {}
  <1>4. \A row \in fresh : row.n = captures + 1 /\ captures' = captures + 1
    OBVIOUS
  <1>5. RowsWith(r) \subseteq RowsWith(arcTask[t]) \union RowsIn(arcDb) \union {NoRow} \union fresh
    BY <1>2
  <1>. HIDE DEF fresh
  <1>. QED  BY <1>2, <1>3, <1>4, <1>5, GoneMove

(* A task is over with nothing written. *)
LEMMA GoneOver ==
  ASSUME Based, Gone, NEW t \in DOMAIN arcTask, ArchiveLeave(t), plot' = plot, arcDb' = arcDb,
         captures' = captures, arcLog'.removed = arcLog.removed
  PROVE  Gone'
  <1>1. RemovedStore(plot.tables, arcDb', arcLog'.removed)
    BY DEF Gone
  <1>. QED  BY <1>1, GoneLeave

(* A task goes on with the same rows. *)
LEMMA GoneSame ==
  ASSUME Based, Gone, NEW t \in DOMAIN arcTask, NEW q, SetTask(t, q), plot' = plot, arcDb' = arcDb,
         arcLog'.removed = arcLog.removed, captures' = captures,
         q.row = arcTask[t].row, q.write = arcTask[t].write, q.got = arcTask[t].got,
         q.goal = arcTask[t].goal, q.pc \notin Outside, arcTask[t].pc \in Outside => Job(t) \notin {"snapshot", "edit"},
         Job(t) = "sweep" => q.pc # "save"
  PROVE  Gone'
  <1>1. RowsWith(q) = RowsWith(arcTask[t])
    BY DEF RowsWith
  <1>2. RemovedTask(arcLog.removed, Job(t), q)
    <2>1. RemovedTask(arcLog.removed, Job(t), arcTask[t])
      BY GoneOf
    <2>2. Carrying(Job(t), q) => Carrying(Job(t), arcTask[t])
      BY DEF Carrying
    <2>. QED  BY <2>1, <2>2 DEF RemovedTask
  <1>. DEFINE fresh == {}
  <1>3. \A row \in fresh : row.n = captures + 1 /\ captures' = captures + 1
    OBVIOUS
  <1>4. RowsWith(q) \subseteq RowsWith(arcTask[t]) \union RowsIn(arcDb) \union {NoRow} \union fresh
    BY <1>1
  <1>5. Carrying(Job(t), q) => q.row = arcTask[t].row \/ q.row \in fresh
    OBVIOUS
  <1>. HIDE DEF fresh
  <1>. QED  BY <1>2, <1>3, <1>4, <1>5, GoneTurn

LEMMA RemovedAfterBlame ==
  ASSUME LogInv, NEW reasons, Blame(reasons)
  PROVE  arcLog'.removed = arcLog.removed
  BY DEF Blame, LogInv, LogFields

LEMMA GoneProbe ==
  ASSUME LogInv, Based, Gone, NEW t \in DOMAIN arcTask, Probe(t)
  PROVE  Gone'
  <1>1. PICK mode \in {"dedicated", "legacy"} :
           /\ SetTask(t, [[arcTask[t] EXCEPT !.mode = mode] EXCEPT
                            !.pc = FirstStep(t, [arcTask[t] EXCEPT !.mode = mode])])
           /\ Blame(IF mode = TheStore THEN {} ELSE {"two stores"})
    BY DEF Probe
  <1>2. TaskBase(plot.tables, bot, arcTask[Loader], arcLock, Job(t), t, arcTask[t])
    BY BaseOf
  <1>3. arcTask[t].pc = "probe" /\ plot' = plot /\ arcDb' = arcDb /\ captures' = captures
    BY DEF Probe, At
  <1>. DEFINE q == [arcTask[t] EXCEPT !.mode = mode]
              pc == FirstStep(t, q)
              r == [q EXCEPT !.pc = pc]
  <1>4. /\ DOMAIN q = TaskFields /\ q.goal = arcTask[t].goal /\ q.write = arcTask[t].write
        /\ q.row = arcTask[t].row /\ q.got = arcTask[t].got
    BY <1>2 DEF TaskBase, TaskShape, TaskFields
  <1>5. SetTask(t, r)
    BY <1>1
  <1>. HIDE DEF q
  <1>6. pc \in {"marker", "read", "save"} /\ (pc = "save" => q.goal = "save")
    BY <1>2, <1>4 DEF FirstStep, TaskBase
  <1>. HIDE DEF pc
  <1>7. r.pc = pc /\ r.goal = q.goal /\ r.write = q.write /\ r.row = q.row /\ r.got = q.got
    BY <1>4 DEF TaskFields
  <1>. HIDE DEF r
  <1>8. Job(t) = "sweep" => r.pc # "save"
    BY <1>2, <1>3, <1>4, <1>6, <1>7 DEF TaskBase, TaskStages
  <1>9. r.pc \notin Outside /\ arcTask[t].pc \notin Outside
    BY <1>3, <1>6, <1>7 DEF Outside
  <1>10. arcLog'.removed = arcLog.removed
    BY <1>1, RemovedAfterBlame
  <1>. QED  BY <1>3, <1>4, <1>5, <1>7, <1>8, <1>9, <1>10, GoneSame

LEMMA GoneReceive ==
  ASSUME Based, Gone, NEW t \in DOMAIN arcTask, Receive(t)
  PROVE  Gone'
  <1>. DEFINE row == [msg |-> Msg(t), kind |-> Job(t), ver |-> plot.jobs[t].ver,
                      n |-> captures + 1, at |-> arcClock]
              q == arcTask[t]
  <1>1. /\ Job(t) \in Capturing /\ q.pc = "new"
        /\ plot' = plot /\ arcDb' = arcDb /\ arcLog' = arcLog
    BY DEF Receive, Captures, At, Capturing
  <1>2. DOMAIN q = TaskFields
    BY BaseOf DEF TaskBase, TaskShape
  <1>3. \/ ArchiveLeave(t) /\ captures' = captures
        \/ Job(t) = "deletion" /\ SetTask(t, [q EXCEPT !.pc = "lock"]) /\ captures' = captures
        \/ captures' = captures + 1 /\ SetTask(t, [q EXCEPT !.pc = "lock", !.row = row])
    BY DEF Receive, TaskTo
  <1>4. captures \in Nat /\ RemovedTask(arcLog.removed, Job(t), q)
    BY GoneOf
  <1>5. TaskBase(plot.tables, bot, arcTask[Loader], arcLock, Job(t), t, q)
    BY BaseOf
  <1>6. q.goal = "read" /\ Job(t) # "sweep"
    BY <1>1, <1>5 DEF TaskBase, TaskStages, Outside, Locking, Capturing
  <1>7. row.n = captures + 1 /\ row # NoRow
    BY <1>4 DEF NoRow
  <1>. HIDE DEF q, row
  <1>8. CASE ArchiveLeave(t) /\ captures' = captures
    BY <1>1, <1>8, GoneOver
  <1>9. CASE Job(t) = "deletion" /\ SetTask(t, [q EXCEPT !.pc = "lock"]) /\ captures' = captures
    <2>. DEFINE r == [q EXCEPT !.pc = "lock"]
    <2>1. r.pc = "lock" /\ r.goal = q.goal /\ r.row = q.row /\ r.write = q.write /\ r.got = q.got
      BY <1>2 DEF TaskFields
    <2>2. SetTask(t, r)
      BY <1>9
    <2>. HIDE DEF r
    <2>. QED  BY <1>1, <1>9, <2>1, <2>2, GoneSame DEF Outside, q
  <1>10. CASE captures' = captures + 1 /\ SetTask(t, [q EXCEPT !.pc = "lock", !.row = row])
    <2>. DEFINE r == [q EXCEPT !.pc = "lock", !.row = row]
                fresh == {row}
    <2>1. r.pc = "lock" /\ r.goal = q.goal /\ r.row = row /\ r.write = q.write /\ r.got = q.got
      BY <1>2 DEF TaskFields
    <2>2. SetTask(t, r)
      BY <1>10
    <2>. HIDE DEF r
    <2>3. RowsWith(r) \subseteq RowsWith(q) \union RowsIn(arcDb) \union {NoRow} \union fresh
      BY <2>1 DEF RowsWith
    <2>4. row \notin arcLog.removed
      BY <1>4, <1>7, GoneOf DEF Numbered
    <2>5. RemovedTask(arcLog.removed, Job(t), r)
      BY <1>1, <1>6, <1>7, <2>1, <2>4 DEF RemovedTask, Outside
    <2>6. \A x \in fresh : x.n = captures + 1 /\ captures' = captures + 1
      BY <1>7, <1>10
    <2>7. r.row \in fresh
      BY <2>1
    <2>. HIDE DEF fresh
    <2>8. captures' \in {captures, captures + 1} /\ arcLog'.removed = arcLog.removed
      BY <1>1, <1>10
    <2>. QED  BY <1>1, <2>2, <2>3, <2>5, <2>6, <2>7, <2>8, GoneTurn DEF q
  <1>. QED  BY <1>3, <1>8, <1>9, <1>10

LEMMA GoneBegins ==
  ASSUME Based, Gone, NEW t \in DOMAIN arcTask, RemoveBegin(t) \/ LockTaken(t) \/ SweepBegin(t)
  PROVE  Gone'
  <1>1. plot' = plot /\ arcDb' = arcDb /\ arcLog' = arcLog /\ captures' = captures
    BY DEF RemoveBegin, LockTaken, SweepBegin
  <1>2. TaskBase(plot.tables, bot, arcTask[Loader], arcLock, Job(t), t, arcTask[t])
    BY BaseOf
  <1>3. DOMAIN arcTask[t] = TaskFields /\ arcTask[t].goal \in {"read", "save"}
    BY <1>2 DEF TaskBase, TaskShape
  <1>4. SetTask(t, [arcTask[t] EXCEPT !.pc = "lock"]) \/ SetTask(t, Asking(t, arcTask[t]))
    BY DEF RemoveBegin, LockTaken, SweepBegin, TaskTo
  <1>5. Job(t) = "sweep" => arcTask[t].goal = "read"
    BY <1>2 DEF TaskBase, TaskStages
  <1>6. arcTask[t].pc \in Outside => Job(t) \notin {"snapshot", "edit"}
    BY DEF RemoveBegin, LockTaken, SweepBegin, At, Removes, Outside
  <1>7. ASSUME NEW r, SetTask(t, r),
               r.row = arcTask[t].row, r.write = arcTask[t].write, r.got = arcTask[t].got,
               r.goal = arcTask[t].goal, r.pc \in {"lock", "probe", "marker", "read", "save"},
               r.pc = "save" => r.goal = "save"
        PROVE  Gone'
    <2>1. r.pc \notin Outside /\ (Job(t) = "sweep" => r.pc # "save") /\ arcLog'.removed = arcLog.removed
      BY <1>1, <1>5, <1>7 DEF Outside
    <2>. QED  BY <1>1, <1>6, <1>7, <2>1, GoneSame
  <1>8. CASE SetTask(t, [arcTask[t] EXCEPT !.pc = "lock"])
    <2>. DEFINE r == [arcTask[t] EXCEPT !.pc = "lock"]
    <2>1. r.pc = "lock" /\ r.goal = arcTask[t].goal /\ r.row = arcTask[t].row
          /\ r.write = arcTask[t].write /\ r.got = arcTask[t].got
      BY <1>3 DEF TaskFields
    <2>2. SetTask(t, r)
      BY <1>8
    <2>. HIDE DEF r
    <2>. QED  BY <1>7, <2>1, <2>2
  <1>9. CASE SetTask(t, Asking(t, arcTask[t]))
    <2>. DEFINE r == Asking(t, arcTask[t])
    <2>1. /\ r.pc \in {"probe", "marker", "read", "save"} /\ (r.pc = "save" => arcTask[t].goal = "save")
          /\ r.goal = arcTask[t].goal /\ r.row = arcTask[t].row
          /\ r.write = arcTask[t].write /\ r.got = arcTask[t].got
      BY <1>3, AskingKeeps
    <2>2. SetTask(t, r)
      BY <1>9
    <2>. HIDE DEF r
    <2>. QED  BY <1>7, <2>1, <2>2
  <1>. QED  BY <1>4, <1>8, <1>9

LEMMA GoneLoadBegin ==
  ASSUME Based, Gone, LoadBegin
  PROVE  Gone'
  <1>1. Loader \in DOMAIN arcTask
    BY DEF Based
  <1>2. Job(Loader) = "load"
    BY <1>1, JobsAre
  <1>3. /\ plot' = plot /\ arcDb' = arcDb /\ arcLog' = arcLog /\ captures' = captures
        /\ SetTask(Loader, Asking(Loader, IdleTask))
    BY DEF LoadBegin
  <1>4. IdleTask.goal = "read" /\ DOMAIN IdleTask = TaskFields
    BY DEF IdleTask, TaskFields
  <1>. DEFINE r == Asking(Loader, IdleTask)
              fresh == {}
  <1>5. /\ r.pc \in {"probe", "marker", "read", "save"}
        /\ r.goal = IdleTask.goal /\ r.row = IdleTask.row /\ r.write = IdleTask.write
        /\ r.got = IdleTask.got
    BY <1>4, AskingKeeps
  <1>6. SetTask(Loader, r)
    BY <1>3
  <1>. HIDE DEF r
  <1>7. RowsWith(r) \subseteq RowsWith(arcTask[Loader]) \union RowsIn(arcDb) \union {NoRow} \union fresh
    BY <1>5, NoRows DEF RowsWith
  <1>8. ~Carrying(Job(Loader), r)
    BY <1>2 DEF Carrying, Capturing
  <1>9. RemovedTask(arcLog.removed, Job(Loader), r)
    BY <1>2, <1>5, <1>8 DEF RemovedTask, Outside, Locking, Capturing, Removing
  <1>10. \A x \in fresh : x.n = captures + 1 /\ captures' = captures + 1
    OBVIOUS
  <1>. HIDE DEF fresh
  <1>11. captures' \in {captures, captures + 1} /\ arcLog'.removed = arcLog.removed
    BY <1>3
  <1>. QED  BY <1>1, <1>3, <1>6, <1>7, <1>8, <1>9, <1>10, <1>11, GoneTurn

LEMMA GoneLoadRead ==
  ASSUME Based, Gone, LoadRead
  PROVE  Gone'
  <1>1. Loader \in DOMAIN arcTask
    BY DEF Based
  <1>2. /\ ArchiveLeave(Loader) /\ plot' = plot /\ arcDb' = arcDb /\ arcLog' = arcLog
        /\ captures' = captures
    BY DEF LoadRead
  <1>. QED  BY <1>1, <1>2, GoneOver

(* The rows read have not been removed. *)
LEMMA ReadIsNotGone ==
  ASSUME Based, Gone, NEW t \in DOMAIN arcTask, arcTask[t].pc \in Talking
  PROVE  /\ RowsOf(InStore(arcTask[t].mode)) \subseteq RowsIn(arcDb)
         /\ RowsOf(InStore(arcTask[t].mode)) \cap arcLog.removed = {}
  <1>1. /\ TaskBase(plot.tables, bot, arcTask[Loader], arcLock, Job(t), t, arcTask[t])
        /\ DbShape(arcDb)
    BY BaseOf
  <1>2. arcTask[t].mode = StoreOf(plot.tables)
    BY <1>1 DEF TaskBase
  <1>3. RemovedStore(plot.tables, arcDb, arcLog.removed)
    BY DEF Gone
  <1>4. RowsOf(InStore(arcTask[t].mode)) =
            IF arcTask[t].mode = "dedicated" THEN arcDb.entries ELSE RowsOf(arcDb.shards)
    BY <1>1, InStoreRows
  <1>. QED  BY <1>2, <1>3, <1>4 DEF RemovedStore, StoreOf, RowsIn

LEMMA GoneReplace ==
  ASSUME Based, Gone, NEW t \in DOMAIN arcTask, arcTask[t].pc = "read", Job(t) \in Locking,
         NEW rows, NEW row, Replace(t, rows, row),
         NEW fresh, \A x \in fresh : x.n = captures + 1 /\ captures' = captures + 1,
         captures' \in {captures, captures + 1},
         row = NoRow \/ row \in fresh \/ (row = arcTask[t].row /\ Job(t) \in Capturing),
         Job(t) \in {"snapshot", "edit"} => row # NoRow,
         rows \subseteq RowsOf(InStore(arcTask[t].mode)) \union ({row} \ {NoRow}),
         plot' = plot, arcDb' = arcDb, arcLog' = arcLog
  PROVE  Gone'
  <1>1. TaskBase(plot.tables, bot, arcTask[Loader], arcLock, Job(t), t, arcTask[t])
    BY BaseOf
  <1>. DEFINE all == RowsOf(InStore(arcTask[t].mode))
              drops == all \ rows
              w == [NoWrite EXCEPT !.cells = Whole(rows), !.drops = drops]
              q == [arcTask[t] EXCEPT !.goal = "save", !.row = row, !.write = w]
              r == Asking(t, q)
  <1>2. SetTask(t, r)
    BY DEF Replace
  <1>3. RowsOf(w.cells) = rows /\ w.drops = drops
    BY WholeRows DEF NoWrite
  <1>. HIDE DEF w
  <1>4. DOMAIN q = TaskFields /\ q.goal = "save" /\ q.write = w /\ q.row = row /\ q.got = arcTask[t].got
    BY <1>1 DEF TaskBase, TaskShape, TaskFields
  <1>. HIDE DEF q
  <1>5. /\ r.pc \in {"probe", "marker", "read", "save"}
        /\ r.goal = "save" /\ r.write = w /\ r.row = row /\ r.got = arcTask[t].got
    BY <1>4, AskingKeeps
  <1>. HIDE DEF r
  <1>6. all \subseteq RowsIn(arcDb) /\ all \cap arcLog.removed = {}
    <2>1. arcTask[t].pc \in Talking
      BY DEF Talking
    <2>. QED  BY <2>1, ReadIsNotGone
  <1>7. row # NoRow => row \notin arcLog.removed
    <2>1. CASE row \in fresh
      <3>1. captures \in Nat /\ \A x \in arcLog.removed : x.n \in Int /\ x.n <= captures
        BY GoneOf DEF Numbered
      <3>. QED  BY <2>1, <3>1
    <2>2. CASE row = arcTask[t].row /\ Job(t) \in Capturing
      BY <2>2, GoneOf DEF RemovedTask, Carrying
    <2>. QED  BY <2>1, <2>2
  <1>. HIDE DEF all
  <1>8. rows \cap (arcLog.removed \union drops) = {}
    BY <1>6, <1>7 DEF all
  <1>9. RemovedTask(arcLog.removed, Job(t), r)
    <2>1. RowsOf(r.write.cells) \cap (arcLog.removed \union r.write.drops) = {}
      BY <1>3, <1>5, <1>8
    <2>2. Job(t) # "sweep"
      BY DEF Locking, Capturing, Removing
    <2>. HIDE DEF drops
    <2>. QED  BY <1>5, <1>7, <2>1, <2>2 DEF RemovedTask, Carrying, Outside
  <1>10. RowsWith(r) \subseteq RowsWith(arcTask[t]) \union RowsIn(arcDb) \union {NoRow} \union fresh
    <2>1. RowsWith(r) = rows \union drops \union RowsOf(arcTask[t].got) \union {row}
      BY <1>3, <1>5 DEF RowsWith
    <2>2. rows \subseteq RowsIn(arcDb) \union {row} /\ drops \subseteq RowsIn(arcDb)
      BY <1>6 DEF all
    <2>3. row \in {NoRow} \union fresh \union RowsWith(arcTask[t])
      BY DEF RowsWith
    <2>4. RowsOf(arcTask[t].got) \subseteq RowsWith(arcTask[t])
      BY DEF RowsWith
    <2>. HIDE DEF drops
    <2>. QED  BY <2>1, <2>2, <2>3, <2>4
  <1>11. Carrying(Job(t), r) => r.row = arcTask[t].row \/ r.row \in fresh
    BY <1>5 DEF Carrying
  <1>12. arcLog'.removed = arcLog.removed
    OBVIOUS
  <1>. QED  BY <1>2, <1>9, <1>10, <1>11, <1>12, GoneTurn

(* A removal leaves some of the rows it read. *)
LEMMA GoneRemoval ==
  ASSUME Based, Gone, NEW t \in DOMAIN arcTask, arcTask[t].pc = "read", Job(t) \in Removing,
         NEW left, left \subseteq RowsOf(InStore(arcTask[t].mode)), Replace(t, left, NoRow),
         plot' = plot, arcDb' = arcDb, arcLog' = arcLog, captures' = captures
  PROVE  Gone'
  <1>. DEFINE fresh == {}
              row == NoRow
  <1>1. \A x \in fresh : x.n = captures + 1 /\ captures' = captures + 1
    OBVIOUS
  <1>2. Job(t) \in Locking
    BY DEF Locking
  <1>3. Job(t) \in {"snapshot", "edit"} => row # NoRow
    BY DEF Removing
  <1>4. row = NoRow \/ row \in fresh \/ (row = arcTask[t].row /\ Job(t) \in Capturing)
    OBVIOUS
  <1>5. Replace(t, left, row)
    OBVIOUS
  <1>6. left \subseteq RowsOf(InStore(arcTask[t].mode)) \union ({row} \ {NoRow})
    OBVIOUS
  <1>7. captures' \in {captures, captures + 1}
    OBVIOUS
  <1>. HIDE DEF fresh, row
  <1>. QED  BY <1>1, <1>2, <1>3, <1>4, <1>5, <1>6, <1>7, GoneReplace

LEMMA GoneReadRows ==
  ASSUME Based, Gone, NEW t \in DOMAIN arcTask, ReadRows(t)
  PROVE  Gone'
  <1>. DEFINE all == RowsOf(InStore(arcTask[t].mode))
              rows == Bounded(all, NoRow)
              deletion == [msg |-> Msg(t), kind |-> "deletion", ver |-> 0, n |-> captures + 1,
                           at |-> arcClock]
  <1>1. /\ plot' = plot /\ arcDb' = arcDb /\ arcLog' = arcLog
        /\ arcTask[t].pc = "read" /\ (Captures(t) \/ Removes(t))
    BY DEF ReadRows, At
  <1>2. Job(t) \in Locking /\ (Removes(t) <=> Job(t) \in Removing) /\ (~Removes(t) => Job(t) \in Capturing)
    BY <1>1 DEF Captures, Removes, Locking, Capturing, Removing
  <1>3. \/ ArchiveLeave(t) /\ captures' = captures
        \/ Removes(t) /\ captures' = captures /\ Replace(t, rows \ Victims(t, rows), NoRow)
        \/ Job(t) = "deletion" /\ captures' = captures + 1 /\ Replace(t, WithRow(rows, deletion), deletion)
        \/ /\ Job(t) \in {"snapshot", "edit"} /\ captures' = captures
           /\ Replace(t, WithRow(rows, arcTask[t].row), arcTask[t].row)
    <2>1. CASE Removes(t)
      <3>1. ~(Job(t) = "deletion")
        BY <2>1 DEF Removes
      <3>. QED  BY <2>1, <3>1 DEF ReadRows
    <2>2. CASE ~Removes(t) /\ Job(t) = "deletion"
      BY <2>2 DEF ReadRows
    <2>3. CASE ~Removes(t) /\ Job(t) # "deletion"
      <3>1. Job(t) \in {"snapshot", "edit"}
        BY <1>2, <2>3 DEF Capturing
      <3>. QED  BY <2>3, <3>1 DEF ReadRows
    <2>. QED  BY <2>1, <2>2, <2>3
  <1>4. rows \subseteq all
    BY BoundedIsIn
  <1>5. captures \in Nat /\ RemovedTask(arcLog.removed, Job(t), arcTask[t])
    BY GoneOf
  <1>6. deletion.n = captures + 1 /\ deletion # NoRow
    BY <1>5 DEF NoRow
  <1>. HIDE DEF rows, deletion
  <1>7. CASE ArchiveLeave(t) /\ captures' = captures
    BY <1>1, <1>7, GoneOver
  <1>8. CASE Removes(t) /\ captures' = captures /\ Replace(t, rows \ Victims(t, rows), NoRow)
    <2>. DEFINE left == rows \ Victims(t, rows)
    <2>1. left \subseteq all
      BY <1>4
    <2>2. Replace(t, left, NoRow)
      BY <1>8
    <2>. HIDE DEF left
    <2>3. Job(t) \in Removing
      BY <1>2, <1>8
    <2>. QED  BY <1>1, <1>8, <2>1, <2>2, <2>3, GoneRemoval
  <1>9. CASE Job(t) = "deletion" /\ captures' = captures + 1
             /\ Replace(t, WithRow(rows, deletion), deletion)
    <2>. DEFINE fresh == {deletion}
    <2>1. \A x \in fresh : x.n = captures + 1 /\ captures' = captures + 1
      BY <1>6, <1>9
    <2>2. WithRow(rows, deletion) \subseteq all \union ({deletion} \ {NoRow})
      BY <1>4, <1>6, WithRowIsIn
    <2>3. deletion \in fresh
      OBVIOUS
    <2>. HIDE DEF fresh
    <2>4. captures' \in {captures, captures + 1}
      BY <1>9
    <2>. QED  BY <1>1, <1>2, <1>6, <1>9, <2>1, <2>2, <2>3, <2>4, GoneReplace
  <1>10. CASE /\ Job(t) \in {"snapshot", "edit"} /\ captures' = captures
              /\ Replace(t, WithRow(rows, arcTask[t].row), arcTask[t].row)
    <2>. DEFINE fresh == {}
                row == arcTask[t].row
    <2>1. \A x \in fresh : x.n = captures + 1 /\ captures' = captures + 1
      OBVIOUS
    <2>2. row # NoRow
      BY <1>1, <1>5, <1>10 DEF RemovedTask, Outside
    <2>3. WithRow(rows, row) \subseteq all \union ({row} \ {NoRow})
      BY <1>4, <2>2, WithRowIsIn
    <2>. HIDE DEF fresh
    <2>4. captures' \in {captures, captures + 1} /\ Job(t) \in Capturing
      BY <1>10 DEF Capturing
    <2>. QED  BY <1>1, <1>2, <1>10, <2>1, <2>2, <2>3, <2>4, GoneReplace
  <1>. QED  BY <1>3, <1>7, <1>8, <1>9, <1>10

(* A task that carries no row of its own goes on with rows of the store. *)
LEMMA GoneOther ==
  ASSUME Based, Gone, NEW t \in DOMAIN arcTask, NEW r, SetTask(t, r), plot' = plot, arcDb' = arcDb,
         captures' = captures, arcLog'.removed = arcLog.removed,
         r.row = arcTask[t].row, r.got = arcTask[t].got \/ RowsOf(r.got) \subseteq RowsIn(arcDb),
         RowsOf(r.write.cells) \union r.write.drops \subseteq RowsWith(arcTask[t]) \union RowsIn(arcDb),
         r.pc \notin Outside, Job(t) \notin {"snapshot", "edit"}, ~(Job(t) \in Locking /\ r.goal = "save"),
         Job(t) = "sweep" /\ r.pc = "save" => \A i \in Shards : r.write.cells[i] \subseteq r.got[i]
  PROVE  Gone'
  <1>. DEFINE fresh == {}
  <1>1. \A x \in fresh : x.n = captures + 1 /\ captures' = captures + 1
    OBVIOUS
  <1>2. RowsWith(r) \subseteq RowsWith(arcTask[t]) \union RowsIn(arcDb) \union {NoRow} \union fresh
    BY DEF RowsWith
  <1>. HIDE DEF fresh
  <1>3. RemovedTask(arcLog.removed, Job(t), r)
    <2>1. RemovedTask(arcLog.removed, Job(t), arcTask[t])
      BY GoneOf
    <2>. QED  BY <2>1 DEF RemovedTask, Carrying
  <1>. QED  BY <1>1, <1>2, <1>3, GoneTurn

LEMMA GoneChangeBegin ==
  ASSUME Based, Gone, NEW t \in DOMAIN arcTask, ChangeBegin(t)
  PROVE  Gone'
  <1>1. TaskBase(plot.tables, bot, arcTask[Loader], arcLock, Job(t), t, arcTask[t])
    BY BaseOf
  <1>2. Job(t) = "change" /\ plot' = plot /\ arcDb' = arcDb /\ arcLog' = arcLog /\ captures' = captures
    BY DEF ChangeBegin
  <1>. DEFINE w == [NoWrite EXCEPT !.doc = Changed(bot.doc)]
              q == [arcTask[t] EXCEPT !.goal = "save", !.write = w]
              r == Asking(t, q)
  <1>3. ArchiveLeave(t) \/ SetTask(t, r)
    BY DEF ChangeBegin
  <1>4. w.cells = Empty /\ w.drops = {}
    BY NoRows DEF NoWrite
  <1>. HIDE DEF w
  <1>5. /\ DOMAIN q = TaskFields /\ q.goal = "save" /\ q.write = w
        /\ q.row = arcTask[t].row /\ q.got = arcTask[t].got
    BY <1>1 DEF TaskBase, TaskShape, TaskFields
  <1>. HIDE DEF q
  <1>6. /\ r.pc \in {"probe", "marker", "read", "save"}
        /\ r.write = w /\ r.row = arcTask[t].row /\ r.got = arcTask[t].got
    BY <1>5, AskingKeeps
  <1>. HIDE DEF r
  <1>7. RowsOf(r.write.cells) \union r.write.drops \subseteq RowsWith(arcTask[t]) \union RowsIn(arcDb)
    BY <1>4, <1>6, NoRows
  <1>8. r.pc \notin Outside /\ Job(t) \notin {"snapshot", "edit"} /\ ~(Job(t) \in Locking /\ r.goal = "save")
        /\ Job(t) # "sweep"
    BY <1>2, <1>6 DEF Outside, Locking, Capturing, Removing
  <1>9. CASE ArchiveLeave(t)
    BY <1>2, <1>9, GoneOver
  <1>10. CASE SetTask(t, r)
    BY <1>2, <1>6, <1>7, <1>8, <1>10, GoneOther
  <1>. QED  BY <1>3, <1>9, <1>10

LEMMA GoneSweepRead ==
  ASSUME Based, Gone, NEW t \in DOMAIN arcTask, SweepRead(t)
  PROVE  Gone'
  <1>1. TaskBase(plot.tables, bot, arcTask[Loader], arcLock, Job(t), t, arcTask[t])
    BY BaseOf
  <1>2. /\ Job(t) = "sweep" /\ arcTask[t].pc = "read" /\ plot' = plot /\ arcDb' = arcDb
        /\ arcLog' = arcLog /\ captures' = captures
    BY DEF SweepRead, At
  <1>. DEFINE got == InStore(arcTask[t].mode)
              r == [arcTask[t] EXCEPT !.pc = "retention", !.got = got]
  <1>3. ArchiveLeave(t) \/ SetTask(t, r)
    BY DEF SweepRead
  <1>4. RowsOf(got) \subseteq RowsIn(arcDb)
    <2>1. arcTask[t].pc \in Talking
      BY <1>2 DEF Talking
    <2>. QED  BY <2>1, ReadIsNotGone
  <1>. HIDE DEF got
  <1>5. r.pc = "retention" /\ r.got = got /\ r.row = arcTask[t].row /\ r.write = arcTask[t].write
    BY <1>1 DEF TaskBase, TaskShape, TaskFields
  <1>. HIDE DEF r
  <1>6. RowsOf(r.write.cells) \union r.write.drops \subseteq RowsWith(arcTask[t]) \union RowsIn(arcDb)
    BY <1>5 DEF RowsWith
  <1>7. r.pc \notin Outside /\ Job(t) \notin {"snapshot", "edit"} /\ Job(t) \notin Locking
    BY <1>2, <1>5 DEF Outside, Locking, Capturing, Removing
  <1>8. CASE ArchiveLeave(t)
    BY <1>2, <1>8, GoneOver
  <1>9. CASE SetTask(t, r)
    BY <1>2, <1>4, <1>5, <1>6, <1>7, <1>9, GoneOther
  <1>. QED  BY <1>3, <1>8, <1>9

LEMMA GoneSweepRetention ==
  ASSUME LogInv, Based, Gone, NEW t \in DOMAIN arcTask, SweepRetention(t)
  PROVE  Gone'
  <1>1. TaskBase(plot.tables, bot, arcTask[Loader], arcLock, Job(t), t, arcTask[t])
    BY BaseOf
  <1>2. /\ arcTask[t].pc = "retention" /\ plot' = plot /\ arcDb' = arcDb /\ captures' = captures
    BY DEF SweepRetention, At
  <1>3. Job(t) = "sweep"
    <2>1. Job(t) \in Locking \union {"load", "change", "sweep"}
      BY JobsAre
    <2>. QED  BY <1>1, <1>2, <2>1 DEF TaskBase, TaskStages, Outside, Importing
  <1>. DEFINE got == arcTask[t].got
              what == IF arcTask[t].mode = "dedicated" THEN "prune" ELSE "shards"
  <1>4. PICK readable \in BOOLEAN :
          LET doc == IF readable THEN DocIn(arcTask[t].mode) ELSE "none"
              expired == Expired(RowsOf(got), doc)
          IN /\ \/ ArchiveLeave(t)
                \/ SetTask(t, [arcTask[t] EXCEPT !.pc = "save", !.write = [NoWrite EXCEPT
                                 !.what = what,
                                 !.cells = [i \in Shards |-> got[i] \ expired],
                                 !.drops = expired]])
             /\ Blame(IF readable THEN {} ELSE {"retention unread"})
    BY DEF SweepRetention
  <1>. DEFINE doc == IF readable THEN DocIn(arcTask[t].mode) ELSE "none"
              expired == Expired(RowsOf(got), doc)
              cells == [i \in Shards |-> got[i] \ expired]
              w == [NoWrite EXCEPT !.what = what, !.cells = cells, !.drops = expired]
              r == [arcTask[t] EXCEPT !.pc = "save", !.write = w]
  <1>5. ArchiveLeave(t) \/ SetTask(t, r)
    BY <1>4
  <1>6. arcLog'.removed = arcLog.removed
    BY <1>4, RemovedAfterBlame
  <1>7. expired \subseteq RowsOf(got)
    BY DEF Expired
  <1>. HIDE DEF expired
  <1>8. RowsOf(cells) \subseteq RowsOf(got) /\ \A i \in Shards : cells[i] \subseteq got[i]
    BY DEF RowsOf
  <1>. HIDE DEF cells
  <1>9. w.cells = cells /\ w.drops = expired
    BY DEF NoWrite
  <1>. HIDE DEF w
  <1>10. r.pc = "save" /\ r.got = got /\ r.row = arcTask[t].row /\ r.write = w
    BY <1>1 DEF TaskBase, TaskShape, TaskFields
  <1>. HIDE DEF r
  <1>11. RowsOf(r.write.cells) \union r.write.drops \subseteq RowsWith(arcTask[t]) \union RowsIn(arcDb)
    BY <1>7, <1>8, <1>9, <1>10 DEF RowsWith
  <1>12. r.pc \notin Outside /\ Job(t) \notin {"snapshot", "edit"} /\ Job(t) \notin Locking
    BY <1>3, <1>10 DEF Outside, Locking, Capturing, Removing
  <1>13. \A i \in Shards : r.write.cells[i] \subseteq r.got[i]
    BY <1>8, <1>9, <1>10
  <1>14. CASE ArchiveLeave(t)
    BY <1>2, <1>6, <1>14, GoneOver
  <1>15. CASE SetTask(t, r)
    BY <1>2, <1>6, <1>10, <1>11, <1>12, <1>13, <1>15, GoneOther
  <1>. QED  BY <1>5, <1>14, <1>15

LEMMA GoneImportRead ==
  ASSUME LogInv, Based, Gone, Clear', NEW t \in DOMAIN arcTask, ImportRead(t)
  PROVE  Gone'
  <1>. DEFINE q == arcTask[t]
  <1>1. /\ q.pc \in Importing
        /\ \/ Blame({"import cut short"})
           \/ UNCHANGED arcLog /\ \E pc \in Importing \union {"read"} :
                \/ TaskTo(t, pc)
                \/ \E w : /\ SetTask(t, [q EXCEPT !.pc = pc, !.write = w])
                          /\ w.drops = {}
                          /\ \/ w.cells = Whole(Bounded(RowsOf(arcDb.shards), NoRow))
                             \/ w.cells = Empty
    <2>1. PICK from \in {"marker", "entries", "shards", "document"} :
          /\ q.pc = from
          /\ \/ Blame({"import cut short"})
             \/ /\ UNCHANGED arcLog
                /\ \/ /\ from = "marker"
                      /\ TaskTo(t, IF Marked THEN "read" ELSE "entries")
                   \/ /\ from = "entries"
                      /\ TaskTo(t, IF arcDb.entries # {} THEN "document" ELSE "shards")
                   \/ /\ from = "shards"
                      /\ LET rows == Bounded(RowsOf(arcDb.shards), NoRow)
                         IN SetTask(t, [arcTask[t] EXCEPT
                              !.pc = IF rows = {} THEN "document" ELSE "rows",
                              !.write = [NoWrite EXCEPT !.what = "entries", !.cells = Whole(rows)]])
                   \/ /\ from = "document"
                      /\ SetTask(t, [arcTask[t] EXCEPT !.pc = "settings",
                              !.write = [NoWrite EXCEPT !.what = "cfg", !.doc = Sanitized(arcDb.doc)]])
      BY DEF ImportRead, At
    <2>2. {"marker", "entries", "shards", "document", "rows", "settings"} \subseteq Importing
      BY DEF Importing
    <2>. DEFINE rows == Bounded(RowsOf(arcDb.shards), NoRow)
                w1 == [NoWrite EXCEPT !.what = "entries", !.cells = Whole(rows)]
                w2 == [NoWrite EXCEPT !.what = "cfg", !.doc = Sanitized(arcDb.doc)]
    <2>3. w1.cells = Whole(rows) /\ w1.drops = {} /\ w2.cells = Empty /\ w2.drops = {}
      BY NoRows DEF NoWrite
    <2>4. \/ Blame({"import cut short"})
          \/ UNCHANGED arcLog /\ \E pc \in {"read", "entries", "document", "shards"} : TaskTo(t, pc)
          \/ UNCHANGED arcLog /\ \E pc \in {"document", "rows"} : SetTask(t, [q EXCEPT !.pc = pc, !.write = w1])
          \/ UNCHANGED arcLog /\ SetTask(t, [q EXCEPT !.pc = "settings", !.write = w2])
      BY <2>1
    <2>. HIDE DEF w1, w2, q
    <2>. QED  BY <2>1, <2>2, <2>3, <2>4
  <1>2. ~Blame({"import cut short"})
    <2>1. Blame({"import cut short"}) => "import cut short" \in arcLog'.why
      BY BlameKeepsDoc
    <2>. QED  BY <2>1 DEF Clear
  <1>3. TaskBase(plot.tables, bot, arcTask[Loader], arcLock, Job(t), t, q)
    BY BaseOf
  <1>4. q.goal = "read" /\ Job(t) \in Removing \union {"load"} /\ DOMAIN q = TaskFields
    <2>1. Job(t) \in Locking \union {"load", "change", "sweep"}
      BY JobsAre
    <2>. QED  BY <1>1, <1>3, <2>1 DEF TaskBase, TaskShape, TaskStages, Importing, Outside, Locking
  <1>5. plot' = plot /\ arcDb' = arcDb /\ captures' = captures /\ arcLog' = arcLog
    BY <1>1, <1>2 DEF ImportRead
  <1>6. PICK pc \in Importing \union {"read"} :
                \/ TaskTo(t, pc)
                \/ \E w : /\ SetTask(t, [q EXCEPT !.pc = pc, !.write = w])
                          /\ w.drops = {}
                          /\ \/ w.cells = Whole(Bounded(RowsOf(arcDb.shards), NoRow))
                             \/ w.cells = Empty
    BY <1>1, <1>2
  <1>7. Job(t) \notin {"snapshot", "edit"} /\ Job(t) # "sweep" /\ pc \notin Outside
    BY <1>4 DEF Removing, Outside, Importing
  <1>. HIDE DEF q
  <1>8. ASSUME NEW r, SetTask(t, r), r.pc = pc, r.row = q.row, r.got = q.got, r.goal = q.goal,
               RowsOf(r.write.cells) \union r.write.drops \subseteq RowsWith(q) \union RowsIn(arcDb)
        PROVE  Gone'
    BY <1>4, <1>5, <1>7, <1>8, GoneOther DEF q
  <1>9. CASE TaskTo(t, pc)
    <2>. DEFINE r == [q EXCEPT !.pc = pc]
    <2>1. SetTask(t, r)
      BY <1>9 DEF TaskTo, q
    <2>2. r.pc = pc /\ r.row = q.row /\ r.got = q.got /\ r.goal = q.goal /\ r.write = q.write
      BY <1>4 DEF TaskFields
    <2>. HIDE DEF r
    <2>3. RowsOf(r.write.cells) \union r.write.drops \subseteq RowsWith(q) \union RowsIn(arcDb)
      BY <2>2 DEF RowsWith
    <2>. QED  BY <1>8, <2>1, <2>2, <2>3
  <1>10. ASSUME NEW w, SetTask(t, [q EXCEPT !.pc = pc, !.write = w]), w.drops = {},
                w.cells = Whole(Bounded(RowsOf(arcDb.shards), NoRow)) \/ w.cells = Empty
         PROVE  Gone'
    <2>. DEFINE r == [q EXCEPT !.pc = pc, !.write = w]
    <2>1. SetTask(t, r)
      BY <1>10
    <2>2. r.pc = pc /\ r.row = q.row /\ r.got = q.got /\ r.goal = q.goal /\ r.write = w
      BY <1>4 DEF TaskFields
    <2>. HIDE DEF r
    <2>3. RowsOf(w.cells) \subseteq RowsIn(arcDb)
      BY <1>10, WholeRows, NoRows, BoundedIsIn DEF RowsIn
    <2>4. RowsOf(r.write.cells) \union r.write.drops \subseteq RowsWith(q) \union RowsIn(arcDb)
      BY <1>10, <2>2, <2>3
    <2>. QED  BY <1>8, <2>1, <2>2, <2>4
  <1>. QED  BY <1>6, <1>9, <1>10

(* What a write leaves in the stores, done, undone or half-way. *)
LEMMA EntriesWritten ==
  ASSUME DbShape(arcDb), NEW w, w.what = "entries", NEW db \in {arcDb, Landed(w)} \union Torn(w)
  PROVE  /\ db.entries \subseteq arcDb.entries \union RowsOf(w.cells)
         /\ db.shards = arcDb.shards /\ db.cfg = arcDb.cfg
  BY EntriesLand DEF Torn, DbShape, DbFields

LEMMA ShardsWritten ==
  ASSUME DbShape(arcDb), NEW w, w.what = "shards", NEW db \in {arcDb, Landed(w)} \union Torn(w)
  PROVE  /\ RowsOf(db.shards) \subseteq RowsOf(arcDb.shards) \union RowsOf(w.cells)
         /\ db.entries = arcDb.entries /\ db.cfg = arcDb.cfg
  <1>1. CASE db \in {arcDb, Landed(w)}
    BY <1>1, ShardsLand
  <1>2. CASE db \in Torn(w)
    <2>1. PICK k \in 1 .. ShardCount - 1 :
            db = [arcDb EXCEPT !.shards = [i \in Shards |-> IF i <= k THEN w.cells[i] ELSE @[i]]]
      BY <1>2 DEF Torn
    <2>. DEFINE shards == [i \in Shards |-> IF i <= k THEN w.cells[i] ELSE arcDb.shards[i]]
    <2>2. db.shards = shards /\ db.entries = arcDb.entries /\ db.cfg = arcDb.cfg
      BY <2>1 DEF DbShape, DbFields
    <2>3. \A i \in Shards : shards[i] \subseteq w.cells[i] \union arcDb.shards[i]
      OBVIOUS
    <2>. HIDE DEF shards
    <2>. QED  BY <2>2, <2>3 DEF RowsOf
  <1>. QED  BY <1>1, <1>2

LEMMA PruneWritten ==
  ASSUME DbShape(arcDb), NEW w, w.what = "prune", NEW db \in {arcDb, Landed(w)} \union Torn(w)
  PROVE  db.entries \subseteq arcDb.entries /\ db.shards = arcDb.shards /\ db.cfg = arcDb.cfg
  BY PruneLands DEF Torn

(* The import writes before anything was removed. *)
LEMMA GoneImportWrite ==
  ASSUME LogInv, Based, Gone, Clear', NEW t \in DOMAIN arcTask, ImportWrite(t)
  PROVE  Gone'
  <1>. DEFINE q == arcTask[t]
              w == q.write
  <1>1. PICK from \in {"rows", "settings"}, sure \in BOOLEAN, newer \in BOOLEAN :
          /\ q.pc = from /\ Attempt(w, sure)
          /\ arcDb.cfg # "none" => newer
          /\ TaskTo(t, IF sure /\ from = "rows" THEN "document" ELSE "read")
          /\ Blame(Tearing(w) \union (IF sure THEN {} ELSE {"import cut short"})
                              \union (IF newer THEN {"import beside a write"} ELSE {}))
    BY DEF ImportWrite, At
  <1>2. ~newer
    <2>. DEFINE cut == IF sure THEN {} ELSE {"import cut short"}
                beside == IF newer THEN {"import beside a write"} ELSE {}
    <2>1. Blame(Tearing(w) \union cut \union beside)
      BY <1>1
    <2>2. beside \subseteq arcLog'.why
      <3>. HIDE DEF cut, beside
      <3>. QED  BY <2>1, BlameKeepsDoc
    <2>. QED  BY <1>1, <2>2 DEF Clear
  <1>3. /\ TaskBase(plot.tables, bot, arcTask[Loader], arcLock, Job(t), t, q)
        /\ DbShape(arcDb) /\ RemovedStore(plot.tables, arcDb, arcLog.removed)
    BY BaseOf, GoneOf
  <1>4. /\ plot.tables /\ q.goal = "read" /\ DOMAIN q = TaskFields
        /\ Job(t) \in Removing \union {"load"}
    <2>1. Job(t) \in Locking \union {"load", "change", "sweep"}
      BY JobsAre
    <2>. QED  BY <1>1, <1>3, <2>1 DEF TaskBase, TaskShape, TaskStages, Importing, Outside, Locking
  <1>5. arcLog.removed = {}
    BY <1>1, <1>2, <1>3, <1>4 DEF RemovedStore
  <1>6. arcLog'.removed = arcLog.removed
    <2>. DEFINE reasons == Tearing(w) \union (IF sure THEN {} ELSE {"import cut short"})
                              \union (IF newer THEN {"import beside a write"} ELSE {})
    <2>1. Blame(reasons)
      BY <1>1
    <2>. HIDE DEF reasons
    <2>. QED  BY <2>1, RemovedAfterBlame
  <1>7. plot' = plot /\ captures' = captures
    BY DEF ImportWrite
  <1>8. /\ arcDb'.entries \subseteq arcDb.entries \union RowsOf(w.cells) /\ arcDb'.shards = arcDb.shards
    <2>1. (from = "rows" => w.what = "entries") /\ (from = "settings" => w.what = "cfg")
      BY <1>1, <1>3 DEF TaskBase
    <2>2. arcDb' \in {arcDb, Landed(w)} \union Torn(w)
      BY <1>1, AttemptedWrite
    <2>. HIDE DEF w
    <2>3. CASE from = "rows"
      BY <1>3, <2>1, <2>2, <2>3, EntriesWritten
    <2>4. CASE from = "settings"
      <3>1. Torn(w) = {}
        BY <2>1, <2>4 DEF Torn
      <3>. QED  BY <1>3, <2>1, <2>2, <2>4, <3>1, SettingsLandAs
    <2>. QED  BY <1>1, <2>3, <2>4
  <1>9. RemovedStore(plot.tables, arcDb', arcLog'.removed)
    BY <1>4, <1>5, <1>6 DEF RemovedStore
  <1>10. RowsIn(arcDb') \subseteq RowsIn(arcDb) \union RowsWith(arcTask[t])
    BY <1>8 DEF RowsIn, RowsWith
  <1>. DEFINE pc == IF sure /\ from = "rows" THEN "document" ELSE "read"
              r == [q EXCEPT !.pc = pc]
  <1>11. SetTask(t, r)
    BY <1>1 DEF TaskTo
  <1>12. r.pc = pc /\ r.row = q.row /\ r.got = q.got /\ r.goal = "read" /\ r.write = q.write
    BY <1>4 DEF TaskFields
  <1>13. pc \notin Outside
    BY DEF Outside
  <1>. HIDE DEF r, pc
  <1>. DEFINE fresh == {}
  <1>14. \A row \in fresh : row.n = captures + 1 /\ captures' = captures + 1
    OBVIOUS
  <1>15. RowsWith(r) \subseteq RowsWith(arcTask[t]) \union RowsIn(arcDb) \union {NoRow} \union fresh
    BY <1>12 DEF RowsWith
  <1>. HIDE DEF fresh
  <1>16. ~Carrying(Job(t), r)
    BY <1>4 DEF Carrying, Capturing, Removing
  <1>17. RemovedTask(arcLog'.removed, Job(t), r)
    <2>1. Job(t) \notin {"snapshot", "edit", "sweep"}
      BY <1>4 DEF Removing
    <2>. QED  BY <1>12, <1>13, <1>16, <2>1 DEF RemovedTask
  <1>18. arcLog'.removed \subseteq arcLog.removed \union RowsWith(arcTask[t])
         /\ captures' \in {captures, captures + 1}
    BY <1>6, <1>7
  <1>19. \A u \in DOMAIN arcTask \ {t} :
            Job(u) \in Locking /\ arcTask[u].goal = "save" => arcLog'.removed = arcLog.removed
    BY <1>6
  <1>. HIDE DEF q
  <1>. QED  BY <1>7, <1>9, <1>10, <1>11, <1>14, <1>15, <1>16, <1>17, <1>18, <1>19, GoneMove

(* Rows are replaced under the lock: by rows that were not removed, and that   *)
(* do not hold what this very write removes.                                   *)
LEMMA GoneSaveRows ==
  ASSUME LogInv, Based, Gone, NEW t \in DOMAIN arcTask, SaveRows(t)
  PROVE  Gone'
  <1>. DEFINE q == arcTask[t]
              w == RowsWrite(q)
              rows == RowsOf(q.write.cells)
              drops == q.write.drops
  <1>1. PICK sure \in BOOLEAN :
          /\ Attempt(w, sure)
          /\ arcLog' = [arcLog EXCEPT
                   !.kept = IF sure THEN @ \union ({q.row} \ {NoRow}) ELSE @,
                   !.removed = IF sure /\ Removes(t) THEN @ \union w.drops ELSE @,
                   !.dropped = @ \union Dropping(w),
                   !.why = @ \union Tearing(w)]
    BY DEF SaveRows, RowsWrite
  <1>2. /\ q.pc = "save" /\ Job(t) \in Locking /\ ArchiveLeave(t)
        /\ plot' = plot /\ captures' = captures
    BY DEF SaveRows, At, Captures, Removes, Locking, Capturing, Removing
  <1>3. /\ TaskBase(plot.tables, bot, arcTask[Loader], arcLock, Job(t), t, q)
        /\ BotBase(plot.tables, arcDb, bot, arcTask[Loader]) /\ DbShape(arcDb)
    BY BaseOf
  <1>4. /\ q.goal = "save" /\ q.mode = StoreOf(plot.tables) /\ TaskShape(q)
        /\ plot.tables => arcDb.cfg # "none"
    BY <1>2, <1>3 DEF TaskBase, BotBase, TaskStages, Talking, Locking, Capturing, Removing
  <1>5. rows \cap (arcLog.removed \union drops) = {}
    BY <1>2, <1>4, GoneOf DEF RemovedTask
  <1>6. /\ w.drops = drops
        /\ w.what = IF plot.tables THEN "entries" ELSE "shards"
        /\ w.cells = IF plot.tables THEN q.write.cells ELSE Split(rows, q.row)
    BY <1>4, RowsWriteIs DEF StoreOf
  <1>7. RemovedStore(plot.tables, arcDb, arcLog.removed)
    BY GoneOf
  <1>8. /\ arcLog'.removed = arcLog.removed \/ (sure /\ arcLog'.removed = arcLog.removed \union drops)
    BY <1>1, <1>6 DEF LogInv, LogFields
  <1>9. arcDb' \in {arcDb, Landed(w)} \union Torn(w) /\ (sure => arcDb' = Landed(w))
    BY <1>1, AttemptedWrite
  <1>10. rows \union drops \subseteq RowsWith(arcTask[t])
    BY DEF RowsWith
  <1>. HIDE DEF w, q, drops
  <1>11. RowsOf(w.cells) \subseteq rows
    BY <1>6, SplitRows
  <1>. HIDE DEF rows
  <1>12. /\ plot.tables => /\ arcDb'.entries \subseteq arcDb.entries \union rows
                           /\ arcDb'.shards = arcDb.shards /\ arcDb'.cfg = arcDb.cfg
                           /\ sure => arcDb'.entries \subseteq rows
         /\ ~plot.tables => /\ RowsOf(arcDb'.shards) \subseteq RowsOf(arcDb.shards) \union rows
                            /\ arcDb'.entries = arcDb.entries
                            /\ sure => RowsOf(arcDb'.shards) \subseteq rows
    <2>1. CASE plot.tables
      <3>1. /\ arcDb'.entries \subseteq arcDb.entries \union RowsOf(w.cells)
            /\ arcDb'.shards = arcDb.shards /\ arcDb'.cfg = arcDb.cfg
        BY <1>3, <1>6, <1>9, <2>1, EntriesWritten
      <3>2. sure => arcDb'.entries = RowsOf(w.cells)
        BY <1>3, <1>6, <1>9, <2>1, EntriesLand
      <3>. QED  BY <1>11, <2>1, <3>1, <3>2
    <2>2. CASE ~plot.tables
      <3>1. /\ RowsOf(arcDb'.shards) \subseteq RowsOf(arcDb.shards) \union RowsOf(w.cells)
            /\ arcDb'.entries = arcDb.entries
        BY <1>3, <1>6, <1>9, <2>2, ShardsWritten
      <3>2. sure => arcDb'.shards = w.cells
        BY <1>3, <1>6, <1>9, <2>2, ShardsLand
      <3>. QED  BY <1>11, <2>2, <3>1, <3>2
    <2>. QED  BY <2>1, <2>2
  <1>13. RemovedStore(plot.tables, arcDb', arcLog'.removed)
    BY <1>4, <1>5, <1>7, <1>8, <1>12 DEF RemovedStore
  <1>14. RowsIn(arcDb') \subseteq RowsIn(arcDb) \union RowsWith(arcTask[t])
    BY <1>10, <1>12 DEF RowsIn
  <1>15. arcLog'.removed \subseteq arcLog.removed \union RowsWith(arcTask[t])
    BY <1>8, <1>10
  <1>16. \A u \in DOMAIN arcTask \ {t} :
            Job(u) \in Locking /\ arcTask[u].goal = "save" => arcLog'.removed = arcLog.removed
    BY <1>2, OthersOfTheLock DEF q
  <1>. QED  BY <1>2, <1>13, <1>14, <1>15, <1>16, GoneLeave

LEMMA GoneSaveSettings ==
  ASSUME LogInv, Based, Gone, NEW t \in DOMAIN arcTask, SaveSettings(t)
  PROVE  Gone'
  <1>. DEFINE q == arcTask[t]
              what == IF q.mode = "dedicated" THEN "cfg" ELSE "doc"
              w == [q.write EXCEPT !.what = what]
  <1>1. PICK sure \in BOOLEAN :
          /\ Attempt(w, sure)
          /\ arcLog' = [arcLog EXCEPT !.doc = IF sure THEN Changed(@) ELSE @]
    BY DEF SaveSettings
  <1>2. /\ Job(t) = "change" /\ q.pc = "save" /\ ArchiveLeave(t)
        /\ plot' = plot /\ captures' = captures
    BY DEF SaveSettings, At
  <1>3. TaskBase(plot.tables, bot, arcTask[Loader], arcLock, Job(t), t, q) /\ DbShape(arcDb)
    BY BaseOf
  <1>4. q.goal = "save" /\ TaskShape(q) /\ q.write.doc \in Docs
    BY <1>2, <1>3 DEF TaskBase, TaskStages, Outside
  <1>5. w.doc \in Docs /\ w.what \in {"cfg", "doc"}
    BY <1>4 DEF TaskShape, WriteFields
  <1>6. arcLog'.removed = arcLog.removed
    BY <1>1 DEF LogInv, LogFields
  <1>7. RemovedStore(plot.tables, arcDb, arcLog.removed)
    BY GoneOf
  <1>. HIDE DEF w, q
  <1>8. arcDb' \in {arcDb, Landed(w)}
    <2>1. Torn(w) = {}
      BY <1>5 DEF Torn
    <2>. QED  BY <1>1, <2>1, AttemptedWrite
  <1>9. w.doc # "none"
    BY <1>5 DEF Docs
  <1>10. /\ arcDb'.entries = arcDb.entries /\ arcDb'.shards = arcDb.shards
         /\ arcDb'.cfg = "none" => arcDb.cfg = "none"
    BY <1>3, <1>5, <1>8, <1>9, SettingsLandAs
  <1>11. RemovedStore(plot.tables, arcDb', arcLog'.removed)
    BY <1>6, <1>7, <1>10 DEF RemovedStore
  <1>12. RowsIn(arcDb') \subseteq RowsIn(arcDb) \union RowsWith(arcTask[t])
         /\ arcLog'.removed \subseteq arcLog.removed \union RowsWith(arcTask[t])
    BY <1>6, <1>10 DEF RowsIn
  <1>13. \A u \in DOMAIN arcTask \ {t} :
            Job(u) \in Locking /\ arcTask[u].goal = "save" => arcLog'.removed = arcLog.removed
    BY <1>6
  <1>. QED  BY <1>2, <1>11, <1>12, <1>13, GoneLeave

(* A sweep puts back no more than it read, and what it read is still there. *)
LEMMA GoneSweepSave ==
  ASSUME LogInv, Based, Gone, Clear', NEW t \in DOMAIN arcTask, SweepSave(t)
  PROVE  Gone'
  <1>. DEFINE q == arcTask[t]
              w == q.write
              moved == w.what = "shards" /\ arcDb.shards # q.got
  <1>1. PICK sure \in BOOLEAN :
          /\ Attempt(w, sure)
          /\ arcLog' = [arcLog EXCEPT
                   !.dropped = @ \union Expired(Dropping(w), Effective),
                   !.why = @ \union Tearing(w) \union (IF moved THEN {"sweep beside a write"} ELSE {})]
    BY DEF SweepSave
  <1>2. /\ Job(t) = "sweep" /\ q.pc = "save" /\ ArchiveLeave(t)
        /\ plot' = plot /\ captures' = captures
    BY DEF SweepSave, At
  <1>3. /\ TaskBase(plot.tables, bot, arcTask[Loader], arcLock, Job(t), t, q) /\ DbShape(arcDb)
        /\ RemovedStore(plot.tables, arcDb, arcLog.removed)
    BY BaseOf, GoneOf
  <1>4. w.what = (IF plot.tables THEN "prune" ELSE "shards")
    BY <1>2, <1>3 DEF TaskBase, Outside
  <1>5. \A i \in Shards : w.cells[i] \subseteq q.got[i]
    BY <1>2, GoneOf DEF RemovedTask
  <1>6. arcLog'.removed = arcLog.removed /\ (moved => "sweep beside a write" \in arcLog'.why)
    BY <1>1 DEF LogInv, LogFields
  <1>7. ~plot.tables => arcDb.shards = q.got
    BY <1>4, <1>6 DEF Clear
  <1>8. arcDb' \in {arcDb, Landed(w)} \union Torn(w)
    BY <1>1, AttemptedWrite
  <1>. HIDE DEF w, q
  <1>9. ~plot.tables => RowsOf(w.cells) \subseteq RowsOf(arcDb.shards)
    BY <1>5, <1>7 DEF RowsOf
  <1>10. /\ arcDb'.entries \subseteq arcDb.entries /\ RowsOf(arcDb'.shards) \subseteq RowsOf(arcDb.shards)
         /\ plot.tables => arcDb'.cfg = arcDb.cfg
    <2>1. CASE plot.tables
      BY <1>3, <1>4, <1>8, <2>1, PruneWritten
    <2>2. CASE ~plot.tables
      BY <1>3, <1>4, <1>8, <1>9, <2>2, ShardsWritten
    <2>. QED  BY <2>1, <2>2
  <1>11. RemovedStore(plot.tables, arcDb', arcLog'.removed)
    BY <1>3, <1>6, <1>10 DEF RemovedStore
  <1>12. RowsIn(arcDb') \subseteq RowsIn(arcDb) \union RowsWith(arcTask[t])
         /\ arcLog'.removed \subseteq arcLog.removed \union RowsWith(arcTask[t])
    BY <1>6, <1>10 DEF RowsIn
  <1>13. \A u \in DOMAIN arcTask \ {t} :
            Job(u) \in Locking /\ arcTask[u].goal = "save" => arcLog'.removed = arcLog.removed
    BY <1>6
  <1>. QED  BY <1>2, <1>11, <1>12, <1>13, GoneLeave

LEMMA GoneRestart ==
  ASSUME Based, Gone, ArchiveRestart
  PROVE  Gone'
  <1>1. /\ plot' = plot /\ arcDb' = arcDb /\ arcLog' = arcLog /\ captures' = captures
        /\ DOMAIN arcTask' = DOMAIN arcTask
    BY DEF ArchiveRestart
  <1>2. \A t : Job(t)' = Job(t)
    BY <1>1 DEF Job
  <1>3. ASSUME NEW t \in DOMAIN arcTask
        PROVE  \/ arcTask'[t] = arcTask[t]
               \/ /\ RowsWith(arcTask'[t]) = {NoRow} /\ ~Carrying(Job(t), arcTask'[t])
                  /\ RemovedTask(arcLog.removed, Job(t), arcTask'[t])
    <2>1. \/ arcTask'[t] = arcTask[t]
          \/ \E pc \in Outside : arcTask'[t] = [IdleTask EXCEPT !.pc = pc]
      BY DEF ArchiveRestart, Outside
    <2>2. ASSUME NEW pc \in Outside, arcTask'[t] = [IdleTask EXCEPT !.pc = pc]
          PROVE  /\ RowsWith(arcTask'[t]) = {NoRow} /\ ~Carrying(Job(t), arcTask'[t])
                 /\ RemovedTask(arcLog.removed, Job(t), arcTask'[t])
      <3>. DEFINE r == [IdleTask EXCEPT !.pc = pc]
                  job == Job(t)
                  removed == arcLog.removed
      <3>1. RowsWith(r) = {NoRow} /\ ~Carrying(job, r) /\ RemovedTask(removed, job, r)
        <4>. HIDE DEF job, removed
        <4>. QED  BY IdleRows
      <3>2. arcTask'[t] = r
        BY <2>2
      <3>. HIDE DEF r
      <3>. QED  BY <3>1, <3>2
    <2>. QED  BY <2>1, <2>2
  <1>4. Numbered({NoRow}, captures)
    BY GoneOf DEF Gone, Numbered, NoRow
  <1>5. ASSUME NEW t \in DOMAIN arcTask
        PROVE  /\ RemovedTask(arcLog.removed, Job(t), arcTask'[t])
               /\ Numbered(RowsWith(arcTask'[t]), captures)
    BY <1>3, <1>4, GoneOf
  <1>6. ASSUME NEW t \in DOMAIN arcTask, Carrying(Job(t), arcTask'[t])
        PROVE  /\ arcTask'[t].row \notin RowsIn(arcDb)
               /\ \A u \in DOMAIN arcTask \ {t} : arcTask'[t].row \notin RowsWith(arcTask'[u])
    <2>1. arcTask'[t] = arcTask[t]
      BY <1>3, <1>6
    <2>2. arcTask[t].row # NoRow
      BY <1>6, <2>1 DEF Carrying
    <2>3. ASSUME NEW u \in DOMAIN arcTask \ {t}
          PROVE  arcTask[t].row \notin RowsWith(arcTask'[u])
      <3>1. arcTask[t].row \notin RowsWith(arcTask[u])
        BY <1>6, <2>1, GoneOf
      <3>. QED  BY <1>3, <2>2, <3>1
    <2>. QED  BY <1>6, <2>1, <2>3, GoneOf
  <1>. QED  BY <1>1, <1>2, <1>5, <1>6 DEF Gone

LEMMA GoneMemory ==
  ASSUME Gone, plot' = plot, arcDb' = arcDb, arcTask' = arcTask, arcLog' = arcLog, captures' = captures
  PROVE  Gone'
  <1>1. \A t : Job(t)' = Job(t)
    BY DEF Job
  <1>. QED  BY <1>1 DEF Gone

LEMMA GoneInit == ArchiveInit => RemovedInv
  <1>. SUFFICES ASSUME ArchiveInit PROVE Gone
    BY DEF RemovedInv
  <1>1. /\ plot \in Plots /\ arcDb = plot.db /\ captures = Cardinality(plot.rows)
        /\ arcTask = [t \in ArchiveTasks \union {Loader} |-> IdleTask]
        /\ arcLog.removed = {}
    BY DEF ArchiveInit
  <1>2. captures \in Nat
    BY <1>1, PlotAssumption, FS_CardinalityType
  <1>3. RemovedStore(plot.tables, arcDb, arcLog.removed)
    BY <1>1 DEF RemovedStore
  <1>4. Numbered(RowsIn(arcDb) \union arcLog.removed, captures)
    BY <1>1, <1>2, PlotAssumption DEF RowsIn, Numbered
  <1>5. [IdleTask EXCEPT !.pc = "new"] = IdleTask /\ "new" \in Outside
    BY DEF IdleTask, Outside
  <1>6. RowsWith(IdleTask) = {NoRow} /\ \A job : ~Carrying(job, IdleTask) /\ RemovedTask({}, job, IdleTask)
    BY <1>5, IdleRows
  <1>7. Numbered({NoRow}, captures)
    BY <1>2 DEF Numbered, NoRow
  <1>8. ASSUME NEW t \in DOMAIN arcTask
        PROVE  arcTask[t] = IdleTask
    BY <1>1
  <1>. QED  BY <1>1, <1>2, <1>3, <1>4, <1>6, <1>7, <1>8 DEF Gone

LEMMA GoneStep ==
  ASSUME LogInv, Based, Gone, ArchiveNext, Clear'
  PROVE  Gone'
  <1>1. ASSUME NEW t \in DOMAIN arcTask, Probe(t) \/ ImportRead(t) \/ ImportWrite(t)
        PROVE  Gone'
    BY <1>1, GoneProbe, GoneImportRead, GoneImportWrite
  <1>2. ASSUME NEW t \in ArchiveTasks, TaskStep(t)
        PROVE  Gone'
    <2>1. t \in DOMAIN arcTask
      BY DEF Based
    <2>2. CASE Receive(t)
      BY <2>1, <2>2, GoneReceive
    <2>3. CASE RemoveBegin(t) \/ LockTaken(t) \/ SweepBegin(t)
      BY <2>1, <2>3, GoneBegins
    <2>4. CASE ReadRows(t) \/ SaveRows(t)
      BY <2>1, <2>4, GoneReadRows, GoneSaveRows
    <2>5. CASE ChangeBegin(t) \/ SaveSettings(t)
      BY <2>1, <2>5, GoneChangeBegin, GoneSaveSettings
    <2>6. CASE SweepRead(t) \/ SweepRetention(t) \/ SweepSave(t)
      BY <2>1, <2>6, GoneSweepRead, GoneSweepRetention, GoneSweepSave
    <2>. QED  BY <1>2, <2>2, <2>3, <2>4, <2>5, <2>6 DEF TaskStep
  <1>3. CASE LoadBegin \/ LoadRead
    BY <1>3, GoneLoadBegin, GoneLoadRead
  <1>4. CASE LateLands
    <2>1. Blame({"late write"})
      BY <1>4 DEF LateLands
    <2>2. "late write" \in arcLog'.why
      BY <2>1, BlameKeepsDoc
    <2>. QED  BY <2>2 DEF Clear
  <1>5. CASE PauseEnds \/ Refresh \/ ArchiveTick
    BY <1>5, GoneMemory DEF PauseEnds, Refresh, ArchiveTick
  <1>6. CASE ArchiveRestart
    BY <1>6, GoneRestart
  <1>. QED  BY <1>1, <1>2, <1>3, <1>4, <1>5, <1>6 DEF ArchiveNext, ArchiveStep

LEMMA RemovedInvStep == BaseInv /\ RemovedInv /\ [ArchiveNext]_archiveVars => RemovedInv'
  <1>. SUFFICES ASSUME BaseInv, RemovedInv, [ArchiveNext]_archiveVars, Clear' PROVE Gone'
    BY DEF RemovedInv
  <1>1. CASE UNCHANGED archiveVars
    <2>1. Clear
      BY <1>1 DEF archiveVars, Clear
    <2>. QED  BY <1>1, <2>1, GoneMemory DEF archiveVars, RemovedInv
  <1>2. CASE ArchiveNext
    <2>1. arcLog.why \subseteq arcLog'.why
      BY <1>2, LogSteps DEF BaseInv
    <2>2. Clear
      BY <2>1 DEF Clear
    <2>. QED  BY <1>2, <2>2, GoneStep, ClearIsNotAstray DEF BaseInv, RemovedInv
  <1>. QED  BY <1>1, <1>2

LEMMA RemovedIsGone == BaseInv /\ RemovedInv => RemovedRowsStayRemoved
  <1>. SUFFICES ASSUME BaseInv, RemovedInv, Clear PROVE arcLog.removed \cap Archived = {}
    BY DEF RemovedRowsStayRemoved, Clear
  <1>1. DbShape(arcDb)
    BY ClearIsNotAstray DEF BaseInv, Based
  <1>2. RemovedStore(plot.tables, arcDb, arcLog.removed)
    BY DEF RemovedInv, Gone
  <1>3. /\ RowsOf(InStore("dedicated")) = arcDb.entries
        /\ RowsOf(InStore("legacy")) = RowsOf(arcDb.shards)
    BY <1>1, InStoreRows
  <1>4. CASE AwaitsImport
    BY <1>2, <1>4 DEF AwaitsImport, RemovedStore
  <1>5. CASE ~AwaitsImport
    <2>1. Archived = IF plot.tables THEN arcDb.entries ELSE RowsOf(arcDb.shards)
      BY <1>3, <1>5 DEF Archived, TheStore
    <2>. QED  BY <1>2, <2>1 DEF RemovedStore
  <1>. QED  BY <1>4, <1>5

(* What the owner was told is removed never returns (RemovedRowsStayRemoved):  *)
(* not by an update that had read it, not by a sweep that finds the shards as   *)
(* it read them, not by the import of the older store after a restart, for any  *)
(* number of updates, removals, sweeps, restarts and failures.                  *)
THEOREM RemovedRowsStayGone == ArchiveSpec => []RemovedRowsStayRemoved
  <1>1. ArchiveInit => BaseInv /\ RemovedInv
    BY BaseInit, GoneInit
  <1>2. (BaseInv /\ RemovedInv) /\ [ArchiveNext]_archiveVars => (BaseInv /\ RemovedInv)'
    BY BaseInvStep, RemovedInvStep
  <1>3. BaseInv /\ RemovedInv => RemovedRowsStayRemoved
    BY RemovedIsGone
  <1>. QED  BY <1>1, <1>2, <1>3, PTL DEF ArchiveSpec

-----------------------------------------------------------------------------
(* The bounds of the archive.  They hold of every set of rows there is: in    *)
(* the stores, with the tasks and in writes that may still land; until a      *)
(* write stops half-way.  A row is added to rows that were read under its own  *)
(* id and number, and a list is cut at its bound because numbers differ.       *)

Intact == "torn write" \notin arcLog.why
SoundRows(rows) == IsFiniteSet(rows) /\ WithinBounds(rows)
Unique(rows, count) ==
    \A row \in rows : row.n \in 0 .. count /\ \A other \in rows : row.n = other.n => row = other

RowsHeld(q) == RowsOf(q.write.cells) \union RowsOf(q.got) \union {q.row}
EveryRow == {NoRow} \union RowsIn(arcDb)
               \union (UNION {RowsHeld(arcTask[t]) : t \in DOMAIN arcTask})
               \union (UNION {RowsOf(w.cells) : w \in late})

SoundCells(intact, cells) == DOMAIN cells = Shards /\ (intact => SoundRows(RowsOf(cells)))
SoundDb(intact, db) ==
    /\ DOMAIN db = DbFields /\ {db.cfg, db.doc} \subseteq Docs \union {"none"}
    /\ SoundCells(intact, db.shards) /\ (intact => SoundRows(db.entries))
SoundWrite(intact, w) ==
    /\ DOMAIN w = WriteFields /\ SoundCells(intact, w.cells)
    /\ w.what \in RowWrites \union {"cfg", "doc"}
    /\ w.what \in {"cfg", "doc"} => w.doc \in Docs
SoundBot(b) == DOMAIN b = BotFields /\ b.mode \in {"none", TheStore}
SoundTask(intact, job, q) ==
    /\ DOMAIN q = TaskFields /\ q.goal \in {"read", "save"}
    /\ DOMAIN q.write = WriteFields
    /\ SoundCells(intact, q.write.cells) /\ SoundCells(intact, q.got)
    /\ q.pc = "rows" => q.write.what = "entries"
    /\ q.pc = "settings" => q.write.what = "cfg" /\ q.write.doc \in Docs
    /\ job = "change" => /\ q.pc \notin {"lock", "retention"}
                         /\ q.pc \in {"probe", "save"} => q.write.doc \in Docs
    /\ job = "sweep" => /\ q.goal = "read"
                        /\ q.pc = "save" => q.write.what \in {"prune", "shards"}
RowBounds ==
    /\ plot \in Plots /\ DOMAIN arcTask = ArchiveTasks \union {Loader}
    /\ arcLock \in ArchiveTasks \union {Loader}
    /\ SoundDb(Intact, arcDb) /\ SoundBot(bot)
    /\ \A t \in DOMAIN arcTask : SoundTask(Intact, Job(t), arcTask[t])
    /\ \A w \in late : SoundWrite(Intact, w)
    /\ captures \in Nat /\ Unique(EveryRow, captures)
BoundInv == LogInv /\ RowBounds

LEMMA Capacity ==
  /\ ShardCount \in Nat /\ RowsPerShard \in Nat /\ MaxVersions \in Nat /\ MaxVersions > 0
  /\ ShardCount * RowsPerShard \in Nat /\ ShardCount * RowsPerShard > 0
  <1>1. ShardCount \in Nat /\ RowsPerShard \in Nat /\ MaxVersions \in Nat
        /\ MaxVersions > 0 /\ ShardCount > 0 /\ RowsPerShard > 0
    BY ArchiveAssumption
  <1>. QED  BY <1>1

LEMMA OneMore ==
  ASSUME NEW rows, IsFiniteSet(rows), NEW row
  PROVE  /\ IsFiniteSet(rows \union {row})
         /\ Cardinality(rows \union {row}) <= Cardinality(rows) + 1
  <1>1. Cardinality(rows) \in Nat
    BY FS_CardinalityType
  <1>2. CASE row \in rows
    <2>1. rows \union {row} = rows
      BY <1>2
    <2>. QED  BY <1>1, <2>1
  <1>3. CASE row \notin rows
    BY <1>1, <1>3, FS_AddElement
  <1>. QED  BY <1>2, <1>3

LEMMA ContentIsFinite ==
  ASSUME NEW rows, IsFiniteSet(rows), NEW msg
  PROVE  /\ ContentOf(rows, msg) \subseteq rows /\ IsFiniteSet(ContentOf(rows, msg))
         /\ Cardinality(ContentOf(rows, msg)) \in Nat
  <1>1. ContentOf(rows, msg) \subseteq rows
    BY DEF ContentOf
  <1>. QED  BY <1>1, FS_Subset, FS_CardinalityType

LEMMA SoundContent ==
  ASSUME NEW rows, SoundRows(rows), NEW msg
  PROVE  Cardinality(ContentOf(rows, msg)) <= MaxVersions
  <1>1. CASE ContentOf(rows, msg) = {}
    BY <1>1, FS_EmptySet, Capacity
  <1>2. CASE ContentOf(rows, msg) # {}
    <2>1. PICK a \in rows : a.msg = msg
      BY <1>2 DEF ContentOf
    <2>. QED  BY <2>1 DEF SoundRows, WithinBounds
  <1>. QED  BY <1>1, <1>2

LEMMA SoundSubset ==
  ASSUME NEW rows, SoundRows(rows), NEW fewer, fewer \subseteq rows
  PROVE  SoundRows(fewer)
  <1>1. IsFiniteSet(rows) /\ IsFiniteSet(fewer) /\ Cardinality(fewer) <= Cardinality(rows)
    BY FS_Subset DEF SoundRows
  <1>2. Cardinality(rows) \in Nat /\ Cardinality(fewer) \in Nat
    BY <1>1, FS_CardinalityType
  <1>3. Cardinality(rows) <= ShardCount * RowsPerShard
    BY DEF SoundRows, WithinBounds
  <1>4. Cardinality(fewer) <= ShardCount * RowsPerShard
    BY <1>1, <1>2, <1>3, Capacity
  <1>5. ASSUME NEW a \in fewer
        PROVE  Cardinality(ContentOf(fewer, a.msg)) <= MaxVersions
    <2>1. ContentOf(fewer, a.msg) \subseteq ContentOf(rows, a.msg)
      BY DEF ContentOf
    <2>2. Cardinality(ContentOf(fewer, a.msg)) <= Cardinality(ContentOf(rows, a.msg))
      BY <1>1, <2>1, ContentIsFinite, FS_Subset
    <2>3. Cardinality(ContentOf(fewer, a.msg)) \in Nat /\ Cardinality(ContentOf(rows, a.msg)) \in Nat
      BY <1>1, ContentIsFinite
    <2>. QED  BY <2>2, <2>3, SoundContent, Capacity
  <1>6. \A a, b \in fewer : IdOf(a) = IdOf(b) => a = b
    BY DEF SoundRows, WithinBounds
  <1>. QED  BY <1>1, <1>4, <1>5, <1>6 DEF SoundRows, WithinBounds

LEMMA EmptyIsSound == SoundRows({})
  BY FS_EmptySet, Capacity DEF SoundRows, WithinBounds

(* Some row was made before the others. *)
LEMMA LeastRow ==
  ASSUME NEW rows, rows # {}, \A row \in rows : row.n \in Nat
  PROVE  \E row \in rows : \A other \in rows : row.n <= other.n
  <1>. DEFINE S == {row.n : row \in rows}
  <1>1. S \subseteq Nat /\ S # {}
    OBVIOUS
  <1>2. PICK x \in S : \A y \in S : ~ (<<y, x>> \in OpToRel(<, Nat))
    BY <1>1, NatLessThanWellFounded, WFMin
  <1>3. ASSUME NEW y \in S PROVE x <= y
    <2>1. x \in Nat /\ y \in Nat /\ <<y, x>> \in Nat \X Nat
      BY <1>1
    <2>2. y < x => <<y, x>> \in OpToRel(<, Nat)
      BY <2>1 DEF OpToRel
    <2>3. ~(y < x)
      BY <1>2, <2>2, Zenon
    <2>. QED  BY <2>1, <2>3
  <1>. QED  BY <1>3

(* A list that was cut at the bound is no longer than the bound. *)
LEMMA BoundedCount ==
  ASSUME NEW rows, IsFiniteSet(rows), NEW new, NEW count \in Nat, Unique(rows, count)
  PROVE  Cardinality(Bounded(rows, new)) <= ShardCount * RowsPerShard
  <1>. DEFINE S == Bounded(rows, new)
              cap == ShardCount * RowsPerShard
              low == S \ {new}
  <1>1. S \subseteq rows /\ IsFiniteSet(S) /\ Cardinality(S) \in Nat
    BY BoundedIsIn, FS_Subset, FS_CardinalityType
  <1>2. \A row \in rows : row.n \in Nat
    BY DEF Unique
  <1>3. CASE low = {}
    <2>1. S \subseteq {new} /\ IsFiniteSet({new}) /\ Cardinality({new}) = 1
      BY <1>3, FS_Singleton
    <2>2. Cardinality(S) <= 1
      BY <2>1, FS_Subset
    <2>. QED  BY <1>1, <2>2, Capacity
  <1>4. CASE low # {}
    <2>1. PICK last \in low : \A other \in low : last.n <= other.n
      BY <1>1, <1>2, <1>4, LeastRow
    <2>2. last \in rows /\ last # new /\ last \in S
      BY <1>1, <2>1
    <2>. DEFINE above == {r \in rows : r = new \/ r.n > last.n}
    <2>3. ASSUME NEW x \in S \ {last} PROVE x \in above
      <3>1. CASE x = new
        BY <1>1, <3>1
      <3>2. CASE x # new
        <4>1. x \in rows /\ x \in low /\ x # last
          BY <1>1, <3>2
        <4>2. last.n <= x.n /\ last.n # x.n /\ x.n \in Nat /\ last.n \in Nat
          BY <1>2, <2>1, <2>2, <4>1 DEF Unique
        <4>. QED  BY <4>1, <4>2
      <3>. QED  BY <3>1, <3>2
    <2>4. IsFiniteSet(above) /\ Cardinality(above) \in Nat
      <3>1. above \subseteq rows
        OBVIOUS
      <3>. QED  BY <3>1, FS_Subset, FS_CardinalityType
    <2>5. S \ {last} \subseteq above
      BY <2>3
    <2>6. Cardinality(S \ {last}) = Cardinality(S) - 1
      BY <1>1, <2>2, FS_RemoveElement
    <2>7. Cardinality(S \ {last}) <= Cardinality(above)
      BY <2>4, <2>5, FS_Subset
    <2>8. Rank(rows, new, last) = Cardinality(above)
      BY <2>2 DEF Rank
    <2>9. Rank(rows, new, last) < cap
      BY <2>2 DEF Bounded
    <2>10. Cardinality(above) < cap
      BY <2>8, <2>9
    <2>11. Cardinality(S) - 1 <= Cardinality(above)
      BY <2>6, <2>7
    <2>. HIDE DEF above, S, cap
    <2>12. cap \in Nat
      BY Capacity DEF cap
    <2>. QED  BY <1>1, <2>4, <2>10, <2>11, <2>12 DEF S, cap
  <1>. QED  BY <1>3, <1>4

(* A new row, among rows none of which has its id. *)
LEMMA WithRowIsSound ==
  ASSUME NEW rows, SoundRows(rows), NEW row, NEW count \in Nat, Unique(rows \union {row}, count),
         IdOf(row) \notin {IdOf(other) : other \in rows}
  PROVE  SoundRows(WithRow(rows, row))
  <1>. DEFINE content == ContentOf(rows, row.msg)
              full == row.kind # "deletion" /\ Cardinality(content) >= MaxVersions
              fewer == IF full THEN rows \ Oldest(content) ELSE rows
              all == fewer \union {row}
              S == Bounded(all, row)
  <1>1. WithRow(rows, row) = S /\ fewer \subseteq rows /\ all \subseteq rows \union {row}
    BY DEF WithRow
  <1>2. IsFiniteSet(fewer) /\ IsFiniteSet(all) /\ S \subseteq all /\ IsFiniteSet(S)
    <2>1. IsFiniteSet(fewer)
      BY <1>1, FS_Subset DEF SoundRows
    <2>2. IsFiniteSet(all)
      BY <2>1, FS_AddElement
    <2>. QED  BY <2>1, <2>2, BoundedIsIn, FS_Subset
  <1>3. Unique(all, count)
    BY <1>1 DEF Unique
  <1>4. Cardinality(S) <= ShardCount * RowsPerShard
    BY <1>2, <1>3, BoundedCount
  <1>5. \A a, b \in S : IdOf(a) = IdOf(b) => a = b
    BY <1>1, <1>2 DEF SoundRows, WithinBounds
  <1>6. IsFiniteSet(content) /\ Cardinality(content) \in Nat /\ Cardinality(content) <= MaxVersions
    BY ContentIsFinite, SoundContent DEF SoundRows
  <1>7. row.kind # "deletion" => Cardinality(ContentOf(fewer, row.msg)) <= MaxVersions - 1
    <2>. SUFFICES ASSUME row.kind # "deletion"
                  PROVE  Cardinality(ContentOf(fewer, row.msg)) <= MaxVersions - 1
      OBVIOUS
    <2>1. CASE ~full
      <3>1. fewer = rows /\ ~(Cardinality(content) >= MaxVersions)
        BY <2>1
      <3>. QED  BY <1>6, <3>1, Capacity
    <2>2. CASE full
      <3>1. content # {}
        BY <1>6, <2>2, FS_EmptySet, Capacity
      <3>2. \A r \in content : r.n \in Nat
        BY DEF ContentOf, Unique
      <3>3. PICK oldest \in content : \A other \in content : oldest.n <= other.n
        BY <3>1, <3>2, LeastRow
      <3>4. oldest \in Oldest(content)
        BY <3>3 DEF Oldest
      <3>5. ContentOf(fewer, row.msg) \subseteq content \ {oldest}
        BY <2>2, <3>4 DEF ContentOf
      <3>6. IsFiniteSet(content \ {oldest}) /\ Cardinality(content \ {oldest}) = Cardinality(content) - 1
        BY <1>6, FS_RemoveElement
      <3>7. Cardinality(ContentOf(fewer, row.msg)) <= Cardinality(content \ {oldest})
        BY <3>5, <3>6, FS_Subset
      <3>8. Cardinality(ContentOf(fewer, row.msg)) \in Nat
        BY <1>2, ContentIsFinite
      <3>. HIDE DEF content, fewer
      <3>. QED  BY <1>6, <3>6, <3>7, <3>8, Capacity
    <2>. QED  BY <2>1, <2>2
  <1>8. ASSUME NEW msg
        PROVE  Cardinality(ContentOf(S, msg)) <= MaxVersions
    <2>1. ContentOf(S, msg) \subseteq ContentOf(all, msg)
      BY <1>2 DEF ContentOf
    <2>2. IsFiniteSet(ContentOf(all, msg)) /\ Cardinality(ContentOf(all, msg)) \in Nat
          /\ IsFiniteSet(ContentOf(fewer, msg)) /\ Cardinality(ContentOf(fewer, msg)) \in Nat
          /\ Cardinality(ContentOf(S, msg)) \in Nat
      BY <1>2, ContentIsFinite
    <2>3. Cardinality(ContentOf(S, msg)) <= Cardinality(ContentOf(all, msg))
      BY <2>1, <2>2, FS_Subset
    <2>4. Cardinality(ContentOf(all, msg)) <= MaxVersions
      <3>1. CASE row.msg = msg /\ row.kind # "deletion"
        <4>1. ContentOf(all, msg) \subseteq ContentOf(fewer, msg) \union {row}
          BY DEF ContentOf
        <4>2. IsFiniteSet(ContentOf(fewer, msg) \union {row})
              /\ Cardinality(ContentOf(fewer, msg) \union {row}) <= Cardinality(ContentOf(fewer, msg)) + 1
          BY <2>2, OneMore
        <4>3. Cardinality(ContentOf(all, msg)) <= Cardinality(ContentOf(fewer, msg) \union {row})
          BY <4>1, <4>2, FS_Subset
        <4>4. Cardinality(ContentOf(fewer, msg) \union {row}) \in Nat
          BY <4>2, FS_CardinalityType
        <4>5. Cardinality(ContentOf(fewer, msg)) <= MaxVersions - 1
          BY <1>7, <3>1
        <4>. HIDE DEF all, fewer
        <4>. QED  BY <2>2, <4>2, <4>3, <4>4, <4>5, Capacity
      <3>2. CASE ~(row.msg = msg /\ row.kind # "deletion")
        <4>1. ContentOf(all, msg) \subseteq ContentOf(rows, msg)
          BY <1>1, <3>2 DEF ContentOf
        <4>2. IsFiniteSet(ContentOf(rows, msg)) /\ Cardinality(ContentOf(rows, msg)) \in Nat
          BY ContentIsFinite DEF SoundRows
        <4>3. Cardinality(ContentOf(all, msg)) <= Cardinality(ContentOf(rows, msg))
          BY <4>1, <4>2, FS_Subset
        <4>4. Cardinality(ContentOf(rows, msg)) <= MaxVersions
          BY SoundContent
        <4>. HIDE DEF all
        <4>. QED  BY <2>2, <4>2, <4>3, <4>4, Capacity
      <3>. QED  BY <3>1, <3>2
    <2>. HIDE DEF all, S, fewer
    <2>. QED  BY <2>2, <2>3, <2>4, Capacity
  <1>9. S = WithRow(rows, row) /\ IsFiniteSet(S)
    BY <1>1, <1>2
  <1>. HIDE DEF S
  <1>. QED  BY <1>4, <1>5, <1>8, <1>9 DEF SoundRows, WithinBounds

-----------------------------------------------------------------------------
(* Every step keeps the bounds. *)

LEMMA BoundsOf ==
  ASSUME BoundInv, NEW t \in DOMAIN arcTask
  PROVE  /\ SoundTask(Intact, Job(t), arcTask[t]) /\ RowsHeld(arcTask[t]) \subseteq EveryRow
         /\ SoundDb(Intact, arcDb) /\ RowsIn(arcDb) \subseteq EveryRow /\ SoundBot(bot)
         /\ NoRow \in EveryRow /\ captures \in Nat /\ Unique(EveryRow, captures)
         /\ arcLock \in ArchiveTasks \union {Loader} /\ t \in ArchiveTasks \union {Loader}
         /\ \A w \in late : SoundWrite(Intact, w) /\ RowsOf(w.cells) \subseteq EveryRow
         /\ plot \in Plots /\ LogInv
  <1>1. RowsHeld(arcTask[t]) \subseteq EveryRow /\ RowsIn(arcDb) \subseteq EveryRow /\ NoRow \in EveryRow
    BY DEF EveryRow
  <1>2. \A w \in late : RowsOf(w.cells) \subseteq EveryRow
    BY DEF EveryRow
  <1>. QED  BY <1>1, <1>2 DEF BoundInv, RowBounds

(* What is sound stays so when less is asked. *)
LEMMA SoundEases ==
  ASSUME NEW intact \in BOOLEAN, NEW later \in BOOLEAN, later => intact
  PROVE  /\ \A db : SoundDb(intact, db) => SoundDb(later, db)
         /\ \A w : SoundWrite(intact, w) => SoundWrite(later, w)
         /\ \A job, q : SoundTask(intact, job, q) => SoundTask(later, job, q)
  BY DEF SoundDb, SoundWrite, SoundTask, SoundCells

LEMMA IntactEnds ==
  ASSUME arcLog.why \subseteq arcLog'.why
  PROVE  Intact \in BOOLEAN /\ Intact' \in BOOLEAN /\ (Intact' => Intact)
  BY DEF Intact

LEMMA NumbersStay ==
  ASSUME NEW rows, NEW count \in Nat, Unique(rows, count), NEW later, NEW fresh,
         \A row \in fresh : row.n = count + 1 /\ later = count + 1,
         \A row, other \in fresh : row = other,
         later \in {count, count + 1}, NEW after, after \subseteq rows \union fresh
  PROVE  Unique(after, later)
  <1>1. ASSUME NEW row \in after
        PROVE  row.n \in 0 .. later
    BY <1>1 DEF Unique
  <1>2. ASSUME NEW row \in after, NEW other \in after, row.n = other.n
        PROVE  row = other
    <2>1. CASE row \in rows /\ other \in rows
      BY <1>2, <2>1 DEF Unique
    <2>2. CASE row \in fresh /\ other \in fresh
      BY <2>2
    <2>3. \A a \in rows, b \in fresh : a.n # b.n
      BY DEF Unique
    <2>. QED  BY <1>2, <2>1, <2>2, <2>3
  <1>. QED  BY <1>1, <1>2 DEF Unique

LEMMA BoundMove ==
  ASSUME BoundInv, LogInv', arcLog.why \subseteq arcLog'.why, plot' = plot,
         NEW t \in DOMAIN arcTask, NEW q, SetTask(t, q), SoundTask(Intact', Job(t), q),
         arcLock' \in ArchiveTasks \union {Loader}, SoundBot(bot'),
         SoundDb(Intact', arcDb'), RowsIn(arcDb') \subseteq EveryRow,
         \A w \in late' : \/ w \in late
                          \/ SoundWrite(Intact', w) /\ RowsOf(w.cells) \subseteq EveryRow,
         NEW fresh, \A row \in fresh : row.n = captures + 1 /\ captures' = captures + 1,
         \A row, other \in fresh : row = other,
         captures' \in {captures, captures + 1},
         RowsHeld(q) \subseteq EveryRow \union fresh
  PROVE  BoundInv'
  <1>1. DOMAIN arcTask' = DOMAIN arcTask /\ arcTask'[t] = q
        /\ \A u \in DOMAIN arcTask \ {t} : arcTask'[u] = arcTask[u]
    BY DEF SetTask
  <1>2. \A u : Job(u)' = Job(u)
    BY DEF Job
  <1>3. captures \in Nat /\ captures' \in Nat /\ Unique(EveryRow, captures)
    BY DEF BoundInv, RowBounds
  <1>4. EveryRow' \subseteq EveryRow \union fresh
    <2>1. ASSUME NEW u \in DOMAIN arcTask
          PROVE  RowsHeld(arcTask'[u]) \subseteq EveryRow \union fresh
      BY <1>1, BoundsOf
    <2>2. ASSUME NEW w \in late'
          PROVE  RowsOf(w.cells) \subseteq EveryRow
      BY BoundsOf
    <2>3. EveryRow' = {NoRow} \union RowsIn(arcDb')
                        \union (UNION {RowsHeld(arcTask'[u]) : u \in DOMAIN arcTask'})
                        \union (UNION {RowsOf(w.cells) : w \in late'})
      BY DEF EveryRow
    <2>4. NoRow \in EveryRow
      BY DEF EveryRow
    <2>. QED  BY <1>1, <2>1, <2>2, <2>3, <2>4
  <1>5. Unique(EveryRow', captures')
    BY <1>3, <1>4, NumbersStay
  <1>6. ASSUME NEW u \in DOMAIN arcTask
        PROVE  SoundTask(Intact', Job(u), arcTask'[u])
    BY <1>1, BoundsOf, IntactEnds, SoundEases
  <1>7. \A w \in late' : SoundWrite(Intact', w)
    BY BoundsOf, IntactEnds, SoundEases
  <1>8. /\ plot' \in Plots /\ DOMAIN arcTask' = ArchiveTasks \union {Loader}
        /\ SoundBot(bot)'
    BY <1>1 DEF BoundInv, RowBounds, SoundBot, TheStore
  <1>9. Unique(EveryRow, captures)'
    BY <1>5 DEF Unique
  <1>. QED  BY <1>1, <1>2, <1>3, <1>6, <1>7, <1>8, <1>9 DEF BoundInv, RowBounds

(* One task moves, and neither the stores nor the late writes do. *)
LEMMA BoundTurn ==
  ASSUME BoundInv, LogInv', arcLog.why \subseteq arcLog'.why, plot' = plot,
         NEW t \in DOMAIN arcTask, NEW q, SetTask(t, q), SoundTask(Intact, Job(t), q),
         arcLock' \in ArchiveTasks \union {Loader}, SoundBot(bot'),
         arcDb' = arcDb, late' = late, captures' = captures, RowsHeld(q) \subseteq EveryRow
  PROVE  BoundInv'
  <1>1. SoundTask(Intact', Job(t), q) /\ SoundDb(Intact', arcDb')
    BY BoundsOf, IntactEnds, SoundEases
  <1>2. RowsIn(arcDb') \subseteq EveryRow
    BY BoundsOf
  <1>3. PICK fresh : fresh = {}
    OBVIOUS
  <1>. QED  BY <1>1, <1>2, <1>3, BoundMove

LEMMA IdleIsSound ==
  ASSUME NEW intact, NEW job, NEW pc \in Outside
  PROVE  /\ SoundTask(intact, job, [IdleTask EXCEPT !.pc = pc])
         /\ RowsHeld([IdleTask EXCEPT !.pc = pc]) = {NoRow}
  <1>. DEFINE r == [IdleTask EXCEPT !.pc = pc]
  <1>1. /\ DOMAIN r = TaskFields /\ r.pc = pc /\ r.goal = "read" /\ r.write = NoWrite
        /\ r.got = Empty /\ r.row = NoRow
    BY DEF IdleTask, TaskFields
  <1>2. /\ DOMAIN NoWrite = WriteFields /\ NoWrite.cells = Empty /\ DOMAIN Empty = Shards
        /\ RowsOf(Empty) = {} /\ SoundRows({})
    BY NoRows, IdleFields, EmptyIsSound
  <1>3. pc \notin {"rows", "settings", "lock", "retention", "probe", "save"}
    BY DEF Outside
  <1>. HIDE DEF r
  <1>4. SoundTask(intact, job, r)
    BY <1>1, <1>2, <1>3 DEF SoundTask, SoundCells
  <1>5. RowsHeld(r) = {NoRow}
    BY <1>1, <1>2 DEF RowsHeld
  <1>. QED  BY <1>4, <1>5 DEF r

(* A task is over, whatever it has done to the stores. *)
LEMMA BoundLeave ==
  ASSUME BoundInv, LogInv', arcLog.why \subseteq arcLog'.why, plot' = plot,
         NEW t \in DOMAIN arcTask, ArchiveLeave(t), SoundBot(bot'),
         SoundDb(Intact', arcDb'), RowsIn(arcDb') \subseteq EveryRow,
         \A w \in late' : \/ w \in late
                          \/ SoundWrite(Intact', w) /\ RowsOf(w.cells) \subseteq EveryRow,
         captures' = captures
  PROVE  BoundInv'
  <1>1. PICK pc \in Outside : SetTask(t, [IdleTask EXCEPT !.pc = pc])
    BY DEF ArchiveLeave, Outside
  <1>2. arcLock' \in ArchiveTasks \union {Loader}
    BY BoundsOf DEF ArchiveLeave
  <1>. DEFINE q == [IdleTask EXCEPT !.pc = pc]
  <1>3. SoundTask(Intact', Job(t), q) /\ RowsHeld(q) = {NoRow} /\ NoRow \in EveryRow
    BY IdleIsSound, BoundsOf
  <1>4. SetTask(t, q)
    BY <1>1
  <1>5. PICK fresh : fresh = {}
    OBVIOUS
  <1>. HIDE DEF q
  <1>. QED  BY <1>2, <1>3, <1>4, <1>5, BoundMove

LEMMA BoundOver ==
  ASSUME BoundInv, LogInv', arcLog.why \subseteq arcLog'.why, plot' = plot,
         NEW t \in DOMAIN arcTask, ArchiveLeave(t), SoundBot(bot'),
         arcDb' = arcDb, late' = late, captures' = captures
  PROVE  BoundInv'
  <1>1. SoundDb(Intact', arcDb') /\ RowsIn(arcDb') \subseteq EveryRow
    BY BoundsOf, IntactEnds, SoundEases
  <1>. QED  BY <1>1, BoundLeave

(* A task that only turns. *)
LEMMA TurnIsSound ==
  ASSUME NEW intact, NEW job, NEW q, SoundTask(intact, job, q), NEW pc,
         pc \notin {"rows", "settings", "retention", "probe", "save"},
         pc = "lock" => job # "change"
  PROVE  /\ SoundTask(intact, job, [q EXCEPT !.pc = pc])
         /\ RowsHeld([q EXCEPT !.pc = pc]) = RowsHeld(q)
  <1>. DEFINE r == [q EXCEPT !.pc = pc]
  <1>1. /\ DOMAIN r = TaskFields /\ r.pc = pc /\ r.goal = q.goal /\ r.write = q.write
        /\ r.got = q.got /\ r.row = q.row
    BY DEF SoundTask, TaskFields
  <1>. HIDE DEF r
  <1>2. SoundTask(intact, job, r) /\ RowsHeld(r) = RowsHeld(q)
    BY <1>1 DEF SoundTask, RowsHeld
  <1>. QED  BY <1>2 DEF r

(* Asking for the store. *)
SoundAsk(intact, job, q) ==
    /\ DOMAIN q = TaskFields /\ q.goal \in {"read", "save"}
    /\ DOMAIN q.write = WriteFields
    /\ SoundCells(intact, q.write.cells) /\ SoundCells(intact, q.got)
    /\ job = "change" => q.write.doc \in Docs
    /\ job = "sweep" => q.goal = "read"

LEMMA FirstIsSound ==
  ASSUME NEW intact, NEW t, NEW q, SoundAsk(intact, Job(t), q)
  PROVE  /\ SoundTask(intact, Job(t), [q EXCEPT !.pc = FirstStep(t, q)])
         /\ RowsHeld([q EXCEPT !.pc = FirstStep(t, q)]) = RowsHeld(q)
  <1>. DEFINE pc == FirstStep(t, q)
              r == [q EXCEPT !.pc = pc]
  <1>1. /\ DOMAIN r = TaskFields /\ r.pc = pc /\ r.goal = q.goal /\ r.write = q.write
        /\ r.got = q.got /\ r.row = q.row
    BY DEF SoundAsk, TaskFields
  <1>2. pc \in {"marker", "read", "save"} /\ (q.goal = "read" => pc # "save")
    BY DEF FirstStep, SoundAsk
  <1>. HIDE DEF r, pc
  <1>3. SoundTask(intact, Job(t), r) /\ RowsHeld(r) = RowsHeld(q)
    BY <1>1, <1>2 DEF SoundAsk, SoundTask, RowsHeld
  <1>. QED  BY <1>3 DEF r, pc

LEMMA AskingIsSound ==
  ASSUME NEW intact, NEW t, NEW q, SoundAsk(intact, Job(t), q)
  PROVE  SoundTask(intact, Job(t), Asking(t, q)) /\ RowsHeld(Asking(t, q)) = RowsHeld(q)
  <1>1. CASE bot.mode = "none"
    <2>. DEFINE r == [q EXCEPT !.pc = "probe"]
    <2>1. /\ DOMAIN r = TaskFields /\ r.pc = "probe" /\ r.goal = q.goal
          /\ r.write = q.write /\ r.got = q.got /\ r.row = q.row
      BY DEF SoundAsk, TaskFields
    <2>2. Asking(t, q) = r
      BY <1>1 DEF Asking
    <2>. HIDE DEF r
    <2>. QED  BY <2>1, <2>2 DEF SoundAsk, SoundTask, RowsHeld
  <1>2. CASE bot.mode # "none"
    <2>. DEFINE known == [q EXCEPT !.mode = bot.mode]
    <2>1. /\ DOMAIN known = TaskFields /\ known.goal = q.goal /\ known.write = q.write
          /\ known.got = q.got /\ known.row = q.row
      BY DEF SoundAsk, TaskFields
    <2>2. Asking(t, q) = [known EXCEPT !.pc = FirstStep(t, known)]
      BY <1>2 DEF Asking
    <2>. HIDE DEF known
    <2>3. SoundAsk(intact, Job(t), known) /\ RowsHeld(known) = RowsHeld(q)
      BY <2>1 DEF SoundAsk, RowsHeld
    <2>. QED  BY <2>2, <2>3, FirstIsSound
  <1>. QED  BY <1>1, <1>2

LEMMA BoundProbe ==
  ASSUME BoundInv, NEW t \in DOMAIN arcTask, Probe(t), LogInv', arcLog.why \subseteq arcLog'.why
  PROVE  BoundInv'
  <1>1. PICK mode \in {"dedicated", "legacy"} :
          /\ bot' = bot \/ (mode = TheStore /\ bot' = [bot EXCEPT !.mode = mode])
          /\ LET q == [arcTask[t] EXCEPT !.mode = mode]
             IN SetTask(t, [q EXCEPT !.pc = FirstStep(t, q)])
    BY DEF Probe
  <1>. DEFINE q == [arcTask[t] EXCEPT !.mode = mode]
  <1>2. At(t, "probe") /\ UNCHANGED <<plot, arcDb, arcLock, late, captures>>
    BY DEF Probe
  <1>3. SoundTask(Intact, Job(t), arcTask[t]) /\ arcTask[t].pc = "probe"
    BY <1>2, BoundsOf DEF At
  <1>4. /\ DOMAIN q = TaskFields /\ q.goal = arcTask[t].goal /\ q.write = arcTask[t].write
        /\ q.got = arcTask[t].got /\ q.row = arcTask[t].row
    BY <1>3 DEF SoundTask, TaskFields
  <1>5. SetTask(t, [q EXCEPT !.pc = FirstStep(t, q)])
    BY <1>1
  <1>. HIDE DEF q
  <1>6. SoundAsk(Intact, Job(t), q) /\ RowsHeld(q) = RowsHeld(arcTask[t])
    BY <1>3, <1>4 DEF SoundAsk, SoundTask, RowsHeld
  <1>7. SoundBot(bot')
    BY <1>1, BoundsOf DEF SoundBot, BotFields
  <1>8. arcLock' \in ArchiveTasks \union {Loader} /\ RowsHeld(arcTask[t]) \subseteq EveryRow
    BY <1>2, BoundsOf
  <1>. QED  BY <1>2, <1>5, <1>6, <1>7, <1>8, FirstIsSound, BoundTurn

LEMMA StoreIsSound ==
  ASSUME BoundInv, NEW mode
  PROVE  /\ RowsOf(InStore(mode)) = IF mode = "dedicated" THEN arcDb.entries ELSE RowsOf(arcDb.shards)
         /\ SoundCells(Intact, InStore(mode)) /\ RowsOf(InStore(mode)) \subseteq EveryRow
  <1>1. SoundDb(Intact, arcDb) /\ RowsIn(arcDb) \subseteq EveryRow
    BY DEF BoundInv, RowBounds, EveryRow
  <1>2. CASE mode = "dedicated"
    <2>1. InStore(mode) = Whole(arcDb.entries)
      BY <1>2 DEF InStore
    <2>2. DOMAIN Whole(arcDb.entries) = Shards /\ RowsOf(Whole(arcDb.entries)) = arcDb.entries
      BY WholeRows
    <2>. QED  BY <1>1, <1>2, <2>1, <2>2 DEF SoundDb, SoundCells, RowsIn
  <1>3. CASE mode # "dedicated"
    <2>1. InStore(mode) = arcDb.shards
      BY <1>3 DEF InStore
    <2>. QED  BY <1>1, <1>3, <2>1 DEF SoundDb, RowsIn
  <1>. QED  BY <1>2, <1>3

(* A task takes up a write. *)
LEMMA WritingIsSound ==
  ASSUME BoundInv, NEW t \in DOMAIN arcTask, NEW pc, NEW w, DOMAIN w = WriteFields,
         SoundCells(Intact, w.cells), RowsOf(w.cells) \subseteq EveryRow,
         pc = "rows" => w.what = "entries",
         pc = "settings" => w.what = "cfg" /\ w.doc \in Docs,
         pc \notin {"lock", "retention", "probe"},
         pc = "save" => /\ Job(t) # "change"
                        /\ Job(t) = "sweep" => w.what \in {"prune", "shards"}
  PROVE  LET q == [arcTask[t] EXCEPT !.pc = pc, !.write = w]
         IN SoundTask(Intact, Job(t), q) /\ RowsHeld(q) \subseteq EveryRow
  <1>. DEFINE q == [arcTask[t] EXCEPT !.pc = pc, !.write = w]
  <1>1. SoundTask(Intact, Job(t), arcTask[t]) /\ RowsHeld(arcTask[t]) \subseteq EveryRow
    BY BoundsOf
  <1>2. /\ DOMAIN q = TaskFields /\ q.pc = pc /\ q.goal = arcTask[t].goal /\ q.write = w
        /\ q.got = arcTask[t].got /\ q.row = arcTask[t].row
    BY <1>1 DEF SoundTask, TaskFields
  <1>. HIDE DEF q
  <1>3. SoundTask(Intact, Job(t), q)
    BY <1>1, <1>2 DEF SoundTask
  <1>4. RowsHeld(q) \subseteq EveryRow
    BY <1>1, <1>2 DEF RowsHeld
  <1>. QED  BY <1>3, <1>4 DEF q

LEMMA BoundImportRead ==
  ASSUME BoundInv, NEW t \in DOMAIN arcTask, ImportRead(t), LogInv', arcLog.why \subseteq arcLog'.why
  PROVE  BoundInv'
  <1>1. UNCHANGED <<plot, arcDb, arcLock, late, captures>>
    BY DEF ImportRead
  <1>2. PICK imported : bot' = bot \/ bot' = [bot EXCEPT !.imported = imported]
    BY DEF ImportRead
  <1>3. SoundBot(bot') /\ arcLock' \in ArchiveTasks \union {Loader}
    BY <1>1, <1>2, BoundsOf DEF SoundBot, BotFields
  <1>. DEFINE rows == Bounded(RowsOf(arcDb.shards), NoRow)
              toRows == [NoWrite EXCEPT !.what = "entries", !.cells = Whole(rows)]
              toDoc == [NoWrite EXCEPT !.what = "cfg", !.doc = Sanitized(arcDb.doc)]
  <1>4. \/ \E pc \in {"read", "entries", "document", "shards"} : TaskTo(t, pc)
        \/ \E pc \in {"document", "rows"} :
              SetTask(t, [arcTask[t] EXCEPT !.pc = pc, !.write = toRows])
        \/ SetTask(t, [arcTask[t] EXCEPT !.pc = "settings", !.write = toDoc])
    BY DEF ImportRead
  <1>5. /\ DOMAIN NoWrite = WriteFields /\ NoWrite.cells = Empty /\ DOMAIN Empty = Shards
        /\ RowsOf(Empty) = {} /\ SoundRows({})
    BY NoRows, IdleFields, EmptyIsSound
  <1>6. CASE \E pc \in {"read", "entries", "document", "shards"} : TaskTo(t, pc)
    <2>1. PICK pc \in {"read", "entries", "document", "shards"} : TaskTo(t, pc)
      BY <1>6
    <2>. DEFINE q == [arcTask[t] EXCEPT !.pc = pc]
    <2>2. SetTask(t, q) /\ SoundTask(Intact, Job(t), q) /\ RowsHeld(q) \subseteq EveryRow
      BY <2>1, BoundsOf, TurnIsSound DEF TaskTo
    <2>. HIDE DEF q
    <2>. QED  BY <1>1, <1>3, <2>2, BoundTurn
  <1>7. CASE \E pc \in {"document", "rows"} : SetTask(t, [arcTask[t] EXCEPT !.pc = pc, !.write = toRows])
    <2>1. PICK pc \in {"document", "rows"} : SetTask(t, [arcTask[t] EXCEPT !.pc = pc, !.write = toRows])
      BY <1>7
    <2>2. /\ DOMAIN toRows = WriteFields /\ toRows.what = "entries" /\ toRows.cells = Whole(rows)
      BY <1>5 DEF WriteFields
    <2>3. SoundDb(Intact, arcDb) /\ RowsIn(arcDb) \subseteq EveryRow
      BY BoundsOf
    <2>4. rows \subseteq RowsOf(arcDb.shards)
      BY BoundedIsIn
    <2>5. (Intact => SoundRows(rows)) /\ rows \subseteq EveryRow
      BY <2>3, <2>4, SoundSubset DEF SoundDb, SoundCells, RowsIn
    <2>. HIDE DEF rows
    <2>6. DOMAIN Whole(rows) = Shards /\ RowsOf(Whole(rows)) = rows
      BY WholeRows
    <2>7. SoundCells(Intact, toRows.cells) /\ RowsOf(toRows.cells) \subseteq EveryRow
      BY <2>2, <2>5, <2>6 DEF SoundCells
    <2>. HIDE DEF toRows
    <2>. DEFINE q == [arcTask[t] EXCEPT !.pc = pc, !.write = toRows]
    <2>8. SoundTask(Intact, Job(t), q) /\ RowsHeld(q) \subseteq EveryRow
      BY <2>2, <2>7, WritingIsSound
    <2>9. SetTask(t, q)
      BY <2>1
    <2>. HIDE DEF q
    <2>. QED  BY <1>1, <1>3, <2>8, <2>9, BoundTurn
  <1>8. CASE SetTask(t, [arcTask[t] EXCEPT !.pc = "settings", !.write = toDoc])
    <2>1. /\ DOMAIN toDoc = WriteFields /\ toDoc.what = "cfg" /\ toDoc.doc = Sanitized(arcDb.doc)
          /\ toDoc.cells = Empty
      BY <1>5 DEF WriteFields
    <2>2. Sanitized(arcDb.doc) \in Docs
      BY BoundsOf DEF SoundDb, Sanitized, Docs
    <2>3. SoundCells(Intact, toDoc.cells) /\ RowsOf(toDoc.cells) \subseteq EveryRow
      BY <1>5, <2>1 DEF SoundCells
    <2>. HIDE DEF toDoc
    <2>. DEFINE q == [arcTask[t] EXCEPT !.pc = "settings", !.write = toDoc]
    <2>4. SoundTask(Intact, Job(t), q) /\ RowsHeld(q) \subseteq EveryRow
      BY <2>1, <2>2, <2>3, WritingIsSound
    <2>5. SetTask(t, q)
      BY <1>8
    <2>. HIDE DEF q
    <2>. QED  BY <1>1, <1>3, <2>4, <2>5, BoundTurn
  <1>. QED  BY <1>4, <1>6, <1>7, <1>8

(* What a write leaves of the stores. *)
LEMMA LandedIsSound ==
  ASSUME NEW intact \in BOOLEAN, SoundDb(intact, arcDb), NEW w, SoundWrite(intact, w)
  PROVE  /\ SoundDb(intact, Landed(w)) /\ RowsIn(Landed(w)) \subseteq RowsIn(arcDb) \union RowsOf(w.cells)
         /\ \A db \in Torn(w) : /\ SoundDb(FALSE, db)
                                 /\ RowsIn(db) \subseteq RowsIn(arcDb) \union RowsOf(w.cells)
  <1>1. CASE w.what = "entries"
    <2>. DEFINE torn == [arcDb EXCEPT !.entries = arcDb.entries \union RowsOf(w.cells)]
    <2>1. Landed(w) = [arcDb EXCEPT !.entries = RowsOf(w.cells)] /\ Torn(w) = {torn}
      BY <1>1 DEF Landed, Torn
    <2>2. SoundDb(FALSE, torn) /\ RowsIn(torn) \subseteq RowsIn(arcDb) \union RowsOf(w.cells)
      BY DEF SoundDb, SoundCells, DbFields, RowsIn
    <2>3. SoundDb(intact, Landed(w)) /\ RowsIn(Landed(w)) \subseteq RowsIn(arcDb) \union RowsOf(w.cells)
      BY <2>1 DEF SoundDb, SoundWrite, SoundCells, DbFields, RowsIn
    <2>. HIDE DEF torn
    <2>. QED  BY <2>1, <2>2, <2>3
  <1>2. CASE w.what = "prune"
    <2>1. Landed(w) = [arcDb EXCEPT !.entries = arcDb.entries \ w.drops] /\ Torn(w) = {}
      BY <1>2 DEF Landed, Torn
    <2>2. intact => SoundRows(arcDb.entries \ w.drops)
      BY SoundSubset DEF SoundDb
    <2>3. SoundDb(intact, Landed(w)) /\ RowsIn(Landed(w)) \subseteq RowsIn(arcDb)
      BY <2>1, <2>2 DEF SoundDb, DbFields, RowsIn
    <2>. QED  BY <2>1, <2>3
  <1>3. CASE w.what = "shards"
    <2>1. Landed(w) = [arcDb EXCEPT !.shards = w.cells]
      BY <1>3 DEF Landed
    <2>2. SoundDb(intact, Landed(w)) /\ RowsIn(Landed(w)) \subseteq RowsIn(arcDb) \union RowsOf(w.cells)
      BY <2>1 DEF SoundDb, SoundWrite, DbFields, RowsIn
    <2>3. ASSUME NEW db \in Torn(w)
          PROVE  SoundDb(FALSE, db) /\ RowsIn(db) \subseteq RowsIn(arcDb) \union RowsOf(w.cells)
      <3>1. PICK k \in 1 .. ShardCount - 1 :
              db = [arcDb EXCEPT !.shards =
                      [i \in Shards |-> IF i <= k THEN w.cells[i] ELSE arcDb.shards[i]]]
        BY <1>3 DEF Torn
      <3>. DEFINE mix == [i \in Shards |-> IF i <= k THEN w.cells[i] ELSE arcDb.shards[i]]
      <3>2. RowsOf(mix) \subseteq RowsOf(w.cells) \union RowsOf(arcDb.shards) /\ DOMAIN mix = Shards
        BY DEF RowsOf
      <3>3. db = [arcDb EXCEPT !.shards = mix]
        BY <3>1
      <3>. HIDE DEF mix
      <3>. QED  BY <3>2, <3>3 DEF SoundDb, SoundCells, DbFields, RowsIn
    <2>. QED  BY <2>2, <2>3
  <1>4. CASE w.what \in {"cfg", "doc"}
    <2>1. Landed(w) = [arcDb EXCEPT !.cfg = w.doc] \/ Landed(w) = [arcDb EXCEPT !.doc = w.doc]
      BY <1>4 DEF Landed
    <2>2. Torn(w) = {} /\ w.doc \in Docs
      BY <1>4 DEF Torn, SoundWrite
    <2>3. SoundDb(intact, Landed(w)) /\ RowsIn(Landed(w)) \subseteq RowsIn(arcDb)
      BY <2>1, <2>2 DEF SoundDb, DbFields, RowsIn
    <2>. QED  BY <2>2, <2>3
  <1>. QED  BY <1>1, <1>2, <1>3, <1>4 DEF SoundWrite, RowWrites

LEMMA BoundWrite ==
  ASSUME BoundInv, arcLog.why \subseteq arcLog'.why, NEW w, SoundWrite(Intact, w),
         RowsOf(w.cells) \subseteq EveryRow, NEW confirmed \in BOOLEAN, Attempt(w, confirmed),
         Tearing(w) \subseteq arcLog'.why
  PROVE  /\ SoundDb(Intact', arcDb') /\ RowsIn(arcDb') \subseteq EveryRow
         /\ \A v \in late' : \/ v \in late
                             \/ SoundWrite(Intact', v) /\ RowsOf(v.cells) \subseteq EveryRow
  <1>1. arcDb' \in {arcDb, Landed(w)} \union Torn(w) /\ late' \subseteq late \union {w}
    BY DEF Attempt
  <1>2. Intact \in BOOLEAN /\ Intact' \in BOOLEAN /\ (Intact' => Intact)
    BY IntactEnds
  <1>3. SoundDb(Intact, arcDb) /\ RowsIn(arcDb) \subseteq EveryRow
    BY DEF BoundInv, RowBounds, EveryRow
  <1>4. SoundDb(Intact', arcDb) /\ SoundWrite(Intact', w)
    BY <1>2, <1>3, SoundEases
  <1>5. /\ SoundDb(Intact', Landed(w))
        /\ RowsIn(Landed(w)) \subseteq RowsIn(arcDb) \union RowsOf(w.cells)
        /\ \A db \in Torn(w) : /\ SoundDb(FALSE, db)
                                /\ RowsIn(db) \subseteq RowsIn(arcDb) \union RowsOf(w.cells)
    BY <1>2, <1>4, LandedIsSound
  <1>6. CASE arcDb' \in {arcDb, Landed(w)}
    BY <1>1, <1>3, <1>4, <1>5, <1>6
  <1>7. CASE arcDb' \notin {arcDb, Landed(w)}
    <2>1. "torn write" \in arcLog'.why
      BY <1>7 DEF Tearing
    <2>2. Intact' = FALSE
      BY <2>1 DEF Intact
    <2>3. arcDb' \in Torn(w)
      BY <1>1, <1>7
    <2>. QED  BY <1>1, <1>3, <1>4, <1>5, <2>2, <2>3
  <1>. QED  BY <1>6, <1>7

LEMMA BoundImportWrite ==
  ASSUME BoundInv, NEW t \in DOMAIN arcTask, ImportWrite(t), LogInv', arcLog.why \subseteq arcLog'.why
  PROVE  BoundInv'
  <1>. DEFINE w == arcTask[t].write
  <1>1. PICK from \in {"rows", "settings"}, confirmed \in BOOLEAN :
          /\ At(t, from) /\ Attempt(w, confirmed)
          /\ \E pc \in {"document", "read"} : TaskTo(t, pc)
          /\ \E imported : bot' = [bot EXCEPT !.imported = imported]
          /\ \E reasons : Blame(Tearing(w) \union reasons)
    <2>1. PICK from \in {"rows", "settings"}, confirmed \in BOOLEAN :
          LET newer == \/ arcDb.cfg # "none"
                       \/ from = "rows" /\ arcDb.entries \notin {{}, RowsOf(w.cells)}
          IN /\ At(t, from)
             /\ Attempt(w, confirmed)
             /\ TaskTo(t, IF confirmed /\ from = "rows" THEN "document" ELSE "read")
             /\ bot' = [bot EXCEPT !.imported = @ \/ (confirmed /\ from = "settings")]
             /\ Blame(Tearing(w) \union (IF confirmed THEN {} ELSE {"import cut short"})
                                 \union (IF newer THEN {"import beside a write"} ELSE {}))
      BY DEF ImportWrite
    <2>2. \E pc \in {"document", "read"} : TaskTo(t, pc)
      BY <2>1
    <2>3. \E imported : bot' = [bot EXCEPT !.imported = imported]
      BY <2>1
    <2>. DEFINE cut == IF confirmed THEN {} ELSE {"import cut short"}
                newer == \/ arcDb.cfg # "none"
                         \/ from = "rows" /\ arcDb.entries \notin {{}, RowsOf(w.cells)}
                beside == IF newer THEN {"import beside a write"} ELSE {}
    <2>4. Blame((Tearing(w) \union cut) \union beside)
      BY <2>1
    <2>. HIDE DEF cut, newer, beside, w
    <2>5. (Tearing(w) \union cut) \union beside = Tearing(w) \union (cut \union beside)
      OBVIOUS
    <2>6. \E reasons : Blame(Tearing(w) \union reasons)
      BY <2>4, <2>5
    <2>. QED  BY <2>1, <2>2, <2>3, <2>6 DEF w
  <1>2. UNCHANGED <<plot, arcLock, captures>>
    BY DEF ImportWrite
  <1>3. SoundTask(Intact, Job(t), arcTask[t]) /\ RowsHeld(arcTask[t]) \subseteq EveryRow
    BY BoundsOf
  <1>4. SoundWrite(Intact, w) /\ RowsOf(w.cells) \subseteq EveryRow
    BY <1>1, <1>3 DEF SoundWrite, SoundTask, At, RowWrites, RowsHeld
  <1>5. Tearing(w) \subseteq arcLog'.why
    BY <1>1, BoundsOf, BlameKeepsDoc
  <1>6. /\ SoundDb(Intact', arcDb') /\ RowsIn(arcDb') \subseteq EveryRow
        /\ \A v \in late' : \/ v \in late
                            \/ SoundWrite(Intact', v) /\ RowsOf(v.cells) \subseteq EveryRow
    BY <1>1, <1>4, <1>5, BoundWrite
  <1>7. PICK pc \in {"document", "read"} : TaskTo(t, pc)
    BY <1>1
  <1>. DEFINE q == [arcTask[t] EXCEPT !.pc = pc]
  <1>8. SetTask(t, q) /\ SoundTask(Intact, Job(t), q) /\ RowsHeld(q) \subseteq EveryRow
    BY <1>3, <1>7, TurnIsSound DEF TaskTo
  <1>. HIDE DEF q, w
  <1>9. SoundTask(Intact', Job(t), q)
    BY <1>8, IntactEnds, SoundEases
  <1>10. SoundBot(bot') /\ arcLock' \in ArchiveTasks \union {Loader}
    BY <1>1, <1>2, BoundsOf DEF SoundBot, BotFields
  <1>11. PICK fresh : fresh = {}
    OBVIOUS
  <1>. QED  BY <1>2, <1>6, <1>8, <1>9, <1>10, <1>11, BoundMove

LEMMA BoundLoads ==
  ASSUME BoundInv, LoadBegin \/ LoadRead, LogInv', arcLog.why \subseteq arcLog'.why
  PROVE  BoundInv'
  <1>1. Loader \in DOMAIN arcTask /\ Job(Loader) = "load"
    BY DEF BoundInv, RowBounds, Job
  <1>2. CASE LoadBegin
    <2>1. SetTask(Loader, Asking(Loader, IdleTask)) /\ UNCHANGED <<plot, arcDb, bot, arcLock, late, captures>>
      BY <1>2 DEF LoadBegin
    <2>2. /\ DOMAIN NoWrite = WriteFields /\ NoWrite.cells = Empty /\ DOMAIN Empty = Shards
          /\ RowsOf(Empty) = {} /\ SoundRows({}) /\ IdleTask.write = NoWrite /\ IdleTask.got = Empty
          /\ IdleTask.row = NoRow /\ DOMAIN IdleTask = TaskFields /\ IdleTask.goal = "read"
      BY NoRows, IdleFields, EmptyIsSound
    <2>3. SoundAsk(Intact, Job(Loader), IdleTask) /\ RowsHeld(IdleTask) = {NoRow}
      BY <1>1, <2>2 DEF SoundAsk, SoundCells, RowsHeld
    <2>4. SoundBot(bot') /\ arcLock' \in ArchiveTasks \union {Loader} /\ NoRow \in EveryRow
      BY <1>1, <2>1, BoundsOf
    <2>. QED  BY <1>1, <2>1, <2>3, <2>4, AskingIsSound, BoundTurn
  <1>3. CASE LoadRead
    <2>1. ArchiveLeave(Loader) /\ UNCHANGED <<plot, arcDb, late, captures>>
      BY <1>3 DEF LoadRead
    <2>2. \/ \E b : bot' = [bot EXCEPT !.paused = b]
          \/ \E b, d : bot' = [bot EXCEPT !.loaded = b, !.doc = d]
      BY <1>3 DEF LoadRead
    <2>3. SoundBot(bot')
      BY <1>1, <2>2, BoundsOf DEF SoundBot, BotFields
    <2>. QED  BY <1>1, <2>1, <2>3, BoundOver
  <1>. QED  BY <1>2, <1>3

LEMMA BoundMemory ==
  ASSUME BoundInv, PauseEnds \/ Refresh \/ ArchiveTick
  PROVE  BoundInv'
  <1>1. UNCHANGED <<plot, arcDb, arcTask, arcLock, late, arcLog, captures>>
    BY DEF PauseEnds, Refresh, ArchiveTick
  <1>2. \/ \E b : bot' = [bot EXCEPT !.paused = b]
        \/ \E b : bot' = [bot EXCEPT !.loaded = b]
        \/ \E b : bot' = [bot EXCEPT !.handled = b]
    BY DEF PauseEnds, Refresh, ArchiveTick
  <1>3. SoundBot(bot)
    BY DEF BoundInv, RowBounds
  <1>4. SoundBot(bot)'
    BY <1>1, <1>2, <1>3 DEF SoundBot, BotFields, TheStore
  <1>5. Intact' = Intact /\ EveryRow' = EveryRow /\ (\A t : Job(t)' = Job(t)) /\ (LogInv => LogInv')
    BY <1>1 DEF Intact, EveryRow, Job, LogInv
  <1>. QED  BY <1>1, <1>4, <1>5 DEF BoundInv, RowBounds

LEMMA BoundRestart ==
  ASSUME BoundInv, ArchiveRestart
  PROVE  BoundInv'
  <1>1. /\ UNCHANGED <<plot, arcDb, late, arcLog, captures>> /\ bot' = FreshBot /\ arcLock' = Loader
        /\ DOMAIN arcTask' = DOMAIN arcTask
    BY DEF ArchiveRestart
  <1>2. SoundBot(bot)'
    BY <1>1 DEF SoundBot, FreshBot, BotFields
  <1>3. Intact' = Intact /\ (\A t : Job(t)' = Job(t)) /\ (LogInv => LogInv')
    BY <1>1 DEF Intact, Job, LogInv
  <1>4. ASSUME NEW t \in DOMAIN arcTask
        PROVE  SoundTask(Intact, Job(t), arcTask'[t]) /\ RowsHeld(arcTask'[t]) \subseteq EveryRow
    <2>1. CASE arcTask'[t] = arcTask[t]
      BY <2>1, BoundsOf
    <2>2. CASE arcTask'[t] # arcTask[t]
      <3>1. PICK pc \in Outside : arcTask'[t] = [IdleTask EXCEPT !.pc = pc]
        BY <2>2 DEF ArchiveRestart, Outside
      <3>. QED  BY <3>1, IdleIsSound, BoundsOf
    <2>. QED  BY <2>1, <2>2
  <1>5. EveryRow' \subseteq EveryRow
    <2>1. EveryRow' = {NoRow} \union RowsIn(arcDb)
                        \union (UNION {RowsHeld(arcTask'[u]) : u \in DOMAIN arcTask})
                        \union (UNION {RowsOf(w.cells) : w \in late})
      BY <1>1 DEF EveryRow
    <2>2. {NoRow} \union RowsIn(arcDb) \subseteq EveryRow
          /\ \A w \in late : RowsOf(w.cells) \subseteq EveryRow
      BY DEF EveryRow
    <2>. QED  BY <1>4, <2>1, <2>2
  <1>6. Unique(EveryRow, captures) => Unique(EveryRow', captures)
    BY <1>5 DEF Unique
  <1>. QED  BY <1>1, <1>2, <1>3, <1>4, <1>6 DEF BoundInv, RowBounds

LEMMA BoundLate ==
  ASSUME BoundInv, LateLands, LogInv', arcLog.why \subseteq arcLog'.why
  PROVE  BoundInv'
  <1>1. PICK w \in late : arcDb' = Landed(w) /\ late' = late \ {w}
    BY DEF LateLands
  <1>2. UNCHANGED <<plot, bot, arcTask, arcLock, captures>>
    BY DEF LateLands
  <1>3. Intact \in BOOLEAN /\ Intact' \in BOOLEAN /\ (Intact' => Intact)
    BY IntactEnds
  <1>4. SoundDb(Intact, arcDb) /\ SoundWrite(Intact, w)
    BY DEF BoundInv, RowBounds
  <1>5. RowsIn(arcDb) \union RowsOf(w.cells) \subseteq EveryRow
    BY DEF EveryRow
  <1>6. SoundDb(Intact, arcDb') /\ RowsIn(arcDb') \subseteq EveryRow
    BY <1>1, <1>3, <1>4, <1>5, LandedIsSound
  <1>7. SoundDb(Intact', arcDb')
    BY <1>3, <1>6, SoundEases
  <1>8. EveryRow' \subseteq EveryRow
    <2>1. EveryRow' = {NoRow} \union RowsIn(arcDb')
                        \union (UNION {RowsHeld(arcTask[u]) : u \in DOMAIN arcTask})
                        \union (UNION {RowsOf(v.cells) : v \in late'})
      BY <1>2 DEF EveryRow
    <2>2. NoRow \in EveryRow /\ (\A u \in DOMAIN arcTask : RowsHeld(arcTask[u]) \subseteq EveryRow)
          /\ \A v \in late' : RowsOf(v.cells) \subseteq EveryRow
      BY <1>1 DEF EveryRow
    <2>. QED  BY <1>6, <2>1, <2>2
  <1>9. Unique(EveryRow, captures) => Unique(EveryRow', captures)
    BY <1>8 DEF Unique
  <1>10. (\A t : Job(t)' = Job(t)) /\ (SoundBot(bot) => SoundBot(bot)')
    BY <1>2 DEF Job, SoundBot, TheStore
  <1>11. \A t \in DOMAIN arcTask : SoundTask(Intact', Job(t), arcTask[t])
    BY <1>3, BoundsOf, SoundEases
  <1>12. \A v \in late' : SoundWrite(Intact', v)
    BY <1>1, <1>3, SoundEases DEF BoundInv, RowBounds
  <1>. QED  BY <1>2, <1>7, <1>9, <1>10, <1>11, <1>12 DEF BoundInv, RowBounds

LEMMA BoundReceive ==
  ASSUME BoundInv, NEW t \in DOMAIN arcTask, Receive(t), LogInv', arcLog.why \subseteq arcLog'.why
  PROVE  BoundInv'
  <1>. DEFINE row == [msg |-> Msg(t), kind |-> Job(t), ver |-> plot.jobs[t].ver,
                      n |-> captures + 1, at |-> arcClock]
  <1>1. UNCHANGED <<plot, arcDb, late>> /\ Job(t) # "change" /\ Job(t) # "sweep"
    BY DEF Receive, Captures
  <1>2. \/ ArchiveLeave(t) /\ UNCHANGED <<bot, captures>>
        \/ TaskTo(t, "lock") /\ UNCHANGED <<bot, captures, arcLock>>
        \/ /\ bot' = [bot EXCEPT !.handled = @ \union {IdOf(row)}]
           /\ captures' = captures + 1
           /\ SetTask(t, [arcTask[t] EXCEPT !.pc = "lock", !.row = row])
           /\ UNCHANGED arcLock
    BY DEF Receive
  <1>3. /\ SoundTask(Intact, Job(t), arcTask[t]) /\ RowsHeld(arcTask[t]) \subseteq EveryRow
        /\ SoundBot(bot) /\ arcLock \in ArchiveTasks \union {Loader}
    BY BoundsOf
  <1>4. CASE ArchiveLeave(t) /\ UNCHANGED <<bot, captures>>
    BY <1>1, <1>3, <1>4, BoundOver
  <1>5. CASE TaskTo(t, "lock") /\ UNCHANGED <<bot, captures, arcLock>>
    <2>. DEFINE q == [arcTask[t] EXCEPT !.pc = "lock"]
    <2>1. SetTask(t, q) /\ SoundTask(Intact, Job(t), q) /\ RowsHeld(q) \subseteq EveryRow
      BY <1>1, <1>3, <1>5, TurnIsSound DEF TaskTo
    <2>. HIDE DEF q
    <2>. QED  BY <1>1, <1>3, <1>5, <2>1, BoundTurn
  <1>6. CASE /\ bot' = [bot EXCEPT !.handled = @ \union {IdOf(row)}]
             /\ captures' = captures + 1
             /\ SetTask(t, [arcTask[t] EXCEPT !.pc = "lock", !.row = row])
             /\ UNCHANGED arcLock
    <2>. DEFINE q == [arcTask[t] EXCEPT !.pc = "lock", !.row = row]
                fresh == {row}
    <2>1. row.n = captures + 1
      OBVIOUS
    <2>2. SoundBot(bot')
      BY <1>3, <1>6 DEF SoundBot, BotFields
    <2>3. SetTask(t, q)
      BY <1>6
    <2>. HIDE DEF row
    <2>4. /\ DOMAIN q = TaskFields /\ q.pc = "lock" /\ q.goal = arcTask[t].goal
          /\ q.write = arcTask[t].write /\ q.got = arcTask[t].got /\ q.row = row
      BY <1>3 DEF SoundTask, TaskFields
    <2>. HIDE DEF q
    <2>5. SoundTask(Intact, Job(t), q)
      BY <1>1, <1>3, <2>4 DEF SoundTask
    <2>6. RowsHeld(q) \subseteq EveryRow \union fresh
      BY <1>3, <2>4 DEF RowsHeld
    <2>7. SoundTask(Intact', Job(t), q) /\ SoundDb(Intact', arcDb') /\ RowsIn(arcDb') \subseteq EveryRow
      BY <1>1, <2>5, BoundsOf, IntactEnds, SoundEases
    <2>. QED  BY <1>1, <1>3, <1>6, <2>1, <2>2, <2>3, <2>6, <2>7, BoundMove
  <1>. QED  BY <1>2, <1>4, <1>5, <1>6

LEMMA BoundBegins ==
  ASSUME BoundInv, NEW t \in DOMAIN arcTask, RemoveBegin(t) \/ LockTaken(t) \/ SweepBegin(t),
         LogInv', arcLog.why \subseteq arcLog'.why
  PROVE  BoundInv'
  <1>1. UNCHANGED <<plot, arcDb, bot, late, captures>>
    BY DEF RemoveBegin, LockTaken, SweepBegin
  <1>2. /\ SoundTask(Intact, Job(t), arcTask[t]) /\ RowsHeld(arcTask[t]) \subseteq EveryRow
        /\ SoundBot(bot) /\ arcLock \in ArchiveTasks \union {Loader}
        /\ t \in ArchiveTasks \union {Loader}
    BY BoundsOf
  <1>3. CASE RemoveBegin(t)
    <2>. DEFINE q == [arcTask[t] EXCEPT !.pc = "lock"]
    <2>1. TaskTo(t, "lock") /\ Job(t) # "change" /\ UNCHANGED arcLock
      BY <1>3 DEF RemoveBegin, Removes
    <2>2. SetTask(t, q) /\ SoundTask(Intact, Job(t), q) /\ RowsHeld(q) \subseteq EveryRow
      BY <1>2, <2>1, TurnIsSound DEF TaskTo
    <2>. HIDE DEF q
    <2>. QED  BY <1>1, <1>2, <2>1, <2>2, BoundTurn
  <1>4. CASE LockTaken(t) \/ SweepBegin(t)
    <2>1. SetTask(t, Asking(t, arcTask[t])) /\ arcLock' \in {t, arcLock}
      BY <1>4 DEF LockTaken, SweepBegin
    <2>2. Job(t) # "change"
      BY <1>2, <1>4 DEF LockTaken, SweepBegin, SoundTask, At
    <2>3. SoundAsk(Intact, Job(t), arcTask[t])
      BY <1>2, <2>2 DEF SoundAsk, SoundTask
    <2>4. SoundTask(Intact, Job(t), Asking(t, arcTask[t])) /\ RowsHeld(Asking(t, arcTask[t])) \subseteq EveryRow
      BY <1>2, <2>3, AskingIsSound
    <2>. QED  BY <1>1, <1>2, <2>1, <2>4, BoundTurn
  <1>. QED  BY <1>3, <1>4

(* The rows a step makes: one at most. *)
NewRows(fresh) ==
    /\ \A row \in fresh : row.n = captures + 1 /\ captures' = captures + 1
    /\ \A row, other \in fresh : row = other
    /\ captures' \in {captures, captures + 1}

LEMMA BoundReplace ==
  ASSUME BoundInv, LogInv', arcLog.why \subseteq arcLog'.why, plot' = plot,
         NEW t \in DOMAIN arcTask, Job(t) \notin {"change", "sweep"},
         NEW rows, NEW row, Replace(t, rows, row), Intact => SoundRows(rows),
         arcDb' = arcDb, late' = late, arcLock' = arcLock, SoundBot(bot'),
         NEW fresh, NewRows(fresh), rows \union {row} \subseteq EveryRow \union fresh
  PROVE  BoundInv'
  <1>. DEFINE drops == RowsOf(InStore(arcTask[t].mode)) \ rows
              w == [NoWrite EXCEPT !.cells = Whole(rows), !.drops = drops]
              q == [arcTask[t] EXCEPT !.goal = "save", !.row = row, !.write = w]
  <1>1. SetTask(t, Asking(t, q))
    BY DEF Replace
  <1>2. SoundTask(Intact, Job(t), arcTask[t]) /\ RowsHeld(arcTask[t]) \subseteq EveryRow
    BY BoundsOf
  <1>. HIDE DEF drops
  <1>3. DOMAIN w = WriteFields /\ w.cells = Whole(rows)
    BY IdleFields DEF WriteFields
  <1>4. DOMAIN Whole(rows) = Shards /\ RowsOf(Whole(rows)) = rows
    BY WholeRows
  <1>. HIDE DEF w
  <1>5. /\ DOMAIN q = TaskFields /\ q.goal = "save" /\ q.row = row /\ q.write = w
        /\ q.got = arcTask[t].got
    BY <1>2 DEF SoundTask, TaskFields
  <1>. HIDE DEF q
  <1>6. SoundAsk(Intact, Job(t), q)
    BY <1>2, <1>3, <1>4, <1>5 DEF SoundAsk, SoundTask, SoundCells
  <1>7. RowsHeld(q) \subseteq EveryRow \union fresh
    BY <1>2, <1>3, <1>4, <1>5 DEF RowsHeld
  <1>8. SoundTask(Intact, Job(t), Asking(t, q)) /\ RowsHeld(Asking(t, q)) \subseteq EveryRow \union fresh
    BY <1>6, <1>7, AskingIsSound
  <1>9. /\ SoundTask(Intact', Job(t), Asking(t, q)) /\ SoundDb(Intact', arcDb')
        /\ RowsIn(arcDb') \subseteq EveryRow /\ arcLock' \in ArchiveTasks \union {Loader}
    BY <1>8, BoundsOf, IntactEnds, SoundEases
  <1>10. /\ \A r \in fresh : r.n = captures + 1 /\ captures' = captures + 1
         /\ \A r, other \in fresh : r = other
         /\ captures' \in {captures, captures + 1}
    BY DEF NewRows
  <1>. QED  BY <1>1, <1>8, <1>9, <1>10, BoundMove

LEMMA BoundReadRows ==
  ASSUME BoundInv, NEW t \in DOMAIN arcTask, ReadRows(t), LogInv', arcLog.why \subseteq arcLog'.why
  PROVE  BoundInv'
  <1>. DEFINE stored == RowsOf(InStore(arcTask[t].mode))
              rows == Bounded(stored, NoRow)
              known == {IdOf(row) : row \in rows}
              own == arcTask[t].row
              deletion == [msg |-> Msg(t), kind |-> "deletion", ver |-> 0, n |-> captures + 1, at |-> arcClock]
  <1>1. /\ UNCHANGED <<plot, arcDb, late>> /\ Job(t) \notin {"change", "sweep"}
        /\ captures \in Nat /\ Unique(EveryRow, captures)
    BY BoundsOf DEF ReadRows, Captures, Removes
  <1>2. \/ ArchiveLeave(t) /\ UNCHANGED captures /\ (\E h : bot' = [bot EXCEPT !.handled = h] \/ bot' = bot)
        \/ Replace(t, rows \ Victims(t, rows), NoRow) /\ UNCHANGED <<arcLock, bot, captures>>
        \/ /\ Replace(t, WithRow(rows, deletion), deletion) /\ IdOf(deletion) \notin known
           /\ (\E h : bot' = [bot EXCEPT !.handled = h]) /\ captures' = captures + 1 /\ UNCHANGED arcLock
        \/ /\ Replace(t, WithRow(rows, own), own) /\ IdOf(own) \notin known
           /\ UNCHANGED <<arcLock, bot, captures>>
    BY DEF ReadRows
  <1>3. /\ SoundTask(Intact, Job(t), arcTask[t]) /\ RowsHeld(arcTask[t]) \subseteq EveryRow
        /\ SoundBot(bot) /\ NoRow \in EveryRow
    BY BoundsOf
  <1>4. (Intact => SoundRows(rows)) /\ rows \subseteq EveryRow
    <2>1. (Intact => SoundRows(stored)) /\ stored \subseteq EveryRow
      BY StoreIsSound DEF SoundCells
    <2>2. rows \subseteq stored
      BY BoundedIsIn
    <2>. HIDE DEF rows, stored
    <2>. QED  BY <2>1, <2>2, SoundSubset
  <1>5. SoundBot(bot) /\ \A h : SoundBot([bot EXCEPT !.handled = h])
    BY <1>3 DEF SoundBot, BotFields
  <1>. HIDE DEF rows, deletion
  <1>6. CASE ArchiveLeave(t) /\ UNCHANGED captures /\ (\E h : bot' = [bot EXCEPT !.handled = h] \/ bot' = bot)
    <2>1. SoundBot(bot')
      BY <1>5, <1>6
    <2>. QED  BY <1>1, <1>6, <2>1, BoundOver
  <1>7. CASE Replace(t, rows \ Victims(t, rows), NoRow) /\ UNCHANGED <<arcLock, bot, captures>>
    <2>. DEFINE left == rows \ Victims(t, rows)
                fresh == {}
    <2>1. left \subseteq rows
      OBVIOUS
    <2>2. Replace(t, left, NoRow)
      BY <1>7
    <2>. HIDE DEF left
    <2>3. (Intact => SoundRows(left)) /\ left \union {NoRow} \subseteq EveryRow \union fresh
      BY <1>3, <1>4, <2>1, SoundSubset
    <2>4. NewRows(fresh) /\ SoundBot(bot')
      BY <1>5, <1>7 DEF NewRows
    <2>. HIDE DEF fresh
    <2>. QED  BY <1>1, <1>7, <2>2, <2>3, <2>4, BoundReplace
  <1>8. CASE /\ Replace(t, WithRow(rows, deletion), deletion) /\ IdOf(deletion) \notin known
             /\ (\E h : bot' = [bot EXCEPT !.handled = h]) /\ captures' = captures + 1 /\ UNCHANGED arcLock
    <2>. DEFINE fresh == {deletion}
                all == WithRow(rows, deletion)
                count == captures + 1
    <2>1. deletion.n = captures + 1
      BY DEF deletion
    <2>2. Unique(rows \union {deletion}, count) /\ count \in Nat
      <3>1. rows \union {deletion} \subseteq EveryRow \union fresh
        BY <1>4
      <3>2. \A r \in fresh : r.n = captures + 1 /\ count = captures + 1
        BY <2>1
      <3>3. count \in {captures, captures + 1} /\ \A r, other \in fresh : r = other
        OBVIOUS
      <3>. HIDE DEF fresh, count
      <3>4. Unique(rows \union {deletion}, count)
        BY <1>1, <3>1, <3>2, <3>3, NumbersStay
      <3>. QED  BY <1>1, <3>4 DEF count
    <2>3. Intact => SoundRows(all)
      BY <1>4, <1>8, <2>2, WithRowIsSound
    <2>4. all \union {deletion} \subseteq EveryRow \union fresh
      BY <1>4, WithRowIsIn
    <2>5. SoundBot(bot') /\ Replace(t, all, deletion)
      BY <1>5, <1>8
    <2>6. NewRows(fresh)
      BY <1>8, <2>1 DEF NewRows
    <2>. HIDE DEF all, fresh
    <2>. QED  BY <1>1, <1>8, <2>3, <2>4, <2>5, <2>6, BoundReplace
  <1>9. CASE /\ Replace(t, WithRow(rows, own), own) /\ IdOf(own) \notin known
             /\ UNCHANGED <<arcLock, bot, captures>>
    <2>. DEFINE fresh == {}
                all == WithRow(rows, own)
    <2>1. own \in EveryRow
      BY <1>3 DEF RowsHeld
    <2>2. Unique(rows \union {own}, captures)
      BY <1>1, <1>4, <2>1 DEF Unique
    <2>3. Intact => SoundRows(all)
      BY <1>1, <1>4, <1>9, <2>2, WithRowIsSound
    <2>4. all \union {own} \subseteq EveryRow \union fresh
      BY <1>4, <2>1, WithRowIsIn
    <2>5. SoundBot(bot') /\ Replace(t, all, own)
      BY <1>5, <1>9
    <2>6. NewRows(fresh)
      BY <1>9 DEF NewRows
    <2>. HIDE DEF all, own, fresh
    <2>. QED  BY <1>1, <1>9, <2>3, <2>4, <2>5, <2>6, BoundReplace
  <1>. QED  BY <1>2, <1>6, <1>7, <1>8, <1>9

(* A task writes and is over. *)
LEMMA BoundSaved ==
  ASSUME BoundInv, LogInv', arcLog.why \subseteq arcLog'.why, plot' = plot, captures' = captures,
         NEW t \in DOMAIN arcTask, ArchiveLeave(t), SoundBot(bot'),
         NEW w, SoundWrite(Intact, w), RowsOf(w.cells) \subseteq EveryRow,
         NEW confirmed \in BOOLEAN, Attempt(w, confirmed), Tearing(w) \subseteq arcLog'.why
  PROVE  BoundInv'
  <1>1. /\ SoundDb(Intact', arcDb') /\ RowsIn(arcDb') \subseteq EveryRow
        /\ \A v \in late' : \/ v \in late
                            \/ SoundWrite(Intact', v) /\ RowsOf(v.cells) \subseteq EveryRow
    BY BoundWrite
  <1>. QED  BY <1>1, BoundLeave

LEMMA BoundSaveRows ==
  ASSUME BoundInv, NEW t \in DOMAIN arcTask, SaveRows(t), LogInv', arcLog.why \subseteq arcLog'.why
  PROVE  BoundInv'
  <1>. DEFINE q == arcTask[t]
              rows == RowsOf(q.write.cells)
              entries == [q.write EXCEPT !.what = "entries"]
              shards == [q.write EXCEPT !.what = "shards", !.cells = Split(rows, q.row)]
              w == IF q.mode = "dedicated" THEN entries ELSE shards
  <1>1. ArchiveLeave(t) /\ UNCHANGED <<plot, bot, captures>>
    BY DEF SaveRows
  <1>2. PICK confirmed \in BOOLEAN :
          /\ Attempt(w, confirmed)
          /\ arcLog' = [arcLog EXCEPT
                !.kept = IF confirmed THEN @ \union ({q.row} \ {NoRow}) ELSE @,
                !.removed = IF confirmed /\ Removes(t) THEN @ \union w.drops ELSE @,
                !.dropped = @ \union Dropping(w),
                !.why = @ \union Tearing(w)]
    BY DEF SaveRows
  <1>3. Tearing(w) \subseteq arcLog'.why
    <2>. HIDE DEF w
    <2>. QED  BY <1>2 DEF BoundInv, LogInv, LogFields
  <1>4. SoundTask(Intact, Job(t), q) /\ RowsHeld(q) \subseteq EveryRow /\ SoundBot(bot)
    BY BoundsOf
  <1>5. rows \subseteq EveryRow /\ (Intact => SoundRows(rows))
    BY <1>4 DEF RowsHeld, SoundTask, SoundCells
  <1>6. SoundWrite(Intact, entries) /\ RowsOf(entries.cells) \subseteq EveryRow
    <2>1. DOMAIN entries = WriteFields /\ entries.what = "entries" /\ entries.cells = q.write.cells
      BY <1>4 DEF SoundTask, WriteFields
    <2>. HIDE DEF entries
    <2>. QED  BY <1>4, <1>5, <2>1 DEF SoundWrite, SoundTask, RowWrites
  <1>7. SoundWrite(Intact, shards) /\ RowsOf(shards.cells) \subseteq EveryRow
    <2>1. DOMAIN Split(rows, q.row) = Shards /\ RowsOf(Split(rows, q.row)) \subseteq rows
      BY SplitRows
    <2>2. DOMAIN shards = WriteFields /\ shards.what = "shards" /\ shards.cells = Split(rows, q.row)
      BY <1>4 DEF SoundTask, WriteFields
    <2>. HIDE DEF shards, rows
    <2>. QED  BY <1>5, <2>1, <2>2, SoundSubset DEF SoundWrite, SoundCells, RowWrites
  <1>8. SoundWrite(Intact, w) /\ RowsOf(w.cells) \subseteq EveryRow
    <2>. HIDE DEF entries, shards
    <2>. QED  BY <1>6, <1>7
  <1>. HIDE DEF w
  <1>. QED  BY <1>1, <1>2, <1>3, <1>4, <1>8, BoundSaved

LEMMA BoundChangeBegin ==
  ASSUME BoundInv, NEW t \in DOMAIN arcTask, ChangeBegin(t), LogInv', arcLog.why \subseteq arcLog'.why
  PROVE  BoundInv'
  <1>. DEFINE w == [NoWrite EXCEPT !.doc = Changed(bot.doc)]
              q == [arcTask[t] EXCEPT !.goal = "save", !.write = w]
  <1>1. /\ UNCHANGED <<plot, arcDb, bot, late, captures>> /\ Job(t) = "change"
        /\ \/ ArchiveLeave(t)
           \/ SetTask(t, Asking(t, q)) /\ UNCHANGED arcLock
    BY DEF ChangeBegin
  <1>2. /\ SoundTask(Intact, Job(t), arcTask[t]) /\ RowsHeld(arcTask[t]) \subseteq EveryRow
        /\ SoundBot(bot) /\ arcLock \in ArchiveTasks \union {Loader}
    BY BoundsOf
  <1>3. /\ DOMAIN w = WriteFields /\ w.cells = Empty /\ w.doc \in Docs /\ DOMAIN Empty = Shards
        /\ RowsOf(Empty) = {} /\ SoundRows({})
    BY NoRows, IdleFields, EmptyIsSound DEF WriteFields, Changed, Docs
  <1>. HIDE DEF w
  <1>4. /\ DOMAIN q = TaskFields /\ q.goal = "save" /\ q.row = arcTask[t].row /\ q.write = w
        /\ q.got = arcTask[t].got
    BY <1>2 DEF SoundTask, TaskFields
  <1>. HIDE DEF q
  <1>5. SoundAsk(Intact, Job(t), q) /\ RowsHeld(q) \subseteq EveryRow
    BY <1>1, <1>2, <1>3, <1>4 DEF SoundAsk, SoundTask, SoundCells, RowsHeld
  <1>6. SoundTask(Intact, Job(t), Asking(t, q)) /\ RowsHeld(Asking(t, q)) \subseteq EveryRow
    BY <1>5, AskingIsSound
  <1>7. CASE ArchiveLeave(t)
    BY <1>1, <1>2, <1>7, BoundOver
  <1>8. CASE SetTask(t, Asking(t, q)) /\ UNCHANGED arcLock
    BY <1>1, <1>2, <1>6, <1>8, BoundTurn
  <1>. QED  BY <1>1, <1>7, <1>8

LEMMA BoundSaveSettings ==
  ASSUME BoundInv, NEW t \in DOMAIN arcTask, SaveSettings(t), LogInv', arcLog.why \subseteq arcLog'.why
  PROVE  BoundInv'
  <1>. DEFINE what == IF arcTask[t].mode = "dedicated" THEN "cfg" ELSE "doc"
              w == [arcTask[t].write EXCEPT !.what = what]
  <1>1. /\ ArchiveLeave(t) /\ UNCHANGED <<plot, captures>> /\ Job(t) = "change" /\ At(t, "save")
        /\ (bot' = bot \/ \E d : bot' = [bot EXCEPT !.doc = d])
    BY DEF SaveSettings
  <1>2. PICK confirmed \in BOOLEAN : Attempt(w, confirmed)
    BY DEF SaveSettings
  <1>3. SoundTask(Intact, Job(t), arcTask[t]) /\ RowsHeld(arcTask[t]) \subseteq EveryRow /\ SoundBot(bot)
    BY BoundsOf
  <1>4. /\ DOMAIN w = WriteFields /\ w.what \in {"cfg", "doc"} /\ w.cells = arcTask[t].write.cells
        /\ w.doc = arcTask[t].write.doc
    BY <1>3 DEF SoundTask, WriteFields
  <1>. HIDE DEF w
  <1>5. SoundWrite(Intact, w) /\ RowsOf(w.cells) \subseteq EveryRow
    BY <1>1, <1>3, <1>4 DEF SoundWrite, SoundTask, At, RowsHeld
  <1>6. Tearing(w) \subseteq arcLog'.why
    <2>1. Torn(w) = {}
      BY <1>4 DEF Torn
    <2>2. arcDb' \in {arcDb, Landed(w)}
      BY <1>2, <2>1 DEF Attempt
    <2>. QED  BY <2>2 DEF Tearing
  <1>7. SoundBot(bot')
    BY <1>1, <1>3 DEF SoundBot, BotFields
  <1>. QED  BY <1>1, <1>2, <1>5, <1>6, <1>7, BoundSaved

LEMMA BoundSweepRead ==
  ASSUME BoundInv, NEW t \in DOMAIN arcTask, SweepRead(t), LogInv', arcLog.why \subseteq arcLog'.why
  PROVE  BoundInv'
  <1>. DEFINE got == InStore(arcTask[t].mode)
              q == [arcTask[t] EXCEPT !.pc = "retention", !.got = got]
  <1>1. /\ UNCHANGED <<plot, arcDb, bot, late, captures>> /\ Job(t) = "sweep"
        /\ \/ ArchiveLeave(t)
           \/ SetTask(t, q) /\ UNCHANGED arcLock
    BY DEF SweepRead
  <1>2. /\ SoundTask(Intact, Job(t), arcTask[t]) /\ RowsHeld(arcTask[t]) \subseteq EveryRow
        /\ SoundBot(bot) /\ arcLock \in ArchiveTasks \union {Loader}
    BY BoundsOf
  <1>3. SoundCells(Intact, got) /\ RowsOf(got) \subseteq EveryRow
    BY StoreIsSound
  <1>. HIDE DEF got
  <1>4. /\ DOMAIN q = TaskFields /\ q.pc = "retention" /\ q.goal = arcTask[t].goal
        /\ q.row = arcTask[t].row /\ q.write = arcTask[t].write /\ q.got = got
    BY <1>2 DEF SoundTask, TaskFields
  <1>. HIDE DEF q
  <1>5. SoundTask(Intact, Job(t), q) /\ RowsHeld(q) \subseteq EveryRow
    BY <1>1, <1>2, <1>3, <1>4 DEF SoundTask, RowsHeld
  <1>6. CASE ArchiveLeave(t)
    BY <1>1, <1>2, <1>6, BoundOver
  <1>7. CASE SetTask(t, q) /\ UNCHANGED arcLock
    BY <1>1, <1>2, <1>5, <1>7, BoundTurn
  <1>. QED  BY <1>1, <1>6, <1>7

LEMMA BoundSweepRetention ==
  ASSUME BoundInv, NEW t \in DOMAIN arcTask, SweepRetention(t), LogInv', arcLog.why \subseteq arcLog'.why
  PROVE  BoundInv'
  <1>. DEFINE got == arcTask[t].got
              what == IF arcTask[t].mode = "dedicated" THEN "prune" ELSE "shards"
  <1>1. UNCHANGED <<plot, arcDb, bot, late, captures>> /\ At(t, "retention")
    BY DEF SweepRetention
  <1>2. PICK expired :
          \/ ArchiveLeave(t)
          \/ /\ SetTask(t, [arcTask[t] EXCEPT !.pc = "save", !.write = [NoWrite EXCEPT
                              !.what = what, !.cells = [i \in Shards |-> got[i] \ expired], !.drops = expired]])
             /\ UNCHANGED arcLock
    BY DEF SweepRetention
  <1>3. /\ SoundTask(Intact, Job(t), arcTask[t]) /\ RowsHeld(arcTask[t]) \subseteq EveryRow
        /\ SoundBot(bot) /\ arcLock \in ArchiveTasks \union {Loader}
    BY BoundsOf
  <1>4. CASE ArchiveLeave(t)
    BY <1>1, <1>3, <1>4, BoundOver
  <1>5. CASE /\ SetTask(t, [arcTask[t] EXCEPT !.pc = "save", !.write = [NoWrite EXCEPT
                              !.what = what, !.cells = [i \in Shards |-> got[i] \ expired], !.drops = expired]])
             /\ UNCHANGED arcLock
    <2>. DEFINE left == [i \in Shards |-> got[i] \ expired]
                w == [NoWrite EXCEPT !.what = what, !.cells = left, !.drops = expired]
                q == [arcTask[t] EXCEPT !.pc = "save", !.write = w]
    <2>1. SetTask(t, q) /\ UNCHANGED arcLock
      BY <1>5
    <2>2. DOMAIN left = Shards /\ RowsOf(left) \subseteq RowsOf(got)
      BY DEF RowsOf
    <2>3. SoundCells(Intact, left) /\ RowsOf(left) \subseteq EveryRow
      <3>. HIDE DEF left
      <3>. QED  BY <1>3, <2>2, SoundSubset DEF SoundTask, SoundCells, RowsHeld
    <2>. HIDE DEF left
    <2>4. DOMAIN w = WriteFields /\ w.what \in {"prune", "shards"} /\ w.cells = left
      BY IdleFields DEF WriteFields
    <2>5. Job(t) # "change"
      BY <1>1, <1>3 DEF SoundTask, At
    <2>. HIDE DEF w
    <2>6. SoundTask(Intact, Job(t), q) /\ RowsHeld(q) \subseteq EveryRow
      BY <2>3, <2>4, <2>5, WritingIsSound
    <2>. HIDE DEF q
    <2>. QED  BY <1>1, <1>3, <2>1, <2>6, BoundTurn
  <1>. QED  BY <1>2, <1>4, <1>5

LEMMA BoundSweepSave ==
  ASSUME BoundInv, NEW t \in DOMAIN arcTask, SweepSave(t), LogInv', arcLog.why \subseteq arcLog'.why
  PROVE  BoundInv'
  <1>. DEFINE w == arcTask[t].write
  <1>1. ArchiveLeave(t) /\ UNCHANGED <<plot, bot, captures>> /\ Job(t) = "sweep" /\ At(t, "save")
    BY DEF SweepSave
  <1>2. PICK confirmed \in BOOLEAN :
          /\ Attempt(w, confirmed)
          /\ \E dropped, moved : arcLog' = [arcLog EXCEPT !.dropped = dropped,
                                                         !.why = @ \union Tearing(w) \union moved]
    BY DEF SweepSave
  <1>3. SoundTask(Intact, Job(t), arcTask[t]) /\ RowsHeld(arcTask[t]) \subseteq EveryRow /\ SoundBot(bot)
    BY BoundsOf
  <1>4. SoundWrite(Intact, w) /\ RowsOf(w.cells) \subseteq EveryRow
    BY <1>1, <1>3 DEF SoundWrite, SoundTask, At, RowWrites, RowsHeld
  <1>. HIDE DEF w
  <1>5. Tearing(w) \subseteq arcLog'.why
    BY <1>2 DEF BoundInv, LogInv, LogFields
  <1>. QED  BY <1>1, <1>2, <1>3, <1>4, <1>5, BoundSaved

LEMMA BoundInit == ArchiveInit => BoundInv
  <1>. SUFFICES ASSUME ArchiveInit PROVE BoundInv
    OBVIOUS
  <1>1. /\ plot \in Plots /\ arcDb = plot.db /\ bot = FreshBot /\ captures = Cardinality(plot.rows)
        /\ arcTask = [t \in ArchiveTasks \union {Loader} |-> IdleTask] /\ arcLock = Loader /\ late = {}
    BY DEF ArchiveInit
  <1>2. LogInv
    BY SettingsInit DEF SettingsInv
  <1>3. SoundDb(Intact, arcDb)
    BY <1>1, PlotAssumption DEF SoundDb, SoundCells, SoundRows, DbFields
  <1>4. SoundBot(bot)
    BY <1>1 DEF SoundBot, FreshBot, BotFields
  <1>5. [IdleTask EXCEPT !.pc = "new"] = IdleTask /\ "new" \in Outside
    BY DEF IdleTask, Outside
  <1>6. \A job : SoundTask(Intact, job, IdleTask) /\ RowsHeld(IdleTask) = {NoRow}
    BY <1>5, IdleIsSound
  <1>7. captures \in Nat
    BY <1>1, PlotAssumption, FS_CardinalityType
  <1>8. EveryRow \subseteq RowsIn(arcDb) \union {NoRow}
    BY <1>1, <1>6 DEF EveryRow
  <1>9. NoRow.n = 0
    BY DEF NoRow
  <1>10. \A row, other \in RowsIn(arcDb) :
            row.n \in 1 .. captures /\ (row.n = other.n => row = other)
    BY <1>1, PlotAssumption DEF RowsIn
  <1>11. Unique(RowsIn(arcDb) \union {NoRow}, captures)
    BY <1>7, <1>9, <1>10 DEF Unique
  <1>12. Unique(EveryRow, captures)
    BY <1>8, <1>11 DEF Unique
  <1>. QED  BY <1>1, <1>2, <1>3, <1>4, <1>6, <1>7, <1>12 DEF BoundInv, RowBounds

LEMMA BoundStep == BoundInv /\ [ArchiveNext]_archiveVars => BoundInv'
  <1>. SUFFICES ASSUME BoundInv, [ArchiveNext]_archiveVars PROVE BoundInv'
    OBVIOUS
  <1>1. CASE UNCHANGED archiveVars
    <2>1. Intact' = Intact /\ EveryRow' = EveryRow /\ (\A t : Job(t)' = Job(t)) /\ (LogInv => LogInv')
          /\ (SoundBot(bot) => SoundBot(bot)')
      BY <1>1 DEF archiveVars, Intact, EveryRow, Job, LogInv, SoundBot, TheStore
    <2>. QED  BY <1>1, <2>1 DEF archiveVars, BoundInv, RowBounds
  <1>2. CASE ArchiveNext
    <2>1. LogInv' /\ arcLog.why \subseteq arcLog'.why
      BY <1>2, LogSteps DEF BoundInv
    <2>2. ASSUME NEW t \in DOMAIN arcTask, Probe(t) \/ ImportRead(t) \/ ImportWrite(t)
          PROVE  BoundInv'
      BY <2>1, <2>2, BoundProbe, BoundImportRead, BoundImportWrite
    <2>3. ASSUME NEW t \in ArchiveTasks, TaskStep(t)
          PROVE  BoundInv'
      <3>1. t \in DOMAIN arcTask
        BY DEF BoundInv, RowBounds
      <3>2. CASE Receive(t)
        BY <2>1, <3>1, <3>2, BoundReceive
      <3>3. CASE RemoveBegin(t) \/ LockTaken(t) \/ SweepBegin(t)
        BY <2>1, <3>1, <3>3, BoundBegins
      <3>4. CASE ReadRows(t) \/ SaveRows(t)
        BY <2>1, <3>1, <3>4, BoundReadRows, BoundSaveRows
      <3>5. CASE ChangeBegin(t) \/ SaveSettings(t)
        BY <2>1, <3>1, <3>5, BoundChangeBegin, BoundSaveSettings
      <3>6. CASE SweepRead(t) \/ SweepRetention(t) \/ SweepSave(t)
        BY <2>1, <3>1, <3>6, BoundSweepRead, BoundSweepRetention, BoundSweepSave
      <3>. QED  BY <2>3, <3>2, <3>3, <3>4, <3>5, <3>6 DEF TaskStep
    <2>4. CASE LoadBegin \/ LoadRead
      BY <2>1, <2>4, BoundLoads
    <2>5. CASE LateLands
      BY <2>1, <2>5, BoundLate
    <2>6. CASE PauseEnds \/ Refresh \/ ArchiveTick \/ ArchiveRestart
      BY <2>6, BoundMemory, BoundRestart
    <2>. QED  BY <1>2, <2>2, <2>3, <2>4, <2>5, <2>6 DEF ArchiveNext, ArchiveStep
  <1>. QED  BY <1>1, <1>2

LEMMA BoundsAreTypes == BoundInv => ArchiveTypeOK
  <1>. SUFFICES ASSUME BoundInv PROVE ArchiveTypeOK
    OBVIOUS
  <1>1. SoundDb(Intact, arcDb) /\ SoundBot(bot) /\ arcLock \in ArchiveTasks \union {Loader}
    BY DEF BoundInv, RowBounds
  <1>2. \A mode : SoundCells(Intact, InStore(mode))
    BY StoreIsSound
  <1>3. Intact => WithinBounds(Archived)
    BY <1>1, <1>2 DEF Archived, SoundDb, SoundCells, SoundRows
  <1>. QED  BY <1>1, <1>3 DEF ArchiveTypeOK, SoundDb, SoundCells, SoundBot, Intact

(* Whatever the updates, removals, sweeps, imports, restarts, failed calls and late *)
(* writes, only a write that stopped half-way leaves two rows of one update, more    *)
(* versions of a message than are kept or more rows than the shards hold             *)
(* (ArchiveTypeOK).                                                                  *)
THEOREM ArchiveTypeCorrect == ArchiveSpec => []ArchiveTypeOK
  <1>1. ArchiveInit => BoundInv
    BY BoundInit
  <1>2. BoundInv /\ [ArchiveNext]_archiveVars => BoundInv'
    BY BoundStep
  <1>3. BoundInv => ArchiveTypeOK
    BY BoundsAreTypes
  <1>. QED  BY <1>1, <1>2, <1>3, PTL DEF ArchiveSpec

==================================================================================
