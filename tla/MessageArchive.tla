---------------------------- MODULE MessageArchive ----------------------------
(***************************************************************************)
(* The archive of edited and deleted private messages                      *)
(* (services/anti_edit_delete_service.py, its handlers and the retention   *)
(* sweep of runtime/memory_cleanup.py) over its two stores: the dedicated  *)
(* tables, and before their migration shard documents (db/client.py).      *)
(*                                                                         *)
(* A row is written by reading every row under a lock and replacing them   *)
(* all; the sweep, the import of the older store and the settings take no  *)
(* lock.  Every database call runs in a thread: it may fail, stop half-way *)
(* or take effect after its caller gave up.  A settings document is "own"  *)
(* (what the owner stored), "default", or either with a change, "own+" and *)
(* "default+".  The content of a message, its category, its media and the  *)
(* peer checks are left out: an edit always changes something.             *)
(***************************************************************************)
EXTENDS Integers, FiniteSets

CONSTANTS
    ArchiveTasks,  \* the updates, requests and sweeps of a behaviour, 1 .. n
    Plots,         \* what each task does, the stores at the start, the bounds
    MaxVersions,   \* MAX_VERSIONS_PER_MESSAGE
    ShardCount, RowsPerShard,
    OwnKeep, DefaultKeep,  \* retention, in ticks: the owner's, DEFAULT_RETENTION_DAYS
    ArchiveHorizon

Shards == 1 .. ShardCount
Loader == 0
Docs == {"default", "own", "own+", "default+"}

ArchiveJobs == {"snapshot", "edit", "deletion", "remove", "clear", "change", "sweep"}

ASSUME ArchiveAssumption ==
    /\ Loader \notin ArchiveTasks
    /\ {ShardCount, RowsPerShard, MaxVersions} \subseteq Nat \ {0}

NoRow == [msg |-> 0, kind |-> "none", ver |-> 0, n |-> 0, at |-> 0]
Empty == [i \in Shards |-> {}]
NoWrite == [what |-> "none", cells |-> Empty, drops |-> {}, doc |-> "none"]
IdleTask == [pc |-> "new", mode |-> "none", goal |-> "read", got |-> Empty,
             row |-> NoRow, write |-> NoWrite]
FreshBot == [mode |-> "none", loaded |-> FALSE, paused |-> FALSE, doc |-> "default",
             handled |-> {}, imported |-> FALSE]

VARIABLES
    plot,        \* which of Plots the behaviour is
    arcDb,       \* the dedicated rows and settings; the shards and the older document
    bot,         \* the service's memory
    arcTask,     \* task -> where it stands and what it carries
    arcLock,     \* the task that holds the lock, or Loader for none
    late,        \* writes whose caller gave up and which may still land
    arcLog,      \* history: rows confirmed, rows dropped on purpose, rows the owner
                 \* removed, the settings confirmed, and how any of them can get lost
    arcLeft,     \* what is left of the bounds on failures and restarts
    arcClock, captures

archiveVars == <<plot, arcDb, bot, arcTask, arcLock, late, arcLog, arcLeft, arcClock, captures>>

-----------------------------------------------------------------------------
(* The stores.  A store is read and written as one set of rows per shard, all  *)
(* of them in the first for the dedicated table.                               *)

IdOf(row) == <<row.msg, row.kind, row.ver>>
ContentOf(rows, msg) == {row \in rows : row.msg = msg /\ row.kind # "deletion"}
Oldest(rows) == {row \in rows : \A other \in rows : row.n <= other.n}

\* The rows in the order of the list, a new one at its front, cut at the bound.
Rank(rows, new, row) ==
    IF row = new THEN 0 ELSE Cardinality({r \in rows : r = new \/ r.n > row.n})
Bounded(rows, new) == {row \in rows : Rank(rows, new, row) < ShardCount * RowsPerShard}
Split(rows, new) == [i \in Shards |-> {row \in rows : Rank(rows, new, row) \div RowsPerShard = i - 1}]
Whole(rows) == [i \in Shards |-> IF i = 1 THEN rows ELSE {}]
RowsOf(cells) == UNION {cells[i] : i \in Shards}

\* One row of an update, no more versions of a message than are kept, no more rows
\* than the shards hold.
WithinBounds(rows) ==
    /\ \A a, b \in rows : IdOf(a) = IdOf(b) => a = b
    /\ Cardinality(rows) <= ShardCount * RowsPerShard
    /\ \A a \in rows : Cardinality(ContentOf(rows, a.msg)) <= MaxVersions

InStore(mode) == IF mode = "dedicated" THEN Whole(arcDb.entries) ELSE arcDb.shards
DocIn(mode) == IF mode = "dedicated" THEN arcDb.cfg ELSE arcDb.doc
TheStore == IF plot.tables THEN "dedicated" ELSE "legacy"
AwaitsImport == plot.tables /\ arcDb.cfg = "none" /\ arcDb.entries = {}
Archived == RowsOf(IF AwaitsImport THEN arcDb.shards ELSE InStore(TheStore))

Sanitized(doc) == IF doc = "none" THEN "default" ELSE doc
Effective == Sanitized(IF plot.tables /\ arcDb.cfg # "none" THEN arcDb.cfg ELSE arcDb.doc)
Changed(doc) == IF doc \in {"own", "own+"} THEN "own+" ELSE "default+"
Enabled(doc) == doc # "default"
Keep(doc) == IF doc \in {"own", "own+"} THEN OwnKeep ELSE DefaultKeep
Expired(rows, doc) == {row \in rows : arcClock - row.at > Keep(doc)}

\* What a write does, and what it has done when it stops half-way: the rows are
\* upserted before the others are pruned, the shards are written one by one.
Landed(w) ==
    CASE w.what = "entries" -> [arcDb EXCEPT !.entries = RowsOf(w.cells)]
      [] w.what = "prune" -> [arcDb EXCEPT !.entries = @ \ w.drops]
      [] w.what = "shards" -> [arcDb EXCEPT !.shards = w.cells]
      [] w.what = "cfg" -> [arcDb EXCEPT !.cfg = w.doc]
      [] w.what = "doc" -> [arcDb EXCEPT !.doc = w.doc]
Torn(w) ==
    CASE w.what = "entries" -> {[arcDb EXCEPT !.entries = @ \union RowsOf(w.cells)]}
      [] w.what = "shards" ->
           {[arcDb EXCEPT !.shards = [i \in Shards |-> IF i <= k THEN w.cells[i] ELSE @[i]]] :
               k \in 1 .. ShardCount - 1}
      [] OTHER -> {}

\* What a behaviour starts from: stores within their bounds, of rows numbered as
\* they were made; those it keeps are in the store, and in the shards as long as
\* nothing says that they were imported.
ASSUME PlotAssumption ==
    \A p \in Plots :
        /\ \A t \in ArchiveTasks : p.jobs[t].do \in ArchiveJobs
        /\ DOMAIN p.db = {"entries", "cfg", "shards", "doc"} /\ DOMAIN p.db.shards = Shards
        /\ {p.db.cfg, p.db.doc} \subseteq Docs \union {"none"}
        /\ IsFiniteSet(p.rows) /\ IsFiniteSet(p.db.entries) /\ IsFiniteSet(RowsOf(p.db.shards))
        /\ WithinBounds(p.db.entries) /\ WithinBounds(RowsOf(p.db.shards))
        /\ \A row, other \in p.db.entries \union RowsOf(p.db.shards) :
              row.n \in 1 .. Cardinality(p.rows) /\ (row.n = other.n => row = other)
        /\ ~p.tables => p.rows \subseteq RowsOf(p.db.shards)
        /\ p.tables /\ (p.db.cfg # "none" \/ p.db.entries # {}) => p.rows \subseteq p.db.entries
        /\ p.tables /\ p.db.cfg = "none" => p.rows \subseteq Bounded(RowsOf(p.db.shards), NoRow)

ArchiveInit ==
    /\ plot \in Plots
    /\ arcDb = plot.db
    /\ bot = FreshBot
    /\ arcTask = [t \in ArchiveTasks \union {Loader} |-> IdleTask]
    /\ arcLock = Loader
    /\ late = {}
    /\ arcLog = [kept |-> plot.rows, dropped |-> {}, removed |-> {}, doc |-> Effective, why |-> {}]
    /\ arcLeft = plot.bounds
    /\ arcClock = 0
    /\ captures = Cardinality(plot.rows)

-----------------------------------------------------------------------------
(* The steps of a task. *)

Job(t) == IF t = Loader THEN "load" ELSE plot.jobs[t].do
Msg(t) == plot.jobs[t].msg
Captures(t) == Job(t) \in {"snapshot", "edit", "deletion"}
At(t, pc) == arcTask[t].pc = pc

Fails == arcLeft.failures > 0 /\ arcLeft' = [arcLeft EXCEPT !.failures = @ - 1]
Works == UNCHANGED arcLeft
Blame(reasons) == arcLog' = [arcLog EXCEPT !.why = @ \union reasons]

SetTask(t, q) == arcTask' = [arcTask EXCEPT ![t] = q]
TaskTo(t, pc) == SetTask(t, [arcTask[t] EXCEPT !.pc = pc])
ArchiveLeave(t) ==
    /\ SetTask(t, [IdleTask EXCEPT !.pc = IF t = Loader THEN "new" ELSE "over"])
    /\ arcLock' = IF arcLock = t THEN Loader ELSE arcLock

\* The store is asked for once it is not known; a read of the dedicated one, by
\* all but the sweep, begins with the import unless that was done.
FirstStep(t, q) ==
    IF q.goal = "read" /\ q.mode = "dedicated" /\ ~bot.imported /\ Job(t) # "sweep"
    THEN "marker" ELSE q.goal
Asking(t, q) ==
    IF bot.mode = "none" THEN [q EXCEPT !.pc = "probe"]
    ELSE LET known == [q EXCEPT !.mode = bot.mode]
         IN [known EXCEPT !.pc = FirstStep(t, known)]

\* aed_store_mode: a transient error answers for this call only.
Probe(t) ==
    /\ At(t, "probe")
    /\ \E mode \in {"dedicated", "legacy"} :
          /\ \/ mode = TheStore /\ Works /\ bot' = [bot EXCEPT !.mode = mode]
             \/ mode = "legacy" /\ Fails /\ UNCHANGED bot
          /\ LET q == [arcTask[t] EXCEPT !.mode = mode]
             IN SetTask(t, [q EXCEPT !.pc = FirstStep(t, q)])
          /\ Blame(IF mode = TheStore THEN {} ELSE {"two stores"})
    /\ UNCHANGED <<plot, arcDb, arcLock, late, arcClock, captures>>

\* A write reports what happened, or only that it is not sure.
Attempt(w, confirmed) ==
    IF confirmed
    THEN Works /\ arcDb' = Landed(w) /\ UNCHANGED late
    ELSE /\ Fails
         /\ \/ arcDb' \in {arcDb, Landed(w)} \union Torn(w) /\ UNCHANGED late
            \/ UNCHANGED arcDb /\ late' = late \union {w}
Tearing(w) == IF arcDb' \in {arcDb, Landed(w)} THEN {} ELSE {"torn write"}
Dropping(w) == IF arcDb' = Landed(w) THEN w.drops ELSE {}

LateLands ==
    /\ \E w \in late : arcDb' = Landed(w) /\ late' = late \ {w}
    /\ Blame({"late write"})
    /\ UNCHANGED <<plot, bot, arcTask, arcLock, arcLeft, arcClock, captures>>

-----------------------------------------------------------------------------
(* Loading the settings, and the import of the older store on the way.       *)

NeedsLoad == ~bot.loaded /\ ~bot.paused

\* The settings row says that the import was done: the rows may all be gone since.
MarkedByRows == arcDb.entries # {}                                        \* mutant
Marked == arcDb.cfg # "none"

\* The preload at the start, or the first update that finds nothing loaded.
LoadBegin ==
    /\ NeedsLoad /\ At(Loader, "new")
    /\ SetTask(Loader, Asking(Loader, IdleTask))
    /\ UNCHANGED <<plot, arcDb, bot, arcLock, late, arcLog, arcLeft, arcClock, captures>>

\* A read of the import: the row that marks it, the rows already there, the
\* older rows, the older document.  An unreadable answer ends the import, and
\* what comes after it is done all the same.
ImportRead(t) ==
    /\ \E from \in {"marker", "entries", "shards", "document"} :
          /\ At(t, from)
          /\ \/ /\ Fails /\ UNCHANGED bot
                /\ TaskTo(t, "read") /\ Blame({"import cut short"})
             \/ /\ Works /\ UNCHANGED arcLog
                /\ bot' = [bot EXCEPT !.imported = @ \/ (from = "marker" /\ Marked)]
                /\ \/ /\ from = "marker"
                      /\ TaskTo(t, IF Marked THEN "read" ELSE "entries")
                   \/ /\ from = "entries"
                      /\ TaskTo(t, IF arcDb.entries # {} THEN "document" ELSE "shards")
                   \/ /\ from = "shards"
                      /\ LET rows == Bounded(RowsOf(arcDb.shards), NoRow)
                         IN SetTask(t, [arcTask[t] EXCEPT
                              !.pc = IF rows = {} THEN "document" ELSE "rows",
                              !.write = [NoWrite EXCEPT !.what = "entries", !.cells = Whole(rows)]])
                   \/ /\ from = "document"
                      /\ SetTask(t, [arcTask[t] EXCEPT !.pc = "settings",
                              !.write = [NoWrite EXCEPT !.what = "cfg", !.doc = Sanitized(arcDb.doc)]])
    /\ UNCHANGED <<plot, arcDb, arcLock, late, arcClock, captures>>

\* A write of the import: the rows, then the settings that mark it as done.
ImportWrite(t) ==
    /\ \E from \in {"rows", "settings"}, confirmed \in BOOLEAN :
          LET w == arcTask[t].write
              newer == \/ arcDb.cfg # "none"
                       \/ from = "rows" /\ arcDb.entries \notin {{}, RowsOf(w.cells)}
          IN /\ At(t, from)
             /\ Attempt(w, confirmed)
             /\ TaskTo(t, IF confirmed /\ from = "rows" THEN "document" ELSE "read")
             /\ bot' = [bot EXCEPT !.imported = @ \/ (confirmed /\ from = "settings")]
             /\ Blame(Tearing(w) \union (IF confirmed THEN {} ELSE {"import cut short"})
                                 \union (IF newer THEN {"import beside a write"} ELSE {}))
    /\ UNCHANGED <<plot, arcLock, arcClock, captures>>

LoadRead ==
    /\ At(Loader, "read")
    /\ \/ Fails /\ bot' = [bot EXCEPT !.paused = TRUE]
       \/ Works /\ bot' = [bot EXCEPT !.loaded = TRUE,
                                      !.doc = Sanitized(DocIn(arcTask[Loader].mode))]
    /\ ArchiveLeave(Loader)
    /\ UNCHANGED <<plot, arcDb, late, arcLog, arcClock, captures>>

\* _LOAD_RETRY_SECONDS pass, or the owner presses Refresh.
PauseEnds ==
    /\ bot.paused
    /\ bot' = [bot EXCEPT !.paused = FALSE]
    /\ UNCHANGED <<plot, arcDb, arcTask, arcLock, late, arcLog, arcLeft, arcClock, captures>>
Refresh ==
    /\ bot.loaded /\ arcLeft.restarts > 0
    /\ bot' = [bot EXCEPT !.loaded = FALSE]
    /\ arcLeft' = [arcLeft EXCEPT !.restarts = @ - 1]
    /\ UNCHANGED <<plot, arcDb, arcTask, arcLock, late, arcLog, arcClock, captures>>

-----------------------------------------------------------------------------
(* Updates, and the owner's removal of a message's history or of every row.    *)

Removes(t) == Job(t) \in {"remove", "clear"}
Victims(t, rows) == IF Job(t) = "clear" THEN rows ELSE ContentOf(rows, Msg(t))

\* record_message up to the lock: the id is noted before anything is written.
Receive(t) ==
    /\ Captures(t) /\ At(t, "new") /\ ~NeedsLoad
    /\ LET row == [msg |-> Msg(t), kind |-> Job(t), ver |-> plot.jobs[t].ver,
                   n |-> captures + 1, at |-> arcClock]
       IN CASE ~Enabled(bot.doc) -> ArchiveLeave(t) /\ UNCHANGED <<bot, captures>>
            [] Enabled(bot.doc) /\ Job(t) = "deletion" ->
                 TaskTo(t, "lock") /\ UNCHANGED <<bot, captures, arcLock>>
            [] OTHER ->
                 IF IdOf(row) \in bot.handled
                 THEN ArchiveLeave(t) /\ UNCHANGED <<bot, captures>>
                 ELSE /\ bot' = [bot EXCEPT !.handled = @ \union {IdOf(row)}]
                      /\ captures' = captures + 1
                      /\ SetTask(t, [arcTask[t] EXCEPT !.pc = "lock", !.row = row])
                      /\ UNCHANGED arcLock
    /\ UNCHANGED <<plot, arcDb, late, arcLog, arcLeft, arcClock>>

RemoveBegin(t) ==
    /\ Removes(t) /\ At(t, "new")
    /\ TaskTo(t, "lock")
    /\ UNCHANGED <<plot, arcDb, bot, arcLock, late, arcLog, arcLeft, arcClock, captures>>

LockIgnoredBy(t) ==                                                       \* mutant
    /\ At(t, "lock")
    /\ arcLock' = t
    /\ SetTask(t, Asking(t, arcTask[t]))
    /\ UNCHANGED <<plot, arcDb, bot, late, arcLog, arcLeft, arcClock, captures>>
LockTaken(t) ==
    /\ At(t, "lock") /\ arcLock = Loader
    /\ arcLock' = t
    /\ SetTask(t, Asking(t, arcTask[t]))
    /\ UNCHANGED <<plot, arcDb, bot, late, arcLog, arcLeft, arcClock, captures>>

\* The rows with the new one, without the oldest version when there are too many.
WithRow(rows, row) ==
    LET full == row.kind # "deletion" /\ Cardinality(ContentOf(rows, row.msg)) >= MaxVersions
        fewer == IF full THEN rows \ Oldest(ContentOf(rows, row.msg)) ELSE rows
    IN Bounded(fewer \union {row}, row)

\* The rows are read under the lock; the write that follows asks for the store again.
Replace(t, rows, row) ==
    SetTask(t, Asking(t, [arcTask[t] EXCEPT !.goal = "save", !.row = row,
        !.write = [NoWrite EXCEPT !.cells = Whole(rows),
                                  !.drops = RowsOf(InStore(arcTask[t].mode)) \ rows]]))
ReadRows(t) ==
    LET rows == Bounded(RowsOf(InStore(arcTask[t].mode)), NoRow)
        known == {IdOf(row) : row \in rows}
        deletion == [msg |-> Msg(t), kind |-> "deletion", ver |-> 0, n |-> captures + 1, at |-> arcClock]
    IN /\ At(t, "read") /\ (Captures(t) \/ Removes(t))
       /\ \/ Fails /\ ArchiveLeave(t) /\ UNCHANGED <<bot, captures>>
          \/ /\ Works
             /\ CASE Removes(t) ->
                       /\ IF Victims(t, rows) = {} THEN ArchiveLeave(t)
                          ELSE /\ Replace(t, rows \ Victims(t, rows), NoRow)
                               /\ UNCHANGED arcLock
                       /\ UNCHANGED <<bot, captures>>
                  [] Job(t) = "deletion" ->
                       /\ bot' = [bot EXCEPT !.handled = @ \union {IdOf(deletion)}]
                       /\ IF IdOf(deletion) \in bot.handled \union known
                          THEN ArchiveLeave(t) /\ UNCHANGED captures
                          ELSE /\ Replace(t, WithRow(rows, deletion), deletion)
                               /\ captures' = captures + 1
                               /\ UNCHANGED arcLock
                  [] OTHER ->
                       /\ IF IdOf(arcTask[t].row) \in known THEN ArchiveLeave(t)
                          ELSE /\ Replace(t, WithRow(rows, arcTask[t].row), arcTask[t].row)
                               /\ UNCHANGED arcLock
                       /\ UNCHANGED <<bot, captures>>
       /\ UNCHANGED <<plot, arcDb, late, arcLog, arcClock>>

\* Only a confirmed write is reported, and only then the owner's rows are gone.
SaveRows(t) ==
    LET q == arcTask[t]
        rows == RowsOf(q.write.cells)
        w == IF q.mode = "dedicated" THEN [q.write EXCEPT !.what = "entries"]
             ELSE [q.write EXCEPT !.what = "shards", !.cells = Split(rows, q.row)]
    IN /\ At(t, "save") /\ (Captures(t) \/ Removes(t))
       /\ \E confirmed \in BOOLEAN :
             /\ Attempt(w, confirmed)
             /\ arcLog' = [arcLog EXCEPT
                   !.kept = IF confirmed THEN @ \union ({q.row} \ {NoRow}) ELSE @,
                   !.removed = IF confirmed /\ Removes(t) THEN @ \union w.drops ELSE @,
                   !.dropped = @ \union Dropping(w),
                   !.why = @ \union Tearing(w)]
       /\ ArchiveLeave(t)
       /\ UNCHANGED <<plot, bot, arcClock, captures>>

-----------------------------------------------------------------------------
(* A change of the settings, and the sweep of the expired rows: no lock.       *)

ChangeUnloaded(t) ==                                                      \* mutant
    /\ Job(t) = "change" /\ At(t, "new") /\ ~NeedsLoad
    /\ SetTask(t, Asking(t, [arcTask[t] EXCEPT !.goal = "save",
                                  !.write = [NoWrite EXCEPT !.doc = Changed(bot.doc)]]))
    /\ UNCHANGED <<plot, arcDb, bot, arcLock, late, arcLog, arcLeft, arcClock, captures>>
ChangeBegin(t) ==
    /\ Job(t) = "change" /\ At(t, "new") /\ ~NeedsLoad
    /\ IF ~bot.loaded THEN ArchiveLeave(t)
       ELSE /\ SetTask(t, Asking(t, [arcTask[t] EXCEPT !.goal = "save",
                  !.write = [NoWrite EXCEPT !.doc = Changed(bot.doc)]]))
            /\ UNCHANGED arcLock
    /\ UNCHANGED <<plot, arcDb, bot, late, arcLog, arcLeft, arcClock, captures>>

SaveSettings(t) ==
    LET w == [arcTask[t].write EXCEPT !.what = IF arcTask[t].mode = "dedicated" THEN "cfg" ELSE "doc"]
    IN /\ Job(t) = "change" /\ At(t, "save")
       /\ \E confirmed \in BOOLEAN :
             /\ Attempt(w, confirmed)
             /\ bot' = IF confirmed THEN [bot EXCEPT !.doc = w.doc] ELSE bot
             /\ arcLog' = [arcLog EXCEPT !.doc = IF confirmed THEN Changed(@) ELSE @]
       /\ ArchiveLeave(t)
       /\ UNCHANGED <<plot, arcClock, captures>>

\* The worker sleeps before its first sweep, when the settings were long asked for.
SweepBegin(t) ==
    /\ Job(t) = "sweep" /\ At(t, "new") /\ arcClock > 0 /\ ~NeedsLoad
    /\ SetTask(t, Asking(t, arcTask[t]))
    /\ UNCHANGED <<plot, arcDb, bot, arcLock, late, arcLog, arcLeft, arcClock, captures>>

SweepRead(t) ==
    /\ Job(t) = "sweep" /\ At(t, "read")
    /\ \/ Fails /\ ArchiveLeave(t)
       \/ /\ Works /\ UNCHANGED arcLock
          /\ SetTask(t, [arcTask[t] EXCEPT !.pc = "retention", !.got = InStore(arcTask[t].mode)])
    /\ UNCHANGED <<plot, arcDb, bot, late, arcLog, arcClock, captures>>

\* The retention: an unreadable document is taken for the default one.
SweepRetention(t) ==
    /\ At(t, "retention")
    /\ \E readable \in BOOLEAN :
          LET got == arcTask[t].got
              doc == IF readable THEN DocIn(arcTask[t].mode) ELSE "none"
              expired == Expired(RowsOf(got), doc)
          IN /\ IF readable THEN Works ELSE Fails
             /\ IF expired = {} THEN ArchiveLeave(t)
                ELSE /\ SetTask(t, [arcTask[t] EXCEPT !.pc = "save", !.write = [NoWrite EXCEPT
                                      !.what = IF arcTask[t].mode = "dedicated" THEN "prune" ELSE "shards",
                                      !.cells = [i \in Shards |-> got[i] \ expired],
                                      !.drops = expired]])
                     /\ UNCHANGED arcLock
             /\ Blame(IF readable THEN {} ELSE {"retention unread"})
    /\ UNCHANGED <<plot, arcDb, bot, late, arcClock, captures>>

SweepSave(t) ==
    LET w == arcTask[t].write
        moved == w.what = "shards" /\ arcDb.shards # arcTask[t].got
    IN /\ Job(t) = "sweep" /\ At(t, "save")
       /\ \E confirmed \in BOOLEAN :
             /\ Attempt(w, confirmed)
             /\ arcLog' = [arcLog EXCEPT
                   !.dropped = @ \union Expired(Dropping(w), Effective),
                   !.why = @ \union Tearing(w) \union (IF moved THEN {"sweep beside a write"} ELSE {})]
       /\ ArchiveLeave(t)
       /\ UNCHANGED <<plot, bot, arcClock, captures>>

-----------------------------------------------------------------------------
(* A day passes, between the tasks; the process ends, and begins again with    *)
(* nothing in memory.                                                          *)
Quiet(t) == arcTask[t].pc \in {"new", "over"}
ArchiveTick ==
    /\ arcClock < ArchiveHorizon /\ ~NeedsLoad
    /\ \A t \in DOMAIN arcTask : Quiet(t)
    /\ arcClock' = arcClock + 1
    /\ bot' = [bot EXCEPT !.handled = {}]
    /\ UNCHANGED <<plot, arcDb, arcTask, arcLock, late, arcLog, arcLeft, captures>>

ArchiveRestart ==
    /\ arcLeft.restarts > 0
    /\ arcLeft' = [arcLeft EXCEPT !.restarts = @ - 1]
    /\ bot' = FreshBot
    /\ arcTask' = [t \in DOMAIN arcTask |-> IF Quiet(t) THEN arcTask[t]
                      ELSE [IdleTask EXCEPT !.pc = IF t = Loader THEN "new" ELSE "over"]]
    /\ arcLock' = Loader
    /\ UNCHANGED <<plot, arcDb, late, arcLog, arcClock, captures>>

TaskStep(t) ==
    \/ Receive(t) \/ RemoveBegin(t) \/ LockTaken(t) \/ ReadRows(t) \/ SaveRows(t)
    \/ ChangeBegin(t) \/ SaveSettings(t)
    \/ SweepBegin(t) \/ SweepRead(t) \/ SweepRetention(t) \/ SweepSave(t)
ArchiveStep ==
    \/ \E t \in DOMAIN arcTask : Probe(t) \/ ImportRead(t) \/ ImportWrite(t)
    \/ \E t \in ArchiveTasks : TaskStep(t)
    \/ LoadBegin \/ LoadRead
ArchiveNext == ArchiveStep \/ LateLands \/ PauseEnds \/ Refresh \/ ArchiveTick \/ ArchiveRestart
ArchiveSpec == ArchiveInit /\ [][ArchiveNext]_archiveVars

-----------------------------------------------------------------------------
(* Only a torn write leaves an archive beyond its bounds.                        *)
ArchiveTypeOK ==
    /\ arcDb.cfg \in Docs \union {"none"}
    /\ DOMAIN arcDb.shards = Shards
    /\ bot.mode \in {"none", TheStore}
    /\ arcLock \in ArchiveTasks \union {Loader}
    /\ "torn write" \notin arcLog.why => WithinBounds(Archived)

(* A row whose write was confirmed stays until its message has too many, the    *)
(* archive is full, the owner removes it or its retention ends: whatever other   *)
(* update, removal, sweep, restart or failed call comes between.  It is lost     *)
(* when a sweep of the shards overwrites what was written since it read them, or *)
(* takes the default retention for one it could not read; when a write stops     *)
(* half-way or lands late; when the store asked for is not the one in use; and   *)
(* when an import was cut short.                                                 *)
ArchivedRowsStay ==
    arcLog.why \subseteq {"import beside a write"} =>
        arcLog.kept \ (arcLog.dropped \union arcLog.removed) \subseteq Archived

(* What the owner was told is removed never returns: not by an update that had   *)
(* read it, not by the import of the older store after a restart.  It returns    *)
(* when a sweep of the shards that read before the removal writes them back,     *)
(* when an import runs beside the removal, when one cut short is done again, or  *)
(* with a late write or the wrong store.                                         *)
RemovedRowsStayRemoved ==
    arcLog.why \subseteq {"torn write", "retention unread"} =>
        arcLog.removed \cap Archived = {}

(* The owner's settings are never replaced by the defaults, nor a confirmed      *)
(* change lost, when they could not be read or another load overlaps; except by   *)
(* an import cut short or beside a change, or in the wrong store.                *)
SettingsOutliveOutages ==
    arcLog.why \cap {"two stores", "import cut short", "import beside a write"} = {} =>
        Effective \in {arcLog.doc, Changed(arcLog.doc)}
===============================================================================
