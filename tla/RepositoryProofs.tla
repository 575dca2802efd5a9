---------------------------- MODULE RepositoryProofs ----------------------------
(***************************************************************************)
(* Proofs about what the repositories keep.                                 *)
(*                                                                         *)
(* DegradedStore, for any asks, outages, late writes, restarts and edits: a *)
(* task is carried out at most once for every store it was written to, and  *)
(* a boundary consumed in the durable store was served.                     *)
(*                                                                         *)
(* TodoSteps, for any clients and any limits: type correctness, and that    *)
(* adding steps never meets a taken position and never exceeds the limit of *)
(* a todo, however adds, removals, completions and restarts interleave.     *)
(***************************************************************************)
EXTENDS TodoSteps, DegradedStore, FiniteSetTheorems, TLAPS

-----------------------------------------------------------------------------
(* The degraded store: who a row belongs to.  An occurrence is made only for an ask   *)
(* whose task was given that id, in a store with a task of that id; so unless the id   *)
(* is shared, it is in a store the ask was given, in the row of its task.              *)

Statuses == {"none", "claimed", "running", "interrupted", "retry_pending", "succeeded", "failed"}
Spent == {"running", "succeeded", "failed"}
Walks == {"task", "occurrence", "insert", "claim read", "claim", "act", "settle read", "settle",
          "advance read", "advance"}
TaskRows == [ask: Asks \union {NoAsk}, version: Nat, due: BOOLEAN]
Tables == [tasks: [TaskIds -> TaskRows],
           occs: [Keys -> Statuses], last: Nat]
Workers == [pc: Walks \union {"idle", "recover", "resolve"}, id: TaskIds \union {0},
            ask: Asks \union {NoAsk}, version: Nat, retry: BOOLEAN, from: Statuses, todo: SUBSET Keys]
WriteRecords == [op: {"none", "task", "occurrence", "move", "advance"}, id: TaskIds \union {0},
           ask: Asks \union {NoAsk}, from: Statuses, to: Statuses, version: Nat]
Givens == [Asks -> SUBSET ({"durable", "memory"} \X Nat)]

SharedTask(gv, a) == \E b \in Asks \ {a} : \E g \in gv[a], h \in gv[b] : g[2] = h[2]
Known(gv, a, id) == \E g \in gv[a] : g[2] = id

\* The rows of one store.
RowsInv(store, name, gv) ==
    /\ \A id \in TaskIds : store.tasks[id] # NoTask =>
          /\ store.tasks[id].ask \in Asks /\ store.tasks[id].version >= 1
          /\ <<name, id>> \in gv[store.tasks[id].ask]
    /\ \A id \in TaskIds, a \in Asks : store.occs[<<id, a>>] # "none" =>
          store.tasks[id] # NoTask /\ Known(gv, a, id)

\* A task is written once to each store at most.
GivenInv(gv, ak, lt) ==
    /\ \A a \in Asks :
          /\ IsFiniteSet(gv[a])
          /\ \A g, h \in gv[a] : g[1] = h[1] => g = h
          /\ ak[a] = "new" => gv[a] = {}
          /\ ak[a] = "ceiling" => \A g \in gv[a] : g[1] = "durable"
    /\ lt.op = "task" => /\ lt.ask \in Asks /\ ak[lt.ask] # "new"
                         /\ \A g \in gv[lt.ask] : g[1] = "memory"

-----------------------------------------------------------------------------
(* An execution begins with a claim, and a claimed row of a store is never claimable   *)
(* again; the rows of the fallback end with the process.                               *)

Ran(st, gv, a) == \E id \in TaskIds : <<"durable", id>> \in gv[a] /\ st.occs[<<id, a>>] \in Spent
RanBeside(mem, gv, a) ==
    \E g \in gv[a] : /\ g[1] = "memory"
                     /\ g[2] \in TaskIds /\ mem.tasks[g[2]].ask = a => mem.occs[<<g[2], a>>] \in Spent
Begun(times, wk, a) == times[a] + IF wk.pc = "act" /\ wk.ask = a THEN 1 ELSE 0
EffectsInv(st, mem, gv, times, wk) ==
    \A a \in Asks : SharedTask(gv, a) \/
        Begun(times, wk, a) <= (IF Ran(st, gv, a) THEN 1 ELSE 0)
                                + (IF RanBeside(mem, gv, a) THEN 1 ELSE 0)

-----------------------------------------------------------------------------
(* What is consumed was served: its occurrence began, or somebody else answered.       *)

Excused(gv, ms, id, a) ==
    <<id, a>> \in ms \/ SharedTask(gv, a) \/ \E g \in gv[a] : g[1] = "memory"
Served(st, gv, ms, id, a) ==
    st.occs[<<id, a>>] \notin {"none", "claimed"} \/ Excused(gv, ms, id, a)

WorkerInv(wk, st, gv, ms) ==
    wk.pc \in Walks =>
        /\ wk.id \in TaskIds /\ wk.ask \in Asks /\ Known(gv, wk.ask, wk.id)
        /\ wk.retry \/ wk.version >= 1
        /\ wk.pc \in {"task", "occurrence", "insert", "advance read", "advance"} => ~wk.retry
        /\ wk.pc = "claim read" =>
              Served(st, gv, ms, wk.id, wk.ask) \/ st.occs[<<wk.id, wk.ask>>] = "claimed"
        /\ wk.pc = "claim" =>
              /\ wk.from \in Claimable
              /\ \/ Served(st, gv, ms, wk.id, wk.ask)
                 \/ wk.from = "claimed" /\ st.occs[<<wk.id, wk.ask>>] = "claimed"
        /\ wk.pc \in {"act", "settle read", "settle", "advance read", "advance"} =>
              Served(st, gv, ms, wk.id, wk.ask)
LateInv(lt, st, gv, ms) ==
    /\ lt.op \in {"occurrence", "move", "advance"} =>
          lt.id \in TaskIds /\ lt.ask \in Asks /\ Known(gv, lt.ask, lt.id)
    /\ lt.op = "move" => \/ lt.from \in Claimable /\ lt.to = "running"
                         \/ lt.from = "running" /\ lt.to \in {"succeeded", "failed"}
    /\ lt.op = "advance" => lt.version >= 1 /\ Served(st, gv, ms, lt.id, lt.ask)
DueInv(st, gv, ms) ==
    \A id \in TaskIds : st.tasks[id] # NoTask /\ ~st.tasks[id].due =>
        Served(st, gv, ms, id, st.tasks[id].ask)

DegradedTypes ==
    /\ stored \in Tables /\ memory \in Tables /\ seen \in Nat
    /\ asks \in [Asks -> {"new", "ceiling", "done"}]
    /\ late \in WriteRecords /\ worker \in Workers
    /\ carried \in [Asks -> Nat] /\ given \in Givens
DegradedInv ==
    /\ DegradedTypes
    /\ RowsInv(stored, "durable", given) /\ RowsInv(memory, "memory", given)
    /\ GivenInv(given, asks, late)
    /\ EffectsInv(stored, memory, given, carried, worker)
    /\ WorkerInv(worker, stored, given, missed) /\ LateInv(late, stored, given, missed)
    /\ DueInv(stored, given, missed)

-----------------------------------------------------------------------------
(* The stores. *)

LEMMA MovedFacts ==
  ASSUME NEW st \in Tables, NEW id \in TaskIds, NEW a \in Asks, NEW to \in Statuses
  PROVE  /\ Moved(st, <<id, a>>, to) \in Tables
         /\ Moved(st, <<id, a>>, to).tasks = st.tasks /\ Moved(st, <<id, a>>, to).last = st.last
         /\ \A i \in TaskIds, b \in Asks : Moved(st, <<id, a>>, to).occs[<<i, b>>] =
               IF i = id /\ b = a THEN to ELSE st.occs[<<i, b>>]
  <1>1. PICK key \in Keys : key = <<id, a>>
    BY DEF Keys
  <1>2. PICK o : o = [st.occs EXCEPT ![key] = to]
    OBVIOUS
  <1>3. st.occs \in [Keys -> Statuses]
    BY DEF Tables
  <1>4. o \in [Keys -> Statuses] /\ \A k \in Keys : o[k] = IF k = key THEN to ELSE st.occs[k]
    BY <1>2, <1>3
  <1>5. \A s \in Tables : /\ [s EXCEPT !.occs = o] \in Tables /\ [s EXCEPT !.occs = o].occs = o
                          /\ [s EXCEPT !.occs = o].tasks = s.tasks
                          /\ [s EXCEPT !.occs = o].last = s.last
    BY <1>4 DEF Tables
  <1>6. PICK m : m = [st EXCEPT !.occs = o]
    OBVIOUS
  <1>7. Moved(st, <<id, a>>, to) = m
    BY <1>1, <1>2, <1>6 DEF Moved
  <1>8. m \in Tables /\ m.occs = o /\ m.tasks = st.tasks /\ m.last = st.last
    BY <1>5, <1>6
  <1>9. ASSUME NEW i \in TaskIds, NEW b \in Asks
        PROVE  m.occs[<<i, b>>] = IF i = id /\ b = a THEN to ELSE st.occs[<<i, b>>]
    <2>1. <<i, b>> \in Keys /\ (<<i, b>> = key <=> i = id /\ b = a)
      BY <1>1 DEF Keys
    <2>. QED  BY <1>4, <1>8, <2>1
  <1>. QED  BY <1>7, <1>8, <1>9

LEMMA ConsumedFacts ==
  ASSUME NEW st \in Tables, NEW id \in TaskIds
  PROVE  /\ Consumed(st, id) \in Tables /\ Consumed(st, id).occs = st.occs
         /\ Consumed(st, id).tasks[id].ask = st.tasks[id].ask
         /\ Consumed(st, id).tasks[id].version = st.tasks[id].version + 1
         /\ ~Consumed(st, id).tasks[id].due /\ Consumed(st, id).last = st.last
         /\ \A i \in TaskIds \ {id} : Consumed(st, id).tasks[i] = st.tasks[i]
  <1>1. st.tasks \in [TaskIds -> TaskRows]
    BY DEF Tables
  <1>2. PICK t : t = [st.tasks[id] EXCEPT !.due = FALSE, !.version = @ + 1]
    OBVIOUS
  <1>3. /\ t \in TaskRows
        /\ t.ask = st.tasks[id].ask /\ t.version = st.tasks[id].version + 1 /\ ~t.due
    <2>1. \A r \in TaskRows, n \in Nat :
             /\ [r EXCEPT !.due = FALSE, !.version = n] \in TaskRows
             /\ [r EXCEPT !.due = FALSE, !.version = n].ask = r.ask
             /\ [r EXCEPT !.due = FALSE, !.version = n].version = n
             /\ ~[r EXCEPT !.due = FALSE, !.version = n].due
      BY DEF TaskRows
    <2>2. st.tasks[id] \in TaskRows /\ st.tasks[id].version + 1 \in Nat
      BY <1>1 DEF TaskRows
    <2>3. t = [st.tasks[id] EXCEPT !.due = FALSE, !.version = st.tasks[id].version + 1]
      BY <1>2
    <2>. QED  BY <2>1, <2>2, <2>3
  <1>4. PICK ts : ts = [st.tasks EXCEPT ![id] = t]
    OBVIOUS
  <1>5. /\ ts \in [TaskIds -> TaskRows]
        /\ ts[id] = t /\ \A i \in TaskIds \ {id} : ts[i] = st.tasks[i]
    BY <1>1, <1>3, <1>4
  <1>6. \A s \in Tables : /\ [s EXCEPT !.tasks = ts] \in Tables /\ [s EXCEPT !.tasks = ts].tasks = ts
                          /\ [s EXCEPT !.tasks = ts].occs = s.occs
                          /\ [s EXCEPT !.tasks = ts].last = s.last
    BY <1>5 DEF Tables
  <1>7. PICK m : m = [st EXCEPT !.tasks = ts]
    OBVIOUS
  <1>8. Consumed(st, id) = m
    BY <1>1, <1>2, <1>4, <1>7 DEF Consumed, Tables
  <1>9. m \in Tables /\ m.tasks = ts /\ m.occs = st.occs /\ m.last = st.last
    BY <1>6, <1>7
  <1>. QED  BY <1>3, <1>5, <1>8, <1>9

LEMMA InsertedFacts ==
  ASSUME NEW st \in Tables, NEW id \in Nat, NEW a \in Asks
  PROVE  /\ Inserted(st, id, a) \in Tables /\ Inserted(st, id, a).occs = st.occs
         /\ Inserted(st, id, a).last = id
         /\ \A i \in TaskIds : Inserted(st, id, a).tasks[i] = IF i = id THEN NewTask(a) ELSE st.tasks[i]
  <1>1. st.tasks \in [TaskIds -> TaskRows]
    BY DEF Tables
  <1>2. NewTask(a) \in TaskRows
    BY DEF NewTask, TaskRows
  <1>3. PICK ts : ts = [st.tasks EXCEPT ![id] = NewTask(a)]
    OBVIOUS
  <1>4. /\ ts \in [TaskIds -> TaskRows]
        /\ \A i \in TaskIds : ts[i] = IF i = id THEN NewTask(a) ELSE st.tasks[i]
    BY <1>1, <1>2, <1>3
  <1>5. \A s \in Tables : /\ [s EXCEPT !.tasks = ts, !.last = id] \in Tables
                          /\ [s EXCEPT !.tasks = ts, !.last = id].tasks = ts
                          /\ [s EXCEPT !.tasks = ts, !.last = id].occs = s.occs
                          /\ [s EXCEPT !.tasks = ts, !.last = id].last = id
    BY <1>4 DEF Tables
  <1>6. PICK m : m = [st EXCEPT !.tasks = ts, !.last = id]
    OBVIOUS
  <1>7. Inserted(st, id, a) = m
    BY <1>3, <1>6 DEF Inserted
  <1>8. m \in Tables /\ m.tasks = ts /\ m.occs = st.occs /\ m.last = id
    BY <1>5, <1>6
  <1>. QED  BY <1>4, <1>7, <1>8

\* A store goes on: its tasks stay with their asks, a new occurrence is one of a task
\* that is there, and no occurrence goes back to where it could be claimed a first time.
Follows(s1, s2, gv) ==
    /\ s2 \in Tables
    /\ \A id \in TaskIds :
          /\ s2.tasks[id].ask = s1.tasks[id].ask
          /\ s2.tasks[id] # NoTask <=> s1.tasks[id] # NoTask
          /\ s2.tasks[id].version >= s1.tasks[id].version
    /\ \A id \in TaskIds, a \in Asks :
          \/ s2.occs[<<id, a>>] = s1.occs[<<id, a>>]
          \/ /\ s1.occs[<<id, a>>] = "none" /\ s2.occs[<<id, a>>] = "claimed"
             /\ s1.tasks[id] # NoTask /\ Known(gv, a, id)
          \/ /\ s1.occs[<<id, a>>] # "none" /\ s2.occs[<<id, a>>] \notin {"none", "claimed"}
             /\ s1.occs[<<id, a>>] \in Spent => s2.occs[<<id, a>>] \in Spent

LEMMA FollowsItself ==
  ASSUME NEW st \in Tables, NEW gv
  PROVE  Follows(st, st, gv)
  <1>1. st.tasks \in [TaskIds -> TaskRows]
    BY DEF Tables
  <1>. QED  BY <1>1 DEF Follows, TaskRows

LEMMA RowsFollow ==
  ASSUME NEW s1 \in Tables, NEW s2, NEW gv, NEW name, RowsInv(s1, name, gv), Follows(s1, s2, gv)
  PROVE  RowsInv(s2, name, gv)
  <1>1. ASSUME NEW id \in TaskIds, s2.tasks[id] # NoTask
        PROVE  /\ s2.tasks[id].ask \in Asks /\ s2.tasks[id].version >= 1
               /\ <<name, id>> \in gv[s2.tasks[id].ask]
    <2>1. s1.tasks[id] # NoTask /\ s2.tasks[id].ask = s1.tasks[id].ask
          /\ s2.tasks[id].version >= s1.tasks[id].version
      BY <1>1 DEF Follows, TaskRows
    <2>2. /\ s1.tasks[id].ask \in Asks /\ s1.tasks[id].version >= 1
          /\ <<name, id>> \in gv[s1.tasks[id].ask]
      BY <2>1 DEF RowsInv
    <2>3. s1.tasks[id].version \in Nat /\ s2.tasks[id].version \in Nat
      BY DEF Tables, TaskRows, Follows
    <2>. QED  BY <2>1, <2>2, <2>3
  <1>2. ASSUME NEW id \in TaskIds, NEW a \in Asks, s2.occs[<<id, a>>] # "none"
        PROVE  s2.tasks[id] # NoTask /\ Known(gv, a, id)
    BY <1>2 DEF Follows, RowsInv
  <1>. QED  BY <1>1, <1>2 DEF RowsInv

LEMMA ServedFollows ==
  ASSUME NEW s1, NEW s2, NEW gv, NEW ms, NEW ms2, NEW id \in TaskIds, NEW a \in Asks,
         Follows(s1, s2, gv), ms \subseteq ms2
  PROVE  /\ Served(s1, gv, ms, id, a) => Served(s2, gv, ms2, id, a)
         /\ s1.occs[<<id, a>>] = "claimed" =>
               s2.occs[<<id, a>>] = "claimed" \/ Served(s2, gv, ms2, id, a)
  BY DEF Follows, Served, Excused

LEMMA RanFollows ==
  ASSUME NEW st, NEW st2, NEW mem, NEW mem2, NEW gv, NEW a \in Asks,
         Follows(st, st2, gv), Follows(mem, mem2, gv)
  PROVE  /\ Ran(st, gv, a) => Ran(st2, gv, a)
         /\ RanBeside(mem, gv, a) => RanBeside(mem2, gv, a)
  <1>1. Ran(st, gv, a) => Ran(st2, gv, a)
    BY DEF Ran, Follows, Spent
  <1>2. RanBeside(mem, gv, a) => RanBeside(mem2, gv, a)
    <2>1. SUFFICES ASSUME NEW g \in gv[a], g[1] = "memory",
                          g[2] \in TaskIds /\ mem.tasks[g[2]].ask = a => mem.occs[<<g[2], a>>] \in Spent
                   PROVE  g[2] \in TaskIds /\ mem2.tasks[g[2]].ask = a => mem2.occs[<<g[2], a>>] \in Spent
      BY DEF RanBeside
    <2>2. SUFFICES ASSUME g[2] \in TaskIds, mem2.tasks[g[2]].ask = a
                   PROVE  mem2.occs[<<g[2], a>>] \in Spent
      OBVIOUS
    <2>3. mem.tasks[g[2]].ask = a
      BY <2>2 DEF Follows
    <2>4. mem.occs[<<g[2], a>>] \in Spent
      BY <2>1, <2>2, <2>3
    <2>. QED  BY <2>2, <2>4 DEF Follows, Spent
  <1>. QED  BY <1>1, <1>2

LEMMA EffectsFollow ==
  ASSUME NEW st \in Tables, NEW st2, NEW mem \in Tables, NEW mem2, NEW gv,
         NEW times, NEW wk, NEW times2, NEW wk2,
         EffectsInv(st, mem, gv, times, wk), Follows(st, st2, gv), Follows(mem, mem2, gv),
         \A a \in Asks : /\ Begun(times, wk, a) \in Nat /\ Begun(times2, wk2, a) \in Nat
                         /\ Begun(times2, wk2, a) <= Begun(times, wk, a)
  PROVE  EffectsInv(st2, mem2, gv, times2, wk2)
  <1>1. \A a \in Asks : /\ Ran(st, gv, a) => Ran(st2, gv, a)
                        /\ RanBeside(mem, gv, a) => RanBeside(mem2, gv, a)
    BY RanFollows
  <1>2. ASSUME NEW a \in Asks, ~SharedTask(gv, a)
        PROVE  Begun(times2, wk2, a) <= (IF Ran(st2, gv, a) THEN 1 ELSE 0)
                                          + (IF RanBeside(mem2, gv, a) THEN 1 ELSE 0)
    <2>1. Begun(times, wk, a) <= (IF Ran(st, gv, a) THEN 1 ELSE 0)
                                   + (IF RanBeside(mem, gv, a) THEN 1 ELSE 0)
      BY <1>2 DEF EffectsInv
    <2>. QED  BY <1>1, <2>1
  <1>. QED  BY <1>2 DEF EffectsInv

LEMMA MoveFollows ==
  ASSUME NEW st \in Tables, NEW id \in TaskIds, NEW a \in Asks, NEW to \in Statuses, NEW gv,
         \/ /\ st.occs[<<id, a>>] = "none" /\ to = "claimed"
            /\ st.tasks[id] # NoTask /\ Known(gv, a, id)
         \/ /\ st.occs[<<id, a>>] # "none" /\ to \notin {"none", "claimed"}
            /\ st.occs[<<id, a>>] \in Spent => to \in Spent
  PROVE  Follows(st, Moved(st, <<id, a>>, to), gv)
  <1>1. PICK m : m = Moved(st, <<id, a>>, to)
    OBVIOUS
  <1>2. /\ m \in Tables /\ m.tasks = st.tasks
        /\ \A i \in TaskIds, b \in Asks : m.occs[<<i, b>>] =
              IF i = id /\ b = a THEN to ELSE st.occs[<<i, b>>]
    BY <1>1, MovedFacts
  <1>3. Follows(st, m, gv)
    BY <1>2, FollowsItself DEF Follows
  <1>. QED  BY <1>1, <1>3

LEMMA ConsumeFollows ==
  ASSUME NEW st \in Tables, NEW id \in TaskIds, NEW gv, st.tasks[id] # NoTask,
         st.tasks[id].version >= 1
  PROVE  Follows(st, Consumed(st, id), gv)
  <1>1. PICK m : m = Consumed(st, id)
    OBVIOUS
  <1>2. /\ m \in Tables /\ m.occs = st.occs /\ m.tasks[id].ask = st.tasks[id].ask
        /\ m.tasks[id].version = st.tasks[id].version + 1
        /\ \A i \in TaskIds \ {id} : m.tasks[i] = st.tasks[i]
    BY <1>1, ConsumedFacts
  <1>3. \A i \in TaskIds : st.tasks[i].version \in Nat
    BY DEF Tables, TaskRows
  <1>4. m.tasks[id] # NoTask
    <2>1. NoTask.version = 0
      BY DEF NoTask
    <2>. QED  BY <1>2, <1>3, <2>1
  <1>5. Follows(st, m, gv)
    BY <1>2, <1>3, <1>4 DEF Follows
  <1>. QED  BY <1>1, <1>5

LEMMA DueFollows ==
  ASSUME NEW st \in Tables, NEW st2, NEW gv, NEW ms, RowsInv(st, "durable", gv),
         DueInv(st, gv, ms), Follows(st, st2, gv),
         \A id \in TaskIds : ~st2.tasks[id].due => ~st.tasks[id].due
  PROVE  DueInv(st2, gv, ms)
  <1>1. ASSUME NEW id \in TaskIds, st2.tasks[id] # NoTask, ~st2.tasks[id].due
        PROVE  Served(st2, gv, ms, id, st2.tasks[id].ask)
    <2>1. st.tasks[id] # NoTask /\ ~st.tasks[id].due /\ st2.tasks[id].ask = st.tasks[id].ask
      BY <1>1 DEF Follows
    <2>2. PICK a \in Asks : a = st.tasks[id].ask
      BY <2>1 DEF RowsInv
    <2>3. Served(st, gv, ms, id, a)
      BY <2>1, <2>2 DEF DueInv
    <2>4. ms \subseteq ms
      OBVIOUS
    <2>. QED  BY <2>1, <2>2, <2>3, <2>4, ServedFollows
  <1>. QED  BY <1>1 DEF DueInv

\* A write that lands in the store of the rows it was meant for.
LEMMA LandedFollows ==
  ASSUME NEW w \in WriteRecords, NEW gv, NEW ms,
         stored \in Tables, RowsInv(stored, "durable", gv), DueInv(stored, gv, ms),
         LateInv(w, stored, gv, ms), w.op # "task"
  PROVE  Follows(stored, Landed(w), gv) /\ DueInv(Landed(w), gv, ms)
  <1>1. PICK key : key = <<w.id, w.ask>>
    OBVIOUS
  <1>2. CASE Landed(w) = stored
    BY <1>2, FollowsItself
  <1>3. CASE w.op = "occurrence" /\ stored.tasks[w.id] # NoTask /\ stored.occs[key] = "none"
    <2>1. w.id \in TaskIds /\ w.ask \in Asks /\ Known(gv, w.ask, w.id) /\ "claimed" \in Statuses
      BY <1>3 DEF LateInv, Statuses
    <2>2. PICK m : m = Moved(stored, <<w.id, w.ask>>, "claimed")
      OBVIOUS
    <2>3. Landed(w) = m
      BY <1>1, <1>3, <2>2 DEF Landed
    <2>4. Follows(stored, m, gv) /\ m.tasks = stored.tasks
      BY <1>1, <1>3, <2>1, <2>2, MoveFollows, MovedFacts
    <2>5. DueInv(m, gv, ms)
      BY <2>4, DueFollows
    <2>. QED  BY <2>3, <2>4, <2>5
  <1>4. CASE w.op = "move" /\ stored.occs[key] = w.from
    <2>1. /\ w.id \in TaskIds /\ w.ask \in Asks
          /\ \/ w.from \in Claimable /\ w.to = "running"
             \/ w.from = "running" /\ w.to \in {"succeeded", "failed"}
      BY <1>4 DEF LateInv
    <2>2. /\ w.to \in Statuses /\ w.to \notin {"none", "claimed"} /\ w.to \in Spent
          /\ stored.occs[<<w.id, w.ask>>] # "none"
      BY <1>1, <1>4, <2>1 DEF Statuses, Spent, Claimable
    <2>3. PICK m : m = Moved(stored, <<w.id, w.ask>>, w.to)
      OBVIOUS
    <2>4. Landed(w) = m
      BY <1>1, <1>4, <2>3 DEF Landed
    <2>5. Follows(stored, m, gv) /\ m.tasks = stored.tasks
      BY <2>1, <2>2, <2>3, MoveFollows, MovedFacts
    <2>6. DueInv(m, gv, ms)
      BY <2>5, DueFollows
    <2>. QED  BY <2>4, <2>5, <2>6
  <1>5. CASE w.op = "advance" /\ stored.tasks[w.id].version = w.version
    <2>1. /\ w.id \in TaskIds /\ w.ask \in Asks /\ Known(gv, w.ask, w.id)
          /\ w.version >= 1 /\ Served(stored, gv, ms, w.id, w.ask)
      BY <1>5 DEF LateInv
    <2>2. PICK m : m = Consumed(stored, w.id)
      OBVIOUS
    <2>3. Landed(w) = m
      BY <1>5, <2>2 DEF Landed
    <2>4. /\ m \in Tables /\ m.occs = stored.occs
          /\ m.tasks[w.id].ask = stored.tasks[w.id].ask
          /\ m.tasks[w.id].version = stored.tasks[w.id].version + 1
          /\ \A i \in TaskIds \ {w.id} : m.tasks[i] = stored.tasks[i]
      BY <2>1, <2>2, ConsumedFacts
    <2>5. stored.tasks[w.id] # NoTask /\ stored.tasks[w.id].version >= 1
      <3>1. NoTask.version = 0 /\ w.version >= 1
        BY <2>1 DEF NoTask
      <3>. QED  BY <1>5, <3>1
    <2>6. Follows(stored, m, gv)
      BY <2>1, <2>2, <2>5, ConsumeFollows
    <2>7. m.tasks[w.id] # NoTask
      BY <2>1, <2>5, <2>6 DEF Follows
    <2>8. DueInv(m, gv, ms)
      <3>1. ASSUME NEW id \in TaskIds, m.tasks[id] # NoTask, ~m.tasks[id].due
            PROVE  Served(m, gv, ms, id, m.tasks[id].ask)
        <4>1. CASE id # w.id
          BY <2>4, <3>1, <4>1 DEF DueInv, Served
        <4>2. CASE id = w.id
          <5>1. PICK b : b = stored.tasks[id].ask
            OBVIOUS
          <5>2. b \in Asks /\ <<"durable", id>> \in gv[b]
            BY <2>5, <4>2, <5>1 DEF RowsInv
          <5>3. CASE b = w.ask
            BY <2>1, <2>4, <4>2, <5>1, <5>3 DEF Served
          <5>4. CASE b # w.ask
            <6>1. PICK g \in gv[w.ask] : g[2] = id
              BY <2>1, <4>2 DEF Known
            <6>2. PICK h \in gv[b] : h[2] = id
              BY <5>2
            <6>3. SharedTask(gv, b)
              BY <2>1, <5>4, <6>1, <6>2 DEF SharedTask
            <6>. QED  BY <2>4, <4>2, <5>1, <6>3 DEF Served, Excused
          <5>. QED  BY <5>3, <5>4
        <4>. QED  BY <4>1, <4>2
      <3>. QED  BY <3>1 DEF DueInv
    <2>. QED  BY <2>3, <2>6, <2>8
  <1>. QED
    <2>1. CASE ~ \/ w.op = "occurrence" /\ stored.tasks[w.id] # NoTask /\ stored.occs[key] = "none"
                 \/ w.op = "move" /\ stored.occs[key] = w.from
                 \/ w.op = "advance" /\ stored.tasks[w.id].version = w.version
      BY <1>1, <1>2, <2>1 DEF Landed
    <2>. QED  BY <1>3, <1>4, <1>5, <2>1

\* What a store has of a task whose id is known for an ask.
LEMMA RowOf ==
  ASSUME NEW st, NEW name, NEW gv, NEW id \in TaskIds, NEW a \in Asks,
         RowsInv(st, name, gv), Known(gv, a, id), st.tasks[id] # NoTask
  PROVE  SharedTask(gv, a) \/ (st.tasks[id].ask = a /\ <<name, id>> \in gv[a])
  <1>1. PICK b \in Asks : b = st.tasks[id].ask /\ <<name, id>> \in gv[b]
    BY DEF RowsInv
  <1>2. CASE b = a
    BY <1>1, <1>2
  <1>3. CASE b # a
    <2>1. PICK g \in gv[a] : g[2] = id
      BY DEF Known
    <2>2. PICK h \in gv[b] : h[2] = id
      BY <1>1
    <2>. QED  BY <1>1, <1>3, <2>1, <2>2 DEF SharedTask
  <1>. QED  BY <1>2, <1>3

-----------------------------------------------------------------------------
(* Steps that give no ask another task. *)

LEMMA WorkerFollows ==
  ASSUME NEW wk \in Workers, NEW s1, NEW s2, NEW gv, NEW ms, NEW ms2,
         WorkerInv(wk, s1, gv, ms), Follows(s1, s2, gv), ms \subseteq ms2
  PROVE  WorkerInv(wk, s2, gv, ms2)
  <1>1. CASE wk.pc \in Walks
    <2>1. wk.id \in TaskIds /\ wk.ask \in Asks
      BY <1>1 DEF WorkerInv
    <2>2. /\ Served(s1, gv, ms, wk.id, wk.ask) => Served(s2, gv, ms2, wk.id, wk.ask)
          /\ s1.occs[<<wk.id, wk.ask>>] = "claimed" =>
                s2.occs[<<wk.id, wk.ask>>] = "claimed" \/ Served(s2, gv, ms2, wk.id, wk.ask)
      BY <2>1, ServedFollows
    <2>. QED  BY <1>1, <2>2 DEF WorkerInv
  <1>2. CASE wk.pc \notin Walks
    BY <1>2 DEF WorkerInv
  <1>. QED  BY <1>1, <1>2

LEMMA LateFollows ==
  ASSUME NEW lt \in WriteRecords, NEW s1, NEW s2, NEW gv, NEW ms, NEW ms2,
         LateInv(lt, s1, gv, ms), Follows(s1, s2, gv), ms \subseteq ms2
  PROVE  LateInv(lt, s2, gv, ms2)
  <1>1. CASE lt.op = "advance"
    <2>1. lt.id \in TaskIds /\ lt.ask \in Asks
      BY <1>1 DEF LateInv
    <2>2. Served(s1, gv, ms, lt.id, lt.ask) => Served(s2, gv, ms2, lt.id, lt.ask)
      BY <2>1, ServedFollows
    <2>. QED  BY <1>1, <2>2 DEF LateInv
  <1>2. CASE lt.op # "advance"
    BY <1>2 DEF LateInv
  <1>. QED  BY <1>1, <1>2

LEMMA SameGiven ==
  ASSUME DegradedInv, given' = given, missed \subseteq missed',
         Follows(stored, stored', given), Follows(memory, memory', given),
         DueInv(stored', given, missed), seen' \in Nat,
         asks' \in [Asks -> {"new", "ceiling", "done"}], carried' \in [Asks -> Nat],
         late' \in WriteRecords, LateInv(late', stored, given, missed), GivenInv(given, asks', late'),
         worker' \in Workers, WorkerInv(worker', stored', given, missed'),
         EffectsInv(stored', memory', given, carried', worker')
  PROVE  DegradedInv'
  <1>1. /\ DegradedTypes /\ RowsInv(stored, "durable", given) /\ RowsInv(memory, "memory", given)
    BY DEF DegradedInv
  <1>2. /\ stored \in Tables /\ memory \in Tables /\ stored' \in Tables /\ memory' \in Tables
        /\ given \in Givens
    BY <1>1 DEF DegradedTypes, Follows
  <1>3. RowsInv(stored', "durable", given) /\ RowsInv(memory', "memory", given)
    BY <1>1, <1>2, RowsFollow
  <1>4. LateInv(late', stored', given, missed')
    BY LateFollows
  <1>5. DueInv(stored', given, missed')
    <2>1. \A id \in TaskIds : stored'.tasks[id] # NoTask => stored'.tasks[id].ask \in Asks
      BY <1>3 DEF RowsInv
    <2>. QED  BY <2>1 DEF DueInv, Served, Excused
  <1>6. DegradedTypes'
    BY <1>2 DEF DegradedTypes
  <1>. QED  BY <1>3, <1>4, <1>5, <1>6 DEF DegradedInv

LEMMA BegunIs ==
  ASSUME NEW times \in [Asks -> Nat], NEW wk, NEW a \in Asks
  PROVE  Begun(times, wk, a) \in Nat /\ Begun(times, wk, a) >= times[a]
  BY DEF Begun

\* The scheduler goes on without touching a row.
LEMMA WorkerMoves ==
  ASSUME DegradedInv, UNCHANGED <<stored, memory, late, asks, carried, given>>,
         missed \subseteq missed', seen' \in Nat, worker' \in Workers,
         WorkerInv(worker', stored, given, missed'), worker'.pc # "act"
  PROVE  DegradedInv'
  <1>1. /\ stored \in Tables /\ memory \in Tables /\ carried \in [Asks -> Nat]
        /\ asks \in [Asks -> {"new", "ceiling", "done"}] /\ late \in WriteRecords
    BY DEF DegradedInv, DegradedTypes
  <1>2. Follows(stored, stored, given) /\ Follows(memory, memory, given)
    BY <1>1, FollowsItself
  <1>3. \A a \in Asks : /\ Begun(carried, worker, a) \in Nat /\ Begun(carried, worker', a) \in Nat
                        /\ Begun(carried, worker', a) <= Begun(carried, worker, a)
    BY <1>1 DEF Begun
  <1>4. EffectsInv(stored, memory, given, carried, worker)
    BY DEF DegradedInv
  <1>5. EffectsInv(stored, memory, given, carried, worker')
    BY <1>1, <1>2, <1>3, <1>4, EffectsFollow
  <1>6. /\ DueInv(stored, given, missed) /\ LateInv(late, stored, given, missed)
        /\ GivenInv(given, asks, late)
    BY DEF DegradedInv
  <1>. QED  BY <1>1, <1>2, <1>5, <1>6, SameGiven

\* A write on the way to the store, answered or not.
LEMMA WriteMade ==
  ASSUME DegradedInv, NEW w \in WriteRecords, LateInv(w, stored, given, missed), w.op # "task",
         Answered(w) \/ GivenUp(w) \/ Unreachable
  PROVE  /\ Follows(stored, stored', given) /\ DueInv(stored', given, missed)
         /\ late' \in WriteRecords /\ LateInv(late', stored, given, missed) /\ GivenInv(given, asks, late')
  <1>1. /\ stored \in Tables /\ RowsInv(stored, "durable", given) /\ DueInv(stored, given, missed)
        /\ late \in WriteRecords /\ LateInv(late, stored, given, missed) /\ GivenInv(given, asks, late)
    BY DEF DegradedInv, DegradedTypes
  <1>2. CASE Answered(w)
    <2>1. stored' = Landed(w) /\ late' = late
      BY <1>2 DEF Answered
    <2>. QED  BY <1>1, <2>1, LandedFollows
  <1>3. CASE GivenUp(w)
    <2>1. stored' = stored /\ late' = w
      BY <1>3 DEF GivenUp
    <2>2. GivenInv(given, asks, w)
      BY <1>1 DEF GivenInv
    <2>. QED  BY <1>1, <2>1, <2>2, FollowsItself
  <1>4. CASE Unreachable
    <2>1. stored' = stored /\ late' = late
      BY <1>4 DEF Unreachable
    <2>. QED  BY <1>1, <2>1, FollowsItself
  <1>. QED  BY <1>2, <1>3, <1>4

\* What an answer of either store says of an occurrence.
LEMMA ReadFacts ==
  ASSUME DegradedInv, NEW id \in TaskIds, NEW a \in Asks, Known(given, a, id)
  PROVE  /\ Read.occs[<<id, a>>] \notin {"none", "claimed"} => Served(stored, given, missed, id, a)
         /\ Read.occs[<<id, a>>] = "claimed" =>
               Served(stored, given, missed, id, a) \/ stored.occs[<<id, a>>] = "claimed"
         /\ memory.occs[<<id, a>>] # "none" => Excused(given, missed, id, a)
         /\ memory.tasks[id] # NoTask => Excused(given, missed, id, a)
  <1>1. RowsInv(memory, "memory", given)
    BY DEF DegradedInv
  <1>2. memory.tasks[id] # NoTask => Excused(given, missed, id, a)
    <2>1. SUFFICES ASSUME memory.tasks[id] # NoTask PROVE Excused(given, missed, id, a)
      OBVIOUS
    <2>2. SharedTask(given, a) \/ <<"memory", id>> \in given[a]
      BY <1>1, <2>1, RowOf
    <2>. QED  BY <2>2 DEF Excused
  <1>3. memory.occs[<<id, a>>] # "none" => Excused(given, missed, id, a)
    BY <1>1, <1>2 DEF RowsInv
  <1>. QED  BY <1>2, <1>3 DEF Read, Served

\* Where the scheduler may stand next.
LEMMA GoesOn ==
  ASSUME worker \in Workers, WorkerInv(worker, stored, given, missed), worker.pc \in Walks,
         NEW pc \in Walks \ {"claim"}, Goto(pc), NEW st, NEW ms,
         pc \in {"task", "occurrence", "insert", "advance read", "advance"} => ~worker.retry,
         pc = "claim read" =>
            Served(st, given, ms, worker.id, worker.ask) \/ st.occs[<<worker.id, worker.ask>>] = "claimed",
         pc \in {"act", "settle read", "settle", "advance read", "advance"} =>
            Served(st, given, ms, worker.id, worker.ask)
  PROVE  worker' \in Workers /\ WorkerInv(worker', st, given, ms)
         /\ worker'.pc = pc /\ worker'.ask = worker.ask /\ worker'.id = worker.id
  <1>1. \A x \in Workers : /\ [x EXCEPT !.pc = pc] \in Workers /\ [x EXCEPT !.pc = pc].pc = pc
                           /\ [x EXCEPT !.pc = pc].id = x.id /\ [x EXCEPT !.pc = pc].ask = x.ask
                           /\ [x EXCEPT !.pc = pc].version = x.version
                           /\ [x EXCEPT !.pc = pc].retry = x.retry
    BY DEF Workers
  <1>2. PICK x : x = [worker EXCEPT !.pc = pc]
    OBVIOUS
  <1>3. worker' = x
    BY <1>2 DEF Goto
  <1>4. /\ x \in Workers /\ x.pc = pc /\ x.id = worker.id /\ x.ask = worker.ask
        /\ x.version = worker.version /\ x.retry = worker.retry
    BY <1>1, <1>2
  <1>5. /\ worker.id \in TaskIds /\ worker.ask \in Asks /\ Known(given, worker.ask, worker.id)
        /\ worker.retry \/ worker.version >= 1
    BY DEF WorkerInv
  <1>6. WorkerInv(x, st, given, ms)
    BY <1>4, <1>5 DEF WorkerInv
  <1>. QED  BY <1>3, <1>4, <1>6

LEMMA Rests ==
  ASSUME Rest, NEW st, NEW ms
  PROVE  worker' \in Workers /\ WorkerInv(worker', st, given, ms) /\ worker'.pc = "idle"
  <1>1. IdleWorker \in Workers /\ IdleWorker.pc = "idle"
    BY DEF IdleWorker, Workers, Statuses
  <1>2. worker' = IdleWorker
    BY DEF Rest
  <1>3. "idle" \notin Walks
    BY DEF Walks
  <1>. QED  BY <1>1, <1>2, <1>3 DEF WorkerInv

LEMMA AfterRunGoesOn ==
  ASSUME worker \in Workers, WorkerInv(worker, stored, given, missed), worker.pc \in Walks,
         AfterRun, NEW st, NEW ms, Served(st, given, ms, worker.id, worker.ask)
  PROVE  worker' \in Workers /\ WorkerInv(worker', st, given, ms) /\ worker'.pc \in {"idle", "advance read"}
  <1>1. CASE worker.retry
    BY <1>1, Rests DEF AfterRun
  <1>2. CASE ~worker.retry
    <2>1. Goto("advance read") /\ "advance read" \in Walks \ {"claim"}
      BY <1>2 DEF AfterRun, Walks
    <2>. QED  BY <1>2, <2>1, GoesOn
  <1>. QED  BY <1>1, <1>2

-----------------------------------------------------------------------------
(* The steps of the scheduler that write no row. *)

LEMMA StoreFacts ==
  ASSUME DegradedInv
  PROVE  /\ stored \in Tables /\ memory \in Tables /\ seen \in Nat /\ worker \in Workers
         /\ carried \in [Asks -> Nat] /\ asks \in [Asks -> {"new", "ceiling", "done"}]
         /\ RowsInv(stored, "durable", given) /\ RowsInv(memory, "memory", given)
         /\ WorkerInv(worker, stored, given, missed)
         /\ \A id \in TaskIds : Observed(id) \in Nat
  BY DEF DegradedInv, DegradedTypes, Observed, Larger, TaskIds

LEMMA DueKept ==
  ASSUME DegradedInv, NEW id \in TaskIds, WorkDue(id)
  PROVE  DegradedInv'
  <1>1. PICK t : t = Read.tasks[id]
    OBVIOUS
  <1>2. /\ t # NoTask
        /\ worker' = [IdleWorker EXCEPT !.pc = "task", !.id = id, !.ask = t.ask, !.version = t.version]
        /\ UNCHANGED <<stored, memory, seen, net, late, asks, carried, given, missed>>
    BY <1>1 DEF WorkDue
  <1>3. t.ask \in Asks /\ t.version >= 1 /\ Known(given, t.ask, id) /\ t.version \in Nat
    <2>1. CASE net.up
      <3>1. t = stored.tasks[id]
        BY <1>1, <2>1 DEF Read
      <3>2. t.ask \in Asks /\ t.version >= 1 /\ <<"durable", id>> \in given[t.ask]
        BY <1>2, <3>1, StoreFacts DEF RowsInv
      <3>3. t.version \in Nat
        BY <3>1, StoreFacts DEF Tables, TaskRows
      <3>. QED  BY <3>2, <3>3 DEF Known
    <2>2. CASE ~net.up
      <3>1. t = memory.tasks[id]
        BY <1>1, <2>2 DEF Read
      <3>2. t.ask \in Asks /\ t.version >= 1 /\ <<"memory", id>> \in given[t.ask]
        BY <1>2, <3>1, StoreFacts DEF RowsInv
      <3>3. t.version \in Nat
        BY <3>1, StoreFacts DEF Tables, TaskRows
      <3>. QED  BY <3>2, <3>3 DEF Known
    <2>. QED  BY <2>1, <2>2
  <1>4. PICK x : x = [IdleWorker EXCEPT !.pc = "task", !.id = id, !.ask = t.ask, !.version = t.version]
    OBVIOUS
  <1>5. /\ x.pc = "task" /\ x.id = id /\ x.ask = t.ask /\ x.version = t.version
        /\ x.retry = FALSE /\ x.from = "none" /\ x.todo = {} /\ x \in Workers
    BY <1>3, <1>4 DEF IdleWorker, Workers, Walks, Statuses
  <1>6. WorkerInv(x, stored, given, missed)
    BY <1>3, <1>5 DEF WorkerInv
  <1>7. missed \subseteq missed' /\ missed' = missed /\ seen' \in Nat /\ worker' = x
    BY <1>2, <1>4, StoreFacts
  <1>. QED  BY <1>2, <1>5, <1>6, <1>7, WorkerMoves

LEMMA RetryKept ==
  ASSUME DegradedInv, NEW key \in Keys, WorkRetry(key)
  PROVE  DegradedInv'
  <1>1. PICK id \in TaskIds, a \in Asks : key = <<id, a>>
    BY DEF Keys
  <1>2. /\ Read.occs[key] = "retry_pending"
        /\ worker' = [IdleWorker EXCEPT !.pc = "claim read", !.id = id, !.ask = a, !.retry = TRUE]
        /\ UNCHANGED <<stored, memory, seen, net, late, asks, carried, given, missed>>
    BY <1>1 DEF WorkRetry
  <1>3. Known(given, a, id)
    <2>1. stored.occs[key] # "none" \/ memory.occs[key] # "none"
      BY <1>2 DEF Read
    <2>. QED  BY <1>1, <2>1, StoreFacts DEF RowsInv
  <1>4. Served(stored, given, missed, id, a)
    BY <1>1, <1>2, <1>3, ReadFacts
  <1>5. PICK x : x = [IdleWorker EXCEPT !.pc = "claim read", !.id = id, !.ask = a, !.retry = TRUE]
    OBVIOUS
  <1>6. /\ x.pc = "claim read" /\ x.id = id /\ x.ask = a /\ x.retry = TRUE /\ x \in Workers
    BY <1>5 DEF IdleWorker, Workers, Walks, Statuses
  <1>7. WorkerInv(x, stored, given, missed)
    BY <1>3, <1>4, <1>6 DEF WorkerInv
  <1>8. missed \subseteq missed' /\ missed' = missed /\ seen' \in Nat /\ worker' = x
    BY <1>2, <1>5, StoreFacts
  <1>. QED  BY <1>2, <1>6, <1>7, <1>8, WorkerMoves

LEMMA TaskKept ==
  ASSUME DegradedInv, WorkTask
  PROVE  DegradedInv'
  <1>1. /\ worker.pc = "task" /\ (Rest \/ Goto("occurrence")) /\ seen' = Observed(worker.id)
        /\ UNCHANGED <<stored, memory, net, late, asks, carried, given, missed>>
    BY DEF WorkTask
  <1>2. worker.pc \in Walks /\ worker \in Workers /\ WorkerInv(worker, stored, given, missed)
    BY <1>1, StoreFacts DEF Walks
  <1>3. worker.id \in TaskIds /\ ~worker.retry
    BY <1>1, <1>2 DEF WorkerInv
  <1>4. seen' \in Nat /\ missed \subseteq missed' /\ missed' = missed
    BY <1>1, <1>3, StoreFacts
  <1>5. CASE Rest
    BY <1>1, <1>4, <1>5, Rests, WorkerMoves
  <1>6. CASE Goto("occurrence")
    <2>1. "occurrence" \in Walks \ {"claim"}
      BY DEF Walks
    <2>2. worker' \in Workers /\ WorkerInv(worker', stored, given, missed) /\ worker'.pc = "occurrence"
      BY <1>2, <1>3, <1>6, <2>1, GoesOn
    <2>. QED  BY <1>1, <1>4, <2>2, WorkerMoves
  <1>. QED  BY <1>1, <1>5, <1>6

LEMMA OccurrenceKept ==
  ASSUME DegradedInv, WorkOccurrence
  PROVE  DegradedInv'
  <1>1. /\ worker.pc = "occurrence"
        /\ IF Read.occs[Key] = "none" THEN Goto("insert") ELSE AtBoundary(Read.occs[Key])
        /\ UNCHANGED <<stored, memory, seen, net, late, asks, carried, given, missed>>
    BY DEF WorkOccurrence
  <1>2. worker.pc \in Walks /\ worker \in Workers /\ WorkerInv(worker, stored, given, missed)
    BY <1>1, StoreFacts DEF Walks
  <1>3. /\ worker.id \in TaskIds /\ worker.ask \in Asks /\ Known(given, worker.ask, worker.id)
        /\ ~worker.retry
    BY <1>1, <1>2 DEF WorkerInv
  <1>4. seen' \in Nat /\ missed \subseteq missed' /\ missed' = missed
    BY <1>1, StoreFacts
  <1>5. PICK s : s = Read.occs[<<worker.id, worker.ask>>]
    OBVIOUS
  <1>6. /\ s \notin {"none", "claimed"} => Served(stored, given, missed, worker.id, worker.ask)
        /\ s = "claimed" => \/ Served(stored, given, missed, worker.id, worker.ask)
                            \/ stored.occs[<<worker.id, worker.ask>>] = "claimed"
    BY <1>3, <1>5, ReadFacts
  <1>7. /\ "insert" \in Walks \ {"claim"} /\ "claim read" \in Walks \ {"claim"}
        /\ "advance read" \in Walks \ {"claim"}
    BY DEF Walks
  <1>8. CASE s = "none"
    <2>1. Goto("insert")
      BY <1>1, <1>5, <1>8 DEF Key
    <2>2. worker' \in Workers /\ WorkerInv(worker', stored, given, missed) /\ worker'.pc = "insert"
      BY <1>2, <1>3, <1>7, <2>1, GoesOn
    <2>. QED  BY <1>1, <1>4, <2>2, WorkerMoves
  <1>9. CASE s = "claimed"
    <2>1. Goto("claim read")
      BY <1>1, <1>5, <1>9 DEF Key, AtBoundary
    <2>2. worker' \in Workers /\ WorkerInv(worker', stored, given, missed) /\ worker'.pc = "claim read"
      BY <1>2, <1>3, <1>6, <1>7, <1>9, <2>1, GoesOn
    <2>. QED  BY <1>1, <1>4, <2>2, WorkerMoves
  <1>10. CASE s \notin {"none", "claimed"}
    <2>1. Goto("advance read")
      BY <1>1, <1>5, <1>10 DEF Key, AtBoundary
    <2>2. worker' \in Workers /\ WorkerInv(worker', stored, given, missed) /\ worker'.pc = "advance read"
      BY <1>2, <1>3, <1>6, <1>7, <1>10, <2>1, GoesOn
    <2>. QED  BY <1>1, <1>4, <2>2, WorkerMoves
  <1>. QED  BY <1>8, <1>9, <1>10

LEMMA ClaimReadKept ==
  ASSUME DegradedInv, WorkClaimRead
  PROVE  DegradedInv'
  <1>1. /\ worker.pc = "claim read"
        /\ UNCHANGED <<stored, memory, seen, net, late, asks, carried, given>>
    BY DEF WorkClaimRead
  <1>2. worker.pc \in Walks /\ worker \in Workers /\ WorkerInv(worker, stored, given, missed)
    BY <1>1, StoreFacts DEF Walks
  <1>3. /\ worker.id \in TaskIds /\ worker.ask \in Asks /\ Known(given, worker.ask, worker.id)
        /\ worker.retry \/ worker.version >= 1
        /\ \/ Served(stored, given, missed, worker.id, worker.ask)
           \/ stored.occs[<<worker.id, worker.ask>>] = "claimed"
    BY <1>1, <1>2 DEF WorkerInv
  <1>4. PICK s : s = Read.occs[<<worker.id, worker.ask>>]
    OBVIOUS
  <1>5. /\ s \notin {"none", "claimed"} => Served(stored, given, missed, worker.id, worker.ask)
        /\ s = "claimed" => \/ Served(stored, given, missed, worker.id, worker.ask)
                            \/ stored.occs[<<worker.id, worker.ask>>] = "claimed"
    BY <1>3, <1>4, ReadFacts
  <1>6. CASE s \in Claimable
    <2>1. worker' = [worker EXCEPT !.pc = "claim", !.from = s] /\ missed' = missed
      BY <1>4, <1>6 DEF WorkClaimRead, Key
    <2>2. \A y \in Workers : LET z == [y EXCEPT !.pc = "claim", !.from = s]
                             IN  /\ z \in Workers /\ z.pc = "claim" /\ z.from = s /\ z.id = y.id
                                 /\ z.ask = y.ask /\ z.version = y.version /\ z.retry = y.retry
      <3>1. s \in Statuses /\ "claim" \in Walks
        BY <1>6 DEF Walks, Claimable, Statuses
      <3>. QED  BY <3>1 DEF Workers
    <2>3. PICK x : x = [worker EXCEPT !.pc = "claim", !.from = s]
      OBVIOUS
    <2>4. /\ x \in Workers /\ x.pc = "claim" /\ x.from = s /\ x.id = worker.id
          /\ x.ask = worker.ask /\ x.version = worker.version /\ x.retry = worker.retry
      BY <1>2, <2>2, <2>3
    <2>5. \/ Served(stored, given, missed, x.id, x.ask)
          \/ x.from = "claimed" /\ stored.occs[<<x.id, x.ask>>] = "claimed"
      <3>1. s = "claimed" \/ s \notin {"none", "claimed"}
        BY <1>6 DEF Claimable
      <3>. QED  BY <1>5, <2>4, <3>1
    <2>6. WorkerInv(x, stored, given, missed)
      BY <1>3, <1>6, <2>4, <2>5 DEF WorkerInv
    <2>7. missed \subseteq missed' /\ seen' \in Nat /\ worker' = x
      BY <1>1, <2>1, <2>3, StoreFacts
    <2>. QED  BY <1>1, <2>1, <2>4, <2>6, <2>7, WorkerMoves
  <1>7. CASE s \notin Claimable
    <2>1. AfterRun /\ missed' = (IF net.up THEN missed ELSE Missed)
      BY <1>4, <1>7 DEF WorkClaimRead, Key
    <2>2. missed \subseteq missed' /\ seen' \in Nat
      BY <1>1, <2>1, StoreFacts DEF Missed
    <2>3. Served(stored, given, missed', worker.id, worker.ask)
      <3>1. CASE net.up
        <4>1. s = stored.occs[<<worker.id, worker.ask>>]
          BY <1>4, <3>1 DEF Read
        <4>2. s # "claimed"
          BY <1>7 DEF Claimable
        <4>. QED  BY <1>3, <2>1, <3>1, <4>1, <4>2
      <3>2. CASE ~net.up
        BY <2>1, <3>2 DEF Served, Excused, Missed, Key
      <3>. QED  BY <3>1, <3>2
    <2>4. /\ worker' \in Workers /\ WorkerInv(worker', stored, given, missed')
          /\ worker'.pc \in {"idle", "advance read"}
      BY <1>2, <2>1, <2>3, AfterRunGoesOn
    <2>. QED  BY <1>1, <2>2, <2>4, WorkerMoves
  <1>. QED  BY <1>6, <1>7

LEMMA SettleReadKept ==
  ASSUME DegradedInv, WorkSettleRead
  PROVE  DegradedInv'
  <1>1. /\ worker.pc = "settle read" /\ (Goto("settle") \/ AfterRun \/ Rest)
        /\ UNCHANGED <<stored, memory, seen, net, late, asks, carried, given, missed>>
    BY DEF WorkSettleRead
  <1>2. worker.pc \in Walks /\ worker \in Workers /\ WorkerInv(worker, stored, given, missed)
    BY <1>1, StoreFacts DEF Walks
  <1>3. Served(stored, given, missed, worker.id, worker.ask)
    BY <1>1, <1>2 DEF WorkerInv
  <1>4. seen' \in Nat /\ missed \subseteq missed' /\ missed' = missed
    BY <1>1, StoreFacts
  <1>5. CASE Rest
    BY <1>1, <1>4, <1>5, Rests, WorkerMoves
  <1>6. CASE AfterRun
    BY <1>1, <1>2, <1>3, <1>4, <1>6, AfterRunGoesOn, WorkerMoves
  <1>7. CASE Goto("settle")
    <2>1. "settle" \in Walks \ {"claim"}
      BY DEF Walks
    <2>2. worker' \in Workers /\ WorkerInv(worker', stored, given, missed) /\ worker'.pc = "settle"
      BY <1>2, <1>3, <1>7, <2>1, GoesOn
    <2>. QED  BY <1>1, <1>4, <2>2, WorkerMoves
  <1>. QED  BY <1>1, <1>5, <1>6, <1>7

LEMMA AdvanceReadKept ==
  ASSUME DegradedInv, WorkAdvanceRead
  PROVE  DegradedInv'
  <1>1. /\ worker.pc = "advance read" /\ (Goto("advance") \/ Rest) /\ seen' = Observed(worker.id)
        /\ UNCHANGED <<stored, memory, net, late, asks, carried, given, missed>>
    BY DEF WorkAdvanceRead
  <1>2. worker.pc \in Walks /\ worker \in Workers /\ WorkerInv(worker, stored, given, missed)
    BY <1>1, StoreFacts DEF Walks
  <1>3. worker.id \in TaskIds /\ ~worker.retry /\ Served(stored, given, missed, worker.id, worker.ask)
    BY <1>1, <1>2 DEF WorkerInv
  <1>4. seen' \in Nat /\ missed \subseteq missed' /\ missed' = missed
    BY <1>1, <1>3, StoreFacts
  <1>5. CASE Rest
    BY <1>1, <1>4, <1>5, Rests, WorkerMoves
  <1>6. CASE Goto("advance")
    <2>1. "advance" \in Walks \ {"claim"}
      BY DEF Walks
    <2>2. worker' \in Workers /\ WorkerInv(worker', stored, given, missed) /\ worker'.pc = "advance"
      BY <1>2, <1>3, <1>6, <2>1, GoesOn
    <2>. QED  BY <1>1, <1>4, <2>2, WorkerMoves
  <1>. QED  BY <1>1, <1>5, <1>6

LEMMA RecoverListKept ==
  ASSUME DegradedInv, RecoverList
  PROVE  DegradedInv'
  <1>1. PICK ks \in SUBSET Keys : worker' = [worker EXCEPT !.pc = "resolve", !.todo = ks]
    BY DEF RecoverList
  <1>2. UNCHANGED <<stored, memory, seen, net, late, asks, carried, given, missed>>
    BY DEF RecoverList
  <1>3. \A y \in Workers : /\ [y EXCEPT !.pc = "resolve", !.todo = ks] \in Workers
                           /\ [y EXCEPT !.pc = "resolve", !.todo = ks].pc = "resolve"
    BY DEF Workers
  <1>4. worker' \in Workers /\ worker'.pc = "resolve"
    BY <1>1, <1>3, StoreFacts
  <1>5. WorkerInv(worker', stored, given, missed')
    BY <1>4 DEF WorkerInv, Walks
  <1>6. seen' \in Nat /\ missed \subseteq missed'
    BY <1>2, StoreFacts
  <1>. QED  BY <1>2, <1>4, <1>5, <1>6, WorkerMoves

LEMMA RecoverDoneKept ==
  ASSUME DegradedInv, RecoverDone
  PROVE  DegradedInv'
  <1>1. Rest /\ UNCHANGED <<stored, memory, seen, net, late, asks, carried, given, missed>>
    BY DEF RecoverDone
  <1>2. seen' \in Nat /\ missed \subseteq missed'
    BY <1>1, StoreFacts
  <1>. QED  BY <1>1, <1>2, Rests, WorkerMoves

\* The actions: what was about to be carried out has been.
LEMMA ActKept ==
  ASSUME DegradedInv, WorkAct
  PROVE  DegradedInv'
  <1>1. /\ worker.pc = "act" /\ carried' = [carried EXCEPT ![worker.ask] = @ + 1]
        /\ Goto("settle read")
        /\ UNCHANGED <<stored, memory, seen, net, late, asks, given, missed>>
    BY DEF WorkAct
  <1>2. worker.pc \in Walks /\ worker \in Workers /\ WorkerInv(worker, stored, given, missed)
    BY <1>1, StoreFacts DEF Walks
  <1>3. worker.ask \in Asks /\ Served(stored, given, missed, worker.id, worker.ask)
    BY <1>1, <1>2 DEF WorkerInv
  <1>4. "settle read" \in Walks \ {"claim"}
    BY DEF Walks
  <1>5. worker' \in Workers /\ WorkerInv(worker', stored, given, missed) /\ worker'.pc = "settle read"
    BY <1>1, <1>2, <1>3, <1>4, GoesOn
  <1>6. PICK c : c = [carried EXCEPT ![worker.ask] = carried[worker.ask] + 1]
    OBVIOUS
  <1>7. carried' = c /\ c \in [Asks -> Nat]
        /\ \A a \in Asks : c[a] = IF a = worker.ask THEN carried[a] + 1 ELSE carried[a]
    <2>1. carried \in [Asks -> Nat] /\ carried' = c
      BY <1>1, <1>6, StoreFacts
    <2>. QED  BY <1>3, <1>6, <2>1
  <1>8. ASSUME NEW a \in Asks
        PROVE  /\ Begun(carried, worker, a) \in Nat /\ Begun(c, worker', a) \in Nat
               /\ Begun(c, worker', a) <= Begun(carried, worker, a)
    <2>1. carried[a] \in Nat
      BY StoreFacts
    <2>2. Begun(c, worker', a) = c[a]
      <3>1. worker'.pc # "act" /\ c[a] \in Nat
        BY <1>5, <1>7
      <3>. QED  BY <3>1 DEF Begun
    <2>3. Begun(carried, worker, a) = c[a]
      <3>1. c[a] = IF a = worker.ask THEN carried[a] + 1 ELSE carried[a]
        BY <1>7
      <3>2. CASE a = worker.ask
        BY <1>1, <2>1, <3>1, <3>2 DEF Begun
      <3>3. CASE a # worker.ask
        <4>1. ~(worker.pc = "act" /\ worker.ask = a)
          BY <3>3
        <4>. QED  BY <2>1, <3>1, <3>3, <4>1 DEF Begun
      <3>. QED  BY <3>2, <3>3
    <2>4. c[a] \in Nat
      BY <1>7
    <2>. QED  BY <2>2, <2>3, <2>4
  <1>9. Follows(stored, stored, given) /\ Follows(memory, memory, given)
    BY StoreFacts, FollowsItself
  <1>10. EffectsInv(stored, memory, given, carried, worker)
    BY DEF DegradedInv
  <1>11. EffectsInv(stored, memory, given, c, worker')
    BY <1>8, <1>9, <1>10, StoreFacts, EffectsFollow
  <1>12. /\ DueInv(stored, given, missed) /\ LateInv(late, stored, given, missed)
         /\ GivenInv(given, asks, late) /\ late \in WriteRecords
    BY DEF DegradedInv, DegradedTypes
  <1>13. missed \subseteq missed' /\ seen' \in Nat
    BY <1>1, StoreFacts
  <1>. QED  BY <1>1, <1>5, <1>7, <1>9, <1>11, <1>12, <1>13, StoreFacts, SameGiven

-----------------------------------------------------------------------------
(* The steps of the scheduler that write a row. *)

LEMMA EffectsStay ==
  ASSUME DegradedInv, Follows(stored, stored', given), Follows(memory, memory', given),
         worker'.pc # "act" \/ worker' = worker
  PROVE  EffectsInv(stored', memory', given, carried, worker')
  <1>1. stored \in Tables /\ memory \in Tables /\ EffectsInv(stored, memory, given, carried, worker)
    BY DEF DegradedInv, DegradedTypes
  <1>2. ASSUME NEW a \in Asks
        PROVE  /\ Begun(carried, worker, a) \in Nat /\ Begun(carried, worker', a) \in Nat
               /\ Begun(carried, worker', a) <= Begun(carried, worker, a)
    <2>1. carried[a] \in Nat
      BY StoreFacts
    <2>. QED  BY <2>1 DEF Begun
  <1>. QED  BY <1>1, <1>2, EffectsFollow

\* What is left of a write when nothing was begun.
LEMMA WriteKept ==
  ASSUME DegradedInv, Follows(stored, stored', given), DueInv(stored', given, missed),
         late' \in WriteRecords, LateInv(late', stored, given, missed), GivenInv(given, asks, late'),
         Follows(memory, memory', given), UNCHANGED <<asks, carried, given, missed>>,
         seen' = seen \/ seen' \in Nat,
         worker' \in Workers, WorkerInv(worker', stored', given, missed),
         worker'.pc # "act" \/ worker' = worker
  PROVE  DegradedInv'
  <1>1. EffectsInv(stored', memory', given, carried, worker')
    BY EffectsStay
  <1>2. missed \subseteq missed' /\ missed' = missed /\ given' = given /\ carried' = carried
        /\ asks' = asks /\ (seen' = seen \/ seen' \in Nat)
    OBVIOUS
  <1>3. /\ seen' \in Nat /\ asks' \in [Asks -> {"new", "ceiling", "done"}]
        /\ carried' \in [Asks -> Nat]
    BY <1>2, StoreFacts
  <1>. QED  BY <1>1, <1>2, <1>3, SameGiven

LEMMA AdvanceKept ==
  ASSUME DegradedInv, WorkAdvance
  PROVE  DegradedInv'
  <1>1. PICK w : w = [NoWrite EXCEPT !.op = "advance", !.id = worker.id, !.ask = worker.ask,
                                     !.version = worker.version]
    OBVIOUS
  <1>2. /\ worker.pc = "advance" /\ (Answered(w) \/ GivenUp(w) \/ Unreachable) /\ Rest
        /\ UNCHANGED <<seen, asks, carried, given, missed>>
        /\ \/ memory' = memory
           \/ memory.tasks[worker.id].version = worker.version /\ memory' = Consumed(memory, worker.id)
    BY <1>1 DEF WorkAdvance
  <1>3. worker.pc \in Walks /\ worker \in Workers /\ WorkerInv(worker, stored, given, missed)
    BY <1>2, StoreFacts DEF Walks
  <1>4. /\ worker.id \in TaskIds /\ worker.ask \in Asks /\ Known(given, worker.ask, worker.id)
        /\ worker.version >= 1 /\ worker.version \in Nat
        /\ Served(stored, given, missed, worker.id, worker.ask)
    BY <1>2, <1>3 DEF WorkerInv, Workers
  <1>5. /\ w.op = "advance" /\ w.id = worker.id /\ w.ask = worker.ask /\ w.version = worker.version
        /\ w \in WriteRecords
    BY <1>1, <1>4 DEF NoWrite, WriteRecords, Statuses
  <1>6. LateInv(w, stored, given, missed)
    BY <1>4, <1>5 DEF LateInv
  <1>7. /\ Follows(stored, stored', given) /\ DueInv(stored', given, missed)
        /\ late' \in WriteRecords /\ LateInv(late', stored, given, missed) /\ GivenInv(given, asks, late')
    <2>1. w.op # "task"
      BY <1>5
    <2>. QED  BY <1>2, <1>5, <1>6, <2>1, WriteMade
  <1>8. Follows(memory, memory', given)
    <2>1. CASE memory' = memory
      BY <2>1, StoreFacts, FollowsItself
    <2>2. CASE memory.tasks[worker.id].version = worker.version /\ memory' = Consumed(memory, worker.id)
      <3>1. memory.tasks[worker.id] # NoTask /\ memory.tasks[worker.id].version >= 1
        <4>1. NoTask.version = 0
          BY DEF NoTask
        <4>. QED  BY <1>4, <2>2, <4>1
      <3>. QED  BY <1>4, <2>2, <3>1, StoreFacts, ConsumeFollows
    <2>. QED  BY <1>2, <2>1, <2>2
  <1>9. worker' \in Workers /\ WorkerInv(worker', stored', given, missed) /\ worker'.pc = "idle"
    BY <1>2, Rests
  <1>. QED  BY <1>2, <1>7, <1>8, <1>9, WriteKept

LEMMA InsertKept ==
  ASSUME DegradedInv, WorkInsert
  PROVE  DegradedInv'
  <1>1. PICK w : w = [NoWrite EXCEPT !.op = "occurrence", !.id = worker.id, !.ask = worker.ask]
    OBVIOUS
  <1>2. /\ worker.pc = "insert" /\ UNCHANGED <<seen, asks, carried, given, missed>>
        /\ \/ Answered(w) /\ Landed(w) # stored /\ Goto("claim read") /\ UNCHANGED memory
           \/ /\ GivenUp(w) \/ UNCHANGED <<stored, late>>
              /\ InsertInMemory
    BY <1>1 DEF WorkInsert, Unreachable
  <1>3. worker.pc \in Walks /\ worker \in Workers /\ WorkerInv(worker, stored, given, missed)
    BY <1>2, StoreFacts DEF Walks
  <1>4. /\ worker.id \in TaskIds /\ worker.ask \in Asks /\ Known(given, worker.ask, worker.id)
        /\ ~worker.retry
    BY <1>2, <1>3 DEF WorkerInv
  <1>5. w.op = "occurrence" /\ w.id = worker.id /\ w.ask = worker.ask /\ w \in WriteRecords
    BY <1>1, <1>4 DEF NoWrite, WriteRecords, Statuses
  <1>6. LateInv(w, stored, given, missed) /\ w.op # "task"
    BY <1>4, <1>5 DEF LateInv
  <1>7. "claim read" \in Walks \ {"claim"} /\ "advance read" \in Walks \ {"claim"}
    BY DEF Walks
  <1>8. CASE Answered(w) /\ Landed(w) # stored /\ Goto("claim read") /\ UNCHANGED memory
    <2>1. /\ Follows(stored, stored', given) /\ DueInv(stored', given, missed)
          /\ late' \in WriteRecords /\ LateInv(late', stored, given, missed) /\ GivenInv(given, asks, late')
      BY <1>5, <1>6, <1>8, WriteMade
    <2>2. stored' = Moved(stored, <<worker.id, worker.ask>>, "claimed")
      <3>1. stored' = Landed(w) /\ Landed(w) # stored
        BY <1>8 DEF Answered
      <3>. QED  BY <1>5, <3>1 DEF Landed
    <2>3. stored'.occs[<<worker.id, worker.ask>>] = "claimed"
      <3>1. "claimed" \in Statuses /\ stored \in Tables
        BY StoreFacts DEF Statuses
      <3>. QED  BY <1>4, <2>2, <3>1, MovedFacts
    <2>4. /\ worker' \in Workers /\ WorkerInv(worker', stored', given, missed)
          /\ worker'.pc = "claim read"
      <3>1. Goto("claim read") /\ ~worker.retry
        BY <1>4, <1>8
      <3>2. PICK st : st = stored'
        OBVIOUS
      <3>3. \/ Served(st, given, missed, worker.id, worker.ask)
            \/ st.occs[<<worker.id, worker.ask>>] = "claimed"
        BY <2>3, <3>2
      <3>4. /\ worker' \in Workers /\ WorkerInv(worker', st, given, missed)
            /\ worker'.pc = "claim read"
        <4>1. "claim read" \notin {"act", "settle read", "settle", "advance read", "advance"}
          OBVIOUS
        <4>. QED  BY <1>3, <1>7, <3>1, <3>3, <4>1, GoesOn
      <3>. QED  BY <3>2, <3>4
    <2>5. Follows(memory, memory', given)
      BY <1>8, StoreFacts, FollowsItself
    <2>. QED  BY <1>2, <2>1, <2>4, <2>5, WriteKept
  <1>9. CASE (GivenUp(w) \/ UNCHANGED <<stored, late>>) /\ InsertInMemory
    <2>1. /\ Follows(stored, stored', given) /\ DueInv(stored', given, missed) /\ stored' = stored
          /\ late' \in WriteRecords /\ LateInv(late', stored, given, missed) /\ GivenInv(given, asks, late')
      <3>1. CASE GivenUp(w)
        <4>1. stored' = stored
          BY <3>1 DEF GivenUp
        <4>. QED  BY <1>5, <1>6, <3>1, <4>1, WriteMade
      <3>2. CASE UNCHANGED <<stored, late>>
        <4>1. stored' = stored /\ late' = late
          BY <3>2
        <4>2. /\ DueInv(stored, given, missed) /\ late \in WriteRecords
              /\ LateInv(late, stored, given, missed) /\ GivenInv(given, asks, late)
          BY DEF DegradedInv, DegradedTypes
        <4>. QED  BY <4>1, <4>2, StoreFacts, FollowsItself
      <3>. QED  BY <1>9, <3>1, <3>2
    <2>2. CASE memory.tasks[worker.id] = NoTask
      <3>1. Rest /\ memory' = memory
        BY <1>9, <2>2 DEF InsertInMemory
      <3>2. worker' \in Workers /\ WorkerInv(worker', stored', given, missed) /\ worker'.pc = "idle"
        BY <3>1, Rests
      <3>3. Follows(memory, memory', given)
        BY <3>1, StoreFacts, FollowsItself
      <3>. QED  BY <1>2, <2>1, <3>2, <3>3, WriteKept
    <2>3. CASE memory.tasks[worker.id] # NoTask
      <3>1. Served(stored', given, missed, worker.id, worker.ask)
        BY <1>4, <2>1, <2>3, ReadFacts DEF Served
      <3>2. CASE memory.occs[Key] = "none"
        <4>1. Goto("claim read") /\ memory' = Moved(memory, <<worker.id, worker.ask>>, "claimed")
          BY <1>9, <2>3, <3>2 DEF InsertInMemory, Key
        <4>2. memory.occs[<<worker.id, worker.ask>>] = "none" /\ "claimed" \in Statuses
          BY <3>2 DEF Key, Statuses
        <4>3. Follows(memory, memory', given)
          BY <1>4, <2>3, <4>1, <4>2, StoreFacts, MoveFollows
        <4>4. /\ worker' \in Workers /\ WorkerInv(worker', stored', given, missed)
              /\ worker'.pc = "claim read"
          BY <1>3, <1>4, <1>7, <3>1, <4>1, GoesOn
        <4>. QED  BY <1>2, <2>1, <4>3, <4>4, WriteKept
      <3>3. CASE memory.occs[Key] # "none"
        <4>1. (Goto("claim read") \/ Goto("advance read")) /\ memory' = memory
          BY <1>9, <2>3, <3>3 DEF InsertInMemory, AtBoundary
        <4>2. Follows(memory, memory', given)
          BY <4>1, StoreFacts, FollowsItself
        <4>3. /\ worker' \in Workers /\ WorkerInv(worker', stored', given, missed)
              /\ worker'.pc # "act"
          <5>1. CASE Goto("claim read")
            <6>1. /\ worker' \in Workers /\ WorkerInv(worker', stored', given, missed)
                  /\ worker'.pc = "claim read"
              BY <1>3, <1>4, <1>7, <3>1, <5>1, GoesOn
            <6>. QED  BY <6>1
          <5>2. CASE Goto("advance read")
            <6>1. /\ worker' \in Workers /\ WorkerInv(worker', stored', given, missed)
                  /\ worker'.pc = "advance read"
              BY <1>3, <1>4, <1>7, <3>1, <5>2, GoesOn
            <6>. QED  BY <6>1
          <5>. QED  BY <4>1, <5>1, <5>2
        <4>. QED  BY <1>2, <2>1, <4>2, <4>3, WriteKept
      <3>. QED  BY <3>2, <3>3
    <2>. QED  BY <2>2, <2>3
  <1>. QED  BY <1>2, <1>8, <1>9

\* An execution begins: the row it was claimed in had not run.
LEMMA BeginsOne ==
  ASSUME DegradedInv, Follows(stored, stored', given), Follows(memory, memory', given),
         worker.pc # "act", worker'.pc = "act", worker'.ask = worker.ask, worker.ask \in Asks,
         \/ SharedTask(given, worker.ask)
         \/ ~Ran(stored, given, worker.ask) /\ Ran(stored', given, worker.ask)
         \/ ~RanBeside(memory, given, worker.ask) /\ RanBeside(memory', given, worker.ask)
  PROVE  EffectsInv(stored', memory', given, carried, worker')
  <1>1. EffectsInv(stored, memory, given, carried, worker)
    BY DEF DegradedInv
  <1>2. ASSUME NEW a \in Asks, ~SharedTask(given, a)
        PROVE  Begun(carried, worker', a) <= (IF Ran(stored', given, a) THEN 1 ELSE 0)
                                               + (IF RanBeside(memory', given, a) THEN 1 ELSE 0)
    <2>1. carried[a] \in Nat
      BY StoreFacts
    <2>2. Begun(carried, worker, a) = carried[a]
      BY <2>1 DEF Begun
    <2>3. carried[a] <= (IF Ran(stored, given, a) THEN 1 ELSE 0)
                          + (IF RanBeside(memory, given, a) THEN 1 ELSE 0)
      BY <1>1, <1>2, <2>2 DEF EffectsInv
    <2>4. /\ Ran(stored, given, a) => Ran(stored', given, a)
          /\ RanBeside(memory, given, a) => RanBeside(memory', given, a)
      BY RanFollows
    <2>5. CASE a = worker.ask
      <3>1. Begun(carried, worker', a) = carried[a] + 1
        BY <2>1, <2>5 DEF Begun
      <3>2. \/ ~Ran(stored, given, a) /\ Ran(stored', given, a)
            \/ ~RanBeside(memory, given, a) /\ RanBeside(memory', given, a)
        BY <1>2, <2>5
      <3>. QED  BY <2>1, <2>3, <2>4, <3>1, <3>2
    <2>6. CASE a # worker.ask
      <3>1. ~(worker'.pc = "act" /\ worker'.ask = a)
        BY <2>6
      <3>2. Begun(carried, worker', a) = carried[a]
        BY <2>1, <3>1 DEF Begun
      <3>. QED  BY <2>1, <2>3, <2>4, <3>2
    <2>. QED  BY <2>5, <2>6
  <1>. QED  BY <1>2 DEF EffectsInv

LEMMA SettleKept ==
  ASSUME DegradedInv, WorkSettle
  PROVE  DegradedInv'
  <1>1. worker.pc = "settle" /\ UNCHANGED <<seen, asks, carried, given, missed>>
    BY DEF WorkSettle
  <1>2. PICK outcome \in {"succeeded", "failed"} :
          LET w == [NoWrite EXCEPT !.op = "move", !.id = worker.id, !.ask = worker.ask,
                                   !.from = "running", !.to = outcome]
          IN  \/ Answered(w) /\ AfterRun /\ UNCHANGED memory
              \/ /\ GivenUp(w) \/ Unreachable
                 /\ CASE memory.occs[Key] = "running" -> AfterRun /\ memory' = Moved(memory, Key, outcome)
                      [] memory.occs[Key] \in {"none", outcome} -> AfterRun /\ UNCHANGED memory
                      [] OTHER -> Rest /\ UNCHANGED memory
    BY DEF WorkSettle
  <1>3. PICK w : w = [NoWrite EXCEPT !.op = "move", !.id = worker.id, !.ask = worker.ask,
                                     !.from = "running", !.to = outcome]
    OBVIOUS
  <1>4. /\ Answered(w) \/ GivenUp(w) \/ Unreachable
        /\ AfterRun \/ Rest
        /\ \/ memory' = memory
           \/ memory.occs[Key] = "running" /\ memory' = Moved(memory, Key, outcome)
    BY <1>2, <1>3
  <1>5. worker.pc \in Walks /\ worker \in Workers /\ WorkerInv(worker, stored, given, missed)
    BY <1>1, StoreFacts DEF Walks
  <1>6. /\ worker.id \in TaskIds /\ worker.ask \in Asks /\ Known(given, worker.ask, worker.id)
        /\ Served(stored, given, missed, worker.id, worker.ask)
    BY <1>1, <1>5 DEF WorkerInv
  <1>7. /\ w.op = "move" /\ w.id = worker.id /\ w.ask = worker.ask /\ w.from = "running"
        /\ w.to = outcome /\ w \in WriteRecords
    BY <1>3, <1>6 DEF NoWrite, WriteRecords, Statuses
  <1>8. LateInv(w, stored, given, missed) /\ w.op # "task"
    BY <1>2, <1>6, <1>7 DEF LateInv
  <1>9. /\ Follows(stored, stored', given) /\ DueInv(stored', given, missed)
        /\ late' \in WriteRecords /\ LateInv(late', stored, given, missed) /\ GivenInv(given, asks, late')
    BY <1>4, <1>7, <1>8, WriteMade
  <1>10. Follows(memory, memory', given)
    <2>1. CASE memory' = memory
      BY <2>1, StoreFacts, FollowsItself
    <2>2. CASE memory.occs[Key] = "running" /\ memory' = Moved(memory, Key, outcome)
      <3>1. /\ memory.occs[<<worker.id, worker.ask>>] = "running"
            /\ memory' = Moved(memory, <<worker.id, worker.ask>>, outcome)
        BY <2>2 DEF Key
      <3>2. outcome \in Statuses /\ outcome \notin {"none", "claimed"} /\ outcome \in Spent
        BY <1>2 DEF Statuses, Spent
      <3>3. memory \in Tables
        BY StoreFacts
      <3>4. memory.occs[<<worker.id, worker.ask>>] # "none"
        BY <3>1
      <3>. QED  BY <1>6, <3>1, <3>2, <3>3, <3>4, MoveFollows
    <2>. QED  BY <1>4, <2>1, <2>2
  <1>11. Served(stored', given, missed, worker.id, worker.ask)
    <2>1. missed \subseteq missed
      OBVIOUS
    <2>. QED  BY <1>6, <1>9, <2>1, ServedFollows
  <1>12. worker' \in Workers /\ WorkerInv(worker', stored', given, missed) /\ worker'.pc # "act"
    <2>1. CASE Rest
      <3>1. worker' \in Workers /\ WorkerInv(worker', stored', given, missed) /\ worker'.pc = "idle"
        BY <2>1, Rests
      <3>. QED  BY <3>1
    <2>2. CASE AfterRun
      <3>1. /\ worker' \in Workers /\ WorkerInv(worker', stored', given, missed)
            /\ worker'.pc \in {"idle", "advance read"}
        BY <1>5, <1>11, <2>2, AfterRunGoesOn
      <3>. QED  BY <3>1
    <2>. QED  BY <1>4, <2>1, <2>2
  <1>. QED  BY <1>1, <1>9, <1>10, <1>12, WriteKept

LEMMA ClaimKept ==
  ASSUME DegradedInv, WorkClaim
  PROVE  DegradedInv'
  <1>1. PICK w : w = [NoWrite EXCEPT !.op = "move", !.id = worker.id, !.ask = worker.ask,
                                     !.from = worker.from, !.to = "running"]
    OBVIOUS
  <1>2. PICK id, a : id = worker.id /\ a = worker.ask
    OBVIOUS
  <1>3. /\ worker.pc = "claim" /\ UNCHANGED <<seen, asks, carried, given>>
        /\ \/ /\ Answered(w)
              /\ IF stored.occs[<<id, a>>] = worker.from THEN Goto("act") ELSE AfterRun
              /\ UNCHANGED <<memory, missed>>
           \/ /\ GivenUp(w) \/ Unreachable
              /\ ClaimInMemory
              /\ missed' = missed \union {<<id, a>>}
    BY <1>1, <1>2 DEF WorkClaim, Key, Missed
  <1>4. worker.pc \in Walks /\ worker \in Workers /\ WorkerInv(worker, stored, given, missed)
    BY <1>3, StoreFacts DEF Walks
  <1>5. /\ id \in TaskIds /\ a \in Asks /\ Known(given, a, id) /\ worker.from \in Claimable
        /\ \/ Served(stored, given, missed, id, a)
           \/ worker.from = "claimed" /\ stored.occs[<<id, a>>] = "claimed"
    BY <1>2, <1>3, <1>4 DEF WorkerInv
  <1>6. /\ w.op = "move" /\ w.id = id /\ w.ask = a /\ w.from = worker.from
        /\ w.to = "running" /\ w \in WriteRecords
    BY <1>1, <1>2, <1>4, <1>5 DEF NoWrite, WriteRecords, Workers, Statuses
  <1>7. LateInv(w, stored, given, missed) /\ w.op # "task"
    BY <1>5, <1>6 DEF LateInv
  <1>8. Answered(w) \/ GivenUp(w) \/ Unreachable
    BY <1>3
  <1>9. /\ Follows(stored, stored', given) /\ DueInv(stored', given, missed)
        /\ late' \in WriteRecords /\ LateInv(late', stored, given, missed) /\ GivenInv(given, asks, late')
    BY <1>6, <1>7, <1>8, WriteMade
  <1>10. RowsInv(stored, "durable", given) /\ RowsInv(memory, "memory", given)
         /\ stored \in Tables /\ memory \in Tables /\ GivenInv(given, asks, late)
    BY DEF DegradedInv, DegradedTypes
  <1>11. "act" \in Walks \ {"claim"}
    BY DEF Walks
  <1>12. /\ missed \subseteq missed' /\ given' = given /\ carried' = carried
         /\ seen' \in Nat /\ asks' \in [Asks -> {"new", "ceiling", "done"}] /\ asks' = asks
         /\ carried' \in [Asks -> Nat]
    BY <1>3, StoreFacts
  <1>13. CASE Answered(w) /\ stored.occs[<<id, a>>] = worker.from /\ Goto("act")
              /\ UNCHANGED <<memory, missed>>
    <2>1. stored' = Moved(stored, <<id, a>>, "running")
      BY <1>6, <1>13 DEF Answered, Landed
    <2>2. stored'.occs[<<id, a>>] = "running"
      <3>1. "running" \in Statuses
        BY DEF Statuses
      <3>. QED  BY <1>5, <1>10, <2>1, <3>1, MovedFacts
    <2>3. Served(stored', given, missed', id, a)
      BY <2>2 DEF Served
    <2>4. /\ worker' \in Workers /\ WorkerInv(worker', stored', given, missed')
          /\ worker'.pc = "act" /\ worker'.ask = a
      BY <1>2, <1>4, <1>11, <1>13, <2>3, GoesOn
    <2>5. Follows(memory, memory', given)
      BY <1>10, <1>13, FollowsItself
    <2>6. SharedTask(given, a) \/ (~Ran(stored, given, a) /\ Ran(stored', given, a))
      <3>1. SUFFICES ASSUME ~SharedTask(given, a)
                     PROVE  ~Ran(stored, given, a) /\ Ran(stored', given, a)
        OBVIOUS
      <3>2. stored.occs[<<id, a>>] \notin Spent \union {"none"}
        BY <1>5, <1>13 DEF Claimable, Spent
      <3>3. stored.tasks[id] # NoTask
        BY <1>5, <1>10, <3>2 DEF RowsInv
      <3>4. <<"durable", id>> \in given[a]
        BY <1>5, <1>10, <3>1, <3>3, RowOf
      <3>5. Ran(stored', given, a)
        BY <1>5, <2>2, <3>4 DEF Ran, Spent
      <3>6. ASSUME NEW i \in TaskIds, <<"durable", i>> \in given[a], stored.occs[<<i, a>>] \in Spent
            PROVE  FALSE
        <4>1. <<"durable", i>> = <<"durable", id>>
          <5>1. \A g, h \in given[a] : g[1] = h[1] => g = h
            BY <1>5, <1>10 DEF GivenInv
          <5>2. <<"durable", i>>[1] = <<"durable", id>>[1]
            OBVIOUS
          <5>. QED  BY <3>4, <3>6, <5>1, <5>2
        <4>2. i = id
          BY <4>1
        <4>. QED  BY <3>2, <3>6, <4>2
      <3>. QED  BY <3>5, <3>6 DEF Ran
    <2>7. worker.pc # "act" /\ worker'.ask = worker.ask /\ worker.ask \in Asks
      BY <1>2, <1>3, <1>5, <2>4
    <2>8. EffectsInv(stored', memory', given, carried, worker')
      BY <1>2, <1>9, <2>4, <2>5, <2>6, <2>7, BeginsOne
    <2>. QED  BY <1>9, <1>12, <2>4, <2>5, <2>8, SameGiven
  <1>14. CASE Answered(w) /\ stored.occs[<<id, a>>] # worker.from /\ AfterRun
              /\ UNCHANGED <<memory, missed>>
    <2>1. Served(stored, given, missed, id, a)
      BY <1>5, <1>14
    <2>2. Served(stored', given, missed, worker.id, worker.ask)
      <3>1. missed \subseteq missed
        OBVIOUS
      <3>. QED  BY <1>2, <1>5, <1>9, <2>1, <3>1, ServedFollows
    <2>3. /\ worker' \in Workers /\ WorkerInv(worker', stored', given, missed)
          /\ worker'.pc \in {"idle", "advance read"}
      BY <1>4, <1>14, <2>2, AfterRunGoesOn
    <2>4. Follows(memory, memory', given)
      BY <1>10, <1>14, FollowsItself
    <2>5. worker'.pc # "act" /\ UNCHANGED <<seen, asks, carried, given, missed>>
      BY <1>3, <1>14, <2>3
    <2>. QED  BY <1>9, <2>3, <2>4, <2>5, WriteKept
  <1>15. CASE (GivenUp(w) \/ Unreachable) /\ ClaimInMemory /\ missed' = missed \union {<<id, a>>}
    <2>1. stored' = stored
      BY <1>15 DEF GivenUp, Unreachable
    <2>2. Served(stored', given, missed', worker.id, worker.ask)
      BY <1>2, <1>15 DEF Served, Excused
    <2>3. CASE memory.occs[<<id, a>>] \in Claimable
      <3>1. Goto("act") /\ memory' = Moved(memory, <<id, a>>, "running")
        BY <1>2, <1>15, <2>3 DEF ClaimInMemory, Key
      <3>2. /\ worker' \in Workers /\ WorkerInv(worker', stored', given, missed')
            /\ worker'.pc = "act" /\ worker'.ask = a
        BY <1>2, <1>4, <1>11, <2>2, <3>1, GoesOn
      <3>3. /\ "running" \in Statuses /\ "running" \notin {"none", "claimed"} /\ "running" \in Spent
            /\ memory.occs[<<id, a>>] \notin Spent /\ memory.occs[<<id, a>>] # "none"
        BY <2>3 DEF Statuses, Spent, Claimable
      <3>4. Follows(memory, memory', given)
        BY <1>5, <1>10, <3>1, <3>3, MoveFollows
      <3>5. /\ memory'.occs[<<id, a>>] = "running" /\ memory'.tasks = memory.tasks
        BY <1>5, <1>10, <3>1, <3>3, MovedFacts
      <3>6. SharedTask(given, a) \/ (~RanBeside(memory, given, a) /\ RanBeside(memory', given, a))
        <4>1. SUFFICES ASSUME ~SharedTask(given, a)
                       PROVE  ~RanBeside(memory, given, a) /\ RanBeside(memory', given, a)
          OBVIOUS
        <4>2. memory.tasks[id] # NoTask
          BY <1>5, <1>10, <3>3 DEF RowsInv
        <4>3. <<"memory", id>> \in given[a] /\ memory.tasks[id].ask = a
          BY <1>5, <1>10, <4>1, <4>2, RowOf
        <4>4. PICK h : h = <<"memory", id>> /\ h[1] = "memory" /\ h[2] = id /\ h \in given[a]
          BY <4>3
        <4>5. memory'.occs[<<h[2], a>>] \in Spent
          BY <3>3, <3>5, <4>4
        <4>6. RanBeside(memory', given, a)
          BY <4>4, <4>5 DEF RanBeside
        <4>7. ASSUME NEW g \in given[a], g[1] = "memory",
                     g[2] \in TaskIds /\ memory.tasks[g[2]].ask = a => memory.occs[<<g[2], a>>] \in Spent
              PROVE  FALSE
          <5>1. \A x, y \in given[a] : x[1] = y[1] => x = y
            BY <1>5, <1>10 DEF GivenInv
          <5>2. g = h
            BY <4>4, <4>7, <5>1
          <5>3. g[2] = id
            BY <4>4, <5>2
          <5>. QED  BY <1>5, <3>3, <4>3, <4>7, <5>3
        <4>. QED  BY <4>6, <4>7 DEF RanBeside
      <3>7. worker.pc # "act" /\ worker'.ask = worker.ask /\ worker.ask \in Asks
        BY <1>2, <1>3, <1>5, <3>2
      <3>8. EffectsInv(stored', memory', given, carried, worker')
        BY <1>2, <1>9, <3>2, <3>4, <3>6, <3>7, BeginsOne
      <3>. QED  BY <1>9, <1>12, <3>2, <3>4, <3>8, SameGiven
    <2>4. CASE memory.occs[<<id, a>>] \notin Claimable
      <3>1. AfterRun /\ memory' = memory
        BY <1>2, <1>15, <2>4 DEF ClaimInMemory, Key
      <3>2. /\ worker' \in Workers /\ WorkerInv(worker', stored', given, missed')
            /\ worker'.pc \in {"idle", "advance read"}
        BY <1>4, <2>2, <3>1, AfterRunGoesOn
      <3>3. worker'.pc # "act" /\ Follows(memory, memory', given)
        BY <1>10, <3>1, <3>2, FollowsItself
      <3>4. EffectsInv(stored', memory', given, carried, worker')
        BY <1>9, <3>3, EffectsStay
      <3>. QED  BY <1>9, <1>12, <3>2, <3>3, <3>4, SameGiven
    <2>. QED  BY <2>3, <2>4
  <1>. QED  BY <1>3, <1>13, <1>14, <1>15

-----------------------------------------------------------------------------
(* Recovery, the owner and the store. *)

\* The scheduler stands where it stood, or where no row is of interest to it.
LEMMA QuietStep ==
  ASSUME DegradedInv, Follows(stored, stored', given), memory' = memory, late' \in {late, NoWrite},
         \A id \in TaskIds : ~stored'.tasks[id].due => ~stored.tasks[id].due,
         UNCHANGED <<asks, carried, given, missed>>, seen' = seen \/ seen' \in Nat,
         worker' = worker \/ (worker' \in Workers /\ worker'.pc \notin Walks)
  PROVE  DegradedInv'
  <1>1. /\ DueInv(stored, given, missed) /\ LateInv(late, stored, given, missed)
        /\ GivenInv(given, asks, late) /\ late \in WriteRecords /\ RowsInv(stored, "durable", given)
        /\ stored \in Tables /\ memory \in Tables /\ worker \in Workers
        /\ WorkerInv(worker, stored, given, missed)
    BY DEF DegradedInv, DegradedTypes
  <1>2. DueInv(stored', given, missed)
    BY <1>1, DueFollows
  <1>3. /\ NoWrite \in WriteRecords /\ LateInv(NoWrite, stored, given, missed)
        /\ GivenInv(given, asks, NoWrite)
    <2>1. NoWrite \in WriteRecords /\ NoWrite.op = "none"
      BY DEF NoWrite, WriteRecords, Statuses
    <2>. QED  BY <1>1, <2>1 DEF LateInv, GivenInv
  <1>4. /\ late' \in WriteRecords /\ LateInv(late', stored, given, missed) /\ GivenInv(given, asks, late')
    BY <1>1, <1>3
  <1>5. Follows(memory, memory', given)
    BY <1>1, FollowsItself
  <1>6. /\ worker' \in Workers /\ WorkerInv(worker', stored', given, missed)
        /\ worker'.pc # "act" \/ worker' = worker
    <2>1. CASE worker' = worker
      <3>1. missed \subseteq missed
        OBVIOUS
      <3>. QED  BY <1>1, <2>1, <3>1, WorkerFollows
    <2>2. CASE worker' \in Workers /\ worker'.pc \notin Walks
      <3>1. "act" \in Walks
        BY DEF Walks
      <3>. QED  BY <2>2, <3>1 DEF WorkerInv
    <2>. QED  BY <2>1, <2>2
  <1>. QED  BY <1>2, <1>4, <1>5, <1>6, WriteKept

LEMMA RecoverOneKept ==
  ASSUME DegradedInv, NEW key \in Keys, RecoverOne(key)
  PROVE  DegradedInv'
  <1>1. PICK id \in TaskIds, a \in Asks : key = <<id, a>>
    BY DEF Keys
  <1>2. PICK s : s = stored.occs[key]
    OBVIOUS
  <1>3. /\ worker.pc = "resolve"
        /\ worker' = worker \/ worker' = [worker EXCEPT !.todo = worker.todo \ {key}]
        /\ \/ stored' = stored
           \/ s \in DOMAIN Resolution /\ stored' = Moved(stored, key, Resolution[s])
        /\ UNCHANGED <<memory, seen, net, late, asks, carried, given, missed>>
    BY <1>2 DEF RecoverOne
  <1>4. Follows(stored, stored', given)
        /\ \A i \in TaskIds : ~stored'.tasks[i].due => ~stored.tasks[i].due
    <2>1. CASE stored' = stored
      BY <2>1, StoreFacts, FollowsItself
    <2>2. CASE s \in DOMAIN Resolution /\ stored' = Moved(stored, key, Resolution[s])
      <3>1. /\ s \in {"running", "claimed", "interrupted"} /\ Resolution[s] \in Statuses
            /\ Resolution[s] \notin {"none", "claimed"} /\ (s \in Spent => Resolution[s] \in Spent)
        BY <2>2 DEF Resolution, Statuses, Spent
      <3>2. s # "none" /\ s = stored.occs[<<id, a>>] /\ stored \in Tables
            /\ stored' = Moved(stored, <<id, a>>, Resolution[s])
        BY <1>1, <1>2, <2>2, <3>1, StoreFacts
      <3>3. Follows(stored, stored', given)
        BY <3>1, <3>2, MoveFollows
      <3>4. stored'.tasks = stored.tasks
        BY <3>1, <3>2, MovedFacts
      <3>. QED  BY <3>3, <3>4
    <2>. QED  BY <1>3, <2>1, <2>2
  <1>5. worker' = worker \/ (worker' \in Workers /\ worker'.pc \notin Walks)
    <2>1. \A y \in Workers, ks \in SUBSET Keys : /\ [y EXCEPT !.todo = ks] \in Workers
                                                 /\ [y EXCEPT !.todo = ks].pc = y.pc
      BY DEF Workers
    <2>2. worker \in Workers /\ worker.todo \ {key} \in SUBSET Keys
      BY StoreFacts DEF Workers
    <2>3. "resolve" \notin Walks
      BY DEF Walks
    <2>. QED  BY <1>3, <2>1, <2>2, <2>3
  <1>6. late' \in {late, NoWrite} /\ memory' = memory
        /\ UNCHANGED <<asks, carried, given, missed>> /\ seen' = seen
    BY <1>3
  <1>. QED  BY <1>4, <1>5, <1>6, QuietStep

Edited(st, id) == [st EXCEPT !.tasks[id].version = @ + 1]
LEMMA EditedFacts ==
  ASSUME NEW st \in Tables, NEW id \in TaskIds
  PROVE  /\ Edited(st, id) \in Tables /\ Edited(st, id).occs = st.occs /\ Edited(st, id).last = st.last
         /\ Edited(st, id).tasks[id].ask = st.tasks[id].ask
         /\ Edited(st, id).tasks[id].due = st.tasks[id].due
         /\ Edited(st, id).tasks[id].version = st.tasks[id].version + 1
         /\ \A i \in TaskIds \ {id} : Edited(st, id).tasks[i] = st.tasks[i]
  <1>1. st.tasks \in [TaskIds -> TaskRows]
    BY DEF Tables
  <1>2. PICK t : t = [st.tasks[id] EXCEPT !.version = st.tasks[id].version + 1]
    OBVIOUS
  <1>3. /\ t \in TaskRows /\ t.ask = st.tasks[id].ask /\ t.due = st.tasks[id].due
        /\ t.version = st.tasks[id].version + 1
    <2>1. \A r \in TaskRows, n \in Nat :
             /\ [r EXCEPT !.version = n] \in TaskRows /\ [r EXCEPT !.version = n].ask = r.ask
             /\ [r EXCEPT !.version = n].due = r.due /\ [r EXCEPT !.version = n].version = n
      BY DEF TaskRows
    <2>2. st.tasks[id] \in TaskRows /\ st.tasks[id].version + 1 \in Nat
      BY <1>1 DEF TaskRows
    <2>. QED  BY <1>2, <2>1, <2>2
  <1>4. PICK ts : ts = [st.tasks EXCEPT ![id] = t]
    OBVIOUS
  <1>5. /\ ts \in [TaskIds -> TaskRows] /\ ts[id] = t
        /\ \A i \in TaskIds \ {id} : ts[i] = st.tasks[i]
    BY <1>1, <1>3, <1>4
  <1>6. PICK m : m = [st EXCEPT !.tasks = ts]
    OBVIOUS
  <1>7. m \in Tables /\ m.tasks = ts /\ m.occs = st.occs /\ m.last = st.last
    <2>1. \A s \in Tables : /\ [s EXCEPT !.tasks = ts] \in Tables /\ [s EXCEPT !.tasks = ts].tasks = ts
                            /\ [s EXCEPT !.tasks = ts].occs = s.occs
                            /\ [s EXCEPT !.tasks = ts].last = s.last
      BY <1>5 DEF Tables
    <2>. QED  BY <1>6, <2>1
  <1>8. Edited(st, id) = m
    BY <1>1, <1>2, <1>4, <1>6 DEF Edited, Tables
  <1>. QED  BY <1>3, <1>5, <1>7, <1>8

LEMMA EditKept ==
  ASSUME DegradedInv, NEW id \in TaskIds, OwnerEdit(id)
  PROVE  DegradedInv'
  <1>1. /\ stored.tasks[id] # NoTask /\ seen' = Observed(id)
        /\ stored' = Edited(stored, id)
        /\ UNCHANGED <<memory, late, asks, worker, carried, given, missed>>
    BY DEF OwnerEdit, Edited
  <1>2. stored \in Tables
    BY StoreFacts
  <1>3. PICK m : m = Edited(stored, id)
    OBVIOUS
  <1>4. PICK t : t = m.tasks[id]
    OBVIOUS
  <1>5. /\ m \in Tables /\ m.occs = stored.occs
        /\ t.ask = stored.tasks[id].ask /\ t.due = stored.tasks[id].due
        /\ t.version = stored.tasks[id].version + 1
        /\ \A i \in TaskIds \ {id} : m.tasks[i] = stored.tasks[i]
    BY <1>2, <1>3, <1>4, EditedFacts
  <1>9. stored' = m
    BY <1>1, <1>3
  <1>10. \A i \in TaskIds : stored.tasks[i].version \in Nat
    BY <1>2 DEF Tables, TaskRows
  <1>11. t # NoTask
    <2>1. stored.tasks[id].version + 1 # 0 /\ NoTask.version = 0
      BY <1>10 DEF NoTask
    <2>. QED  BY <1>5, <2>1
  <1>12. Follows(stored, m, given)
    BY <1>1, <1>4, <1>5, <1>10, <1>11 DEF Follows
  <1>13. \A i \in TaskIds : ~m.tasks[i].due => ~stored.tasks[i].due
    BY <1>4, <1>5
  <1>14. late' \in {late, NoWrite} /\ memory' = memory /\ worker' = worker
         /\ UNCHANGED <<asks, carried, given, missed>> /\ seen' \in Nat
    BY <1>1, StoreFacts
  <1>. QED  BY <1>9, <1>12, <1>13, <1>14, QuietStep

LEMMA StoreKept ==
  ASSUME DegradedInv, LateIsLost \/ StoreGoes \/ StoreReturns \/ UNCHANGED degradedVars
  PROVE  DegradedInv'
  <1>1. /\ UNCHANGED <<stored, memory, seen, asks, worker, carried, given, missed>>
        /\ late' \in {late, NoWrite}
    BY DEF LateIsLost, StoreGoes, StoreReturns, degradedVars
  <1>2. Follows(stored, stored', given)
        /\ \A i \in TaskIds : ~stored'.tasks[i].due => ~stored.tasks[i].due
    BY <1>1, StoreFacts, FollowsItself
  <1>3. memory' = memory /\ worker' = worker /\ seen' = seen
        /\ UNCHANGED <<asks, carried, given, missed>>
    BY <1>1
  <1>. QED  BY <1>1, <1>2, <1>3, QuietStep

-----------------------------------------------------------------------------
(* A task is written. *)

\* What is said of a task stays said when more tasks are given.
LEMMA ServedGrows ==
  ASSUME NEW s1, NEW s2, NEW gv, NEW gv2, NEW ms, NEW id \in TaskIds, NEW a \in Asks,
         s2.occs = s1.occs, \A b \in Asks : gv[b] \subseteq gv2[b]
  PROVE  /\ SharedTask(gv, a) => SharedTask(gv2, a)
         /\ Known(gv, a, id) => Known(gv2, a, id)
         /\ Served(s1, gv, ms, id, a) => Served(s2, gv2, ms, id, a)
  <1>1. SharedTask(gv, a) => SharedTask(gv2, a)
    <2>1. SUFFICES ASSUME NEW b \in Asks \ {a}, NEW g \in gv[a], NEW h \in gv[b], g[2] = h[2]
                   PROVE  SharedTask(gv2, a)
      BY DEF SharedTask
    <2>2. g \in gv2[a] /\ h \in gv2[b]
      OBVIOUS
    <2>. QED  BY <2>1, <2>2 DEF SharedTask
  <1>2. Known(gv, a, id) => Known(gv2, a, id)
    BY DEF Known
  <1>. QED  BY <1>1, <1>2 DEF Served, Excused

LEMMA WorkerGrows ==
  ASSUME NEW wk, NEW s1, NEW s2, NEW gv, NEW gv2, NEW ms, WorkerInv(wk, s1, gv, ms),
         s2.occs = s1.occs, \A b \in Asks : gv[b] \subseteq gv2[b]
  PROVE  WorkerInv(wk, s2, gv2, ms)
  <1>1. CASE wk.pc \in Walks
    <2>1. wk.id \in TaskIds /\ wk.ask \in Asks /\ Known(gv, wk.ask, wk.id)
      BY <1>1 DEF WorkerInv
    <2>2. Known(gv2, wk.ask, wk.id) /\ (Served(s1, gv, ms, wk.id, wk.ask) => Served(s2, gv2, ms, wk.id, wk.ask))
      BY <2>1, ServedGrows
    <2>. QED  BY <1>1, <2>2 DEF WorkerInv
  <1>2. CASE wk.pc \notin Walks
    BY <1>2 DEF WorkerInv
  <1>. QED  BY <1>1, <1>2

LEMMA LateGrows ==
  ASSUME NEW lt, NEW s1, NEW s2, NEW gv, NEW gv2, NEW ms, LateInv(lt, s1, gv, ms),
         s2.occs = s1.occs, \A b \in Asks : gv[b] \subseteq gv2[b]
  PROVE  LateInv(lt, s2, gv2, ms)
  <1>1. CASE lt.op \in {"occurrence", "move", "advance"}
    <2>1. lt.id \in TaskIds /\ lt.ask \in Asks /\ Known(gv, lt.ask, lt.id)
      BY <1>1 DEF LateInv
    <2>2. Known(gv2, lt.ask, lt.id) /\ (Served(s1, gv, ms, lt.id, lt.ask) => Served(s2, gv2, ms, lt.id, lt.ask))
      BY <2>1, ServedGrows
    <2>. QED  BY <1>1, <2>1, <2>2 DEF LateInv
  <1>2. CASE lt.op \notin {"occurrence", "move", "advance"}
    BY <1>2 DEF LateInv
  <1>. QED  BY <1>1, <1>2

\* The rows of a store, when a task is given somewhere else, and when it is inserted.
LEMMA RowsGrow ==
  ASSUME NEW st, NEW name, NEW gv, NEW gv2, RowsInv(st, name, gv),
         \A b \in Asks : gv[b] \subseteq gv2[b]
  PROVE  RowsInv(st, name, gv2)
  <1>1. ASSUME NEW id \in TaskIds, st.tasks[id] # NoTask
        PROVE  /\ st.tasks[id].ask \in Asks /\ st.tasks[id].version >= 1
               /\ <<name, id>> \in gv2[st.tasks[id].ask]
    BY <1>1 DEF RowsInv
  <1>2. \A id \in TaskIds, b \in Asks : Known(gv, b, id) => Known(gv2, b, id)
    BY DEF Known
  <1>. QED  BY <1>1, <1>2 DEF RowsInv

LEMMA RowInserted ==
  ASSUME NEW st \in Tables, NEW name, NEW gv, NEW a \in Asks, NEW n \in Nat,
         RowsInv(st, name, gv), <<name, n>> \in gv[a]
  PROVE  RowsInv(Inserted(st, n, a), name, gv)
  <1>1. PICK st2 : st2 = Inserted(st, n, a)
    OBVIOUS
  <1>2. /\ st2.occs = st.occs
        /\ \A i \in TaskIds : st2.tasks[i] = IF i = n THEN NewTask(a) ELSE st.tasks[i]
    BY <1>1, InsertedFacts
  <1>3. NewTask(a).ask = a /\ NewTask(a).version = 1 /\ NewTask(a) # NoTask
    BY DEF NewTask, NoTask
  <1>4. ASSUME NEW id \in TaskIds, st2.tasks[id] # NoTask
        PROVE  /\ st2.tasks[id].ask \in Asks /\ st2.tasks[id].version >= 1
               /\ <<name, id>> \in gv[st2.tasks[id].ask]
    <2>1. CASE id = n
      BY <1>2, <1>3, <2>1
    <2>2. CASE id # n
      BY <1>2, <1>4, <2>2 DEF RowsInv
    <2>. QED  BY <2>1, <2>2
  <1>5. ASSUME NEW id \in TaskIds, NEW b \in Asks, st2.occs[<<id, b>>] # "none"
        PROVE  st2.tasks[id] # NoTask /\ Known(gv, b, id)
    <2>1. st.tasks[id] # NoTask /\ Known(gv, b, id)
      BY <1>2, <1>5 DEF RowsInv
    <2>. QED  BY <1>2, <1>3, <2>1
  <1>6. RowsInv(st2, name, gv)
    BY <1>4, <1>5 DEF RowsInv
  <1>. QED  BY <1>1, <1>6

LEMMA GivenGrows ==
  ASSUME DegradedInv, NEW a \in Asks, NEW name \in {"durable", "memory"}, NEW n \in Nat,
         given' = [given EXCEPT ![a] = given[a] \union {<<name, n>>}],
         \A g \in given[a] : g[1] # name,
         stored' = stored \/ (name = "durable" /\ stored' = Inserted(stored, n, a)),
         memory' = memory \/ (name = "memory" /\ memory' = Inserted(memory, n, a)),
         UNCHANGED <<worker, carried, missed>>, seen' \in Nat,
         asks' \in [Asks -> {"new", "ceiling", "done"}], asks'[a] # "new",
         \A b \in Asks \ {a} : asks'[b] = asks[b],
         asks'[a] = "ceiling" => name = "durable" /\ asks[a] = "ceiling",
         late' = late \/ late' = NoWrite,
         late'.op = "task" /\ late'.ask = a => name = "memory"
  PROVE  DegradedInv'
  <1>1. PICK gv : gv = [given EXCEPT ![a] = given[a] \union {<<name, n>>}]
    OBVIOUS
  <1>2. given \in Givens /\ given' = gv
    BY <1>1 DEF DegradedInv, DegradedTypes
  <1>3. /\ gv \in Givens /\ gv[a] = given[a] \union {<<name, n>>}
        /\ \A b \in Asks \ {a} : gv[b] = given[b]
        /\ \A b \in Asks : given[b] \subseteq gv[b]
    <2>1. given[a] \union {<<name, n>>} \in SUBSET ({"durable", "memory"} \X Nat)
      BY <1>2 DEF Givens
    <2>. QED  BY <1>1, <1>2, <2>1 DEF Givens
  <1>4. /\ RowsInv(stored, "durable", given) /\ RowsInv(memory, "memory", given)
        /\ GivenInv(given, asks, late) /\ EffectsInv(stored, memory, given, carried, worker)
        /\ WorkerInv(worker, stored, given, missed) /\ LateInv(late, stored, given, missed)
        /\ DueInv(stored, given, missed) /\ late \in WriteRecords
        /\ stored \in Tables /\ memory \in Tables
    BY DEF DegradedInv, DegradedTypes
  <1>5. /\ stored' \in Tables /\ stored'.occs = stored.occs
        /\ \A i \in TaskIds : stored'.tasks[i] = stored.tasks[i] \/ stored'.tasks[i] = NewTask(a)
    BY <1>4, InsertedFacts
  <1>6. /\ memory' \in Tables /\ memory'.occs = memory.occs
        /\ \A i \in TaskIds : \/ memory'.tasks[i] = memory.tasks[i]
                              \/ name = "memory" /\ memory'.tasks[i] = NewTask(a)
    BY <1>4, InsertedFacts
  <1>7. RowsInv(stored', "durable", gv) /\ RowsInv(memory', "memory", gv)
    <2>1. <<name, n>> \in gv[a]
      BY <1>3
    <2>2. RowsInv(stored, "durable", gv) /\ RowsInv(memory, "memory", gv)
      BY <1>3, <1>4, RowsGrow
    <2>3. CASE name = "durable"
      <3>1. RowsInv(Inserted(stored, n, a), "durable", gv)
        BY <1>4, <2>1, <2>2, <2>3, RowInserted
      <3>2. memory' = memory
        BY <2>3
      <3>. QED  BY <2>2, <3>1, <3>2
    <2>4. CASE name = "memory"
      <3>1. RowsInv(Inserted(memory, n, a), "memory", gv)
        BY <1>4, <2>1, <2>2, <2>4, RowInserted
      <3>2. stored' = stored
        BY <2>4
      <3>. QED  BY <2>2, <3>1, <3>2
    <2>. QED  BY <2>3, <2>4
  <1>8. GivenInv(gv, asks', late')
    <2>1. ASSUME NEW b \in Asks
          PROVE  /\ IsFiniteSet(gv[b])
                 /\ \A g, h \in gv[b] : g[1] = h[1] => g = h
                 /\ asks'[b] = "new" => gv[b] = {}
                 /\ asks'[b] = "ceiling" => \A g \in gv[b] : g[1] = "durable"
      <3>1. CASE b # a
        BY <1>3, <1>4, <3>1 DEF GivenInv
      <3>2. CASE b = a
        <4>1. /\ IsFiniteSet(given[a]) /\ \A g, h \in given[a] : g[1] = h[1] => g = h
              /\ asks[a] = "ceiling" => \A g \in given[a] : g[1] = "durable"
          BY <1>4 DEF GivenInv
        <4>2. PICK x : x = <<name, n>>
          OBVIOUS
        <4>3. x[1] = name
          BY <4>2
        <4>4. gv[a] = given[a] \union {x}
          BY <1>3, <4>2
        <4>5. IsFiniteSet(gv[a])
          BY <4>1, <4>4, FS_AddElement
        <4>6. ASSUME NEW g \in gv[a], NEW h \in gv[a], g[1] = h[1] PROVE g = h
          BY <4>1, <4>3, <4>4, <4>6
        <4>7. asks'[a] = "ceiling" => \A g \in gv[a] : g[1] = "durable"
          BY <4>1, <4>3, <4>4
        <4>8. asks'[a] # "new"
          OBVIOUS
        <4>. QED  BY <3>2, <4>5, <4>6, <4>7, <4>8
      <3>. QED  BY <3>1, <3>2
    <2>2. ASSUME late'.op = "task"
          PROVE  /\ late'.ask \in Asks /\ asks'[late'.ask] # "new"
                 /\ \A g \in gv[late'.ask] : g[1] = "memory"
      <3>1. late' = late
        <4>1. NoWrite.op = "none"
          BY DEF NoWrite
        <4>. QED  BY <2>2, <4>1
      <3>2. PICK b \in Asks : b = late'.ask /\ asks[b] # "new" /\ \A g \in given[b] : g[1] = "memory"
        BY <1>4, <2>2, <3>1 DEF GivenInv
      <3>3. CASE b # a
        BY <1>3, <3>2, <3>3
      <3>4. CASE b = a
        <4>1. name = "memory"
          BY <2>2, <3>2, <3>4
        <4>2. PICK x : x = <<name, n>>
          OBVIOUS
        <4>3. x[1] = "memory" /\ gv[a] = given[a] \union {x}
          BY <1>3, <4>1, <4>2
        <4>. QED  BY <3>2, <3>4, <4>3
      <3>. QED  BY <3>3, <3>4
    <2>. QED  BY <2>1, <2>2 DEF GivenInv
  <1>9. EffectsInv(stored', memory', gv, carried, worker)
    <2>1. ASSUME NEW b \in Asks, ~SharedTask(gv, b)
          PROVE  Begun(carried, worker, b) <= (IF Ran(stored', gv, b) THEN 1 ELSE 0)
                                                + (IF RanBeside(memory', gv, b) THEN 1 ELSE 0)
      <3>1. ~SharedTask(given, b)
        <4>1. SUFFICES ASSUME SharedTask(given, b) PROVE FALSE
          OBVIOUS
        <4>2. PICK c \in Asks \ {b} : \E g \in given[b], h \in given[c] : g[2] = h[2]
          BY <4>1 DEF SharedTask
        <4>3. PICK g \in given[b], h \in given[c] : g[2] = h[2]
          BY <4>2
        <4>4. g \in gv[b] /\ h \in gv[c]
          BY <1>3
        <4>. QED  BY <2>1, <4>3, <4>4 DEF SharedTask
      <3>2. Begun(carried, worker, b) <= (IF Ran(stored, given, b) THEN 1 ELSE 0)
                                           + (IF RanBeside(memory, given, b) THEN 1 ELSE 0)
        BY <1>4, <3>1 DEF EffectsInv
      <3>3. Begun(carried, worker, b) \in Nat
        BY BegunIs, StoreFacts
      <3>4. Ran(stored, given, b) => Ran(stored', gv, b)
        BY <1>3, <1>5 DEF Ran
      <3>5. RanBeside(memory, given, b) => RanBeside(memory', gv, b)
        <4>1. SUFFICES ASSUME NEW g \in given[b], g[1] = "memory",
                              g[2] \in TaskIds /\ memory.tasks[g[2]].ask = b
                                 => memory.occs[<<g[2], b>>] \in Spent
                       PROVE  RanBeside(memory', gv, b)
          BY DEF RanBeside
        <4>2. ASSUME g[2] \in TaskIds, memory'.tasks[g[2]].ask = b
              PROVE  memory'.occs[<<g[2], b>>] \in Spent
          <5>1. CASE memory'.tasks[g[2]] = memory.tasks[g[2]]
            BY <1>6, <4>1, <4>2, <5>1
          <5>2. CASE name = "memory" /\ memory'.tasks[g[2]] = NewTask(a)
            <6>1. b = a
              BY <4>2, <5>2 DEF NewTask
            <6>. QED  BY <4>1, <5>2, <6>1
          <5>. QED  BY <1>6, <4>2, <5>1, <5>2
        <4>3. g \in gv[b]
          BY <1>3
        <4>. QED  BY <4>1, <4>2, <4>3 DEF RanBeside
      <3>. QED  BY <3>2, <3>3, <3>4, <3>5
    <2>. QED  BY <2>1 DEF EffectsInv
  <1>10. WorkerInv(worker, stored', gv, missed)
    BY <1>3, <1>4, <1>5, WorkerGrows
  <1>11. late' \in WriteRecords /\ LateInv(late', stored', gv, missed)
    <2>1. CASE late' = late
      BY <1>3, <1>4, <1>5, <2>1, LateGrows
    <2>2. CASE late' = NoWrite
      <3>1. NoWrite \in WriteRecords /\ NoWrite.op = "none"
        BY DEF NoWrite, WriteRecords, Statuses
      <3>. QED  BY <2>2, <3>1 DEF LateInv
    <2>. QED  BY <2>1, <2>2
  <1>12. DueInv(stored', gv, missed)
    <2>1. ASSUME NEW id \in TaskIds, stored'.tasks[id] # NoTask, ~stored'.tasks[id].due
          PROVE  Served(stored', gv, missed, id, stored'.tasks[id].ask)
      <3>1. stored'.tasks[id] = stored.tasks[id]
        <4>1. NewTask(a).due = TRUE
          BY DEF NewTask
        <4>. QED  BY <1>5, <2>1, <4>1
      <3>2. PICK b \in Asks : b = stored.tasks[id].ask
        BY <1>4, <2>1, <3>1 DEF RowsInv
      <3>3. Served(stored, given, missed, id, b)
        BY <1>4, <2>1, <3>1, <3>2 DEF DueInv
      <3>. QED  BY <1>3, <1>5, <3>1, <3>2, <3>3, ServedGrows
    <2>. QED  BY <2>1 DEF DueInv
  <1>13. /\ worker' = worker /\ carried' = carried /\ missed' = missed
         /\ worker \in Workers /\ carried \in [Asks -> Nat]
    BY StoreFacts
  <1>14. DegradedTypes'
    BY <1>2, <1>3, <1>5, <1>6, <1>11, <1>13 DEF DegradedTypes
  <1>. QED  BY <1>2, <1>7, <1>8, <1>9, <1>10, <1>11, <1>12, <1>13, <1>14 DEF DegradedInv

LEMMA LateLandsKept ==
  ASSUME DegradedInv, LateLands
  PROVE  DegradedInv'
  <1>1. /\ stored' = Landed(late) /\ late' = NoWrite
        /\ UNCHANGED <<memory, seen, asks, worker, carried, missed>>
        /\ late.op = "task" =>
              given' = [given EXCEPT ![late.ask] = given[late.ask] \union {<<"durable", stored.last + 1>>}]
        /\ late.op # "task" => given' = given
    BY DEF LateLands
  <1>2. /\ RowsInv(stored, "durable", given) /\ DueInv(stored, given, missed)
        /\ LateInv(late, stored, given, missed) /\ GivenInv(given, asks, late) /\ late \in WriteRecords
        /\ WorkerInv(worker, stored, given, missed) /\ worker \in Workers
        /\ stored \in Tables /\ memory \in Tables
    BY DEF DegradedInv, DegradedTypes
  <1>3. NoWrite \in WriteRecords /\ NoWrite.op = "none"
    BY DEF NoWrite, WriteRecords, Statuses
  <1>4. CASE late.op = "task"
    <2>1. PICK a, n : a = late.ask /\ n = stored.last + 1
      OBVIOUS
    <2>2. a \in Asks /\ asks[a] # "new" /\ \A g \in given[a] : g[1] = "memory"
      BY <1>2, <1>4, <2>1 DEF GivenInv
    <2>3. n \in Nat
      BY <1>2, <2>1 DEF Tables
    <2>4. stored' = Inserted(stored, n, a)
      BY <1>1, <1>4, <2>1 DEF Landed
    <2>5. given' = [given EXCEPT ![a] = given[a] \union {<<"durable", n>>}]
      BY <1>1, <1>4, <2>1
    <2>6. \A g \in given[a] : g[1] # "durable"
      BY <2>2
    <2>7. /\ UNCHANGED <<worker, carried, missed>> /\ memory' = memory /\ seen' \in Nat
          /\ asks' \in [Asks -> {"new", "ceiling", "done"}] /\ asks'[a] # "new"
          /\ \A b \in Asks \ {a} : asks'[b] = asks[b]
          /\ asks'[a] = "ceiling" => asks[a] = "ceiling"
      BY <1>1, <2>2, StoreFacts
    <2>8. late' = NoWrite /\ late'.op # "task" /\ "durable" \in {"durable", "memory"}
      BY <1>1, <1>3
    <2>. QED  BY <2>2, <2>3, <2>4, <2>5, <2>6, <2>7, <2>8, GivenGrows
  <1>5. CASE late.op # "task"
    <2>1. Follows(stored, stored', given) /\ DueInv(stored', given, missed)
      BY <1>1, <1>2, <1>5, LandedFollows
    <2>2. /\ late' \in WriteRecords /\ LateInv(late', stored, given, missed) /\ GivenInv(given, asks, late')
      BY <1>1, <1>2, <1>3 DEF LateInv, GivenInv
    <2>3. worker' = worker /\ WorkerInv(worker', stored', given, missed) /\ worker' \in Workers
      <3>1. missed \subseteq missed
        OBVIOUS
      <3>. QED  BY <1>1, <1>2, <2>1, <3>1, WorkerFollows
    <2>4. Follows(memory, memory', given) /\ UNCHANGED <<asks, carried, given, missed>>
          /\ seen' = seen
      BY <1>1, <1>2, <1>5, FollowsItself
    <2>. QED  BY <2>1, <2>2, <2>3, <2>4, WriteKept
  <1>. QED  BY <1>4, <1>5

LEMMA AskInsertKept ==
  ASSUME DegradedInv, NEW a \in Asks, AskInsert(a)
  PROVE  DegradedInv'
  <1>1. PICK w : w = [NoWrite EXCEPT !.op = "task", !.ask = a]
    OBVIOUS
  <1>2. /\ asks[a] = "new" /\ UNCHANGED <<memory, worker, carried, missed>>
        /\ \/ /\ Answered(w)
              /\ seen' = Larger(seen, stored.last + 1)
              /\ given' = [given EXCEPT ![a] = given[a] \union {<<"durable", stored.last + 1>>}]
              /\ asks' = [asks EXCEPT ![a] = "done"]
           \/ /\ GivenUp(w) \/ Unreachable
              /\ asks' = [asks EXCEPT ![a] = "ceiling"]
              /\ UNCHANGED <<seen, given>>
    BY <1>1 DEF AskInsert
  <1>3. /\ GivenInv(given, asks, late) /\ late \in WriteRecords /\ LateInv(late, stored, given, missed)
        /\ stored \in Tables /\ memory \in Tables /\ asks \in [Asks -> {"new", "ceiling", "done"}]
        /\ worker \in Workers /\ WorkerInv(worker, stored, given, missed) /\ carried \in [Asks -> Nat]
        /\ DueInv(stored, given, missed) /\ seen \in Nat
    BY DEF DegradedInv, DegradedTypes
  <1>4. w.op = "task" /\ w.ask = a /\ w \in WriteRecords
    BY <1>1 DEF NoWrite, WriteRecords, Statuses
  <1>5. given[a] = {}
    BY <1>2, <1>3 DEF GivenInv
  <1>6. CASE /\ Answered(w)
             /\ seen' = Larger(seen, stored.last + 1)
             /\ given' = [given EXCEPT ![a] = given[a] \union {<<"durable", stored.last + 1>>}]
             /\ asks' = [asks EXCEPT ![a] = "done"]
    <2>1. PICK n : n = stored.last + 1
      OBVIOUS
    <2>2. n \in Nat /\ seen' \in Nat
      BY <1>3, <1>6, <2>1 DEF Tables, Larger
    <2>3. stored' = Inserted(stored, n, a) /\ late' = late
      BY <1>4, <1>6, <2>1 DEF Answered, Landed
    <2>4. given' = [given EXCEPT ![a] = given[a] \union {<<"durable", n>>}]
      BY <1>6, <2>1
    <2>5. /\ asks' \in [Asks -> {"new", "ceiling", "done"}] /\ asks'[a] = "done"
          /\ \A b \in Asks \ {a} : asks'[b] = asks[b]
      BY <1>3, <1>6
    <2>6. ~(late'.op = "task" /\ late'.ask = a)
      BY <1>2, <1>3, <2>3 DEF GivenInv
    <2>7. /\ UNCHANGED <<worker, carried, missed>> /\ memory' = memory
          /\ "durable" \in {"durable", "memory"} /\ \A g \in given[a] : g[1] # "durable"
          /\ asks'[a] # "new" /\ asks'[a] # "ceiling"
      BY <1>2, <1>5, <2>5
    <2>. QED  BY <2>2, <2>3, <2>4, <2>5, <2>6, <2>7, GivenGrows
  <1>7. CASE (GivenUp(w) \/ Unreachable) /\ asks' = [asks EXCEPT ![a] = "ceiling"]
             /\ UNCHANGED <<seen, given>>
    <2>1. stored' = stored /\ (late' = late \/ late' = w)
      BY <1>7 DEF GivenUp, Unreachable
    <2>2. /\ asks' \in [Asks -> {"new", "ceiling", "done"}] /\ asks'[a] = "ceiling"
          /\ \A b \in Asks \ {a} : asks'[b] = asks[b]
      BY <1>3, <1>7
    <2>3. late' \in WriteRecords /\ LateInv(late', stored, given, missed)
      <3>1. LateInv(w, stored, given, missed)
        BY <1>4 DEF LateInv
      <3>. QED  BY <1>3, <1>4, <2>1, <3>1
    <2>4. GivenInv(given, asks', late')
      <3>1. ASSUME NEW b \in Asks
            PROVE  /\ IsFiniteSet(given[b])
                   /\ \A g, h \in given[b] : g[1] = h[1] => g = h
                   /\ asks'[b] = "new" => given[b] = {}
                   /\ asks'[b] = "ceiling" => \A g \in given[b] : g[1] = "durable"
        <4>1. CASE b = a
          BY <1>3, <1>5, <2>2, <4>1 DEF GivenInv
        <4>2. CASE b # a
          BY <1>3, <2>2, <4>2 DEF GivenInv
        <4>. QED  BY <4>1, <4>2
      <3>2. ASSUME late'.op = "task"
            PROVE  /\ late'.ask \in Asks /\ asks'[late'.ask] # "new"
                   /\ \A g \in given[late'.ask] : g[1] = "memory"
        <4>1. CASE late' = w
          BY <1>4, <1>5, <2>2, <4>1
        <4>2. CASE late' = late
          <5>1. PICK b \in Asks : b = late.ask /\ asks[b] # "new" /\ \A g \in given[b] : g[1] = "memory"
            BY <1>3, <3>2, <4>2 DEF GivenInv
          <5>2. b # a
            BY <1>2, <5>1
          <5>. QED  BY <2>2, <4>2, <5>1, <5>2
        <4>. QED  BY <2>1, <4>1, <4>2
      <3>. QED  BY <3>1, <3>2 DEF GivenInv
    <2>5. /\ Follows(stored, stored', given) /\ Follows(memory, memory', given)
          /\ DueInv(stored', given, missed)
      BY <1>2, <1>3, <2>1, FollowsItself
    <2>6. /\ worker' = worker /\ worker' \in Workers /\ WorkerInv(worker', stored', given, missed')
          /\ carried' = carried /\ carried' \in [Asks -> Nat] /\ given' = given
          /\ missed \subseteq missed' /\ seen' \in Nat
      BY <1>2, <1>3, <1>7, <2>1
    <2>7. EffectsInv(stored', memory', given, carried', worker')
      BY <2>5, <2>6, EffectsStay
    <2>. QED  BY <2>2, <2>3, <2>4, <2>5, <2>6, <2>7, SameGiven
  <1>. QED  BY <1>2, <1>6, <1>7

LEMMA AskFallbackKept ==
  ASSUME DegradedInv, NEW a \in Asks, AskFallback(a)
  PROVE  DegradedInv'
  <1>1. PICK n : n = Larger(memory.last, MaxDurable) + 1
    OBVIOUS
  <1>2. /\ asks[a] = "ceiling" /\ seen' = MaxDurable /\ memory' = Inserted(memory, n, a)
        /\ given' = [given EXCEPT ![a] = given[a] \union {<<"memory", n>>}]
        /\ asks' = [asks EXCEPT ![a] = "done"]
        /\ UNCHANGED <<stored, net, late, worker, carried, missed>>
    BY <1>1 DEF AskFallback
  <1>3. /\ GivenInv(given, asks, late) /\ stored \in Tables /\ memory \in Tables
        /\ asks \in [Asks -> {"new", "ceiling", "done"}] /\ seen \in Nat
    BY DEF DegradedInv, DegradedTypes
  <1>4. n \in Nat /\ seen' \in Nat
    <2>1. stored.last \in Nat /\ memory.last \in Nat
      BY <1>3 DEF Tables
    <2>2. MaxDurable \in Nat
      BY <1>3, <2>1 DEF MaxDurable, Larger
    <2>. QED  BY <1>1, <1>2, <2>1, <2>2 DEF Larger
  <1>5. \A g \in given[a] : g[1] = "durable"
    BY <1>2, <1>3 DEF GivenInv
  <1>6. /\ asks' \in [Asks -> {"new", "ceiling", "done"}] /\ asks'[a] = "done"
        /\ \A b \in Asks \ {a} : asks'[b] = asks[b]
    BY <1>2, <1>3
  <1>7. /\ UNCHANGED <<worker, carried, missed>> /\ stored' = stored /\ late' = late
        /\ "memory" \in {"durable", "memory"} /\ \A g \in given[a] : g[1] # "memory"
        /\ asks'[a] # "new" /\ asks'[a] # "ceiling"
    BY <1>2, <1>5, <1>6
  <1>. QED  BY <1>2, <1>4, <1>6, <1>7, GivenGrows

-----------------------------------------------------------------------------
(* Restarts and the initial states. *)

LEMMA EmptyFacts ==
  /\ EmptyStore \in Tables /\ \A id \in TaskIds : EmptyStore.tasks[id] = NoTask
  /\ \A gv, name : RowsInv(EmptyStore, name, gv)
  /\ \A gv, a : a \in Asks => \/ RanBeside(EmptyStore, gv, a)
                             \/ \A g \in gv[a] : g[1] # "memory"
  <1>1. NoTask \in TaskRows /\ NoTask.ask = NoAsk /\ NoAsk \notin Asks /\ "none" \in Statuses
    BY DegradedAssumption DEF NoTask, TaskRows, Statuses
  <1>2. /\ EmptyStore.tasks = [id \in TaskIds |-> NoTask] /\ EmptyStore.last = 0
        /\ EmptyStore.occs = [k \in Keys |-> "none"]
    BY DEF EmptyStore
  <1>3. EmptyStore \in Tables
    BY <1>1 DEF EmptyStore, Tables
  <1>4. /\ \A id \in TaskIds : EmptyStore.tasks[id] = NoTask
        /\ \A id \in TaskIds, a \in Asks : EmptyStore.occs[<<id, a>>] = "none"
    BY <1>2 DEF Keys
  <1>5. \A gv, name : RowsInv(EmptyStore, name, gv)
    BY <1>4 DEF RowsInv
  <1>6. ASSUME NEW gv, NEW a \in Asks
        PROVE  RanBeside(EmptyStore, gv, a) \/ \A g \in gv[a] : g[1] # "memory"
    <2>1. SUFFICES ASSUME NEW g \in gv[a], g[1] = "memory" PROVE RanBeside(EmptyStore, gv, a)
      OBVIOUS
    <2>2. ~(g[2] \in TaskIds /\ EmptyStore.tasks[g[2]].ask = a)
      BY <1>1, <1>4
    <2>. QED  BY <2>1, <2>2 DEF RanBeside
  <1>. QED  BY <1>3, <1>4, <1>5, <1>6

LEMMA RestartKept ==
  ASSUME DegradedInv, Restart
  PROVE  DegradedInv'
  <1>1. /\ memory' = EmptyStore /\ seen' = 0
        /\ asks' = [a \in Asks |-> IF asks[a] = "ceiling" THEN "done" ELSE asks[a]]
        /\ worker' = [IdleWorker EXCEPT !.pc = "recover"]
        /\ UNCHANGED <<stored, late, carried, given, missed>>
    BY DEF Restart
  <1>2. /\ stored \in Tables /\ memory \in Tables /\ late \in WriteRecords /\ given \in Givens
        /\ carried \in [Asks -> Nat] /\ asks \in [Asks -> {"new", "ceiling", "done"}]
        /\ RowsInv(stored, "durable", given) /\ GivenInv(given, asks, late)
        /\ EffectsInv(stored, memory, given, carried, worker)
        /\ LateInv(late, stored, given, missed) /\ DueInv(stored, given, missed)
    BY DEF DegradedInv, DegradedTypes
  <1>3. /\ asks' \in [Asks -> {"new", "ceiling", "done"}]
        /\ \A a \in Asks : /\ asks'[a] # "ceiling" /\ (asks'[a] = "new" => asks[a] = "new")
                           /\ asks[a] # "new" => asks'[a] # "new"
    BY <1>1, <1>2
  <1>4. GivenInv(given, asks', late)
    BY <1>2, <1>3 DEF GivenInv
  <1>5. PICK x : x = [IdleWorker EXCEPT !.pc = "recover"]
    OBVIOUS
  <1>6. x.pc = "recover" /\ x \in Workers
    BY <1>5 DEF IdleWorker, Workers, Walks, Statuses
  <1>7. WorkerInv(x, stored, given, missed)
    BY <1>6 DEF WorkerInv, Walks
  <1>8. EffectsInv(stored, EmptyStore, given, carried, x)
    <2>1. ASSUME NEW a \in Asks, ~SharedTask(given, a)
          PROVE  Begun(carried, x, a) <= (IF Ran(stored, given, a) THEN 1 ELSE 0)
                                           + (IF RanBeside(EmptyStore, given, a) THEN 1 ELSE 0)
      <3>1. Begun(carried, worker, a) <= (IF Ran(stored, given, a) THEN 1 ELSE 0)
                                           + (IF RanBeside(memory, given, a) THEN 1 ELSE 0)
        BY <1>2, <2>1 DEF EffectsInv
      <3>2. RanBeside(memory, given, a) => RanBeside(EmptyStore, given, a)
        <4>1. RanBeside(EmptyStore, given, a) \/ \A g \in given[a] : g[1] # "memory"
          BY EmptyFacts
        <4>. QED  BY <4>1 DEF RanBeside
      <3>3. Begun(carried, worker, a) \in Nat /\ Begun(carried, worker, a) >= carried[a]
            /\ carried[a] \in Nat
        BY <1>2, BegunIs
      <3>4. Begun(carried, x, a) = carried[a]
        BY <1>6, <3>3 DEF Begun
      <3>. QED  BY <3>1, <3>2, <3>3, <3>4
    <2>. QED  BY <2>1 DEF EffectsInv
  <1>9. EmptyStore \in Tables /\ RowsInv(EmptyStore, "memory", given)
    BY EmptyFacts
  <1>10. /\ stored' = stored /\ memory' = EmptyStore /\ late' = late /\ carried' = carried
         /\ given' = given /\ missed' = missed /\ worker' = x /\ seen' \in Nat
    BY <1>1, <1>5
  <1>11. DegradedTypes'
    BY <1>2, <1>3, <1>6, <1>9, <1>10 DEF DegradedTypes
  <1>. QED  BY <1>2, <1>4, <1>7, <1>8, <1>9, <1>10, <1>11 DEF DegradedInv

LEMMA DegradedBegins == DegradedInit => DegradedInv
  <1>1. SUFFICES ASSUME DegradedInit PROVE DegradedInv
    OBVIOUS
  <1>2. /\ stored = EmptyStore /\ memory = EmptyStore /\ seen = 0 /\ late = NoWrite
        /\ worker = IdleWorker /\ carried = [a \in Asks |-> 0] /\ given = [a \in Asks |-> {}]
        /\ \E b \in Budgets : asks = [a \in Asks |-> IF a \in b.asks THEN "new" ELSE "done"]
    BY <1>1 DEF DegradedInit
  <1>3. asks \in [Asks -> {"new", "ceiling", "done"}] /\ \A a \in Asks : asks[a] # "ceiling"
    BY <1>2
  <1>4. NoWrite \in WriteRecords /\ NoWrite.op = "none"
    BY DEF NoWrite, WriteRecords, Statuses
  <1>5. IdleWorker \in Workers /\ IdleWorker.pc = "idle"
    BY DEF IdleWorker, Workers, Statuses
  <1>6. carried \in [Asks -> Nat] /\ given \in Givens
        /\ \A a \in Asks : carried[a] = 0 /\ given[a] = {}
    BY <1>2 DEF Givens
  <1>7. DegradedTypes
    BY <1>2, <1>3, <1>4, <1>5, <1>6, EmptyFacts DEF DegradedTypes
  <1>8. RowsInv(stored, "durable", given) /\ RowsInv(memory, "memory", given)
    BY <1>2, EmptyFacts
  <1>9. GivenInv(given, asks, late)
    BY <1>2, <1>3, <1>4, <1>6, FS_EmptySet DEF GivenInv
  <1>10. EffectsInv(stored, memory, given, carried, worker)
    <2>1. \A a \in Asks : Begun(carried, worker, a) = 0
      BY <1>2, <1>5, <1>6 DEF Begun
    <2>. QED  BY <2>1 DEF EffectsInv
  <1>11. WorkerInv(worker, stored, given, missed) /\ LateInv(late, stored, given, missed)
    BY <1>2, <1>4, <1>5 DEF WorkerInv, LateInv, Walks
  <1>12. DueInv(stored, given, missed)
    BY <1>2, EmptyFacts DEF DueInv
  <1>. QED  BY <1>7, <1>8, <1>9, <1>10, <1>11, <1>12 DEF DegradedInv

LEMMA DegradedSteps == DegradedInv /\ [DegradedNext]_degradedVars => DegradedInv'
  <1>1. SUFFICES ASSUME DegradedInv, [DegradedNext]_degradedVars PROVE DegradedInv'
    OBVIOUS
  <1>2. CASE UNCHANGED degradedVars \/ LateIsLost \/ StoreGoes \/ StoreReturns
    BY <1>1, <1>2, StoreKept
  <1>3. CASE \E a \in Asks : AskInsert(a) \/ AskFallback(a)
    BY <1>1, <1>3, AskInsertKept, AskFallbackKept
  <1>4. CASE \E id \in TaskIds : OwnerEdit(id)
    BY <1>1, <1>4, EditKept
  <1>5. CASE LateLands \/ Restart
    BY <1>1, <1>5, LateLandsKept, RestartKept
  <1>6. CASE Work
    <2>1. CASE \E id \in TaskIds : WorkDue(id)
      BY <1>1, <2>1, DueKept
    <2>2. CASE \E key \in Keys : WorkRetry(key) \/ RecoverOne(key)
      BY <1>1, <2>2, RetryKept, RecoverOneKept
    <2>3. CASE WorkTask \/ WorkOccurrence \/ WorkClaimRead \/ WorkSettleRead \/ WorkAdvanceRead
      BY <1>1, <2>3, TaskKept, OccurrenceKept, ClaimReadKept, SettleReadKept, AdvanceReadKept
    <2>4. CASE WorkInsert \/ WorkClaim \/ WorkAct \/ WorkSettle \/ WorkAdvance
      BY <1>1, <2>4, InsertKept, ClaimKept, ActKept, SettleKept, AdvanceKept
    <2>5. CASE RecoverList \/ RecoverDone
      BY <1>1, <2>5, RecoverListKept, RecoverDoneKept
    <2>. QED  BY <1>6, <2>1, <2>2, <2>3, <2>4, <2>5 DEF Work
  <1>. QED  BY <1>1, <1>2, <1>3, <1>4, <1>5, <1>6 DEF DegradedNext

-----------------------------------------------------------------------------
(* What is carried out, and what is consumed. *)

LEMMA HowMany ==
  ASSUME NEW S, IsFiniteSet(S), NEW x \in S
  PROVE  /\ Cardinality(S) \in Nat /\ Cardinality(S) >= 1
         /\ \A y \in S : y # x => Cardinality(S) >= 2
  <1>1. Cardinality(S) \in Nat
    BY FS_CardinalityType
  <1>2. IsFiniteSet({x}) /\ Cardinality({x}) = 1
    BY FS_Singleton
  <1>3. {x} \subseteq S => Cardinality({x}) <= Cardinality(S)
    BY FS_Subset
  <1>4. ASSUME NEW y \in S, y # x PROVE Cardinality(S) >= 2
    <2>1. Cardinality({x} \union {y}) = 2
      BY <1>2, <1>4, FS_AddElement
    <2>2. {x} \union {y} \subseteq S
      OBVIOUS
    <2>3. Cardinality({x} \union {y}) <= Cardinality(S)
      BY <2>2, FS_Subset
    <2>. QED  BY <1>1, <2>1, <2>3
  <1>. QED  BY <1>1, <1>2, <1>3, <1>4

(* For any asks, outages, late writes, restarts and edits: a task whose id is its own  *)
(* is carried out at most once for every store that was given it.                      *)
THEOREM TasksRunOncePerStore == DegradedSpec => []EffectsFollowRows
  <1>1. DegradedInv => EffectsFollowRows
    <2>1. SUFFICES ASSUME DegradedInv, NEW a \in Asks, ~SharesAnId(a)
                   PROVE  carried[a] <= Cardinality(given[a])
      BY DEF EffectsFollowRows
    <2>2. ~SharedTask(given, a)
      BY <2>1 DEF SharedTask, SharesAnId
    <2>3. Begun(carried, worker, a) <= (IF Ran(stored, given, a) THEN 1 ELSE 0)
                                         + (IF RanBeside(memory, given, a) THEN 1 ELSE 0)
      BY <2>1, <2>2 DEF DegradedInv, EffectsInv
    <2>4. carried[a] \in Nat /\ Begun(carried, worker, a) \in Nat /\ Begun(carried, worker, a) >= carried[a]
      BY <2>1, StoreFacts, BegunIs
    <2>5. IsFiniteSet(given[a])
      BY <2>1 DEF DegradedInv, GivenInv
    <2>6. Cardinality(given[a]) \in Nat
      BY <2>5, FS_CardinalityType
    <2>7. Ran(stored, given, a) => \E g \in given[a] : g[1] = "durable"
      BY DEF Ran
    <2>8. RanBeside(memory, given, a) => \E g \in given[a] : g[1] = "memory"
      BY DEF RanBeside
    <2>9. Ran(stored, given, a) \/ RanBeside(memory, given, a) => Cardinality(given[a]) >= 1
      BY <2>5, <2>7, <2>8, HowMany
    <2>10. Ran(stored, given, a) /\ RanBeside(memory, given, a) => Cardinality(given[a]) >= 2
      <3>1. SUFFICES ASSUME NEW g \in given[a], g[1] = "durable", NEW h \in given[a], h[1] = "memory"
                     PROVE  Cardinality(given[a]) >= 2
        BY <2>7, <2>8
      <3>2. h # g
        BY <3>1
      <3>. QED  BY <2>5, <3>2, HowMany
    <2>. QED  BY <2>3, <2>4, <2>6, <2>9, <2>10
  <1>. QED  BY <1>1, DegradedBegins, DegradedSteps, PTL DEF DegradedSpec

(* A boundary that the durable store has consumed was started, unless its claim was     *)
(* answered by the fallback, its id is shared or its task lives in both stores.         *)
THEOREM BoundariesWereServed == DegradedSpec => []ConsumedTasksWereServed
  <1>1. DegradedInv => ConsumedTasksWereServed
    <2>1. SUFFICES ASSUME DegradedInv, NEW id \in TaskIds, stored.tasks[id] # NoTask, ~stored.tasks[id].due,
                          stored.occs[<<id, stored.tasks[id].ask>>] \in {"none", "claimed"}
                   PROVE  \/ <<id, stored.tasks[id].ask>> \in missed
                          \/ SharesAnId(stored.tasks[id].ask)
                          \/ Cardinality(given[stored.tasks[id].ask]) > 1
      BY DEF ConsumedTasksWereServed
    <2>2. PICK a : a = stored.tasks[id].ask
      OBVIOUS
    <2>3. a \in Asks /\ <<"durable", id>> \in given[a]
      BY <2>1, <2>2 DEF DegradedInv, RowsInv
    <2>4. Excused(given, missed, id, a)
      BY <2>1, <2>2 DEF DegradedInv, DueInv, Served
    <2>5. CASE SharedTask(given, a)
      BY <2>2, <2>5 DEF SharedTask, SharesAnId
    <2>6. CASE \E g \in given[a] : g[1] = "memory"
      <3>1. PICK g \in given[a] : g[1] = "memory"
        BY <2>6
      <3>2. PICK h : h = <<"durable", id>>
        OBVIOUS
      <3>3. h \in given[a] /\ h[1] = "durable"
        BY <2>3, <3>2
      <3>4. h # g
        BY <3>1, <3>3
      <3>5. IsFiniteSet(given[a])
        BY <2>1, <2>3 DEF DegradedInv, GivenInv
      <3>6. Cardinality(given[a]) \in Nat /\ Cardinality(given[a]) >= 2
        BY <3>3, <3>4, <3>5, HowMany
      <3>. QED  BY <2>2, <3>6
    <2>. QED  BY <2>2, <2>4, <2>5, <2>6 DEF Excused
  <1>. QED  BY <1>1, DegradedBegins, DegradedSteps, PTL DEF DegradedSpec

-----------------------------------------------------------------------------
(* The ids and the versions are bounded by what is asked for.  A store issues an id   *)
(* to each ask at most once, and the fallback counts on from the ids it knows of, so   *)
(* ids are counted by the asks that hold them; a row counts a version for each edit     *)
(* and one for its boundary, which is consumed under the version it was read due with.  *)
Budgeted == [asks: SUBSET Asks, outages: Nat, late: Nat, restarts: Nat, edits: 0 .. MaxEdits]
Nets == [up: BOOLEAN, outages: Nat, late: Nat, restarts: Nat, edits: 0 .. MaxEdits]
RowsBounded(st, e) ==
    \A id \in TaskIds : st.tasks[id].version + e <= MaxEdits + (IF st.tasks[id].due THEN 1 ELSE 2)
VersionBounded(q, e) == q.version + e <= MaxEdits + 1

GivenBy(gv, name) == {a \in Asks : \E g \in gv[a] : g[1] = name}
GivenCounts(st, mem, sn, gv) ==
    /\ st.last = Cardinality(GivenBy(gv, "durable"))
    /\ mem.last <= st.last + Cardinality(GivenBy(gv, "memory"))
    /\ sn <= st.last
    /\ \A a \in Asks : \A g \in gv[a] : g[1] = "durable" => g[2] <= st.last

BoundsInv ==
    /\ net \in Nets
    /\ RowsBounded(stored, net.edits) /\ RowsBounded(memory, net.edits)
    /\ VersionBounded(worker, net.edits) /\ VersionBounded(late, net.edits)
    /\ GivenCounts(stored, memory, seen, given)
StoreInv == DegradedInv /\ BoundsInv

LEMMA GivenByFacts ==
  ASSUME NEW gv, NEW name
  PROVE  /\ IsFiniteSet(GivenBy(gv, name)) /\ IsFiniteSet(Asks)
         /\ Cardinality(GivenBy(gv, name)) \in 0 .. Cardinality(Asks) /\ Cardinality(Asks) \in Nat
  <1>1. IsFiniteSet(Asks) /\ GivenBy(gv, name) \subseteq Asks
    BY DegradedAssumption DEF GivenBy
  <1>2. IsFiniteSet(GivenBy(gv, name)) /\ Cardinality(GivenBy(gv, name)) <= Cardinality(Asks)
    BY <1>1, FS_Subset
  <1>. QED  BY <1>1, <1>2, FS_CardinalityType

Gave(gv, a, name, id) == [gv EXCEPT ![a] = @ \union {<<name, id>>}]
LEMMA OneMoreAsk ==
  ASSUME NEW gv \in Givens, NEW a \in Asks, NEW name, NEW other, NEW id, other # name,
         \A g \in gv[a] : g[1] # name
  PROVE  /\ Cardinality(GivenBy(Gave(gv, a, name, id), name)) = Cardinality(GivenBy(gv, name)) + 1
         /\ GivenBy(Gave(gv, a, name, id), other) = GivenBy(gv, other)
  <1>. DEFINE gv2 == Gave(gv, a, name, id)
  <1>1. \A b \in Asks : gv2[b] = IF b = a THEN gv[a] \union {<<name, id>>} ELSE gv[b]
    BY DEF Givens, Gave
  <1>. HIDE DEF gv2
  <1>2. a \notin GivenBy(gv, name)
    BY DEF GivenBy
  <1>3. GivenBy(gv2, name) = GivenBy(gv, name) \union {a}
    <2>1. <<name, id>> \in gv2[a] /\ <<name, id>>[1] = name
      BY <1>1
    <2>. QED  BY <1>1, <2>1 DEF GivenBy
  <1>4. Cardinality(GivenBy(gv, name) \union {a}) = Cardinality(GivenBy(gv, name)) + 1
    BY <1>2, GivenByFacts, FS_AddElement
  <1>5. GivenBy(gv2, other) = GivenBy(gv, other)
    <2>1. \A b \in Asks : \A g : g[1] = other => (g \in gv2[b] <=> g \in gv[b])
      BY <1>1
    <2>. QED  BY <2>1 DEF GivenBy
  <1>. QED  BY <1>1, <1>3, <1>4, <1>5 DEF gv2

(* What steps do to the ids. *)
LEMMA CountsStay ==
  ASSUME StoreInv, given' = given, stored'.last = stored.last, memory'.last \in {memory.last, 0},
         seen' \in {seen} \union 0 .. stored.last
  PROVE  GivenCounts(stored, memory, seen, given)'
  <1>1. /\ stored.last \in Nat /\ Cardinality(GivenBy(given, "memory")) \in Nat
        /\ GivenCounts(stored, memory, seen, given)
    BY GivenByFacts DEF StoreInv, BoundsInv, DegradedInv, DegradedTypes, Tables
  <1>2. GivenBy(given', "durable") = GivenBy(given, "durable") /\ GivenBy(given', "memory") = GivenBy(given, "memory")
    OBVIOUS
  <1>. QED  BY <1>1, <1>2 DEF GivenCounts

LEMMA StoreIssues ==
  ASSUME StoreInv, NEW a \in Asks, \A g \in given[a] : g[1] # "durable",
         given' = [given EXCEPT ![a] = @ \union {<<"durable", stored.last + 1>>}],
         stored'.last = stored.last + 1, memory' = memory, seen' \in {seen, Larger(seen, stored.last + 1)}
  PROVE  GivenCounts(stored, memory, seen, given)'
  <1>1. /\ stored.last \in Nat /\ memory.last \in Nat /\ seen \in Nat
        /\ GivenCounts(stored, memory, seen, given) /\ given \in Givens
    BY DEF StoreInv, BoundsInv, DegradedInv, DegradedTypes, Tables
  <1>2. /\ Cardinality(GivenBy(given', "durable")) = Cardinality(GivenBy(given, "durable")) + 1
        /\ GivenBy(given', "memory") = GivenBy(given, "memory")
        /\ \A b \in Asks : given'[b] = IF b = a THEN given[a] \union {<<"durable", stored.last + 1>>} ELSE given[b]
    <2>. "durable" # "memory"
      OBVIOUS
    <2>1. given' = Gave(given, a, "durable", stored.last + 1)
      BY DEF Gave
    <2>2. /\ Cardinality(GivenBy(Gave(given, a, "durable", stored.last + 1), "durable"))
                = Cardinality(GivenBy(given, "durable")) + 1
          /\ GivenBy(Gave(given, a, "durable", stored.last + 1), "memory") = GivenBy(given, "memory")
      BY <1>1, OneMoreAsk
    <2>3. \A b \in Asks : given'[b] = IF b = a THEN given[a] \union {<<"durable", stored.last + 1>>} ELSE given[b]
      BY <1>1 DEF Givens
    <2>. QED  BY <2>1, <2>2, <2>3
  <1>3. Cardinality(GivenBy(given, "memory")) \in Nat /\ Cardinality(GivenBy(given, "durable")) \in Nat
    BY GivenByFacts
  <1>4. seen' <= stored'.last
    BY <1>1 DEF Larger, GivenCounts
  <1>5. ASSUME NEW b \in Asks, NEW g \in given'[b], g[1] = "durable"  PROVE g[2] <= stored'.last
    <2>1. g \in given[b] \/ g = <<"durable", stored.last + 1>>
      BY <1>2
    <2>2. CASE g \in given[b]
      <3>1. g[2] <= stored.last /\ g[2] \in Nat
        BY <1>1, <1>5, <2>2 DEF GivenCounts, Givens
      <3>. QED  BY <1>1, <3>1
    <2>. QED  BY <1>1, <2>1, <2>2
  <1>. QED  BY <1>1, <1>2, <1>3, <1>4, <1>5 DEF GivenCounts

LEMMA FallbackIssues ==
  ASSUME StoreInv, NEW a \in Asks, AskFallback(a)
  PROVE  GivenCounts(stored, memory, seen, given)'
  <1>1. /\ stored.last \in Nat /\ memory.last \in Nat /\ seen \in Nat /\ memory \in Tables
        /\ GivenCounts(stored, memory, seen, given) /\ given \in Givens
    BY DEF StoreInv, BoundsInv, DegradedInv, DegradedTypes, Tables
  <1>2. PICK id : id = Larger(memory.last, MaxDurable) + 1
    OBVIOUS
  <1>3. /\ stored' = stored /\ seen' = MaxDurable /\ memory' = Inserted(memory, id, a)
        /\ given' = [given EXCEPT ![a] = @ \union {<<"memory", id>>}] /\ asks[a] = "ceiling"
    BY <1>2 DEF AskFallback
  <1>4. MaxDurable \in 0 .. stored.last
    BY <1>1 DEF MaxDurable, Larger, GivenCounts
  <1>5. id \in Nat /\ id <= stored.last + Cardinality(GivenBy(given, "memory")) + 1
    <2>1. Cardinality(GivenBy(given, "memory")) \in Nat
      BY GivenByFacts
    <2>. QED  BY <1>1, <1>2, <1>4, <2>1 DEF Larger, GivenCounts
  <1>6. memory'.last = id
    BY <1>1, <1>3, <1>5, InsertedFacts
  <1>7. \A g \in given[a] : g[1] # "memory"
    BY <1>3 DEF StoreInv, DegradedInv, GivenInv
  <1>8. /\ Cardinality(GivenBy(given', "memory")) = Cardinality(GivenBy(given, "memory")) + 1
        /\ GivenBy(given', "durable") = GivenBy(given, "durable")
        /\ \A b \in Asks : given'[b] = IF b = a THEN given[a] \union {<<"memory", id>>} ELSE given[b]
    <2>. "memory" # "durable"
      OBVIOUS
    <2>1. given' = Gave(given, a, "memory", id)
      BY <1>3 DEF Gave
    <2>2. /\ Cardinality(GivenBy(Gave(given, a, "memory", id), "memory")) = Cardinality(GivenBy(given, "memory")) + 1
          /\ GivenBy(Gave(given, a, "memory", id), "durable") = GivenBy(given, "durable")
      BY <1>1, <1>7, OneMoreAsk
    <2>3. \A b \in Asks : given'[b] = IF b = a THEN given[a] \union {<<"memory", id>>} ELSE given[b]
      BY <1>1, <1>3 DEF Givens
    <2>. QED  BY <2>1, <2>2, <2>3
  <1>9. Cardinality(GivenBy(given, "memory")) \in Nat
    BY GivenByFacts
  <1>10. ASSUME NEW b \in Asks, NEW g \in given'[b], g[1] = "durable"  PROVE g[2] <= stored.last
    <2>1. g \in given[b]
      BY <1>8, <1>10
    <2>. QED  BY <1>1, <1>10, <2>1 DEF GivenCounts
  <1>. QED  BY <1>1, <1>3, <1>4, <1>5, <1>6, <1>8, <1>9, <1>10 DEF GivenCounts

(* What the writes do to the versions. *)
LEMMA InsertedIsBounded ==
  ASSUME NEW st \in Tables, NEW id \in Nat, NEW a \in Asks, NEW e \in 0 .. MaxEdits, RowsBounded(st, e)
  PROVE  RowsBounded(Inserted(st, id, a), e)
  <1>1. \A i \in TaskIds : Inserted(st, id, a).tasks[i] = IF i = id THEN NewTask(a) ELSE st.tasks[i]
    BY InsertedFacts
  <1>2. NewTask(a).version = 1 /\ NewTask(a).due
    BY DEF NewTask
  <1>3. MaxEdits \in Nat
    BY DegradedAssumption
  <1>. QED  BY <1>1, <1>2, <1>3 DEF RowsBounded

LEMMA ConsumedIsBounded ==
  ASSUME NEW st \in Tables, NEW id \in TaskIds, NEW e \in 0 .. MaxEdits, RowsBounded(st, e),
         st.tasks[id].version + e <= MaxEdits + 1
  PROVE  RowsBounded(Consumed(st, id), e)
  <1>1. /\ Consumed(st, id).tasks[id].version = st.tasks[id].version + 1
        /\ ~Consumed(st, id).tasks[id].due
        /\ \A i \in TaskIds \ {id} : Consumed(st, id).tasks[i] = st.tasks[i]
    BY ConsumedFacts
  <1>2. st.tasks[id].version \in Nat /\ MaxEdits \in Nat
    BY DegradedAssumption DEF Tables, TaskRows
  <1>. QED  BY <1>1, <1>2 DEF RowsBounded

LEMMA LandedIsBounded ==
  ASSUME DegradedInv, NEW w \in WriteRecords, LateInv(w, stored, given, missed),
         w.op = "task" => w.ask \in Asks,
         NEW e \in 0 .. MaxEdits, RowsBounded(stored, e), VersionBounded(w, e)
  PROVE  /\ RowsBounded(Landed(w), e)
         /\ Landed(w).last = IF w.op = "task" THEN stored.last + 1 ELSE stored.last
  <1>1. stored \in Tables /\ stored.last + 1 \in Nat /\ w.to \in Statuses
    BY DEF DegradedInv, DegradedTypes, Tables, WriteRecords
  <1>2. CASE w.op = "task"
    <2>1. Landed(w) = Inserted(stored, stored.last + 1, w.ask)
      BY <1>2 DEF Landed
    <2>. QED  BY <1>1, <1>2, <2>1, InsertedFacts, InsertedIsBounded
  <1>3. CASE w.op \in {"occurrence", "move"}
    <2>1. w.id \in TaskIds /\ w.ask \in Asks
      BY <1>3 DEF LateInv
    <2>2. \A to \in Statuses : /\ Moved(stored, <<w.id, w.ask>>, to).tasks = stored.tasks
                               /\ Moved(stored, <<w.id, w.ask>>, to).last = stored.last
      BY <1>1, <2>1, MovedFacts
    <2>3. /\ Landed(w).tasks = stored.tasks /\ Landed(w).last = stored.last
      BY <1>1, <1>3, <2>2 DEF Landed, Statuses
    <2>. QED  BY <1>3, <2>3 DEF RowsBounded
  <1>4. CASE w.op = "advance"
    <2>1. w.id \in TaskIds
      BY <1>4 DEF LateInv
    <2>2. CASE stored.tasks[w.id].version = w.version
      <3>1. Landed(w) = Consumed(stored, w.id)
        BY <1>4, <2>2 DEF Landed
      <3>2. stored.tasks[w.id].version + e <= MaxEdits + 1
        BY <2>2 DEF VersionBounded
      <3>. QED  BY <1>1, <1>4, <2>1, <3>1, <3>2, ConsumedFacts, ConsumedIsBounded
    <2>3. CASE stored.tasks[w.id].version # w.version
      BY <1>4, <2>3 DEF Landed
    <2>. QED  BY <2>2, <2>3
  <1>5. CASE w.op = "none"
    BY <1>5 DEF Landed
  <1>. QED  BY <1>2, <1>3, <1>4, <1>5 DEF WriteRecords

(* A write on the way: answered, given up, or without a store to reach. *)
LEMMA WriteIsBounded ==
  ASSUME StoreInv, NEW w \in WriteRecords, LateInv(w, stored, given, missed),
         w.op = "task" => w.ask \in Asks, VersionBounded(w, net.edits),
         Answered(w) \/ GivenUp(w) \/ Unreachable
  PROVE  /\ net' \in Nets /\ net'.edits = net.edits
         /\ RowsBounded(stored', net.edits) /\ VersionBounded(late', net.edits)
         /\ stored'.last = IF Answered(w) /\ w.op = "task" THEN stored.last + 1 ELSE stored.last
  <1>1. /\ net \in Nets /\ RowsBounded(stored, net.edits) /\ VersionBounded(late, net.edits)
        /\ net.edits \in 0 .. MaxEdits /\ DegradedInv /\ stored.last \in Nat
    BY DEF StoreInv, BoundsInv, Nets, DegradedInv, DegradedTypes, Tables
  <1>2. CASE Answered(w)
    <2>1. stored' = Landed(w) /\ net' = net /\ late' = late
      BY <1>2 DEF Answered
    <2>. QED  BY <1>1, <1>2, <2>1, LandedIsBounded
  <1>3. CASE ~Answered(w) /\ GivenUp(w)
    <2>1. stored' = stored /\ late' = w /\ net.late > 0 /\ net' = [net EXCEPT !.late = @ - 1]
      BY <1>3 DEF GivenUp
    <2>2. net' \in Nets /\ net'.edits = net.edits
      BY <1>1, <2>1 DEF Nets
    <2>. QED  BY <1>1, <1>3, <2>1, <2>2
  <1>4. CASE ~Answered(w) /\ Unreachable
    BY <1>1, <1>4 DEF Unreachable
  <1>. QED  BY <1>2, <1>3, <1>4

(* The scheduler keeps the version it listed, or forgets it. *)
WorkerAsks(from) == worker' = [worker EXCEPT !.pc = "claim", !.from = from]
WorkerLists(todo2) == worker' = [worker EXCEPT !.pc = "resolve", !.todo = todo2]
WorkerResolves(todo2) == worker' = [worker EXCEPT !.todo = todo2]
WorkerRetries(id, a) == worker' = [IdleWorker EXCEPT !.pc = "claim read", !.id = id, !.ask = a, !.retry = TRUE]
WorkerRecovers == worker' = [IdleWorker EXCEPT !.pc = "recover"]
KeepsVersion == worker'.version \in {0, worker.version}
LEMMA WorkersKeepVersion ==
  ASSUME worker \in Workers
  PROVE  /\ worker' = worker => KeepsVersion
         /\ Rest => KeepsVersion
         /\ AfterRun => KeepsVersion
         /\ \A pc : Goto(pc) => KeepsVersion
         /\ \A from : WorkerAsks(from) => KeepsVersion
         /\ \A todo2 : WorkerLists(todo2) => KeepsVersion
         /\ \A todo2 : WorkerResolves(todo2) => KeepsVersion
         /\ WorkerRecovers => KeepsVersion
         /\ \A id, a : WorkerRetries(id, a) => KeepsVersion
  <1>1. \A pc : Goto(pc) => KeepsVersion
    BY DEF Goto, Workers, KeepsVersion
  <1>2. Rest => KeepsVersion
    BY DEF Rest, IdleWorker, KeepsVersion
  <1>3. AfterRun => KeepsVersion
    BY <1>1, <1>2 DEF AfterRun
  <1>4. \A from : WorkerAsks(from) => KeepsVersion
    BY DEF WorkerAsks, Workers, KeepsVersion
  <1>5. \A todo2 : WorkerLists(todo2) => KeepsVersion
    BY DEF WorkerLists, Workers, KeepsVersion
  <1>6. \A todo2 : WorkerResolves(todo2) => KeepsVersion
    BY DEF WorkerResolves, Workers, KeepsVersion
  <1>7. WorkerRecovers => KeepsVersion
    BY DEF WorkerRecovers, IdleWorker, KeepsVersion
  <1>8. \A id, a : WorkerRetries(id, a) => KeepsVersion
    BY DEF WorkerRetries, IdleWorker, KeepsVersion
  <1>9. worker' = worker => KeepsVersion
    BY DEF KeepsVersion
  <1>. QED  BY <1>1, <1>2, <1>3, <1>4, <1>5, <1>6, <1>7, <1>8, <1>9

LEMMA VersionsStay ==
  ASSUME net \in Nets, VersionBounded(worker, net.edits), KeepsVersion
  PROVE  VersionBounded(worker', net.edits)
  <1>1. net.edits \in Nat /\ net.edits <= MaxEdits /\ MaxEdits \in Nat
    BY DegradedAssumption DEF Nets
  <1>. QED  BY <1>1 DEF VersionBounded, KeepsVersion

LEMMA SeenStays ==
  ASSUME StoreInv, NEW id \in TaskIds
  PROVE  Observed(id) \in 0 .. stored.last
  <1>1. stored.last \in Nat /\ seen \in 0 .. stored.last /\ TaskIds \subseteq Nat
    BY DEF StoreInv, BoundsInv, GivenCounts, DegradedInv, DegradedTypes, Tables, TaskIds
  <1>2. stored.tasks[id] # NoTask => id <= stored.last
    <2>. SUFFICES ASSUME stored.tasks[id] # NoTask PROVE id <= stored.last
      OBVIOUS
    <2>1. PICK a \in Asks : <<"durable", id>> \in given[a]
      BY DEF StoreInv, DegradedInv, RowsInv
    <2>2. PICK g : g = <<"durable", id>>
      OBVIOUS
    <2>3. g \in given[a] /\ g[1] = "durable" /\ g[2] = id
      BY <2>1, <2>2
    <2>. QED  BY <2>3 DEF StoreInv, BoundsInv, GivenCounts
  <1>. QED  BY <1>1, <1>2 DEF Observed, Larger

(* What is left of the bounds when ids and versions are as they were. *)
LEMMA BoundsFacts ==
  ASSUME StoreInv
  PROVE  /\ DegradedInv /\ BoundsInv /\ net \in Nets /\ net.edits \in 0 .. MaxEdits /\ MaxEdits \in Nat
         /\ RowsBounded(stored, net.edits) /\ RowsBounded(memory, net.edits)
         /\ VersionBounded(worker, net.edits) /\ VersionBounded(late, net.edits)
         /\ stored \in Tables /\ memory \in Tables /\ worker \in Workers /\ late \in WriteRecords
         /\ stored.last \in Nat /\ memory.last \in Nat /\ seen \in Nat
         /\ WorkerInv(worker, stored, given, missed) /\ LateInv(late, stored, given, missed)
         /\ GivenInv(given, asks, late)
  BY DegradedAssumption DEF StoreInv, BoundsInv, Nets, DegradedInv, DegradedTypes, Tables

LEMMA FewerEdits ==
  ASSUME NEW e \in Nat, NEW f \in 0 .. e
  PROVE  /\ \A st \in Tables : RowsBounded(st, e) => RowsBounded(st, f)
         /\ \A q : q.version \in Nat /\ VersionBounded(q, e) => VersionBounded(q, f)
  <1>1. MaxEdits \in Nat
    BY DegradedAssumption
  <1>2. ASSUME NEW st \in Tables, RowsBounded(st, e)  PROVE RowsBounded(st, f)
    <2>. SUFFICES ASSUME NEW id \in TaskIds
                  PROVE  st.tasks[id].version + f <= MaxEdits + (IF st.tasks[id].due THEN 1 ELSE 2)
      BY DEF RowsBounded
    <2>1. st.tasks[id].version \in Nat
      BY DEF Tables, TaskRows
    <2>2. st.tasks[id].version + e <= MaxEdits + (IF st.tasks[id].due THEN 1 ELSE 2)
      BY <1>2 DEF RowsBounded
    <2>. QED  BY <1>1, <2>1, <2>2
  <1>3. ASSUME NEW q, q.version \in Nat, VersionBounded(q, e)  PROVE VersionBounded(q, f)
    BY <1>1, <1>3 DEF VersionBounded
  <1>. QED  BY <1>2, <1>3

LEMMA NothingIsBounded ==
  ASSUME NEW e \in 0 .. MaxEdits
  PROVE  VersionBounded(NoWrite, e) /\ VersionBounded(IdleWorker, e) /\ RowsBounded(EmptyStore, e)
  <1>1. MaxEdits \in Nat /\ NoWrite.version = 0 /\ IdleWorker.version = 0 /\ NoTask.version = 0
    BY DegradedAssumption DEF NoWrite, IdleWorker, NoTask
  <1>2. \A id \in TaskIds : EmptyStore.tasks[id] = NoTask
    BY EmptyFacts
  <1>. QED  BY <1>1, <1>2 DEF VersionBounded, RowsBounded

LEMMA QuietBounds ==
  ASSUME StoreInv, UNCHANGED <<net, late, given>>, KeepsVersion,
         stored'.tasks = stored.tasks, stored'.last = stored.last, memory' = memory,
         seen' \in {seen} \union 0 .. stored.last
  PROVE  BoundsInv'
  <1>1. GivenCounts(stored, memory, seen, given)'
    BY CountsStay
  <1>2. VersionBounded(worker', net.edits)
    BY BoundsFacts, VersionsStay
  <1>3. RowsBounded(stored', net.edits)
    BY BoundsFacts DEF RowsBounded
  <1>. QED  BY <1>1, <1>2, <1>3, BoundsFacts DEF BoundsInv

LEMMA WritingBounds ==
  ASSUME StoreInv, NEW w \in WriteRecords, w.op # "task", LateInv(w, stored, given, missed),
         VersionBounded(w, net.edits), Answered(w) \/ GivenUp(w) \/ Unreachable,
         UNCHANGED <<seen, given>>, KeepsVersion,
         RowsBounded(memory', net.edits), memory'.last = memory.last
  PROVE  BoundsInv'
  <1>1. /\ net' \in Nets /\ net'.edits = net.edits
        /\ RowsBounded(stored', net.edits) /\ VersionBounded(late', net.edits)
        /\ stored'.last = stored.last
    BY WriteIsBounded
  <1>2. GivenCounts(stored, memory, seen, given)'
    BY <1>1, CountsStay
  <1>3. VersionBounded(worker', net.edits)
    BY BoundsFacts, VersionsStay
  <1>. QED  BY <1>1, <1>2, <1>3, BoundsFacts DEF BoundsInv

\* Where the scheduler is at work, its write is bounded as it is.
LEMMA SchedulersWrite ==
  ASSUME StoreInv, worker.pc \in Walks, NEW w, w.version \in {0, worker.version}
  PROVE  /\ VersionBounded(w, net.edits)
         /\ worker.id \in TaskIds /\ worker.ask \in Asks /\ Known(given, worker.ask, worker.id)
  <1>1. VersionBounded(w, net.edits)
    BY BoundsFacts DEF VersionBounded
  <1>. QED  BY <1>1, BoundsFacts DEF WorkerInv

LEMMA MemoryMoves ==
  ASSUME StoreInv, worker.pc \in Walks, NEW to \in Statuses, memory' \in {memory, Moved(memory, Key, to)}
  PROVE  RowsBounded(memory', net.edits) /\ memory'.last = memory.last
  <1>1. memory'.tasks = memory.tasks /\ memory'.last = memory.last
    <2>1. worker.id \in TaskIds /\ worker.ask \in Asks
      BY BoundsFacts DEF WorkerInv
    <2>2. /\ Moved(memory, <<worker.id, worker.ask>>, to).tasks = memory.tasks
          /\ Moved(memory, <<worker.id, worker.ask>>, to).last = memory.last
      BY <2>1, BoundsFacts, MovedFacts
    <2>. QED  BY <2>2 DEF Key
  <1>. QED  BY <1>1, BoundsFacts DEF RowsBounded

(* The scheduler's steps. *)
LEMMA InsertBounded == ASSUME StoreInv, WorkInsert PROVE BoundsInv'
  <1>1. PICK w : w = [NoWrite EXCEPT !.op = "occurrence", !.id = worker.id, !.ask = worker.ask]
    OBVIOUS
  <1>2. /\ worker.pc = "insert" /\ UNCHANGED <<seen, given>>
        /\ \/ Answered(w) /\ Goto("claim read") /\ UNCHANGED memory
           \/ /\ GivenUp(w) \/ Unreachable \/ (net.up /\ Landed(w) = stored /\ UNCHANGED <<stored, net, late>>)
              /\ InsertInMemory
    BY <1>1 DEF WorkInsert
  <1>3. worker.pc \in Walks
    BY <1>2 DEF Walks
  <1>4. Answered(w) \/ GivenUp(w) \/ Unreachable
    BY <1>2 DEF Answered
  <1>5. w.version = 0 /\ w.op = "occurrence" /\ w.id = worker.id /\ w.ask = worker.ask /\ w \in WriteRecords
    BY <1>1, <1>3, BoundsFacts DEF NoWrite, WriteRecords, Statuses, WorkerInv
  <1>6. VersionBounded(w, net.edits) /\ LateInv(w, stored, given, missed) /\ w.op # "task"
    BY <1>3, <1>5, SchedulersWrite DEF LateInv
  <1>7. "claimed" \in Statuses /\ memory' \in {memory, Moved(memory, Key, "claimed")}
    BY <1>2 DEF InsertInMemory, Statuses
  <1>8. Rest \/ \E pc : Goto(pc)
    BY <1>2 DEF InsertInMemory, AtBoundary
  <1>9. KeepsVersion
    BY <1>8, BoundsFacts, WorkersKeepVersion
  <1>. QED  BY <1>2, <1>3, <1>4, <1>5, <1>6, <1>7, <1>9, MemoryMoves, WritingBounds

LEMMA ClaimBounded == ASSUME StoreInv, WorkClaim PROVE BoundsInv'
  <1>1. PICK w : w = [NoWrite EXCEPT !.op = "move", !.id = worker.id, !.ask = worker.ask,
                                     !.from = worker.from, !.to = "running"]
    OBVIOUS
  <1>2. /\ worker.pc = "claim" /\ UNCHANGED <<seen, given>>
        /\ \/ /\ Answered(w) /\ (Goto("act") \/ AfterRun) /\ UNCHANGED memory
           \/ (GivenUp(w) \/ Unreachable) /\ ClaimInMemory
    BY <1>1 DEF WorkClaim
  <1>3. worker.pc \in Walks /\ worker.from \in Claimable
    BY <1>2, BoundsFacts DEF Walks, WorkerInv
  <1>4. /\ w.version = 0 /\ w.op = "move" /\ w.id = worker.id /\ w.ask = worker.ask /\ w \in WriteRecords
        /\ w.from = worker.from /\ w.to = "running"
    BY <1>1, <1>3, BoundsFacts DEF NoWrite, WriteRecords, Statuses, WorkerInv, Claimable
  <1>5. VersionBounded(w, net.edits) /\ LateInv(w, stored, given, missed) /\ w.op # "task"
    BY <1>3, <1>4, SchedulersWrite DEF LateInv
  <1>6. "running" \in Statuses /\ memory' \in {memory, Moved(memory, Key, "running")}
    BY <1>2 DEF ClaimInMemory, Statuses
  <1>7. AfterRun \/ \E pc : Goto(pc)
    BY <1>2 DEF ClaimInMemory
  <1>8. KeepsVersion
    BY <1>7, BoundsFacts, WorkersKeepVersion
  <1>. QED  BY <1>2, <1>3, <1>4, <1>5, <1>6, <1>8, MemoryMoves, WritingBounds

LEMMA SettleBounded == ASSUME StoreInv, WorkSettle PROVE BoundsInv'
  <1>1. worker.pc = "settle" /\ UNCHANGED <<seen, given>>
    BY DEF WorkSettle
  <1>2. PICK outcome \in {"succeeded", "failed"} :
          LET w == [NoWrite EXCEPT !.op = "move", !.id = worker.id, !.ask = worker.ask,
                                   !.from = "running", !.to = outcome]
          IN  \/ Answered(w) /\ AfterRun /\ UNCHANGED memory
              \/ /\ GivenUp(w) \/ Unreachable
                 /\ CASE memory.occs[Key] = "running" -> AfterRun /\ memory' = Moved(memory, Key, outcome)
                      [] memory.occs[Key] \in {"none", outcome} -> AfterRun /\ UNCHANGED memory
                      [] OTHER -> Rest /\ UNCHANGED memory
    BY DEF WorkSettle
  <1>3. PICK w : w = [NoWrite EXCEPT !.op = "move", !.id = worker.id, !.ask = worker.ask,
                                     !.from = "running", !.to = outcome]
    OBVIOUS
  <1>4. /\ Answered(w) \/ GivenUp(w) \/ Unreachable
        /\ AfterRun \/ Rest
        /\ memory' \in {memory, Moved(memory, Key, outcome)}
    BY <1>2, <1>3
  <1>5. worker.pc \in Walks /\ outcome \in Statuses
    BY <1>1 DEF Walks, Statuses
  <1>6. /\ w.version = 0 /\ w.op = "move" /\ w.id = worker.id /\ w.ask = worker.ask /\ w.from = "running"
        /\ w.to = outcome /\ w \in WriteRecords
    BY <1>3, <1>5, BoundsFacts DEF NoWrite, WriteRecords, Statuses, WorkerInv
  <1>7. VersionBounded(w, net.edits) /\ LateInv(w, stored, given, missed) /\ w.op # "task"
    BY <1>2, <1>5, <1>6, SchedulersWrite DEF LateInv
  <1>8. KeepsVersion
    BY <1>4, BoundsFacts, WorkersKeepVersion
  <1>. QED  BY <1>1, <1>4, <1>5, <1>6, <1>7, <1>8, MemoryMoves, WritingBounds

\* The boundary is consumed under the version it was listed with.
LEMMA AdvanceBounded == ASSUME StoreInv, WorkAdvance PROVE BoundsInv'
  <1>1. PICK w : w = [NoWrite EXCEPT !.op = "advance", !.id = worker.id, !.ask = worker.ask,
                                     !.version = worker.version]
    OBVIOUS
  <1>2. /\ worker.pc = "advance" /\ (Answered(w) \/ GivenUp(w) \/ Unreachable) /\ Rest
        /\ UNCHANGED <<seen, given>>
        /\ \/ memory' = memory
           \/ memory.tasks[worker.id].version = worker.version /\ memory' = Consumed(memory, worker.id)
    BY <1>1 DEF WorkAdvance
  <1>3. worker.pc \in Walks
    BY <1>2 DEF Walks
  <1>4. /\ worker.id \in TaskIds /\ worker.ask \in Asks /\ Known(given, worker.ask, worker.id)
        /\ worker.version >= 1 /\ worker.version \in Nat
        /\ Served(stored, given, missed, worker.id, worker.ask)
    BY <1>2, <1>3, BoundsFacts DEF WorkerInv, Workers
  <1>5. /\ w.op = "advance" /\ w.id = worker.id /\ w.ask = worker.ask /\ w.version = worker.version
        /\ w \in WriteRecords
    BY <1>1, <1>4 DEF NoWrite, WriteRecords, Statuses
  <1>6. VersionBounded(w, net.edits) /\ LateInv(w, stored, given, missed) /\ w.op # "task"
    BY <1>3, <1>4, <1>5, SchedulersWrite DEF LateInv
  <1>7. RowsBounded(memory', net.edits) /\ memory'.last = memory.last
    <2>1. CASE memory' = memory
      BY <2>1, BoundsFacts
    <2>2. CASE memory.tasks[worker.id].version = worker.version /\ memory' = Consumed(memory, worker.id)
      <3>1. memory.tasks[worker.id].version + net.edits <= MaxEdits + 1
        BY <2>2, BoundsFacts DEF VersionBounded
      <3>. QED  BY <1>4, <2>2, <3>1, BoundsFacts, ConsumedFacts, ConsumedIsBounded
    <2>. QED  BY <1>2, <2>1, <2>2
  <1>8. KeepsVersion
    BY <1>2, BoundsFacts, WorkersKeepVersion
  <1>. QED  BY <1>2, <1>5, <1>6, <1>7, <1>8, WritingBounds

\* The version a due row is listed with leaves room for its boundary.
LEMMA DueBounded == ASSUME StoreInv, NEW id \in TaskIds, WorkDue(id) PROVE BoundsInv'
  <1>1. /\ Read.tasks[id].due /\ UNCHANGED <<stored, memory, seen, net, late, given>>
        /\ worker' = [IdleWorker EXCEPT !.pc = "task", !.id = id, !.ask = Read.tasks[id].ask,
                                        !.version = Read.tasks[id].version]
    BY DEF WorkDue
  <1>2. worker'.version = Read.tasks[id].version
    BY <1>1 DEF IdleWorker
  <1>3. Read \in {stored, memory}
    BY DEF Read
  <1>4. Read.tasks[id].version + net.edits <= MaxEdits + 1
    BY <1>1, <1>3, BoundsFacts DEF RowsBounded
  <1>5. VersionBounded(worker', net.edits)
    BY <1>2, <1>4 DEF VersionBounded
  <1>6. GivenCounts(stored, memory, seen, given)'
    <2>1. /\ given' = given /\ stored'.last = stored.last /\ memory'.last \in {memory.last, 0}
          /\ seen' \in {seen} \union 0 .. stored.last
      BY <1>1
    <2>. QED  BY <2>1, CountsStay
  <1>. QED  BY <1>1, <1>5, <1>6, BoundsFacts DEF BoundsInv

\* Its other steps read, or move an occurrence.
LEMMA ReadingBounded ==
  ASSUME StoreInv,
         \/ \E key \in Keys : WorkRetry(key) \/ RecoverOne(key)
         \/ WorkTask \/ WorkOccurrence \/ WorkClaimRead \/ WorkAct \/ WorkSettleRead \/ WorkAdvanceRead
         \/ RecoverList \/ RecoverDone
  PROVE  BoundsInv'
  <1>1. ASSUME UNCHANGED <<net, late, given, stored, memory>>, KeepsVersion,
               seen' \in {seen} \union 0 .. stored.last
        PROVE  BoundsInv'
    BY <1>1, QuietBounds
  <1>2. CASE \E key \in Keys : WorkRetry(key)
    <2>1. PICK key \in Keys : WorkRetry(key)
      BY <1>2
    <2>2. WorkerRetries(key[1], key[2]) /\ UNCHANGED <<net, late, given, stored, memory, seen>>
      BY <2>1 DEF WorkRetry, WorkerRetries
    <2>. QED  BY <1>1, <2>2, BoundsFacts, WorkersKeepVersion
  <1>3. CASE \E key \in Keys : RecoverOne(key)
    <2>1. PICK id \in TaskIds, a \in Asks : RecoverOne(<<id, a>>)
      BY <1>3 DEF Keys
    <2>2. /\ UNCHANGED <<net, late, given, memory, seen>>
          /\ worker' = worker \/ WorkerResolves(worker.todo \ {<<id, a>>})
          /\ stored' = stored \/ \E to \in Statuses : stored' = Moved(stored, <<id, a>>, to)
      BY <2>1 DEF RecoverOne, WorkerResolves, Resolution, Statuses
    <2>3. stored'.tasks = stored.tasks /\ stored'.last = stored.last
      BY <2>2, BoundsFacts, MovedFacts
    <2>4. KeepsVersion
      BY <2>2, BoundsFacts, WorkersKeepVersion
    <2>. QED  BY <2>2, <2>3, <2>4, QuietBounds
  <1>4. CASE WorkTask \/ WorkAdvanceRead
    <2>1. /\ UNCHANGED <<net, late, given, stored, memory>> /\ worker.pc \in {"task", "advance read"}
          /\ seen' = Observed(worker.id) /\ (Rest \/ \E pc : Goto(pc))
      BY <1>4 DEF WorkTask, WorkAdvanceRead
    <2>2. worker.pc \in Walks
      BY <2>1 DEF Walks
    <2>3. worker.id \in TaskIds
      BY <2>2, BoundsFacts DEF WorkerInv
    <2>. QED  BY <1>1, <2>1, <2>3, SeenStays, BoundsFacts, WorkersKeepVersion
  <1>5. CASE WorkOccurrence \/ WorkAct
    <2>1. UNCHANGED <<net, late, given, stored, memory, seen>> /\ \E pc : Goto(pc)
      BY <1>5 DEF WorkOccurrence, WorkAct, AtBoundary
    <2>. QED  BY <1>1, <2>1, BoundsFacts, WorkersKeepVersion
  <1>6. CASE WorkClaimRead
    <2>1. UNCHANGED <<net, late, given, stored, memory, seen>> /\ (AfterRun \/ \E from : WorkerAsks(from))
      BY <1>6 DEF WorkClaimRead, WorkerAsks
    <2>. QED  BY <1>1, <2>1, BoundsFacts, WorkersKeepVersion
  <1>7. CASE WorkSettleRead
    <2>1. UNCHANGED <<net, late, given, stored, memory, seen>> /\ (AfterRun \/ Rest \/ \E pc : Goto(pc))
      BY <1>7 DEF WorkSettleRead
    <2>. QED  BY <1>1, <2>1, BoundsFacts, WorkersKeepVersion
  <1>8. CASE RecoverList \/ RecoverDone
    <2>1. UNCHANGED <<net, late, given, stored, memory, seen>> /\ (Rest \/ \E todo2 : WorkerLists(todo2))
      BY <1>8 DEF RecoverList, RecoverDone, WorkerLists
    <2>. QED  BY <1>1, <2>1, BoundsFacts, WorkersKeepVersion
  <1>. QED  BY <1>2, <1>3, <1>4, <1>5, <1>6, <1>7, <1>8

\* An edit spends one of the edits that are left.
LEMMA EditBounded == ASSUME StoreInv, NEW id \in TaskIds, OwnerEdit(id) PROVE BoundsInv'
  <1>1. /\ net.edits > 0 /\ stored' = Edited(stored, id) /\ net' = [net EXCEPT !.edits = @ - 1]
        /\ seen' = Observed(id) /\ UNCHANGED <<memory, late, worker, given>>
    BY DEF OwnerEdit, Edited
  <1>2. PICK e, f : e = net.edits /\ f = e - 1
    OBVIOUS
  <1>3. e \in 0 .. MaxEdits /\ MaxEdits \in Nat /\ e \in Nat /\ f \in 0 .. e /\ f \in 0 .. MaxEdits
    BY <1>1, <1>2, BoundsFacts
  <1>4. net' \in Nets /\ net'.edits = f
    BY <1>1, <1>2, <1>3, BoundsFacts DEF Nets
  <1>5. RowsBounded(memory', f) /\ VersionBounded(worker', f) /\ VersionBounded(late', f)
    <2>1. worker.version \in Nat /\ late.version \in Nat
      BY BoundsFacts DEF Workers, WriteRecords
    <2>. QED  BY <1>1, <1>2, <1>3, <2>1, BoundsFacts, FewerEdits
  <1>6. RowsBounded(stored', f)
    <2>1. SUFFICES ASSUME NEW i \in TaskIds
                   PROVE  stored'.tasks[i].version + f <= MaxEdits + (IF stored'.tasks[i].due THEN 1 ELSE 2)
      BY DEF RowsBounded
    <2>2. stored.tasks[i].version \in Nat /\ stored.tasks[id].version \in Nat
      BY BoundsFacts DEF Tables, TaskRows
    <2>3. stored.tasks[i].version + e <= MaxEdits + (IF stored.tasks[i].due THEN 1 ELSE 2)
      BY <1>2, BoundsFacts DEF RowsBounded
    <2>4. CASE i = id
      <3>1. stored'.tasks[i].version = stored.tasks[i].version + 1 /\ stored'.tasks[i].due = stored.tasks[i].due
        BY <1>1, <2>4, BoundsFacts, EditedFacts
      <3>. QED  BY <1>2, <1>3, <2>2, <2>3, <3>1
    <2>5. CASE i # id
      <3>1. stored'.tasks[i] = stored.tasks[i]
        BY <1>1, <2>5, BoundsFacts, EditedFacts
      <3>. QED  BY <1>2, <1>3, <2>2, <2>3, <3>1
    <2>. QED  BY <2>4, <2>5
  <1>7. GivenCounts(stored, memory, seen, given)'
    <2>1. stored'.last = stored.last
      BY <1>1, BoundsFacts, EditedFacts
    <2>2. seen' \in 0 .. stored.last
      BY <1>1, SeenStays
    <2>. QED  BY <1>1, <2>1, <2>2, CountsStay
  <1>. QED  BY <1>4, <1>5, <1>6, <1>7 DEF BoundsInv

(* What the store and the owner do. *)
LEMMA StoreBounded ==
  ASSUME StoreInv, LateIsLost \/ StoreGoes \/ StoreReturns \/ UNCHANGED degradedVars
  PROVE  BoundsInv'
  <1>1. UNCHANGED <<stored, memory, seen, worker, given>> /\ late' \in {late, NoWrite}
    BY DEF LateIsLost, StoreGoes, StoreReturns, degradedVars
  <1>2. net' \in Nets /\ net'.edits = net.edits
    <2>1. CASE StoreGoes
      <3>1. net.outages > 0 /\ net' = [net EXCEPT !.up = FALSE, !.outages = @ - 1]
        BY <2>1 DEF StoreGoes
      <3>2. PICK n : n = net.outages - 1
        OBVIOUS
      <3>3. net \in Nets /\ n \in Nat
        BY <3>1, <3>2, BoundsFacts DEF Nets
      <3>4. \A x \in Nets, m \in Nat : LET y == [x EXCEPT !.up = FALSE, !.outages = m]
                                      IN  y \in Nets /\ y.edits = x.edits
        BY DEF Nets
      <3>. QED  BY <3>1, <3>2, <3>3, <3>4
    <2>2. CASE StoreReturns
      BY <2>2, BoundsFacts DEF StoreReturns, Nets
    <2>3. CASE LateIsLost \/ UNCHANGED degradedVars
      BY <2>3, BoundsFacts DEF LateIsLost, degradedVars
    <2>. QED  BY <2>1, <2>2, <2>3
  <1>3. GivenCounts(stored, memory, seen, given)'
    BY <1>1, CountsStay
  <1>4. VersionBounded(late', net.edits)
    BY <1>1, BoundsFacts, NothingIsBounded
  <1>. QED  BY <1>1, <1>2, <1>3, <1>4, BoundsFacts DEF BoundsInv

LEMMA LateBounded == ASSUME StoreInv, LateLands PROVE BoundsInv'
  <1>1. /\ stored' = Landed(late) /\ late' = NoWrite /\ UNCHANGED <<memory, seen, net, worker>>
        /\ late.op = "task" =>
              given' = [given EXCEPT ![late.ask] = @ \union {<<"durable", stored.last + 1>>}]
        /\ late.op # "task" => given' = given
    BY DEF LateLands
  <1>2. late.op = "task" => late.ask \in Asks /\ \A g \in given[late.ask] : g[1] # "durable"
    BY BoundsFacts DEF GivenInv
  <1>3. /\ RowsBounded(stored', net.edits)
        /\ stored'.last = IF late.op = "task" THEN stored.last + 1 ELSE stored.last
    BY <1>1, <1>2, BoundsFacts, LandedIsBounded
  <1>4. GivenCounts(stored, memory, seen, given)'
    <2>1. CASE late.op = "task"
      BY <1>1, <1>2, <1>3, <2>1, StoreIssues
    <2>2. CASE late.op # "task"
      BY <1>1, <1>3, <2>2, CountsStay
    <2>. QED  BY <2>1, <2>2
  <1>. QED  BY <1>1, <1>3, <1>4, BoundsFacts, NothingIsBounded DEF BoundsInv

LEMMA AskInsertBounded == ASSUME StoreInv, NEW a \in Asks, AskInsert(a) PROVE BoundsInv'
  <1>1. PICK w : w = [NoWrite EXCEPT !.op = "task", !.ask = a]
    OBVIOUS
  <1>2. /\ asks[a] = "new" /\ UNCHANGED <<memory, worker>>
        /\ \/ /\ Answered(w) /\ seen' = Larger(seen, stored.last + 1)
              /\ given' = [given EXCEPT ![a] = @ \union {<<"durable", stored.last + 1>>}]
           \/ (GivenUp(w) \/ Unreachable) /\ UNCHANGED <<seen, given>>
    BY <1>1 DEF AskInsert
  <1>3. w.op = "task" /\ w.ask = a /\ w.version = 0 /\ w \in WriteRecords
    BY <1>1 DEF NoWrite, WriteRecords, Statuses
  <1>4. LateInv(w, stored, given, missed) /\ VersionBounded(w, net.edits)
    BY <1>3, BoundsFacts DEF LateInv, VersionBounded
  <1>5. /\ net' \in Nets /\ net'.edits = net.edits
        /\ RowsBounded(stored', net.edits) /\ VersionBounded(late', net.edits)
        /\ stored'.last = IF Answered(w) /\ w.op = "task" THEN stored.last + 1 ELSE stored.last
    BY <1>2, <1>3, <1>4, WriteIsBounded
  <1>6. GivenCounts(stored, memory, seen, given)'
    <2>1. CASE /\ Answered(w) /\ seen' = Larger(seen, stored.last + 1)
               /\ given' = [given EXCEPT ![a] = @ \union {<<"durable", stored.last + 1>>}]
      <3>1. \A g \in given[a] : g[1] # "durable"
        BY <1>2, BoundsFacts DEF GivenInv
      <3>. QED  BY <1>2, <1>3, <1>5, <2>1, <3>1, StoreIssues
    <2>2. CASE (GivenUp(w) \/ Unreachable) /\ UNCHANGED <<seen, given>>
      <3>1. stored' = stored
        BY <2>2 DEF GivenUp, Unreachable
      <3>. QED  BY <1>2, <2>2, <3>1, CountsStay
    <2>. QED  BY <1>2, <2>1, <2>2
  <1>. QED  BY <1>2, <1>5, <1>6, BoundsFacts DEF BoundsInv

LEMMA AskFallbackBounded == ASSUME StoreInv, NEW a \in Asks, AskFallback(a) PROVE BoundsInv'
  <1>1. PICK id : id = Larger(memory.last, MaxDurable) + 1
    OBVIOUS
  <1>2. memory' = Inserted(memory, id, a) /\ UNCHANGED <<stored, net, late, worker>>
    BY <1>1 DEF AskFallback
  <1>3. id \in Nat
    BY <1>1, BoundsFacts DEF Larger, MaxDurable
  <1>4. RowsBounded(memory', net.edits)
    BY <1>2, <1>3, BoundsFacts, InsertedIsBounded
  <1>. QED  BY <1>2, <1>4, BoundsFacts, FallbackIssues DEF BoundsInv

LEMMA RestartBounded == ASSUME StoreInv, Restart PROVE BoundsInv'
  <1>1. /\ net.restarts > 0 /\ net' = [net EXCEPT !.restarts = @ - 1]
        /\ memory' = EmptyStore /\ seen' = 0 /\ WorkerRecovers /\ UNCHANGED <<stored, late, given>>
    BY DEF Restart, WorkerRecovers
  <1>2. net' \in Nets /\ net'.edits = net.edits
    BY <1>1, BoundsFacts DEF Nets
  <1>3. memory'.last = 0
    BY <1>1 DEF EmptyStore
  <1>4. GivenCounts(stored, memory, seen, given)'
    BY <1>1, <1>3, BoundsFacts, CountsStay
  <1>5. VersionBounded(worker', net.edits)
    BY <1>1, BoundsFacts, WorkersKeepVersion, VersionsStay
  <1>. QED  BY <1>1, <1>2, <1>4, <1>5, BoundsFacts, NothingIsBounded DEF BoundsInv

LEMMA StoreBegins == DegradedInit => StoreInv
  <1>. SUFFICES ASSUME DegradedInit PROVE BoundsInv
    BY DegradedBegins DEF StoreInv
  <1>1. /\ stored = EmptyStore /\ memory = EmptyStore /\ seen = 0 /\ late = NoWrite
        /\ worker = IdleWorker /\ given = [a \in Asks |-> {}]
    BY DEF DegradedInit
  <1>2. net \in Nets /\ net.edits \in 0 .. MaxEdits
    <2>1. PICK b \in Budgets : net = [up |-> TRUE, outages |-> b.outages, late |-> b.late,
                                      restarts |-> b.restarts, edits |-> b.edits]
      BY DEF DegradedInit
    <2>2. b \in Budgeted
      BY DegradedAssumption DEF Budgeted
    <2>. QED  BY <2>1, <2>2 DEF Budgeted, Nets
  <1>3. EmptyStore.last = 0
    BY DEF EmptyStore
  <1>4. GivenCounts(stored, memory, seen, given)
    <2>1. \A name : GivenBy(given, name) = {}
      BY <1>1 DEF GivenBy
    <2>2. Cardinality({}) = 0
      BY FS_EmptySet
    <2>. QED  BY <1>1, <1>3, <2>1, <2>2 DEF GivenCounts
  <1>. QED  BY <1>1, <1>2, <1>4, NothingIsBounded DEF BoundsInv

LEMMA StoreSteps == StoreInv /\ [DegradedNext]_degradedVars => StoreInv'
  <1>1. SUFFICES ASSUME StoreInv, [DegradedNext]_degradedVars PROVE BoundsInv'
    BY DegradedSteps DEF StoreInv
  <1>2. CASE UNCHANGED degradedVars \/ LateIsLost \/ StoreGoes \/ StoreReturns
    BY <1>1, <1>2, StoreBounded
  <1>3. CASE \E a \in Asks : AskInsert(a) \/ AskFallback(a)
    BY <1>1, <1>3, AskInsertBounded, AskFallbackBounded
  <1>4. CASE (\E id \in TaskIds : OwnerEdit(id)) \/ LateLands \/ Restart
    BY <1>1, <1>4, EditBounded, LateBounded, RestartBounded
  <1>5. CASE Work
    <2>1. CASE (\E id \in TaskIds : WorkDue(id)) \/ WorkInsert \/ WorkClaim \/ WorkSettle \/ WorkAdvance
      BY <1>1, <2>1, DueBounded, InsertBounded, ClaimBounded, SettleBounded, AdvanceBounded
    <2>2. CASE \/ \E key \in Keys : WorkRetry(key) \/ RecoverOne(key)
               \/ WorkTask \/ WorkOccurrence \/ WorkClaimRead \/ WorkAct \/ WorkSettleRead \/ WorkAdvanceRead
               \/ RecoverList \/ RecoverDone
      BY <1>1, <2>2, ReadingBounded
    <2>. QED  BY <1>5, <2>1, <2>2 DEF Work
  <1>. QED  BY <1>1, <1>2, <1>3, <1>4, <1>5 DEF DegradedNext

LEMMA BoundedStore ==
  ASSUME NEW st \in Tables, NEW e \in 0 .. MaxEdits, RowsBounded(st, e), st.last <= 2 * Cardinality(Asks)
  PROVE  st \in Stores
  <1>1. MaxEdits \in Nat /\ Cardinality(Asks) \in Nat
    BY DegradedAssumption, FS_CardinalityType
  <1>2. /\ st = [tasks |-> st.tasks, occs |-> st.occs, last |-> st.last]
        /\ st.tasks \in [TaskIds -> TaskRows] /\ st.occs \in [Keys -> Statuses] /\ st.last \in Nat
    BY DEF Tables
  <1>3. ASSUME NEW id \in TaskIds
        PROVE  st.tasks[id] \in [ask : Asks \union {NoAsk}, version : 0 .. MaxEdits + 2, due : BOOLEAN]
    <2>1. st.tasks[id] \in TaskRows
      BY <1>2
    <2>2. st.tasks[id].version + e <= MaxEdits + (IF st.tasks[id].due THEN 1 ELSE 2)
      BY DEF RowsBounded
    <2>3. st.tasks[id].version \in 0 .. MaxEdits + 2
      BY <1>1, <2>1, <2>2 DEF TaskRows
    <2>. QED  BY <2>1, <2>3 DEF TaskRows
  <1>4. st.tasks \in [TaskIds -> [ask : Asks \union {NoAsk}, version : 0 .. MaxEdits + 2, due : BOOLEAN]]
    BY <1>2, <1>3
  <1>5. st.last \in 0 .. 2 * Cardinality(Asks)
    BY <1>1, <1>2
  <1>. QED  BY <1>2, <1>4, <1>5 DEF Stores, Statuses

\* No behaviour leaves the types: whatever the outages, the late writes, the restarts and
\* the edits, an id stays below two for each ask (one the store issues, and one the fallback
\* counts on to), a version below what the edits and one boundary make of it, and the
\* durable ceiling the service knows is an id the store has issued.
THEOREM DegradedTypeCorrect == DegradedSpec => []DegradedTypeOK
  <1>1. ASSUME StoreInv  PROVE DegradedTypeOK
    <2>1. GivenCounts(stored, memory, seen, given)
      BY <1>1 DEF StoreInv, BoundsInv
    <2>2. stored.last <= 2 * Cardinality(Asks) /\ memory.last <= 2 * Cardinality(Asks) /\ seen \in 0 .. stored.last
      BY <1>1, <2>1, BoundsFacts, GivenByFacts DEF GivenCounts
    <2>3. stored \in Stores /\ memory \in Stores
      BY <1>1, <2>2, BoundsFacts, BoundedStore
    <2>4. asks \in [Asks -> {"new", "ceiling", "done"}] /\ worker.id \in TaskIds \union {0} /\ worker.todo \subseteq Keys
      BY <1>1 DEF StoreInv, DegradedInv, DegradedTypes, Workers
    <2>. QED  BY <2>2, <2>3, <2>4 DEF DegradedTypeOK
  <1>. QED  BY <1>1, StoreBegins, StoreSteps, PTL DEF DegradedSpec

-----------------------------------------------------------------------------
(* The steps of a todo.  The limit is judged on the last position, not on      *)
(* a count, so what bounds the number of steps is that positions are distinct   *)
(* and within the limit.                                                        *)
AboveAll(c) == \A s \in Live : step[s].position <= client[c].last

(* Whoever is about to insert holds the lock, and has room above the last step. *)
LockInv == \A c \in Clients : client[c].pc = "insert" => lock = c
RoomInv == \A c \in Clients : client[c].pc = "insert" =>
               AboveAll(c) /\ client[c].last + client[c].n <= MaxStepsPerTodo
WriteInv == \A c \in Clients : client[c].pc = "write" => client[c].want \in {"active", "completed"}
PlaceInv == /\ \A s \in Live : step[s].position # 0
            /\ \A s, t \in Live : step[s].position = step[t].position => s = t
UnusedInv == \A s \in Live : s < nextId

TodoInv == TodoTypeOK /\ LockInv /\ RoomInv /\ WriteInv /\ PlaceInv /\ UnusedInv

USE TodoAssumption, ClientAssumption DEF Free

LEMMA IdleIsAClient == Idle \in ClientType
  BY DEF Idle, ClientType

LEMMA StepsAreNat == Steps \subseteq Nat \ {0}
  <1>1. MaxOps * MaxStepsPerAdd \in Nat
    OBVIOUS
  <1>. QED  BY <1>1 DEF Steps

LEMMA TodoInitEstablishes == TodoInit => TodoInv
  <1>. SUFFICES ASSUME TodoInit PROVE TodoInv
    OBVIOUS
  <1>1. TodoTypeOK
    BY IdleIsAClient DEF TodoInit, TodoTypeOK, NoStep, StepType
  <1>2. Live = {}
    BY DEF Live, TodoInit, NoStep
  <1>3. \A c \in Clients : client[c].pc = "idle"
    BY DEF TodoInit, Idle
  <1>. QED
    BY <1>1, <1>2, <1>3 DEF TodoInv, LockInv, RoomInv, WriteInv, PlaceInv, UnusedInv

-----------------------------------------------------------------------------
(* A write of steps that moves no position and brings no step to life disturbs  *)
(* neither the places nor the room of an insert under way.                       *)
LEMMA QuietWritesKeepPlaces ==
  ASSUME TodoInv, step' \in [Steps -> StepType], nextId' = nextId,
         \A s \in Steps : step'[s].position = step[s].position,
         Live' \subseteq Live
  PROVE  /\ PlaceInv' /\ UnusedInv'
         /\ \A c \in Clients : AboveAll(c) => \A s \in Live' : step'[s].position <= client[c].last
  <1>1. \A s \in Live' : s \in Steps /\ s \in Live
    BY DEF Live
  <1>. QED  BY <1>1 DEF TodoInv, PlaceInv, UnusedInv, AboveAll

(* Clients move without inserting, and the steps stay or are written quietly.    *)
LEMMA QuietStepsKeep ==
  ASSUME TodoInv, TodoTypeOK', nextId' = nextId, lock' = lock,
         \A s \in Steps : step'[s].position = step[s].position,
         Live' \subseteq Live,
         \A c \in Clients : client'[c].pc = "insert" => client'[c] = client[c],
         WriteInv'
  PROVE  TodoInv'
  <1>1. step' \in [Steps -> StepType]
    BY DEF TodoTypeOK
  <1>2. /\ PlaceInv' /\ UnusedInv'
        /\ \A c \in Clients : AboveAll(c) => \A s \in Live' : step'[s].position <= client[c].last
    BY <1>1, QuietWritesKeepPlaces
  <1>3. LockInv'
    BY DEF TodoInv, LockInv
  <1>4. RoomInv'
    <2>. SUFFICES ASSUME NEW c \in Clients, client'[c].pc = "insert"
                  PROVE  AboveAll(c)' /\ client'[c].last + client'[c].n <= MaxStepsPerTodo
      BY DEF RoomInv
    <2>1. client'[c] = client[c] /\ client[c].pc = "insert"
      OBVIOUS
    <2>2. AboveAll(c) /\ client[c].last + client[c].n <= MaxStepsPerTodo
      BY <2>1 DEF TodoInv, RoomInv
    <2>. QED  BY <1>2, <2>1, <2>2 DEF AboveAll
  <1>. QED  BY <1>2, <1>3, <1>4 DEF TodoInv

(* One client moves, to a stage in which it neither inserts nor writes.           *)
LEMMA MovesKeep ==
  ASSUME TodoInv, NEW c \in Clients, NEW q \in ClientType, q.pc \notin {"insert", "write"},
         client' = [client EXCEPT ![c] = q], TodoTypeOK',
         step' = step, nextId' = nextId, lock' = lock
  PROVE  TodoInv'
  <1>1. client \in [Clients -> ClientType]
    BY DEF TodoInv, TodoTypeOK
  <1>2. Live' = Live
    BY DEF Live
  <1>3. \A d \in Clients : client'[d] = client[d] \/ client'[d].pc \notin {"insert", "write"}
    BY <1>1
  <1>4. WriteInv'
    BY <1>3 DEF TodoInv, WriteInv
  <1>5. \A d \in Clients : client'[d].pc = "insert" => client'[d] = client[d]
    BY <1>3
  <1>. QED  BY <1>2, <1>4, <1>5, QuietStepsKeep

-----------------------------------------------------------------------------
(* add_steps                                                                      *)

LEMMA AddBeginKeeps ==
  ASSUME TodoInv, NEW c \in Clients, AddBegin(c)
  PROVE  TodoInv'
  <1>1. PICK n \in 1 .. MaxStepsPerAdd :
          TodoBegin(c, [Idle EXCEPT !.pc = "count", !.since = todo.version, !.n = n])
    BY DEF AddBegin
  <1>. DEFINE q == [Idle EXCEPT !.pc = "count", !.since = todo.version, !.n = n]
  <1>2. q \in ClientType /\ q.pc = "count"
    <2>1. todo.version \in Nat /\ n \in 0 .. MaxStepsPerAdd
      BY DEF TodoInv, TodoTypeOK
    <2>. QED  BY <2>1, IdleIsAClient DEF ClientType
  <1>3. /\ client' = [client EXCEPT ![c] = q] /\ ops' = ops + 1
        /\ UNCHANGED <<todo, step, nextId, lock>>
    BY <1>1 DEF AddBegin, TodoBegin
  <1>. HIDE DEF q
  <1>4. TodoTypeOK'
    BY <1>2, <1>3 DEF TodoInv, TodoTypeOK
  <1>. QED  BY <1>2, <1>3, <1>4, MovesKeep

LEMMA AddCountKeeps ==
  ASSUME TodoInv, NEW c \in Clients, AddCount(c)
  PROVE  TodoInv'
  <1>1. client[c] \in ClientType
    BY DEF TodoInv, TodoTypeOK
  <1>2. PICK q \in ClientType : q.pc \in {"wait", "idle"} /\ client' = [client EXCEPT ![c] = q]
    <2>1. CASE client' = [client EXCEPT ![c].pc = "wait"]
      <3>. DEFINE q == [client[c] EXCEPT !.pc = "wait"]
      <3>1. q \in ClientType /\ q.pc = "wait" /\ client' = [client EXCEPT ![c] = q]
        BY <1>1, <2>1 DEF ClientType
      <3>. QED  BY <3>1
    <2>2. CASE client' = [client EXCEPT ![c] = Idle]
      BY <2>2, IdleIsAClient DEF Idle
    <2>. QED  BY <2>1, <2>2 DEF AddCount, Go, Return
  <1>3. UNCHANGED <<todo, step, nextId, lock, ops>>
    BY DEF AddCount
  <1>4. TodoTypeOK'
    BY <1>2, <1>3 DEF TodoInv, TodoTypeOK
  <1>. QED  BY <1>2, <1>3, <1>4, MovesKeep

LEMMA AddLockKeeps ==
  ASSUME TodoInv, NEW c \in Clients, AddLock(c)
  PROVE  TodoInv'
  <1>1. client[c] \in ClientType /\ client \in [Clients -> ClientType]
    BY DEF TodoInv, TodoTypeOK
  <1>2. UNCHANGED <<todo, step, nextId, ops>> /\ lock = Free
    BY DEF AddLock, StepLockFree
  <1>3. PICK p \in 0 .. MaxStepsPerTodo :
          /\ IsLast(p)
          /\ IF Overfull(p, client[c].n)
             THEN Return(c) /\ UNCHANGED lock
             ELSE /\ lock' = c
                  /\ client' = [client EXCEPT ![c].pc = "insert", ![c].last = p]
    BY DEF AddLock
  <1>4. CASE Overfull(p, client[c].n)
    <2>1. client' = [client EXCEPT ![c] = Idle] /\ lock' = lock
      BY <1>3, <1>4 DEF Return
    <2>2. TodoTypeOK'
      BY <1>2, <2>1, IdleIsAClient DEF TodoInv, TodoTypeOK
    <2>. QED  BY <1>2, <2>1, <2>2, IdleIsAClient, MovesKeep DEF Idle
  <1>5. CASE ~Overfull(p, client[c].n)
    <2>. DEFINE q == [client[c] EXCEPT !.pc = "insert", !.last = p]
    <2>1. q \in ClientType /\ q.pc = "insert" /\ q.last = p /\ q.n = client[c].n
      BY <1>1 DEF ClientType
    <2>2. lock' = c /\ client' = [client EXCEPT ![c] = q]
      BY <1>3, <1>5
    <2>. HIDE DEF q
    <2>3. TodoTypeOK'
      BY <1>2, <2>1, <2>2 DEF TodoInv, TodoTypeOK
    <2>4. \A d \in Clients : client'[d] = IF d = c THEN q ELSE client[d]
      BY <1>1, <2>2
    <2>5. \A d \in Clients : d # c => client[d].pc # "insert"
      BY <1>2 DEF TodoInv, LockInv
    <2>6. LockInv'
      BY <2>2, <2>4, <2>5 DEF LockInv
    <2>7. Live' = Live
      BY <1>2 DEF Live
    <2>8. RoomInv'
      <3>. SUFFICES ASSUME NEW d \in Clients, client'[d].pc = "insert"
                    PROVE  AboveAll(d)' /\ client'[d].last + client'[d].n <= MaxStepsPerTodo
        BY DEF RoomInv
      <3>1. d = c /\ client'[d].last = p /\ client'[d].n = client[c].n
        BY <2>1, <2>4, <2>5
      <3>2. AboveAll(d)'
        BY <1>2, <1>3, <2>7, <3>1 DEF AboveAll, IsLast
      <3>3. client[c].n \in Nat
        BY <1>1 DEF ClientType
      <3>4. p + client[c].n <= MaxStepsPerTodo
        BY <1>5, <3>3 DEF Overfull
      <3>. QED  BY <3>1, <3>2, <3>4
    <2>9. WriteInv'
      BY <2>1, <2>4 DEF TodoInv, WriteInv
    <2>10. PlaceInv' /\ UnusedInv'
      BY <1>2, <2>7 DEF TodoInv, PlaceInv, UnusedInv
    <2>. QED  BY <2>3, <2>6, <2>8, <2>9, <2>10 DEF TodoInv
  <1>. QED  BY <1>4, <1>5

(* The new steps stand above the last one and within the limit, by RoomInv; the  *)
(* lock keeps every other client from being about to insert.                     *)
LEMMA AddInsertKeeps ==
  ASSUME TodoInv, NEW c \in Clients, AddInsert(c)
  PROVE  TodoInv'
  <1>. DEFINE n == client[c].n
              new == nextId .. (nextId + n - 1)
              place(s) == client[c].last + 1 + (s - nextId)
  <1>1. /\ client[c] \in ClientType /\ client \in [Clients -> ClientType]
        /\ n \in Nat /\ client[c].last \in 0 .. MaxStepsPerTodo /\ nextId \in Nat
        /\ step \in [Steps -> StepType]
    BY DEF TodoInv, TodoTypeOK, ClientType
  <1>2. /\ nextId' = nextId + n /\ lock' = Free /\ client' = [client EXCEPT ![c] = Idle]
        /\ UNCHANGED <<todo, ops>>
        /\ client[c].pc = "insert"
    BY DEF AddInsert, LeaveLock, Return
  <1>3. AboveAll(c) /\ client[c].last + n <= MaxStepsPerTodo /\ lock = c
    BY <1>2 DEF TodoInv, RoomInv, LockInv
  <1>4. \A d \in Clients : client'[d].pc # "insert" /\ (client'[d].pc = "write" => client'[d] = client[d])
    BY <1>1, <1>2, <1>3 DEF TodoInv, LockInv, Idle
  <1>5. LockInv' /\ RoomInv' /\ WriteInv'
    BY <1>4 DEF TodoInv, LockInv, RoomInv, WriteInv
  <1>6. CASE step' = step
    <2>1. Live' = Live
      BY <1>6 DEF Live
    <2>2. PlaceInv'
      BY <1>6, <2>1 DEF TodoInv, PlaceInv
    <2>3. UnusedInv'
      <3>1. \A s \in Live : s \in Nat /\ s < nextId
        BY StepsAreNat DEF TodoInv, UnusedInv, Live
      <3>. QED  BY <1>1, <1>2, <2>1, <3>1 DEF UnusedInv
    <2>4. TodoTypeOK'
      BY <1>1, <1>2, <1>6, IdleIsAClient DEF TodoInv, TodoTypeOK
    <2>. QED  BY <1>5, <2>2, <2>3, <2>4 DEF TodoInv
  <1>7. CASE step' = [s \in Steps |-> IF s \in new
                        THEN [status |-> "active", version |-> 1, position |-> place(s)]
                        ELSE step[s]]
    <2>1. \A s \in new : place(s) \in 1 .. MaxStepsPerTodo /\ place(s) > client[c].last
      BY <1>1, <1>3
    <2>2. \A s, t \in new : place(s) = place(t) => s = t
      BY <1>1
    <2>3. \A s \in Steps : s \in new => step'[s].position = place(s) /\ step'[s].status = "active"
                                        /\ step'[s] \in StepType
      BY <1>7, <2>1 DEF StepType
    <2>4. \A s \in Steps : s \notin new => step'[s] = step[s]
      BY <1>7
    <2>5. step' \in [Steps -> StepType]
      <3>1. \A s \in Steps : step'[s] \in StepType
        BY <1>1, <2>3, <2>4
      <3>. QED  BY <1>7, <3>1
    <2>6. \A s \in Live' : s \in Steps /\ (s \in new \/ s \in Live)
      BY <2>4 DEF Live
    <2>. HIDE DEF new, place
    <2>7. \A s \in Live : s \in Nat /\ s < nextId /\ step[s].position <= client[c].last
                          /\ step[s].position # 0 /\ step[s].position \in Nat
      <3>1. \A s \in Live : s \in Steps /\ s \in Nat
        BY StepsAreNat DEF Live
      <3>2. \A s \in Live : step[s].position \in Nat
        BY <1>1, <3>1 DEF StepType
      <3>3. \A s \in Live : s < nextId /\ step[s].position # 0
        BY DEF TodoInv, UnusedInv, PlaceInv
      <3>4. \A s \in Live : step[s].position <= client[c].last
        BY <1>3 DEF AboveAll
      <3>. QED  BY <3>1, <3>2, <3>3, <3>4
    <2>8. \A s \in new : s \in Nat /\ s >= nextId /\ s < nextId + n
      BY <1>1 DEF new
    <2>9. \A s \in Live' : s \in Live => s \notin new /\ step'[s] = step[s]
      <3>1. \A s \in Live : s \notin new
        BY <1>1, <2>7, <2>8
      <3>. QED  BY <2>4, <2>6, <3>1
    <2>10. UnusedInv'
      BY <1>1, <1>2, <2>6, <2>7, <2>8 DEF UnusedInv
    <2>11. PlaceInv'
      <3>1. \A s \in Live' : s \in new => step'[s].position = place(s)
                                          /\ place(s) \in 1 .. MaxStepsPerTodo
                                          /\ place(s) > client[c].last
        BY <2>1, <2>3, <2>6
      <3>2. \A s \in Live' : step'[s].position # 0
        BY <2>6, <2>7, <2>9, <3>1
      <3>3. ASSUME NEW s \in Live', NEW t \in Live', step'[s].position = step'[t].position
            PROVE  s = t
        <4>1. CASE s \in new /\ t \in new
          BY <2>2, <3>1, <3>3, <4>1
        <4>2. CASE s \in Live /\ t \in Live
          BY <2>9, <3>3, <4>2 DEF TodoInv, PlaceInv
        <4>3. CASE s \in new /\ t \in Live
          BY <1>1, <2>7, <2>9, <3>1, <3>3, <4>3
        <4>4. CASE s \in Live /\ t \in new
          BY <1>1, <2>7, <2>9, <3>1, <3>3, <4>4
        <4>. QED  BY <2>6, <4>1, <4>2, <4>3, <4>4
      <3>. QED  BY <3>2, <3>3 DEF PlaceInv
    <2>12. TodoTypeOK'
      BY <1>1, <1>2, <2>5, IdleIsAClient DEF TodoInv, TodoTypeOK
    <2>. QED  BY <1>5, <2>10, <2>11, <2>12 DEF TodoInv
  <1>. QED  BY <1>6, <1>7 DEF AddInsert

-----------------------------------------------------------------------------
(* set_step_status, rename_step, delete_step and the steps of a completion.        *)

LEMMA UpdateStepIsQuiet ==
  ASSUME TodoInv, NEW s, NEW version \in Nat, NEW want \in {"active", "completed"},
         UpdateStep(s, version, want)
  PROVE  /\ step' \in [Steps -> StepType] /\ Live' \subseteq Live
         /\ \A t \in Steps : step'[t].position = step[t].position
  <1>1. step \in [Steps -> StepType]
    BY DEF TodoInv, TodoTypeOK
  <1>2. CASE step' = step
    BY <1>1, <1>2 DEF Live
  <1>3. CASE s \in Live /\ step' = [step EXCEPT ![s].status = want, ![s].version = version + 1]
    <2>1. s \in Steps
      BY <1>3 DEF Live
    <2>2. \A t \in Steps : step'[t] =
            IF t = s THEN [step[s] EXCEPT !.status = want, !.version = version + 1] ELSE step[t]
      BY <1>1, <1>3, <2>1
    <2>3. \A t \in Steps : step'[t] \in StepType /\ step'[t].position = step[t].position
      <3>1. step[s] \in StepType
        BY <1>1, <2>1
      <3>2. [step[s] EXCEPT !.status = want, !.version = version + 1] \in StepType
        <4>1. version + 1 \in Nat /\ want \in {"none", "active", "completed", "deleted"}
          OBVIOUS
        <4>. QED  BY <3>1, <4>1 DEF StepType
      <3>3. [step[s] EXCEPT !.status = want, !.version = version + 1].position = step[s].position
        BY <3>1 DEF StepType
      <3>. QED  BY <1>1, <2>2, <3>2, <3>3
    <2>4. step' \in [Steps -> StepType]
      BY <1>1, <1>3, <2>3
    <2>5. Live' \subseteq Live
      <3>1. \A t \in Live' : t \in Steps /\ step'[t].status \in {"active", "completed"}
        BY DEF Live
      <3>. QED  BY <1>3, <2>2, <3>1 DEF Live
    <2>. QED  BY <2>3, <2>4, <2>5
  <1>. QED  BY <1>2, <1>3 DEF UpdateStep

LEMMA StepBeginKeeps ==
  ASSUME TodoInv, NEW c \in Clients, StepBegin(c)
  PROVE  TodoInv'
  <1>1. PICK s \in Live, want \in {"active", "completed"} :
          TodoBegin(c, [Idle EXCEPT !.pc = "write", !.since = todo.version, !.step = s,
                                    !.version = step[s].version, !.want = want])
    BY DEF StepBegin
  <1>. DEFINE q == [Idle EXCEPT !.pc = "write", !.since = todo.version, !.step = s,
                                !.version = step[s].version, !.want = want]
  <1>2. s \in Steps /\ step[s].version \in Nat /\ todo.version \in Nat
    BY DEF TodoInv, TodoTypeOK, StepType, Live
  <1>3. q \in ClientType /\ q.pc = "write" /\ q.want \in {"active", "completed"}
    BY <1>2, IdleIsAClient DEF ClientType
  <1>4. /\ client' = [client EXCEPT ![c] = q] /\ ops' = ops + 1
        /\ UNCHANGED <<todo, step, nextId, lock>>
    BY <1>1 DEF StepBegin, TodoBegin
  <1>. HIDE DEF q
  <1>5. TodoTypeOK'
    BY <1>3, <1>4 DEF TodoInv, TodoTypeOK
  <1>6. \A d \in Clients : client'[d] = IF d = c THEN q ELSE client[d]
    BY <1>4 DEF TodoInv, TodoTypeOK
  <1>7. WriteInv'
    BY <1>3, <1>6 DEF TodoInv, WriteInv
  <1>8. \A d \in Clients : client'[d].pc = "insert" => client'[d] = client[d]
    BY <1>3, <1>6
  <1>9. Live' = Live
    BY <1>4 DEF Live
  <1>. QED  BY <1>4, <1>5, <1>7, <1>8, <1>9, QuietStepsKeep

LEMMA StepWriteKeeps ==
  ASSUME TodoInv, NEW c \in Clients, StepWrite(c)
  PROVE  TodoInv'
  <1>1. client \in [Clients -> ClientType] /\ client[c] \in ClientType
    BY DEF TodoInv, TodoTypeOK
  <1>2. client[c].version \in Nat /\ client[c].want \in {"active", "completed"}
    BY <1>1 DEF TodoInv, WriteInv, StepWrite, ClientType
  <1>3. /\ step' \in [Steps -> StepType] /\ Live' \subseteq Live
        /\ \A t \in Steps : step'[t].position = step[t].position
    BY <1>2, UpdateStepIsQuiet DEF StepWrite
  <1>4. client' = [client EXCEPT ![c] = Idle] /\ UNCHANGED <<todo, nextId, lock, ops>>
    BY DEF StepWrite, Return
  <1>5. TodoTypeOK'
    BY <1>1, <1>3, <1>4, IdleIsAClient DEF TodoInv, TodoTypeOK
  <1>6. \A d \in Clients : client'[d] = client[d] \/ client'[d].pc = "idle"
    BY <1>1, <1>4 DEF Idle
  <1>7. WriteInv'
    BY <1>6 DEF TodoInv, WriteInv
  <1>. QED  BY <1>3, <1>4, <1>5, <1>6, <1>7, QuietStepsKeep

LEMMA OwnStepsKeep ==
  ASSUME TodoInv, NEW s \in Steps, RenameStep(s) \/ DeleteStep(s)
  PROVE  TodoInv'
  <1>1. step \in [Steps -> StepType] /\ s \in Live
    BY DEF TodoInv, TodoTypeOK, RenameStep, DeleteStep
  <1>2. UNCHANGED <<todo, nextId, lock, client>> /\ ops' = ops + 1
    BY DEF RenameStep, DeleteStep
  <1>3. /\ step' \in [Steps -> StepType]
        /\ \A t \in Steps : step'[t].position = step[t].position
    <2>1. CASE step' = [step EXCEPT ![s].version = @ + 1]
      BY <1>1, <2>1 DEF StepType
    <2>2. CASE step' = [step EXCEPT ![s].status = "deleted"]
      BY <1>1, <2>2 DEF StepType
    <2>. QED  BY <2>1, <2>2 DEF RenameStep, DeleteStep
  <1>4. Live' \subseteq Live
    <2>1. \A t \in Steps : t # s => step'[t] = step[t]
      BY <1>1 DEF RenameStep, DeleteStep
    <2>. QED  BY <1>1, <2>1 DEF Live
  <1>5. TodoTypeOK'
    BY <1>2, <1>3 DEF TodoInv, TodoTypeOK
  <1>6. WriteInv'
    BY <1>2 DEF TodoInv, WriteInv
  <1>. QED  BY <1>2, <1>3, <1>4, <1>5, <1>6, QuietStepsKeep

LEMMA CompleteBeginKeeps ==
  ASSUME TodoInv, NEW c \in Clients, CompleteBegin(c)
  PROVE  TodoInv'
  <1>1. PICK pc \in {"list", "cascade"} :
          TodoBegin(c, [Idle EXCEPT !.pc = pc, !.since = todo.version])
    BY DEF CompleteBegin
  <1>. DEFINE q == [Idle EXCEPT !.pc = pc, !.since = todo.version]
  <1>2. q \in ClientType /\ q.pc \notin {"insert", "write"}
    <2>1. todo.version \in Nat
      BY DEF TodoInv, TodoTypeOK
    <2>. QED  BY <2>1, IdleIsAClient DEF ClientType
  <1>3. /\ client' = [client EXCEPT ![c] = q] /\ ops' = ops + 1
        /\ UNCHANGED <<todo, step, nextId, lock>>
    BY <1>1 DEF CompleteBegin, TodoBegin
  <1>. HIDE DEF q
  <1>4. TodoTypeOK'
    BY <1>2, <1>3 DEF TodoInv, TodoTypeOK
  <1>. QED  BY <1>2, <1>3, <1>4, MovesKeep

LEMMA ListedIsTyped ==
  ASSUME TodoInv, NEW S \in SUBSET Steps
  PROVE  Listed(S) \in SUBSET (Steps \X Nat)
  BY DEF TodoInv, TodoTypeOK, StepType, Listed

LEMMA CascadeListKeeps ==
  ASSUME TodoInv, NEW c \in Clients, CascadeList(c)
  PROVE  TodoInv'
  <1>. DEFINE q == [client[c] EXCEPT !.pc = IF Remaining = {} THEN "list" ELSE "tick",
                                     !.seen = Listed(Remaining)]
  <1>1. client[c] \in ClientType /\ client \in [Clients -> ClientType]
    BY DEF TodoInv, TodoTypeOK
  <1>2. Listed(Remaining) \in SUBSET (Steps \X Nat)
    BY ListedIsTyped DEF Remaining
  <1>3. q \in ClientType /\ q.pc \notin {"insert", "write"}
    BY <1>1, <1>2 DEF ClientType
  <1>4. client' = [client EXCEPT ![c] = q] /\ UNCHANGED <<todo, step, nextId, lock, ops>>
    BY <1>1 DEF CascadeList
  <1>. HIDE DEF q
  <1>5. TodoTypeOK'
    BY <1>3, <1>4 DEF TodoInv, TodoTypeOK
  <1>. QED  BY <1>3, <1>4, <1>5, MovesKeep

LEMMA CascadeTickKeeps ==
  ASSUME TodoInv, NEW c \in Clients, CascadeTick(c)
  PROVE  TodoInv'
  <1>1. client[c] \in ClientType /\ client \in [Clients -> ClientType]
    BY DEF TodoInv, TodoTypeOK
  <1>2. PICK x \in client[c].seen :
          /\ UpdateStep(x[1], x[2], "completed")
          /\ client' = [client EXCEPT ![c].seen = @ \ {x},
                                      ![c].pc = IF client[c].seen = {x} THEN "list" ELSE "tick"]
    BY DEF CascadeTick
  <1>3. x[2] \in Nat
    BY <1>1 DEF ClientType
  <1>4. /\ step' \in [Steps -> StepType] /\ Live' \subseteq Live
        /\ \A t \in Steps : step'[t].position = step[t].position
    BY <1>2, <1>3, UpdateStepIsQuiet
  <1>. DEFINE q == [client[c] EXCEPT !.seen = @ \ {x},
                                     !.pc = IF client[c].seen = {x} THEN "list" ELSE "tick"]
  <1>5. q \in ClientType /\ q.pc \notin {"insert", "write"}
    BY <1>1 DEF ClientType
  <1>6. client' = [client EXCEPT ![c] = q] /\ UNCHANGED <<todo, nextId, lock, ops>>
    BY <1>1, <1>2 DEF CascadeTick
  <1>. HIDE DEF q
  <1>7. TodoTypeOK'
    BY <1>4, <1>5, <1>6 DEF TodoInv, TodoTypeOK
  <1>8. \A d \in Clients : client'[d] = client[d] \/ client'[d].pc \notin {"insert", "write"}
    BY <1>1, <1>5, <1>6
  <1>9. WriteInv' /\ \A d \in Clients : client'[d].pc = "insert" => client'[d] = client[d]
    BY <1>8 DEF TodoInv, WriteInv
  <1>. QED  BY <1>4, <1>6, <1>7, <1>9, QuietStepsKeep

LEMMA CompleteListKeeps ==
  ASSUME TodoInv, NEW c \in Clients, CompleteList(c)
  PROVE  TodoInv'
  <1>. DEFINE q == IF MayComplete THEN [client[c] EXCEPT !.pc = "swap", !.seen = Listed(Live)]
                   ELSE Idle
  <1>1. client[c] \in ClientType /\ client \in [Clients -> ClientType]
    BY DEF TodoInv, TodoTypeOK
  <1>2. Listed(Live) \in SUBSET (Steps \X Nat)
    BY ListedIsTyped DEF Live
  <1>3. q \in ClientType /\ q.pc \notin {"insert", "write"}
    <2>1. [client[c] EXCEPT !.pc = "swap", !.seen = Listed(Live)] \in ClientType
      BY <1>1, <1>2 DEF ClientType
    <2>2. [client[c] EXCEPT !.pc = "swap", !.seen = Listed(Live)].pc = "swap"
      BY <1>1 DEF ClientType
    <2>. QED  BY <2>1, <2>2, IdleIsAClient DEF Idle
  <1>4. client' = [client EXCEPT ![c] = q] /\ UNCHANGED <<todo, step, nextId, lock, ops>>
    BY <1>1 DEF CompleteList
  <1>. HIDE DEF q
  <1>5. TodoTypeOK'
    BY <1>3, <1>4 DEF TodoInv, TodoTypeOK
  <1>. QED  BY <1>3, <1>4, <1>5, MovesKeep

LEMMA CompleteSwapKeeps ==
  ASSUME TodoInv, NEW c \in Clients, CompleteSwap(c)
  PROVE  TodoInv'
  <1>1. client' = [client EXCEPT ![c] = Idle] /\ UNCHANGED <<step, nextId, lock, ops>>
    BY DEF CompleteSwap, Return
  <1>2. TodoTypeOK'
    BY <1>1, IdleIsAClient DEF TodoInv, TodoTypeOK, CompleteSwap
  <1>. QED  BY <1>1, <1>2, IdleIsAClient, MovesKeep DEF Idle

-----------------------------------------------------------------------------
(* reopen, edit_todo_title, and the death of the process.                         *)

LEMMA TodoRowKeeps ==
  ASSUME TodoInv, Reopen \/ EditTitle
  PROVE  TodoInv'
  <1>1. UNCHANGED <<step, nextId, lock, client>>
    BY DEF Reopen, EditTitle
  <1>2. TodoTypeOK'
    BY <1>1 DEF TodoInv, TodoTypeOK, Reopen, EditTitle
  <1>3. Live' = Live /\ WriteInv'
    BY <1>1 DEF Live, TodoInv, WriteInv
  <1>. QED  BY <1>1, <1>2, <1>3, QuietStepsKeep

LEMMA RestartKeeps ==
  ASSUME TodoInv, TodoRestart
  PROVE  TodoInv'
  <1>1. \A c \in Clients : client'[c].pc = "idle"
    BY DEF TodoRestart, Idle
  <1>2. TodoTypeOK'
    BY IdleIsAClient DEF TodoRestart, TodoInv, TodoTypeOK
  <1>3. Live' = Live
    BY DEF TodoRestart, Live
  <1>4. PlaceInv' /\ UnusedInv'
    BY <1>3 DEF TodoRestart, TodoInv, PlaceInv, UnusedInv
  <1>. QED  BY <1>1, <1>2, <1>4 DEF TodoInv, LockInv, RoomInv, WriteInv

LEMMA TodoStutterKeeps == TodoInv /\ UNCHANGED todoVars => TodoInv'
  <1>. SUFFICES ASSUME TodoInv, UNCHANGED todoVars PROVE TodoInv'
    OBVIOUS
  <1>1. UNCHANGED <<todo, step, nextId, lock, client, ops>> /\ Live' = Live
    BY DEF todoVars, Live
  <1>2. TodoTypeOK' /\ WriteInv'
    BY <1>1 DEF TodoInv, TodoTypeOK, WriteInv
  <1>. QED  BY <1>1, <1>2, QuietStepsKeep

LEMMA TodoStepKeeps == TodoInv /\ [TodoNext]_todoVars => TodoInv'
  <1>. SUFFICES ASSUME TodoInv, TodoNext PROVE TodoInv'
    BY TodoStutterKeeps
  <1>1. CASE \E c \in Clients : AddBegin(c) \/ StepBegin(c) \/ CompleteBegin(c)
    BY <1>1, AddBeginKeeps, StepBeginKeeps, CompleteBeginKeeps
  <1>2. CASE \E c \in Clients : Adding(c)
    BY <1>2, AddCountKeeps, AddLockKeeps, AddInsertKeeps DEF Adding
  <1>3. CASE \E c \in Clients : StepWrite(c)
    BY <1>3, StepWriteKeeps
  <1>4. CASE \E c \in Clients : Completing(c)
    BY <1>4, CascadeListKeeps, CascadeTickKeeps, CompleteListKeeps, CompleteSwapKeeps DEF Completing
  <1>5. CASE \E s \in Steps : RenameStep(s) \/ DeleteStep(s)
    BY <1>5, OwnStepsKeep
  <1>6. CASE Reopen \/ EditTitle
    BY <1>6, TodoRowKeeps
  <1>7. CASE TodoRestart
    BY <1>7, RestartKeeps
  <1>. QED  BY <1>1, <1>2, <1>3, <1>4, <1>5, <1>6, <1>7 DEF TodoNext

-----------------------------------------------------------------------------
(* Distinct positions within the limit bound the number of steps: the position   *)
(* is an injection of the live steps into 1 .. MaxStepsPerTodo.                   *)
LEMMA PlacesBoundSteps == TodoInv => AtMostMaxSteps
  <1>. SUFFICES ASSUME TodoInv PROVE AtMostMaxSteps
    OBVIOUS
  <1>. DEFINE f == [s \in Live |-> step[s].position]
  <1>1. \A s \in Live : step[s].position \in 1 .. MaxStepsPerTodo
    BY DEF Live, TodoInv, TodoTypeOK, PlaceInv, StepType
  <1>2. f \in [Live -> 1 .. MaxStepsPerTodo]
    BY <1>1
  <1>3. \A s, t \in Live : f[s] = f[t] => s = t
    BY DEF TodoInv, PlaceInv
  <1>4. f \in Injection(Live, 1 .. MaxStepsPerTodo)
    BY <1>2, <1>3 DEF Injection, IsInjective
  <1>5. IsFiniteSet(1 .. MaxStepsPerTodo) /\ Cardinality(1 .. MaxStepsPerTodo) = MaxStepsPerTodo
    BY FS_Interval
  <1>6. Cardinality(Live) <= Cardinality(1 .. MaxStepsPerTodo)
    BY <1>4, <1>5, FS_Injection
  <1>. QED  BY <1>5, <1>6 DEF AtMostMaxSteps

LEMMA RoomMeansNoCollision == TodoInv => InsertsNeverCollide
  <1>. SUFFICES ASSUME TodoInv, NEW c \in Clients, client[c].pc = "insert", NEW s \in Live
                PROVE  step[s].position \notin Claimed(c)
    BY DEF InsertsNeverCollide, Collides
  <1>1. step[s].position <= client[c].last
    BY DEF TodoInv, RoomInv, AboveAll
  <1>2. step[s].position \in Nat /\ client[c].last \in Nat /\ client[c].n \in Nat
    BY DEF TodoInv, TodoTypeOK, Live, StepType, ClientType
  <1>. QED  BY <1>1, <1>2 DEF Claimed

(* For any clients, limits and interleaving, the todo, its steps and the          *)
(* operations in flight keep their types (add_steps, create_steps, update_step).  *)
THEOREM TodoTypeCorrect == TodoSpec => []TodoTypeOK
  <1>1. TodoInv => TodoTypeOK
    BY DEF TodoInv
  <1>. QED  BY TodoInitEstablishes, TodoStepKeeps, <1>1, PTL DEF TodoSpec

(* For any clients and limits, an insert never meets a taken position and a todo  *)
(* never holds more steps than its limit: the judgement and the insert of         *)
(* create_steps under one lock are enough, although removals, completions and     *)
(* restarts take none and the limit is judged on the last position.               *)
THEOREM StepsStayInPlace == TodoSpec => []StepsKeepTheirPlaces
  <1>1. TodoInv => StepsKeepTheirPlaces
    BY PlacesBoundSteps, RoomMeansNoCollision DEF StepsKeepTheirPlaces
  <1>. QED  BY TodoInitEstablishes, TodoStepKeeps, <1>1, PTL DEF TodoSpec

-----------------------------------------------------------------------------
(* What an operation read of the todo, and what a completion listed, while others  *)
(* went on.  Whoever may bring a step back to life read the todo active; whoever   *)
(* is about to complete the todo listed no step that remains in that version.      *)
Reviving(q) == q.pc \in {"count", "wait", "insert"} \/ (q.pc = "write" /\ q.want = "active")
EarlierInv ==
    \A c \in Clients : Reviving(client[c]) =>
        /\ client[c].since <= todo.version
        /\ todo.status = "completed" => client[c].since < todo.version
ListedDone(x) ==
    /\ x[1] < nextId /\ x[2] <= step[x[1]].version
    /\ step[x[1]].version = x[2] => step[x[1]].status # "active"
SeenInv ==
    \A c \in Clients : client[c].pc = "swap" => \A x \in client[c].seen : ListedDone(x)
ReadInv == TodoInv /\ EarlierInv /\ SeenInv

(* A step of the specification in these terms: every write of the todo, and every  *)
(* write that makes a step active, counts a version; a step keeps its id.           *)
TodoAges == todo' = todo \/ todo'.version = todo.version + 1
Ages(s) ==
    /\ step'[s].version >= step[s].version
    /\ step'[s].version = step[s].version /\ step'[s].status = "active" => step[s].status = "active"
StepsAge == nextId' >= nextId /\ \A s \in Steps : s < nextId => Ages(s)
ClientMovesOn(p, q) ==
    /\ q.pc # "swap"
    /\ Reviving(q) => \/ Reviving(p) /\ q.since = p.since
                      \/ q.since = todo.version /\ todo.status = "active" /\ todo' = todo
Lists(q) == Remaining = {} /\ q.seen = Listed(Live) /\ UNCHANGED <<todo, step, nextId>> /\ ~Reviving(q)
ClientsMove ==
    \A d \in Clients :
        client'[d] = client[d] \/ ClientMovesOn(client[d], client'[d]) \/ Lists(client'[d])

LEMMA ListedFacts ==
  ASSUME TodoInv, Remaining = {}, NEW x \in Listed(Live)
  PROVE  ListedDone(x)
  <1>1. PICK s \in Live : x = <<s, step[s].version>>
    BY DEF Listed
  <1>2. s \in Steps /\ s < nextId /\ step[s].version \in Nat /\ step[s].status # "active"
    BY DEF Live, Remaining, TodoInv, TodoTypeOK, StepType, UnusedInv
  <1>. QED  BY <1>1, <1>2 DEF ListedDone

LEMMA ReadsAreKept ==
  ASSUME ReadInv, TodoInv', TodoAges, StepsAge, ClientsMove
  PROVE  ReadInv'
  <1>1. todo.version \in Nat /\ todo'.version \in Nat
    BY DEF ReadInv, TodoInv, TodoTypeOK
  <1>2. EarlierInv'
    <2>. SUFFICES ASSUME NEW d \in Clients, Reviving(client'[d])
                  PROVE  /\ client'[d].since <= todo'.version
                         /\ todo'.status = "completed" => client'[d].since < todo'.version
      BY DEF EarlierInv, Reviving
    <2>1. client'[d].since \in Nat
      BY DEF TodoInv, TodoTypeOK, ClientType
    <2>2. CASE Reviving(client[d]) /\ client'[d].since = client[d].since
      <3>1. /\ client[d].since <= todo.version
            /\ todo.status = "completed" => client[d].since < todo.version
        BY <2>2 DEF ReadInv, EarlierInv
      <3>. QED  BY <1>1, <2>1, <2>2, <3>1 DEF TodoAges
    <2>3. CASE client'[d].since = todo.version /\ todo.status = "active" /\ todo' = todo
      BY <1>1, <2>3
    <2>. QED  BY <2>2, <2>3 DEF ClientsMove, ClientMovesOn, Lists
  <1>3. SeenInv'
    <2>. SUFFICES ASSUME NEW d \in Clients, client'[d].pc = "swap", NEW x \in client'[d].seen
                  PROVE  ListedDone(x)'
      BY DEF SeenInv
    <2>1. CASE client'[d] = client[d]
      <3>1. x[1] \in Steps /\ x[2] \in Nat
        BY DEF TodoInv, TodoTypeOK, ClientType
      <3>2. ListedDone(x)
        BY <2>1 DEF ReadInv, SeenInv
      <3>3. Ages(x[1]) /\ x[1] < nextId /\ nextId \in Nat /\ nextId' \in Nat /\ nextId <= nextId'
        BY <3>1, <3>2 DEF StepsAge, ListedDone, ReadInv, TodoInv, TodoTypeOK
      <3>4. step[x[1]].version \in Nat /\ step'[x[1]].version \in Nat /\ x[1] \in Nat
        BY <3>1, StepsAreNat DEF ReadInv, TodoInv, TodoTypeOK, StepType
      <3>. QED  BY <3>1, <3>2, <3>3, <3>4 DEF ListedDone, Ages
    <2>2. CASE Lists(client'[d])
      <3>1. x \in Listed(Live) /\ Remaining = {} /\ step' = step /\ nextId' = nextId
        BY <2>2 DEF Lists
      <3>2. ListedDone(x)
        BY <3>1, ListedFacts DEF ReadInv
      <3>. QED  BY <3>1, <3>2 DEF ListedDone
    <2>. QED  BY <2>1, <2>2 DEF ClientsMove, ClientMovesOn
  <1>. QED  BY <1>2, <1>3 DEF ReadInv

(* Steps that leave the steps alone, and steps of one client. *)
LEMMA NoStepAges ==
  ASSUME TodoInv, step' = step, nextId' = nextId
  PROVE  StepsAge
  BY DEF StepsAge, Ages, TodoInv, TodoTypeOK, StepType

LEMMA OneClientMoves ==
  ASSUME TodoInv, NEW c \in Clients, NEW q, client' = [client EXCEPT ![c] = q],
         ClientMovesOn(client[c], q) \/ Lists(q)
  PROVE  ClientsMove
  <1>1. \A d \in Clients : client'[d] = IF d = c THEN q ELSE client[d]
    BY DEF TodoInv, TodoTypeOK
  <1>. QED  BY <1>1 DEF ClientsMove

LEMMA IdleMovesOn == \A p : ClientMovesOn(p, Idle)
  BY DEF ClientMovesOn, Reviving, Idle

(* The operations of one client; which stages revive, and from where. *)
LEMMA AddingReads ==
  ASSUME TodoInv, NEW c \in Clients, AddBegin(c) \/ AddCount(c) \/ AddLock(c)
  PROVE  TodoAges /\ StepsAge /\ ClientsMove
  <1>1. UNCHANGED <<todo, step, nextId>> /\ client[c] \in ClientType
    BY DEF AddBegin, AddCount, AddLock, TodoInv, TodoTypeOK
  <1>2. \E q : client' = [client EXCEPT ![c] = q] /\ ClientMovesOn(client[c], q)
    <2>1. CASE AddBegin(c)
      <3>1. PICK n \in 1 .. MaxStepsPerAdd :
              client' = [client EXCEPT ![c] = [Idle EXCEPT !.pc = "count", !.since = todo.version, !.n = n]]
        BY <2>1 DEF AddBegin, TodoBegin
      <3>2. ClientMovesOn(client[c], [Idle EXCEPT !.pc = "count", !.since = todo.version, !.n = n])
        BY <1>1, <2>1 DEF ClientMovesOn, Idle, AddBegin, MayAdd
      <3>. QED  BY <3>1, <3>2
    <2>2. CASE client' = [client EXCEPT ![c] = Idle]
      BY <2>2, IdleMovesOn
    <2>3. CASE /\ client[c].pc = "count"
               /\ client' = [client EXCEPT ![c] = [client[c] EXCEPT !.pc = "wait"]]
      <3>1. ClientMovesOn(client[c], [client[c] EXCEPT !.pc = "wait"])
        BY <1>1, <2>3 DEF ClientMovesOn, Reviving, ClientType
      <3>. QED  BY <2>3, <3>1
    <2>4. ASSUME NEW p, client[c].pc = "wait",
                 client' = [client EXCEPT ![c] = [client[c] EXCEPT !.pc = "insert", !.last = p]]
          PROVE  \E q : client' = [client EXCEPT ![c] = q] /\ ClientMovesOn(client[c], q)
      <3>1. ClientMovesOn(client[c], [client[c] EXCEPT !.pc = "insert", !.last = p])
        BY <1>1, <2>4 DEF ClientMovesOn, Reviving, ClientType
      <3>. QED  BY <2>4, <3>1
    <2>5. CASE AddCount(c)
      BY <2>2, <2>3, <2>5 DEF AddCount, Go, Return
    <2>6. CASE AddLock(c)
      BY <2>2, <2>4, <2>6 DEF AddLock, Return
    <2>. QED  BY <2>1, <2>5, <2>6
  <1>. QED  BY <1>1, <1>2, NoStepAges, OneClientMoves DEF TodoAges

LEMMA InsertReads ==
  ASSUME TodoInv, NEW c \in Clients, AddInsert(c)
  PROVE  TodoAges /\ StepsAge /\ ClientsMove
  <1>1. todo' = todo /\ client' = [client EXCEPT ![c] = Idle] /\ nextId' = nextId + client[c].n
    BY DEF AddInsert, Return
  <1>2. nextId \in Nat /\ client[c].n \in Nat
    BY DEF TodoInv, TodoTypeOK, ClientType
  <1>3. ASSUME NEW s \in Steps, s < nextId  PROVE step'[s] = step[s]
    <2>1. s \notin nextId .. (nextId + client[c].n - 1)
      BY <1>2, <1>3, StepsAreNat
    <2>. QED  BY <2>1 DEF AddInsert
  <1>4. StepsAge
    BY <1>1, <1>2, <1>3 DEF StepsAge, Ages, TodoInv, TodoTypeOK, StepType
  <1>. QED  BY <1>1, <1>4, IdleMovesOn, OneClientMoves DEF TodoAges

LEMMA UpdateAges ==
  ASSUME TodoInv, NEW s, NEW version \in Nat, NEW want \in {"active", "completed"},
         UpdateStep(s, version, want), nextId' = nextId
  PROVE  StepsAge
  <1>1. step \in [Steps -> StepType] /\ nextId \in Nat
    BY DEF TodoInv, TodoTypeOK
  <1>2. CASE step' = step
    BY <1>2, NoStepAges
  <1>3. CASE /\ s \in Live /\ step[s].version = version
             /\ step' = [step EXCEPT ![s].status = want, ![s].version = version + 1]
    <2>1. s \in Steps /\ step[s] \in StepType
      BY <1>1, <1>3 DEF Live
    <2>2. step'[s].version = version + 1
      BY <1>1, <1>3, <2>1 DEF StepType
    <2>3. \A t \in Steps : t # s => step'[t] = step[t]
      BY <1>1, <1>3, <2>1
    <2>4. \A t \in Steps : step[t].version \in Nat
      BY <1>1 DEF StepType
    <2>. QED  BY <1>1, <1>3, <2>2, <2>3, <2>4 DEF StepsAge, Ages
  <1>. QED  BY <1>2, <1>3 DEF UpdateStep

LEMMA StepOperationReads ==
  ASSUME TodoInv, NEW c \in Clients, StepBegin(c) \/ StepWrite(c)
  PROVE  TodoAges /\ StepsAge /\ ClientsMove
  <1>1. CASE StepBegin(c)
    <2>1. PICK s \in Live, want \in {"active", "completed"} :
            /\ MayWrite(want)
            /\ client' = [client EXCEPT ![c] =
                  [Idle EXCEPT !.pc = "write", !.since = todo.version, !.step = s,
                               !.version = step[s].version, !.want = want]]
      BY <1>1 DEF StepBegin, TodoBegin
    <2>. DEFINE q == [Idle EXCEPT !.pc = "write", !.since = todo.version, !.step = s,
                                  !.version = step[s].version, !.want = want]
    <2>2. UNCHANGED <<todo, step, nextId>>
      BY <1>1 DEF StepBegin
    <2>3. ClientMovesOn(client[c], q)
      BY <2>1, <2>2 DEF ClientMovesOn, Reviving, Idle, MayWrite
    <2>. QED  BY <2>1, <2>2, <2>3, NoStepAges, OneClientMoves DEF TodoAges
  <1>2. CASE StepWrite(c)
    <2>1. client[c].version \in Nat /\ client[c].want \in {"active", "completed"}
      BY <1>2 DEF TodoInv, TodoTypeOK, WriteInv, StepWrite, ClientType
    <2>2. /\ todo' = todo /\ nextId' = nextId /\ client' = [client EXCEPT ![c] = Idle]
          /\ UpdateStep(client[c].step, client[c].version, client[c].want)
      BY <1>2 DEF StepWrite, Return
    <2>. QED  BY <2>1, <2>2, UpdateAges, IdleMovesOn, OneClientMoves DEF TodoAges
  <1>. QED  BY <1>1, <1>2

LEMMA OwnStepsRead ==
  ASSUME TodoInv, NEW s \in Steps, RenameStep(s) \/ DeleteStep(s)
  PROVE  TodoAges /\ StepsAge /\ ClientsMove
  <1>1. UNCHANGED <<todo, nextId, client>> /\ step \in [Steps -> StepType] /\ nextId \in Nat
    BY DEF RenameStep, DeleteStep, TodoInv, TodoTypeOK
  <1>2. \A t \in Steps : t # s => step'[t] = step[t]
    BY <1>1 DEF RenameStep, DeleteStep
  <1>3. step'[s].version >= step[s].version /\ (step'[s].status = "active" => step[s].status = "active")
    <2>1. CASE RenameStep(s)
      BY <1>1, <2>1 DEF RenameStep, StepType
    <2>2. CASE DeleteStep(s)
      BY <1>1, <2>2 DEF DeleteStep, StepType
    <2>. QED  BY <2>1, <2>2
  <1>4. \A t \in Steps : step[t].version \in Nat
    BY <1>1 DEF StepType
  <1>. QED  BY <1>1, <1>2, <1>3, <1>4 DEF TodoAges, StepsAge, Ages, ClientsMove

LEMMA CompletingReads ==
  ASSUME TodoInv, NEW c \in Clients, CompleteBegin(c) \/ Completing(c)
  PROVE  TodoAges /\ StepsAge /\ ClientsMove
  <1>1. client[c] \in ClientType /\ todo \in [status: {"active", "completed"}, version: Nat]
    BY DEF TodoInv, TodoTypeOK
  <1>2. CASE CompleteBegin(c)
    <2>1. PICK pc \in {"list", "cascade"} :
            client' = [client EXCEPT ![c] = [Idle EXCEPT !.pc = pc, !.since = todo.version]]
      BY <1>2 DEF CompleteBegin, TodoBegin
    <2>2. ClientMovesOn(client[c], [Idle EXCEPT !.pc = pc, !.since = todo.version])
      BY DEF ClientMovesOn, Reviving, Idle
    <2>3. UNCHANGED <<todo, step, nextId>>
      BY <1>2 DEF CompleteBegin
    <2>. QED  BY <2>1, <2>2, <2>3, NoStepAges, OneClientMoves DEF TodoAges
  <1>3. CASE CascadeList(c)
    <2>. DEFINE q == [client[c] EXCEPT !.pc = IF Remaining = {} THEN "list" ELSE "tick",
                                       !.seen = Listed(Remaining)]
    <2>1. client' = [client EXCEPT ![c] = q] /\ UNCHANGED <<todo, step, nextId>>
      BY <1>3 DEF CascadeList
    <2>2. ClientMovesOn(client[c], q)
      BY <1>1 DEF ClientMovesOn, Reviving, ClientType
    <2>. QED  BY <2>1, <2>2, NoStepAges, OneClientMoves DEF TodoAges
  <1>4. CASE CascadeTick(c)
    <2>1. PICK x \in client[c].seen :
            /\ UpdateStep(x[1], x[2], "completed")
            /\ client' = [client EXCEPT ![c] =
                  [client[c] EXCEPT !.seen = client[c].seen \ {x},
                                    !.pc = IF client[c].seen = {x} THEN "list" ELSE "tick"]]
      BY <1>4 DEF CascadeTick
    <2>. DEFINE q == [client[c] EXCEPT !.seen = client[c].seen \ {x},
                                       !.pc = IF client[c].seen = {x} THEN "list" ELSE "tick"]
    <2>2. x[2] \in Nat /\ todo' = todo /\ nextId' = nextId
      BY <1>1, <1>4 DEF CascadeTick, ClientType
    <2>3. ClientMovesOn(client[c], q)
      BY <1>1 DEF ClientMovesOn, Reviving, ClientType
    <2>4. StepsAge
      BY <2>1, <2>2, UpdateAges
    <2>. QED  BY <2>1, <2>2, <2>3, <2>4, OneClientMoves DEF TodoAges
  <1>5. CASE CompleteList(c)
    <2>1. UNCHANGED <<todo, step, nextId>>
      BY <1>5 DEF CompleteList
    <2>2. CASE MayComplete
      <3>. DEFINE q == [client[c] EXCEPT !.pc = "swap", !.seen = Listed(Live)]
      <3>1. client' = [client EXCEPT ![c] = q]
        BY <1>5, <2>2 DEF CompleteList
      <3>2. Lists(q)
        BY <1>1, <2>1, <2>2 DEF Lists, Reviving, ClientType, MayComplete
      <3>. QED  BY <2>1, <3>1, <3>2, NoStepAges, OneClientMoves DEF TodoAges
    <2>3. CASE ~MayComplete
      <3>1. client' = [client EXCEPT ![c] = Idle]
        BY <1>5, <2>3 DEF CompleteList
      <3>. QED  BY <2>1, <3>1, NoStepAges, IdleMovesOn, OneClientMoves DEF TodoAges
    <2>. QED  BY <2>2, <2>3
  <1>6. CASE CompleteSwap(c)
    <2>1. client' = [client EXCEPT ![c] = Idle] /\ step' = step /\ nextId' = nextId
      BY <1>6 DEF CompleteSwap, Return
    <2>2. TodoAges
      BY <1>1, <1>6 DEF CompleteSwap, TodoAges
    <2>. QED  BY <2>1, <2>2, NoStepAges, IdleMovesOn, OneClientMoves
  <1>. QED  BY <1>2, <1>3, <1>4, <1>5, <1>6 DEF Completing

LEMMA RowReads ==
  ASSUME TodoInv, Reopen \/ EditTitle \/ TodoRestart \/ UNCHANGED todoVars
  PROVE  TodoAges /\ StepsAge /\ ClientsMove
  <1>1. step' = step /\ nextId' = nextId
    BY DEF Reopen, EditTitle, TodoRestart, todoVars
  <1>2. TodoAges
    BY DEF TodoAges, Reopen, EditTitle, TodoRestart, todoVars, TodoInv, TodoTypeOK
  <1>3. ClientsMove
    <2>1. CASE client' = client
      BY <2>1 DEF ClientsMove
    <2>2. CASE client' = [c \in Clients |-> Idle]
      BY <2>2, IdleMovesOn DEF ClientsMove
    <2>. QED  BY <2>1, <2>2 DEF Reopen, EditTitle, TodoRestart, todoVars
  <1>. QED  BY <1>1, <1>2, <1>3, NoStepAges

LEMMA ReadBegins == TodoInit => ReadInv
  <1>. SUFFICES ASSUME TodoInit PROVE EarlierInv /\ SeenInv
    BY TodoInitEstablishes DEF ReadInv
  <1>1. \A c \in Clients : client[c].pc = "idle"
    BY DEF TodoInit, Idle
  <1>. QED  BY <1>1 DEF EarlierInv, SeenInv, Reviving

LEMMA ReadSteps == ReadInv /\ [TodoNext]_todoVars => ReadInv'
  <1>. SUFFICES ASSUME ReadInv, [TodoNext]_todoVars PROVE ReadInv'
    OBVIOUS
  <1>1. TodoInv /\ TodoInv'
    BY TodoStepKeeps DEF ReadInv
  <1>2. TodoAges /\ StepsAge /\ ClientsMove
    BY <1>1, AddingReads, InsertReads, StepOperationReads, OwnStepsRead, CompletingReads, RowReads
       DEF TodoNext, Adding
  <1>. QED  BY <1>1, <1>2, ReadsAreKept

(* Which steps of the specification bring a step to life: an insert that met no      *)
(* taken position, and the reopening of a step.                                      *)
LEMMA WhoRevives ==
  ASSUME TodoInv, [TodoNext]_todoVars, ~(Remaining' \subseteq Remaining)
  PROVE  \E c \in Clients : Reviving(client[c]) /\ client[c].pc \in {"insert", "write"} /\ client'[c].pc = "idle"
  <1>1. PICK s \in Steps : step'[s].status = "active" /\ step[s].status # "active"
    BY DEF Remaining
  <1>2. step \in [Steps -> StepType] /\ client \in [Clients -> ClientType]
    BY DEF TodoInv, TodoTypeOK
  <1>3. ASSUME NEW t, NEW version, UpdateStep(t, version, "completed")
        PROVE  FALSE
    <2>1. CASE step' = [step EXCEPT ![t].status = "completed", ![t].version = version + 1] /\ t \in Live
      BY <1>1, <1>2, <2>1 DEF Live, StepType
    <2>. QED  BY <1>1, <1>3, <2>1 DEF UpdateStep
  <1>4. CASE \E c \in Clients : AddInsert(c)
    BY <1>2, <1>4 DEF AddInsert, Return, Reviving, Idle
  <1>5. CASE \E c \in Clients : StepWrite(c)
    <2>1. PICK c \in Clients : StepWrite(c)
      BY <1>5
    <2>2. client[c].pc = "write" /\ client'[c] = Idle /\ client[c].want \in {"active", "completed"}
      BY <1>2, <2>1 DEF StepWrite, Return, TodoInv, WriteInv
    <2>3. client[c].want # "completed"
      BY <1>3, <2>1 DEF StepWrite
    <2>. QED  BY <2>2, <2>3 DEF Reviving, Idle
  <1>6. CASE \E c \in Clients : CascadeTick(c)
    BY <1>3, <1>6 DEF CascadeTick
  <1>7. CASE \E t \in Steps : RenameStep(t) \/ DeleteStep(t)
    BY <1>1, <1>2, <1>7 DEF RenameStep, DeleteStep, StepType
  <1>8. CASE step' = step
    BY <1>1, <1>8
  <1>. QED
    BY <1>4, <1>5, <1>6, <1>7, <1>8
       DEF TodoNext, Adding, Completing, AddBegin, AddCount, AddLock, StepBegin, CompleteBegin,
           CascadeList, CompleteList, CompleteSwap, Reopen, EditTitle, TodoRestart, todoVars

(* For any clients and limits, a step comes to life under a completed todo only by an *)
(* operation that read the todo before it was completed (add_steps, set_step_status).  *)
THEOREM OnlyEarlierRevive == TodoSpec => OnlyEarlierOperationsReviveSteps
  <1>. DEFINE P == todo.status = "completed" /\ ~(Remaining' \subseteq Remaining)
                      => \E c \in Clients : /\ client[c].pc \in {"insert", "write"}
                                            /\ client'[c].pc = "idle"
                                            /\ client[c].since < todo.version
  <1>1. ReadInv /\ [TodoNext]_todoVars => [P]_todoVars
    <2>. SUFFICES ASSUME ReadInv, [TodoNext]_todoVars PROVE P
      OBVIOUS
    <2>. QED  BY WhoRevives DEF ReadInv, EarlierInv
  <1>. QED  BY <1>1, ReadBegins, ReadSteps, PTL DEF TodoSpec, OnlyEarlierOperationsReviveSteps

(* For any clients and limits, a completion leaves a step remaining only if that step *)
(* was written after the completion listed the steps (set_status,                      *)
(* complete_todo_with_steps).                                                          *)
THEOREM CompletionsMissLaterWrites == TodoSpec => CompletionMissesOnlyLaterWrites
  <1>. DEFINE P == \A c \in Clients :
                      client[c].pc = "swap" /\ client'[c].pc = "idle" /\ todo'.version # todo.version
                      => Listed(Remaining) \cap client[c].seen = {}
  <1>1. ASSUME ReadInv  PROVE \A c \in Clients :
                      client[c].pc = "swap" => Listed(Remaining) \cap client[c].seen = {}
    <2>. SUFFICES ASSUME NEW c \in Clients, client[c].pc = "swap",
                         NEW x \in Listed(Remaining), x \in client[c].seen
                  PROVE  FALSE
      OBVIOUS
    <2>1. PICK s \in Remaining : x = <<s, step[s].version>>
      BY DEF Listed
    <2>2. ListedDone(x)
      BY <1>1 DEF ReadInv, SeenInv
    <2>. QED  BY <2>1, <2>2 DEF ListedDone, Remaining
  <1>2. ReadInv /\ [TodoNext]_todoVars => [P]_todoVars
    BY <1>1
  <1>. QED  BY <1>2, ReadBegins, ReadSteps, PTL DEF TodoSpec, CompletionMissesOnlyLaterWrites

===============================================================================
