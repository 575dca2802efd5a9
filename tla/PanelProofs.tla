------------------------------ MODULE PanelProofs ------------------------------
(***************************************************************************)
(* Proofs about the owner's panels, for any number of clicks, chats,        *)
(* messages, toggles and budgets.  CallbackGate: types; that a turn is      *)
(* handed on and shared only after a skipped waiter; that nobody overtakes; *)
(* that no view is stranded and a closed panel stays quiet.  GhostSeen:     *)
(* types; that a confirmed permission survives; and that replies go only    *)
(* where the owner allows, to what is selected.                             *)
(***************************************************************************)
EXTENDS CallbackGate, GhostSeen, FiniteSetTheorems, SequenceTheorems,
        WellFoundedInduction, TLAPS

-----------------------------------------------------------------------------
(* The gate.  Whoever waits is queued behind a turn that is in use; a turn in use *)
(* has a holder: it handles, was granted the turn, or its wait lapsed after the   *)
(* grant.  Unless a lapsed waiter was passed over, there is one holder at most.    *)

Queued(ws, c) == \E i \in DOMAIN ws : ws[i] = c
Distinct(ws) == \A i, j \in DOMAIN ws : ws[i] = ws[j] => i = j

ClickStates == [pc: {"new", "acked", "waiting", "lapsed", "granted", "handling",
                "painting", "closing", "done"},
           entry: Nat, view: Views, brush: Nat]
TurnStates == [id: Nat, busy: BOOLEAN, waiters: Seq(ClickTasks)]

HoldsTurn(clicks, tn, c) ==
    /\ clicks[c].entry = tn.id
    /\ \/ clicks[c].pc \in {"handling", "closing", "granted"}
       \/ clicks[c].pc = "lapsed" /\ ~Queued(tn.waiters, c)

QueueInv(clicks, tn) ==
    /\ Distinct(tn.waiters)
    /\ \A c \in ClickTasks :
          /\ Queued(tn.waiters, c) => clicks[c].pc \in {"waiting", "lapsed"} /\ clicks[c].entry = tn.id
          /\ clicks[c].pc = "waiting" => Queued(tn.waiters, c) /\ tn.busy
          /\ clicks[c].entry <= tn.id

HeldOnce(clicks, tn) ==
    /\ \A c, d \in ClickTasks : HoldsTurn(clicks, tn, c) /\ HoldsTurn(clicks, tn, d) => c = d
    /\ \A c \in ClickTasks : HoldsTurn(clicks, tn, c) => tn.busy
    /\ \A c \in ClickTasks :
          clicks[c].pc \in {"handling", "closing", "granted", "lapsed"} => clicks[c].entry = tn.id

TurnInv(clicks, tn, sl) ==
    /\ QueueInv(clicks, tn)
    /\ tn.busy => \E c \in ClickTasks : HoldsTurn(clicks, tn, c)
    /\ "skipped" \notin sl => HeldOnce(clicks, tn)

(* The painter and the panel.  Every view is published by a click that is over     *)
(* with it; a pending view has a painter at work; and once the panel is closed by  *)
(* a click, nobody handles one, and nothing is left to paint when that click ends. *)
LiveClicks(clicks) == {c \in ClickTasks : clicks[c].pc \notin {"painting", "done"}}
Room(clicks, p) == p.newest + Cardinality(LiveClicks(clicks)) <= Deliveries

QuietWhenClosed(clicks, p, open, sl) ==
    ~open /\ sl = {} =>
        /\ \A c \in ClickTasks : clicks[c].pc # "handling"
        /\ (\A c \in ClickTasks : clicks[c].pc # "closing") => p.pending = NoView

TurnKept(clicks, tn, p, open, sl) ==
    /\ TurnInv(clicks, tn, sl)
    /\ Room(clicks, p)
    /\ p.pending # NoView => p.busy \/ "cancelled" \in sl
    /\ QuietWhenClosed(clicks, p, open, sl)

PainterStates == [id: Nat, newest: Views, pending: Views, busy: BOOLEAN, closed: BOOLEAN]
Typed(rc, clicks, tn, p, open, sl) ==
    /\ rc \in Seq(Queries) /\ Len(rc) <= RecentLimit
    /\ clicks \in [ClickTasks -> ClickStates] /\ tn \in TurnStates /\ p \in PainterStates
    /\ open \in BOOLEAN /\ sl \in SUBSET {"skipped", "cancelled", "timer"}

GateInv ==
    /\ Typed(recent, click, turn, painter, panelOpen, slips)
    /\ TurnKept(click, turn, painter, panelOpen, slips)

-----------------------------------------------------------------------------
(* Queues. *)

LEMMA FirstIs ==
  ASSUME NEW n \in Nat, NEW S \in SUBSET (1 .. n), S # {}
  PROVE  First(S) \in S /\ \A j \in S : First(S) <= j
  <1>1. S \subseteq Nat
    OBVIOUS
  <1>2. PICK x \in S : \A y \in S : ~ (<<y, x>> \in OpToRel(<, Nat))
    BY <1>1, NatLessThanWellFounded, WFMin
  <1>3. ASSUME NEW y \in S PROVE x <= y
    <2>1. x \in Nat /\ y \in Nat /\ <<y, x>> \in Nat \X Nat
      BY <1>1
    <2>2. y < x => <<y, x>> \in OpToRel(<, Nat)
      BY <2>1 DEF OpToRel
    <2>3. ~(y < x)
      BY <1>2, <2>2, Zenon
    <2>. QED  BY <2>1, <2>3
  <1>4. \E i \in S : \A j \in S : i <= j
    BY <1>3
  <1>. QED  BY <1>4, Zenon DEF First

LEMMA TailFacts ==
  ASSUME NEW ws \in Seq(ClickTasks), NEW k \in 1 .. Len(ws)
  PROVE  /\ SubSeq(ws, k + 1, Len(ws)) \in Seq(ClickTasks)
         /\ Len(SubSeq(ws, k + 1, Len(ws))) = Len(ws) - k
         /\ \A i \in 1 .. Len(ws) - k : SubSeq(ws, k + 1, Len(ws))[i] = ws[k + i]
  <1>1. Len(ws) \in Nat /\ \A i \in 1 .. Len(ws) : ws[i] \in ClickTasks
    BY LenProperties, ElementOfSeq
  <1>2. PICK n, b : n \in Nat /\ n = Len(ws) /\ b = SubSeq(ws, k + 1, n)
    BY <1>1
  <1>3. k \in Nat /\ k <= n
    BY <1>2
  <1>4. k + 1 \in Int /\ n \in Int /\ \A i \in k + 1 .. n : ws[i] \in ClickTasks
    BY <1>1, <1>2, <1>3
  <1>5. /\ b \in Seq(ClickTasks)
        /\ Len(b) = (IF k + 1 <= n THEN n - (k + 1) + 1 ELSE 0)
        /\ \A i \in 1 .. n - (k + 1) + 1 : b[i] = ws[(k + 1) + i - 1]
    BY <1>2, <1>4, SubSeqProperties
  <1>6. \A l : l = (IF k + 1 <= n THEN n - (k + 1) + 1 ELSE 0) => l = n - k
    BY <1>2, <1>3
  <1>7. Len(b) = n - k
    BY <1>5, <1>6
  <1>8. ASSUME NEW i \in 1 .. n - k PROVE b[i] = ws[k + i]
    <2>1. i \in 1 .. n - (k + 1) + 1 /\ (k + 1) + i - 1 = k + i
      BY <1>2, <1>3
    <2>. QED  BY <1>5, <2>1
  <1>. QED  BY <1>2, <1>5, <1>7, <1>8

LEMMA WithoutFacts ==
  ASSUME NEW ws \in Seq(ClickTasks), Distinct(ws), NEW c, Queued(ws, c)
  PROVE  /\ Without(ws, c) \in Seq(ClickTasks) /\ Distinct(Without(ws, c))
         /\ \A d : Queued(Without(ws, c), d) <=> Queued(ws, d) /\ d # c
  <1> DEFINE S == {j \in DOMAIN ws : ws[j] = c}
  <1>1. Len(ws) \in Nat /\ DOMAIN ws = 1 .. Len(ws) /\ \A i \in 1 .. Len(ws) : ws[i] \in ClickTasks
    BY LenProperties, ElementOfSeq
  <1>2. PICK k : k = First(S)
    OBVIOUS
  <1>3. S \in SUBSET (1 .. Len(ws)) /\ S # {}
    BY <1>1 DEF Queued
  <1>4. k \in S
    BY <1>1, <1>2, <1>3, FirstIs
  <1>5. k \in 1 .. Len(ws) /\ ws[k] = c
    BY <1>1, <1>4
  <1>6. PICK a, b : a = SubSeq(ws, 1, k - 1) /\ b = SubSeq(ws, k + 1, Len(ws))
    OBVIOUS
  <1>7. Without(ws, c) = a \o b
    BY <1>2, <1>6 DEF Without
  <1> HIDE DEF S
  <1>8. /\ a \in Seq(ClickTasks) /\ Len(a) = k - 1 /\ \A i \in 1 .. k - 1 : a[i] = ws[i]
    BY <1>1, <1>5, <1>6, SubSeqProperties
  <1>9. /\ b \in Seq(ClickTasks) /\ Len(b) = Len(ws) - k
        /\ \A i \in 1 .. Len(ws) - k : b[i] = ws[k + i]
    BY <1>5, <1>6, TailFacts
  <1>10. PICK w : w = a \o b
    OBVIOUS
  <1>11. /\ w \in Seq(ClickTasks) /\ Len(w) = Len(ws) - 1
         /\ \A i \in 1 .. Len(ws) - 1 : w[i] = IF i < k THEN ws[i] ELSE ws[i + 1]
    <2>1. /\ w \in Seq(ClickTasks) /\ Len(w) = Len(a) + Len(b)
          /\ \A i \in 1 .. Len(a) + Len(b) : w[i] = IF i <= Len(a) THEN a[i] ELSE b[i - Len(a)]
      BY <1>8, <1>9, <1>10, ConcatProperties
    <2>2. Len(a) + Len(b) = Len(ws) - 1
      BY <1>1, <1>5, <1>8, <1>9
    <2>3. ASSUME NEW i \in 1 .. Len(ws) - 1 PROVE w[i] = IF i < k THEN ws[i] ELSE ws[i + 1]
      <3>1. w[i] = IF i <= Len(a) THEN a[i] ELSE b[i - Len(a)]
        BY <2>1, <2>2
      <3>2. CASE i < k
        <4>1. i <= Len(a) /\ i \in 1 .. k - 1
          BY <1>5, <1>8, <3>2
        <4>. QED  BY <1>8, <3>1, <3>2, <4>1
      <3>3. CASE ~(i < k)
        <4>1. ~(i <= Len(a)) /\ i - Len(a) \in 1 .. Len(ws) - k /\ k + (i - Len(a)) = i + 1
          BY <1>1, <1>5, <1>8, <3>3
        <4>. QED  BY <1>9, <3>1, <3>3, <4>1
      <3>. QED  BY <3>2, <3>3
    <2>. QED  BY <2>1, <2>2, <2>3
  <1>12. DOMAIN w = 1 .. Len(ws) - 1
    BY <1>11, LenProperties
  <1>13. Distinct(w)
    <2>1. ASSUME NEW i \in 1 .. Len(ws) - 1, NEW j \in 1 .. Len(ws) - 1, w[i] = w[j]
          PROVE  i = j
      <3>1. \A x, y \in 1 .. Len(ws) : ws[x] = ws[y] => x = y
        BY <1>1 DEF Distinct
      <3>2. i \in 1 .. Len(ws) /\ i + 1 \in 1 .. Len(ws) /\ j \in 1 .. Len(ws) /\ j + 1 \in 1 .. Len(ws)
        BY <1>1
      <3>3. (IF i < k THEN i ELSE i + 1) = (IF j < k THEN j ELSE j + 1)
        BY <1>11, <2>1, <3>1, <3>2
      <3>. QED  BY <1>5, <3>3
    <2>. QED  BY <1>12, <2>1 DEF Distinct
  <1>14. ASSUME NEW d
         PROVE  Queued(w, d) <=> Queued(ws, d) /\ d # c
    <2>1. ASSUME Queued(w, d) PROVE Queued(ws, d) /\ d # c
      <3>1. PICK i \in 1 .. Len(ws) - 1 : w[i] = d
        BY <1>12, <2>1 DEF Queued
      <3>2. \A x, y \in 1 .. Len(ws) : ws[x] = ws[y] => x = y
        BY <1>1 DEF Distinct
      <3>3. i \in 1 .. Len(ws) /\ i + 1 \in 1 .. Len(ws)
        BY <1>1
      <3>4. PICK x \in 1 .. Len(ws) : ws[x] = d /\ x # k
        BY <1>5, <1>11, <3>1, <3>3
      <3>. QED  BY <1>1, <1>5, <3>2, <3>4 DEF Queued
    <2>2. ASSUME Queued(ws, d), d # c PROVE Queued(w, d)
      <3>1. PICK i \in 1 .. Len(ws) : ws[i] = d
        BY <1>1, <2>2 DEF Queued
      <3>2. CASE i < k
        <4>1. i \in 1 .. Len(ws) - 1
          BY <1>1, <1>5, <3>1, <3>2
        <4>2. w[i] = d
          BY <1>11, <3>1, <3>2, <4>1
        <4>. QED  BY <1>12, <4>1, <4>2 DEF Queued
      <3>3. CASE i > k
        <4>1. i - 1 \in 1 .. Len(ws) - 1 /\ ~(i - 1 < k) /\ (i - 1) + 1 = i
          BY <1>1, <1>5, <3>1, <3>3
        <4>. QED  BY <1>11, <1>12, <3>1, <4>1 DEF Queued
      <3>. QED  BY <1>1, <1>5, <2>2, <3>1, <3>2, <3>3
    <2>. QED  BY <2>1, <2>2
  <1>. QED  BY <1>7, <1>10, <1>11, <1>13, <1>14

LEMMA AppendFacts ==
  ASSUME NEW ws \in Seq(ClickTasks), Distinct(ws), NEW c \in ClickTasks, ~Queued(ws, c)
  PROVE  /\ Append(ws, c) \in Seq(ClickTasks) /\ Distinct(Append(ws, c))
         /\ \A d : Queued(Append(ws, c), d) <=> Queued(ws, d) \/ d = c
  <1>1. Len(ws) \in Nat /\ DOMAIN ws = 1 .. Len(ws)
    BY LenProperties
  <1>2. PICK w : w = Append(ws, c)
    OBVIOUS
  <1>3. /\ w \in Seq(ClickTasks) /\ Len(w) = Len(ws) + 1
        /\ \A i \in 1 .. Len(ws) + 1 : w[i] = IF i = Len(ws) + 1 THEN c ELSE ws[i]
    BY <1>1, <1>2
  <1>4. DOMAIN w = 1 .. Len(ws) + 1
    BY <1>3, LenProperties
  <1>5. Distinct(w)
    BY <1>1, <1>3, <1>4 DEF Distinct, Queued
  <1>6. \A d : Queued(w, d) <=> Queued(ws, d) \/ d = c
    BY <1>1, <1>3, <1>4 DEF Queued
  <1>. QED  BY <1>2, <1>3, <1>5, <1>6

\* The first waiter whose wait has not ended, and who is left behind it.
LEMMA BehindFacts ==
  ASSUME NEW ws \in Seq(ClickTasks), Distinct(ws), NEW clicks, Pending(ws, clicks) # {}
  PROVE  \E k \in 1 .. Len(ws) :
            /\ ws[k] \in ClickTasks /\ clicks[ws[k]].pc = "waiting" /\ Successor(ws, clicks) = {ws[k]}
            /\ k \in Pending(ws, clicks) /\ \A j \in Pending(ws, clicks) : k <= j
            /\ Behind(ws, clicks) \in Seq(ClickTasks) /\ Distinct(Behind(ws, clicks))
            /\ \A d : Queued(Behind(ws, clicks), d) <=> \E i \in k + 1 .. Len(ws) : ws[i] = d
  <1>1. Len(ws) \in Nat /\ DOMAIN ws = 1 .. Len(ws) /\ \A i \in 1 .. Len(ws) : ws[i] \in ClickTasks
    BY LenProperties, ElementOfSeq
  <1>2. Pending(ws, clicks) \in SUBSET (1 .. Len(ws))
    BY <1>1 DEF Pending
  <1>3. PICK k : k = First(Pending(ws, clicks))
    OBVIOUS
  <1>4. k \in Pending(ws, clicks) /\ \A j \in Pending(ws, clicks) : k <= j
    BY <1>1, <1>2, <1>3, FirstIs
  <1>5. k \in 1 .. Len(ws) /\ clicks[ws[k]].pc = "waiting"
    BY <1>1, <1>4 DEF Pending
  <1>6. PICK b : b = SubSeq(ws, k + 1, Len(ws))
    OBVIOUS
  <1>7. Behind(ws, clicks) = b /\ Successor(ws, clicks) = {ws[k]}
    BY <1>3, <1>6 DEF Behind, Successor
  <1>8. /\ b \in Seq(ClickTasks) /\ Len(b) = Len(ws) - k
        /\ \A i \in 1 .. Len(ws) - k : b[i] = ws[k + i]
    BY <1>5, <1>6, TailFacts
  <1>9. DOMAIN b = 1 .. Len(ws) - k
    BY <1>8, LenProperties
  <1>10. Distinct(b)
    <2>1. ASSUME NEW i \in 1 .. Len(ws) - k, NEW j \in 1 .. Len(ws) - k, b[i] = b[j]
          PROVE  i = j
      <3>1. \A x, y \in 1 .. Len(ws) : ws[x] = ws[y] => x = y
        BY <1>1 DEF Distinct
      <3>2. k + i \in 1 .. Len(ws) /\ k + j \in 1 .. Len(ws)
        BY <1>1, <1>5
      <3>3. ws[k + i] = ws[k + j]
        BY <1>8, <2>1
      <3>4. k + i = k + j
        BY <3>1, <3>2, <3>3
      <3>. QED  BY <1>5, <3>4
    <2>. QED  BY <1>9, <2>1 DEF Distinct
  <1>11. ASSUME NEW d
         PROVE  Queued(b, d) <=> \E i \in k + 1 .. Len(ws) : ws[i] = d
    <2>1. ASSUME NEW i \in 1 .. Len(ws) - k, b[i] = d
          PROVE  \E j \in k + 1 .. Len(ws) : ws[j] = d
      <3>1. k + i \in k + 1 .. Len(ws) /\ ws[k + i] = d
        BY <1>1, <1>5, <1>8, <2>1
      <3>. QED  BY <3>1
    <2>2. ASSUME NEW j \in k + 1 .. Len(ws), ws[j] = d
          PROVE  \E i \in 1 .. Len(ws) - k : b[i] = d
      <3>1. j - k \in 1 .. Len(ws) - k /\ k + (j - k) = j
        BY <1>1, <1>5
      <3>2. b[j - k] = d
        BY <1>8, <2>2, <3>1
      <3>. QED  BY <3>1, <3>2
    <2>. QED  BY <1>9, <2>1, <2>2 DEF Queued
  <1>. QED  BY <1>1, <1>4, <1>5, <1>7, <1>8, <1>10, <1>11

-----------------------------------------------------------------------------
(* The turn is passed on: to a waiter, or to nobody. *)

Passed(clicks, tn, sl, clicks2, tn2, sl2) ==
    /\ tn2 \in TurnStates /\ (sl2 = sl \/ sl2 = sl \cup {"skipped"})
    /\ \/ /\ \A c \in ClickTasks : clicks[c].pc # "waiting"
          /\ clicks2 = clicks /\ ~tn2.busy /\ (tn2.id = tn.id \/ tn2.id = tn.id + 1)
          /\ \A c : ~Queued(tn2.waiters, c)
          /\ \A c : Queued(tn.waiters, c) => "skipped" \in sl2
       \/ \E s \in ClickTasks :
             /\ Queued(tn.waiters, s) /\ clicks[s].pc = "waiting"
             /\ clicks2 = [clicks EXCEPT ![s] = [clicks[s] EXCEPT !.pc = "granted"]]
             /\ tn2.busy /\ tn2.id = tn.id /\ Distinct(tn2.waiters)
             /\ \A c : Queued(tn2.waiters, c) => Queued(tn.waiters, c) /\ c # s
             /\ \A c : Queued(tn.waiters, c) /\ c # s =>
                          Queued(tn2.waiters, c) \/ ("skipped" \in sl2 /\ clicks[c].pc # "waiting")

Lines(clicks, tn) ==
    /\ Distinct(tn.waiters)
    /\ \A c : Queued(tn.waiters, c) => clicks[c].pc \in {"waiting", "lapsed"}
    /\ \A c \in ClickTasks : clicks[c].pc = "waiting" => Queued(tn.waiters, c) /\ tn.busy

LEMMA Passes ==
  ASSUME NEW clicks \in [ClickTasks -> ClickStates], turn \in TurnStates, Lines(clicks, turn),
         Grant(clicks, turn.id) \/ Release(clicks, turn.id)
  PROVE  Passed(clicks, turn, slips, click', turn', slips')
  <1>1. PICK ws : ws = turn.waiters
    OBVIOUS
  <1>2. /\ ws \in Seq(ClickTasks) /\ turn.id \in Nat /\ Len(ws) \in Nat /\ DOMAIN ws = 1 .. Len(ws)
        /\ \A i \in 1 .. Len(ws) : ws[i] \in ClickTasks /\ clicks[ws[i]].pc \in {"waiting", "lapsed"}
    <2>1. ws \in Seq(ClickTasks) /\ turn.id \in Nat
      BY <1>1 DEF TurnStates
    <2>2. Len(ws) \in Nat /\ DOMAIN ws = 1 .. Len(ws) /\ \A i \in 1 .. Len(ws) : ws[i] \in ClickTasks
      BY <2>1, LenProperties, ElementOfSeq
    <2>. QED  BY <1>1, <2>1, <2>2 DEF Lines, Queued
  <1>3. /\ click' = Woken(clicks)
        /\ slips' = IF Skips(clicks) THEN slips \cup {"skipped"} ELSE slips
    BY DEF Grant, Release
  <1>4. CASE Pending(ws, clicks) = {}
    <2>1. Successor(ws, clicks) = {} /\ Behind(ws, clicks) = <<>>
      BY <1>4 DEF Successor, Behind
    <2>2. click' = clicks
      BY <1>1, <1>3, <2>1 DEF Woken
    <2>3. /\ turn' \in TurnStates /\ ~turn'.busy /\ turn'.waiters = <<>>
          /\ (turn'.id = turn.id \/ turn'.id = turn.id + 1)
      <3>1. CASE Grant(clicks, turn.id)
        <4>1. turn' = [turn EXCEPT !.busy = FALSE, !.waiters = <<>>]
          BY <1>1, <2>1, <3>1 DEF Grant
        <4>2. <<>> \in Seq(ClickTasks)
          OBVIOUS
        <4>. QED  BY <4>1, <4>2 DEF TurnStates
      <3>2. CASE Release(clicks, turn.id)
        <4>1. turn' = [PanelTurn EXCEPT !.id = turn.id + 1]
          BY <1>1, <2>1, <3>2 DEF Release
        <4>2. PanelTurn \in TurnStates /\ ~PanelTurn.busy /\ PanelTurn.waiters = <<>>
          BY DEF PanelTurn, TurnStates
        <4>3. \A t \in TurnStates, n \in Nat :
                 /\ [t EXCEPT !.id = n] \in TurnStates /\ [t EXCEPT !.id = n].id = n
                 /\ [t EXCEPT !.id = n].busy = t.busy /\ [t EXCEPT !.id = n].waiters = t.waiters
          BY DEF TurnStates
        <4>4. turn.id + 1 \in Nat
          BY <1>2
        <4>. QED  BY <4>1, <4>2, <4>3, <4>4
      <3>. QED  BY <3>1, <3>2
    <2>4. \A c : ~Queued(turn'.waiters, c)
      BY <2>3 DEF Queued
    <2>5. \A i \in 1 .. Len(ws) : clicks[ws[i]].pc = "lapsed"
      BY <1>2, <1>4 DEF Pending
    <2>6. \A c \in ClickTasks : clicks[c].pc # "waiting"
      BY <1>1, <1>2, <2>5 DEF Lines, Queued
    <2>7. \A c : Queued(ws, c) => "skipped" \in slips'
      BY <1>1, <1>2, <1>3, <1>4, <2>5 DEF Queued, Skips
    <2>. QED  BY <1>1, <1>3, <2>2, <2>3, <2>4, <2>6, <2>7 DEF Passed
  <1>5. CASE Pending(ws, clicks) # {}
    <2>0. Distinct(ws)
      BY <1>1 DEF Lines
    <2>1. PICK k \in 1 .. Len(ws) :
            /\ ws[k] \in ClickTasks /\ clicks[ws[k]].pc = "waiting" /\ Successor(ws, clicks) = {ws[k]}
            /\ k \in Pending(ws, clicks) /\ \A j \in Pending(ws, clicks) : k <= j
            /\ Behind(ws, clicks) \in Seq(ClickTasks) /\ Distinct(Behind(ws, clicks))
            /\ \A d : Queued(Behind(ws, clicks), d) <=> \E i \in k + 1 .. Len(ws) : ws[i] = d
      BY <1>2, <1>5, <2>0, BehindFacts
    <2>2. PICK s, b : s = ws[k] /\ b = Behind(ws, clicks)
      OBVIOUS
    <2>3. click' = [clicks EXCEPT ![s] = [clicks[s] EXCEPT !.pc = "granted"]]
      BY <1>1, <1>3, <2>1, <2>2 DEF Woken
    <2>4. turn.busy
      BY <1>1, <2>1 DEF Lines
    <2>5. turn' \in TurnStates /\ turn'.busy /\ turn'.id = turn.id /\ turn'.waiters = b
      <3>1. CASE Grant(clicks, turn.id)
        <4>1. turn' = [turn EXCEPT !.busy = TRUE, !.waiters = b]
          BY <1>1, <2>1, <2>2, <3>1 DEF Grant
        <4>. QED  BY <2>1, <2>2, <4>1 DEF TurnStates
      <3>2. CASE Release(clicks, turn.id)
        <4>1. turn' = [turn EXCEPT !.waiters = b]
          BY <1>1, <2>1, <2>2, <3>2 DEF Release
        <4>. QED  BY <2>1, <2>2, <2>4, <4>1 DEF TurnStates
      <3>. QED  BY <3>1, <3>2
    <2>6. Queued(ws, s) /\ clicks[s].pc = "waiting" /\ s \in ClickTasks
      BY <1>2, <2>1, <2>2 DEF Queued
    <2>7. ASSUME NEW c, Queued(b, c) PROVE Queued(ws, c) /\ c # s
      <3>1. PICK i \in k + 1 .. Len(ws) : ws[i] = c
        BY <2>1, <2>2, <2>7
      <3>2. i \in 1 .. Len(ws) /\ i # k
        BY <1>2
      <3>. QED  BY <1>2, <2>0, <2>2, <3>1, <3>2 DEF Queued, Distinct
    <2>8. ASSUME NEW c, Queued(ws, c), c # s
          PROVE  Queued(b, c) \/ ("skipped" \in slips' /\ clicks[c].pc # "waiting")
      <3>1. PICK i \in 1 .. Len(ws) : ws[i] = c /\ i # k
        BY <1>2, <2>2, <2>8 DEF Queued
      <3>2. CASE i > k
        BY <1>2, <2>1, <2>2, <3>1, <3>2
      <3>3. CASE i < k
        <4>1. i \notin Pending(ws, clicks)
          BY <1>2, <2>1, <3>3
        <4>2. clicks[ws[i]].pc = "lapsed"
          BY <1>2, <4>1 DEF Pending
        <4>3. \A j \in Pending(ws, clicks) : i < j
          BY <1>2, <2>1, <3>3 DEF Pending
        <4>4. Skips(clicks)
          BY <1>1, <1>2, <4>2, <4>3 DEF Skips
        <4>. QED  BY <1>3, <3>1, <4>2, <4>4
      <3>. QED  BY <1>2, <3>1, <3>2, <3>3
    <2>9. Distinct(turn'.waiters)
      BY <2>1, <2>2, <2>5
    <2>10. /\ \A c : Queued(turn'.waiters, c) => Queued(turn.waiters, c) /\ c # s
           /\ \A c : Queued(turn.waiters, c) /\ c # s =>
                        Queued(turn'.waiters, c) \/ ("skipped" \in slips' /\ clicks[c].pc # "waiting")
      BY <1>1, <2>5, <2>7, <2>8
    <2>11. Queued(turn.waiters, s) /\ clicks[s].pc = "waiting" /\ s \in ClickTasks
      BY <1>1, <2>6
    <2>12. slips' = slips \/ slips' = slips \cup {"skipped"}
      BY <1>3
    <2>. QED  BY <2>3, <2>5, <2>9, <2>10, <2>11, <2>12 DEF Passed
  <1>. QED  BY <1>4, <1>5

-----------------------------------------------------------------------------
(* Who holds the turn, step by step. *)

\* The task c is at pc with that entry now; the other tasks stay where they were.
ClickMoved(clicks, c, clicks2, pc, entry) ==
    /\ clicks2 \in [ClickTasks -> ClickStates]
    /\ \A d \in ClickTasks \ {c} : clicks2[d] = clicks[d]
    /\ clicks2[c].pc = pc /\ clicks2[c].entry = entry

Working == {"handling", "closing", "granted", "lapsed"}

\* The turn as the task that has it lets go of it, before _grant looks for another.
Loose(clicks, tn, sl) ==
    /\ QueueInv(clicks, tn)
    /\ "skipped" \notin sl =>
          \A c \in ClickTasks : clicks[c].pc \in Working =>
             clicks[c].entry = tn.id /\ ~HoldsTurn(clicks, tn, c)

\* A turn passed on has its next holder, and no other unless a waiter was skipped.
LEMMA PassedTurnIsHeld ==
  ASSUME NEW clicks \in [ClickTasks -> ClickStates], NEW tn \in TurnStates, NEW sl,
         NEW clicks2, NEW tn2, NEW sl2,
         Loose(clicks, tn, sl), Passed(clicks, tn, sl, clicks2, tn2, sl2)
  PROVE  TurnInv(clicks2, tn2, sl2) /\ clicks2 \in [ClickTasks -> ClickStates]
  <1>1. tn2 \in TurnStates /\ ("skipped" \in sl => "skipped" \in sl2) /\ tn.id \in Nat
    BY DEF Passed, TurnStates
  <1>2. CASE /\ \A c \in ClickTasks : clicks[c].pc # "waiting"
             /\ clicks2 = clicks /\ ~tn2.busy /\ (tn2.id = tn.id \/ tn2.id = tn.id + 1)
             /\ \A c : ~Queued(tn2.waiters, c)
             /\ \A c : Queued(tn.waiters, c) => "skipped" \in sl2
    <2>1. Distinct(tn2.waiters)
      BY <1>2 DEF Distinct, Queued
    <2>2. \A c \in ClickTasks : clicks[c].entry \in Nat /\ clicks[c].entry <= tn.id
      BY DEF ClickStates, Loose, QueueInv
    <2>3. QueueInv(clicks2, tn2)
      BY <1>1, <1>2, <2>1, <2>2 DEF QueueInv
    <2>4. ASSUME "skipped" \notin sl2
          PROVE  \A c \in ClickTasks : clicks[c].pc \notin Working
      <3>1. SUFFICES ASSUME NEW c \in ClickTasks, clicks[c].pc \in Working PROVE FALSE
        OBVIOUS
      <3>2. clicks[c].entry = tn.id /\ ~HoldsTurn(clicks, tn, c) /\ ~Queued(tn.waiters, c)
        BY <1>1, <1>2, <2>4, <3>1 DEF Loose
      <3>. QED  BY <3>1, <3>2 DEF HoldsTurn, Working
    <2>5. "skipped" \notin sl2 => HeldOnce(clicks2, tn2)
      BY <1>2, <2>4 DEF HeldOnce, HoldsTurn, Working
    <2>. QED  BY <1>2, <2>3, <2>5 DEF TurnInv
  <1>3. ASSUME NEW s \in ClickTasks,
               Queued(tn.waiters, s), clicks[s].pc = "waiting",
               clicks2 = [clicks EXCEPT ![s] = [clicks[s] EXCEPT !.pc = "granted"]],
               tn2.busy, tn2.id = tn.id, Distinct(tn2.waiters),
               \A c : Queued(tn2.waiters, c) => Queued(tn.waiters, c) /\ c # s,
               \A c : Queued(tn.waiters, c) /\ c # s =>
                         Queued(tn2.waiters, c) \/ ("skipped" \in sl2 /\ clicks[c].pc # "waiting")
        PROVE  TurnInv(clicks2, tn2, sl2) /\ clicks2 \in [ClickTasks -> ClickStates]
    <2>1. \A t \in ClickStates : /\ [t EXCEPT !.pc = "granted"] \in ClickStates
                            /\ [t EXCEPT !.pc = "granted"].pc = "granted"
                            /\ [t EXCEPT !.pc = "granted"].entry = t.entry
      BY DEF ClickStates
    <2>2. PICK g \in ClickStates : g = [clicks[s] EXCEPT !.pc = "granted"]
      BY <2>1
    <2>3. clicks2 \in [ClickTasks -> ClickStates]
      BY <1>3, <2>2
    <2>4. g.pc = "granted" /\ g.entry = tn.id /\ clicks2[s] = g
      BY <1>3, <2>1, <2>2 DEF Loose, QueueInv
    <2>5. \A d \in ClickTasks : d # s => clicks2[d] = clicks[d]
      BY <1>3
    <2>6. QueueInv(clicks2, tn2)
      <3>1. ASSUME NEW c \in ClickTasks
            PROVE  /\ Queued(tn2.waiters, c) =>
                         clicks2[c].pc \in {"waiting", "lapsed"} /\ clicks2[c].entry = tn2.id
                   /\ clicks2[c].pc = "waiting" => Queued(tn2.waiters, c)
                   /\ clicks2[c].entry <= tn2.id
        <4>1. CASE c = s
          <5>1. ~Queued(tn2.waiters, c)
            BY <1>3, <4>1
          <5>2. clicks2[c].pc = "granted" /\ clicks2[c].entry = tn2.id /\ tn2.id \in Nat
            BY <1>1, <1>3, <2>4, <4>1
          <5>. QED  BY <5>1, <5>2
        <4>2. CASE c # s
          BY <1>3, <2>5, <4>2 DEF Loose, QueueInv
        <4>. QED  BY <4>1, <4>2
      <3>. QED  BY <1>3, <3>1 DEF QueueInv
    <2>7. HoldsTurn(clicks2, tn2, s)
      BY <1>3, <2>4 DEF HoldsTurn
    <2>8. ASSUME "skipped" \notin sl2 PROVE HeldOnce(clicks2, tn2)
      <3>1. ASSUME NEW c \in ClickTasks, c # s, clicks2[c].pc \in Working
            PROVE  clicks2[c].entry = tn2.id /\ ~HoldsTurn(clicks2, tn2, c)
        <4>1. clicks[c].pc \in Working /\ clicks2[c] = clicks[c]
          BY <2>5, <3>1
        <4>2. clicks[c].entry = tn.id /\ ~HoldsTurn(clicks, tn, c)
          BY <1>1, <2>8, <4>1 DEF Loose
        <4>3. Queued(tn.waiters, c) => Queued(tn2.waiters, c)
          BY <1>3, <2>8, <3>1
        <4>. QED  BY <1>3, <4>1, <4>2, <4>3 DEF HoldsTurn
      <3>2. \A c \in ClickTasks : HoldsTurn(clicks2, tn2, c) => clicks2[c].pc \in Working
        BY DEF HoldsTurn, Working
      <3>3. \A c \in ClickTasks : HoldsTurn(clicks2, tn2, c) => c = s
        BY <3>1, <3>2
      <3>4. \A c \in ClickTasks : clicks2[c].pc \in Working => clicks2[c].entry = tn2.id
        BY <1>3, <2>4, <3>1
      <3>5. tn2.busy
        BY <1>3
      <3>. HIDE DEF HoldsTurn
      <3>. QED  BY <3>3, <3>4, <3>5 DEF HeldOnce, Working
    <2>. QED  BY <1>3, <2>3, <2>6, <2>7, <2>8 DEF TurnInv
  <1>. QED  BY <1>2, <1>3 DEF Passed

\* The task c is over with the turn it holds and passes it on, if it is still its own.
LEMMA HandsOn ==
  ASSUME NEW c \in ClickTasks, NEW clicks, NEW pc \in {"done", "painting"}, NEW entry \in Nat,
         click \in [ClickTasks -> ClickStates], turn \in TurnStates, slips \in SUBSET {"skipped", "cancelled", "timer"},
         TurnInv(click, turn, slips), click[c].pc \in Working,
         click[c].entry = turn.id => HoldsTurn(click, turn, c),
         ClickMoved(click, c, clicks, pc, entry), entry <= turn.id,
         Grant(clicks, click[c].entry) \/ Release(clicks, click[c].entry)
  PROVE  /\ click' \in [ClickTasks -> ClickStates] /\ turn' \in TurnStates
         /\ slips' \in SUBSET {"skipped", "cancelled", "timer"} /\ slips \subseteq slips'
         /\ TurnInv(click', turn', slips')
         /\ \A d \in ClickTasks : \/ click'[d] = clicks[d]
                                  \/ clicks[d].pc = "waiting" /\ click'[d].pc = "granted"
  <1>1. clicks \in [ClickTasks -> ClickStates] /\ \A d \in ClickTasks \ {c} : clicks[d] = click[d]
    BY DEF ClickMoved
  <1>2. clicks[c].pc \in {"done", "painting"} /\ clicks[c].entry <= turn.id
    BY DEF ClickMoved
  <1>3. QueueInv(click, turn)
    BY DEF TurnInv
  <1>4. CASE click[c].entry # turn.id
    <2>1. click' = clicks /\ turn' = turn /\ slips' = slips
      BY <1>4 DEF Grant, Release
    <2>2. ~Queued(turn.waiters, c)
      BY <1>3, <1>4 DEF QueueInv
    <2>3. QueueInv(clicks, turn)
      BY <1>1, <1>2, <1>3, <2>2 DEF QueueInv
    <2>4. turn.busy => \E d \in ClickTasks : HoldsTurn(clicks, turn, d)
      <3>1. SUFFICES ASSUME turn.busy PROVE \E d \in ClickTasks : HoldsTurn(clicks, turn, d)
        OBVIOUS
      <3>2. PICK d \in ClickTasks : HoldsTurn(click, turn, d)
        BY <3>1 DEF TurnInv
      <3>3. clicks[d] = click[d]
        BY <1>1, <1>4, <3>2 DEF HoldsTurn
      <3>. QED  BY <3>2, <3>3 DEF HoldsTurn
    <2>5. "skipped" \in slips
      BY <1>4 DEF TurnInv, HeldOnce, Working
    <2>. QED  BY <1>1, <2>1, <2>3, <2>4, <2>5 DEF TurnInv
  <1>5. CASE click[c].entry = turn.id
    <2>1. HoldsTurn(click, turn, c) /\ ~Queued(turn.waiters, c)
      BY <1>3, <1>5 DEF HoldsTurn, QueueInv
    <2>2. QueueInv(clicks, turn)
      BY <1>1, <1>2, <1>3, <2>1 DEF QueueInv
    <2>3. Loose(clicks, turn, slips)
      <3>1. ASSUME "skipped" \notin slips, NEW d \in ClickTasks, clicks[d].pc \in Working
            PROVE  clicks[d].entry = turn.id /\ ~HoldsTurn(clicks, turn, d)
        <4>1. d # c
          BY <1>2, <3>1 DEF Working
        <4>2. clicks[d] = click[d]
          BY <1>1, <4>1
        <4>3. ~HoldsTurn(click, turn, d) /\ click[d].entry = turn.id
          BY <2>1, <3>1, <4>1, <4>2 DEF TurnInv, HeldOnce, Working
        <4>. QED  BY <4>2, <4>3 DEF HoldsTurn
      <3>. QED  BY <2>2, <3>1 DEF Loose
    <2>4. Lines(clicks, turn)
      <3>1. \A d : Queued(turn.waiters, d) => d \in ClickTasks
        <4>1. turn.waiters \in Seq(ClickTasks)
          BY DEF TurnStates
        <4>. QED  BY <4>1, LenProperties, ElementOfSeq DEF Queued
      <3>. QED  BY <2>2, <3>1 DEF Lines, QueueInv
    <2>5. Passed(clicks, turn, slips, click', turn', slips')
      BY <1>1, <1>5, <2>4, Passes
    <2>6. TurnInv(click', turn', slips') /\ click' \in [ClickTasks -> ClickStates]
      BY <1>1, <2>3, <2>5, PassedTurnIsHeld
    <2>7. turn' \in TurnStates /\ (slips' = slips \/ slips' = slips \cup {"skipped"})
      BY <2>5 DEF Passed
    <2>8. ASSUME NEW d \in ClickTasks
          PROVE  click'[d] = clicks[d] \/ (clicks[d].pc = "waiting" /\ click'[d].pc = "granted")
      <3>1. CASE click' = clicks
        BY <3>1
      <3>2. CASE \E s \in ClickTasks : /\ clicks[s].pc = "waiting"
                   /\ click' = [clicks EXCEPT ![s] = [clicks[s] EXCEPT !.pc = "granted"]]
        <4>1. PICK s \in ClickTasks : /\ clicks[s].pc = "waiting"
                   /\ click' = [clicks EXCEPT ![s] = [clicks[s] EXCEPT !.pc = "granted"]]
          BY <3>2
        <4>2. clicks[s] \in ClickStates
          BY <1>1
        <4>. QED  BY <1>1, <4>1, <4>2 DEF ClickStates
      <3>. QED  BY <2>5, <3>1, <3>2 DEF Passed
    <2>. QED  BY <2>6, <2>7, <2>8
  <1>. QED  BY <1>4, <1>5

\* A step that passes no turn on: the same tasks hold it.
LEMMA SameHolders ==
  ASSUME NEW clicks \in [ClickTasks -> ClickStates], NEW tn \in TurnStates, NEW sl, NEW clicks2, NEW tn2, NEW sl2,
         TurnInv(clicks, tn, sl), QueueInv(clicks2, tn2), tn2.busy = tn.busy, tn2.id = tn.id,
         "skipped" \in sl => "skipped" \in sl2,
         \A d \in ClickTasks : HoldsTurn(clicks2, tn2, d) <=> HoldsTurn(clicks, tn, d),
         \A d \in ClickTasks : clicks2[d].pc \in Working =>
            \/ clicks2[d].entry = tn2.id
            \/ clicks2[d].entry = clicks[d].entry /\ clicks[d].pc \in Working
  PROVE  TurnInv(clicks2, tn2, sl2)
  <1>1. tn2.busy => \E c \in ClickTasks : HoldsTurn(clicks2, tn2, c)
    BY DEF TurnInv
  <1>2. ASSUME "skipped" \notin sl2 PROVE HeldOnce(clicks2, tn2)
    BY <1>2 DEF TurnInv, HeldOnce, Working
  <1>. QED  BY <1>1, <1>2 DEF TurnInv

-----------------------------------------------------------------------------
(* The tasks, step by step. *)

IdleStates == {"new", "acked", "painting", "done"}

LEMMA IdleMove ==
  ASSUME NEW c \in ClickTasks, NEW pc \in IdleStates, NEW entry \in Nat, NEW clicks2, NEW sl2,
         click \in [ClickTasks -> ClickStates], turn \in TurnStates,
         TurnInv(click, turn, slips), ClickMoved(click, c, clicks2, pc, entry),
         click[c].pc \in IdleStates, entry <= turn.id, "skipped" \in slips => "skipped" \in sl2
  PROVE  TurnInv(clicks2, turn, sl2)
  <1>1. /\ \A d \in ClickTasks \ {c} : clicks2[d] = click[d]
        /\ clicks2[c].pc \in IdleStates /\ clicks2[c].entry <= turn.id
    BY DEF ClickMoved
  <1>2. QueueInv(click, turn) /\ ~Queued(turn.waiters, c)
    BY DEF TurnInv, QueueInv, IdleStates
  <1>3. QueueInv(clicks2, turn)
    BY <1>1, <1>2 DEF QueueInv, IdleStates
  <1>4. ASSUME NEW d \in ClickTasks
        PROVE  /\ HoldsTurn(clicks2, turn, d) <=> HoldsTurn(click, turn, d)
               /\ clicks2[d].pc \in Working =>
                     clicks2[d].entry = click[d].entry /\ click[d].pc \in Working
    BY <1>1 DEF HoldsTurn, IdleStates, Working
  <1>. QED  BY <1>3, <1>4, SameHolders

\* The tasks that may still publish a view become fewer.
LEMMA LiveShrinks ==
  ASSUME NEW clicks, NEW clicks2,
         \A d \in ClickTasks : clicks2[d].pc \notin {"painting", "done"}
                                  => clicks[d].pc \notin {"painting", "done"}
  PROVE  /\ Cardinality(LiveClicks(clicks)) \in Nat /\ Cardinality(LiveClicks(clicks2)) \in Nat
         /\ Cardinality(LiveClicks(clicks2)) <= Cardinality(LiveClicks(clicks))
         /\ (\E c \in LiveClicks(clicks) : clicks2[c].pc \in {"painting", "done"})
               => Cardinality(LiveClicks(clicks2)) + 1 <= Cardinality(LiveClicks(clicks))
  <1>1. IsFiniteSet(ClickTasks)
    BY GateAssumption, FS_Interval DEF ClickTasks
  <1>2. LiveClicks(clicks) \subseteq ClickTasks /\ LiveClicks(clicks2) \subseteq LiveClicks(clicks)
    BY DEF LiveClicks
  <1>3. IsFiniteSet(LiveClicks(clicks)) /\ IsFiniteSet(LiveClicks(clicks2))
    BY <1>1, <1>2, FS_Subset
  <1>4. /\ Cardinality(LiveClicks(clicks)) \in Nat /\ Cardinality(LiveClicks(clicks2)) \in Nat
        /\ Cardinality(LiveClicks(clicks2)) <= Cardinality(LiveClicks(clicks))
    BY <1>2, <1>3, FS_Subset, FS_CardinalityType
  <1>5. ASSUME NEW c \in LiveClicks(clicks), clicks2[c].pc \in {"painting", "done"}
        PROVE  Cardinality(LiveClicks(clicks2)) + 1 <= Cardinality(LiveClicks(clicks))
    <2>1. LiveClicks(clicks2) # LiveClicks(clicks)
      BY <1>5 DEF LiveClicks
    <2>2. Cardinality(LiveClicks(clicks2)) < Cardinality(LiveClicks(clicks))
      BY <1>2, <1>3, <2>1, FS_Subset, FS_CardinalityType
    <2>. QED  BY <1>4, <2>2
  <1>. QED  BY <1>4, <1>5

LEMMA ClickFields ==
  ASSUME NEW pc \in {"new", "acked", "waiting", "lapsed", "granted", "handling",
                     "painting", "closing", "done"}
  PROVE  Task(pc) \in ClickStates /\ Task(pc).pc = pc /\ Task(pc).entry = 0
  BY GateAssumption DEF Task, ClickStates, NoView, Views

\* A task that goes on to pc, with the entry it has.
LEMMA AtFields ==
  ASSUME NEW clicks \in [ClickTasks -> ClickStates], NEW c \in ClickTasks,
         NEW pc \in {"new", "acked", "waiting", "lapsed", "granted", "handling",
                     "painting", "closing", "done"}
  PROVE  /\ ClickMoved(clicks, c, [clicks EXCEPT ![c].pc = pc], pc, clicks[c].entry)
         /\ ClickMoved(clicks, c, [clicks EXCEPT ![c] = Task(pc)], pc, 0)
         /\ clicks[c].entry \in Nat
  <1>1. \A t \in ClickStates : /\ [t EXCEPT !.pc = pc] \in ClickStates /\ t.entry \in Nat
                          /\ [t EXCEPT !.pc = pc].pc = pc /\ [t EXCEPT !.pc = pc].entry = t.entry
    BY DEF ClickStates
  <1>2. \A t \in ClickStates : ClickMoved(clicks, c, [clicks EXCEPT ![c] = t], t.pc, t.entry)
    BY DEF ClickMoved
  <1>3. PICK t \in ClickStates : t = [clicks[c] EXCEPT !.pc = pc]
    BY <1>1
  <1>4. [clicks EXCEPT ![c].pc = pc] = [clicks EXCEPT ![c] = t]
    BY <1>3
  <1>5. t.pc = pc /\ t.entry = clicks[c].entry
    BY <1>1, <1>3
  <1>6. ClickMoved(clicks, c, [clicks EXCEPT ![c].pc = pc], pc, clicks[c].entry)
    BY <1>2, <1>4, <1>5
  <1>7. ClickMoved(clicks, c, [clicks EXCEPT ![c] = Task(pc)], pc, 0)
    BY <1>2, ClickFields
  <1>. QED  BY <1>1, <1>6, <1>7

-----------------------------------------------------------------------------
(* admit, acquire_turn and its deadline. *)

LEMMA TrimFacts ==
  ASSUME NEW rc \in Seq(Queries), Len(rc) <= RecentLimit, NEW q \in Queries
  PROVE  Trim(Append(rc, q)) \in Seq(Queries) /\ Len(Trim(Append(rc, q))) <= RecentLimit
  <1>1. PICK w : w = Append(rc, q)
    OBVIOUS
  <1>2. w \in Seq(Queries) /\ Len(w) = Len(rc) + 1 /\ Len(rc) \in Nat /\ RecentLimit \in Nat \ {0}
    BY <1>1, GateAssumption, LenProperties
  <1>3. CASE Len(w) <= RecentLimit
    BY <1>1, <1>2, <1>3 DEF Trim
  <1>4. CASE Len(w) > RecentLimit
    <2>1. Len(w) - RecentLimit + 1 = 2 /\ Trim(w) = SubSeq(w, 2, Len(w))
      BY <1>2, <1>4 DEF Trim, NewestOf
    <2>2. \A i \in 2 .. Len(w) : w[i] \in Queries
      BY <1>2, ElementOfSeq
    <2>3. PICK n, v : n = Len(w) /\ v = SubSeq(w, 2, n)
      OBVIOUS
    <2>4. n \in Int /\ 2 <= n /\ n = RecentLimit + 1
      BY <1>2, <1>4, <2>3
    <2>5. v \in Seq(Queries) /\ Len(v) = IF 2 <= n THEN n - 2 + 1 ELSE 0
      BY <2>2, <2>3, <2>4, SubSeqProperties
    <2>6. Len(v) = n - 1
      BY <2>4, <2>5
    <2>. QED  BY <1>1, <1>2, <2>1, <2>3, <2>4, <2>5, <2>6
  <1>. QED  BY <1>2, <1>3, <1>4

LEMMA RoomKept ==
  ASSUME NEW clicks, NEW clicks2, NEW p \in PainterStates, NEW p2 \in PainterStates,
         Room(clicks, p), p2.newest = p.newest,
         \A d \in ClickTasks : clicks2[d].pc \notin {"painting", "done"}
                                  => clicks[d].pc \notin {"painting", "done"}
  PROVE  Room(clicks2, p2)
  <1>1. p.newest \in Nat
    BY GateAssumption DEF PainterStates, Views
  <1>2. /\ Cardinality(LiveClicks(clicks)) \in Nat /\ Cardinality(LiveClicks(clicks2)) \in Nat
        /\ Cardinality(LiveClicks(clicks2)) <= Cardinality(LiveClicks(clicks))
    BY LiveShrinks
  <1>. QED  BY <1>1, <1>2, GateAssumption DEF Room

LEMMA AdmitKeeps ==
  ASSUME GateInv, NEW c \in ClickTasks, NEW q \in Queries, GateAdmit(c, q)
  PROVE  GateInv'
  <1>1. /\ Typed(recent, click, turn, painter, panelOpen, slips)
        /\ TurnKept(click, turn, painter, panelOpen, slips)
    BY DEF GateInv
  <1>2. /\ click \in [ClickTasks -> ClickStates] /\ turn \in TurnStates /\ painter \in PainterStates
        /\ TurnInv(click, turn, slips) /\ Room(click, painter) /\ turn.id \in Nat
    BY <1>1 DEF Typed, TurnKept, TurnStates
  <1>3. click[c].pc = "new" /\ UNCHANGED <<turn, painter, panelOpen, slips>>
    BY DEF GateAdmit
  <1>4. PICK pc \in {"done", "acked"}, entry \in Nat :
           ClickMoved(click, c, click', pc, entry) /\ entry <= turn.id
    <2>1. click[c].entry \in Nat /\ click[c].entry <= turn.id /\ 0 <= turn.id
      <3>1. click[c].entry \in Nat
        BY <1>2 DEF ClickStates
      <3>2. click[c].entry <= turn.id
        BY <1>2 DEF TurnInv, QueueInv
      <3>. QED  BY <1>2, <3>1, <3>2
    <2>2. /\ ClickMoved(click, c, [click EXCEPT ![c].pc = "acked"], "acked", click[c].entry)
          /\ ClickMoved(click, c, [click EXCEPT ![c] = Task("done")], "done", 0)
      BY <1>2, AtFields
    <2>. QED  BY <2>1, <2>2 DEF GateAdmit
  <1>5. recent' \in Seq(Queries) /\ Len(recent') <= RecentLimit
    <2>1. recent \in Seq(Queries) /\ Len(recent) <= RecentLimit
      BY <1>1 DEF Typed
    <2>. QED  BY <2>1, TrimFacts DEF GateAdmit
  <1>6. TurnInv(click', turn, slips)
    BY <1>2, <1>3, <1>4, IdleMove DEF IdleStates
  <1>7. \A d \in ClickTasks : click'[d] = click[d] \/ (click[d].pc = "new" /\ click'[d].pc \in {"done", "acked"})
    BY <1>3, <1>4 DEF ClickMoved
  <1>8. Room(click', painter)
    BY <1>2, <1>7, RoomKept
  <1>9. QuietWhenClosed(click', painter, panelOpen, slips)
    BY <1>1, <1>7 DEF TurnKept, QuietWhenClosed
  <1>10. click' \in [ClickTasks -> ClickStates]
    BY <1>4 DEF ClickMoved
  <1>. QED  BY <1>1, <1>3, <1>5, <1>6, <1>8, <1>9, <1>10 DEF GateInv, Typed, TurnKept

LEMMA ArriveKeeps ==
  ASSUME GateInv, NEW c \in ClickTasks, GateArrive(c)
  PROVE  GateInv'
  <1>1. /\ Typed(recent, click, turn, painter, panelOpen, slips)
        /\ TurnKept(click, turn, painter, panelOpen, slips)
    BY DEF GateInv
  <1>2. /\ click \in [ClickTasks -> ClickStates] /\ turn \in TurnStates /\ painter \in PainterStates
        /\ TurnInv(click, turn, slips) /\ Room(click, painter) /\ turn.id \in Nat
        /\ QueueInv(click, turn)
    BY <1>1 DEF Typed, TurnKept, TurnStates, TurnInv
  <1>3. click[c].pc = "acked" /\ UNCHANGED <<recent, painter, panelOpen, slips>>
    BY DEF GateArrive
  <1>4. ~Queued(turn.waiters, c) /\ turn.waiters \in Seq(ClickTasks) /\ Distinct(turn.waiters)
    BY <1>2, <1>3 DEF QueueInv, TurnStates
  <1>5. /\ TurnInv(click', turn', slips) /\ turn' \in TurnStates
        /\ \E pc \in {"done", "handling", "waiting"}, entry \in Nat :
              ClickMoved(click, c, click', pc, entry) /\ (pc = "handling" => panelOpen)
    <2>1. CASE ~panelOpen
      <3>1. ClickMoved(click, c, click', "done", 0) /\ turn' = turn
        BY <1>2, <2>1, AtFields DEF GateArrive
      <3>2. TurnInv(click', turn, slips)
        BY <1>2, <1>3, <3>1, IdleMove DEF IdleStates
      <3>. QED  BY <1>2, <3>1, <3>2
    <2>2. ASSUME panelOpen, NEW pc \in {"handling", "waiting"},
                 click' = [click EXCEPT ![c].pc = pc, ![c].entry = turn.id]
          PROVE  ClickMoved(click, c, click', pc, turn.id)
      <3>1. \A t \in ClickStates, n \in Nat :
               /\ [t EXCEPT !.pc = pc, !.entry = n] \in ClickStates
               /\ [t EXCEPT !.pc = pc, !.entry = n].pc = pc
               /\ [t EXCEPT !.pc = pc, !.entry = n].entry = n
        BY DEF ClickStates
      <3>2. PICK t \in ClickStates : t = [click[c] EXCEPT !.pc = pc, !.entry = turn.id]
        BY <1>2, <3>1
      <3>3. t.pc = pc /\ t.entry = turn.id
        BY <1>2, <3>1, <3>2
      <3>4. click' = [click EXCEPT ![c] = t]
        BY <1>2, <2>2, <3>2
      <3>. QED  BY <1>2, <3>3, <3>4 DEF ClickMoved
    <2>3. CASE panelOpen /\ ~turn.busy
      <3>1. ClickMoved(click, c, click', "handling", turn.id) /\ turn' = [turn EXCEPT !.busy = TRUE]
        BY <2>2, <2>3 DEF GateArrive
      <3>2. /\ turn' \in TurnStates /\ turn'.busy /\ turn'.id = turn.id /\ turn'.waiters = turn.waiters
        BY <1>2, <3>1 DEF TurnStates
      <3>3. /\ \A d \in ClickTasks \ {c} : click'[d] = click[d]
            /\ click'[c].pc = "handling" /\ click'[c].entry = turn.id
        BY <3>1 DEF ClickMoved
      <3>4. QueueInv(click', turn')
        BY <1>2, <1>4, <3>2, <3>3 DEF QueueInv
      <3>5. HoldsTurn(click', turn', c)
        BY <3>2, <3>3 DEF HoldsTurn
      <3>6. ASSUME "skipped" \notin slips PROVE HeldOnce(click', turn')
        <4>1. HeldOnce(click, turn)
          BY <1>2, <3>6 DEF TurnInv
        <4>2. \A d \in ClickTasks : ~HoldsTurn(click, turn, d)
          BY <2>3, <4>1 DEF HeldOnce
        <4>3. \A d \in ClickTasks \ {c} : ~HoldsTurn(click', turn', d)
          BY <3>2, <3>3, <4>2 DEF HoldsTurn
        <4>. QED  BY <3>2, <3>3, <4>1, <4>3 DEF HeldOnce
      <3>. QED  BY <1>2, <2>3, <3>1, <3>2, <3>4, <3>5, <3>6 DEF TurnInv
    <2>4. CASE panelOpen /\ turn.busy
      <3>1. /\ ClickMoved(click, c, click', "waiting", turn.id)
            /\ turn' = [turn EXCEPT !.waiters = Append(turn.waiters, c)]
        BY <2>2, <2>4 DEF GateArrive
      <3>2. PICK ws : ws = Append(turn.waiters, c)
        OBVIOUS
      <3>3. /\ ws \in Seq(ClickTasks) /\ Distinct(ws)
            /\ \A d : Queued(ws, d) <=> Queued(turn.waiters, d) \/ d = c
        BY <1>4, <3>2, AppendFacts
      <3>4. /\ turn' \in TurnStates /\ turn'.busy = turn.busy /\ turn'.id = turn.id /\ turn'.waiters = ws
        BY <1>2, <3>1, <3>2, <3>3 DEF TurnStates
      <3>5. /\ \A d \in ClickTasks \ {c} : click'[d] = click[d]
            /\ click'[c].pc = "waiting" /\ click'[c].entry = turn.id
        BY <3>1 DEF ClickMoved
      <3>6. QueueInv(click', turn')
        BY <1>2, <2>4, <3>3, <3>4, <3>5 DEF QueueInv
      <3>7. ASSUME NEW d \in ClickTasks
            PROVE  /\ HoldsTurn(click', turn', d) <=> HoldsTurn(click, turn, d)
                   /\ click'[d].pc \in Working =>
                         click'[d].entry = click[d].entry /\ click[d].pc \in Working
        BY <1>3, <3>3, <3>4, <3>5 DEF HoldsTurn, Working
      <3>8. TurnInv(click', turn', slips)
        BY <1>2, <3>4, <3>6, <3>7, SameHolders
      <3>. QED  BY <1>2, <3>1, <3>4, <3>8
    <2>. QED  BY <2>1, <2>3, <2>4
  <1>6. PICK pc \in {"done", "handling", "waiting"}, entry \in Nat :
           ClickMoved(click, c, click', pc, entry) /\ (pc = "handling" => panelOpen)
    BY <1>5
  <1>7. /\ click' \in [ClickTasks -> ClickStates] /\ \A d \in ClickTasks \ {c} : click'[d] = click[d]
        /\ click'[c].pc = pc
    BY <1>6 DEF ClickMoved
  <1>8. Room(click', painter)
    <2>1. \A d \in ClickTasks : click'[d].pc \notin {"painting", "done"}
                                   => click[d].pc \notin {"painting", "done"}
      BY <1>3, <1>7
    <2>. QED  BY <1>2, <2>1, RoomKept
  <1>9. QuietWhenClosed(click', painter, panelOpen, slips)
    BY <1>1, <1>3, <1>6, <1>7 DEF TurnKept, QuietWhenClosed
  <1>. QED  BY <1>1, <1>3, <1>5, <1>7, <1>8, <1>9 DEF GateInv, Typed, TurnKept

LEMMA LapseKeeps ==
  ASSUME GateInv, NEW c \in ClickTasks, GateLapse(c)
  PROVE  GateInv'
  <1>1. /\ Typed(recent, click, turn, painter, panelOpen, slips)
        /\ TurnKept(click, turn, painter, panelOpen, slips)
    BY DEF GateInv
  <1>2. /\ click \in [ClickTasks -> ClickStates] /\ turn \in TurnStates /\ painter \in PainterStates
        /\ TurnInv(click, turn, slips) /\ Room(click, painter) /\ QueueInv(click, turn)
    BY <1>1 DEF Typed, TurnKept, TurnInv
  <1>3. /\ click[c].pc \in {"waiting", "granted"}
        /\ click' = [click EXCEPT ![c].pc = "lapsed"]
        /\ UNCHANGED <<recent, turn, painter, panelOpen, slips>>
    BY DEF GateLapse
  <1>4. ClickMoved(click, c, click', "lapsed", click[c].entry)
    BY <1>2, <1>3, AtFields
  <1>5. /\ click' \in [ClickTasks -> ClickStates] /\ \A d \in ClickTasks \ {c} : click'[d] = click[d]
        /\ click'[c].pc = "lapsed" /\ click'[c].entry = click[c].entry
    BY <1>4 DEF ClickMoved
  <1>6. QueueInv(click', turn)
    BY <1>2, <1>3, <1>5 DEF QueueInv
  <1>7. ASSUME NEW d \in ClickTasks
        PROVE  /\ HoldsTurn(click', turn, d) <=> HoldsTurn(click, turn, d)
               /\ click'[d].pc \in Working =>
                     \/ click'[d].entry = turn.id
                     \/ click'[d].entry = click[d].entry /\ click[d].pc \in Working
    <2>1. CASE d # c
      BY <1>5, <2>1 DEF HoldsTurn
    <2>2. CASE d = c /\ click[c].pc = "waiting"
      <3>1. Queued(turn.waiters, c) /\ click[c].entry = turn.id
        BY <1>2, <2>2 DEF QueueInv
      <3>. QED  BY <1>5, <2>2, <3>1 DEF HoldsTurn
    <2>3. CASE d = c /\ click[c].pc = "granted"
      <3>1. ~Queued(turn.waiters, c)
        BY <1>2, <2>3 DEF QueueInv
      <3>. QED  BY <1>5, <2>3, <3>1 DEF HoldsTurn, Working
    <2>. QED  BY <1>3, <2>1, <2>2, <2>3
  <1>8. TurnInv(click', turn, slips)
    BY <1>2, <1>6, <1>7, SameHolders
  <1>9. Room(click', painter)
    <2>1. \A d \in ClickTasks : click'[d].pc \notin {"painting", "done"}
                                   => click[d].pc \notin {"painting", "done"}
      BY <1>3, <1>5
    <2>. QED  BY <1>2, <2>1, RoomKept
  <1>10. QuietWhenClosed(click', painter, panelOpen, slips)
    BY <1>1, <1>3, <1>5 DEF TurnKept, QuietWhenClosed
  <1>. QED  BY <1>1, <1>3, <1>5, <1>8, <1>9, <1>10 DEF GateInv, Typed, TurnKept

LEMMA GiveUpKeeps ==
  ASSUME GateInv, NEW c \in ClickTasks, GateGiveUp(c)
  PROVE  GateInv'
  <1>1. /\ Typed(recent, click, turn, painter, panelOpen, slips)
        /\ TurnKept(click, turn, painter, panelOpen, slips)
    BY DEF GateInv
  <1>2. /\ click \in [ClickTasks -> ClickStates] /\ turn \in TurnStates /\ painter \in PainterStates
        /\ TurnInv(click, turn, slips) /\ Room(click, painter) /\ QueueInv(click, turn)
        /\ slips \in SUBSET {"skipped", "cancelled", "timer"} /\ turn.id \in Nat
    BY <1>1 DEF Typed, TurnKept, TurnInv, TurnStates
  <1>3. click[c].pc = "lapsed" /\ UNCHANGED <<recent, painter, panelOpen>>
    BY DEF GateGiveUp
  <1>4. PICK gone : gone = [click EXCEPT ![c] = Task("done")]
    OBVIOUS
  <1>5. ClickMoved(click, c, gone, "done", 0)
    BY <1>2, <1>4, AtFields
  <1>6. /\ \A d \in ClickTasks \ {c} : gone[d] = click[d]
        /\ gone[c].pc = "done" /\ gone[c].entry = 0 /\ gone \in [ClickTasks -> ClickStates]
    BY <1>5 DEF ClickMoved
  <1>7. /\ click' \in [ClickTasks -> ClickStates] /\ turn' \in TurnStates
        /\ slips' \in SUBSET {"skipped", "cancelled", "timer"} /\ slips \subseteq slips'
        /\ TurnInv(click', turn', slips')
        /\ \A d \in ClickTasks : \/ click'[d] = gone[d]
                                 \/ gone[d].pc = "waiting" /\ click'[d].pc = "granted"
    <2>1. CASE click[c].entry = turn.id /\ Queued(turn.waiters, c)
      <3>1. click' = gone /\ turn' = [turn EXCEPT !.waiters = Without(turn.waiters, c)] /\ slips' = slips
        BY <1>4, <2>1 DEF GateGiveUp, Queued
      <3>2. PICK ws : ws = Without(turn.waiters, c)
        OBVIOUS
      <3>3. turn.waiters \in Seq(ClickTasks) /\ Distinct(turn.waiters)
        BY <1>2 DEF TurnStates, QueueInv
      <3>4. /\ ws \in Seq(ClickTasks) /\ Distinct(ws)
            /\ \A d : Queued(ws, d) <=> Queued(turn.waiters, d) /\ d # c
        BY <2>1, <3>2, <3>3, WithoutFacts
      <3>5. /\ turn' \in TurnStates /\ turn'.busy = turn.busy /\ turn'.id = turn.id /\ turn'.waiters = ws
        BY <1>2, <3>1, <3>2, <3>4 DEF TurnStates
      <3>6. QueueInv(click', turn')
        BY <1>2, <1>6, <3>1, <3>4, <3>5 DEF QueueInv
      <3>7. ASSUME NEW d \in ClickTasks
            PROVE  /\ HoldsTurn(click', turn', d) <=> HoldsTurn(click, turn, d)
                   /\ click'[d].pc \in Working =>
                         click'[d].entry = click[d].entry /\ click[d].pc \in Working
        BY <1>3, <1>6, <2>1, <3>1, <3>4, <3>5 DEF HoldsTurn, Working
      <3>8. TurnInv(click', turn', slips')
        <4>1. turn \in TurnStates /\ click \in [ClickTasks -> ClickStates] /\ TurnInv(click, turn, slips)
          BY <1>2
        <4>2. "skipped" \in slips => "skipped" \in slips'
          BY <3>1
        <4>. QED  BY <3>5, <3>6, <3>7, <4>1, <4>2, SameHolders
      <3>. QED  BY <1>2, <1>6, <3>1, <3>5, <3>8
    <2>2. CASE ~(click[c].entry = turn.id /\ Queued(turn.waiters, c))
      <3>1. Grant(gone, click[c].entry)
        BY <1>4, <2>2 DEF GateGiveUp, Queued
      <3>2. click[c].entry = turn.id => HoldsTurn(click, turn, c)
        BY <1>3, <2>2 DEF HoldsTurn
      <3>3. click[c].pc \in Working /\ 0 \in Nat /\ 0 <= turn.id /\ "done" \in {"done", "painting"}
        BY <1>2, <1>3 DEF Working
      <3>4. Grant(gone, click[c].entry) \/ Release(gone, click[c].entry)
        BY <3>1
      <3>. QED  BY <1>2, <1>5, <3>2, <3>3, <3>4, HandsOn
    <2>. QED  BY <2>1, <2>2
  <1>8. \A d \in ClickTasks : click'[d].pc \notin {"painting", "done"}
                                 => click[d].pc \notin {"painting", "done"}
    BY <1>6, <1>7
  <1>9. Room(click', painter)
    BY <1>2, <1>8, RoomKept
  <1>10. QuietWhenClosed(click', painter, panelOpen, slips')
    <2>1. QuietWhenClosed(click, painter, panelOpen, slips)
      BY <1>1 DEF TurnKept
    <2>2. ASSUME NEW d \in ClickTasks
          PROVE  /\ click'[d].pc = "handling" => click[d].pc = "handling"
                 /\ click'[d].pc = "closing" <=> click[d].pc = "closing"
      BY <1>3, <1>6, <1>7
    <2>3. slips' = {} => slips = {}
      BY <1>7
    <2>. QED  BY <2>1, <2>2, <2>3 DEF QuietWhenClosed
  <1>. QED  BY <1>1, <1>3, <1>7, <1>9, <1>10 DEF GateInv, Typed, TurnKept

LEMMA DispatchKeeps ==
  ASSUME GateInv, NEW c \in ClickTasks, GateDispatch(c)
  PROVE  GateInv'
  <1>1. /\ Typed(recent, click, turn, painter, panelOpen, slips)
        /\ TurnKept(click, turn, painter, panelOpen, slips)
    BY DEF GateInv
  <1>2. /\ click \in [ClickTasks -> ClickStates] /\ turn \in TurnStates /\ painter \in PainterStates
        /\ TurnInv(click, turn, slips) /\ Room(click, painter) /\ QueueInv(click, turn)
        /\ slips \in SUBSET {"skipped", "cancelled", "timer"} /\ turn.id \in Nat
    BY <1>1 DEF Typed, TurnKept, TurnInv, TurnStates
  <1>3. click[c].pc = "granted" /\ UNCHANGED <<recent, painter, panelOpen>>
    BY DEF GateDispatch
  <1>4. ~Queued(turn.waiters, c)
    BY <1>2, <1>3 DEF QueueInv
  <1>5. CASE panelOpen
    <2>1. /\ ClickMoved(click, c, click', "handling", click[c].entry)
          /\ turn' = turn /\ slips' = slips
      <3>1. /\ click' = [click EXCEPT ![c].pc = "handling"]
            /\ turn' = turn /\ slips' = slips
        BY <1>5 DEF GateDispatch
      <3>. QED  BY <1>2, <3>1, AtFields
    <2>2. /\ click' \in [ClickTasks -> ClickStates] /\ \A d \in ClickTasks \ {c} : click'[d] = click[d]
          /\ click'[c].pc = "handling" /\ click'[c].entry = click[c].entry
      BY <2>1 DEF ClickMoved
    <2>3. QueueInv(click', turn)
      BY <1>2, <1>3, <1>4, <2>2 DEF QueueInv
    <2>4. ASSUME NEW d \in ClickTasks
          PROVE  /\ HoldsTurn(click', turn, d) <=> HoldsTurn(click, turn, d)
                 /\ click'[d].pc \in Working =>
                       click'[d].entry = click[d].entry /\ click[d].pc \in Working
      BY <1>3, <2>2 DEF HoldsTurn, Working
    <2>5. TurnInv(click', turn, slips)
      BY <1>2, <2>3, <2>4, SameHolders
    <2>6. \A d \in ClickTasks : click'[d].pc \notin {"painting", "done"}
                                   => click[d].pc \notin {"painting", "done"}
      BY <1>3, <2>2
    <2>7. Room(click', painter)
      BY <1>2, <2>6, RoomKept
    <2>. QED  BY <1>1, <1>3, <1>5, <2>1, <2>2, <2>5, <2>7 DEF GateInv, Typed, TurnKept, QuietWhenClosed
  <1>6. CASE ~panelOpen
    <2>1. PICK gone : gone = [click EXCEPT ![c] = Task("done")]
      OBVIOUS
    <2>2. ClickMoved(click, c, gone, "done", 0)
      BY <1>2, <2>1, AtFields
    <2>3. /\ \A d \in ClickTasks \ {c} : gone[d] = click[d]
          /\ gone[c].pc = "done" /\ gone[c].entry = 0
      BY <2>2 DEF ClickMoved
    <2>4. Release(gone, click[c].entry)
      BY <1>6, <2>1 DEF GateDispatch
    <2>5. click[c].entry = turn.id => HoldsTurn(click, turn, c)
      BY <1>3 DEF HoldsTurn
    <2>6. /\ click' \in [ClickTasks -> ClickStates] /\ turn' \in TurnStates
          /\ slips' \in SUBSET {"skipped", "cancelled", "timer"} /\ slips \subseteq slips'
          /\ TurnInv(click', turn', slips')
          /\ \A d \in ClickTasks : \/ click'[d] = gone[d]
                                   \/ gone[d].pc = "waiting" /\ click'[d].pc = "granted"
      <3>1. click[c].pc \in Working /\ 0 \in Nat /\ 0 <= turn.id /\ "done" \in {"done", "painting"}
        BY <1>2, <1>3 DEF Working
      <3>2. Grant(gone, click[c].entry) \/ Release(gone, click[c].entry)
        BY <2>4
      <3>. QED  BY <1>2, <2>2, <2>5, <3>1, <3>2, HandsOn
    <2>7. \A d \in ClickTasks : click'[d].pc \notin {"painting", "done"}
                                   => click[d].pc \notin {"painting", "done"}
      BY <2>3, <2>6
    <2>8. Room(click', painter)
      BY <1>2, <2>7, RoomKept
    <2>9. QuietWhenClosed(click', painter, panelOpen, slips')
      <3>1. QuietWhenClosed(click, painter, panelOpen, slips)
        BY <1>1 DEF TurnKept
      <3>2. ASSUME NEW d \in ClickTasks
            PROVE  /\ click'[d].pc = "handling" => click[d].pc = "handling"
                   /\ click'[d].pc = "closing" <=> click[d].pc = "closing"
        BY <1>3, <2>3, <2>6
      <3>3. slips' = {} => slips = {}
        BY <2>6
      <3>. QED  BY <3>1, <3>2, <3>3 DEF QuietWhenClosed
    <2>. QED  BY <1>1, <1>3, <2>6, <2>8, <2>9 DEF GateInv, Typed, TurnKept
  <1>. QED  BY <1>5, <1>6

-----------------------------------------------------------------------------
(* The handler, the painter and the end of the panel. *)

LEMMA HandledKeeps ==
  ASSUME GateInv, NEW c \in ClickTasks, GateHandled(c)
  PROVE  GateInv'
  <1>1. /\ Typed(recent, click, turn, painter, panelOpen, slips)
        /\ TurnKept(click, turn, painter, panelOpen, slips)
    BY DEF GateInv
  <1>2. /\ click \in [ClickTasks -> ClickStates] /\ turn \in TurnStates /\ painter \in PainterStates
        /\ TurnInv(click, turn, slips) /\ Room(click, painter) /\ QueueInv(click, turn)
        /\ slips \in SUBSET {"skipped", "cancelled", "timer"} /\ turn.id \in Nat
        /\ painter.newest \in Nat /\ painter.id \in Nat
    BY <1>1, GateAssumption DEF Typed, TurnKept, TurnInv, TurnStates, PainterStates, Views
  <1>3. click[c].pc = "handling" /\ UNCHANGED <<recent, panelOpen>>
    BY DEF GateHandled
  <1>4. PICK v : v = painter.newest + 1
    OBVIOUS
  <1>5. Publish(click, c, v)
    BY <1>4 DEF GateHandled
  <1>6. v \in Views /\ v # NoView
    <2>1. Cardinality(LiveClicks(click)) \in Nat /\ 0 + 1 <= Cardinality(LiveClicks(click))
      <3>1. PICK gone : gone = [click EXCEPT ![c] = Task("done")]
        OBVIOUS
      <3>2. ClickMoved(click, c, gone, "done", 0)
        BY <1>2, <3>1, AtFields
      <3>3. /\ \A d \in ClickTasks \ {c} : gone[d] = click[d]
            /\ gone[c].pc = "done" /\ c \in LiveClicks(click)
        BY <1>3, <3>2 DEF ClickMoved, LiveClicks
      <3>4. \A d \in ClickTasks : gone[d].pc \notin {"painting", "done"}
                                     => click[d].pc \notin {"painting", "done"}
        BY <3>3
      <3>5. /\ Cardinality(LiveClicks(click)) \in Nat /\ Cardinality(LiveClicks(gone)) \in Nat
            /\ Cardinality(LiveClicks(gone)) + 1 <= Cardinality(LiveClicks(click))
        BY <3>3, <3>4, LiveShrinks
      <3>. QED  BY <3>5
    <2>. QED  BY <1>2, <1>4, <2>1, GateAssumption DEF Views, NoView, Room
  <1>7. PICK clicks, pc, entry :
           /\ pc \in {"done", "painting"} /\ entry \in Nat
           /\ ClickMoved(click, c, clicks, pc, entry) /\ entry <= turn.id
           /\ Release(clicks, click[c].entry)
           /\ painter' \in PainterStates /\ painter'.newest = v
           /\ painter'.busy
    <2>1. click[c].entry \in Nat /\ click[c].entry <= turn.id
      BY <1>2 DEF ClickStates, QueueInv
    <2>2. CASE painter.busy /\ ~painter.closed
      <3>1. painter' = [painter EXCEPT !.newest = v, !.pending = v]
        BY <1>5, <2>2 DEF Publish
      <3>2. painter' \in PainterStates /\ painter'.newest = v /\ painter'.busy
        BY <1>2, <1>6, <2>2, <3>1 DEF PainterStates
      <3>3. Release([click EXCEPT ![c] = Task("done")], click[c].entry)
        BY <1>5, <2>2 DEF Publish
      <3>4. ClickMoved(click, c, [click EXCEPT ![c] = Task("done")], "done", 0)
        BY <1>2, AtFields
      <3>. QED  BY <1>2, <3>2, <3>3, <3>4
    <2>3. CASE ~(painter.busy /\ ~painter.closed)
      <3>1. PICK id \in {IF painter.closed THEN painter.id + 1 ELSE painter.id} :
               /\ painter' = [id |-> id, newest |-> v, pending |-> NoView,
                              busy |-> TRUE, closed |-> FALSE]
               /\ Release([click EXCEPT ![c].pc = "painting", ![c].view = v, ![c].brush = id],
                          click[c].entry)
        BY <1>5, <2>3 DEF Publish
      <3>2. id \in Nat
        BY <1>2, <3>1
      <3>3. painter' \in PainterStates /\ painter'.newest = v /\ painter'.busy
        BY <1>6, <3>1, <3>2, GateAssumption DEF PainterStates, NoView, Views
      <3>4. PICK clicks : clicks = [click EXCEPT ![c].pc = "painting", ![c].view = v, ![c].brush = id]
        OBVIOUS
      <3>5. \A t \in ClickStates :
               /\ [t EXCEPT !.pc = "painting", !.view = v, !.brush = id] \in ClickStates
               /\ [t EXCEPT !.pc = "painting", !.view = v, !.brush = id].pc = "painting"
               /\ [t EXCEPT !.pc = "painting", !.view = v, !.brush = id].entry = t.entry
        BY <1>6, <3>2 DEF ClickStates
      <3>6. PICK t \in ClickStates : t = [click[c] EXCEPT !.pc = "painting", !.view = v, !.brush = id]
        BY <1>2, <3>5
      <3>7. t.pc = "painting" /\ t.entry = click[c].entry
        BY <1>2, <3>5, <3>6
      <3>8. clicks = [click EXCEPT ![c] = t]
        BY <1>2, <3>4, <3>6
      <3>9. ClickMoved(click, c, clicks, "painting", click[c].entry)
        BY <1>2, <3>7, <3>8 DEF ClickMoved
      <3>. QED  BY <2>1, <3>1, <3>3, <3>4, <3>9
    <2>. QED  BY <2>2, <2>3
  <1>8. click[c].entry = turn.id => HoldsTurn(click, turn, c)
    BY <1>3 DEF HoldsTurn
  <1>9. /\ click' \in [ClickTasks -> ClickStates] /\ turn' \in TurnStates
        /\ slips' \in SUBSET {"skipped", "cancelled", "timer"} /\ slips \subseteq slips'
        /\ TurnInv(click', turn', slips')
        /\ \A d \in ClickTasks : \/ click'[d] = clicks[d]
                                 \/ clicks[d].pc = "waiting" /\ click'[d].pc = "granted"
    <2>1. click[c].pc \in Working
      BY <1>3 DEF Working
    <2>2. /\ pc \in {"done", "painting"} /\ entry \in Nat /\ entry <= turn.id
          /\ ClickMoved(click, c, clicks, pc, entry)
          /\ Grant(clicks, click[c].entry) \/ Release(clicks, click[c].entry)
      BY <1>7
    <2>3. /\ click \in [ClickTasks -> ClickStates] /\ turn \in TurnStates
          /\ TurnInv(click, turn, slips) /\ slips \in SUBSET {"skipped", "cancelled", "timer"}
      BY <1>2
    <2>. QED  BY <1>8, <2>1, <2>2, <2>3, HandsOn
  <1>10. /\ \A d \in ClickTasks \ {c} : clicks[d] = click[d]
         /\ clicks[c].pc \in {"done", "painting"}
    BY <1>7 DEF ClickMoved
  <1>11. Room(click', painter')
    <2>1. \A d \in ClickTasks : click'[d].pc \notin {"painting", "done"}
                                   => click[d].pc \notin {"painting", "done"}
      BY <1>9, <1>10
    <2>2. c \in LiveClicks(click) /\ click'[c].pc \in {"painting", "done"}
      BY <1>3, <1>9, <1>10 DEF LiveClicks
    <2>3. /\ Cardinality(LiveClicks(click)) \in Nat /\ Cardinality(LiveClicks(click')) \in Nat
          /\ Cardinality(LiveClicks(click')) + 1 <= Cardinality(LiveClicks(click))
      BY <2>1, <2>2, LiveShrinks
    <2>. QED  BY <1>2, <1>4, <1>7, <2>3, GateAssumption DEF Room
  <1>12. QuietWhenClosed(click', painter', panelOpen, slips')
    <2>1. QuietWhenClosed(click, painter, panelOpen, slips)
      BY <1>1 DEF TurnKept
    <2>2. slips' = {} => slips = {}
      BY <1>9
    <2>. QED  BY <1>3, <2>1, <2>2 DEF QuietWhenClosed
  <1>. QED  BY <1>1, <1>3, <1>7, <1>9, <1>11, <1>12 DEF GateInv, Typed, TurnKept

\* A step of a paint: the task stays at it or is over, and no view is published.
LEMMA PaintKeeps ==
  ASSUME GateInv, NEW c \in ClickTasks, NEW pc \in {"painting", "done"}, NEW entry \in Nat,
         ClickMoved(click, c, click', pc, entry), entry <= turn.id, click[c].pc = "painting",
         UNCHANGED <<recent, turn, panelOpen>>,
         slips' \in SUBSET {"skipped", "cancelled", "timer"}, slips \subseteq slips',
         painter' \in PainterStates, painter'.newest = painter.newest,
         painter'.pending \in {NoView, painter.pending},
         painter'.pending # NoView => painter'.busy \/ "cancelled" \in slips'
  PROVE  GateInv'
  <1>1. /\ Typed(recent, click, turn, painter, panelOpen, slips)
        /\ TurnKept(click, turn, painter, panelOpen, slips)
    BY DEF GateInv
  <1>2. /\ click \in [ClickTasks -> ClickStates] /\ turn \in TurnStates /\ painter \in PainterStates
        /\ TurnInv(click, turn, slips) /\ Room(click, painter)
    BY <1>1 DEF Typed, TurnKept
  <1>3. click' \in [ClickTasks -> ClickStates] /\ click'[c].pc = pc
        /\ \A d \in ClickTasks \ {c} : click'[d] = click[d]
    BY DEF ClickMoved
  <1>4. TurnInv(click', turn, slips')
    <2>1. pc \in IdleStates /\ click[c].pc \in IdleStates
      BY DEF IdleStates
    <2>2. "skipped" \in slips => "skipped" \in slips'
      OBVIOUS
    <2>. QED  BY <1>2, <2>1, <2>2, IdleMove
  <1>5. Room(click', painter')
    <2>1. \A d \in ClickTasks : click'[d].pc \notin {"painting", "done"}
                                   => click[d].pc \notin {"painting", "done"}
      BY <1>3
    <2>. QED  BY <1>2, <2>1, RoomKept
  <1>6. QuietWhenClosed(click', painter', panelOpen, slips')
    <2>1. QuietWhenClosed(click, painter, panelOpen, slips)
      BY <1>1 DEF TurnKept
    <2>2. ASSUME NEW d \in ClickTasks
          PROVE  /\ click'[d].pc = "handling" <=> click[d].pc = "handling"
                 /\ click'[d].pc = "closing" <=> click[d].pc = "closing"
      BY <1>3
    <2>3. slips' = {} => slips = {}
      OBVIOUS
    <2>. QED  BY <2>1, <2>2, <2>3 DEF QuietWhenClosed
  <1>. QED  BY <1>1, <1>3, <1>4, <1>5, <1>6 DEF GateInv, Typed, TurnKept

LEMMA DropFacts ==
  ASSUME NEW c \in ClickTasks, painter \in PainterStates, Drop(c)
  PROVE  /\ painter' \in PainterStates /\ painter'.newest = painter.newest
         /\ painter'.pending = painter.pending
         /\ painter'.busy # painter.busy => click[c].brush = painter.id
  BY DEF PainterStates, Drop

LEMMA DrainKeeps ==
  ASSUME GateInv, NEW c \in ClickTasks, GateDrain(c)
  PROVE  GateInv'
  <1>1. /\ click \in [ClickTasks -> ClickStates] /\ painter \in PainterStates /\ QueueInv(click, turn)
        /\ turn.id \in Nat /\ slips \in SUBSET {"skipped", "cancelled", "timer"}
        /\ painter.pending # NoView => painter.busy \/ "cancelled" \in slips
    BY DEF GateInv, Typed, TurnKept, TurnInv, TurnStates
  <1>2. click[c].pc = "painting" /\ UNCHANGED <<recent, turn, panelOpen, slips>>
    BY DEF GateDrain
  <1>3. CASE click[c].brush # painter.id \/ painter.pending = NoView
    <2>1. click' = [click EXCEPT ![c] = Task("done")] /\ Drop(c)
      BY <1>3 DEF GateDrain
    <2>2. ClickMoved(click, c, click', "done", 0)
      BY <1>1, <2>1, AtFields
    <2>3. /\ painter' \in PainterStates /\ painter'.newest = painter.newest
          /\ painter'.pending = painter.pending
          /\ painter'.busy # painter.busy => click[c].brush = painter.id
      BY <1>1, <2>1, DropFacts
    <2>4. painter'.pending # NoView => painter'.busy \/ "cancelled" \in slips'
      BY <1>1, <1>2, <1>3, <2>3
    <2>5. slips' \in SUBSET {"skipped", "cancelled", "timer"} /\ slips \subseteq slips' /\ 0 <= turn.id
      BY <1>1, <1>2
    <2>. QED  BY <1>2, <2>2, <2>3, <2>4, <2>5, PaintKeeps
  <1>4. CASE ~(click[c].brush # painter.id \/ painter.pending = NoView)
    <2>1. /\ click' = [click EXCEPT ![c].pc = "painting", ![c].view = painter.pending]
          /\ painter' = [painter EXCEPT !.pending = NoView]
      BY <1>4 DEF GateDrain
    <2>2. /\ painter' \in PainterStates /\ painter'.newest = painter.newest
          /\ painter'.pending = NoView
      BY <1>1, <2>1, GateAssumption DEF PainterStates, NoView, Views
    <2>3. painter.pending \in Views
      BY <1>1 DEF PainterStates
    <2>4. PICK v \in Views : v = painter.pending
      BY <2>3
    <2>5. \A t \in ClickStates :
             /\ [t EXCEPT !.pc = "painting", !.view = v] \in ClickStates
             /\ [t EXCEPT !.pc = "painting", !.view = v].pc = "painting"
             /\ [t EXCEPT !.pc = "painting", !.view = v].entry = t.entry
      BY DEF ClickStates
    <2>6. PICK t \in ClickStates : t = [click[c] EXCEPT !.pc = "painting", !.view = v]
      BY <1>1, <2>5
    <2>7. t.pc = "painting" /\ t.entry = click[c].entry
      BY <1>1, <2>5, <2>6
    <2>8. click' = [click EXCEPT ![c] = t]
      BY <1>1, <2>1, <2>4, <2>6
    <2>9. ClickMoved(click, c, click', "painting", click[c].entry)
      BY <1>1, <2>7, <2>8 DEF ClickMoved
    <2>10. click[c].entry \in Nat /\ click[c].entry <= turn.id
      BY <1>1 DEF ClickStates, QueueInv
    <2>11. slips' \in SUBSET {"skipped", "cancelled", "timer"} /\ slips \subseteq slips'
      BY <1>1, <1>2
    <2>. QED  BY <1>2, <2>2, <2>9, <2>10, <2>11, PaintKeeps
  <1>. QED  BY <1>3, <1>4

LEMMA CancelKeeps ==
  ASSUME GateInv, NEW c \in ClickTasks, GateCancel(c)
  PROVE  GateInv'
  <1>1. /\ click \in [ClickTasks -> ClickStates] /\ painter \in PainterStates
        /\ turn.id \in Nat /\ slips \in SUBSET {"skipped", "cancelled", "timer"}
    BY DEF GateInv, Typed, TurnStates
  <1>2. /\ click[c].pc = "painting" /\ UNCHANGED <<recent, turn, panelOpen>>
        /\ click' = [click EXCEPT ![c] = Task("done")] /\ Drop(c)
        /\ slips' = slips \cup {"cancelled"}
    BY DEF GateCancel
  <1>3. ClickMoved(click, c, click', "done", 0)
    BY <1>1, <1>2, AtFields
  <1>4. /\ painter' \in PainterStates /\ painter'.newest = painter.newest
        /\ painter'.pending = painter.pending
    BY <1>1, <1>2, DropFacts
  <1>5. /\ slips' \in SUBSET {"skipped", "cancelled", "timer"} /\ slips \subseteq slips'
        /\ "cancelled" \in slips' /\ 0 <= turn.id
    BY <1>1, <1>2
  <1>. QED  BY <1>2, <1>3, <1>4, <1>5, PaintKeeps

LEMMA CloseKeeps ==
  ASSUME GateInv, NEW c \in ClickTasks, GateClose(c)
  PROVE  GateInv'
  <1>1. /\ Typed(recent, click, turn, painter, panelOpen, slips)
        /\ TurnKept(click, turn, painter, panelOpen, slips)
    BY DEF GateInv
  <1>2. /\ click \in [ClickTasks -> ClickStates] /\ turn \in TurnStates /\ painter \in PainterStates
        /\ TurnInv(click, turn, slips) /\ Room(click, painter) /\ QueueInv(click, turn)
    BY <1>1 DEF Typed, TurnKept, TurnInv
  <1>3. /\ click[c].pc = "handling" /\ click' = [click EXCEPT ![c].pc = "closing"]
        /\ panelOpen' = FALSE /\ UNCHANGED <<recent, turn, painter, slips>>
    BY DEF GateClose
  <1>4. ClickMoved(click, c, click', "closing", click[c].entry)
    BY <1>2, <1>3, AtFields
  <1>5. /\ click' \in [ClickTasks -> ClickStates] /\ \A d \in ClickTasks \ {c} : click'[d] = click[d]
        /\ click'[c].pc = "closing" /\ click'[c].entry = click[c].entry
    BY <1>4 DEF ClickMoved
  <1>6. QueueInv(click', turn)
    BY <1>2, <1>3, <1>5 DEF QueueInv
  <1>7. ASSUME NEW d \in ClickTasks
        PROVE  /\ HoldsTurn(click', turn, d) <=> HoldsTurn(click, turn, d)
               /\ click'[d].pc \in Working =>
                     click'[d].entry = click[d].entry /\ click[d].pc \in Working
    BY <1>3, <1>5 DEF HoldsTurn, Working
  <1>8. TurnInv(click', turn, slips)
    BY <1>2, <1>6, <1>7, SameHolders
  <1>9. Room(click', painter)
    <2>1. \A d \in ClickTasks : click'[d].pc \notin {"painting", "done"}
                                   => click[d].pc \notin {"painting", "done"}
      BY <1>3, <1>5
    <2>. QED  BY <1>2, <2>1, RoomKept
  <1>10. QuietWhenClosed(click', painter, FALSE, slips)
    <2>1. SUFFICES ASSUME slips = {}
                   PROVE  \A d \in ClickTasks : click'[d].pc # "handling"
      BY <1>5 DEF QuietWhenClosed
    <2>2. HeldOnce(click, turn)
      BY <1>2, <2>1 DEF TurnInv
    <2>3. ASSUME NEW d \in ClickTasks, d # c, click[d].pc = "handling" PROVE FALSE
      <3>1. HoldsTurn(click, turn, c) /\ HoldsTurn(click, turn, d)
        BY <1>3, <2>2, <2>3 DEF HeldOnce, HoldsTurn
      <3>. QED  BY <2>2, <2>3, <3>1 DEF HeldOnce
    <2>. QED  BY <1>5, <2>3
  <1>. QED  BY <1>1, <1>3, <1>5, <1>8, <1>9, <1>10 DEF GateInv, Typed, TurnKept

LEMMA ForgetKeeps ==
  ASSUME GateInv, NEW c \in ClickTasks, GateForget(c)
  PROVE  GateInv'
  <1>1. /\ Typed(recent, click, turn, painter, panelOpen, slips)
        /\ TurnKept(click, turn, painter, panelOpen, slips)
    BY DEF GateInv
  <1>2. /\ click \in [ClickTasks -> ClickStates] /\ turn \in TurnStates /\ painter \in PainterStates
        /\ TurnInv(click, turn, slips) /\ Room(click, painter)
        /\ slips \in SUBSET {"skipped", "cancelled", "timer"} /\ turn.id \in Nat
    BY <1>1 DEF Typed, TurnKept, TurnStates
  <1>3. /\ click[c].pc = "closing" /\ UNCHANGED <<recent, panelOpen>>
        /\ painter' = [painter EXCEPT !.pending = NoView, !.closed = TRUE]
    BY DEF GateForget
  <1>4. PICK gone : gone = [click EXCEPT ![c] = Task("done")]
    OBVIOUS
  <1>5. ClickMoved(click, c, gone, "done", 0) /\ Release(gone, click[c].entry)
    BY <1>2, <1>4, AtFields DEF GateForget
  <1>6. /\ \A d \in ClickTasks \ {c} : gone[d] = click[d]
        /\ gone[c].pc = "done"
    BY <1>5 DEF ClickMoved
  <1>7. /\ click' \in [ClickTasks -> ClickStates] /\ turn' \in TurnStates
        /\ slips' \in SUBSET {"skipped", "cancelled", "timer"} /\ slips \subseteq slips'
        /\ TurnInv(click', turn', slips')
        /\ \A d \in ClickTasks : \/ click'[d] = gone[d]
                                 \/ gone[d].pc = "waiting" /\ click'[d].pc = "granted"
    <2>1. click[c].pc \in Working /\ 0 \in Nat /\ 0 <= turn.id /\ "done" \in {"done", "painting"}
      BY <1>2, <1>3 DEF Working
    <2>2. click[c].entry = turn.id => HoldsTurn(click, turn, c)
      BY <1>3 DEF HoldsTurn
    <2>3. Grant(gone, click[c].entry) \/ Release(gone, click[c].entry)
      BY <1>5
    <2>4. ClickMoved(click, c, gone, "done", 0)
      BY <1>5
    <2>. QED  BY <1>2, <2>1, <2>2, <2>3, <2>4, HandsOn
  <1>8. painter' \in PainterStates /\ painter'.newest = painter.newest /\ painter'.pending = NoView
    <2>1. NoView \in Views
      BY GateAssumption DEF NoView, Views
    <2>2. \A p \in PainterStates :
             /\ [p EXCEPT !.pending = NoView, !.closed = TRUE] \in PainterStates
             /\ [p EXCEPT !.pending = NoView, !.closed = TRUE].newest = p.newest
             /\ [p EXCEPT !.pending = NoView, !.closed = TRUE].pending = NoView
      BY <2>1 DEF PainterStates
    <2>. QED  BY <1>2, <1>3, <2>2
  <1>9. Room(click', painter')
    <2>1. \A d \in ClickTasks : click'[d].pc \notin {"painting", "done"}
                                   => click[d].pc \notin {"painting", "done"}
      BY <1>6, <1>7
    <2>. QED  BY <1>2, <1>8, <2>1, RoomKept
  <1>10. QuietWhenClosed(click', painter', panelOpen, slips')
    <2>1. QuietWhenClosed(click, painter, panelOpen, slips)
      BY <1>1 DEF TurnKept
    <2>2. \A d \in ClickTasks : click'[d].pc = "handling" => click[d].pc = "handling"
      BY <1>6, <1>7
    <2>3. slips' = {} => slips = {}
      BY <1>7
    <2>. QED  BY <1>8, <2>1, <2>2, <2>3 DEF QuietWhenClosed
  <1>. QED  BY <1>1, <1>3, <1>7, <1>8, <1>9, <1>10 DEF GateInv, Typed, TurnKept

LEMMA TimerKeeps ==
  ASSUME GateInv, GateTimer
  PROVE  GateInv'
  <1>1. /\ panelOpen' = FALSE /\ slips' = slips \cup {"timer"}
        /\ UNCHANGED <<recent, click, turn, painter>>
    BY DEF GateTimer
  <1>2. TurnInv(click, turn, slips')
    BY <1>1 DEF GateInv, TurnKept, TurnInv
  <1>3. QuietWhenClosed(click, painter, FALSE, slips')
    BY <1>1 DEF QuietWhenClosed
  <1>4. slips' \in SUBSET {"skipped", "cancelled", "timer"}
    BY <1>1 DEF GateInv, Typed
  <1>. QED  BY <1>1, <1>2, <1>3, <1>4 DEF GateInv, Typed, TurnKept

-----------------------------------------------------------------------------
LEMMA GateStep ==
  ASSUME GateInv, [GateNext]_gateVars
  PROVE  GateInv'
  <1>1. ASSUME NEW c \in ClickTasks,
               \/ \E q \in Queries : GateAdmit(c, q)
               \/ GateArrive(c) \/ GateLapse(c) \/ GateGiveUp(c) \/ GateDispatch(c)
               \/ GateHandled(c) \/ GateDrain(c) \/ GateCancel(c)
               \/ GateClose(c) \/ GateForget(c)
        PROVE  GateInv'
    BY <1>1, AdmitKeeps, ArriveKeeps, LapseKeeps, GiveUpKeeps, DispatchKeeps,
       HandledKeeps, DrainKeeps, CancelKeeps, CloseKeeps, ForgetKeeps
  <1>2. CASE UNCHANGED gateVars
    BY <1>2 DEF gateVars, GateInv
  <1>. QED  BY <1>1, <1>2, TimerKeeps DEF GateNext

LEMMA GateStart == GateInit => GateInv
  <1> SUFFICES ASSUME GateInit PROVE GateInv
    OBVIOUS
  <1>1. /\ recent = <<>> /\ click = [c \in ClickTasks |-> Task("new")] /\ turn = PanelTurn
        /\ painter = [id |-> 0, newest |-> NoView, pending |-> NoView, busy |-> FALSE, closed |-> FALSE]
        /\ panelOpen = TRUE /\ slips = {}
    BY DEF GateInit
  <1>2. PICK t \in ClickStates : t = Task("new") /\ t.pc = "new" /\ t.entry = 0
    BY ClickFields
  <1>3. click \in [ClickTasks -> ClickStates] /\ \A c \in ClickTasks : click[c].pc = "new" /\ click[c].entry = 0
    BY <1>1, <1>2
  <1>4. turn \in TurnStates /\ ~turn.busy /\ turn.id = 0 /\ turn.waiters = <<>>
    BY <1>1 DEF PanelTurn, TurnStates
  <1>5. /\ painter \in PainterStates /\ painter.newest = 0 /\ painter.pending = NoView
    BY <1>1, GateAssumption DEF PainterStates, NoView, Views
  <1>6. \A c : ~Queued(turn.waiters, c)
    BY <1>4 DEF Queued
  <1>7. QueueInv(click, turn)
    BY <1>3, <1>4, <1>6 DEF QueueInv, Distinct, Queued
  <1>8. TurnInv(click, turn, slips)
    BY <1>3, <1>4, <1>7 DEF TurnInv, HeldOnce, HoldsTurn
  <1>9. Room(click, painter)
    <2>1. LiveClicks(click) = ClickTasks
      BY <1>3 DEF LiveClicks
    <2>2. Cardinality(ClickTasks) = Deliveries
      BY GateAssumption, FS_Interval DEF ClickTasks
    <2>. QED  BY <1>5, <2>1, <2>2, GateAssumption DEF Room
  <1>10. recent \in Seq(Queries) /\ Len(recent) <= RecentLimit
    BY <1>1, GateAssumption
  <1>. QED  BY <1>1, <1>3, <1>4, <1>5, <1>8, <1>9, <1>10 DEF GateInv, Typed, TurnKept, QuietWhenClosed

LEMMA GateInvHolds == GateSpec => []GateInv
  BY GateStart, GateStep, PTL DEF GateSpec

\* Every task, the turn, the painter and the recent queries keep their types: a view has
\* a number for each click at most, and the recent queries stay within their limit.
THEOREM GateTypeCorrect == GateSpec => []GateTypeOK
  <1>1. GateInv => GateTypeOK
    BY DEF GateInv, Typed, ClickStates, TurnStates, PainterStates, GateTypeOK
  <1>. QED  BY <1>1, GateInvHolds, PTL

\* Two clicks are handled together only after a skipped waiter, and a turn in use always
\* has a task that will hand it on.
THEOREM TurnsStayHandedOn == GateSpec => []TurnsAreHandedOn
  <1>1. ASSUME GateInv PROVE SharedTurnNeedsASkippedWaiter
    <2>1. SUFFICES ASSUME "skipped" \notin slips PROVE ~(Cardinality(Handling) > 1)
      BY DEF SharedTurnNeedsASkippedWaiter
    <2>2. HeldOnce(click, turn)
      BY <1>1, <2>1 DEF GateInv, TurnKept, TurnInv
    <2>3. ASSUME NEW c \in Handling, NEW d \in Handling PROVE c = d
      <3>1. HoldsTurn(click, turn, c) /\ HoldsTurn(click, turn, d) /\ c \in ClickTasks /\ d \in ClickTasks
        BY <2>2 DEF Handling, ClicksAt, HoldsTurn, HeldOnce
      <3>. QED  BY <2>2, <3>1 DEF HeldOnce
    <2>4. CASE Handling = {}
      BY <2>4, FS_EmptySet
    <2>5. CASE Handling # {}
      <3>1. PICK c : Handling = {c}
        BY <2>3, <2>5
      <3>. QED  BY <3>1, FS_Singleton
    <2>. QED  BY <2>4, <2>5
  <1>2. ASSUME GateInv PROVE TurnIsNeverOrphaned
    <2>1. SUFFICES ASSUME turn.busy
                   PROVE  \E c \in ClickTasks :
                             /\ click[c].entry = turn.id
                             /\ \/ c \in Handling \/ click[c].pc = "granted"
                                \/ click[c].pc = "lapsed"
                                   /\ \A i \in DOMAIN turn.waiters : turn.waiters[i] # c
      BY DEF TurnIsNeverOrphaned
    <2>2. PICK c \in ClickTasks : HoldsTurn(click, turn, c)
      BY <1>2, <2>1 DEF GateInv, TurnKept, TurnInv
    <2>. QED  BY <2>2 DEF HoldsTurn, Queued, Handling, ClicksAt
  <1>. QED  BY <1>1, <1>2, GateInvHolds, PTL DEF TurnsAreHandedOn

\* A published view is painted or superseded unless its paint was cancelled.
THEOREM NoViewIsStranded == GateSpec => []NewestViewIsNeverStranded
  <1>1. GateInv => NewestViewIsNeverStranded
    BY DEF GateInv, TurnKept, NewestViewIsNeverStranded
  <1>. QED  BY <1>1, GateInvHolds, PTL

-----------------------------------------------------------------------------
(* What a step never does to a click. *)

TurnStep(e) ==
    \/ \E q \in Queries : GateAdmit(e, q)
    \/ GateArrive(e) \/ GateLapse(e) \/ GateGiveUp(e) \/ GateDispatch(e)
    \/ GateHandled(e) \/ GateDrain(e) \/ GateCancel(e) \/ GateClose(e) \/ GateForget(e)

\* _grant changes no task but the one it wakes.
LEMMA WakesOnly ==
  ASSUME NEW clicks \in [ClickTasks -> ClickStates], NEW entry, NEW d \in ClickTasks,
         Grant(clicks, entry) \/ Release(clicks, entry)
  PROVE  click'[d] = clicks[d] \/ click'[d].pc = "granted"
  <1>1. clicks[d] \in ClickStates /\ \A t \in ClickStates : [t EXCEPT !.pc = "granted"].pc = "granted"
    BY DEF ClickStates
  <1>2. click' = clicks \/ click' = Woken(clicks)
    BY DEF Grant, Release
  <1>3. CASE click' = Woken(clicks)
    <2>1. click'[d] = clicks[d] \/ click'[d] = [clicks[d] EXCEPT !.pc = "granted"]
      BY <1>3 DEF Woken
    <2>. QED  BY <1>1, <2>1
  <1>. QED  BY <1>2, <1>3

\* Where the task of a step goes, and that the others only ever are woken.
LEMMA TaskStepFacts ==
  ASSUME GateInv, NEW e \in ClickTasks, TurnStep(e)
  PROVE  /\ \A d \in ClickTasks \ {e} : click'[d] = click[d] \/ click'[d].pc = "granted"
         /\ click'[e].pc = "handling" =>
               \/ click[e].pc = "acked" /\ ~turn.busy
               \/ click[e].pc = "granted"
         /\ click'[e].pc = "painting" =>
               \/ click[e].pc = "handling"
               \/ click[e].pc = "painting" /\ painter.pending # NoView
  <1> DEFINE Goal ==
        /\ \A d \in ClickTasks \ {e} : click'[d] = click[d] \/ click'[d].pc = "granted"
        /\ click'[e].pc = "handling" =>
              \/ click[e].pc = "acked" /\ ~turn.busy
              \/ click[e].pc = "granted"
        /\ click'[e].pc = "painting" =>
              \/ click[e].pc = "handling"
              \/ click[e].pc = "painting" /\ painter.pending # NoView
  <1>1. click \in [ClickTasks -> ClickStates] /\ click[e] \in ClickStates
    BY DEF GateInv, Typed
  <1>2. PICK gone : gone = [click EXCEPT ![e] = Task("done")]
    OBVIOUS
  <1>3. ClickMoved(click, e, gone, "done", 0)
    BY <1>1, <1>2, AtFields
  <1>4. /\ gone \in [ClickTasks -> ClickStates] /\ gone[e].pc = "done"
        /\ \A d \in ClickTasks \ {e} : gone[d] = click[d]
    BY <1>3 DEF ClickMoved
  <1>5. CASE \E q \in Queries : GateAdmit(e, q)
    <2>1. click' = gone \/ click' = [click EXCEPT ![e].pc = "acked"]
      BY <1>2, <1>5 DEF GateAdmit
    <2>2. ClickMoved(click, e, [click EXCEPT ![e].pc = "acked"], "acked", click[e].entry)
      BY <1>1, AtFields
    <2>. QED  BY <1>4, <2>1, <2>2 DEF ClickMoved
  <1>6. CASE GateArrive(e)
    <2>1. CASE ~panelOpen
      BY <1>2, <1>4, <1>6, <2>1 DEF GateArrive
    <2>2. CASE panelOpen
      <3>1. PICK pc \in {"handling", "waiting"} :
               /\ click' = [click EXCEPT ![e].pc = pc, ![e].entry = turn.id]
               /\ pc = "handling" => ~turn.busy
        BY <1>6, <2>2 DEF GateArrive
      <3>2. click'[e].pc = pc
        BY <1>1, <3>1 DEF ClickStates
      <3>3. \A d \in ClickTasks \ {e} : click'[d] = click[d]
        BY <1>1, <3>1
      <3>. QED  BY <1>6, <3>1, <3>2, <3>3 DEF GateArrive
    <2>. QED  BY <2>1, <2>2
  <1>7. CASE GateLapse(e)
    <2>1. ClickMoved(click, e, click', "lapsed", click[e].entry)
      BY <1>1, <1>7, AtFields DEF GateLapse
    <2>. QED  BY <2>1 DEF ClickMoved
  <1>8. ASSUME NEW entry, click' = gone \/ Grant(gone, entry) \/ Release(gone, entry)
        PROVE  Goal
    <2>1. \A d \in ClickTasks : click'[d] = gone[d] \/ click'[d].pc = "granted"
      BY <1>4, <1>8, WakesOnly
    <2>. QED  BY <1>4, <2>1
  <1>9. CASE GateGiveUp(e)
    BY <1>2, <1>8, <1>9 DEF GateGiveUp
  <1>10. CASE GateDispatch(e)
    <2>1. CASE panelOpen
      <3>1. ClickMoved(click, e, click', "handling", click[e].entry)
        BY <1>1, <1>10, <2>1, AtFields DEF GateDispatch
      <3>. QED  BY <1>10, <3>1 DEF ClickMoved, GateDispatch
    <2>2. CASE ~panelOpen
      BY <1>2, <1>8, <1>10, <2>2 DEF GateDispatch
    <2>. QED  BY <2>1, <2>2
  <1>11. CASE GateHandled(e)
    <2>1. PICK v : v = painter.newest + 1
      OBVIOUS
    <2>2. Publish(click, e, v) /\ click[e].pc = "handling"
      BY <1>11, <2>1 DEF GateHandled
    <2>3. CASE painter.busy /\ ~painter.closed
      BY <1>2, <1>8, <2>2, <2>3 DEF Publish
    <2>4. CASE ~(painter.busy /\ ~painter.closed)
      <3>1. PICK id : Release([click EXCEPT ![e].pc = "painting", ![e].view = v, ![e].brush = id],
                              click[e].entry)
        BY <2>2, <2>4 DEF Publish
      <3>2. PICK clicks : clicks = [click EXCEPT ![e].pc = "painting", ![e].view = v, ![e].brush = id]
        OBVIOUS
      <3>3. \A d \in ClickTasks \ {e} : clicks[d] = click[d]
        BY <1>1, <3>2
      <3>4. click' = clicks \/ click' = Woken(clicks)
        BY <3>1, <3>2 DEF Release
      <3>5. clicks[e].pc = "painting"
        BY <1>1, <3>2 DEF ClickStates
      <3>6. \A t \in ClickStates : [t EXCEPT !.pc = "granted"].pc = "granted"
        BY DEF ClickStates
      <3>7. ASSUME NEW d \in ClickTasks \ {e}
            PROVE  click'[d] = click[d] \/ click'[d].pc = "granted"
        <4>1. click'[d] = click[d] \/ click'[d] = [click[d] EXCEPT !.pc = "granted"]
          BY <3>3, <3>4 DEF Woken
        <4>. QED  BY <1>1, <3>6, <4>1
      <3>8. click'[e].pc # "handling"
        <4>1. click'[e] = clicks[e] \/ click'[e] = [clicks[e] EXCEPT !.pc = "granted"]
          BY <3>4 DEF Woken
        <4>2. clicks[e] = [click[e] EXCEPT !.pc = "painting", !.view = v, !.brush = id]
          BY <1>1, <3>2
        <4>. QED  BY <1>1, <3>5, <4>1, <4>2 DEF ClickStates
      <3>. QED  BY <2>2, <3>7, <3>8
    <2>. QED  BY <2>3, <2>4
  <1>12. CASE GateDrain(e)
    <2>1. CASE click[e].brush # painter.id \/ painter.pending = NoView
      BY <1>2, <1>8, <1>12, <2>1 DEF GateDrain
    <2>2. CASE ~(click[e].brush # painter.id \/ painter.pending = NoView)
      <3>1. click' = [click EXCEPT ![e].pc = "painting", ![e].view = painter.pending]
        BY <1>12, <2>2 DEF GateDrain
      <3>2. click'[e].pc = "painting"
        BY <1>1, <3>1 DEF ClickStates
      <3>3. \A d \in ClickTasks \ {e} : click'[d] = click[d]
        BY <1>1, <3>1
      <3>. QED  BY <1>12, <2>2, <3>2, <3>3 DEF GateDrain
    <2>. QED  BY <2>1, <2>2
  <1>13. CASE GateCancel(e)
    BY <1>2, <1>8, <1>13 DEF GateCancel
  <1>14. CASE GateClose(e)
    <2>1. ClickMoved(click, e, click', "closing", click[e].entry)
      BY <1>1, <1>14, AtFields DEF GateClose
    <2>. QED  BY <2>1 DEF ClickMoved
  <1>15. CASE GateForget(e)
    BY <1>2, <1>8, <1>15 DEF GateForget
  <1>. QED  BY <1>5, <1>6, <1>7, <1>9, <1>10, <1>11, <1>12, <1>13, <1>14, <1>15 DEF TurnStep

\* A click that finds the panel idle never passes one that waits for it.
THEOREM NobodyOvertakes == GateSpec => NewcomersNeverOvertake
  <1>1. ASSUME GateInv, GateNext, NEW c \in ClickTasks, NEW d \in ClickTasks,
               click[c].pc = "waiting", click[d].pc = "acked"
        PROVE  click'[d].pc # "handling"
    <2>1. turn.busy
      BY <1>1 DEF GateInv, TurnKept, TurnInv, QueueInv
    <2>2. ASSUME NEW e \in ClickTasks, TurnStep(e) PROVE click'[d].pc # "handling"
      BY <1>1, <2>1, <2>2, TaskStepFacts
    <2>3. CASE GateTimer
      BY <1>1, <2>3 DEF GateTimer
    <2>. QED  BY <1>1, <2>2, <2>3 DEF GateNext, TurnStep
  <1>2. GateInv /\ [GateNext]_gateVars =>
           [\A c, d \in ClickTasks :
               (click[c].pc = "waiting" /\ click[d].pc = "acked") => click'[d].pc # "handling"]_gateVars
    BY <1>1
  <1>. QED  BY <1>2, GateInvHolds, PTL DEF GateSpec, NewcomersNeverOvertake

\* Once the click that closed the panel is over, no edit of its message begins.
THEOREM ClosedStaysQuiet == GateSpec => ClosedPanelsStayQuiet
  <1>1. ASSUME GateInv, GateNext, ~panelOpen, slips = {}, Handling = {}, NEW c \in ClickTasks,
               click'[c].pc = "painting"
        PROVE  click'[c] = click[c]
    <2>1. \A d \in ClickTasks : click[d].pc \notin {"handling", "closing"}
      BY <1>1 DEF Handling, ClicksAt
    <2>2. painter.pending = NoView
      BY <1>1, <2>1 DEF GateInv, TurnKept, QuietWhenClosed
    <2>3. ASSUME NEW e \in ClickTasks, TurnStep(e) PROVE click'[c] = click[c]
      BY <1>1, <2>1, <2>2, <2>3, TaskStepFacts
    <2>4. CASE GateTimer
      BY <2>4 DEF GateTimer
    <2>. QED  BY <1>1, <2>3, <2>4 DEF GateNext, TurnStep
  <1>2. GateInv /\ [GateNext]_gateVars =>
           [(~panelOpen /\ slips = {} /\ Handling = {}) =>
               \A c \in ClickTasks : click'[c].pc = "painting" => click'[c] = click[c]]_gateVars
    BY <1>1
  <1>. QED  BY <1>2, GateInvHolds, PTL DEF GateSpec, ClosedPanelsStayQuiet

-----------------------------------------------------------------------------
(* The list.  Nothing is turned before the load is over.  From then on a toggle *)
(* carries what it turned through memory, the list being written and the row,  *)
(* as long as the owner awaits it; whatever was confirmed agrees with all       *)
(* three.                                                                      *)
Active == {"turned", "writing", "stored"}

LoadInv ==
    grants.load # "over" => /\ grants.list = {}
                            /\ \A t \in Toggles : toggles[t].pc \notin Active
WriterInv == \A t, u \in Toggles : toggles[t].pc = "writing" /\ toggles[u].pc = "writing" => t = u
ChatInv == \A t \in Toggles : toggles[t].pc \in Active \union {"loading"} => toggles[t].chat \in Sources

Tells(list, t) == toggles[t].chat \in list <=> toggles[t].becomes = "on"
AwaitedInv ==
    \A t \in Toggles : toggles[t].pc \in Active /\ told[toggles[t].chat] = t =>
        /\ Tells(grants.list, t)
        /\ toggles[t].pc = "writing" => Tells(toggles[t].list, t)
        /\ toggles[t].pc = "stored" =>
              /\ Tells(allowRow, t)
              /\ \A u \in Toggles : toggles[u].pc = "writing" => Tells(toggles[u].list, t)

Agrees(list, c) == c \in list <=> told[c] = "on"
SettledInv ==
    \A c \in Sources : told[c] \notin Toggles =>
        /\ Agrees(allowRow, c)
        /\ LoadIsOver => Agrees(grants.list, c)
        /\ \A t \in Toggles : toggles[t].pc = "writing" => Agrees(toggles[t].list, c)

ListInv == /\ LoadInv /\ WriterInv /\ ChatInv
           /\ losses = {} => AwaitedInv /\ SettledInv

(* The input asked for.  While the owner is asked for a text, the message it    *)
(* answers is either no longer selected alone, or its chat is allowed.          *)
AskedInv ==
    \A p \in PanelChats :
        asking = p /\ armed[p] # NoTarget /\ Target(armed[p].chat) = armed[p] => Allowed(armed[p].chat)

GhostInv == GhostTypeOK /\ ListInv /\ AskedInv

-----------------------------------------------------------------------------
(* What is selected alone. *)

LEMMA SelectedAlone ==
  ASSUME GhostTypeOK, NEW c \in Sources, Target(c) # NoTarget
  PROVE  /\ Target(c) \in Targets
         /\ Target(c).chat = c
         /\ selections[c] = {Target(c).letter}
  <1>1. Cardinality(selections[c]) = 1
    BY DEF Target
  <1>2. selections[c] \subseteq Letters
    BY DEF GhostTypeOK
  <1>3. IsFiniteSet(selections[c])
    BY <1>2, FS_Subset, GhostAssumption
  <1>4. PICK m : selections[c] = {m}
    BY <1>1, <1>3, FS_Singleton
  <1>5. Target(c) = [chat |-> c, letter |-> m]
    BY <1>1, <1>4 DEF Target
  <1>. QED  BY <1>2, <1>4, <1>5 DEF Targets

LEMMA TargetType ==
  ASSUME GhostTypeOK, NEW c \in Sources
  PROVE  Target(c) \in Targets \union {NoTarget}
  BY SelectedAlone

LEMMA NothingSelected ==
  \A c : /\ selections[c] = {} => Target(c) = NoTarget
         /\ selections'[c] = {} => Target(c)' = NoTarget
  <1>1. Cardinality({}) # 1
    BY FS_EmptySet
  <1>. QED  BY <1>1 DEF Target

LEMMA SameSelection == \A c : selections'[c] = selections[c] => Target(c)' = Target(c)
  BY DEF Target

LEMMA NoTargetIsNone == \A x \in Targets : x # NoTarget /\ x.chat \in Sources
  BY GhostAssumption DEF Targets, NoTarget

-----------------------------------------------------------------------------
LEMMA GhostInitEstablishes == GhostInit => GhostInv
  <1>. SUFFICES ASSUME GhostInit PROVE GhostInv
    OBVIOUS
  <1>1. ghostBudget \in Budgets
    BY GhostAssumption DEF GhostInit
  <1>2. allowRow \in SUBSET Sources
    <2>1. ghostBudget.chats \in SUBSET Sources
      BY <1>1 DEF Budgets
    <2>. QED  BY <2>1 DEF GhostInit
  <1>3. GhostTypeOK
    BY <1>1, <1>2 DEF GhostInit, GhostTypeOK, Copies, ToggleStates, Verdict, Unloaded, IdleToggle,
                      IdleReply, Replies
  <1>4. ListInv
    <2>1. \A t \in Toggles : toggles[t].pc = "new"
      BY DEF GhostInit, IdleToggle
    <2>2. grants = [list |-> {}, load |-> "none"]
      BY DEF GhostInit, Unloaded
    <2>3. \A c \in Sources : Agrees(allowRow, c)
      BY DEF GhostInit, Agrees, Verdict
    <2>4. LoadInv /\ WriterInv /\ ChatInv /\ AwaitedInv
      BY <2>1, <2>2 DEF LoadInv, WriterInv, ChatInv, AwaitedInv, Active
    <2>5. SettledInv
      BY <2>1, <2>2, <2>3 DEF SettledInv, LoadIsOver
    <2>. QED  BY <2>4, <2>5 DEF ListInv
  <1>5. AskedInv
    BY GhostAssumption DEF GhostInit, AskedInv
  <1>. QED  BY <1>3, <1>4, <1>5 DEF GhostInv

-----------------------------------------------------------------------------
(* Types. *)

LEMMA BudgetsAreSpent ==
  ASSUME ghostBudget \in Budgets, GhostFails \/ Spend \/ GhostRestart
  PROVE  ghostBudget' \in Budgets
  BY DEF Budgets, GhostFails, Spend, GhostRestart

LEMMA TogglesKeepTheirType ==
  ASSUME NEW T, T \in [Toggles -> ToggleStates], NEW t \in Toggles, NEW s \in ToggleStates
  PROVE  [T EXCEPT ![t] = s] \in [Toggles -> ToggleStates]
  OBVIOUS

LEMMA LoadKeepsTypes ==
  ASSUME GhostTypeOK, GhostPreload \/ GhostLoad
  PROVE  GhostTypeOK'
  <1>1. CASE GhostPreload
    <2>1. grants' \in Copies
      BY <1>1 DEF GhostTypeOK, GhostPreload, LoadStarted, Copies
    <2>. QED  BY <1>1, <2>1 DEF GhostTypeOK, GhostPreload, panelVars
  <1>2. CASE GhostLoad
    <2>1. ghostBudget' \in Budgets
      BY <1>2, BudgetsAreSpent DEF GhostTypeOK, GhostLoad
    <2>2. grants' \in Copies
      <3>1. CASE grants' = [list |-> grants.list \union allowRow, load |-> "over"]
        BY <3>1 DEF GhostTypeOK, Copies
      <3>2. CASE grants' = [grants EXCEPT !.load = "over"]
        BY <3>2 DEF GhostTypeOK, Copies
      <3>. QED  BY <1>2, <3>1, <3>2 DEF GhostLoad
    <2>. QED  BY <1>2, <2>1, <2>2 DEF GhostTypeOK, GhostLoad, panelVars
  <1>. QED  BY <1>1, <1>2

LEMMA TurnKeepsTypes ==
  ASSUME GhostTypeOK, NEW t \in Toggles, NEW c \in Sources, Turn(t, c),
         UNCHANGED <<allowRow, typed, drafts, aiRuns, strays, ghostBudget>>,
         asking' \in PanelChats \union {NoChat}
  PROVE  GhostTypeOK'
  <1>1. toggles' \in [Toggles -> ToggleStates]
    BY TogglesKeepTheirType DEF GhostTypeOK, Turn, ToggleStates
  <1>2. told' \in [Sources -> {"on", "off"} \union Toggles]
    BY DEF GhostTypeOK, Turn
  <1>3. grants' \in Copies
    BY DEF GhostTypeOK, Turn, Copies
  <1>4. /\ selections' \in [Sources -> SUBSET Letters]
        /\ armed' \in [PanelChats -> Targets \union {NoTarget}]
    BY DEF GhostTypeOK, Turn, Withdraw
  <1>. QED  BY <1>1, <1>2, <1>3, <1>4 DEF GhostTypeOK

LEMMA ToggleKeepsTypes ==
  ASSUME GhostInv, NEW t \in Toggles,
         \/ \E c \in ghostBudget.chats : ToggleBegin(t, c)
         \/ ToggleLoaded(t) \/ ToggleSnapshot(t) \/ ToggleWrite(t) \/ ToggleShown(t)
  PROVE  GhostTypeOK'
  <1>. USE DEF GhostInv
  <1>0. toggles[t] \in ToggleStates /\ toggles \in [Toggles -> ToggleStates] /\ grants \in Copies
    BY DEF GhostTypeOK
  <1>1. ASSUME NEW c \in ghostBudget.chats, ToggleBegin(t, c) PROVE GhostTypeOK'
    <2>1. c \in Sources
      BY DEF GhostTypeOK, Budgets
    <2>2. CASE LoadIsOver
      BY <1>1, <2>1, <2>2, TurnKeepsTypes DEF ToggleBegin
    <2>3. CASE ~LoadIsOver
      <3>1. toggles' \in [Toggles -> ToggleStates]
        BY <1>0, <1>1, <2>1, <2>3, TogglesKeepTheirType DEF ToggleBegin, ToggleStates
      <3>2. grants' \in Copies
        BY <1>0, <1>1, <2>3 DEF ToggleBegin, LoadStarted, Copies
      <3>. QED  BY <1>1, <2>3, <3>1, <3>2 DEF ToggleBegin, GhostTypeOK
    <2>. QED  BY <2>2, <2>3
  <1>2. CASE ToggleLoaded(t)
    <2>1. toggles[t].chat \in Sources
      BY <1>2 DEF ToggleLoaded, ListInv, ChatInv
    <2>. QED  BY <1>2, <2>1, TurnKeepsTypes DEF ToggleLoaded, GhostTypeOK
  <1>3. CASE ToggleSnapshot(t)
    <2>1. grants.list \in SUBSET Sources
      BY <1>0 DEF Copies
    <2>2. [toggles[t] EXCEPT !.pc = "writing", !.list = grants.list] \in ToggleStates
      BY <1>0, <2>1 DEF ToggleStates
    <2>3. toggles' = [toggles EXCEPT ![t] = [toggles[t] EXCEPT !.pc = "writing", !.list = grants.list]]
      BY <1>0, <1>3 DEF ToggleSnapshot
    <2>4. toggles' \in [Toggles -> ToggleStates]
      BY <1>0, <2>2, <2>3, TogglesKeepTheirType
    <2>. QED  BY <1>3, <2>4 DEF ToggleSnapshot, GhostTypeOK, panelVars
  <1>4. CASE ToggleWrite(t)
    <2>1. ghostBudget' \in Budgets
      BY <1>4, BudgetsAreSpent DEF GhostTypeOK, ToggleWrite
    <2>2. toggles[t].list \in SUBSET Sources
      BY <1>0 DEF ToggleStates
    <2>3. allowRow' \in SUBSET Sources /\ strays' \subseteq SUBSET Sources
      BY <1>4, <2>2 DEF GhostTypeOK, ToggleWrite
    <2>4. toggles' \in [Toggles -> ToggleStates]
      BY <1>0, <1>4 DEF ToggleWrite, ToggleAnswer, ToggleStates
    <2>. QED  BY <1>4, <2>1, <2>3, <2>4 DEF GhostTypeOK, ToggleWrite, panelVars
  <1>5. CASE ToggleShown(t)
    <2>1. told' \in [Sources -> {"on", "off"} \union Toggles]
      BY <1>0, <1>5 DEF GhostTypeOK, ToggleShown, ToggleStates
    <2>2. [IdleToggle EXCEPT !.pc = "over"] = [pc |-> "over", chat |-> NoChat, becomes |-> "off", list |-> {}]
      BY DEF IdleToggle
    <2>3. toggles' \in [Toggles -> ToggleStates]
      BY <1>0, <1>5, <2>2, TogglesKeepTheirType DEF ToggleShown, ToggleStates
    <2>. QED  BY <1>5, <2>1, <2>3 DEF GhostTypeOK, ToggleShown, panelVars
  <1>. QED  BY <1>1, <1>2, <1>3, <1>4, <1>5

\* The panels' own actions leave the list alone.
PanelStep(p) ==
    \/ OpenPanel(p) \/ ChatOpens(p) \/ Type(p) \/ BeginAI(p)
    \/ TypedEnds(p) \/ AIAnswered(p) \/ AISent(p)
    \/ \E c \in Sources :
          \/ OpenChat(p, c) \/ ClearSelection(p, c) \/ ShowActions(p, c) \/ LeaveActions(p, c)
          \/ AskText(p, c) \/ OfferAI(p, c) \/ \E m \in Letters : Select(p, c, m)

LEMMA PanelsLeaveTheList ==
  ASSUME NEW p \in PanelChats, PanelStep(p)
  PROVE  UNCHANGED listVars
  BY DEF PanelStep, OpenPanel, ChatOpens, Type, BeginAI, TypedEnds, AIAnswered, AISent, OpenChat,
         ClearSelection, ShowActions, LeaveActions, AskText, OfferAI, Select

LEMMA RepliesKeepTheirType ==
  ASSUME GhostTypeOK, NEW p \in PanelChats, NEW to \in Targets \union {NoTarget},
         NEW pc \in {"idle", "asking", "sending"}
  PROVE  /\ [typed EXCEPT ![p] = [pc |-> pc, to |-> to]] \in [PanelChats -> Replies]
         /\ [aiRuns EXCEPT ![p] = [pc |-> pc, to |-> to]] \in [PanelChats -> Replies]
  BY DEF GhostTypeOK, Replies

LEMMA SelectionsKeepTheirType ==
  ASSUME GhostTypeOK, NEW c, NEW S \in SUBSET Letters
  PROVE  [selections EXCEPT ![c] = S] \in [Sources -> SUBSET Letters]
  BY DEF GhostTypeOK

LEMMA PanelsKeepTypes ==
  ASSUME GhostTypeOK, NEW p \in PanelChats, PanelStep(p)
  PROVE  GhostTypeOK'
  <1>1. UNCHANGED <<allowRow, grants, toggles, strays, told>>
    BY PanelsLeaveTheList DEF listVars
  <1>2. ghostBudget' \in Budgets
    BY BudgetsAreSpent DEF GhostTypeOK, PanelStep, OpenPanel, ChatOpens, Type, BeginAI, TypedEnds, AIAnswered,
       AISent, OpenChat, ClearSelection, ShowActions, LeaveActions, AskText, OfferAI, Select, Clicks
  <1>3. asking' \in PanelChats \union {NoChat}
    BY DEF GhostTypeOK, PanelStep, OpenPanel, ChatOpens, Type, BeginAI, TypedEnds, AIAnswered,
       AISent, OpenChat, ClearSelection, ShowActions, LeaveActions, AskText, OfferAI, Select, Clicks
  <1>4. selections' \in [Sources -> SUBSET Letters]
    <2>1. ASSUME NEW c \in Sources, NEW m \in Letters, Select(p, c, m)
          PROVE  selections' \in [Sources -> SUBSET Letters]
      BY <2>1 DEF GhostTypeOK, Select
    <2>. QED
      BY <2>1, SelectionsKeepTheirType DEF GhostTypeOK, PanelStep, OpenPanel, ChatOpens, Type, BeginAI, TypedEnds,
         AIAnswered, AIEnds, AISent, OpenChat, ClearSelection, ShowActions, LeaveActions, AskText, OfferAI
  <1>5. armed' \in [PanelChats -> Targets \union {NoTarget}]
    <2>1. \A c \in Sources : Target(c) \in Targets \union {NoTarget}
      BY TargetType
    <2>. QED
      BY <2>1 DEF GhostTypeOK, PanelStep, OpenPanel, ChatOpens, Type, BeginAI, TypedEnds,
         AIAnswered, AIEnds, AISent, OpenChat, ClearSelection, ShowActions, LeaveActions, AskText, OfferAI, Select
  <1>6. drafts' \in [PanelChats -> Targets \union {NoTarget}]
    <2>1. \A c \in Sources : Target(c) \in Targets \union {NoTarget}
      BY TargetType
    <2>. QED
      BY <2>1 DEF GhostTypeOK, PanelStep, OpenPanel, ChatOpens, Type, BeginAI, TypedEnds,
         AIAnswered, AIEnds, AISent, OpenChat, ClearSelection, ShowActions, LeaveActions, AskText, OfferAI, Select
  <1>7. typed' \in [PanelChats -> Replies]
    <2>1. CASE typed' = typed
      BY <2>1 DEF GhostTypeOK
    <2>2. CASE Type(p)
      <3>1. armed[p] \in Targets \union {NoTarget}
        BY DEF GhostTypeOK
      <3>2. CASE typed' = [typed EXCEPT ![p] = [pc |-> "sending", to |-> armed[p]]]
        BY <3>1, <3>2, RepliesKeepTheirType
      <3>. QED  BY <2>1, <2>2, <3>2 DEF Type
    <2>3. CASE TypedEnds(p)
      BY <2>3, RepliesKeepTheirType DEF TypedEnds, IdleReply
    <2>. QED
      BY <2>1, <2>2, <2>3 DEF PanelStep, OpenPanel, ChatOpens, BeginAI, AIAnswered, AISent, OpenChat,
         ClearSelection, ShowActions, LeaveActions, AskText, OfferAI, Select
  <1>8. aiRuns' \in [PanelChats -> Replies]
    <2>1. CASE aiRuns' = aiRuns
      BY <2>1 DEF GhostTypeOK
    <2>2. CASE BeginAI(p)
      <3>1. drafts[p] \in Targets \union {NoTarget}
        BY DEF GhostTypeOK
      <3>. QED  BY <2>2, <3>1, RepliesKeepTheirType DEF BeginAI
    <2>3. CASE AIEnds(p)
      BY <2>3, RepliesKeepTheirType DEF AIEnds, IdleReply
    <2>4. CASE aiRuns' = [aiRuns EXCEPT ![p].pc = "sending"]
      BY <2>4 DEF GhostTypeOK, Replies
    <2>. QED
      BY <2>1, <2>2, <2>3, <2>4 DEF PanelStep, OpenPanel, ChatOpens, Type, TypedEnds, AIAnswered, AISent, OpenChat,
         ClearSelection, ShowActions, LeaveActions, AskText, OfferAI, Select
  <1>. QED  BY <1>1, <1>2, <1>3, <1>4, <1>5, <1>6, <1>7, <1>8 DEF GhostTypeOK

LEMMA RestartKeepsTypes ==
  ASSUME GhostTypeOK, GhostRestart
  PROVE  GhostTypeOK'
  <1>1. ghostBudget' \in Budgets
    BY BudgetsAreSpent DEF GhostTypeOK
  <1>2. toggles' \in [Toggles -> ToggleStates]
    <2>1. [IdleToggle EXCEPT !.pc = "refused"] = [pc |-> "refused", chat |-> NoChat, becomes |-> "off", list |-> {}]
      BY DEF IdleToggle
    <2>. QED  BY <2>1 DEF GhostTypeOK, GhostRestart, ToggleStates
  <1>3. grants' \in Copies
    BY DEF GhostRestart, Unloaded, Copies
  <1>4. strays' \subseteq SUBSET Sources
    BY DEF GhostTypeOK, GhostRestart, ToggleStates
  <1>5. /\ selections' \in [Sources -> SUBSET Letters]
        /\ armed' \in [PanelChats -> Targets \union {NoTarget}]
        /\ drafts' \in [PanelChats -> Targets \union {NoTarget}]
        /\ asking' \in PanelChats \union {NoChat}
        /\ typed' \in [PanelChats -> Replies] /\ aiRuns' \in [PanelChats -> Replies]
    BY DEF GhostRestart, FreshPanels, IdleReply, Replies
  <1>. QED  BY <1>1, <1>2, <1>3, <1>4, <1>5 DEF GhostTypeOK, GhostRestart

LEMMA StrayKeepsTypes ==
  ASSUME GhostTypeOK, NEW list \in strays, StrayLands(list)
  PROVE  GhostTypeOK'
  BY DEF GhostTypeOK, StrayLands, panelVars

-----------------------------------------------------------------------------
(* The list. *)

LEMMA ListUntouched ==
  ASSUME ListInv, UNCHANGED listVars
  PROVE  ListInv'
  BY DEF ListInv, LoadInv, WriterInv, ChatInv, AwaitedInv, SettledInv, Agrees, Tells, LoadIsOver, listVars

LEMMA LoadKeepsList ==
  ASSUME GhostInv, GhostPreload \/ GhostLoad
  PROVE  ListInv'
  <1>. USE DEF GhostInv, ListInv
  <1>1. CASE GhostPreload
    <2>1. grants'.list = grants.list /\ grants'.load # "over" /\ grants.load # "over"
      BY <1>1 DEF GhostPreload, LoadStarted, GhostTypeOK, Copies
    <2>2. UNCHANGED <<allowRow, toggles, told, losses>>
      BY <1>1 DEF GhostPreload
    <2>3. LoadInv' /\ WriterInv' /\ ChatInv'
      BY <2>1, <2>2 DEF LoadInv, WriterInv, ChatInv
    <2>4. losses = {} => AwaitedInv' /\ SettledInv'
      BY <2>1, <2>2 DEF AwaitedInv, Tells, SettledInv, Agrees, LoadIsOver
    <2>. QED  BY <2>2, <2>3, <2>4
  <1>2. CASE GhostLoad
    <2>0. grants.load = "reading" /\ grants \in Copies
      BY <1>2 DEF GhostLoad, GhostTypeOK
    <2>1. /\ grants.list = {} /\ grants'.load = "over"
          /\ \A t \in Toggles : toggles[t].pc \notin Active
      <3>1. grants.list = {} /\ \A t \in Toggles : toggles[t].pc \notin Active
        BY <2>0 DEF LoadInv
      <3>2. grants'.load = "over"
        <4>1. [grants EXCEPT !.load = "over"].load = "over"
          BY <2>0 DEF Copies
        <4>2. \/ grants' = [grants EXCEPT !.load = "over"]
              \/ grants' = [list |-> grants.list \union allowRow, load |-> "over"]
          BY <1>2 DEF GhostLoad
        <4>3. CASE grants' = [grants EXCEPT !.load = "over"]
          BY <4>1, <4>3
        <4>4. CASE grants' = [list |-> grants.list \union allowRow, load |-> "over"]
          BY <4>4
        <4>. QED  BY <4>2, <4>3, <4>4
      <3>. QED  BY <3>1, <3>2
    <2>2. UNCHANGED <<allowRow, toggles, told>>
      BY <1>2 DEF GhostLoad
    <2>3. LoadInv' /\ WriterInv' /\ ChatInv' /\ AwaitedInv'
      BY <2>1, <2>2 DEF LoadInv, WriterInv, ChatInv, AwaitedInv
    <2>4. losses' = {} => losses = {} /\ SettledInv'
      <3>1. SUFFICES ASSUME losses' = {} PROVE losses = {} /\ SettledInv'
        OBVIOUS
      <3>2. grants'.list = allowRow /\ losses = {}
        <4>1. losses = {} /\ "list unread" \notin losses'
          BY <1>2, <3>1 DEF GhostLoad
        <4>2. grants' = [list |-> grants.list \union allowRow, load |-> "over"]
          BY <1>2, <4>1 DEF GhostLoad
        <4>. QED  BY <2>1, <4>1, <4>2
      <3>. QED  BY <2>1, <2>2, <3>2 DEF SettledInv, Agrees, Active, LoadIsOver
    <2>. QED  BY <2>3, <2>4
  <1>. QED  BY <1>1, <1>2

\* The click is the first the owner hears of it, and nobody else's chat is turned.
LEMMA TurnKeepsList ==
  ASSUME GhostInv, NEW t \in Toggles, NEW c \in Sources, toggles[t].pc \in {"new", "loading"},
         LoadIsOver, Turn(t, c), UNCHANGED <<allowRow, losses>>
  PROVE  ListInv'
  <1>. USE DEF GhostInv, ListInv
  <1>. DEFINE on == c \in grants.list
  <1>1. /\ toggles'[t] = [pc |-> "turned", chat |-> c, list |-> {}, becomes |-> IF on THEN "off" ELSE "on"]
        /\ \A u \in Toggles \ {t} : toggles'[u] = toggles[u]
    BY DEF Turn, GhostTypeOK
  <1>2. told'[c] = t /\ \A d \in Sources \ {c} : told'[d] = told[d]
    BY DEF Turn, GhostTypeOK
  <1>3. grants'.load = "over" /\ grants'.list = (IF on THEN grants.list \ {c} ELSE grants.list \union {c})
    BY DEF Turn, LoadIsOver, GhostTypeOK, Copies
  <1>4. LoadInv' /\ WriterInv' /\ ChatInv'
    BY <1>1, <1>3 DEF LoadInv, WriterInv, ChatInv, Active
  <1>5. ASSUME losses = {} PROVE AwaitedInv'
    <2>1. SUFFICES ASSUME NEW u \in Toggles, toggles'[u].pc \in Active, told'[toggles'[u].chat] = u
                   PROVE  /\ Tells(grants.list, u)'
                          /\ toggles'[u].pc = "writing" => Tells(toggles[u].list, u)'
                          /\ toggles'[u].pc = "stored" =>
                                /\ Tells(allowRow, u)'
                                /\ \A w \in Toggles : toggles'[w].pc = "writing" => Tells(toggles[w].list, u)'
      BY DEF AwaitedInv
    <2>2. CASE u = t
      BY <1>1, <1>3, <2>2 DEF Tells
    <2>3. CASE u # t
      <3>1. toggles'[u] = toggles[u] /\ toggles[u].chat \in Sources \ {c} /\ told[toggles[u].chat] = u
        BY <1>1, <1>2, <2>1, <2>3 DEF ChatInv
      <3>2. Tells(grants.list, u)'
        BY <1>3, <1>5, <2>1, <3>1 DEF AwaitedInv, Tells
      <3>3. \A w \in Toggles : toggles'[w].pc = "writing" => w # t /\ toggles'[w] = toggles[w]
        BY <1>1
      <3>. QED  BY <1>5, <2>1, <3>1, <3>2, <3>3 DEF AwaitedInv, Tells
    <2>. QED  BY <2>2, <2>3
  <1>6. ASSUME losses = {} PROVE SettledInv'
    <2>1. SUFFICES ASSUME NEW d \in Sources, told'[d] \notin Toggles
                   PROVE  /\ Agrees(allowRow, d)' /\ Agrees(grants.list, d)'
                          /\ \A u \in Toggles : toggles'[u].pc = "writing" => Agrees(toggles[u].list, d)'
      BY DEF SettledInv
    <2>2. d # c /\ told'[d] = told[d]
      BY <1>2, <2>1
    <2>3. \A u \in Toggles : toggles'[u].pc = "writing" => u # t /\ toggles'[u] = toggles[u]
      BY <1>1
    <2>. QED  BY <1>3, <1>6, <2>1, <2>2, <2>3 DEF SettledInv, Agrees, LoadIsOver
  <1>. QED  BY <1>4, <1>5, <1>6

LEMMA BeginKeepsList ==
  ASSUME GhostInv, NEW t \in Toggles, NEW c \in ghostBudget.chats, ToggleBegin(t, c)
  PROVE  ListInv'
  <1>. USE DEF GhostInv, ListInv
  <1>1. c \in Sources
    BY DEF GhostTypeOK, Budgets
  <1>2. CASE LoadIsOver
    BY <1>1, <1>2, TurnKeepsList DEF ToggleBegin
  <1>3. CASE ~LoadIsOver
    <2>1. /\ toggles'[t] = [pc |-> "loading", chat |-> c, becomes |-> "off", list |-> {}]
          /\ \A u \in Toggles \ {t} : toggles'[u] = toggles[u]
      BY <1>3 DEF ToggleBegin, GhostTypeOK
    <2>2. grants'.list = grants.list /\ grants'.load # "over"
      BY <1>3 DEF ToggleBegin, LoadStarted, LoadIsOver, GhostTypeOK, Copies
    <2>3. UNCHANGED <<allowRow, told, losses>>
      BY <1>3 DEF ToggleBegin
    <2>4. LoadInv' /\ WriterInv' /\ ChatInv'
      BY <1>1, <1>3, <2>1, <2>2 DEF LoadInv, WriterInv, ChatInv, Active, LoadIsOver
    <2>5. AwaitedInv' /\ (SettledInv => SettledInv')
      BY <1>3, <2>1, <2>2, <2>3, <2>4 DEF LoadInv, AwaitedInv, SettledInv, Agrees, Active, LoadIsOver
    <2>. QED  BY <2>3, <2>4, <2>5
  <1>. QED  BY <1>2, <1>3

\* The snapshot is what memory says: whatever is awaited or settled agrees with it.
LEMMA SnapshotKeepsList ==
  ASSUME GhostInv, NEW t \in Toggles, ToggleSnapshot(t)
  PROVE  ListInv'
  <1>. USE DEF GhostInv, ListInv
  <1>1. /\ toggles'[t].pc = "writing" /\ toggles'[t].list = grants.list
        /\ toggles'[t].chat = toggles[t].chat /\ toggles'[t].becomes = toggles[t].becomes
        /\ \A u \in Toggles \ {t} : toggles'[u] = toggles[u] /\ toggles[u].pc # "writing"
    <2>1. toggles[t] \in ToggleStates
      BY DEF GhostTypeOK
    <2>. QED  BY <2>1 DEF ToggleSnapshot, GhostTypeOK, ToggleStates
  <1>2. UNCHANGED <<allowRow, grants, told, losses>> /\ toggles[t].pc = "turned"
    BY DEF ToggleSnapshot
  <1>3. LoadIsOver
    BY <1>2 DEF LoadInv, LoadIsOver, Active
  <1>4. LoadInv' /\ WriterInv' /\ ChatInv'
    BY <1>1, <1>2, <1>3 DEF LoadInv, WriterInv, ChatInv, Active, LoadIsOver
  <1>5. ASSUME losses = {} PROVE AwaitedInv'
    <2>1. SUFFICES ASSUME NEW u \in Toggles, toggles'[u].pc \in Active, told'[toggles'[u].chat] = u
                   PROVE  /\ Tells(grants.list, u)'
                          /\ toggles'[u].pc = "writing" => Tells(toggles[u].list, u)'
                          /\ toggles'[u].pc = "stored" =>
                                /\ Tells(allowRow, u)'
                                /\ \A w \in Toggles : toggles'[w].pc = "writing" => Tells(toggles[w].list, u)'
      BY DEF AwaitedInv
    <2>2. toggles[u].pc \in Active /\ told[toggles[u].chat] = u
      BY <1>1, <1>2, <2>1 DEF Active
    <2>3. Tells(grants.list, u)'
      BY <1>1, <1>2, <1>5, <2>2 DEF AwaitedInv, Tells
    <2>4. \A w \in Toggles : toggles'[w].pc = "writing" => toggles'[w].list = grants'.list
      BY <1>1, <1>2
    <2>5. toggles'[u].pc = "stored" => Tells(allowRow, u)'
      BY <1>1, <1>2, <1>5, <2>2 DEF AwaitedInv, Tells
    <2>. QED  BY <2>3, <2>4, <2>5 DEF Tells
  <1>6. ASSUME losses = {} PROVE SettledInv'
    BY <1>1, <1>2, <1>3, <1>6 DEF SettledInv, Agrees, LoadIsOver
  <1>. QED  BY <1>2, <1>4, <1>5, <1>6

\* The row becomes what the writer carried, and whatever was awaited or settled
\* agreed with that.
LEMMA WriteKeepsList ==
  ASSUME GhostInv, NEW t \in Toggles, ToggleWrite(t)
  PROVE  ListInv'
  <1>. USE DEF GhostInv, ListInv
  <1>0. toggles[t] \in ToggleStates /\ toggles[t].pc = "writing"
    BY DEF GhostTypeOK, ToggleWrite
  <1>1. /\ toggles'[t].chat = toggles[t].chat /\ toggles'[t].becomes = toggles[t].becomes
        /\ \/ toggles'[t].pc = "stored" /\ allowRow' = toggles[t].list
           \/ toggles'[t].pc = "refused" /\ UNCHANGED allowRow
        /\ \A u \in Toggles \ {t} : toggles'[u] = toggles[u]
    BY <1>0 DEF ToggleWrite, ToggleAnswer, GhostTypeOK, ToggleStates
  <1>2. UNCHANGED <<grants, told, losses>>
    BY DEF ToggleWrite
  <1>3. \A u \in Toggles : toggles'[u].pc # "writing"
    BY <1>0, <1>1 DEF WriterInv
  <1>4. LoadIsOver
    BY <1>0 DEF LoadInv, LoadIsOver, Active
  <1>5. LoadInv' /\ WriterInv' /\ ChatInv'
    BY <1>0, <1>1, <1>2, <1>3, <1>4 DEF LoadInv, WriterInv, ChatInv, Active, LoadIsOver
  <1>6. ASSUME losses = {} PROVE AwaitedInv'
    <2>1. SUFFICES ASSUME NEW u \in Toggles, toggles'[u].pc \in Active, told'[toggles'[u].chat] = u
                   PROVE  Tells(grants.list, u)' /\ (toggles'[u].pc = "stored" => Tells(allowRow, u)')
      BY <1>3 DEF AwaitedInv
    <2>2. toggles[u].pc \in Active /\ told[toggles[u].chat] = u
      BY <1>0, <1>1, <1>2, <2>1 DEF Active
    <2>3. Tells(grants.list, u)'
      BY <1>1, <1>2, <1>6, <2>2 DEF AwaitedInv, Tells
    <2>4. ASSUME toggles'[u].pc = "stored" PROVE Tells(allowRow, u)'
      <3>1. Tells(toggles[t].list, u)
        BY <1>0, <1>1, <1>6, <2>2, <2>4 DEF AwaitedInv
      <3>2. toggles'[u].pc = toggles[u].pc /\ u # t => Tells(allowRow, u)
        BY <1>6, <2>2, <2>4 DEF AwaitedInv
      <3>. QED  BY <1>0, <1>1, <2>4, <3>1, <3>2 DEF Tells
    <2>. QED  BY <2>3, <2>4
  <1>7. ASSUME losses = {} PROVE SettledInv'
    <2>1. SUFFICES ASSUME NEW d \in Sources, told'[d] \notin Toggles
                   PROVE  Agrees(allowRow, d)' /\ Agrees(grants.list, d)'
      BY <1>3 DEF SettledInv
    <2>2. Agrees(allowRow, d) /\ Agrees(grants.list, d) /\ Agrees(toggles[t].list, d)
      BY <1>0, <1>2, <1>4, <1>7, <2>1 DEF SettledInv
    <2>. QED  BY <1>1, <1>2, <2>2 DEF Agrees
  <1>. QED  BY <1>2, <1>5, <1>6, <1>7

LEMMA ShownKeepsList ==
  ASSUME GhostInv, NEW t \in Toggles, ToggleShown(t)
  PROVE  ListInv'
  <1>. USE DEF GhostInv, ListInv
  <1>. DEFINE c == toggles[t].chat
  <1>0. toggles[t] \in ToggleStates /\ toggles[t].pc = "stored" /\ c \in Sources
    BY DEF GhostTypeOK, ToggleShown, ChatInv, Active
  <1>1. /\ toggles'[t].pc = "over"
        /\ \A u \in Toggles \ {t} : toggles'[u] = toggles[u]
    BY DEF ToggleShown, GhostTypeOK, IdleToggle
  <1>2. UNCHANGED <<allowRow, grants, losses>>
    BY DEF ToggleShown
  <1>3. /\ told'[c] = IF told[c] = t THEN toggles[t].becomes ELSE told[c]
        /\ \A d \in Sources \ {c} : told'[d] = told[d]
    BY <1>0 DEF ToggleShown, GhostTypeOK
  <1>4. LoadIsOver
    BY <1>0 DEF LoadInv, LoadIsOver, Active
  <1>5. LoadInv' /\ WriterInv' /\ ChatInv'
    BY <1>1, <1>2, <1>4 DEF LoadInv, WriterInv, ChatInv, Active, LoadIsOver
  <1>6. ASSUME losses = {} PROVE AwaitedInv'
    <2>1. SUFFICES ASSUME NEW u \in Toggles, toggles'[u].pc \in Active, told'[toggles'[u].chat] = u
                   PROVE  /\ Tells(grants.list, u)'
                          /\ toggles'[u].pc = "writing" => Tells(toggles[u].list, u)'
                          /\ toggles'[u].pc = "stored" =>
                                /\ Tells(allowRow, u)'
                                /\ \A w \in Toggles : toggles'[w].pc = "writing" => Tells(toggles[w].list, u)'
      BY DEF AwaitedInv
    <2>2. u # t /\ toggles'[u] = toggles[u] /\ toggles[u].chat \in Sources
      BY <1>1, <2>1 DEF Active, ChatInv
    <2>3. told[toggles[u].chat] = u
      <3>1. u \notin {"on", "off"}
        BY GhostAssumption
      <3>2. toggles[t].becomes \in {"on", "off"}
        BY <1>0 DEF ToggleStates
      <3>. QED  BY <1>3, <2>1, <2>2, <3>1, <3>2
    <2>4. \A w \in Toggles : toggles'[w].pc = "writing" => toggles'[w] = toggles[w]
      BY <1>1
    <2>. QED  BY <1>2, <1>6, <2>1, <2>2, <2>3, <2>4 DEF AwaitedInv, Tells
  <1>7. ASSUME losses = {} PROVE SettledInv'
    <2>1. SUFFICES ASSUME NEW d \in Sources, told'[d] \notin Toggles
                   PROVE  /\ Agrees(allowRow, d)' /\ Agrees(grants.list, d)'
                          /\ \A u \in Toggles : toggles'[u].pc = "writing" => Agrees(toggles[u].list, d)'
      BY DEF SettledInv
    <2>2. \A u \in Toggles : toggles'[u].pc = "writing" => toggles'[u] = toggles[u]
      BY <1>1
    <2>3. CASE d = c /\ told[c] = t
      <3>1. /\ Tells(grants.list, t) /\ Tells(allowRow, t)
            /\ \A u \in Toggles : toggles[u].pc = "writing" => Tells(toggles[u].list, t)
        BY <1>0, <1>7, <2>3 DEF AwaitedInv, Active
      <3>2. told'[d] = toggles[t].becomes
        BY <1>3, <2>3
      <3>. QED  BY <1>2, <2>2, <2>3, <3>1, <3>2 DEF Agrees, Tells
    <2>4. CASE ~(d = c /\ told[c] = t)
      <3>1. told'[d] = told[d]
        BY <1>3, <2>4
      <3>. QED  BY <1>2, <1>4, <1>7, <2>1, <2>2, <3>1 DEF SettledInv, Agrees
    <2>. QED  BY <2>3, <2>4
  <1>. QED  BY <1>2, <1>5, <1>6, <1>7

LEMMA RestartKeepsList ==
  ASSUME GhostInv, GhostRestart
  PROVE  ListInv'
  <1>. USE DEF GhostInv, ListInv
  <1>1. \A t \in Toggles : toggles'[t].pc \in {"new", "over", "refused"}
    BY DEF GhostRestart, IdleToggle
  <1>2. grants'.list = {} /\ grants'.load = "none" /\ UNCHANGED <<allowRow, told, losses>>
    BY DEF GhostRestart, Unloaded
  <1>3. LoadInv' /\ WriterInv' /\ ChatInv' /\ AwaitedInv'
    BY <1>1, <1>2 DEF LoadInv, WriterInv, ChatInv, AwaitedInv, Active
  <1>4. SettledInv => SettledInv'
    BY <1>1, <1>2 DEF SettledInv, Agrees, LoadIsOver
  <1>. QED  BY <1>2, <1>3, <1>4

LEMMA StrayKeepsList ==
  ASSUME GhostInv, NEW list \in strays, StrayLands(list)
  PROVE  ListInv'
  <1>1. losses' # {} /\ UNCHANGED <<grants, toggles>>
    BY DEF StrayLands
  <1>. QED  BY <1>1 DEF GhostInv, ListInv, LoadInv, WriterInv, ChatInv

-----------------------------------------------------------------------------
(* The input asked for. *)

LEMMA NothingIsAsked ==
  ASSUME asking' = NoChat
  PROVE  AskedInv'
  BY GhostAssumption DEF AskedInv

\* Selections that only empty, inputs that are only dropped, and a list that loses
\* only chats whose selection is emptied.
LEMMA AskedIsKept ==
  ASSUME GhostTypeOK, AskedInv, UNCHANGED asking,
         \A p \in PanelChats : armed'[p] \in {armed[p], NoTarget},
         \A c \in Sources : selections'[c] \in {selections[c], {}},
         \A c \in Sources : Allowed(c) /\ selections'[c] # {} => Allowed(c)'
  PROVE  AskedInv'
  <1>1. SUFFICES ASSUME NEW p \in PanelChats, asking' = p, armed'[p] # NoTarget,
                        Target(armed[p].chat)' = armed'[p]
                 PROVE  armed'[p].chat \in grants'.list
    BY DEF AskedInv, Allowed
  <1>2. armed'[p] = armed[p]
    BY <1>1
  <1>3. armed[p] \in Targets
    BY <1>1, <1>2 DEF GhostTypeOK
  <1>4. PICK c \in Sources : c = armed[p].chat
    BY <1>3, NoTargetIsNone
  <1>5. Target(c)' = armed[p]
    BY <1>1, <1>2, <1>4 DEF Target
  <1>6. selections'[c] # {}
    BY <1>1, <1>2, <1>5, NothingSelected
  <1>7. Target(c) = armed[p]
    BY <1>5, <1>6, SameSelection
  <1>8. Allowed(c)
    BY <1>1, <1>2, <1>4, <1>7 DEF AskedInv
  <1>. QED  BY <1>2, <1>4, <1>6, <1>8 DEF Allowed

LEMMA TurnKeepsAsked ==
  ASSUME GhostInv, NEW t, NEW c \in Sources, Turn(t, c), UNCHANGED asking
  PROVE  AskedInv'
  <1>. USE DEF GhostInv
  <1>1. CASE c \in grants.list
    <2>1. \A p \in PanelChats : armed'[p] \in {armed[p], NoTarget}
      BY <1>1 DEF Turn, Withdraw
    <2>2. \A d \in Sources : selections'[d] = IF d = c THEN {} ELSE selections[d]
      BY <1>1 DEF Turn, Withdraw, GhostTypeOK
    <2>3. grants'.list = grants.list \ {c}
      BY <1>1 DEF Turn, GhostTypeOK, Copies
    <2>. QED  BY <2>1, <2>2, <2>3, AskedIsKept DEF Allowed
  <1>2. CASE c \notin grants.list
    <2>1. UNCHANGED <<armed, selections>>
      BY <1>2 DEF Turn
    <2>2. grants'.list = grants.list \union {c}
      BY <1>2 DEF Turn, GhostTypeOK, Copies
    <2>. QED  BY <2>1, <2>2, AskedIsKept DEF Allowed
  <1>. QED  BY <1>1, <1>2

LEMMA LoadKeepsAsked ==
  ASSUME GhostInv, GhostPreload \/ GhostLoad
  PROVE  AskedInv'
  <1>1. UNCHANGED <<asking, armed, selections>>
    BY DEF GhostPreload, GhostLoad, panelVars
  <1>2. grants \in Copies
    BY DEF GhostInv, GhostTypeOK
  <1>3. grants.list \subseteq grants'.list
    <2>1. CASE grants' = LoadStarted
      BY <1>2, <2>1 DEF LoadStarted, Copies
    <2>2. CASE grants' = [list |-> grants.list \union allowRow, load |-> "over"]
      BY <2>2
    <2>3. CASE grants' = [grants EXCEPT !.load = "over"]
      BY <1>2, <2>3 DEF Copies
    <2>. QED  BY <2>1, <2>2, <2>3 DEF GhostPreload, GhostLoad
  <1>. QED  BY <1>1, <1>3, AskedIsKept DEF GhostInv, Allowed

LEMMA TogglesKeepAsked ==
  ASSUME GhostInv, NEW t \in Toggles,
         \/ \E c \in ghostBudget.chats : ToggleBegin(t, c)
         \/ ToggleLoaded(t) \/ ToggleSnapshot(t) \/ ToggleWrite(t) \/ ToggleShown(t)
  PROVE  AskedInv'
  <1>. USE DEF GhostInv
  <1>1. ASSUME NEW c \in ghostBudget.chats, ToggleBegin(t, c) PROVE AskedInv'
    BY <1>1, NothingIsAsked DEF ToggleBegin
  <1>2. CASE ToggleLoaded(t)
    <2>1. toggles[t].chat \in Sources
      BY <1>2 DEF ToggleLoaded, ListInv, ChatInv
    <2>. QED  BY <1>2, <2>1, TurnKeepsAsked DEF ToggleLoaded
  <1>3. CASE ToggleSnapshot(t) \/ ToggleWrite(t) \/ ToggleShown(t)
    <2>1. UNCHANGED <<grants, asking, armed, selections>>
      BY <1>3 DEF ToggleSnapshot, ToggleWrite, ToggleShown, panelVars
    <2>. QED  BY <2>1, AskedIsKept DEF Allowed
  <1>. QED  BY <1>1, <1>2, <1>3

LEMMA PanelsKeepAsked ==
  ASSUME GhostInv, NEW p \in PanelChats, PanelStep(p)
  PROVE  AskedInv'
  <1>. USE DEF GhostInv
  <1>1. UNCHANGED grants
    BY PanelsLeaveTheList DEF listVars
  <1>2. CASE ChatOpens(p) \/ TypedEnds(p) \/ AIAnswered(p) \/ AISent(p)
    <2>1. UNCHANGED asking /\ \A q \in PanelChats : armed'[q] \in {armed[q], NoTarget}
      BY <1>2 DEF ChatOpens, TypedEnds, AIAnswered, AISent, GhostTypeOK
    <2>2. \A c \in Sources : selections'[c] \in {selections[c], {}}
      BY <1>2 DEF ChatOpens, TypedEnds, AIAnswered, AISent, AIEnds, GhostTypeOK
    <2>. QED  BY <1>1, <2>1, <2>2, AskedIsKept DEF Allowed
  <1>3. ASSUME NEW c \in Sources, AskText(p, c) PROVE AskedInv'
    <2>1. SUFFICES ASSUME NEW q \in PanelChats, asking' = q, armed'[q] # NoTarget PROVE armed'[q].chat \in grants'.list
      BY DEF AskedInv, Allowed
    <2>2. armed'[q] = Target(c) /\ Allowed(c) /\ Target(c) # NoTarget
      BY <1>3, <2>1 DEF AskText, GhostTypeOK
    <2>. QED  BY <1>1, <2>2, SelectedAlone DEF Allowed
  <1>4. CASE asking' = NoChat
    BY <1>4, NothingIsAsked
  <1>. QED  BY <1>2, <1>3, <1>4 DEF PanelStep, OpenPanel, Type, BeginAI, OpenChat, ClearSelection, ShowActions,
            LeaveActions, OfferAI, Select, Clicks

-----------------------------------------------------------------------------
(* The inductive invariant. *)

\* The disjuncts of the next-state relation, by what they act on.
LEMMA StepsOfGhostNext ==
  ASSUME GhostNext
  PROVE  \/ GhostPreload \/ GhostLoad \/ GhostRestart
         \/ \E t \in Toggles : \/ \E c \in ghostBudget.chats : ToggleBegin(t, c)
                               \/ ToggleLoaded(t) \/ ToggleSnapshot(t) \/ ToggleWrite(t) \/ ToggleShown(t)
         \/ \E p \in PanelChats : PanelStep(p)
         \/ \E list \in strays : StrayLands(list)
  BY DEF GhostNext, GhostWork, OwnerActs, PanelStep

LEMMA StepsPreserve ==
  ASSUME GhostInv, [GhostNext]_ghostVars
  PROVE  GhostInv'
  <1>1. CASE UNCHANGED ghostVars
    <2>1. GhostTypeOK'
      BY <1>1 DEF GhostInv, GhostTypeOK, ghostVars
    <2>2. ListInv'
      BY <1>1, ListUntouched DEF GhostInv, listVars, ghostVars
    <2>3. AskedInv'
      BY <1>1, AskedIsKept DEF GhostInv, ghostVars, Allowed
    <2>. QED  BY <2>1, <2>2, <2>3 DEF GhostInv
  <1>2. CASE GhostPreload \/ GhostLoad
    BY <1>2, LoadKeepsTypes, LoadKeepsList, LoadKeepsAsked DEF GhostInv
  <1>3. CASE GhostRestart
    <2>1. asking' = NoChat
      BY <1>3 DEF GhostRestart, FreshPanels
    <2>. QED  BY <1>3, <2>1, RestartKeepsTypes, RestartKeepsList, NothingIsAsked DEF GhostInv
  <1>4. ASSUME NEW t \in Toggles, NEW c \in ghostBudget.chats, ToggleBegin(t, c) PROVE GhostInv'
    BY <1>4, ToggleKeepsTypes, BeginKeepsList, TogglesKeepAsked DEF GhostInv
  <1>5. ASSUME NEW t \in Toggles, ToggleLoaded(t) PROVE GhostInv'
    <2>1. toggles[t].chat \in Sources
      BY <1>5 DEF ToggleLoaded, GhostInv, ListInv, ChatInv
    <2>2. ListInv'
      BY <1>5, <2>1, TurnKeepsList DEF ToggleLoaded
    <2>. QED  BY <1>5, <2>2, ToggleKeepsTypes, TogglesKeepAsked DEF GhostInv
  <1>6. ASSUME NEW t \in Toggles, ToggleSnapshot(t) PROVE GhostInv'
    BY <1>6, ToggleKeepsTypes, SnapshotKeepsList, TogglesKeepAsked DEF GhostInv
  <1>7. ASSUME NEW t \in Toggles, ToggleWrite(t) PROVE GhostInv'
    BY <1>7, ToggleKeepsTypes, WriteKeepsList, TogglesKeepAsked DEF GhostInv
  <1>8. ASSUME NEW t \in Toggles, ToggleShown(t) PROVE GhostInv'
    BY <1>8, ToggleKeepsTypes, ShownKeepsList, TogglesKeepAsked DEF GhostInv
  <1>9. ASSUME NEW p \in PanelChats, PanelStep(p) PROVE GhostInv'
    <2>1. ListInv'
      BY <1>9, PanelsLeaveTheList, ListUntouched DEF GhostInv
    <2>. QED  BY <1>9, <2>1, PanelsKeepTypes, PanelsKeepAsked DEF GhostInv
  <1>10. ASSUME NEW list \in strays, StrayLands(list) PROVE GhostInv'
    <2>1. AskedInv'
      BY <1>10, AskedIsKept DEF GhostInv, StrayLands, panelVars, Allowed
    <2>. QED  BY <1>10, <2>1, StrayKeepsTypes, StrayKeepsList DEF GhostInv
  <1>. QED  BY <1>1, <1>2, <1>3, <1>4, <1>5, <1>6, <1>7, <1>8, <1>9, <1>10, StepsOfGhostNext

LEMMA GhostInvariant == GhostSpec => []GhostInv
  <1>1. GhostInit => GhostInv
    BY GhostInitEstablishes
  <1>2. GhostInv /\ [GhostNext]_ghostVars => GhostInv'
    BY StepsPreserve
  <1>. QED  BY <1>1, <1>2, PTL DEF GhostSpec

\* Whatever the panels, the toggles and the database do, the state keeps its types.
THEOREM GhostTypeCorrect == GhostSpec => []GhostTypeOK
  <1>1. GhostInv => GhostTypeOK
    BY DEF GhostInv
  <1>. QED  BY <1>1, GhostInvariant, PTL

\* What the owner was last told of a permission is what the row says, and what is
\* enforced once it was read (_toggle_permission_action, _write_sync): across any
\* number of concurrent toggles, refused writes and restarts.
THEOREM PermissionsSurvive == GhostSpec => []ConfirmedPermissionsSurvive
  <1>1. GhostInv => ConfirmedPermissionsSurvive
    BY DEF GhostInv, ListInv, SettledInv, Agrees, ConfirmedPermissionsSurvive
  <1>. QED  BY <1>1, GhostInvariant, PTL

-----------------------------------------------------------------------------
(* Replies. *)

LEMMA RepliesAreWanted ==
  ASSUME GhostInv, [GhostNext]_ghostVars, NEW p \in PanelChats
  PROVE  /\ ~TypedGoesOut(p) /\ TypedGoesOut(p)' => Answers(typed'[p].to)
         /\ ~AIGoesOut(p) /\ AIGoesOut(p)' => Answers(aiRuns'[p].to)
  <1>. USE DEF GhostInv
  <1>1. ASSUME NEW q \in PanelChats, PanelStep(q)
        PROVE  /\ ~TypedGoesOut(p) /\ TypedGoesOut(p)' => Answers(typed'[p].to)
               /\ ~AIGoesOut(p) /\ AIGoesOut(p)' => Answers(aiRuns'[p].to)
    <2>1. ASSUME ~TypedGoesOut(p), TypedGoesOut(p)' PROVE Answers(typed'[p].to)
      <3>1. Type(q) /\ q = p
        BY <1>1, <2>1 DEF TypedGoesOut, GhostTypeOK, PanelStep, OpenPanel, ChatOpens, Type, BeginAI, TypedEnds,
           IdleReply, AIAnswered, AISent, OpenChat, ClearSelection, ShowActions, LeaveActions, AskText, OfferAI, Select
      <3>2. /\ asking = p /\ armed[p] # NoTarget /\ Target(armed[p].chat) = armed[p]
            /\ typed'[p].to = armed[p]
        BY <2>1, <3>1 DEF Type, TypedGoesOut, GhostTypeOK
      <3>3. armed[p] \in Targets
        BY <3>2 DEF GhostTypeOK
      <3>4. PICK c \in Sources : c = armed[p].chat
        BY <3>3, NoTargetIsNone
      <3>5. selections[c] = {armed[p].letter}
        BY <3>2, <3>4, SelectedAlone
      <3>6. Allowed(c)
        BY <3>2, <3>4 DEF AskedInv
      <3>. QED  BY <3>2, <3>4, <3>5, <3>6 DEF Answers
    <2>2. ASSUME ~AIGoesOut(p), AIGoesOut(p)' PROVE Answers(aiRuns'[p].to)
      <3>1. AIAnswered(q) /\ q = p /\ StillWanted(aiRuns[p].to) /\ aiRuns' = [aiRuns EXCEPT ![p].pc = "sending"]
        <4>1. aiRuns \in [PanelChats -> Replies]
          BY DEF GhostTypeOK
        <4>2. CASE UNCHANGED aiRuns
          BY <2>2, <4>2 DEF AIGoesOut
        <4>3. CASE BeginAI(q)
          BY <2>2, <4>1, <4>3 DEF BeginAI, AIGoesOut
        <4>4. CASE AISent(q)
          BY <2>2, <4>1, <4>4 DEF AISent, AIEnds, IdleReply, AIGoesOut
        <4>5. CASE AIAnswered(q) /\ aiRuns' = [aiRuns EXCEPT ![q] = IdleReply]
          BY <2>2, <4>1, <4>5 DEF IdleReply, AIGoesOut
        <4>6. CASE /\ AIAnswered(q) /\ StillWanted(aiRuns[q].to)
                   /\ aiRuns' = [aiRuns EXCEPT ![q].pc = "sending"]
          <5>1. q = p
            BY <2>2, <4>1, <4>6 DEF AIGoesOut
          <5>. QED  BY <4>6, <5>1
        <4>7. AIAnswered(q) => \/ aiRuns' = [aiRuns EXCEPT ![q] = IdleReply]
                               \/ /\ StillWanted(aiRuns[q].to)
                                  /\ aiRuns' = [aiRuns EXCEPT ![q].pc = "sending"]
          BY DEF AIAnswered, AIEnds
        <4>8. BeginAI(q) \/ AISent(q) \/ AIAnswered(q) \/ UNCHANGED aiRuns
          BY <1>1 DEF PanelStep, OpenPanel, ChatOpens, Type, TypedEnds, OpenChat, ClearSelection, ShowActions,
             LeaveActions, AskText, OfferAI, Select
        <4>. QED  BY <4>2, <4>3, <4>4, <4>5, <4>6, <4>7, <4>8
      <3>2. aiRuns[p].to \in Targets \union {NoTarget} /\ aiRuns'[p].to = aiRuns[p].to
        BY <3>1 DEF GhostTypeOK, Replies
      <3>3. PICK c \in Sources : c = aiRuns[p].to.chat
        BY <3>1 DEF StillWanted, Allowed, GhostTypeOK, Copies
      <3>4. Target(c) = aiRuns[p].to /\ Allowed(c)
        BY <3>1, <3>3 DEF StillWanted
      <3>5. Target(c) # NoTarget
        BY <3>3, <3>4, GhostAssumption DEF NoTarget
      <3>6. selections[c] = {aiRuns[p].to.letter}
        BY <3>4, <3>5, SelectedAlone
      <3>. QED  BY <3>2, <3>3, <3>4, <3>6 DEF Answers
    <2>. QED  BY <2>1, <2>2
  <1>2. CASE UNCHANGED <<typed, aiRuns>>
    BY <1>2 DEF TypedGoesOut, AIGoesOut
  <1>3. CASE GhostRestart
    BY <1>3 DEF GhostRestart, FreshPanels, IdleReply, TypedGoesOut, AIGoesOut
  <1>4. CASE \/ GhostPreload \/ GhostLoad
             \/ \E t \in Toggles : \/ \E c \in ghostBudget.chats : ToggleBegin(t, c)
                                   \/ ToggleLoaded(t) \/ ToggleSnapshot(t) \/ ToggleWrite(t) \/ ToggleShown(t)
             \/ \E list \in strays : StrayLands(list)
    <2>1. UNCHANGED <<typed, aiRuns>>
      BY <1>4 DEF GhostPreload, GhostLoad, ToggleBegin, ToggleLoaded, ToggleSnapshot, ToggleWrite, ToggleShown,
         StrayLands, panelVars
    <2>. QED  BY <1>2, <2>1
  <1>5. CASE UNCHANGED ghostVars
    BY <1>2, <1>5 DEF ghostVars
  <1>. QED  BY <1>1, <1>3, <1>4, <1>5, StepsOfGhostNext

\* A reply goes out only to a chat that is allowed, and to the message selected
\* there alone (handle of a typed reply, _run_ai_reply): although typing asks for no
\* permission, and the rest changes while the engine writes.
THEOREM RepliesStaySelected == GhostSpec => RepliesFollowTheSelection
  <1>1. GhostInv /\ [GhostNext]_ghostVars =>
          [\A p \in PanelChats :
              /\ ~TypedGoesOut(p) /\ TypedGoesOut(p)' => Answers(typed'[p].to)
              /\ ~AIGoesOut(p) /\ AIGoesOut(p)' => Answers(aiRuns'[p].to)]_ghostVars
    BY RepliesAreWanted
  <1>. QED  BY <1>1, GhostInvariant, PTL DEF GhostSpec, RepliesFollowTheSelection

===============================================================================
