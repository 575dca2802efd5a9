---------------------------- MODULE CallbackGate ----------------------------
(***************************************************************************)
(* The clicks on one Glass UI panel: duplicate suppression, the panel's     *)
(* FIFO turn, the painter that writes its message, closing it by a click    *)
(* or by its auto-close timer.  Every delivery of a callback query is a     *)
(* task of its own; a step runs from one await to the next.                 *)
(***************************************************************************)
EXTENDS Integers, Sequences, FiniteSets

CONSTANTS Deliveries,    \* number of callback updates, each served by a task
          Queries,       \* their query ids
          RecentLimit    \* _RECENT_QUERY_LIMIT

ASSUME GateAssumption ==
    Deliveries \in Nat /\ RecentLimit \in Nat \ {0}

VARIABLES recent,    \* _recent_queries, oldest first
          click,     \* the tasks
          turn,      \* the panel's entry of _turns; a new id is a new entry
          painter,   \* its PanelPainter
          panelOpen, \* the panel has its lifecycle session
          slips      \* history: rare events the promises depend on

gateVars == <<recent, click, turn, painter, panelOpen, slips>>

-----------------------------------------------------------------------------
ClickTasks == 1 .. Deliveries
NoView == 0
Views == 0 .. Deliveries

Task(pc) == [pc |-> pc, entry |-> 0, view |-> NoView, brush |-> 0]
PanelTurn == [id |-> 0, busy |-> FALSE, waiters |-> <<>>]

GateTypeOK ==
    /\ recent \in Seq(Queries) /\ Len(recent) <= RecentLimit
    /\ click \in
        [ClickTasks -> [pc: {"new", "acked", "waiting", "lapsed", "granted", "handling",
                             "painting", "closing", "done"},
                        entry: Nat, view: Views, brush: Nat]]
    /\ turn \in [id: Nat, busy: BOOLEAN, waiters: Seq(ClickTasks)]
    /\ painter \in [id: Nat, newest: Views, pending: Views, busy: BOOLEAN, closed: BOOLEAN]
    /\ panelOpen \in BOOLEAN
    /\ slips \subseteq {"skipped", "cancelled", "timer"}

GateInit ==
    /\ recent = <<>>
    /\ click = [c \in ClickTasks |-> Task("new")]
    /\ turn = PanelTurn
    /\ painter = [id |-> 0, newest |-> NoView, pending |-> NoView, busy |-> FALSE, closed |-> FALSE]
    /\ panelOpen = TRUE
    /\ slips = {}

ClicksAt(pc) == {c \in ClickTasks : click[c].pc = pc}
Handling == ClicksAt("handling") \cup ClicksAt("closing")

-----------------------------------------------------------------------------
(* admit *)

NewestOf(s) == SubSeq(s, Len(s) - RecentLimit + 1, Len(s))
TrimNever(s) == s                                                     \* mutant
(* The oldest entries make room; a duplicate does not renew its entry. *)
Trim(s) == IF Len(s) > RecentLimit THEN NewestOf(s) ELSE s

GateAdmit(c, q) ==
    /\ click[c].pc = "new" /\ \A d \in 1 .. c - 1 : click[d].pc # "new"
    /\ IF \E i \in DOMAIN recent : recent[i] = q
         THEN /\ click' = [click EXCEPT ![c] = Task("done")]
              /\ UNCHANGED recent
         ELSE /\ recent' = Trim(Append(recent, q))
              /\ click' = [click EXCEPT ![c].pc = "acked"]
    /\ UNCHANGED <<turn, painter, panelOpen, slips>>

-----------------------------------------------------------------------------
(* acquire_turn, _grant and release_turn *)

(* The entry whose waiters are ws after _grant, over the tasks clicks: the      *)
(* first waiter whose future is still pending gets the turn, the done ones      *)
(* before it are dropped.                                                       *)
Pending(ws, clicks) == {i \in DOMAIN ws : clicks[ws[i]].pc = "waiting"}
First(S) == CHOOSE i \in S : \A j \in S : i <= j
Successor(ws, clicks) ==
    IF Pending(ws, clicks) = {} THEN {} ELSE {ws[First(Pending(ws, clicks))]}
Behind(ws, clicks) ==
    IF Pending(ws, clicks) = {} THEN <<>>
    ELSE SubSeq(ws, First(Pending(ws, clicks)) + 1, Len(ws))
Woken(clicks) ==
    [c \in ClickTasks |-> IF c \in Successor(turn.waiters, clicks)
                            THEN [clicks[c] EXCEPT !.pc = "granted"] ELSE clicks[c]]
Skips(clicks) == \E i \in DOMAIN turn.waiters :
    /\ clicks[turn.waiters[i]].pc = "lapsed"
    /\ \A j \in Pending(turn.waiters, clicks) : i < j

ForgetToGrant(clicks, entry) ==                                       \* mutant
    /\ click' = clicks /\ UNCHANGED <<turn, slips>>
Grant(clicks, entry) ==
    IF entry # turn.id THEN click' = clicks /\ UNCHANGED <<turn, slips>>
    ELSE /\ click' = Woken(clicks)
         /\ turn' = [turn EXCEPT !.busy = Successor(turn.waiters, clicks) # {},
                                 !.waiters = Behind(turn.waiters, clicks)]
         /\ slips' = IF Skips(clicks) THEN slips \cup {"skipped"} ELSE slips

ReleaseUnwoken(clicks, entry) ==                                      \* mutant
    click' = clicks /\ turn' = [turn EXCEPT !.busy = FALSE] /\ UNCHANGED slips
(* release_turn: an idle entry is dropped, the next click makes a new one. *)
Release(clicks, entry) ==
    IF entry # turn.id THEN click' = clicks /\ UNCHANGED <<turn, slips>>
    ELSE /\ click' = Woken(clicks)
         /\ turn' = IF Successor(turn.waiters, clicks) # {}
                      THEN [turn EXCEPT !.waiters = Behind(turn.waiters, clicks)]
                      ELSE [PanelTurn EXCEPT !.id = turn.id + 1]
         /\ slips' = IF Skips(clicks) THEN slips \cup {"skipped"} ELSE slips

(* _resolve_session refuses a click on a panel that is gone. *)
GateArrive(c) ==
    /\ click[c].pc = "acked"
    /\ IF ~panelOpen
         THEN click' = [click EXCEPT ![c] = Task("done")] /\ UNCHANGED turn
       ELSE IF ~turn.busy
         THEN /\ click' = [click EXCEPT ![c].pc = "handling", ![c].entry = turn.id]
              /\ turn' = [turn EXCEPT !.busy = TRUE]
         ELSE /\ click' = [click EXCEPT ![c].pc = "waiting", ![c].entry = turn.id]
              /\ turn' = [turn EXCEPT !.waiters = Append(@, c)]
    /\ UNCHANGED <<recent, painter, panelOpen, slips>>

(* turn_deadline passes: the future is done at once, also when the turn was     *)
(* granted a moment ago; its task learns of it in a later step of the loop.     *)
GateLapse(c) ==
    /\ click[c].pc \in {"waiting", "granted"}
    /\ click' = [click EXCEPT ![c].pc = "lapsed"]
    /\ UNCHANGED <<recent, turn, painter, panelOpen, slips>>

Without(ws, c) ==
    LET i == First({j \in DOMAIN ws : ws[j] = c})
    IN  SubSeq(ws, 1, i - 1) \o SubSeq(ws, i + 1, Len(ws))

(* The task of an expired wait: no longer among the waiters means granted. *)
GateGiveUp(c) ==
    /\ click[c].pc = "lapsed"
    /\ LET gone == [click EXCEPT ![c] = Task("done")]
       IN  IF click[c].entry = turn.id /\ \E i \in DOMAIN turn.waiters : turn.waiters[i] = c
             THEN /\ click' = gone
                  /\ turn' = [turn EXCEPT !.waiters = Without(@, c)]
                  /\ UNCHANGED slips
             ELSE Grant(gone, click[c].entry)
    /\ UNCHANGED <<recent, painter, panelOpen>>

(* The granted task runs; the panel may have been closed while it waited. *)
GateDispatch(c) ==
    /\ click[c].pc = "granted"
    /\ IF panelOpen
         THEN click' = [click EXCEPT ![c].pc = "handling"] /\ UNCHANGED <<turn, slips>>
         ELSE Release([click EXCEPT ![c] = Task("done")], click[c].entry)
    /\ UNCHANGED <<recent, painter, panelOpen>>

-----------------------------------------------------------------------------
(* The handler and the painter. *)

(* PanelPainter.publish, and take when this task has to drive the paint.  A    *)
(* forgotten panel gets a painter of its own.  Views are numbered as they are  *)
(* published.                                                                   *)
Publish(clicks, c, v) ==
    IF painter.busy /\ ~painter.closed
      THEN /\ painter' = [painter EXCEPT !.newest = v, !.pending = v]
           /\ Release([clicks EXCEPT ![c] = Task("done")], clicks[c].entry)
      ELSE \E id \in {IF painter.closed THEN painter.id + 1 ELSE painter.id} :
           /\ painter' = [id |-> id, newest |-> v, pending |-> NoView,
                          busy |-> TRUE, closed |-> FALSE]
           /\ Release([clicks EXCEPT ![c].pc = "painting", ![c].view = v, ![c].brush = id],
                      clicks[c].entry)

(* The handler returns, or fails with a notice to paint: the turn is released  *)
(* and the view published without an await in between.                         *)
GateHandled(c) ==
    /\ click[c].pc = "handling"
    /\ Publish(click, c, painter.newest + 1)
    /\ UNCHANGED <<recent, panelOpen>>

(* drain's finally frees the slot of the painter this task drove. *)
Drop(c) == painter' = IF click[c].brush = painter.id
                        THEN [painter EXCEPT !.busy = FALSE] ELSE painter

DrainOnce(c) ==                                                       \* mutant
    /\ click[c].pc = "painting"
    /\ click' = [click EXCEPT ![c] = Task("done")] /\ Drop(c)
    /\ UNCHANGED <<recent, turn, panelOpen, slips>>
(* The edit returns, or fails and is logged; drain goes on with the newest view *)
(* until there is none.                                                          *)
GateDrain(c) ==
    /\ click[c].pc = "painting"
    /\ IF click[c].brush # painter.id \/ painter.pending = NoView
         THEN click' = [click EXCEPT ![c] = Task("done")] /\ Drop(c)
         ELSE /\ click' = [click EXCEPT ![c].pc = "painting", ![c].view = painter.pending]
              /\ painter' = [painter EXCEPT !.pending = NoView]
    /\ UNCHANGED <<recent, turn, panelOpen, slips>>

(* The task is cancelled in its paint: drain's finally frees the slot only. *)
GateCancel(c) ==
    /\ click[c].pc = "painting"
    /\ click' = [click EXCEPT ![c] = Task("done")]
    /\ Drop(c)
    /\ slips' = slips \cup {"cancelled"}
    /\ UNCHANGED <<recent, turn, panelOpen>>

-----------------------------------------------------------------------------
(* The click closes the panel: the state is released, then the message is edited, and only     *)
(* after that edit the painter is forgotten and the turn released.              *)
GateClose(c) ==
    /\ click[c].pc = "handling"
    /\ click' = [click EXCEPT ![c].pc = "closing"]
    /\ panelOpen' = FALSE
    /\ UNCHANGED <<recent, turn, painter, slips>>

KeepPainter(c) ==                                                     \* mutant
    /\ click[c].pc = "closing"
    /\ Release([click EXCEPT ![c] = Task("done")], click[c].entry)
    /\ UNCHANGED <<recent, panelOpen, painter>>
GateForget(c) ==
    /\ click[c].pc = "closing"
    /\ painter' = [painter EXCEPT !.pending = NoView, !.closed = TRUE]
    /\ Release([click EXCEPT ![c] = Task("done")], click[c].entry)
    /\ UNCHANGED <<recent, panelOpen>>

(* timeout_panel releases the state and leaves the painter alone. *)
GateTimer ==
    /\ panelOpen /\ panelOpen' = FALSE
    /\ slips' = slips \cup {"timer"}
    /\ UNCHANGED <<recent, click, turn, painter>>

GateNext ==
    \/ \E c \in ClickTasks :
        \/ \E q \in Queries : GateAdmit(c, q)
        \/ GateArrive(c) \/ GateLapse(c) \/ GateGiveUp(c) \/ GateDispatch(c)
        \/ GateHandled(c) \/ GateDrain(c) \/ GateCancel(c)
        \/ GateClose(c) \/ GateForget(c)
    \/ GateTimer

(* The event loop runs every task that can go on, Telegram answers edits and a  *)
(* wait that nobody ends lapses.  A handler may be stuck for good.              *)
GateLoop(c) ==
    \/ GateArrive(c) \/ GateLapse(c) \/ GateGiveUp(c) \/ GateDispatch(c)
    \/ GateDrain(c)
GateFairness == \A c \in ClickTasks : WF_gateVars(GateLoop(c))
GateSpec == GateInit /\ [][GateNext]_gateVars
GateFairSpec == GateSpec /\ GateFairness
-----------------------------------------------------------------------------
(* What the panel promises. *)

(* callback_gate: "Clicks on the same panel run one at a time in arrival        *)
(* order".                                                                       *)
OneClickAtATime == Cardinality(Handling) <= 1

(* The turn is shared only after _grant passed over a waiter that had lapsed    *)
(* and not yet run: that waiter then hands on a turn it never had.              *)
SharedTurnNeedsASkippedWaiter ==
    Cardinality(Handling) > 1 => "skipped" \in slips

(* A busy turn always has somebody who will hand it on, whatever waits lapsed:  *)
(* no panel stays busy for every later click.                                    *)
TurnIsNeverOrphaned ==
    turn.busy => \E c \in ClickTasks :
        /\ click[c].entry = turn.id
        /\ \/ c \in Handling \/ click[c].pc = "granted"
           \/ click[c].pc = "lapsed" /\ \A i \in DOMAIN turn.waiters : turn.waiters[i] # c

(* Whatever waits lapse, a turn is handed on once: it is shared only after such  *)
(* a skip, and never left busy for every later click.                            *)
TurnsAreHandedOn == SharedTurnNeedsASkippedWaiter /\ TurnIsNeverOrphaned

(* A click that finds the panel idle passes nobody who still waits for it. *)
NewcomersNeverOvertake ==
    [][\A c, d \in ClickTasks :
        (click[c].pc = "waiting" /\ click[d].pc = "acked") => click'[d].pc # "handling"]_gateVars

(* A published view is painted or superseded; only a paint cancelled together   *)
(* with its task leaves one behind.                                              *)
NewestViewIsNeverStranded ==
    painter.pending # NoView => painter.busy \/ "cancelled" \in slips

(* Once the click that closed the panel has been served, no edit of it begins:  *)
(* neither a pending view nor a click that was queued reaches the message.       *)
ClosedPanelsStayQuiet ==
    [][(~panelOpen /\ slips = {} /\ Handling = {}) =>
        \A c \in ClickTasks : click'[c].pc = "painting" => click'[c] = click[c]]_gateVars

(* What must come to an end: the click gets its turn or is dropped, also behind  *)
(* a handler that never returns.                                                  *)
ClickWaits(c) == click[c].pc \in {"acked", "waiting", "lapsed", "granted"}
=============================================================================
