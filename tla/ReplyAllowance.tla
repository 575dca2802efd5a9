--------------------------- MODULE ReplyAllowance ---------------------------
(***************************************************************************)
(* The automatic AI reply to one person's private messages and the         *)
(* allowance it spends: enforce_incoming and _ai_response                  *)
(* (bot/handlers/private_message.py), the per-person lock                  *)
(* (services/private_message_service.py), and the conditional writes on    *)
(* the counter row (db/client.py).                                         *)
(*                                                                         *)
(* A claim reads the row and replaces it only while the row still holds    *)
(* what was read; a release puts back what the claim replaced.  Both run   *)
(* in a worker thread: when the awaiting coroutine times out or is         *)
(* cancelled, the thread goes on ("owned" is FALSE).  The person's lock    *)
(* serialises one person's handlers, but the table of locks drops its      *)
(* oldest entry when it is full, also while that lock is held.             *)
(***************************************************************************)
EXTENDS Integers, FiniteSets

CONSTANTS
    ReplyTasks,     \* handlers of the person's updates
    MaxReplies,     \* ai_max_replies_per_person
    ReplyInterval,  \* ai_interval_seconds
    ResetAfter,     \* ai_counter_reset_seconds, reset enabled
    CasAttempts,    \* _PM_CAS_ATTEMPTS
    MaxEvictions,   \* bound: times the lock table drops this person's lock
    ReplyHorizon    \* bound on the clock

NoStamp == [at |-> 0, by |-> 0]
NoRow == [used |-> 0, last |-> NoStamp, window |-> NoStamp, exists |-> FALSE]

\* The reply the person got before the handlers of the model, if any.
Past == 0
PastStamp == [at |-> 1, by |-> Past]
PastRow == [used |-> 1, last |-> PastStamp, window |-> PastStamp, exists |-> TRUE]
AllReplies == ReplyTasks \union {Past}

ASSUME AllowanceAssumption ==
    /\ IsFiniteSet(ReplyTasks) /\ Past \notin ReplyTasks
    /\ MaxReplies \in Nat \ {0} /\ ReplyInterval \in Nat /\ ResetAfter \in Nat \ {0}
    /\ CasAttempts \in Nat \ {0} /\ MaxEvictions \in Nat
    /\ ReplyHorizon \in Nat /\ PastStamp.at < ReplyHorizon

VARIABLES
    row,         \* the person's row of private_message_senders
    replies,     \* task -> where its handler stands, and what its claim holds
    locks,       \* the lock the table hands out, and the locks held
    replyClock,
    leaked,      \* history: an allowance was spent for no reply
    restarted    \* history: the owner reset the counters between two attempts of a claim

allowanceVars == <<row, replies, locks, replyClock, leaked, restarted>>

NewReply == [pc |-> "idle", lock |-> 0, owned |-> TRUE, tries |-> 0,
             stamp |-> NoStamp, read |-> NoRow, write |-> NoRow, window |-> NoStamp]

AllowanceInit ==
    /\ row \in {NoRow, PastRow}
    /\ replies = [t \in AllReplies |->
                     IF t = Past /\ row.exists
                     THEN [NewReply EXCEPT !.pc = "sent", !.window = PastStamp]
                     ELSE IF t = Past THEN [NewReply EXCEPT !.pc = "over"] ELSE NewReply]
    /\ locks = [current |-> 1, held |-> {}]
    /\ replyClock = PastStamp.at + 1
    /\ leaked = FALSE
    /\ restarted = FALSE

-----------------------------------------------------------------------------

\* _pm_claim_decision: the window expired, so this very claim restarts the count.
Expired(r, now) == r.window # NoStamp /\ now.at - r.window.at >= ResetAfter
EffectiveUsed(r, now) == IF Expired(r, now) THEN 0 ELSE r.used

TooSoon(r, now) == r.last # NoStamp /\ now.at - r.last.at < ReplyInterval

Denied(r, now) == EffectiveUsed(r, now) >= MaxReplies \/ TooSoon(r, now)

ClaimedRow(r, now) ==
    [used |-> EffectiveUsed(r, now) + 1, last |-> now, exists |-> TRUE,
     window |-> IF Expired(r, now) \/ r.window = NoStamp THEN now ELSE r.window]

\* _pm_cas_filters: the values the claim read, the window only if there was one.
CasMatches(r, read) ==
    IF read.exists
    THEN r.exists /\ r.used = read.used /\ (read.window # NoStamp => r.window = read.window)
    ELSE ~r.exists

\* The release conditions on exactly what the claim wrote.
ReleaseMatches(r, write) == r = write

\* It puts back what the claim replaced, an expired window with it.
RestoredInNewWindow(c) == [c.read EXCEPT !.exists = TRUE, !.window = c.write.window]
Restored(c) == [c.read EXCEPT !.exists = TRUE]

ReplyOver(pc) == pc \in {"sent", "over"}

\* The task leaves the lock; an abandoned thread has none to leave.
Leave(t) == IF replies[t].owned THEN [locks EXCEPT !.held = @ \ {replies[t].lock}] ELSE locks

\* What a handler held is dropped with it; of a sent reply its reset window is recalled.
End(t, pc) ==
    replies' = [replies EXCEPT ![t] =
                   [NewReply EXCEPT !.pc = pc, !.window = IF pc = "sent" THEN replies[t].write.window ELSE NoStamp]]

-----------------------------------------------------------------------------

\* enforce_incoming: a message marked as handled ends here; of another one the
\* mark is set and deletion and fixed response are over, whatever became of
\* them, when the handler asks the table for the person's lock.
ReplyArrive(t) ==
    /\ replies[t].pc = "idle"
    /\ \/ End(t, "over")
       \/ replies' = [replies EXCEPT ![t].pc = "waiting", ![t].lock = locks.current]
    /\ UNCHANGED <<row, locks, replyClock, leaked, restarted>>

ReplyLock(t) ==
    /\ replies[t].pc = "waiting" /\ replies[t].lock \notin locks.held
    /\ locks' = [locks EXCEPT !.held = @ \union {replies[t].lock}]
    /\ replies' = [replies EXCEPT ![t].pc = "reading", ![t].stamp = [at |-> replyClock, by |-> t]]
    /\ UNCHANGED <<row, replyClock, leaked, restarted>>

\* The claim reads the row and decides; a failed read ends it.
ReplyRead(t) ==
    /\ replies[t].pc = "reading"
    /\ \/ /\ ~Denied(row, replies[t].stamp)
          /\ replies' = [replies EXCEPT ![t].pc = "writing", ![t].read = row,
                                        ![t].write = ClaimedRow(row, replies[t].stamp)]
          /\ UNCHANGED locks
       \/ /\ End(t, "over")
          /\ locks' = Leave(t)
    /\ UNCHANGED <<row, replyClock, leaked, restarted>>

\* One attempt ended without a claim: read again, or give up as contended.
Again(t) ==
    IF replies[t].tries + 1 < CasAttempts
    THEN /\ replies' = [replies EXCEPT ![t].pc = "reading", ![t].tries = @ + 1]
         /\ UNCHANGED locks
    ELSE End(t, "over") /\ locks' = Leave(t)

\* The conditional write lands and is confirmed, lands unconfirmed, or does not land.
ReplyWrite(t) ==
    /\ replies[t].pc = "writing"
    /\ \/ /\ CasMatches(row, replies[t].read)
          /\ row' = replies[t].write
          /\ IF replies[t].owned
             THEN replies' = [replies EXCEPT ![t].pc = "answering"]
             ELSE End(t, "over")
          /\ leaked' = (leaked \/ ~replies[t].owned)
          /\ UNCHANGED locks
       \/ /\ CasMatches(row, replies[t].read)
          /\ row' = replies[t].write
          /\ leaked' = TRUE
          /\ Again(t)
       \/ /\ Again(t)
          /\ UNCHANGED <<row, leaked>>
    /\ UNCHANGED <<replyClock, restarted>>

\* Generation and delivery are two awaits; a failure of either gives the claim back.
ReplyDeliver(t) ==
    /\ replies[t].pc = "answering"
    /\ \/ /\ replies' = [replies EXCEPT ![t].pc = "releasing"]
          /\ UNCHANGED locks
       \/ /\ End(t, "sent")
          /\ locks' = Leave(t)
    /\ UNCHANGED <<row, replyClock, leaked, restarted>>

\* release_ai_reply: the pre-claim values return if the row is still the claim's.
ReplyRelease(t) ==
    /\ replies[t].pc = "releasing"
    /\ \/ /\ ReleaseMatches(row, replies[t].write)
          /\ row' = Restored(replies[t])
          /\ UNCHANGED leaked
       \/ /\ leaked' = TRUE
          /\ UNCHANGED row
    /\ End(t, "over")
    /\ locks' = Leave(t)
    /\ UNCHANGED <<replyClock, restarted>>

\* The await times out, or the handler is cancelled: a database call goes on in
\* its thread without its caller, every other await just ends.
InThread == {"reading", "writing", "releasing"}

ReplyAbandon(t) ==
    /\ replies[t].owned /\ replies[t].pc \in InThread \union {"waiting", "answering"}
    /\ IF replies[t].pc \in InThread
       THEN replies' = [replies EXCEPT ![t].owned = FALSE, ![t].lock = 0] /\ UNCHANGED leaked
       ELSE /\ End(t, "over")
            /\ leaked' = (leaked \/ replies[t].pc = "answering")
    /\ locks' = IF replies[t].pc = "waiting" THEN locks ELSE Leave(t)
    /\ UNCHANGED <<row, replyClock, restarted>>

-----------------------------------------------------------------------------

\* _sender_lock: the full table drops this person's lock; the next handler gets
\* a new one.
EvictLock ==
    /\ locks.current <= MaxEvictions
    /\ locks' = [locks EXCEPT !.current = @ + 1]
    /\ UNCHANGED <<row, replies, replyClock, leaked, restarted>>

\* reset_counters: the owner deletes the rows.
TriedAgain(t) == replies[t].pc \in {"reading", "writing"} /\ replies[t].tries > 0
ResetCounters ==
    /\ row.exists
    /\ row' = NoRow
    /\ restarted' = (restarted \/ \E t \in ReplyTasks : TriedAgain(t))
    /\ UNCHANGED <<replies, locks, replyClock, leaked>>

AllowanceTick ==
    /\ replyClock < ReplyHorizon
    /\ replyClock' = replyClock + 1
    /\ UNCHANGED <<row, replies, locks, leaked, restarted>>

ReplyStep(t) ==
    \/ ReplyArrive(t) \/ ReplyLock(t) \/ ReplyRead(t)
    \/ ReplyWrite(t) \/ ReplyDeliver(t) \/ ReplyRelease(t)

AllowanceNext ==
    \/ \E t \in ReplyTasks : ReplyStep(t) \/ ReplyAbandon(t)
    \/ EvictLock \/ ResetCounters \/ AllowanceTick

AllowanceSpec == AllowanceInit /\ [][AllowanceNext]_allowanceVars

\* Every await of a handler is bounded, and a free lock goes to whoever waits.
AllowanceFairness == \A t \in ReplyTasks : WF_allowanceVars(ReplyStep(t))
AllowanceFairSpec == AllowanceSpec /\ AllowanceFairness

-----------------------------------------------------------------------------

Stamps == [at : 0 .. ReplyHorizon, by : AllReplies]
CounterRows == [used : 0 .. MaxReplies, last : Stamps, window : Stamps, exists : BOOLEAN]

AllowanceTypeOK ==
    /\ row \in CounterRows
    /\ \A t \in AllReplies :
          /\ replies[t].pc \in {"idle", "waiting", "reading", "writing", "answering",
                                "releasing", "sent", "over"}
          /\ replies[t].read \in CounterRows /\ replies[t].write \in CounterRows
          /\ replies[t].tries \in 0 .. CasAttempts - 1
    /\ locks.held \subseteq 1 .. locks.current

SentIn(w) == {t \in AllReplies : replies[t].pc = "sent" /\ replies[t].window = w}

\* No reset window ever sees more delivered replies than the owner allows, even
\* when the person's lock was dropped while held, the owner resets the counters,
\* or an abandoned claim lands late.  A claim keeps its instant over all its
\* attempts: one that landed unconfirmed begins the same window a second time
\* when the owner resets the counters before it is tried again.
LimitHoldsInEveryWindow ==
    ~restarted => \A t \in AllReplies : Cardinality(SentIn(replies[t].window)) <= MaxReplies

\* With no handler under way the counter equals the replies sent in its window,
\* unless an allowance was lost: a failed generation or delivery costs nobody a
\* reply.  It is lost when the handler is cancelled after its claim, the claim
\* lands unconfirmed, or the release does not land.
QuietCounterIsExact ==
    (~leaked /\ row.window # NoStamp /\ \A t \in ReplyTasks : replies[t].pc = "idle" \/ ReplyOver(replies[t].pc))
        => row.used = Cardinality(SentIn(row.window))

\* Both: no claim exceeds the limit, and none that nobody received is counted.
AllowanceIsKept == LimitHoldsInEveryWindow /\ QuietCounterIsExact

\* What must come to an end: a handler gives its turn to the next.
ReplyRuns(t) == replies[t].pc # "idle" /\ ~ReplyOver(replies[t].pc)

=============================================================================
