----------------------------- MODULE ToolRounds -----------------------------
(***************************************************************************)
(* One chat with the AI: the requests that its messages start              *)
(* (bot/handlers/ai_unified.py), the tool rounds of each                   *)
(* (ai/engine/dispatcher.py, ai/tools/executor.py) and the owner's          *)
(* approvals of gated tools (ai/confirmation.py).                          *)
(*                                                                         *)
(* Every message is a task of its own; nothing serialises those of a chat. *)
(* A model's answer brings a batch of tool calls; after a round it is asked *)
(* again, for at most MaxToolRounds rounds, and what it asks for after the *)
(* last round runs once more without a further question.  A gated call is  *)
(* not run but stored for the chat, and an explicit "yes" takes it out of  *)
(* the store and runs it.  A call is <<request, answer, position, kind of   *)
(* tool>>; what tools do and say is left out.                              *)
(***************************************************************************)
EXTENDS Integers, Sequences, FiniteSets

CONSTANTS
    AIRequests,      \* the messages that start a request
    Talks,           \* what each message is, and the batches a model may ask for
    MaxToolRounds,   \* dispatcher.MAX_TOOL_ROUNDS
    MaxToolsPerTurn, \* executor.MAX_TOOLS_PER_TURN
    AISlots,         \* _AI_MAX_CONCURRENCY
    ApprovalTTL,     \* confirmation.CONFIRMATION_TTL_S
    AIHorizon        \* bound on the clock

ASSUME ToolAssumption ==
    /\ MaxToolRounds \in Nat /\ MaxToolsPerTurn \in Nat /\ AISlots \in Nat \ {0}
    /\ ApprovalTTL \in Nat /\ AIHorizon \in Nat
    /\ \A t \in Talks : /\ t.says \in [AIRequests -> {"ask", "yes", "nothing"}]
                        /\ t.batches \subseteq Seq({"auto", "gated"})

VARIABLES
    talk,       \* which of Talks the behaviour is
    ai,         \* request -> where it stands
    approval,   \* the stored approval of the chat, if any
    toolRuns,   \* history: the calls that ran; those that ran again; those reported as not run
    prompts,    \* history: the calls whose prompt the owner was shown
    aiClock

toolVars == <<talk, ai, approval, toolRuns, prompts, aiClock>>

NoCall == <<>>
NoApproval == [call |-> NoCall, at |-> 0]
NothingTaken == [call |-> NoCall, age |-> 0]

NewRequest == [pc |-> "idle", batch |-> <<>>, answer |-> 0, pos |-> 1, rounds |-> 0,
               ran |-> FALSE, failed |-> FALSE, once |-> FALSE, prompt |-> NoCall,
               took |-> NothingTaken, seen |-> {}]

ToolInit ==
    /\ talk \in Talks
    /\ ai = [r \in AIRequests |-> NewRequest]
    /\ approval = NoApproval
    /\ toolRuns = [done |-> {}, again |-> {}, denied |-> {}]
    /\ prompts = {}
    /\ aiClock = 0

-----------------------------------------------------------------------------
\* A request holds its slot of the semaphore from the acquisition to its end.
HoldsSlotOf(r) == ai[r].pc \notin {"idle", "queued", "over"}
SlotsTaken == Cardinality({r \in AIRequests : HoldsSlotOf(r)})

Call(r, i) == <<r, ai[r].answer, i, ai[r].batch[i]>>
WaitsForApproval(call) == call[4] = "gated"
Blocked(b) == {i \in 1 .. Len(b) : i <= MaxToolsPerTurn /\ b[i] = "gated"}

StepTo(r, pc) == ai' = [ai EXCEPT ![r].pc = pc]
\* What the request held goes with it; what it approved is recalled.
EndRequest(r, took) ==
    ai' = [ai EXCEPT ![r] = [NewRequest EXCEPT !.pc = "over", !.took = took, !.seen = ai[r].seen]]
Runs(call) ==
    toolRuns' = [toolRuns EXCEPT !.done = @ \union {call},
                                 !.again = IF call \in toolRuns.done THEN @ \union {call} ELSE @]

\* The owner's message; what it answers is what the owner has seen by then.
AIArrive(r) ==
    /\ ai[r].pc = "idle" /\ talk.says[r] # "nothing"
    /\ ai' = [ai EXCEPT ![r].pc = "queued", ![r].seen = IF talk.says[r] = "yes" THEN prompts ELSE {}]
    /\ UNCHANGED <<talk, approval, toolRuns, prompts, aiClock>>

\* _execute_ai: a slot within the wait, or a rejection.
AIAcquire(r) ==
    /\ ai[r].pc = "queued"
    /\ \/ SlotsTaken < AISlots /\ StepTo(r, "begun")
       \/ SlotsTaken >= AISlots /\ EndRequest(r, NothingTaken)
    /\ UNCHANGED <<talk, approval, toolRuns, prompts, aiClock>>

-----------------------------------------------------------------------------
(* Approvals *)

StaleApproval == aiClock - approval.at >= ApprovalTTL

KeepTaken == approval' = approval                                  \* mutant
TakeOut == approval' = NoApproval

\* _try_consume_confirmation: an explicit "yes" takes what the chat has stored,
\* whichever prompt it answers.  The call runs next, or is lost with an error;
\* an expired approval is answered as such, and without one the "yes" goes on
\* to the model as any other message.
AIBegin(r) ==
    /\ ai[r].pc = "begun"
    /\ \/ /\ talk.says[r] = "yes" /\ approval # NoApproval
          /\ TakeOut
          /\ IF StaleApproval
             THEN StepTo(r, "answer")
             ELSE LET took == [call |-> approval.call, age |-> aiClock - approval.at]
                  IN \/ ai' = [ai EXCEPT ![r].pc = "approved", ![r].took = took]
                     \/ EndRequest(r, took)
       \/ /\ talk.says[r] = "ask" \/ approval = NoApproval
          /\ StepTo(r, "model")
          /\ UNCHANGED approval
    /\ UNCHANGED <<talk, toolRuns, prompts, aiClock>>

\* execute_confirmed: the stored call, past the gate.
AIRunApproved(r) ==
    /\ ai[r].pc = "approved"
    /\ Runs(ai[r].took.call)
    /\ StepTo(r, "answer")
    /\ UNCHANGED <<talk, approval, prompts, aiClock>>

\* create: refused while an unexpired approval is stored.
MayStore == approval = NoApproval \/ StaleApproval

\* _gate_confirmation_results: the first blocked call becomes the chat's approval.
Gate(r) ==
    \E i \in Blocked(ai[r].batch) :
       /\ \A j \in Blocked(ai[r].batch) : i <= j
       /\ approval' = IF MayStore THEN [call |-> Call(r, i), at |-> aiClock] ELSE approval
       /\ ai' = [ai EXCEPT ![r].pc = "answer", ![r].batch = <<>>,
                           ![r].prompt = IF MayStore THEN Call(r, i) ELSE NoCall]

-----------------------------------------------------------------------------
(* Rounds *)

\* The provider stage: an answer without calls, native calls, or an action read
\* out of prose, whose one round needs no further answer.  The retries of an
\* empty or unreadable answer come before any call.
AIModel(r) ==
    /\ ai[r].pc = "model"
    /\ \/ StepTo(r, "answer")
       \/ \E b \in talk.batches, once \in BOOLEAN :
             ai' = [ai EXCEPT ![r].pc = "round", ![r].batch = b, ![r].answer = @ + 1,
                              ![r].once = once]
    /\ UNCHANGED <<talk, approval, toolRuns, prompts, aiClock>>

LoopEnds(r) == ai[r].rounds = MaxToolRounds \/ ai[r].batch = <<>>

\* The head of the loop: a round, one that fails before its calls, or the end.
AIRound(r) ==
    /\ ai[r].pc = "round"
    /\ \/ LoopEnds(r) /\ StepTo(r, "rest")
       \/ ~LoopEnds(r) /\ ai' = [ai EXCEPT ![r].pc = "calls", ![r].pos = 1]
       \/ ~LoopEnds(r) /\ ai' = [ai EXCEPT ![r].pc = "rest", ![r].failed = TRUE]
    /\ UNCHANGED <<talk, approval, toolRuns, prompts, aiClock>>

CallsOver(r) == ai[r].pos > Len(ai[r].batch)

\* execute_calls, one call after the other: a call beyond the limit is refused,
\* a gated one blocked; the others run, whatever comes of it.
AICall(r) ==
    /\ ai[r].pc \in {"calls", "late"} /\ ~CallsOver(r)
    /\ LET i == ai[r].pos
       IN IF i > MaxToolsPerTurn \/ ai[r].batch[i] = "gated"
          THEN UNCHANGED toolRuns ELSE Runs(Call(r, i))
    /\ ai' = [ai EXCEPT ![r].pos = @ + 1]
    /\ UNCHANGED <<talk, approval, prompts, aiClock>>

NotedAtTheEnd(q) == [q EXCEPT !.rounds = @ + 1]                    \* mutant
\* last_round_executed is set before anything else is done with the results.
Noted(q) == [q EXCEPT !.rounds = @ + 1, !.ran = TRUE]

\* After a round: bookkeeping fails; a blocked call is stored; the one round of
\* an action is over, or a search only repeats an earlier one; deterministic
\* reads are kept for the answer; or the model is asked again.
AIRoundDone(r) ==
    LET q == Noted(ai[r])
        Next1(changed) == ai' = [ai EXCEPT ![r] = changed]
    IN /\ ai[r].pc = "calls" /\ CallsOver(r)
       /\ \/ Next1([q EXCEPT !.pc = "rest", !.failed = TRUE]) /\ UNCHANGED approval
          \/ Blocked(q.batch) # {} /\ Gate(r)
          \/ /\ Blocked(q.batch) = {} /\ UNCHANGED approval
             /\ \/ Next1([q EXCEPT !.pc = "answer", !.batch = <<>>])
                \/ ~q.once /\ Next1([q EXCEPT !.pc = "asked", !.batch = <<>>])
                \/ ~q.once /\ Next1([q EXCEPT !.pc = "asked"])
       /\ UNCHANGED <<talk, toolRuns, prompts, aiClock>>

\* The continuation: it fails to come, says something, or brings fresh calls.
AIContinue(r) ==
    /\ ai[r].pc = "asked"
    /\ \/ StepTo(r, "rest")
       \/ ai' = [ai EXCEPT ![r].pc = "answer", ![r].batch = <<>>, ![r].ran = FALSE]
       \/ \E b \in talk.batches :
             ai' = [ai EXCEPT ![r].pc = "round", ![r].batch = b, ![r].answer = @ + 1,
                              ![r].ran = FALSE]
    /\ UNCHANGED <<talk, approval, toolRuns, prompts, aiClock>>

Batch(r) == {Call(r, i) : i \in 1 .. Len(ai[r].batch)}

\* After the loop: calls that ran are dropped; those of a failed round, or whose
\* late run fails before it starts, are reported as pending; fresh ones run late.
AIRest(r) ==
    /\ ai[r].pc = "rest"
    /\ \/ /\ ai[r].batch = <<>> \/ ai[r].ran
          /\ ai' = [ai EXCEPT ![r].pc = "answer", ![r].batch = <<>>]
          /\ UNCHANGED toolRuns
       \/ /\ ai[r].batch # <<>> /\ ~ai[r].ran
          /\ StepTo(r, "answer")
          /\ toolRuns' = [toolRuns EXCEPT !.denied = @ \union Batch(r)]
       \/ /\ ai[r].batch # <<>> /\ ~ai[r].ran /\ ~ai[r].failed
          /\ ai' = [ai EXCEPT ![r].pc = "late", ![r].pos = 1]
          /\ UNCHANGED toolRuns
    /\ UNCHANGED <<talk, approval, prompts, aiClock>>

\* As after a round; where the bookkeeping fails nothing is stored.
AILateDone(r) ==
    /\ ai[r].pc = "late" /\ CallsOver(r)
    /\ \/ Blocked(ai[r].batch) # {} /\ Gate(r)
       \/ /\ ai' = [ai EXCEPT ![r].pc = "answer", ![r].batch = <<>>]
          /\ UNCHANGED approval
    /\ UNCHANGED <<talk, toolRuns, prompts, aiClock>>

-----------------------------------------------------------------------------
\* The answer is delivered, or not: Telegram refuses it, or the task wizard of
\* another call of the batch is opened in its place.
AIAnswer(r) ==
    /\ ai[r].pc = "answer"
    /\ \/ prompts' = prompts \union ({ai[r].prompt} \ {NoCall})
       \/ UNCHANGED prompts
    /\ EndRequest(r, ai[r].took)
    /\ UNCHANGED <<talk, approval, toolRuns, aiClock>>

\* The request's time is up, or its task is cancelled, at any of its awaits.
AICut(r) ==
    /\ ai[r].pc \in {"begun", "approved", "model", "calls", "asked", "late"}
    /\ ai[r].pc \in {"calls", "late"} => ~CallsOver(r)
    /\ EndRequest(r, ai[r].took)
    /\ UNCHANGED <<talk, approval, toolRuns, prompts, aiClock>>

AITick ==
    /\ aiClock < AIHorizon
    /\ aiClock' = aiClock + 1
    /\ UNCHANGED <<talk, ai, approval, toolRuns, prompts>>

AIStep(r) ==
    \/ AIAcquire(r) \/ AIBegin(r) \/ AIRunApproved(r) \/ AIModel(r) \/ AIRound(r) \/ AICall(r)
    \/ AIRoundDone(r) \/ AIContinue(r) \/ AIRest(r) \/ AILateDone(r) \/ AIAnswer(r)

ToolNext ==
    \/ \E r \in AIRequests : AIArrive(r) \/ AIStep(r) \/ AICut(r)
    \/ AITick

ToolSpec == ToolInit /\ [][ToolNext]_toolVars

-----------------------------------------------------------------------------
(* Properties *)

Calls == AIRequests \X (1 .. MaxToolRounds + 1) \X (1 .. MaxToolsPerTurn) \X {"auto", "gated"}

ToolTypeOK ==
    /\ talk \in Talks
    /\ \A r \in AIRequests :
          /\ ai[r].pc \in {"idle", "queued", "begun", "approved", "model", "round", "calls", "asked",
                           "rest", "late", "answer", "over"}
          /\ ai[r].answer \in 0 .. MaxToolRounds + 1 /\ ai[r].rounds \in 0 .. MaxToolRounds
          /\ ai[r].seen \subseteq Calls
    /\ approval.call \in Calls \union {NoCall}
    /\ toolRuns.done \subseteq Calls
    /\ SlotsTaken <= AISlots

\* Whatever fails between a tool's run and the answer, a call runs at most once,
\* and no call that ran is reported as pending (the flags of dispatch and its
\* handling of the round limit).
CallsRunOnceAndAreReportedSo ==
    toolRuns.again = {} /\ toolRuns.denied \intersect toolRuns.done = {}

\* A call that waits for approval runs only in the one request that took its
\* approval out of the store, and took it in time (take, execute_confirmed).
ApprovalsAreSpentOnce ==
    /\ \A call \in toolRuns.done :
          WaitsForApproval(call) => \E r \in AIRequests : ai[r].took.call = call
    /\ \A r \in AIRequests :
          ai[r].took # NothingTaken =>
             /\ ai[r].took.age < ApprovalTTL
             /\ \A q \in AIRequests \ {r} : ai[q].took.call # ai[r].took.call

\* The claim of the prompt and of confirmation.py: what a "yes" approves is a
\* call whose prompt the owner had seen.
ApprovedCallsWereShown ==
    \A r \in AIRequests : ai[r].took # NothingTaken => ai[r].took.call \in ai[r].seen

RequestIsOpen(r) == ai[r].pc \notin {"idle", "over"}
=============================================================================
