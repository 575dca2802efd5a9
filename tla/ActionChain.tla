----------------------------- MODULE ActionChain -----------------------------
(***************************************************************************)
(* One occurrence whose snapshot is a chain of actions: what the execution *)
(* coordinator does between the claim of the row and its next durable       *)
(* status, with the per-action record in its two metadata channels, the     *)
(* one condition, wait boundaries, questions, retries and crashes.          *)
(*                                                                          *)
(* A chain runs against one of the two stores.  The durable one may lose a  *)
(* write and survives a crash; a reply never gets through to it (the run    *)
(* sched_lost_reply of TaskScheduling).  The in-memory one loses nothing    *)
(* and consumes replies.  That another coordinator may meanwhile recover    *)
(* the row is TaskScheduling's subject and left out here.                   *)
(***************************************************************************)
EXTENDS Integers, Sequences, FiniteSets

CONSTANTS Chains,            \* snapshots: [actions, generated, durable]
          MaxChainAttempts,  \* retry.MAX_ATTEMPTS
          ChainHorizon       \* bound of the instance: the last instant

ASSUME ChainAssumption ==
    /\ MaxChainAttempts \in Nat \ {0} /\ ChainHorizon \in Nat
    /\ \A c \in Chains :
        /\ c.actions \in Seq([kind: {"tool", "condition", "question"},
                              branch: {"both", "true", "false"}, wait: 0 .. ChainHorizon])
        /\ c.generated \in BOOLEAN /\ c.durable \in BOOLEAN

VARIABLES chain,       \* the immutable snapshot
          chainRow,    \* the occurrence row
          walk,        \* the coordinator's attempt, lost in a crash
          chainClock,
          effects,     \* history: executions of each action that took effect
          finished,    \* history: actions that succeeded or were answered
          recordLost   \* history: a write of the record during a walk was lost

chainVars == <<chain, chainRow, walk, chainClock, effects, finished, recordLost>>

-----------------------------------------------------------------------------
(* The per-action record; without any action in it, the key is not written. *)
MaxActions == 5
Positions == 1 .. MaxActions
RunStatuses == {"none", "pending", "running", "succeeded", "failed", "skipped"}
Records == [run: [Positions -> RunStatuses], branch: {"none", "true", "false"}]
NoRecord == [run |-> [p \in Positions |-> "none"], branch |-> "none"]

Resting == [pc |-> "rest", pos |-> 1, at |-> 0, mem |-> NoRecord]

ChainTypeOK ==
    /\ chain \in Chains
    /\ chainRow \in
        [status: {"claimed", "running", "retry_pending", "waiting_answer",
                  "succeeded", "failed"},
         attempt: 1 .. MaxChainAttempts, due: 0 .. ChainHorizon,
         result: Records, error: Records, asked: 0 .. MaxActions, answered: 0 .. MaxActions]
    /\ walk \in [pc: {"rest", "load", "prepare", "walk", "act", "acted"},
                 pos: 1 .. MaxActions + 1, at: 0 .. ChainHorizon, mem: Records]
    /\ chainClock \in 0 .. ChainHorizon
    /\ effects \in [Positions -> Nat]
    /\ finished \subseteq Positions
    /\ recordLost \in BOOLEAN

Acts == chain.actions
ActionsOf(c) == 1 .. Len(c.actions)
Conditions(c) == {p \in ActionsOf(c) : c.actions[p].kind = "condition"}
Questions(c) == {p \in ActionsOf(c) : c.actions[p].kind = "question"}
OnBranch(c, b) == {p \in ActionsOf(c) : c.actions[p].branch = b}
Waiting(c) == {p \in ActionsOf(c) : c.actions[p].wait > 0}
Before(S, T) == \A p \in S, q \in T : p < q

(* The contracts re-proved before anything runs: at most five actions, one   *)
(* condition over a contiguous true run and then a contiguous false run,     *)
(* never with generated arguments; boundaries in order and none before the   *)
(* first question.                                                            *)
ConditionContract(c) ==
    IF Conditions(c) = {}
      THEN OnBranch(c, "true") \cup OnBranch(c, "false") = {}
      ELSE \E k \in Conditions(c), m \in ActionsOf(c) :
            /\ Conditions(c) = {k} /\ ~c.generated
            /\ k > 1 /\ k < m /\ m < Len(c.actions)
            /\ OnBranch(c, "true") = k + 1 .. m
            /\ OnBranch(c, "false") = m + 1 .. Len(c.actions)
QuestionContract(c) ==
    Questions(c) # {} => \E q \in Questions(c) : Before({q}, Waiting(c))
WaitContract(c) ==
    \A p, q \in Waiting(c) : p < q => c.actions[p].wait <= c.actions[q].wait
Admitted(c) ==
    /\ Len(c.actions) \in 1 .. MaxActions
    /\ ConditionContract(c) /\ QuestionContract(c) /\ WaitContract(c)

ChainInit ==
    /\ chain \in Chains
    /\ chainRow = [status |-> "claimed", attempt |-> 1, due |-> 0, result |-> NoRecord,
                   error |-> NoRecord, asked |-> 0, answered |-> 0]
    /\ walk = Resting
    /\ chainClock = 0
    /\ effects = [p \in Positions |-> 0]
    /\ finished = {}
    /\ recordLost = FALSE

-----------------------------------------------------------------------------
(* What an attempt reads, and how it ends. *)

(* The failure channel first, then the result channel. *)
Recorded(row) == IF row.error # NoRecord THEN row.error ELSE row.result

(* After the walk every action has a label. *)
Labelled(rec) ==
    [rec EXCEPT !.run = [p \in Positions |->
        IF rec.run[p] # "none" \/ p > Len(Acts) THEN rec.run[p]
        ELSE IF rec.branch # "none" /\ Acts[p].branch \notin {"both", rec.branch}
          THEN "skipped" ELSE "pending"]]

(* The coordinator returns.  A write the durable store loses leaves the row   *)
(* as it was.                                                                  *)
Conclude(row) ==
    /\ chainRow' = row \/ (chain.durable /\ chainRow' = chainRow)
    /\ walk' = Resting
    /\ UNCHANGED <<chain, chainClock, recordLost>>

(* Retryable failures below the maximum go back to retry_pending, whose delay *)
(* is left out; every other failure is final.                                  *)
HandleFailure(retryable, rec) ==
    Conclude(IF retryable /\ chainRow.attempt < MaxChainAttempts
               THEN [chainRow EXCEPT !.status = "retry_pending", !.due = chainClock,
                                     !.attempt = @ + 1, !.error = rec]
               ELSE [chainRow EXCEPT !.status = "failed", !.error = rec])

(* A park leaves the attempt alone and writes both channels. *)
Park(status, due, rec, q) ==
    Conclude([chainRow EXCEPT !.status = status, !.due = due, !.result = rec,
                              !.error = rec, !.asked = q, !.answered = 0])

(* A write during the walk reaches the result channel, or is lost. *)
Persist(rec) ==
    \/ /\ chainRow' = [chainRow EXCEPT !.result = rec, !.asked = 0, !.answered = 0]
       /\ UNCHANGED recordLost
    \/ chain.durable /\ chainRow' = chainRow /\ recordLost' = TRUE

Note(status) == [walk.mem EXCEPT !.run[walk.pos] = status]
Proceed(rec) == walk' = [walk EXCEPT !.pc = "walk", !.pos = @ + 1, !.mem = rec]

-----------------------------------------------------------------------------
(* claim_occurrence: due retries and new occurrences. *)
ChainClaim ==
    /\ walk.pc = "rest"
    /\ chainRow.status \in {"claimed", "retry_pending"} /\ chainRow.due <= chainClock
    /\ chainRow' = [chainRow EXCEPT !.status = "running"]
    /\ walk' = [Resting EXCEPT !.pc = "load", !.at = chainClock]
    /\ UNCHANGED <<chain, chainClock, effects, finished, recordLost>>

AnswerProven ==
    chainRow.answered # 0
      => Recorded(chainRow).run[chainRow.answered] \in {"none", "succeeded"}

LoadResultFirst ==                                                    \* mutant
    /\ walk.pc = "load" /\ Admitted(chain)
    /\ walk' = [walk EXCEPT !.pc = IF chain.generated THEN "prepare" ELSE "walk",
                            !.mem = chainRow.result]
    /\ UNCHANGED <<chain, chainRow, chainClock, effects, finished, recordLost>>
(* execute: the contracts and the recorded answer are proved again, then the  *)
(* walk starts from the recorded runs.                                         *)
ChainLoad ==
    /\ walk.pc = "load"
    /\ Admitted(chain) /\ AnswerProven
    /\ walk' = [walk EXCEPT !.pc = IF chain.generated THEN "prepare" ELSE "walk",
                            !.mem = Recorded(chainRow)]
    /\ UNCHANGED <<chain, chainRow, chainClock, effects, finished, recordLost>>

ChainInvalid ==
    /\ walk.pc = "load"
    /\ ~(Admitted(chain) /\ AnswerProven)
    /\ HandleFailure(FALSE, NoRecord)
    /\ UNCHANGED <<effects, finished>>

(* Generated arguments are prepared in every attempt; a failed preparation    *)
(* is handled without the recorded runs.                                       *)
ChainPrepare ==
    /\ walk.pc = "prepare"
    /\ \/ /\ walk' = [walk EXCEPT !.pc = "walk"]
          /\ UNCHANGED <<chain, chainRow, chainClock, recordLost>>
       \/ \E retryable \in BOOLEAN : HandleFailure(retryable, NoRecord)
    /\ UNCHANGED <<effects, finished>>

-----------------------------------------------------------------------------
(* _execute_chain, one position at a time. *)
NextIs(kinds) == /\ walk.pc = "walk" /\ walk.pos <= Len(Acts)
             /\ Acts[walk.pos].kind \in kinds
             /\ walk.mem.run[walk.pos] \notin {"succeeded", "skipped"}
Selected == Acts[walk.pos].branch \in {"both", walk.mem.branch}
Boundary == Acts[walk.pos].wait

(* What the record accounts for is not done again. *)
ChainSkip ==
    /\ walk.pc = "walk" /\ walk.pos <= Len(Acts)
    /\ walk.mem.run[walk.pos] \in {"succeeded", "skipped"}
    /\ Proceed(walk.mem)
    /\ UNCHANGED <<chain, chainRow, chainClock, effects, finished, recordLost>>

(* The selection is recorded before either branch runs; a condition that      *)
(* cannot be decided fails the occurrence.                                     *)
ChainDecide ==
    /\ NextIs({"condition"})
    /\ \/ \E b \in {"true", "false"} :
            LET rec == [Note("succeeded") EXCEPT !.branch = b]
            IN  Persist(rec) /\ Proceed(rec) /\ UNCHANGED <<chain, chainClock>>
       \/ HandleFailure(FALSE, Labelled(Note("failed")))
    /\ UNCHANGED <<effects, finished>>

ChainReject ==
    /\ NextIs({"tool", "question"}) /\ ~Selected
    /\ Proceed(Note("skipped"))
    /\ UNCHANGED <<chain, chainRow, chainClock, effects, finished, recordLost>>

(* _park_at_wait *)
ChainPause ==
    /\ NextIs({"tool", "question"}) /\ Selected /\ walk.at < Boundary
    /\ Park("retry_pending", Boundary, Labelled(walk.mem), 0)
    /\ UNCHANGED <<effects, finished>>

StartEarly ==                                                         \* mutant
    /\ NextIs({"tool", "question"}) /\ Selected
    /\ LET rec == Note("running")
       IN  Persist(rec) /\ walk' = [walk EXCEPT !.pc = "act", !.mem = rec]
    /\ UNCHANGED <<chain, chainClock, effects, finished>>
(* The record says so before the executor is called.  Arguments that do not   *)
(* resolve against the recorded results end the occurrence.                    *)
ChainStart ==
    /\ NextIs({"tool", "question"}) /\ Selected /\ walk.at >= Boundary
    /\ \/ LET rec == Note(IF Acts[walk.pos].kind = "question" THEN "pending" ELSE "running")
          IN  /\ Persist(rec) /\ walk' = [walk EXCEPT !.pc = "act", !.mem = rec]
              /\ UNCHANGED <<chain, chainClock>>
       \/ HandleFailure(FALSE, Labelled(Note("failed")))
    /\ UNCHANGED <<effects, finished>>

(* The side effect, at the Telegram boundary behind the executor. *)
ChainEffect ==
    /\ walk.pc = "act"
    /\ effects' = [effects EXCEPT ![walk.pos] = @ + 1]
    /\ walk' = [walk EXCEPT !.pc = "acted"]
    /\ UNCHANGED <<chain, chainRow, chainClock, finished, recordLost>>

ChainReturn ==
    /\ walk.pc = "acted" /\ Acts[walk.pos].kind = "tool"
    /\ Persist(Note("succeeded")) /\ Proceed(Note("succeeded"))
    /\ finished' = finished \cup {walk.pos}
    /\ UNCHANGED <<chain, chainClock, effects>>

(* _park_at_question *)
ChainAsked ==
    /\ walk.pc = "acted" /\ Acts[walk.pos].kind = "question"
    /\ Park("waiting_answer", chainRow.due, Labelled(walk.mem), walk.pos)
    /\ UNCHANGED <<effects, finished>>

(* An unsuccessful call, with or without the effect: only a timeout is retried. *)
ChainRefused ==
    /\ walk.pc \in {"act", "acted"}
    /\ \E retryable \in BOOLEAN : HandleFailure(retryable, Labelled(Note("failed")))
    /\ UNCHANGED <<effects, finished>>

(* MAX_EXECUTION_SECONDS cut the walk short anywhere. *)
ChainExpire ==
    /\ walk.pc \in {"walk", "act", "acted"}
    /\ HandleFailure(TRUE, walk.mem)
    /\ UNCHANGED <<effects, finished>>

ChainSucceed ==
    /\ walk.pc = "walk" /\ walk.pos > Len(Acts)
    /\ Conclude([chainRow EXCEPT !.status = "succeeded", !.result = walk.mem,
                                 !.asked = 0, !.answered = 0])
    /\ UNCHANGED <<effects, finished>>

-----------------------------------------------------------------------------
(* The owner, the process and the clock. *)

AnswerWithoutRun ==                                                   \* mutant
    /\ ~chain.durable /\ chainRow.status = "waiting_answer"
    /\ chainRow' = [chainRow EXCEPT !.status = "retry_pending", !.due = chainClock,
                                    !.error = NoRecord, !.answered = chainRow.asked]
    /\ finished' = finished \cup {chainRow.asked}
    /\ UNCHANGED <<chain, walk, chainClock, effects, recordLost>>
(* _consume: the correlated reply is recorded as the question's result. *)
ChainAnswer ==
    /\ ~chain.durable /\ chainRow.status = "waiting_answer"
    /\ chainRow' = [chainRow EXCEPT !.status = "retry_pending", !.due = chainClock,
                                    !.result.run[chainRow.asked] = "succeeded",
                                    !.error = NoRecord, !.answered = chainRow.asked]
    /\ finished' = finished \cup {chainRow.asked}
    /\ UNCHANGED <<chain, walk, chainClock, effects, recordLost>>

ChainCrash ==
    /\ chain.durable /\ walk.pc # "rest"
    /\ walk' = Resting
    /\ UNCHANGED <<chain, chainRow, chainClock, effects, finished, recordLost>>

(* recover: an occurrence found running has uncertain side effects. *)
ChainRecover ==
    /\ chainRow.status = "running" /\ walk.pc = "rest"
    /\ chainRow' = [chainRow EXCEPT !.status = "failed", !.error = NoRecord]
    /\ UNCHANGED <<chain, walk, chainClock, effects, finished, recordLost>>

ChainTick ==
    /\ chainClock < ChainHorizon /\ chainClock' = chainClock + 1
    /\ UNCHANGED <<chain, chainRow, walk, effects, finished, recordLost>>

ChainStep ==
    \/ ChainClaim \/ ChainLoad \/ ChainInvalid \/ ChainPrepare
    \/ ChainSkip \/ ChainDecide \/ ChainReject \/ ChainPause
    \/ ChainStart \/ ChainEffect \/ ChainReturn \/ ChainAsked
    \/ ChainRefused \/ ChainExpire \/ ChainSucceed
ChainNext == ChainStep \/ ChainAnswer \/ ChainCrash \/ ChainRecover \/ ChainTick

(* The wake loop serves what is due and the coroutine runs; time passes.  The  *)
(* owner need not answer and the process need not restart.                     *)
ChainFairness == WF_chainVars(ChainStep) /\ WF_chainVars(ChainTick)
ChainSpec == ChainInit /\ [][ChainNext]_chainVars
ChainFairSpec == ChainSpec /\ ChainFairness

-----------------------------------------------------------------------------
(* What the chain promises. *)

(* A write of the record during a walk that the store loses is made good by     *)
(* the failure channel, unless a later attempt fails in the preparation of its  *)
(* generated arguments: that failure replaces the channel without the record.   *)
RecordKept == ~(chain.generated /\ recordLost)

(* execute: "Durable per-action state: written as each action completes, read *)
(* back on a retry so a succeeded side effect is never repeated"; an answered  *)
(* question is not asked again either.                                         *)
SucceededActionsNeverRepeat ==
    [][RecordKept => \A p \in finished : effects'[p] = effects[p]]_chainVars

OneBranchActs ==
    \A p, q \in {r \in Positions : effects[r] > 0} :
        "both" \in {Acts[p].branch, Acts[q].branch} \/ Acts[p].branch = Acts[q].branch
SuccessIsComplete ==
    chainRow.status = "succeeded" =>
        \A p \in ActionsOf(chain) :
            \/ p \in finished
            \/ Acts[p].kind = "condition" /\ chainRow.result.run[p] = "succeeded"
            \/ Acts[p].branch \notin {"both", chainRow.result.branch}

(* An action takes effect only after its boundary and when every action before *)
(* it has succeeded, was answered, or belongs to the branch not selected; over  *)
(* all attempts of an occurrence only one branch ever takes effect, and one     *)
(* that succeeded did everything on the branch it selected.                     *)
Settled(p) == \/ p \in finished \/ Acts[p].kind = "condition"
              \/ Acts[p].branch \notin {"both", walk.mem.branch}
EffectsFollowTheChain ==
    [][/\ \A p \in Positions : effects'[p] # effects[p] =>
              chainClock >= Acts[p].wait /\ \A q \in 1 .. p - 1 : Settled(q)
       /\ OneBranchActs' /\ SuccessIsComplete']_chainVars

(* A consumed answer is still proven when the occurrence resumes: the refusal   *)
(* answered_question_record_invalid never costs the owner an answer.            *)
AnswersStayProven ==
    chainRow.answered # 0 /\ chainRow.status = "retry_pending"
      => Recorded(chainRow).run[chainRow.answered] = "succeeded"

(* What must come to an end: the occurrence then has ended, waits for the owner, *)
(* or is left running for the next start's recovery.                             *)
ChainBusy == walk.pc # "rest" \/ chainRow.status = "retry_pending"
=============================================================================
