------------------------ MODULE OccurrenceLifecycle ------------------------
(***************************************************************************)
(* What the task subsystem promises about ONE scheduled occurrence, with    *)
(* the scheduler, the workers, the crashes and the owner hidden:            *)
(*                                                                          *)
(*   - a terminal outcome is final;                                         *)
(*   - an attempt is charged only when a started run fails retryably or a   *)
(*     restart finds the row claimed but not started, never above the       *)
(*     budget, and a wait or a question is not charged;                     *)
(*   - the side effect happens only while the row says "running", at most   *)
(*     once per charged attempt;                                            *)
(*   - success is recorded only after the side effect of that very run.     *)
(*                                                                          *)
(* TaskScheduling is shown to implement this specification for every        *)
(* clock-driven occurrence (TaskScheduling!Implements).                     *)
(***************************************************************************)
EXTENDS OccurrenceTable

VARIABLES status,    \* the row's status, "none" while there is no row
          attempt,   \* the row's attempt, 0 while there is no row
          acts,      \* how often the occurrence's side effect has happened
          acted      \* whether the current run has already had its side effect

vars == <<status, attempt, acts, acted>>

Init == status = "none" /\ attempt = 0 /\ acts = 0 /\ acted = FALSE

Become(s) == status' = s /\ acted' = FALSE /\ UNCHANGED acts

(* The boundary becomes an occurrence row, once. *)
Create == status = "none" /\ Become("claimed") /\ attempt' = 1

(* An unstarted row of an edited definition is dropped. *)
Discard == status = "claimed" /\ Become("none") /\ attempt' = 0

(* One executor wins the claim. *)
Start == status \in {"claimed", "retry_pending"} /\ Become("running") /\ UNCHANGED attempt

(* The side effect, at most once per run and never beyond the attempts. *)
Act ==
    /\ status = "running"
    /\ ~acted /\ acted' = TRUE
    /\ acts < attempt /\ acts' = acts + 1
    /\ UNCHANGED <<status, attempt>>

Succeed == status = "running" /\ acted /\ Become("succeeded") /\ UNCHANGED attempt

(* A permanent failure, an exhausted budget, or a run whose process died. *)
Fail == status \in {"running", "interrupted"} /\ Become("failed") /\ UNCHANGED attempt

(* Another attempt is armed and charged. *)
Retry ==
    /\ status \in {"running", "interrupted"}
    /\ attempt < MaxAttempts
    /\ Become("retry_pending")
    /\ attempt' = attempt + 1

(* A wait or a question parks the run before its side effect, uncharged. *)
Park == status = "running" /\ ~acted /\ \E s \in {"retry_pending", "waiting_answer"} : Become(s)
        /\ UNCHANGED attempt

Answer == status = "waiting_answer" /\ Become("retry_pending") /\ UNCHANGED attempt

(* A restart finds the row claimed but never started. *)
Interrupt == status = "claimed" /\ Become("interrupted") /\ UNCHANGED attempt

(* The process dies after the side effect: who ran it is forgotten. *)
Forget == acted /\ acted' = FALSE /\ UNCHANGED <<status, attempt, acts>>

Next == \/ Create \/ Discard \/ Start \/ Act \/ Succeed \/ Fail \/ Retry
        \/ Park \/ Answer \/ Interrupt \/ Forget

Spec == Init /\ [][Next]_vars
=============================================================================
