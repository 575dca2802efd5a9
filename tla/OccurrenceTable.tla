--------------------------- MODULE OccurrenceTable ---------------------------
(***************************************************************************)
(* The status table of a durable task occurrence (ai_task_occurrences) and  *)
(* the retry budget, shared by every module that moves an occurrence.       *)
(*                                                                          *)
(* "none" is the absence of a row.  The statuses "cancelled" and "expired"  *)
(* of the source table are left out: no code path of the task subsystem     *)
(* writes them (handle_failure maps a cancelled failure to "failed").       *)
(***************************************************************************)
EXTENDS Integers

CONSTANT MaxAttempts        \* retry.MAX_ATTEMPTS

ASSUME AttemptsAssumption == MaxAttempts \in Nat \ {0}

Statuses == {"none", "claimed", "running", "retry_pending", "waiting_answer",
             "interrupted", "succeeded", "failed"}

Terminal == {"succeeded", "failed"}

(* _ALLOWED_OCCURRENCE_TRANSITIONS: the statuses transition_occurrence may   *)
(* write over a row in status s; a missing row admits none.                  *)
Successors(s) ==
    CASE s = "claimed"        -> {"claimed", "running", "interrupted"}
      [] s = "running"        -> {"running", "succeeded", "failed", "retry_pending",
                                  "interrupted", "waiting_answer"}
      [] s = "retry_pending"  -> {"retry_pending", "running", "failed", "interrupted"}
      [] s = "interrupted"    -> {"interrupted", "retry_pending", "failed"}
      [] s = "waiting_answer" -> {"waiting_answer"}
      [] s \in Terminal       -> {s}
      [] OTHER                -> {}

(* The statuses claim_occurrence moves to "running" with its compare-and-swap. *)
Claimable == {"claimed", "retry_pending", "interrupted"}

RecoverableUnlessRunning == {"claimed", "interrupted"}             \* mutant
(* The statuses list_recoverable_occurrences returns to a starting process. *)
Recoverable == {"claimed", "running", "interrupted"}

CanRetryOnceMore(attempt) == 1 <= attempt /\ attempt <= MaxAttempts \* mutant
(* retry.can_retry: the attempt that just ended leaves another one. *)
CanRetry(attempt) == 1 <= attempt /\ attempt < MaxAttempts
=============================================================================
