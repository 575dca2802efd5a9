------------------------------ MODULE MCServices ------------------------------
(***************************************************************************)
(* What the owner's and other people's messages reach beside the scheduler, *)
(* checked in one run as MCComponents does: the steps of a todo, the tool   *)
(* rounds of a chat, the reply allowance of a person, the settings of the   *)
(* replies, and the task store while its database is away.                  *)
(***************************************************************************)
EXTENDS TodoSteps, ToolRounds, ReplyAllowance, PolicyState, DegradedStore

VARIABLE focus

-----------------------------------------------------------------------------
(* ToolRounds: a request with two approving messages, two requests with one, and *)
(* one request alone with a batch beyond the limit of a turn.                     *)
Says(a, b, c) == [r \in {1, 2, 3} |-> CASE r = 1 -> a [] r = 2 -> b [] OTHER -> c]
MCTalks == {[says |-> Says("ask", "yes", "yes"), batches |-> {<<"auto", "gated">>}],
            [says |-> Says("ask", "ask", "yes"), batches |-> {<<"gated">>}],
            [says |-> Says("ask", "nothing", "nothing"),
             batches |-> {<<"auto">>, <<"gated">>, <<"auto", "auto", "gated">>}]}

(* DegradedStore: one task with outages, a late write, a restart and an edit;    *)
(* two tasks with an outage or a late write.                                     *)
Budget(of, outages, slow, restarts, edits) ==
    [asks |-> of, outages |-> outages, late |-> slow, restarts |-> restarts, edits |-> edits]
MCBudgets == {Budget({1}, 1, 1, 1, 1), Budget({1}, 2, 1, 1, 0),
              Budget({1, 2}, 1, 0, 0, 0), Budget({1, 2}, 0, 1, 0, 0)}

(* PolicyState: one change with a failed call, a refresh and a restart; two with   *)
(* a refresh or a failed call; one between two refreshes.                         *)
PolicyBudget(of, failures, reloads, rebuilds) ==
    [changes |-> of, failures |-> failures, reloads |-> reloads, rebuilds |-> rebuilds]
MCPolicyBudgets == {PolicyBudget({1}, 1, 1, 1), PolicyBudget({1, 2}, 0, 1, 0),
                    PolicyBudget({1, 2}, 1, 0, 0), PolicyBudget({1}, 0, 2, 0)}

-----------------------------------------------------------------------------
Services == {"todo", "tools", "allowance", "policy", "store"}

Init ==
    /\ focus \in Services
    /\ TodoInit
    /\ ToolInit /\ (focus # "tools" => talk = CHOOSE t \in Talks : TRUE)
    /\ AllowanceInit /\ (focus # "allowance" => ~row.exists)
    /\ PolicyInit /\ (focus # "policy" => ~config.legacy /\ budget.rebuilds = 1)
    /\ DegradedInit /\ (focus # "store" => net.restarts = 0 /\ net.outages = 1)

Next ==
    \/ /\ focus = "todo" /\ TodoNext
       /\ UNCHANGED <<focus, toolVars, allowanceVars, policyVars, degradedVars>>
    \/ /\ focus = "tools" /\ ToolNext
       /\ UNCHANGED <<focus, todoVars, allowanceVars, policyVars, degradedVars>>
    \/ /\ focus = "allowance" /\ AllowanceNext
       /\ UNCHANGED <<focus, todoVars, toolVars, policyVars, degradedVars>>
    \/ /\ focus = "policy" /\ PolicyNext
       /\ UNCHANGED <<focus, todoVars, toolVars, allowanceVars, degradedVars>>
    \/ /\ focus = "store" /\ DegradedNext
       /\ UNCHANGED <<focus, todoVars, toolVars, allowanceVars, policyVars>>

vars == <<focus, todoVars, toolVars, allowanceVars, policyVars, degradedVars>>

(* Some progress, asked of the service in focus; asyncio.Lock wakes the waiting   *)
(* adds of a todo in order, also when restarts intervene.                         *)
Fairness ==
    /\ \A c \in Clients : SF_todoVars(focus = "todo" /\ Adding(c))
    /\ WF_toolVars(focus = "tools" /\ \E r \in AIRequests : AIStep(r))
    /\ WF_allowanceVars(focus = "allowance" /\ \E t \in ReplyTasks : ReplyStep(t))
    /\ WF_policyVars(focus = "policy" /\ PolicyWork)
    /\ WF_degradedVars(focus = "store" /\ (Work \/ StoreReturns \/ \E a \in Asks : AskFallback(a)))

Spec == Init /\ [][Next]_vars
FairSpec == Spec /\ Fairness

-----------------------------------------------------------------------------
(* The service in focus keeps its state within its types. *)
ServicesTypeOK ==
    CASE focus = "todo" -> TodoTypeOK
      [] focus = "tools" -> ToolTypeOK
      [] focus = "allowance" -> AllowanceTypeOK
      [] focus = "policy" -> PolicyTypeOK
      [] focus = "store" -> DegradedTypeOK

(* Whatever was asked of a service comes to its end: an add waiting for the lock  *)
(* of the steps returns, every AI request leaves its slot, every private reply    *)
(* passes the lock of its sender, every change of the policy is answered, every   *)
(* stored boundary is consumed whatever the outages.                              *)
SomethingIsOpen ==
    CASE focus = "todo" -> \E c \in Clients : AddWaits(c)
      [] focus = "tools" -> \E r \in AIRequests : RequestIsOpen(r)
      [] focus = "allowance" -> \E t \in ReplyTasks : ReplyRuns(t)
      [] focus = "policy" -> PolicyIsBusy
      [] focus = "store" -> StoreIsBusy
WhatIsAskedEnds == SomethingIsOpen ~> ~SomethingIsOpen
===============================================================================
