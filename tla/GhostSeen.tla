------------------------------- MODULE GhostSeen -------------------------------
(***************************************************************************)
(* Reading private chats unseen and answering them from a panel            *)
(* (services/ghost_seen_v2.py, bot/handlers/ghost_seen_v2.py): the list of *)
(* the chats the owner allows, kept in one row of the database and one set *)
(* in memory; the messages he selects; and the replies to them, typed as   *)
(* the next message of the panel's chat or written by the model.           *)
(*                                                                         *)
(* Clicks of a panel take turns, clicks of two panels, typed messages and  *)
(* permission toggles do not.  A chat has one panel: opening another       *)
(* destroys it, but not the handler that still runs for it.  Every click   *)
(* cancels the input the owner was asked for.  Old buttons can be clicked: *)
(* only the handlers' own checks guard an action.                          *)
(***************************************************************************)
EXTENDS Integers, FiniteSets

CONSTANTS
    NoChat,        \* neither of the next two
    Sources,       \* private chats
    Letters,       \* the messages of a private chat
    PanelChats,    \* chats in which a panel may be open
    Toggles,       \* clicks on a permission, each made at most once
    GhostBudgets   \* bounds: the toggles made in a behaviour, the chats they are for,
                   \* clicks on a panel, database calls that fail, restarts

Budgets == [toggles : SUBSET Toggles, chats : SUBSET Sources, clicks : Nat, failures : Nat,
            restarts : Nat]

ASSUME GhostAssumption ==
    /\ NoChat \notin Sources \union PanelChats
    /\ IsFiniteSet(Letters)
    /\ "on" \notin Toggles /\ "off" \notin Toggles
    /\ GhostBudgets \subseteq Budgets

NoTarget == [chat |-> NoChat, letter |-> 0]
Targets == [chat : Sources, letter : Letters]

VARIABLES
    allowRow,      \* the row: the chats it allows
    grants,      \* _allowed_chats, and how far their only load is
    toggles,     \* the toggles
    panels,      \* what a panel's navigation says, and the AI run its turn waits for
    selections,  \* _selections
    armed,       \* _reply_states, by the chat of the panel
    asking,      \* the panel chat whose next message answers a prompt
    typed,       \* a typed reply under way, by the chat of the panel
    drafts,      \* _ai_states: the message an AI reply is offered for
    aiRuns,      \* the AI reply that holds the lock of a panel chat
    strays,      \* lists whose write got no answer and may still land
    ghostBudget,
    told,        \* history: the permission last confirmed to the owner, or the toggle he awaits
    losses        \* history: how a confirmed permission can get lost

panelVars == <<panels, selections, armed, asking, typed, drafts, aiRuns>>
listVars == <<allowRow, grants, toggles, strays, told, losses>>
ghostVars == <<allowRow, grants, toggles, panels, selections, armed, asking, typed, drafts,
               aiRuns, strays, ghostBudget, told, losses>>

IdlePanel == [top |-> "closed", chat |-> NoChat, opening |-> NoChat, waits |-> FALSE]
IdleToggle == [pc |-> "new", chat |-> NoChat, becomes |-> "off", list |-> {}]
IdleReply == [pc |-> "idle", to |-> NoTarget]
Verdict(list) == [c \in Sources |-> IF c \in list THEN "on" ELSE "off"]

Unloaded == [list |-> {}, load |-> "none"]
FreshPanels ==
    /\ panels' = [p \in PanelChats |-> IdlePanel]
    /\ selections' = [c \in Sources |-> {}]
    /\ armed' = [p \in PanelChats |-> NoTarget]
    /\ asking' = NoChat
    /\ typed' = [p \in PanelChats |-> IdleReply]
    /\ drafts' = [p \in PanelChats |-> NoTarget]
    /\ aiRuns' = [p \in PanelChats |-> IdleReply]

GhostInit ==
    /\ ghostBudget \in GhostBudgets
    /\ allowRow \in SUBSET ghostBudget.chats
    /\ told = Verdict(allowRow)
    /\ grants = Unloaded
    /\ toggles = [t \in Toggles |-> IdleToggle]
    /\ panels = [p \in PanelChats |-> IdlePanel]
    /\ selections = [c \in Sources |-> {}]
    /\ armed = [p \in PanelChats |-> NoTarget]
    /\ asking = NoChat
    /\ typed = [p \in PanelChats |-> IdleReply]
    /\ drafts = [p \in PanelChats |-> NoTarget]
    /\ aiRuns = [p \in PanelChats |-> IdleReply]
    /\ strays = {} /\ losses = {}

GhostFails == /\ ghostBudget.failures > 0
              /\ ghostBudget' = [ghostBudget EXCEPT !.failures = @ - 1]

-----------------------------------------------------------------------------
(* The list of allowed chats. *)

\* The only load of the process is started once, by whoever asks first; a failed
\* one leaves what is in memory, and is not repeated.
LoadStarted == [grants EXCEPT !.load = IF @ = "none" THEN "reading" ELSE @]
LoadIsOver == grants.load = "over"

GhostPreload ==
    /\ grants.load = "none"
    /\ grants' = LoadStarted
    /\ UNCHANGED <<allowRow, toggles, panelVars, strays, ghostBudget, told, losses>>

GhostLoad ==
    /\ grants.load = "reading"
    /\ \/ /\ grants' = [list |-> grants.list \union allowRow, load |-> "over"]
          /\ UNCHANGED <<ghostBudget, losses>>
       \/ /\ GhostFails
          /\ grants' = [grants EXCEPT !.load = "over"]
          /\ losses' = losses \union {"list unread"}
    /\ UNCHANGED <<allowRow, toggles, panelVars, strays, told>>

DisallowKeepsSelection(c) == UNCHANGED <<selections, armed>>           \* mutant
\* disallow_chat: the pending reply is looked up by the chat of the panel.
Withdraw(c) ==
    /\ selections' = [selections EXCEPT ![c] = {}]
    /\ armed' = [p \in PanelChats |-> IF p = c THEN NoTarget ELSE armed[p]]

\* The permission is turned to the opposite of what memory says.
Turn(t, c) ==
    /\ toggles' = [toggles EXCEPT ![t] = [pc |-> "turned", chat |-> c, list |-> {},
                                          becomes |-> IF c \in grants.list THEN "off" ELSE "on"]]
    /\ told' = [told EXCEPT ![c] = t]
    /\ IF c \in grants.list
       THEN grants' = [grants EXCEPT !.list = @ \ {c}] /\ Withdraw(c)
       ELSE grants' = [grants EXCEPT !.list = @ \union {c}] /\ UNCHANGED <<selections, armed>>

BeginUnloaded(t, c) ==                                                 \* mutant
    /\ t \in ghostBudget.toggles /\ toggles[t].pc = "new"
    /\ asking' = NoChat
    /\ Turn(t, c)
    /\ UNCHANGED <<allowRow, panels, typed, drafts, aiRuns, strays, ghostBudget, losses>>
\* _toggle_permission_action: the click waits for the load under way.
ToggleBegin(t, c) ==
    /\ t \in ghostBudget.toggles /\ toggles[t].pc = "new"
    /\ asking' = NoChat
    /\ IF LoadIsOver
       THEN Turn(t, c)
       ELSE /\ toggles' = [toggles EXCEPT ![t] = [pc |-> "loading", chat |-> c, becomes |-> "off", list |-> {}]]
            /\ grants' = LoadStarted
            /\ UNCHANGED <<selections, armed, told>>
    /\ UNCHANGED <<allowRow, panels, typed, drafts, aiRuns, strays, ghostBudget, losses>>

ToggleLoaded(t) ==
    /\ toggles[t].pc = "loading" /\ LoadIsOver
    /\ Turn(t, toggles[t].chat)
    /\ UNCHANGED <<allowRow, panels, asking, typed, drafts, aiRuns, strays, ghostBudget, losses>>

\* _write_sync, in a thread: the lock, the list as it is then, the write.
ToggleSnapshot(t) ==
    /\ toggles[t].pc = "turned"
    /\ \A o \in Toggles : toggles[o].pc # "writing"
    /\ toggles' = [toggles EXCEPT ![t].pc = "writing", ![t].list = grants.list]
    /\ UNCHANGED <<allowRow, grants, panelVars, strays, ghostBudget, told, losses>>

ToggleAnswer(t, answer) == toggles' = [toggles EXCEPT ![t].pc = answer, ![t].list = {}]
ToggleWrite(t) ==
    /\ toggles[t].pc = "writing"
    /\ \/ /\ allowRow' = toggles[t].list /\ ToggleAnswer(t, "stored")
          /\ UNCHANGED <<strays, ghostBudget>>
       \/ /\ GhostFails /\ ToggleAnswer(t, "refused")
          /\ UNCHANGED <<allowRow, strays>>
       \/ /\ GhostFails /\ ToggleAnswer(t, "refused")
          /\ strays' = strays \union {toggles[t].list}
          /\ UNCHANGED allowRow
    /\ UNCHANGED <<grants, panelVars, told, losses>>

\* The owner sees the list again, and with it what the click became.
ToggleShown(t) ==
    /\ toggles[t].pc = "stored"
    /\ toggles' = [toggles EXCEPT ![t] = [IdleToggle EXCEPT !.pc = "over"]]
    /\ told' = [told EXCEPT ![toggles[t].chat] = IF @ = t THEN toggles[t].becomes ELSE @]
    /\ UNCHANGED <<allowRow, grants, panelVars, strays, ghostBudget, losses>>

StrayLands(list) ==
    /\ allowRow' = list /\ strays' = strays \ {list}
    /\ losses' = losses \union {"late write"}
    /\ UNCHANGED <<grants, toggles, panelVars, ghostBudget, told>>

-----------------------------------------------------------------------------
(* Looking at a chat, and selecting. *)

\* A click: the panel's turn is free, and an input asked for is cancelled.
TurnIsFree(p) == ~panels[p].waits /\ panels[p].opening = NoChat
Spend == /\ ghostBudget.clicks > 0
         /\ ghostBudget' = [ghostBudget EXCEPT !.clicks = @ - 1]
Clicks(p) == TurnIsFree(p) /\ asking' = NoChat /\ Spend
Allowed(c) == c \in grants.list
Viewing(p, kind, c) == panels[p].top = kind /\ panels[p].chat = c
Shows(p, kind, c) == panels' = [panels EXCEPT ![p] = [IdlePanel EXCEPT !.top = kind, !.chat = c]]
\* reply_target
Target(c) == IF Cardinality(selections[c]) = 1
             THEN [chat |-> c, letter |-> CHOOSE m \in selections[c] : TRUE] ELSE NoTarget

\* A new panel in the chat; an AI reply of the old one goes on without it.
OpenPanel(p) ==
    /\ panels[p].top # "list" /\ panels[p].opening = NoChat
    /\ Shows(p, "list", NoChat)
    /\ asking' = NoChat /\ Spend
    /\ UNCHANGED <<listVars, selections, armed, typed, drafts, aiRuns>>

\* _open_chat_action: the chat is looked up before the selection is cleared.
OpenChat(p, c) ==
    /\ panels[p].top # "closed" /\ Clicks(p) /\ Allowed(c)
    /\ panels' = [panels EXCEPT ![p].opening = c]
    /\ UNCHANGED <<listVars, selections, armed, typed, drafts, aiRuns>>

ChatOpens(p) ==
    LET c == panels[p].opening IN
    /\ c # NoChat
    /\ selections' = [selections EXCEPT ![c] = {}]
    /\ armed' = [armed EXCEPT ![p] = NoTarget]
    /\ Shows(p, "viewer", c)
    /\ UNCHANGED <<listVars, asking, typed, drafts, aiRuns, ghostBudget>>

Select(p, c, m) ==
    /\ Clicks(p) /\ Viewing(p, "viewer", c)
    /\ selections' = [selections EXCEPT ![c] = IF m \in @ THEN @ \ {m} ELSE @ \union {m}]
    /\ UNCHANGED <<listVars, panels, armed, typed, drafts, aiRuns>>

ClearSelection(p, c) ==
    /\ Clicks(p) /\ panels[p].top # "closed" /\ selections[c] # {}
    /\ selections' = [selections EXCEPT ![c] = {}]
    /\ UNCHANGED <<listVars, panels, armed, typed, drafts, aiRuns>>

ShowActions(p, c) ==
    /\ Clicks(p) /\ Viewing(p, "viewer", c) /\ Allowed(c) /\ selections[c] # {}
    /\ Shows(p, "actions", c)
    /\ UNCHANGED <<listVars, selections, armed, typed, drafts, aiRuns>>

\* The panels' own Back pops the view; the menu's Back only disarms the reply.
LeaveActions(p, c) ==
    /\ Clicks(p) /\ Viewing(p, "actions", c)
    /\ \/ Shows(p, "viewer", c) /\ UNCHANGED armed
       \/ armed[p] # NoTarget /\ armed' = [armed EXCEPT ![p] = NoTarget] /\ UNCHANGED panels
    /\ UNCHANGED <<listVars, selections, typed, drafts, aiRuns>>

-----------------------------------------------------------------------------
(* A typed reply. *)

\* _begin_input_for
AskText(p, c) ==
    /\ TurnIsFree(p) /\ Target(c) # NoTarget /\ Viewing(p, "actions", c) /\ Allowed(c)
    /\ armed' = [armed EXCEPT ![p] = Target(c)]
    /\ asking' = p /\ Spend
    /\ UNCHANGED <<listVars, panels, selections, typed, drafts, aiRuns>>

\* The owner's next message in that chat; the message answered must be selected still.
Type(p) ==
    /\ asking = p /\ typed[p].pc = "idle"
    /\ asking' = NoChat
    /\ armed' = [armed EXCEPT ![p] = NoTarget]
    /\ IF armed[p] # NoTarget /\ Target(armed[p].chat) = armed[p]
       THEN typed' = [typed EXCEPT ![p] = [pc |-> "sending", to |-> armed[p]]]
       ELSE UNCHANGED typed
    /\ UNCHANGED <<listVars, panels, selections, drafts, aiRuns, ghostBudget>>

\* The send returns and the selection is cleared, or it fails or takes too long.
TypedEnds(p) ==
    /\ typed[p].pc = "sending"
    /\ typed' = [typed EXCEPT ![p] = IdleReply]
    /\ \/ selections' = [selections EXCEPT ![typed[p].to.chat] = {}]
       \/ UNCHANGED selections
    /\ UNCHANGED <<listVars, panels, armed, asking, drafts, aiRuns, ghostBudget>>

-----------------------------------------------------------------------------
(* A reply of the model. *)

\* _ai_generate_action: how much of the conversation; then whether to disclose.
OfferAI(p, c) ==
    /\ Clicks(p) /\ Target(c) # NoTarget /\ Viewing(p, "actions", c) /\ Allowed(c)
    /\ drafts' = [drafts EXCEPT ![p] = Target(c)]
    /\ UNCHANGED <<listVars, panels, selections, armed, typed, aiRuns>>

\* _run_ai_reply up to the engine; the lock of the chat is free or the click ends.
StillWanted(to) == Allowed(to.chat) /\ Target(to.chat) = to
BeginAI(p) ==
    /\ Clicks(p) /\ panels[p].top # "closed"
    /\ drafts[p] # NoTarget /\ StillWanted(drafts[p])
    /\ aiRuns[p].pc = "idle"
    /\ aiRuns' = [aiRuns EXCEPT ![p] = [pc |-> "asking", to |-> drafts[p]]]
    /\ panels' = [panels EXCEPT ![p].waits = TRUE]
    /\ UNCHANGED <<listVars, selections, armed, typed, drafts>>

\* Whatever its outcome, a run clears the offer and the selection.
AIEnds(p) ==
    /\ aiRuns' = [aiRuns EXCEPT ![p] = IdleReply]
    /\ drafts' = [drafts EXCEPT ![p] = NoTarget]
    /\ selections' = [selections EXCEPT ![aiRuns[p].to.chat] = {}]
    /\ panels' = [panels EXCEPT ![p].waits = FALSE]

\* The engine answers, fails or takes too long; a usable text is sent if it is
\* still wanted.
AIAnswered(p) ==
    /\ aiRuns[p].pc = "asking"
    /\ \/ /\ StillWanted(aiRuns[p].to)
          /\ aiRuns' = [aiRuns EXCEPT ![p].pc = "sending"]
          /\ UNCHANGED <<panels, selections, drafts>>
       \/ AIEnds(p)
    /\ UNCHANGED <<listVars, armed, asking, typed, ghostBudget>>

AISent(p) ==
    /\ aiRuns[p].pc = "sending"
    /\ AIEnds(p)
    /\ UNCHANGED <<listVars, armed, asking, typed, ghostBudget>>

-----------------------------------------------------------------------------
\* A new process: nothing of the memory is left; a write may still land.
GhostRestart ==
    /\ ghostBudget.restarts > 0
    /\ ghostBudget' = [ghostBudget EXCEPT !.restarts = @ - 1]
    /\ grants' = Unloaded
    /\ strays' \in {strays, strays \union {toggles[t].list : t \in {o \in Toggles : toggles[o].pc = "writing"}}}
    /\ toggles' = [t \in Toggles |-> IF toggles[t].pc \in {"new", "over"} THEN toggles[t]
                                    ELSE [IdleToggle EXCEPT !.pc = "refused"]]
    /\ FreshPanels
    /\ UNCHANGED <<allowRow, told, losses>>

GhostWork ==
    \/ GhostLoad
    \/ \E t \in Toggles : ToggleLoaded(t) \/ ToggleSnapshot(t) \/ ToggleWrite(t) \/ ToggleShown(t)
    \/ \E p \in PanelChats : TypedEnds(p) \/ AIAnswered(p) \/ AISent(p)

OwnerActs ==
    \/ \E t \in Toggles, c \in ghostBudget.chats : ToggleBegin(t, c)
    \/ \E p \in PanelChats : OpenPanel(p) \/ ChatOpens(p) \/ Type(p) \/ BeginAI(p)
    \/ \E p \in PanelChats, c \in Sources :
          \/ OpenChat(p, c) \/ ClearSelection(p, c) \/ ShowActions(p, c) \/ LeaveActions(p, c)
          \/ AskText(p, c) \/ OfferAI(p, c) \/ \E m \in Letters : Select(p, c, m)

GhostNext ==
    \/ GhostWork \/ OwnerActs
    \/ GhostPreload \/ GhostRestart
    \/ \E list \in strays : StrayLands(list)

GhostSpec == GhostInit /\ [][GhostNext]_ghostVars

-----------------------------------------------------------------------------

Replies == [pc : {"idle", "asking", "sending"}, to : Targets \union {NoTarget}]
Copies == [list : SUBSET Sources, load : {"none", "reading", "over"}]
ToggleStates == [pc : {"new", "loading", "turned", "writing", "stored", "over", "refused"},
                 chat : Sources \union {NoChat}, becomes : {"on", "off"}, list : SUBSET Sources]
GhostTypeOK ==
    /\ allowRow \in SUBSET Sources
    /\ grants \in Copies
    /\ toggles \in [Toggles -> ToggleStates]
    /\ selections \in [Sources -> SUBSET Letters]
    /\ armed \in [PanelChats -> Targets \union {NoTarget}]
    /\ asking \in PanelChats \union {NoChat}
    /\ typed \in [PanelChats -> Replies] /\ aiRuns \in [PanelChats -> Replies]
    /\ drafts \in [PanelChats -> Targets \union {NoTarget}]
    /\ strays \subseteq SUBSET Sources
    /\ told \in [Sources -> {"on", "off"} \union Toggles]
    /\ ghostBudget \in Budgets

\* What the owner was last told of a permission is what the row says, and what is
\* enforced once the row has been read: across concurrent toggles, whose writes
\* take the whole list, failed writes, and restarts.  It is lost when a write
\* without an answer lands late, and when the row could not be read: the next
\* toggle then stores a list without what the row had.
ConfirmedPermissionsSurvive ==
    losses = {} =>
        \A c \in Sources : told[c] \notin Toggles =>
            /\ (c \in allowRow) <=> told[c] = "on"
            /\ LoadIsOver => ((c \in grants.list) <=> told[c] = "on")

\* A reply is sent to a chat only while it is allowed, and only to the message
\* that is selected there alone: although nothing asks for the permission when a
\* text is typed, and permissions, selections and other panels change while the
\* engine writes.
Answers(to) == Allowed(to.chat) /\ selections[to.chat] = {to.letter}
TypedGoesOut(p) == typed[p].pc = "sending"
AIGoesOut(p) == aiRuns[p].pc = "sending"
RepliesFollowTheSelection ==
    [][\A p \in PanelChats :
         /\ ~TypedGoesOut(p) /\ TypedGoesOut(p)' => Answers(typed'[p].to)
         /\ ~AIGoesOut(p) /\ AIGoesOut(p)' => Answers(aiRuns'[p].to)]_ghostVars

\* What must come to an end.
GhostIsBusy ==
    \/ \E t \in Toggles : toggles[t].pc \in {"loading", "turned", "writing", "stored"}
    \/ \E p \in PanelChats : "sending" = typed[p].pc \/ aiRuns[p].pc # "idle"
=============================================================================
