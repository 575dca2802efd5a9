------------------------- MODULE CredentialRotation -------------------------
(***************************************************************************)
(* The attempt plan of one speech request (services/stt_fallback.py,       *)
(* AttemptPlan) over the credential pools (stt_credential_pool.py): the    *)
(* candidates in the owner's order, under each the credentials of its      *)
(* provider, one await per attempt.  A recording is transcribed chunk by   *)
(* chunk with one plan.  tts_fallback.py is the same loop.                 *)
(*                                                                         *)
(* One request is followed; the others are seen through what they share    *)
(* with it, the health of candidates and credentials, which they and the   *)
(* end of cooldowns change whenever this request awaits an engine          *)
(* (RotElsewhere).                                                         *)
(*                                                                         *)
(* What is still to be tried, of candidates and of credentials, is a set:   *)
(* both lists of the code hold nothing twice, and their order is that of    *)
(* the configuration but for the pin, which comes first.                    *)
(***************************************************************************)
EXTENDS Integers, Sequences, FiniteSets

CONSTANTS
    RotOrder,         \* the selected candidate, then the canonical fallbacks
    RotProvider,      \* candidate -> provider
    RotPool,          \* provider -> sequence of configured credentials
    Buildable,        \* the (candidate, credential) pairs an engine exists for
    NoCredential,     \* the single entry of a provider without a pool
    MaxProviders,     \* MAX_PROVIDER_ATTEMPTS
    MaxAttempts,      \* MAX_TOTAL_ATTEMPTS
    MaxCredentials,   \* MAX_CREDENTIAL_ATTEMPTS_PER_PROVIDER
    MaxChunks         \* bound: chunks of one recording

RotCandidates == {RotOrder[i] : i \in 1 .. Len(RotOrder)}
RotKeys == UNION {{RotPool[p][i] : i \in 1 .. Len(RotPool[p])} : p \in DOMAIN RotPool}
RotPairs == RotCandidates \X (RotKeys \union {NoCredential})
NoPin == << >>

ASSUME RotAssumption ==
    /\ RotOrder \in Seq(RotCandidates) /\ RotOrder # << >>
    /\ RotProvider \in [RotCandidates -> DOMAIN RotPool]
    /\ \A p \in DOMAIN RotPool : RotPool[p] \in Seq(RotKeys)
    /\ NoCredential \notin RotKeys
    /\ MaxChunks \in Nat \ {0}

VARIABLES
    plan,               \* the request's attempt plan and where it stands
    restingCandidates,  \* candidates serving a cooldown
    restingKeys         \* credentials serving a cooldown

rotVars == <<plan, restingCandidates, restingKeys>>

NewPlan == [phase |-> "idle", chunk |-> 1, todo |-> {}, keys |-> {}, at |-> RotOrder[1],
            tried |-> {}, spent |-> FALSE, pinned |-> NoPin,
            failedCandidates |-> {}, failedKeys |-> {}]

\* The plan is dropped with its request.
EndedPlan(phase) == [NewPlan EXCEPT !.phase = phase]

RotInit ==
    /\ plan = NewPlan
    /\ restingCandidates = {}
    /\ restingKeys = {}

-----------------------------------------------------------------------------

\* The first entry of a configured order that is still to be tried.
FirstOf(order, S) ==
    LET places == {i \in DOMAIN order : order[i] \in S}
    IN  order[CHOOSE i \in places : \A j \in places : i <= j]

PinsCandidate(q, c) == q.pinned # NoPin /\ q.pinned[1] = c
PinsKey(q, c, k) == PinsCandidate(q, c) /\ q.pinned[2] = k

\* The candidate and the credential whose turn it is.
NextCandidate(q) ==
    IF \E c \in q.todo : PinsCandidate(q, c) THEN q.pinned[1] ELSE FirstOf(RotOrder, q.todo)
KeyInTurn(q) ==
    IF \E k \in q.keys : PinsKey(q, q.at, k) THEN q.pinned[2]
    ELSE IF NoCredential \in q.keys THEN NoCredential
    ELSE FirstOf(RotPool[RotProvider[q.at]], q.keys)

\* rotation_for: the credentials that are not cooling, or all when all are.
Configured(p) == {RotPool[p][i] : i \in DOMAIN RotPool[p]}
RotationFor(p) ==
    LET fresh == Configured(p) \ restingKeys
    IN  IF fresh = {} THEN Configured(p) ELSE fresh

\* _credential_entries: the pinned credential and those that have not failed.
Entries(c) ==
    LET records == RotationFor(RotProvider[c])
    IN  IF records = {} THEN {NoCredential}
        ELSE {k \in records : PinsKey(plan, c, k) \/ <<c, k>> \notin plan.failedKeys}

\* _order: the pinned candidate and those that did not fail provider-wide.
PlanOrder == {c \in RotCandidates : PinsCandidate(plan, c) \/ c \notin plan.failedCandidates}

ProvidersRun == Cardinality({pair[1] : pair \in plan.tried})
CredentialsRun == Cardinality({pair \in plan.tried : pair[1] = plan.at})
Starved == plan.tried # {} /\ plan.spent
AttemptsLeft == Cardinality(plan.tried) < MaxAttempts

-----------------------------------------------------------------------------

RotOpen ==
    /\ plan.phase \in {"idle", "done", "failed"}
    /\ plan' = [NewPlan EXCEPT !.phase = "unit"]
    /\ UNCHANGED <<restingCandidates, restingKeys>>

\* run: a new transcription unit orders the candidates and starts to choose.
RotUnit ==
    /\ plan.phase = "unit"
    /\ plan' = [plan EXCEPT !.phase = "choosing", !.todo = PlanOrder]
    /\ UNCHANGED <<restingCandidates, restingKeys>>

OutOfTurns == plan.todo = {} \/ ProvidersRun >= MaxProviders \/ ~AttemptsLeft

Skippable == plan.todo # {} /\ ProvidersRun > 0 /\ NextCandidate(plan) \in restingCandidates

\* The gates of the next candidate: stop, skip a cooling substitute, or enter.
RotCandidate ==
    LET c == NextCandidate(plan)
    IN  /\ plan.phase = "choosing" /\ plan.keys = {}
        /\ \/ /\ OutOfTurns \/ (~Skippable /\ Starved)
              /\ plan' = EndedPlan("failed")
           \/ /\ ~OutOfTurns /\ Skippable
              /\ plan' = [plan EXCEPT !.todo = @ \ {c}]
           \/ /\ ~OutOfTurns /\ ~Skippable /\ ~Starved
              /\ plan' = [plan EXCEPT !.at = c, !.todo = @ \ {c}, !.keys = Entries(c)]
        /\ UNCHANGED <<restingCandidates, restingKeys>>

PairInTurn == <<plan.at, KeyInTurn(plan)>>

\* The rotation to the next credential drops the one that was tried.
NextKeys == plan.keys \ {KeyInTurn(plan)}

\* The gates of the next credential: leave the pool, skip a pair without an
\* engine, or await the attempt.
RotCredential ==
    LET pair == PairInTurn
        stop == ~AttemptsLeft \/ Starved
    IN  /\ plan.phase = "choosing" /\ plan.keys # {}
        /\ \/ /\ stop
              /\ plan' = [plan EXCEPT !.keys = {}]
           \/ /\ ~stop /\ pair \notin Buildable
              /\ plan' = [plan EXCEPT !.keys = NextKeys]
           \/ /\ ~stop /\ pair \in Buildable
              /\ plan' = [plan EXCEPT !.phase = "calling", !.tried = @ \union {pair}]
        /\ UNCHANGED <<restingCandidates, restingKeys>>

PinSelected == <<RotOrder[1], KeyInTurn(plan)>>     \* mutant
Pin == PairInTurn

\* Success: both healths restored, the pair pinned, and the recording goes on,
\* is complete, or meets its aggregate deadline.
RotSuccess ==
    /\ plan.phase = "calling"
    /\ \/ /\ plan.chunk < MaxChunks
          /\ plan' = [plan EXCEPT !.phase = "unit", !.pinned = Pin, !.chunk = @ + 1,
                                  !.tried = {}, !.spent = FALSE, !.keys = {}, !.todo = {}]
       \/ plan' = EndedPlan("done")
       \/ /\ plan.chunk < MaxChunks
          /\ plan' = EndedPlan("failed")
    /\ restingCandidates' = restingCandidates \ {plan.at}
    /\ restingKeys' = restingKeys \ {KeyInTurn(plan)}

\* A failure of the provider: the rest of its pool is not tried, the next
\* candidate is.
LeaveCandidate(spent) ==
    /\ plan' = [plan EXCEPT !.phase = "choosing", !.keys = {}, !.spent = spent,
                            !.failedCandidates = @ \union {plan.at}]
    /\ restingCandidates' = restingCandidates \union {plan.at}

\* A credential of this provider is still untried and the ceiling has room.
MayRotate == NextKeys # {} /\ CredentialsRun < MaxCredentials

\* The plan's own memory of a rejected credential.
RememberKey == plan.failedKeys \union {PairInTurn}

\* A rejected credential cools down; the loop rotates inside the provider, hands
\* an exhausted pool of several credentials to the next candidate, or, with a
\* single credential, treats the failure by its class.
RotKeyFailure(eligible) ==
    LET key == KeyInTurn(plan)
        pooled == Len(RotPool[RotProvider[plan.at]]) > 1
    IN  /\ plan.phase = "calling" /\ key # NoCredential
        /\ restingKeys' = restingKeys \union {key}
        /\ \E spent \in {plan.spent, TRUE} :
              LET known == RememberKey
              IN  \/ /\ MayRotate
                     /\ plan' = [plan EXCEPT !.phase = "choosing", !.keys = NextKeys,
                                               !.spent = spent, !.failedKeys = known]
                     /\ UNCHANGED restingCandidates
                  \/ /\ ~MayRotate /\ (pooled \/ eligible)
                     /\ plan' = [plan EXCEPT !.phase = "choosing", !.keys = {},
                                               !.spent = spent, !.failedKeys = known,
                                               !.failedCandidates = @ \union {plan.at}]
                     /\ restingCandidates' = restingCandidates \union {plan.at}
                  \/ /\ ~MayRotate /\ ~pooled /\ ~eligible
                     /\ plan' = EndedPlan("failed")
                     /\ UNCHANGED restingCandidates

\* A transient failure is the provider's; any other ends the request unchanged,
\* as its cancellation does.
RotProviderFailure ==
    /\ plan.phase = "calling"
    /\ \E spent \in {plan.spent, TRUE} : LeaveCandidate(spent)
    /\ UNCHANGED restingKeys

RotFatal ==
    /\ plan.phase = "calling"
    /\ plan' = EndedPlan("failed")
    /\ UNCHANGED <<restingCandidates, restingKeys>>

\* Cooldowns run out; other requests rest and restore candidates and credentials.
RotElsewhere ==
    /\ plan.phase # "choosing"
    /\ \/ \E c \in RotCandidates :
             /\ restingCandidates' \in {restingCandidates \ {c}, restingCandidates \union {c}}
             /\ UNCHANGED restingKeys
       \/ \E k \in RotKeys :
             /\ restingKeys' \in {restingKeys \ {k}, restingKeys \union {k}}
             /\ UNCHANGED restingCandidates
    /\ UNCHANGED plan

RotAnswer ==
    \/ RotSuccess
    \/ \E eligible \in BOOLEAN : RotKeyFailure(eligible)
    \/ RotProviderFailure
    \/ RotFatal

RotWork == RotUnit \/ RotCandidate \/ RotCredential \/ RotAnswer

RotNext == RotOpen \/ RotWork \/ RotElsewhere

RotSpec == RotInit /\ [][RotNext]_rotVars

\* Every await of an engine ends: _run_stt bounds it with wait_for.
RotFairness == WF_rotVars(RotWork)
RotFairSpec == RotSpec /\ RotFairness

-----------------------------------------------------------------------------

RotTypeOK ==
    /\ plan \in [phase: {"idle", "unit", "choosing", "calling", "done", "failed"},
                 chunk: 1 .. MaxChunks, todo: SUBSET RotCandidates,
                 keys: SUBSET (RotKeys \union {NoCredential}), at: RotCandidates,
                 tried: SUBSET RotPairs, spent: BOOLEAN, pinned: RotPairs \union {NoPin},
                 failedCandidates: SUBSET RotCandidates, failedKeys: SUBSET RotPairs]
    /\ restingCandidates \subseteq RotCandidates /\ restingKeys \subseteq RotKeys

\* Across all chunks of one request, a candidate that failed provider-wide and a
\* (candidate, credential) pair that was rejected are never attempted again: the
\* pin, which _order and _credential_entries do not check, never points at one.
FailedPairsStayOut ==
    plan.phase = "calling" =>
        /\ plan.at \notin plan.failedCandidates
        /\ PairInTurn \notin plan.failedKeys

\* What must come to an end: rotation inside a pool, fallback between providers
\* and the chunks of a recording are bounded together.
RotationRuns == plan.phase \in {"unit", "choosing", "calling"}

=============================================================================
