----------------------------- MODULE ProviderMesh -----------------------------
(***************************************************************************)
(* ProviderManager.chat over the health tracker: concurrent requests walk   *)
(* pools of (provider, model) candidates; failures cool a model, cool or    *)
(* quarantine a provider, or disable it; a slot semaphore per provider.     *)
(* One request runs from one await to the next: the answer of a call, the   *)
(* health decision it causes and the choice of the next candidate are one   *)
(* step.  All delays are remaining ticks of one clock.                      *)
(***************************************************************************)
EXTENDS Integers, Sequences, FiniteSets, SequencesExt

CONSTANTS MeshRequests,     \* concurrent calls of chat
          Providers,        \* the providers, without the dummy
          ActiveProvider,   \* the owner's choice
          Catalogs,         \* how many models each provider has: the configured one,
                            \* then the discovered ones; 0 is not registered
          Slots,            \* concurrency limit of each provider
          QuarantineAfter,  \* QUARANTINE_AFTER_FAILURES
          OutageModels,     \* _PROVIDER_OUTAGE_MODELS
          MaxPenalty,       \* longest cooldown, in ticks
          QuarantineTicks,  \* QUARANTINE_SECONDS
          OutageWindow      \* _PROVIDER_OUTAGE_WINDOW, and the dead-model TTL

ASSUME MeshAssumption ==
    /\ IsFiniteSet(Providers) /\ ActiveProvider \in Providers
    /\ Slots \in [Providers -> Nat \ {0}]
    /\ Catalogs \subseteq [Providers -> 0 .. 3]
    /\ {QuarantineAfter, OutageModels, MaxPenalty, QuarantineTicks, OutageWindow} \subseteq Nat \ {0}

VARIABLES catalog,  \* the catalog in use
          health,   \* ProviderHealthTracker and the manager's model evidence
          request,  \* the calls of chat
          slotQueue \* who waits for a provider's semaphore

meshVars == <<catalog, health, request, slotQueue>>
-----------------------------------------------------------------------------
Candidates == {<<p, i>> : p \in Providers, i \in 1 .. 3}
Known == {c \in Candidates : c[2] <= catalog[c[1]]}

MeshTypeOK ==
    /\ catalog \in Catalogs
    /\ health \in [disabled: SUBSET Providers,
                   cool: [Providers -> 0 .. MaxPenalty],
                   quarantine: [Providers -> 0 .. QuarantineTicks],
                   streak: [Providers -> 0 .. QuarantineAfter],
                   modelCool: [Known -> 0 .. MaxPenalty],
                   modelDead: [Known -> 0 .. OutageWindow],
                   recent: [Known -> 0 .. OutageWindow]]
    /\ request \in [MeshRequests ->
            [pc: {"idle", "queued", "calling", "backoff", "ended"}, pool: Seq(Known), pos: Nat,
             sibling: BOOLEAN, probed: SUBSET Providers, retried: BOOLEAN,
             limits: [Providers -> Nat]]]
    /\ slotQueue \in [Providers -> Seq(MeshRequests)]

NoRequest == [pc |-> "idle", pool |-> <<>>, pos |-> 0, sibling |-> FALSE, probed |-> {},
         retried |-> FALSE, limits |-> [p \in Providers |-> 0]]
EndedRequest(q) == [NoRequest EXCEPT !.pc = "ended", !.limits = q.limits]

MeshInit ==
    /\ catalog \in Catalogs
    /\ health = [disabled |-> {}, cool |-> [p \in Providers |-> 0],
                 quarantine |-> [p \in Providers |-> 0], streak |-> [p \in Providers |-> 0],
                 modelCool |-> [c \in Known |-> 0], modelDead |-> [c \in Known |-> 0],
                 recent |-> [c \in Known |-> 0]]
    /\ request = [r \in MeshRequests |-> NoRequest]
    /\ slotQueue = [p \in Providers |-> <<>>]

-----------------------------------------------------------------------------
(* is_available, _model_unavailable and _candidate_models *)
AvailableEnabledOnly(h, p) == h.cool[p] = 0 /\ h.quarantine[p] = 0     \* mutant
Available(h, p) == p \notin h.disabled /\ h.cool[p] = 0 /\ h.quarantine[p] = 0
ModelUp(h, c) == h.modelDead[c] = 0 /\ h.modelCool[c] = 0
Eligible(h, c) == Available(h, c[1]) /\ ModelUp(h, c)

(* The candidates of the providers asked.  Those of one provider stand together, *)
(* its configured model first; the active provider's come before all others, which *)
(* follow in the order of their scores.                                            *)
CandidateModels(h, names) == {c \in Known : c[1] \in names /\ ModelUp(h, c)}
InOrder(pool) ==
    \A i, j \in DOMAIN pool : i < j =>
        /\ pool[i][1] = pool[j][1] =>
              /\ pool[i][2] < pool[j][2]
              /\ \A k \in i .. j : pool[k][1] = pool[i][1]
        /\ pool[j][1] = ActiveProvider => pool[i][1] = ActiveProvider

(* Unhealthy and incapable providers are left out. *)
Pools(h) ==
    UNION {{pool \in SetToSeqs(CandidateModels(h, names)) : InOrder(pool)} :
               names \in SUBSET {p \in Providers : Available(h, p)}}

-----------------------------------------------------------------------------
(* The health decisions. *)
RecordFailure(h, p, ticks) ==
    IF h.streak[p] + 1 >= QuarantineAfter
      THEN [h EXCEPT !.streak[p] = QuarantineAfter, !.quarantine[p] = QuarantineTicks,
                     !.cool[p] = 0]
      ELSE [h EXCEPT !.streak[p] = @ + 1, !.cool[p] = ticks]

MarkDisabled(h, p) ==
    [h EXCEPT !.disabled = @ \cup {p}, !.cool[p] = 0, !.quarantine[p] = 0, !.streak[p] = 0]

RecentModels(h, p) == {c \in Known : c[1] = p /\ h.recent[c] > 0}
ForgetRecent(h, p) ==
    [h EXCEPT !.recent = [c \in Known |-> IF c[1] = p THEN 0 ELSE h.recent[c]]]

RecordSuccess(h, c) ==
    ForgetRecent([h EXCEPT !.disabled = @ \ {c[1]}, !.cool[c[1]] = 0, !.quarantine[c[1]] = 0,
                           !.streak[c[1]] = 0, !.modelCool[c] = 0], c[1])

(* _escalate_if_provider_wide *)
Escalate(h, c, ticks) ==
    LET seen == [h EXCEPT !.recent[c] = OutageWindow]
    IN  IF Cardinality(RecentModels(seen, c[1])) < OutageModels THEN seen
        ELSE RecordFailure(ForgetRecent(seen, c[1]), c[1], ticks)

(* A transient failure: the provider's when no other model of it is up. *)
Transient(h, c, ticks) ==
    IF \E d \in Known \ {c} : d[1] = c[1] /\ ModelUp(h, d)
      THEN Escalate([h EXCEPT !.modelCool[c] = ticks], c, ticks)
      ELSE RecordFailure(h, c[1], ticks)

(* An ambiguous 429 spends the request's one sibling probe of the provider. *)
ProbeAgain(q, c) == q.sibling                                          \* mutant
Probes(q, c) == q.sibling /\ c[1] \notin q.probed

-----------------------------------------------------------------------------
(* The walk over the pool. *)
Here(q) == q.pool[q.pos]
HoldsSlot(r, p) == request[r].pc \in {"calling", "backoff"} /\ Here(request[r])[1] = p
Holders(p) == {r \in MeshRequests : HoldsSlot(r, p)}

Remaining(h, q) == {i \in DOMAIN q.pool : i > q.pos /\ Eligible(h, q.pool[i])}

(* chat goes on with the first candidate that is still eligible, or ends. *)
AtCandidate(h, q, i) ==
    [q EXCEPT !.pos = i, !.retried = FALSE, !.pc = "calling",
              !.sibling = \E j \in DOMAIN q.pool :
                    j > i /\ q.pool[j][1] = q.pool[i][1] /\ Eligible(h, q.pool[j])]
Onward(h, q) ==
    IF Remaining(h, q) = {} THEN EndedRequest(q)
    ELSE AtCandidate(h, q, CHOOSE i \in Remaining(h, q) : \A j \in Remaining(h, q) : i <= j)

(* Request r leaves its slot of provider p, the next waiter gets it, and r      *)
(* becomes q: q's next candidate has a free slot or r waits behind the others.   *)
Move(r, freed, q) ==
    LET woken == [p \in Providers |->
            IF p \in freed /\ slotQueue[p] # <<>> THEN {Head(slotQueue[p])} ELSE {}]
        left == [p \in Providers |->
            IF woken[p] # {} THEN Tail(slotQueue[p]) ELSE slotQueue[p]]
        p == IF q.pc = "calling" THEN Here(q)[1] ELSE ActiveProvider
        held == Cardinality((Holders(p) \ {r}) \cup woken[p])
        waits == q.pc = "calling" /\ held >= Slots[p]
    IN  /\ request' = [s \in MeshRequests |->
                IF s = r THEN (IF waits THEN [q EXCEPT !.pc = "queued"] ELSE q)
                ELSE IF \E x \in Providers : s \in woken[x]
                  THEN [request[s] EXCEPT !.pc = "calling"] ELSE request[s]]
        /\ slotQueue' = IF waits THEN [left EXCEPT ![p] = Append(@, r)] ELSE left
        /\ UNCHANGED catalog

Finish(r, h, q) == health' = h /\ Move(r, {Here(request[r])[1]}, Onward(h, q))

-----------------------------------------------------------------------------
MeshAsk(r) ==
    /\ request[r].pc = "idle"
    /\ \E pool \in Pools(health) :
        pool # <<>> /\ Move(r, {}, Onward(health, [NoRequest EXCEPT !.pool = pool]))
    /\ UNCHANGED health

Answering(r) == request[r].pc = "calling"

(* A usable answer ends the request; an empty or malformed one counts as a       *)
(* success of the provider and goes on, unless it is the last candidate's.       *)
MeshSuccess(r) ==
    /\ Answering(r)
    /\ LET h == RecordSuccess(health, Here(request[r]))
       IN  \/ health' = h /\ Move(r, {Here(request[r])[1]}, EndedRequest(request[r]))
           \/ Finish(r, h, request[r])

(* One retry of the same model, after a transient failure or a short limit;      *)
(* the slot is kept.                                                              *)
MeshRetry(r) ==
    /\ Answering(r) /\ ~request[r].retried
    /\ request' = [request EXCEPT ![r].pc = "backoff", ![r].retried = TRUE]
    /\ UNCHANGED <<catalog, health, slotQueue>>

MeshResend(r) ==
    /\ request[r].pc = "backoff"
    /\ request' = [request EXCEPT ![r].pc = "calling"]
    /\ UNCHANGED <<catalog, health, slotQueue>>

MeshAuthFails(r) ==
    /\ Answering(r)
    /\ Finish(r, MarkDisabled(health, Here(request[r])[1]), request[r])

(* request and model_not_found *)
MeshModelDead(r) ==
    /\ Answering(r)
    /\ \/ Finish(r, [health EXCEPT !.modelDead[Here(request[r])] = OutageWindow], request[r])
       \/ Finish(r, health, request[r])

MeshTransient(r) ==
    /\ Answering(r)
    /\ \E ticks \in 1 .. MaxPenalty :
        Finish(r, Transient(health, Here(request[r]), ticks), request[r])

(* A 429: of the model, of the account, or of neither provably.  Retry-After      *)
(* may be zero.                                                                    *)
MeshLimited(r) ==
    /\ Answering(r)
    /\ LET c == Here(request[r])
       IN  \E ticks \in 0 .. MaxPenalty :
            \/ Finish(r, [health EXCEPT !.modelCool[c] = ticks], request[r])
            \/ Finish(r, RecordFailure(health, c[1], ticks), request[r])
            \/ LET q == [request[r] EXCEPT !.limits[c[1]] = IF ticks > 0 THEN @ + 1 ELSE @]
               IN  IF Probes(q, c)
                     THEN Finish(r, [health EXCEPT !.modelCool[c] = ticks],
                                 [q EXCEPT !.probed = @ \cup {c[1]}])
                     ELSE Finish(r, RecordFailure(health, c[1], ticks), q)

Elapse(f) == [x \in DOMAIN f |-> IF f[x] > 0 THEN f[x] - 1 ELSE 0]
MeshTick ==
    /\ health' = [health EXCEPT !.cool = Elapse(@), !.quarantine = Elapse(@),
                                !.modelCool = Elapse(@), !.modelDead = Elapse(@),
                                !.recent = Elapse(@)]
    /\ UNCHANGED <<catalog, request, slotQueue>>

MeshRound(r) ==
    \/ MeshSuccess(r) \/ MeshRetry(r) \/ MeshResend(r) \/ MeshAuthFails(r)
    \/ MeshModelDead(r) \/ MeshTransient(r) \/ MeshLimited(r)
MeshNext == MeshTick \/ \E r \in MeshRequests : MeshAsk(r) \/ MeshRound(r)

(* Every call ends: the provider answers or _PROVIDER_RPC_TIMEOUT does, and the  *)
(* backoff passes.  Nobody need ask.                                              *)
MeshFairness == \A r \in MeshRequests : WF_meshVars(MeshRound(r))
MeshSpec == MeshInit /\ [][MeshNext]_meshVars
MeshFairSpec == MeshSpec /\ MeshFairness
-----------------------------------------------------------------------------
(* What the mesh promises. *)

(* chat: "A candidate that stopped being eligible WHILE this request ran ... is   *)
(* not contacted", unless the request waited for the provider's slot: a waiter is *)
(* not asked again whether its provider is still up.                               *)
DownProvidersAreContactedOnlyFromTheQueue ==
    [][\A r \in MeshRequests :
        (/\ request'[r].pc = "calling"
         /\ \/ request[r].pc \in {"idle", "queued"} \/ request'[r].pos # request[r].pos
         /\ ~Available(health', Here(request'[r])[1]))
            => request[r].pc = "queued"]_meshVars

(* mark_disabled: "disabled until configuration changes".  A rejected provider     *)
(* comes back only through a call of it that was under way: once those have ended  *)
(* it stays out.                                                                    *)
Retired(p) == /\ p \in health.disabled
              /\ \A r \in MeshRequests :
                    request[r].pc \in {"idle", "ended"} \/ Here(request[r])[1] # p
DisabledStaysOut == [][\A p \in Providers : Retired(p) => Retired(p)']_meshVars

(* Both: what other requests learn of a provider is honoured by the next contact. *)
DownProvidersStayOut == DownProvidersAreContactedOnlyFromTheQueue /\ DisabledStaysOut

(* An account limit that the 429 does not prove is tried on at most two models of  *)
(* a provider by one request, whatever other requests do to its health.            *)
AmbiguousLimitsBurnTwoCandidates ==
    \A r \in MeshRequests, p \in Providers : request[r].limits[p] <= 2

(* What must come to an end, with an answer or with the exhausted pool, also     *)
(* behind a busy provider's semaphore.                                            *)
RequestRuns(r) == request[r].pc \notin {"idle", "ended"}
=============================================================================
