------------------------------ MODULE I01Answer ------------------------------
(***************************************************************************)
(* What the observer answers on I01 (observer/src/i01_request.rs,          *)
(* i01_gate.rs, i01_answer.rs and the end of i01_service.rs's `respond').  *)
(* A session's requests form a chain: each continues the last answer.  An  *)
(* answer is built from the latest snapshot's derivations and the latest   *)
(* capture set, at one reading of each clock, and its bytes are parsed     *)
(* back and held against the requester's own rules before they are sent.   *)
(*                                                                         *)
(* `answer' leaves the chain rules to the session's bookkeeping; the rules *)
(* the requester applies read the previous observation instead.  The two   *)
(* must agree whatever the clocks, the snapshots and the capture sets do   *)
(* between two answers.                                                    *)
(*                                                                         *)
(* When a session opens, waits and times out is I01Service's: here it is   *)
(* open or closed, and may close at any moment.  A projection or a digest  *)
(* is what its comparison with the signed binding says; one unit of time   *)
(* is a part of a second, so a second holds SECOND of them.                *)
(***************************************************************************)
EXTENDS Integers

CONSTANTS
    Absent,
    SECOND,
    GATE_BOUND,                    \* the oldest capture set a gated value may rest on
    FRESHNESS_WINDOW_SECONDS,
    RECORD_EXPIRY_MARGIN_SECONDS,
    EXCHANGE_DEADLINE,             \* from a request's receipt to its answer
    MAX_INTEGER,
    MAX_UTC_SECONDS,               \* the last second a UTC text can name
    ZERO_DIGEST,
    Digest(_),                     \* of an observation's canonical bytes
    Challenges,
    BackendSlots,                  \* a slot for each of the record's backendComponents
    SignedSets,                    \* what a process may have been signed and enrolled with
    Snapshots,
    Envelopes,                     \* a datagram's faults, and the binding and the run nonce it names
    CaptureSets,                   \* a set's slots, each with whether it was taken, the record it was taken for,
                                   \* and how long after the wake's reading it was scheduled, if it completed
    MaxTime,
    MaxEvents                      \* pushes of the epoch and settings of the wall clock

POLICIES == {"admissionPolicy", "resourceQuota", "limitRange", "serviceAccount", "rbac", "networkPolicy",
             "mutationBroker"}
DIGESTS == {"admissionFenceDigest", "rbacClosureDigest", "networkEnforcementDigest", "hostPreflightDigest"}
GATED == {"mutationBroker", "networkEnforcementDigest", "hostPreflightDigest"}

Faults == {"Size", "Bytes", "Json", "Depth", "Float", "Integer", "Text", "Canonical", "Schema"}

ASSUME AnswerAssumption ==
    /\ SECOND \in Nat \ {0}
    /\ GATE_BOUND \in Nat /\ EXCHANGE_DEADLINE \in Nat
    /\ FRESHNESS_WINDOW_SECONDS \in Nat /\ RECORD_EXPIRY_MARGIN_SECONDS \in Nat
    /\ MAX_INTEGER \in Nat /\ MAX_UTC_SECONDS \in Nat
    /\ MaxTime \in Nat /\ MaxEvents \in Nat

VARIABLES
    signed,      \* the signed binding's and the record's scope, the configuration's window, the record's host
    mono, wall,  \* the two clocks
    events,      \* pushes and settings of the wall clock so far
    derived,     \* the latest snapshot view: its derivations, or that they could not be built
    capture,     \* the latest capture set
    session,
    answer,      \* the session's last answer as its requester holds it
    ended        \* why the last session closed

answerVars == <<signed, mono, wall, events, derived, capture, session, answer, ended>>

-----------------------------------------------------------------------------
(* A request's checks: framing and schema, the session's chain, the binding. *)

\* A datagram's bytes, as the faults `frame' and `request_schema' would find in them, and its members.
FrameFaults == Faults \ {"Schema"}
RequestFrame(d) == d.faults \cap FrameFaults = {}
RequestSchema(d) == "Schema" \notin d.faults /\ d.request.sequence \in 1..MAX_INTEGER

NewChain == Absent

Check(chain, request) ==
    IF chain = Absent
    THEN request.sequence = 1 /\ request.previous = ZERO_DIGEST
    ELSE /\ request.sequence = chain.sequence + 1
         /\ request.challenge # chain.challenge
         /\ request.previous = chain.digest

ChainAnswered(sequence, challenge, digest) == [sequence |-> sequence, challenge |-> challenge, digest |-> digest]

BindingGate(request) == request.binding = "SIGNED" /\ request.nonce = "SIGNED"

CheckRequest(d, chain) == RequestFrame(d) /\ RequestSchema(d) /\ Check(chain, d.request) /\ BindingGate(d.request)

-----------------------------------------------------------------------------
(* The derivations of one snapshot.                                          *)

NotDerived == [built |-> FALSE]

\* A scope without a window, a record without its host's boot id and an unnamed namespace build nothing.
Derive(snapshot) ==
    IF signed.scope = Absent \/ signed.boot = Absent \/ signed.record = Absent \/ ~snapshot.named
    THEN NotDerived
    ELSE [built |-> TRUE, values |-> snapshot.values, namespace |-> snapshot.namespace,
          within |-> snapshot.within, form |-> snapshot.form]

-----------------------------------------------------------------------------
(* The capture gate.                                                         *)

RoleSlots == {"role/SERVER", "role/OBSERVER", "role/BROKER", "role/WORKER", "role/EFFECT_GATE"}

RequiredSlots(key) ==
    CASE key = "mutationBroker" -> {"role/BROKER"}
      [] key = "networkEnforcementDigest" -> {"backend/NETWORK_POLICY_AGENT"}
      [] OTHER -> RoleSlots \cup {"lifecycle"} \cup BackendSlots

\* A name listed twice must be taken twice.
SlotTaken(slots, slot) == <<slot, TRUE>> \in slots /\ <<slot, FALSE>> \notin slots

\* The set as the answer reads it at `now' and `reading'.
CaptureFacts(set, now, reading) ==
    LET completed == set.scheduled # Absent
        begun == IF completed THEN set.scheduled <= now ELSE FALSE
    IN  [completed |-> completed, expired |-> set.expired, scheduledAfterNow |-> completed /\ ~begun,
         slots |-> set.slots, monoAge |-> IF begun THEN now - set.scheduled ELSE 0,
         wallAge |-> reading - set.started, record |-> set.record]

\* An expired view is a set of which nothing was taken.
SlotsShown(facts) == IF facts.expired THEN {<<s[1], FALSE>> : s \in facts.slots} ELSE facts.slots

\* Mutant of CaptureGate: a reading before the set's start is not refused.
CaptureGateUpTo(key, facts) ==
    /\ facts.completed
    /\ key = "hostPreflightDigest" => BackendSlots # {}
    /\ \A slot \in RequiredSlots(key) : SlotTaken(SlotsShown(facts), slot)
    /\ ~facts.scheduledAfterNow
    /\ facts.monoAge <= GATE_BOUND
    /\ facts.wallAge <= GATE_BOUND

CaptureGate(key, facts) ==
    /\ facts.completed
    /\ key = "hostPreflightDigest" => BackendSlots # {}
    /\ \A slot \in RequiredSlots(key) : SlotTaken(SlotsShown(facts), slot)
    /\ ~facts.scheduledAfterNow
    /\ facts.monoAge <= GATE_BOUND
    /\ facts.wallAge \in 0..GATE_BOUND

\* The answer list is empty: every key derived, past its gate, and what was signed.
NoRefusals(d, facts) ==
    \A key \in POLICIES \cup DIGESTS :
        /\ d.values[key] = "SIGNED"
        /\ key \in GATED => CaptureGate(key, facts)

-----------------------------------------------------------------------------
(* The requester's rules for an observation.                                 *)

Shape(o) == o.form /\ o.sequence \in 1..MAX_INTEGER

Echoes(o, request) ==
    /\ o.binding = request.binding /\ o.nonce = request.nonce
    /\ o.challenge = request.challenge
    /\ o.sequence = request.sequence
    /\ o.previous = request.previous

ObservationRules(o, request, now) ==
    /\ Shape(o)
    /\ \A key \in POLICIES : o.values[key] = "SIGNED"
    /\ o.namespace = "SIGNED"
    /\ BindingGate(request)
    /\ Echoes(o, request)
    /\ signed.scope.from <= o.observedAt /\ o.observedAt <= now /\ now < o.expiresAt
    /\ o.expiresAt <= signed.scope.until
    /\ 0 < o.expiresAt - o.observedAt /\ o.expiresAt - o.observedAt <= FRESHNESS_WINDOW_SECONDS
    /\ \A key \in DIGESTS : o.values[key] = "SIGNED"
    /\ o.within

\* The chain rules read the previous observation, not the session's chain.
ChainRules(o, request, previous) ==
    IF previous = Absent
    THEN request.sequence = 1 /\ request.previous = ZERO_DIGEST
    ELSE /\ Shape(previous)
         /\ previous.binding = request.binding /\ previous.nonce = request.nonce
         /\ request.sequence = previous.sequence + 1
         /\ Digest(previous) = request.previous
         /\ o.boot = previous.boot /\ o.generation = previous.generation
         /\ previous.challenge # request.challenge
         /\ o.observedAt >= previous.observedAt

SelfCheck(o, request, now, previous) == ObservationRules(o, request, now) /\ ChainRules(o, request, previous)

-----------------------------------------------------------------------------
(* The answer at one wall reading.                                           *)

ExpiresAt(now) ==
    LET ends == {now + FRESHNESS_WINDOW_SECONDS, signed.scope.until,
                 signed.record.until - RECORD_EXPIRY_MARGIN_SECONDS, signed.config.until}
    IN  CHOOSE e \in ends : \A x \in ends : e <= x

Windows(now) ==
    /\ now <= MAX_UTC_SECONDS
    /\ now >= signed.scope.from /\ now >= signed.record.from /\ now >= signed.config.from
    /\ ExpiresAt(now) > now
    /\ ExpiresAt(now) <= MAX_UTC_SECONDS

NotBefore(now, last) == IF last = Absent THEN TRUE ELSE now >= last

Observation(d, request, now) ==
    [binding |-> request.binding, nonce |-> request.nonce, challenge |-> request.challenge,
     sequence |-> request.sequence, previous |-> request.previous,
     boot |-> signed.boot, generation |-> signed.generation,
     observedAt |-> now, expiresAt |-> ExpiresAt(now),
     namespace |-> d.namespace, values |-> d.values, within |-> d.within, form |-> d.form]

\* Every step of `answer' passes and its observation's bytes are returned.
Answers(d, request, facts, now, last) ==
    /\ BindingGate(request)
    /\ NoRefusals(d, facts)
    /\ facts.record = d.values["hostPreflightDigest"]
    /\ Windows(now)
    /\ NotBefore(now, last)
    /\ ObservationRules(Observation(d, request, now), request, now)

-----------------------------------------------------------------------------
(* The session.                                                              *)

NewSession == [chain |-> NewChain, pending |-> Absent, lastObserved |-> Absent, previous |-> Absent]

\* Mutant of Sent: the last second observed is not brought forward.
SentKeepingLast(s, request, o, now) ==
    [chain |-> ChainAnswered(request.sequence, request.challenge, Digest(o)), pending |-> Absent,
     lastObserved |-> s.lastObserved, previous |-> o]

Sent(s, request, o, now) ==
    [chain |-> ChainAnswered(request.sequence, request.challenge, Digest(o)), pending |-> Absent,
     lastObserved |-> now, previous |-> o]

AnswerInit ==
    /\ signed \in SignedSets
    /\ mono = 0 /\ wall = 0 /\ events = 0
    /\ derived = NotDerived
    /\ capture = Absent
    /\ session = Absent
    /\ answer = Absent
    /\ ended = "none"

Close(why) ==
    /\ session' = Absent
    /\ answer' = Absent
    /\ ended' = why

\* Time passes on both clocks.
Tick ==
    /\ mono < MaxTime /\ wall < MaxTime
    /\ mono' = mono + 1 /\ wall' = wall + 1
    /\ UNCHANGED <<signed, events, derived, capture, session, answer, ended>>

Event == events < MaxEvents /\ events' = events + 1

\* The wall clock is set.
StepWall ==
    /\ Event
    /\ \E w \in (wall - SECOND)..(wall + SECOND) : w \in 0..MaxTime /\ w # wall /\ wall' = w
    /\ UNCHANGED <<signed, mono, derived, capture, session, answer, ended>>

\* The epoch pushes a snapshot view.
PushSnapshot ==
    /\ Event
    /\ \E snapshot \in Snapshots : derived' = Derive(snapshot)
    /\ UNCHANGED <<signed, mono, wall, capture, session, answer, ended>>

\* The epoch pushes the engine's view after a set; the wake that serves the peer may have read its clock before the
\* set was scheduled to start.
PushCapture ==
    /\ Event
    /\ \E set \in CaptureSets :
         capture' = [scheduled |-> IF set.after = Absent THEN Absent ELSE mono + set.after, started |-> wall,
                     slots |-> set.slots, record |-> set.record, expired |-> FALSE]
    /\ UNCHANGED <<signed, mono, wall, derived, session, answer, ended>>

\* The epoch pushes the view it has pushed before, its expiry latch now closed.
ExpireCapture ==
    /\ Event
    /\ capture # Absent
    /\ ~capture.expired
    /\ capture' = [capture EXCEPT !.expired = TRUE]
    /\ UNCHANGED <<signed, mono, wall, derived, session, answer, ended>>

OpenSession ==
    /\ session = Absent
    /\ session' = NewSession
    /\ UNCHANGED <<signed, mono, wall, events, derived, capture, answer, ended>>

\* The digests a request can name: none, the last answer's, the one before it.
KnownDigests ==
    {ZERO_DIGEST} \cup (IF answer = Absent THEN {} ELSE {Digest(answer.observation), answer.observation.previous})

Requests ==
    [envelope : Envelopes, challenge : Challenges, sequence : 0..(MAX_INTEGER + 1), previous : KnownDigests]

RequestOf(r) ==
    [binding |-> r.envelope.binding, nonce |-> r.envelope.nonce, challenge |-> r.challenge,
     sequence |-> r.sequence, previous |-> r.previous]

\* A datagram is read: it waits for its answer, or it ends the session, as any does while one waits.
Request ==
    /\ session # Absent
    /\ \E r \in Requests :
         LET request == RequestOf(r)
             d == [request |-> request, faults |-> r.envelope.faults]
         IN  IF session.pending = Absent /\ CheckRequest(d, session.chain)
             THEN /\ session' = [session EXCEPT !.pending = [request |-> request, received |-> mono]]
                  /\ UNCHANGED <<answer, ended>>
             ELSE Close("closed")
    /\ UNCHANGED <<signed, mono, wall, events, derived, capture>>

\* The pending request is answered, or the session ends.
Respond ==
    /\ session # Absent
    /\ session.pending # Absent
    /\ capture # Absent
    /\ LET request == session.pending.request
           now == wall \div SECOND
           facts == CaptureFacts(capture, mono, wall)
           o == Observation(derived, request, now)
       IN  IF ~derived.built \/ mono >= session.pending.received + EXCHANGE_DEADLINE
           THEN Close("closed")
           ELSE IF ~Answers(derived, request, facts, now, session.lastObserved)
           THEN Close("answer")
           ELSE IF ~SelfCheck(o, request, now, session.previous)
           THEN Close("self check")
           ELSE /\ session' = Sent(session, request, o, now)
                /\ answer' = [observation |-> o, before |-> IF answer = Absent THEN Absent ELSE answer.observation,
                              set |-> capture, mono |-> mono, wall |-> wall]
                /\ UNCHANGED ended
    /\ UNCHANGED <<signed, mono, wall, events, derived, capture>>

\* A bound, the window, the peer's end, its process, a failed send.
Drop ==
    /\ session # Absent
    /\ Close("closed")
    /\ UNCHANGED <<signed, mono, wall, events, derived, capture>>

AnswerNext ==
    \/ Tick \/ StepWall
    \/ PushSnapshot \/ PushCapture \/ ExpireCapture
    \/ OpenSession \/ Request \/ Respond \/ Drop

AnswerSpec == AnswerInit /\ [][AnswerNext]_answerVars

-----------------------------------------------------------------------------
(* What a requester can rely on.                                             *)

\* An answer continues the one its requester holds: `i01_request::Chain' alone sees to it.
Continues(o, before) ==
    IF before = Absent
    THEN o.sequence = 1 /\ o.previous = ZERO_DIGEST
    ELSE /\ o.sequence = before.sequence + 1
         /\ o.previous = Digest(before)
         /\ o.challenge # before.challenge
         /\ o.observedAt >= before.observedAt

\* The set an answer rests on was complete, begun, unexpired and within the bound by both clocks when it was sent.
RestsOn(set, at, reading) ==
    /\ set.scheduled # Absent
    /\ ~set.expired
    /\ set.record = "SIGNED"
    /\ set.scheduled <= at /\ at <= set.scheduled + GATE_BOUND
    /\ set.started <= reading /\ reading <= set.started + GATE_BOUND
    /\ \A slot \in RoleSlots \cup {"lifecycle", "backend/NETWORK_POLICY_AGENT"} \cup BackendSlots : SlotTaken(set.slots, slot)

\* Every answer sent continues the last one its requester holds, lives at most FRESHNESS_WINDOW_SECONDS inside the
\* binding's, the record's and the configuration's windows, and rests on a capture set that was whole and young by both
\* clocks; and the rules `respond' runs over its own bytes (i01_answer.rs self_check) never refuse what `answer' built,
\* so a session is never closed after its bookkeeping and its previous observation have come apart.
AnswersVerify ==
    /\ ended # "self check"
    /\ answer # Absent =>
         LET o == answer.observation
         IN  /\ Continues(o, answer.before)
             /\ o.expiresAt > o.observedAt /\ o.expiresAt <= o.observedAt + FRESHNESS_WINDOW_SECONDS
             /\ o.observedAt >= signed.scope.from /\ o.expiresAt <= signed.scope.until
             /\ o.observedAt >= signed.record.from
             /\ o.expiresAt <= signed.record.until - RECORD_EXPIRY_MARGIN_SECONDS
             /\ o.observedAt >= signed.config.from /\ o.expiresAt <= signed.config.until
             /\ RestsOn(answer.set, answer.mono, answer.wall)

=============================================================================
