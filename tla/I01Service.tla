----------------------------- MODULE I01Service -----------------------------
(***************************************************************************)
(* The observer's I01 service (observer/src/i01_service.rs): one session   *)
(* at a time on the I01 listener, served from inside every wait of the     *)
(* observation epoch.  It holds the epoch's latest views as they were      *)
(* pushed and sends an answer only through `respond'.                      *)
(*                                                                         *)
(* The service is a record; a step of the code is an operator from a       *)
(* service to the set of services it may become.  Custody, credentials,    *)
(* the request's checks and the answer's own checks are what they decide:  *)
(* the session goes on, or it closes.                                      *)
(***************************************************************************)
EXTENDS Naturals

CONSTANTS
    None,
    IDLE_BOUND,             \* a session without a request, from its accept or its last answer
    OUTER_BOUND,            \* a session
    I01_EXCHANGE_DEADLINE,  \* from a request's receipt to its answer
    LISTENER_BACKOFF,       \* the listener out of the wait after a fault
    LISTENER_FAULT_LIMIT    \* faults in a row that end the epoch

ASSUME ServiceAssumption ==
    /\ None \notin Nat
    /\ IDLE_BOUND \in Nat /\ OUTER_BOUND \in Nat /\ I01_EXCHANGE_DEADLINE \in Nat
    /\ LISTENER_BACKOFF \in Nat /\ LISTENER_FAULT_LIMIT \in Nat

Instant == Nat
Mark == Nat

\* What the wall clock says of the record's window [validFrom, expiresAt - 3 s).
Wall == {"UNKNOWN", "BEFORE", "INSIDE", "AFTER"}

\* A request round as one availability push carries it.
Round == [outcome : {"NONE", "FAILED", "PASSED"}, started : Instant, mark : Mark]
NoRound == [outcome |-> "NONE", started |-> 0, mark |-> 0]
FailedRound == [NoRound EXCEPT !.outcome = "FAILED"]
Passed(started, mark) == [outcome |-> "PASSED", started |-> started, mark |-> mark]

Session == [pending : Instant \cup {None}, idle : Instant, outer : Instant]
SnapshotView == [phase : Nat, mark : Mark, derived : BOOLEAN]
Availability == [phase : Nat, established : BOOLEAN, fresh : BOOLEAN, round : Round]

\* The epoch pushes its first availability at its first pass; until then the service holds one that serves nothing.
Service == [session : Session \cup {None}, latched : BOOLEAN, faults : Nat, until : Instant \cup {None},
            snapshot : SnapshotView \cup {None}, availability : Availability,
            capture : {"NONE", "SET", "EXPIRED"}]

NewService == [session |-> None, latched |-> FALSE, faults |-> 0, until |-> None, snapshot |-> None,
               availability |-> [phase |-> 0, established |-> FALSE, fresh |-> FALSE, round |-> NoRound],
               capture |-> "NONE"]

-----------------------------------------------------------------------------
(* The window, with its latch, and the end of a session.                    *)

Latch(s, wall) == [s EXCEPT !.latched = @ \/ wall = "AFTER"]
InsideWindow(s, wall) == ~s.latched /\ wall = "INSIDE"

End(s) == [s EXCEPT !.session = None]

-----------------------------------------------------------------------------
(* One ready descriptor.                                                    *)

\* One fault of the listener: out of the wait for a while, unless it is the last of the limit.
Fault(s, now) ==
    [s EXCEPT !.faults = @ + 1,
              !.until = IF s.faults + 1 >= LISTENER_FAULT_LIMIT THEN @ ELSE now + LISTENER_BACKOFF]

ListenerFailed(s) == s.faults >= LISTENER_FAULT_LIMIT

\* An accepted peer: a session if the window and custody allow one, otherwise the peer is closed.
Admit(s, wall, now) ==
    LET counted == Latch([s EXCEPT !.faults = 0], wall)
        opened == [counted EXCEPT !.session = [pending |-> None, idle |-> now + IDLE_BOUND, outer |-> now + OUTER_BOUND]]
    IN  {counted} \cup (IF InsideWindow(counted, wall) THEN {opened} ELSE {})

ListenerStep(s, wall, now) ==
    {s} \cup (IF s.until = None THEN {Fault(s, now)} \cup Admit(s, wall, now) ELSE {})

\* A readable peer.  Nothing was queued, or a request passed its checks and waits from now on, or the session
\* closes: the window, a changed process, other credentials, a refused request, the peer's end, a failed watch,
\* and any datagram at all while a request is pending.
PeerStep(s, wall, now) ==
    LET latched == Latch(s, wall)
        received == [latched EXCEPT !.session.pending = now]
    IN  {s, End(latched)} \cup
        (IF InsideWindow(latched, wall) /\ s.session.pending = None THEN {received} ELSE {})

\* The listener is watched while no session is open, the session's peer while one is.
ServePeerStep(s, wall, now) ==
    IF s.session = None THEN ListenerStep(s, wall, now) ELSE PeerStep(s, wall, now)

-----------------------------------------------------------------------------
(* The deadlines of one wake, then the answer when the request is ready.    *)

Settle(s, now) == [s EXCEPT !.until = IF @ # None /\ @ <= now THEN None ELSE @]

Late(session, now) == session.pending # None /\ now >= session.pending + I01_EXCHANGE_DEADLINE

Bounded(session, now) == now >= session.outer \/ (session.pending = None /\ now >= session.idle)

\* The window, the exchange deadline and the bounds, in a wake that closes what they have reached.
Deadlines(s, wall, now) ==
    LET settled == Latch(Settle(s, now), wall)
    IN  IF settled.session = None THEN settled
        ELSE IF ~InsideWindow(settled, wall) \/ Late(settled.session, now) \/ Bounded(settled.session, now)
        THEN End(settled)
        ELSE settled

\* The pending request can be answered: a round that started at or after its receipt has passed in the phase of the
\* snapshot's view, and a capture set was pushed.
Ready(s, now) ==
    /\ s.session # None
    /\ s.session.pending # None
    /\ s.availability.round.outcome = "PASSED"
    /\ s.availability.round.started >= s.session.pending
    /\ s.snapshot # None
    /\ s.snapshot.phase = s.availability.phase
    /\ now < s.session.pending + I01_EXCHANGE_DEADLINE
    /\ now < s.session.outer
    /\ s.capture # "NONE"

\* What `respond' needs of the views before it builds an answer; an expired capture set fails every gated value.
Serves(s) ==
    /\ s.snapshot.derived
    /\ s.availability.established
    /\ s.availability.fresh
    /\ s.capture = "SET"

\* The answer is sent: the request is no longer pending and the idle bound starts again.
Sent(s, now) == [s EXCEPT !.session.pending = None, !.session.idle = now + IDLE_BOUND]

-----------------------------------------------------------------------------
(* The epoch's pushes: each replaces the one before it.                     *)

PushSnapshot(s, view) == [s EXCEPT !.snapshot = view]
PushAvailability(s, availability) == [s EXCEPT !.availability = availability]
PushCapture(s, expired) == [s EXCEPT !.capture = IF expired THEN "EXPIRED" ELSE "SET"]

Pending(s) == s.session # None /\ s.session.pending # None

=============================================================================
