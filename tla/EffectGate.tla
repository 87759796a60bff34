------------------------------ MODULE EffectGate ------------------------------
(***************************************************************************)
(* The I05 gate of one generation (effect-gate/src/gate.rs) on its two     *)
(* stores (journal.rs, store.rs).  The gate is single threaded: every      *)
(* handler runs to its end before the next event, so a handler is one      *)
(* action.  What makes a handler more than an assignment is the journal:   *)
(* any append may fail, cleanly or leaving a torn record, and a failed one *)
(* runs the storage-failure path inside the handler, whose own writes may  *)
(* fail again.  A handler is therefore an operator from a gate to the SET  *)
(* of gates it may leave, and handlers compose as the calls in the code.   *)
(*                                                                         *)
(* A process crash between two writes of a handler leaves the files as a   *)
(* clean failure of the remaining writes does; so a crash inside a handler *)
(* is a failing handler followed by the process restart, and needs no      *)
(* action of its own.                                                      *)
(*                                                                         *)
(* The journal is kept as the accumulator of the loop in `rebuild' and in  *)
(* `Derived::from_journal': both are left folds, so what a restart reads   *)
(* from the whole journal is what the folds' steps, the J operators below, *)
(* have accumulated append by append.                                      *)
(***************************************************************************)
EXTENDS Naturals, Sequences, FiniteSets

CONSTANTS
  Executions,  \* execution ids a BIND may name
  Runs,        \* run nonces of the signed configuration
  Manifests,   \* manifest digests of the signed profile
  Case,        \* the manifests of each run
  Prior,       \* ids, nonces and manifests that earlier generations bound
  Uids,        \* object uids the apiserver may assign
  Conns,       \* names of accepted server connections
  MaxActions,  \* bound: actions of one execution
  MaxFaults,   \* bound: failing store writes
  None

\* A validated configuration lists a manifest in one run only (config.rs 138-147).
ASSUME CaseAssumption ==
  /\ Case \in [Runs -> SUBSET Manifests]
  /\ \A r, s \in Runs : r # s => Case[r] \cap Case[s] = {}

ASSUME BoundAssumption == MaxActions \in Nat /\ MaxFaults \in Nat

ASSUME NoneAssumption ==
  None \notin Executions \cup Runs \cup Manifests \cup Uids \cup Conns

VARIABLES
  gate,       \* the gate's memory, its journal and its marker
  forwarded,  \* every request the gate has sent upstream
  answered    \* those whose settling answer arrived while they were in flight

vars == <<gate, forwarded, answered>>

-----------------------------------------------------------------------------
(* The closed vocabularies (types.rs).                                     *)

State == {"INSPECTING", "ACTIVE", "DRAINING", "CLOSED", "INVALIDATED", "HELD"}
Classification == {"NOT_FORWARDED", "DELIVERED_RESULT", "IO_AMBIGUOUS"}
Status == {"ARMED", "CONSUMED", "TERMINAL"}

\* None stands for Option::None, which is no classification.
ASSUME ClassAssumption == None \notin Classification

Channel == {"UNOPENED", "OPEN", "CLOSED"}
Verb == {"CREATE", "GET", "DELETE"}

\* HTTP statuses, by what `outcome_is_final' tells apart: 201, 200, 4xx but 408, the rest.
Response == {"created", "ok", "rejected", "error"}

CloseReason == {"NORMAL_DRAIN", "REVOCATION", "RECONCILIATION_REQUIRED"}

\* What ARM names and the rendered request carries.
Template == [verb : Verb, manifest : Manifests, uid : Uids \cup {None}]

Stamp == [exec : Executions, id : 1..MaxActions]

Connection == [phase : {"absent", "queued", "open", "closed"}, stamp : Stamp \cup {None},
               requests : 0..2, consumed : BOOLEAN]

\* An action as the journal alone shows it.
Logged == [status : Status, class : Classification \cup {None}, after : BOOLEAN, sealed : BOOLEAN]

Action == [status : Status, class : Classification \cup {None}, after : BOOLEAN, sealed : BOOLEAN,
           armed : Template \cup {None}, conn : Conns \cup {None}]

\* The accumulator of the two journal folds.
Journal == [state : State, torn : BOOLEAN, consistent : BOOLEAN, actions : Seq(Logged),
            bound : Executions \cup {None}, run : Runs \cup {None}, expired : BOOLEAN,
            bindings : SUBSET (Executions \cup Runs)]

Gate == [state : State, drain : BOOLEAN, channel : Channel,
         bound : Executions \cup {None}, run : Runs \cup {None}, expired : BOOLEAN,
         bindings : SUBSET (Executions \cup Runs), actions : Seq(Action),
         keys : SUBSET (Manifests \cup Uids), uids : SUBSET (Manifests \X Uids),
         conns : [Conns -> Connection], journal : Journal, marker : BOOLEAN,
         ok : BOOLEAN, faults : 0..MaxFaults, residual : BOOLEAN]

Absent == [phase |-> "absent", stamp |-> None, requests |-> 0, consumed |-> FALSE]

EmptyJournal == [state |-> "HELD", torn |-> FALSE, consistent |-> TRUE, actions |-> <<>>,
                 bound |-> None, run |-> None, expired |-> FALSE, bindings |-> {}]

-----------------------------------------------------------------------------
(* The folds' steps: what one durable record of each kind adds to what a   *)
(* restart reads.  Records not listed (DRAIN_STARTED, LATE_UPSTREAM,       *)
(* CHANNEL_ENDED) change nothing a restart reads.                          *)

\* `update': a record about an action that no ARM introduced is an inconsistency.
JUpdate(j, i, a) ==
  IF i \in DOMAIN j.actions
    THEN [j EXCEPT !.actions[i] = a]
    ELSE [j EXCEPT !.consistent = FALSE]

JBind(j, e, r) ==
  [j EXCEPT !.actions = <<>>, !.bound = e, !.run = r, !.expired = FALSE,
            !.bindings = @ \cup {e, r}]

Rebuilt == [status |-> "ARMED", class |-> None, after |-> FALSE, sealed |-> FALSE]

\* The code inserts at any id.  MayArm hands out ids in order, so the other
\* branch marks a case that JournalConsistent shows never happens.
JArm(j, i) ==
  IF i = Len(j.actions) + 1
    THEN [j EXCEPT !.actions = Append(@, Rebuilt)]
    ELSE [j EXCEPT !.consistent = FALSE]

JConsumed(j, i) ==
  JUpdate(j, i, [j.actions[i] EXCEPT !.status = "CONSUMED", !.after = FALSE])

JTerminal(j, i, c, after) ==
  JUpdate(j, i, [j.actions[i] EXCEPT !.status = "TERMINAL", !.class = c, !.after = after])

JDenied(j, i) ==
  JUpdate(j, i, [j.actions[i] EXCEPT !.status = "TERMINAL", !.class = "NOT_FORWARDED"])

JSealed(j, i, c, after) ==
  JUpdate(j, i, [status |-> "TERMINAL", class |-> c, sealed |-> TRUE,
                 after |-> after /\ c # "NOT_FORWARDED"])

AfterInvalidation(a) == [a EXCEPT !.after = @ \/ a.status = "CONSUMED"]

JExpired(j, e) ==
  [j EXCEPT !.actions = [i \in DOMAIN @ |-> AfterInvalidation(@[i])],
            !.expired = @ \/ j.bound = e]

JInvalidated(j, s) ==
  [j EXCEPT !.state = s, !.actions = [i \in DOMAIN @ |-> AfterInvalidation(@[i])]]

\* CLOSED, DRAINED and RESTARTED carry the state and nothing else.
JState(j, s) == [j EXCEPT !.state = s]

-----------------------------------------------------------------------------
(* Questions about a gate.                                                 *)

Ids(g) == DOMAIN g.actions
Armed(g) == {i \in Ids(g) : g.actions[i].status = "ARMED"}
InFlight(g) == {i \in Ids(g) : g.actions[i].status = "CONSUMED"}
Settled(a) == a.status = "TERMINAL" /\ a.sealed
AllSettled(g) == \A i \in Ids(g) : Settled(g.actions[i])
AnyAmbiguous(g) == \E i \in Ids(g) : g.actions[i].class = "IO_AMBIGUOUS"

\* Mutant: the fence does not wait for the action in flight.
FenceEarly(g) ==
  IF g.state = "HELD" THEN "HELD"
  ELSE IF g.state \in {"CLOSED", "INVALIDATED"} THEN "OPEN" ELSE "PENDING"

Fence(g) ==
  IF g.state = "HELD" THEN "HELD"
  ELSE IF g.state \in {"CLOSED", "INVALIDATED"} /\ InFlight(g) = {} THEN "OPEN"
  ELSE "PENDING"

Orderly(g) == g.state \in {"CLOSED", "INVALIDATED"} /\ AllSettled(g)

\* The state a restart derives from the journal and the marker.
Clean(j) == \A i \in DOMAIN j.actions :
              Settled(j.actions[i]) /\ j.actions[i].class # "IO_AMBIGUOUS"

RestartState(j, marker) ==
  IF /\ ~marker /\ ~j.torn /\ j.consistent
     /\ Clean(j)
     /\ j.state \in {"CLOSED", "INVALIDATED"}
    THEN j.state
    ELSE "HELD"

-----------------------------------------------------------------------------
(* The store and the storage-failure path.                                 *)

\* One append: durable, so that the journal is now j; or failed, leaving a
\* torn record or nothing.
Attempt(g, j) ==
  {[g EXCEPT !.journal = j, !.ok = TRUE]}
    \cup {[g EXCEPT !.journal.torn = @ \/ torn, !.ok = FALSE, !.faults = @ + 1] :
            torn \in {b \in BOOLEAN : g.faults < MaxFaults}}

\* The marker is written once; the write may fail.
WriteMarker(g) ==
  {[g EXCEPT !.marker = TRUE]}
    \cup {[g EXCEPT !.faults = @ + 1] : b \in {b \in {TRUE} : ~g.marker /\ g.faults < MaxFaults}}

MarkInFlight(g) ==
  [g EXCEPT !.actions = [i \in DOMAIN @ |-> AfterInvalidation(@[i])]]

\* Connections that carry the stamp and were not consumed are closed.
CloseStamped(g, i) ==
  [g EXCEPT !.conns = [c \in Conns |->
     IF /\ @[c].phase = "open" /\ ~@[c].consumed
        /\ g.bound # None /\ @[c].stamp = [exec |-> g.bound, id |-> i]
       THEN [@[c] EXCEPT !.phase = "closed"] ELSE @[c]]]

Terminate(g, i, c) ==
  [g EXCEPT !.actions[i].status = "TERMINAL", !.actions[i].class = c]

\* One turn of deny_armed's loop, before its record.
Deny(g, i) == Terminate(CloseStamped(g, i), i, "NOT_FORWARDED")

\* At most one action is armed (OneOutstanding), so the loop turns once.
ArmedId(g) == CHOOSE i \in Armed(g) : TRUE

\* deny_armed inside the storage-failure path, where a failed DENIED is dropped.
DenyFailing(g) ==
  IF Armed(g) = {} THEN {g}
  ELSE LET i == ArmedId(g) IN Attempt(Deny(g, i), JDenied(g.journal, i))

\* Entered with g the gate after the failed append.  `residual' remembers
\* that neither the marker nor the INVALIDATED record could be written.
StorageFailure(g) ==
  LET held == MarkInFlight([g EXCEPT !.state = "HELD"])
      invalidated == UNION {Attempt(m, JInvalidated(m.journal, "HELD")) : m \in WriteMarker(held)}
  IN UNION {DenyFailing([v EXCEPT !.residual = @ \/ (~v.marker /\ ~v.ok)]) : v \in invalidated}

\* `record': append, and on failure run the storage-failure path.
Record(g, j) ==
  LET tried == Attempt(g, j) IN
  {t \in tried : t.ok}
    \cup UNION {{[h EXCEPT !.ok = FALSE] : h \in StorageFailure(t)} : t \in {u \in tried : ~u.ok}}

DenyArmed(g) ==
  IF Armed(g) = {} THEN {g}
  ELSE LET i == ArmedId(g) IN Record(Deny(g, i), JDenied(g.journal, i))

Urgent(g, s) ==
  LET h == MarkInFlight([g EXCEPT !.state = IF @ = "HELD" THEN @ ELSE s])
  IN UNION {DenyArmed(k) : k \in Record(h, JInvalidated(h.journal, h.state))}

Fatal(g) ==
  {[h EXCEPT !.state = "HELD"] : h \in Urgent([g EXCEPT !.channel = "CLOSED"], "HELD")}

SettleDrain(g) ==
  LET h == IF g.state = "DRAINING" /\ InFlight(g) = {}
             THEN [g EXCEPT !.state = IF AnyAmbiguous(g) THEN "HELD" ELSE "CLOSED"]
             ELSE g
  IN IF ~g.drain THEN {g}
     ELSE IF Fence(h) = "PENDING" THEN {h}
     ELSE Record([h EXCEPT !.drain = FALSE], JState(h.journal, h.state))

\* `handle': every event settles a waiting drain after its own handler.
Handle(gates) == UNION {SettleDrain(g) : g \in gates}

-----------------------------------------------------------------------------
(* The handlers.                                                           *)

\* One connection per worker request: queued by the listener, then accepted
\* and stamped with the action armed at that moment.
Backlog(g, c) == {[g EXCEPT !.conns[c].phase = "queued"]}

Accept(g, c) ==
  LET stamp == IF Armed(g) # {} /\ g.bound # None
                 THEN [exec |-> g.bound, id |-> ArmedId(g)] ELSE None
  IN {[g EXCEPT !.conns[c] = [Absent EXCEPT !.phase = "open", !.stamp = stamp]]}

\* A connection that ended before its request is forgotten.
Disconnect(g, c) == {[g EXCEPT !.conns[c] = Absent]}

\* A1 and C1 to C5 for a request on connection c.  `exact' says that its
\* certificate is the run's and its bytes are those the stamped action renders.
Admit(g, c, exact) ==
  LET conn == g.conns[c] IN
  /\ conn.phase = "open"
  /\ conn.requests = 1
  /\ g.bound # None
  /\ g.state = "ACTIVE" /\ ~g.drain /\ g.channel = "OPEN"
  /\ ~g.expired
  /\ conn.stamp # None
  /\ conn.stamp.exec = g.bound
  /\ conn.stamp.id \in Armed(g)
  /\ exact

CloseConn(g, c) ==
  [g EXCEPT !.conns[c].phase = IF @ = "open" THEN "closed" ELSE @]

\* Mutant: C5 dropped, the other connections of the action stay open.
ConsumeLeavingOthers(g, c, i) ==
  {IF h.ok
     THEN [h EXCEPT !.actions[i].status = "CONSUMED", !.actions[i].conn = c,
                    !.actions[i].after = FALSE, !.conns[c].consumed = TRUE]
     ELSE CloseConn(h, c) : h \in Record(g, JConsumed(g.journal, i))}

\* CONSUMED is durable before the request is forwarded.
Consume(g, c, i) ==
  {IF h.ok
     THEN CloseStamped([h EXCEPT !.actions[i].status = "CONSUMED", !.actions[i].conn = c,
                                 !.actions[i].after = FALSE, !.conns[c].consumed = TRUE], i)
     ELSE CloseConn(h, c) : h \in Record(g, JConsumed(g.journal, i))}

Request(g, c, exact) ==
  LET counted == [g EXCEPT !.conns[c].requests = IF @ = 2 THEN @ ELSE @ + 1]
  IN IF Admit(counted, c, exact)
       THEN Consume(counted, c, g.conns[c].stamp.id)
       ELSE {CloseConn(counted, c)}

ForwardedOn(g, c) == {i \in Ids(g) : g.actions[i].conn = c /\ g.actions[i].status # "ARMED"}

\* outcome_is_final: whether the response settles the request.
OutcomeIsFinal(verb, response) ==
  \/ verb = "GET"
  \/ response = "rejected"
  \/ verb = "CREATE" /\ response = "created"
  \/ verb = "DELETE" /\ response = "ok"

\* Mutant: a late answer is classified like the first one.
UpstreamLate(g, c, i, response, uid) ==
  LET final == response # "lost" /\ g.actions[i].armed # None
                 /\ OutcomeIsFinal(g.actions[i].armed.verb, response)
      class == IF final THEN "DELIVERED_RESULT" ELSE "IO_AMBIGUOUS"
  IN {CloseConn([Terminate(h, i, class) EXCEPT !.state = IF final THEN @ ELSE "HELD"], c) :
        h \in Record(g, JTerminal(g.journal, i, class, g.actions[i].after))}

\* TERMINAL is durable before anything is relayed to the worker.
Upstream(g, c, i, response, uid) ==
  LET a == g.actions[i]
      class == IF response # "lost" /\ OutcomeIsFinal(a.armed.verb, response)
                 THEN "DELIVERED_RESULT" ELSE "IO_AMBIGUOUS"
      created == a.armed.verb = "CREATE" /\ response = "created" /\ uid # None
      Done(h) ==
        IF h.ok /\ class = "DELIVERED_RESULT"
          THEN [Terminate(h, i, class) EXCEPT
                  !.uids = IF created THEN @ \cup {<<a.armed.manifest, uid>>} ELSE @]
          ELSE [Terminate(h, i, "IO_AMBIGUOUS") EXCEPT !.state = "HELD"]
  IN IF a.status = "TERMINAL"
       THEN Record(g, g.journal)
       ELSE {CloseConn(Done(h), c) : h \in Record(g, JTerminal(g.journal, i, class, a.after))}

\* The 900-second bound of a forwarded exchange.
Timeout(g, c, i) ==
  {CloseConn([Terminate(h, i, "IO_AMBIGUOUS") EXCEPT !.state = "HELD"], c) :
     h \in Record(g, JTerminal(g.journal, i, "IO_AMBIGUOUS", g.actions[i].after))}

\* I07 WRITE_BEGIN: the gate's normal drain.
Drain(g) ==
  LET h == [g EXCEPT !.state = IF @ \in {"ACTIVE", "INSPECTING"} THEN "DRAINING" ELSE @,
                     !.drain = TRUE]
      started == IF g.drain THEN {h} ELSE Record(h, h.journal)
  IN UNION {SettleDrain(k) : k \in UNION {DenyArmed(s) : s \in started}}

Expire(g) ==
  LET h == MarkInFlight([g EXCEPT !.expired = TRUE])
  IN UNION {DenyArmed(k) : k \in Record(h, JExpired(h.journal, g.bound))}

Bind(g, e, r) ==
  {IF h.ok
     THEN [h EXCEPT !.bound = e, !.run = r, !.expired = FALSE, !.actions = <<>>,
                    !.keys = {}, !.uids = {}, !.bindings = @ \cup {e, r}]
     ELSE h : h \in Record(g, JBind(g.journal, e, r))}

MayBind(g, e, r) ==
  /\ g.channel = "OPEN"
  /\ g.state = "ACTIVE"
  /\ AllSettled(g)
  /\ {e, r} \cap (g.bindings \cup Prior) = {}
  /\ Case[r] \cap Prior = {}

\* Mutant: only deletions have a key.
MutationKeyOfDelete(t) == IF t.verb = "DELETE" THEN {t.uid} ELSE {}

\* C7: the object a mutation names, used once in an execution.
MutationKey(t) ==
  IF t.verb = "CREATE" THEN {t.manifest} ELSE IF t.verb = "DELETE" THEN {t.uid} ELSE {}

\* C2: every unconsumed connection, and every queued one, is closed.
Flush(g) ==
  [g EXCEPT !.conns = [c \in Conns |->
     IF @[c].phase = "queued" \/ (@[c].phase = "open" /\ ~@[c].consumed)
       THEN [@[c] EXCEPT !.phase = "closed"] ELSE @[c]]]

Arm(g, t) ==
  LET i == Len(g.actions) + 1 IN
  {IF h.ok
     THEN [h EXCEPT !.keys = @ \cup MutationKey(t),
                    !.actions = Append(@, [status |-> "ARMED", class |-> None, after |-> FALSE,
                                           sealed |-> FALSE, armed |-> t, conn |-> None])]
     ELSE h : h \in Record(Flush(g), JArm(g.journal, i))}

MayArm(g, e, t) ==
  /\ g.channel = "OPEN"
  /\ g.state = "ACTIVE"
  /\ g.bound = e
  /\ ~g.expired
  /\ AllSettled(g)
  /\ Len(g.actions) < MaxActions
  /\ t.manifest \in Case[g.run]
  /\ (t.verb = "DELETE") <=> (t.uid # None)
  /\ t.verb = "DELETE" => <<t.manifest, t.uid>> \in g.uids
  /\ MutationKey(t) \cap g.keys = {}

\* ACTION_OUTCOME seals: the action can no longer be consumed and its
\* classification is frozen; one still in flight is cut off.
Outcome(g, i) ==
  LET a == g.actions[i]
      cut == IF a.status = "ARMED" THEN Deny(g, i)
             ELSE IF a.status = "CONSUMED"
               THEN [Terminate(IF a.conn = None THEN g ELSE CloseConn(g, a.conn), i, "IO_AMBIGUOUS")
                       EXCEPT !.state = "HELD"]
             ELSE g
  IN {IF h.ok THEN [h EXCEPT !.actions[i].sealed = TRUE] ELSE h :
        h \in Record(cut, JSealed(cut.journal, i, cut.actions[i].class, a.after))}

MaySeal(g, e, i) ==
  g.channel = "OPEN" /\ g.bound = e /\ i \in Ids(g) /\ ~g.actions[i].sealed

\* CLOSE_GENERATION.  A normal drain is refused while an action is in flight.
Close(g, reason) ==
  IF g.state \in {"CLOSED", "INVALIDATED", "HELD"}
    THEN LET held == [g EXCEPT !.state = "HELD"] IN
         UNION {DenyArmed(h) : h \in
           IF reason = "RECONCILIATION_REQUIRED" /\ g.state # "HELD"
             THEN Record(held, JInvalidated(g.journal, "HELD"))
             ELSE {g}}
  ELSE IF reason = "NORMAL_DRAIN"
    THEN IF InFlight(g) # {} THEN {g}
         ELSE LET closed == [g EXCEPT !.state = IF AnyAmbiguous(g) THEN "HELD" ELSE "CLOSED"]
              IN UNION {DenyArmed(h) : h \in Record(closed, JState(g.journal, closed.state))}
  ELSE Urgent(g, IF reason = "RECONCILIATION_REQUIRED" THEN "HELD" ELSE "INVALIDATED")

ChannelLost(g) ==
  IF g.channel = "CLOSED" THEN {g}
  ELSE IF g.channel = "UNOPENED" \/ Orderly(g)
    THEN Record([g EXCEPT !.channel = "CLOSED"], g.journal)
  ELSE Fatal(g)

\* An action the journal shows, after the fix-up at the end of `rebuild'.
Revived(a) ==
  [status |-> "TERMINAL",
   class |-> IF a.status = "CONSUMED" THEN "IO_AMBIGUOUS"
             ELSE IF a.status = "ARMED" THEN "NOT_FORWARDED" ELSE a.class,
   after |-> a.after \/ a.status = "CONSUMED",
   sealed |-> a.sealed, armed |-> None, conn |-> None]

\* A restart forgets what was queued and closes what was open.
Dropped(conn) ==
  IF conn.phase = "queued" THEN Absent
  ELSE IF conn.phase = "open" THEN [conn EXCEPT !.phase = "closed"] ELSE conn

\* restart_with: deny first.  `floor' holds the generation whatever the I05
\* rebuild found (an ambiguous I07 write).
Restarted(g, floor) ==
  [g EXCEPT !.state = IF floor THEN "HELD" ELSE RestartState(g.journal, g.marker),
            !.actions = [i \in DOMAIN g.journal.actions |-> Revived(g.journal.actions[i])],
            !.conns = [c \in Conns |-> Dropped(@[c])],
            !.channel = "CLOSED", !.drain = FALSE]

\* The GATE_RESTART event, inside the process.
GateRestart(g, floor) ==
  LET h == Restarted(g, floor) IN Record(h, JState(h.journal, h.state))

\* Gate::open: a new process, whose memory is what the journal derives.
Reopened(g) ==
  [g EXCEPT !.bound = g.journal.bound, !.run = g.journal.run, !.expired = g.journal.expired,
            !.bindings = g.journal.bindings, !.keys = {}, !.uids = {},
            !.conns = [c \in Conns |-> Absent]]

-----------------------------------------------------------------------------
(* The events.  One that the code refuses changes nothing and is not an    *)
(* action; the guards are the conditions under which a handler acts.       *)

\* The append result is local to a handler.
Quiet(gates) == {[g EXCEPT !.ok = TRUE] : g \in gates}

\* An event that sends nothing upstream.
Step(gates) == gate' \in Quiet(Handle(gates)) /\ UNCHANGED <<forwarded, answered>>

OnBacklog(c) == gate.conns[c].phase = "absent" /\ Step(Backlog(gate, c))

OnAccept(c) == gate.conns[c].phase = "queued" /\ Step(Accept(gate, c))

OnDisconnect(c) ==
  /\ gate.conns[c].phase \in {"open", "closed"} /\ gate.conns[c].requests = 0
  /\ Step(Disconnect(gate, c))

\* What the handler sent: the action it moved to CONSUMED.
Sent(g, h) ==
  {[exec |-> h.bound, id |-> i, template |-> h.actions[i].armed] : i \in InFlight(h) \ InFlight(g)}

OnRequest(c, exact) ==
  /\ gate.conns[c].phase \in {"open", "closed"}
  /\ gate' \in Quiet(Handle(Request(gate, c, exact)))
  /\ forwarded' = forwarded \cup Sent(gate, gate')
  /\ UNCHANGED answered

Settling(g, i, response) ==
  {f \in forwarded : /\ f.exec = g.bound /\ f.id = i /\ i \in InFlight(g)
                     /\ response # "lost" /\ OutcomeIsFinal(f.template.verb, response)}

\* The upstream answers, or the exchange is lost.  Whether an answer settles
\* the request is a fact about the apiserver, not about the gate's records.
OnUpstream(c, i, response, uid) ==
  /\ i \in ForwardedOn(gate, c)
  /\ gate' \in Quiet(Handle(Upstream(gate, c, i, response, uid)))
  /\ answered' = answered \cup Settling(gate, i, response)
  /\ UNCHANGED forwarded

OnTimeout(c, i) ==
  i \in ForwardedOn(gate, c) \cap InFlight(gate) /\ Step(Timeout(gate, c, i))

OnDrain == Step(Drain(gate))

OnExpire == gate.bound # None /\ ~gate.expired /\ Step(Expire(gate))

\* The first frame, GENERATION_STATUS, opens the generation's one channel.
OnOpen == gate.channel = "UNOPENED" /\ Step({[gate EXCEPT !.channel = "OPEN"]})

OnBind(e, r) == MayBind(gate, e, r) /\ Step(Bind(gate, e, r))

OnArm(e, t) == MayArm(gate, e, t) /\ Step(Arm(gate, t))

OnOutcome(e, i) == MaySeal(gate, e, i) /\ Step(Outcome(gate, i))

OnClose(reason) == gate.channel = "OPEN" /\ Step(Close(gate, reason))

OnChannelLost == gate.channel # "CLOSED" /\ Step(ChannelLost(gate))

\* A frame that breaks the channel's rules, a changed peer, a late answer or
\* a response out of bounds: one fatal path for all of them.
OnFatal == gate.channel # "CLOSED" /\ Step(Fatal(gate))

OnGateRestart == Step(GateRestart(gate, FALSE))

\* The process dies, at any point between two handlers, and starts again.
OnProcessRestart == Step(GateRestart(Reopened(gate), FALSE))

InitialGate(s) ==
  [state |-> s, drain |-> FALSE, channel |-> "UNOPENED", bound |-> None, run |-> None,
   expired |-> FALSE, bindings |-> {}, actions |-> <<>>, keys |-> {}, uids |-> {},
   conns |-> [c \in Conns |-> Absent], journal |-> EmptyJournal, marker |-> FALSE,
   ok |-> TRUE, faults |-> 0, residual |-> FALSE]

Init ==
  /\ gate \in {InitialGate(s) : s \in State}
  /\ forwarded = {} /\ answered = {}

Worker ==
  \E c \in Conns :
    \/ OnBacklog(c) \/ OnAccept(c) \/ OnDisconnect(c)
    \/ \E exact \in BOOLEAN : OnRequest(c, exact)

Apiserver ==
  \E c \in Conns, i \in 1..MaxActions :
    \/ \E response \in Response \cup {"lost"}, uid \in Uids \cup {None} : OnUpstream(c, i, response, uid)
    \/ OnTimeout(c, i)

Broker ==
  \/ OnOpen \/ OnChannelLost \/ OnFatal
  \/ \E e \in Executions :
       \/ \E r \in Runs : OnBind(e, r)
       \/ \E t \in Template : OnArm(e, t)
       \/ \E i \in 1..MaxActions : OnOutcome(e, i)
  \/ \E reason \in CloseReason : OnClose(reason)

Next ==
  \/ Worker \/ Apiserver \/ Broker
  \/ OnDrain \/ OnExpire \/ OnGateRestart \/ OnProcessRestart

Spec == Init /\ [][Next]_vars

-----------------------------------------------------------------------------
(* Properties.                                                             *)

\* Types, and that an action has a classification exactly when it is terminal.
TypeOK ==
  /\ gate \in Gate
  /\ \A i \in Ids(gate) : gate.actions[i].status = "TERMINAL" <=> gate.actions[i].class # None
  /\ forwarded \subseteq [exec : Executions, id : 1..MaxActions, template : Template]
  /\ answered \subseteq forwarded

\* A3 fence: when the gate answers OPEN to a writer, every request it ever
\* forwarded, in any execution of the generation, has its settling answer.
FenceProtects == Fence(gate) = "OPEN" => forwarded = answered

\* The same across a crash: while one forwarded request has no settling
\* answer, a restart at this point leaves the generation HELD, whatever
\* writes have failed (`rebuild').
UnknownIsHeld == forwarded # answered => RestartState(gate.journal, gate.marker) = "HELD"

\* C2, C3, C5: an open, unconsumed, stamped connection was accepted for the
\* action that is armed now, and none is left over from an earlier one; and
\* C7 over the whole generation: no mutation is ever forwarded twice.
StampsCurrent ==
  /\ \A c \in Conns :
       LET conn == gate.conns[c] IN
       conn.phase = "open" /\ ~conn.consumed /\ conn.stamp # None =>
         conn.stamp.exec = gate.bound /\ conn.stamp.id \in Armed(gate)
  /\ \A f, h \in forwarded : f # h /\ f.template.verb # "GET" => f.template # h.template

\* What the gate forwards stays within its three promises at once: a writer
\* finds the fence open only when nothing forwarded is unsettled, a stamp is
\* only ever good for the action it was given for, and no mutation goes out
\* twice, through crashes, rebinds and late answers.
\* (gate.rs fence, accept_worker, flush, arm)
ForwardingGuarded == FenceProtects /\ StampsCurrent

\* How strict a generation's state is.
Rank(s) == IF s \in {"INSPECTING", "ACTIVE"} THEN 0
           ELSE IF s = "DRAINING" THEN 1 ELSE IF s = "HELD" THEN 3 ELSE 2

\* What ACTION_OUTCOME told the broker of a sealed action never changes
\* while its execution stays bound: no late answer, failure or restart
\* alters it.
SealedFrozen ==
  [][\A i \in Ids(gate) :
       gate.actions[i].sealed /\ gate'.bound = gate.bound =>
         /\ i \in Ids(gate') /\ gate'.actions[i].sealed
         /\ gate'.actions[i].class = gate.actions[i].class]_vars

=============================================================================
