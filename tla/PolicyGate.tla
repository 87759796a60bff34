------------------------------ MODULE PolicyGate ------------------------------
(***************************************************************************)
(* The gate with its I07 policy-writer channel (effect-gate/src/           *)
(* policy_gate.rs) around the I05 gate of EffectGate: one maintenance of   *)
(* the generation, owned by one writer session, whose writes go upstream   *)
(* one at a time once the A3 fence is OPEN.  Both channels share one       *)
(* journal, so a failed write of either one holds the generation for both. *)
(*                                                                         *)
(* As in EffectGate a handler is an operator from a state to the set of    *)
(* states it may leave; the state here is the pair [gate, policy].  The    *)
(* frame chain of a session (sequence, digests, challenge) is not kept:    *)
(* any frame that breaks it is WriterFatal.                                *)
(***************************************************************************)
EXTENDS EffectGate

CONSTANT MaxWrites  \* bound: writes of the maintenance

ASSUME WriteBoundAssumption == MaxWrites \in Nat

VARIABLES
  policy,    \* the maintenance, the session, the writes and what the journal shows of them
  written,   \* the ids of the writes sent upstream, one per send, in order
  confirmed  \* those whose settling answer arrived while they were outstanding

policyVars == <<gate, forwarded, answered, policy, written, confirmed>>

Maintenance == {"NONE", "PENDING", "OPEN", "HELD", "ENDED"}

\* A forwarded write, or its terminal classification.
WriteEntry == {"FORWARDED", "DELIVERED_RESULT", "IO_AMBIGUOUS"}

Session == [opened : BOOLEAN, owner : BOOLEAN]

\* `log' is the accumulator of the fold in `rebuild_writes'.  The reason of an
\* ended maintenance is only reported, and not kept.
Policy == [maint : Maintenance, session : Session \cup {None}, writes : Seq(WriteEntry),
           pending : 0..MaxWrites, log : Seq(WriteEntry)]

InitialPolicy == [maint |-> "NONE", session |-> None, writes |-> <<>>, pending |-> 0, log |-> <<>>]

-----------------------------------------------------------------------------
(* The restart's view of the writes.                                       *)

LogForwarded(l) == Append(l, "FORWARDED")

LogTerminal(l, id, class) == [l EXCEPT ![id] = class]

\* rebuild_writes' last step: a write with no terminal record is ambiguous.
RebuiltWrites(l) == [id \in DOMAIN l |-> IF l[id] = "FORWARDED" THEN "IO_AMBIGUOUS" ELSE l[id]]

\* Mutant: only a recorded ambiguity holds the restart.
WriteFloorRecorded(l) == \E id \in DOMAIN l : l[id] = "IO_AMBIGUOUS"

\* write_floor: an ambiguous write holds the restarted generation.
WriteFloor(l) == \E id \in DOMAIN l : RebuiltWrites(l)[id] = "IO_AMBIGUOUS"

-----------------------------------------------------------------------------
(* Helpers on a pair p = [gate, policy].                                   *)

\* gate.record with an I07 record, after which the fold reads `log'.
RecordWriter(p, log) ==
  {[gate |-> h, policy |-> IF h.ok THEN [p.policy EXCEPT !.log = log] ELSE p.policy] :
     h \in Record(p.gate, p.gate.journal)}

\* After every event the maintenance follows the fence: it opens only with a
\* durable MAINT_OPEN, and is held whatever becomes of MAINT_HELD.
SettleMaintenance(p) ==
  LET opened == IF p.policy.maint = "PENDING" /\ Fence(p.gate) = "OPEN"
                  THEN {IF q.gate.ok THEN [q EXCEPT !.policy.maint = "OPEN"] ELSE q :
                          q \in RecordWriter(p, p.policy.log)}
                  ELSE {p}
      Hold(q) == IF q.policy.maint \in {"PENDING", "OPEN"} /\ Fence(q.gate) = "HELD"
                   THEN RecordWriter([q EXCEPT !.policy.maint = "HELD"], q.policy.log)
                   ELSE {q}
  IN UNION {Hold(q) : q \in opened}

\* The gate gives up on the outstanding write: ambiguous, and HELD.
AbortPending(p) ==
  LET id == p.policy.pending IN
  IF id = 0 THEN {p}
  ELSE {[q EXCEPT !.policy.pending = 0, !.policy.writes[id] = "IO_AMBIGUOUS", !.gate.state = "HELD"] :
          q \in RecordWriter(p, LogTerminal(p.policy.log, id, "IO_AMBIGUOUS"))}

\* Ended whatever the record's result.
EndMaintenance(p) == RecordWriter([p EXCEPT !.policy.maint = "ENDED"], p.policy.log)

\* The owning session's end ends the maintenance.
EndSession(p) ==
  LET owner == p.policy.session # None /\ p.policy.session.owner
      gone == RecordWriter([p EXCEPT !.policy.session = None], p.policy.log)
  IN UNION {IF owner /\ q.policy.maint # "ENDED" THEN EndMaintenance(q) ELSE {q} : q \in gone}

-----------------------------------------------------------------------------
(* The handlers.                                                           *)

Connect(p) == {[p EXCEPT !.policy.session = [opened |-> FALSE, owner |-> FALSE]]}

\* The opening frame, MAINTENANCE_STATUS.
OpenSession(p) == {[p EXCEPT !.policy.session.opened = TRUE]}

WriterLost(p) == UNION {EndSession(q) : q \in AbortPending(p)}

\* A frame that breaks lockstep, the chain, the opening rule or a bound.
WriterFatal(p) == UNION {EndSession(q) : q \in AbortPending(p)}

\* The writer's custody failed, or the gate answered late.
Deviation(p) ==
  UNION {UNION {EndSession([q EXCEPT !.gate = [h EXCEPT !.state = "HELD"]]) :
                  h \in Urgent(q.gate, "HELD")} : q \in AbortPending(p)}

\* WRITE_BEGIN: the first one records the request, takes ownership and drains
\* the gate; every one settles the maintenance before it answers.
Begin(p) ==
  LET Taken(q) == [q EXCEPT !.policy.session.owner = TRUE, !.policy.maint = "PENDING"]
  IN IF p.policy.maint # "NONE" THEN SettleMaintenance(p)
     ELSE UNION {IF q.gate.ok
                   THEN UNION {SettleMaintenance([Taken(q) EXCEPT !.gate = h]) : h \in Drain(q.gate)}
                   ELSE {q} :
                 q \in RecordWriter(p, p.policy.log)}

\* Mutant: a write is compared with the number of the last one.
WriteObjectAgain(p) ==
  LET id == IF p.policy.writes = <<>> THEN 1 ELSE Len(p.policy.writes) IN
  {IF q.gate.ok
     THEN [q EXCEPT !.policy.writes = Append(@, "FORWARDED"), !.policy.pending = id]
     ELSE q : q \in RecordWriter(p, LogForwarded(p.policy.log))}

\* WRITE_FORWARDED is durable before the write is sent.
WriteObject(p) ==
  LET id == Len(p.policy.writes) + 1 IN
  {IF q.gate.ok
     THEN [q EXCEPT !.policy.writes = Append(@, "FORWARDED"), !.policy.pending = id]
     ELSE q : q \in RecordWriter(p, LogForwarded(p.policy.log))}

WriteEnd(p) ==
  {IF q.gate.ok THEN [q EXCEPT !.policy.maint = "ENDED"] ELSE q : q \in RecordWriter(p, p.policy.log)}

\* Mutant: a write without a settling answer stays outstanding.
WriteUpstreamWaits(p, id, final) ==
  IF p.policy.pending # id \/ ~final
    THEN RecordWriter(p, p.policy.log)
    ELSE {[q EXCEPT !.policy.pending = 0, !.policy.writes[id] = "DELIVERED_RESULT"] :
            q \in RecordWriter(p, LogTerminal(p.policy.log, id, "DELIVERED_RESULT"))}

\* The outcome of a write; one that is not outstanding any more is late.
WriteUpstream(p, id, final) ==
  LET class == IF final THEN "DELIVERED_RESULT" ELSE "IO_AMBIGUOUS"
      Done(q) == IF q.gate.ok /\ final
                   THEN [q EXCEPT !.policy.pending = 0, !.policy.writes[id] = class]
                   ELSE [q EXCEPT !.policy.pending = 0, !.policy.writes[id] = "IO_AMBIGUOUS",
                                  !.gate.state = "HELD"]
  IN IF p.policy.pending # id
       THEN RecordWriter(p, p.policy.log)
       ELSE {Done(q) : q \in RecordWriter(p, LogTerminal(p.policy.log, id, class))}

\* Mutant: a restart forgets that the generation had its maintenance.
RestartPolicyFresh(g, w) ==
  {[gate |-> h,
    policy |-> [w EXCEPT !.pending = 0, !.writes = RebuiltWrites(w.log), !.maint = "NONE",
                         !.session = None]] :
     h \in GateRestart(g, WriteFloor(w.log))}

\* GATE_RESTART with the I07 channel, and PolicyGate::open with g reopened:
\* nothing is recorded of the session and the maintenance that were lost.
RestartPolicy(g, w) ==
  {[gate |-> h,
    policy |-> [w EXCEPT !.pending = 0, !.writes = RebuiltWrites(w.log), !.maint = "ENDED",
                         !.session = None]] :
     h \in GateRestart(g, WriteFloor(w.log))}

-----------------------------------------------------------------------------
(* The events.                                                             *)

Pair == [gate |-> gate, policy |-> policy]

\* PolicyGate::handle after the handler proper: settle the drain, then the
\* maintenance.
Finish(pairs) ==
  \E p \in pairs : \E h \in SettleDrain(p.gate) : \E q \in SettleMaintenance([p EXCEPT !.gate = h]) :
    gate' = [q.gate EXCEPT !.ok = TRUE] /\ policy' = q.policy

BaseStep(gates) ==
  /\ Finish({[gate |-> g, policy |-> policy] : g \in gates})
  /\ UNCHANGED <<answered, written, confirmed>>

WriterStep(pairs) == Finish(pairs) /\ UNCHANGED <<forwarded, answered, confirmed>>

\* I05 events: the guards are EffectGate's, the drain is only started by WRITE_BEGIN.
PBacklog(c) ==
  gate.conns[c].phase = "absent" /\ BaseStep(Backlog(gate, c)) /\ UNCHANGED forwarded

PAccept(c) ==
  gate.conns[c].phase = "queued" /\ BaseStep(Accept(gate, c)) /\ UNCHANGED forwarded

PDisconnect(c) ==
  /\ gate.conns[c].phase \in {"open", "closed"} /\ gate.conns[c].requests = 0
  /\ BaseStep(Disconnect(gate, c)) /\ UNCHANGED forwarded

PRequest(c, exact) ==
  /\ gate.conns[c].phase \in {"open", "closed"}
  /\ BaseStep(Request(gate, c, exact))
  /\ forwarded' = forwarded \cup Sent(gate, gate')

PUpstream(c, i, response, uid) ==
  /\ i \in ForwardedOn(gate, c)
  /\ Finish({[gate |-> g, policy |-> policy] : g \in Upstream(gate, c, i, response, uid)})
  /\ answered' = answered \cup Settling(gate, i, response)
  /\ UNCHANGED <<forwarded, written, confirmed>>

PTimeout(c, i) ==
  /\ i \in ForwardedOn(gate, c) \cap InFlight(gate)
  /\ BaseStep(Timeout(gate, c, i)) /\ UNCHANGED forwarded

PExpire ==
  gate.bound # None /\ ~gate.expired /\ BaseStep(Expire(gate)) /\ UNCHANGED forwarded

POpen ==
  gate.channel = "UNOPENED" /\ BaseStep({[gate EXCEPT !.channel = "OPEN"]}) /\ UNCHANGED forwarded

PBind(e, r) == MayBind(gate, e, r) /\ BaseStep(Bind(gate, e, r)) /\ UNCHANGED forwarded

PArm(e, t) == MayArm(gate, e, t) /\ BaseStep(Arm(gate, t)) /\ UNCHANGED forwarded

POutcome(e, i) == MaySeal(gate, e, i) /\ BaseStep(Outcome(gate, i)) /\ UNCHANGED forwarded

PClose(reason) == gate.channel = "OPEN" /\ BaseStep(Close(gate, reason)) /\ UNCHANGED forwarded

PChannelLost == gate.channel # "CLOSED" /\ BaseStep(ChannelLost(gate)) /\ UNCHANGED forwarded

PFatal == gate.channel # "CLOSED" /\ BaseStep(Fatal(gate)) /\ UNCHANGED forwarded

\* I07 events.
OnConnect == policy.session = None /\ WriterStep(Connect(Pair)) /\ UNCHANGED written

OnWriterLost == policy.session # None /\ WriterStep(WriterLost(Pair)) /\ UNCHANGED written

OnWriterFatal == policy.session # None /\ WriterStep(WriterFatal(Pair)) /\ UNCHANGED written

OnDeviation == policy.session # None /\ WriterStep(Deviation(Pair)) /\ UNCHANGED written

OnOpenSession ==
  /\ policy.session # None /\ ~policy.session.opened
  /\ WriterStep(OpenSession(Pair)) /\ UNCHANGED written

\* A frame of an opened session, when no write is outstanding.
MayOperate == policy.session # None /\ policy.session.opened /\ policy.pending = 0

OnBegin ==
  /\ MayOperate /\ policy.maint # "ENDED"
  /\ WriterStep(Begin(Pair)) /\ UNCHANGED written

OnWriteObject ==
  /\ MayOperate /\ policy.maint = "OPEN" /\ Len(policy.writes) < MaxWrites
  /\ WriterStep(WriteObject(Pair))
  /\ written' = IF policy'.pending = 0 THEN written ELSE Append(written, policy'.pending)

OnWriteEnd ==
  /\ MayOperate /\ policy.maint \notin {"NONE", "ENDED"}
  /\ WriterStep(WriteEnd(Pair)) /\ UNCHANGED written

\* The write's outcome: a settling answer, or a loss, a timeout or an answer
\* that settles nothing.
OnWriteUpstream(id, final) ==
  /\ id \in DOMAIN policy.writes
  /\ Finish(WriteUpstream(Pair, id, final))
  /\ confirmed' = IF final /\ policy.pending = id THEN confirmed \cup {id} ELSE confirmed
  /\ UNCHANGED <<forwarded, answered, written>>

\* The process dies and starts again.
PProcessRestart ==
  WriterStep(RestartPolicy(Reopened(gate), policy)) /\ UNCHANGED written

PolicyInit == Init /\ policy = InitialPolicy /\ written = <<>> /\ confirmed = {}

PWorker ==
  \E c \in Conns :
    \/ PBacklog(c) \/ PAccept(c) \/ PDisconnect(c)
    \/ \E exact \in BOOLEAN : PRequest(c, exact)

PApiserver ==
  \/ \E c \in Conns, i \in 1..MaxActions :
       \/ \E response \in Response \cup {"lost"}, uid \in Uids \cup {None} : PUpstream(c, i, response, uid)
       \/ PTimeout(c, i)
  \/ \E id \in 1..MaxWrites, final \in BOOLEAN : OnWriteUpstream(id, final)

PBroker ==
  \/ POpen \/ PChannelLost \/ PFatal
  \/ \E e \in Executions :
       \/ \E r \in Runs : PBind(e, r)
       \/ \E t \in Template : PArm(e, t)
       \/ \E i \in 1..MaxActions : POutcome(e, i)
  \/ \E reason \in CloseReason : PClose(reason)

PWriter ==
  \/ OnConnect \/ OnWriterLost \/ OnWriterFatal \/ OnDeviation \/ OnOpenSession
  \/ OnBegin \/ OnWriteObject \/ OnWriteEnd

PolicyNext == PWorker \/ PApiserver \/ PBroker \/ PWriter \/ PExpire \/ PProcessRestart

PolicySpec == PolicyInit /\ [][PolicyNext]_policyVars

\* The 900-second bound of an I05 exchange, and the bound of an I07 write.
PolicyFairSpec ==
  /\ PolicySpec
  /\ \A c \in Conns, i \in 1..MaxActions : WF_policyVars(PTimeout(c, i))
  /\ \A id \in 1..MaxWrites : WF_policyVars(policy.pending = id /\ OnWriteUpstream(id, FALSE))

-----------------------------------------------------------------------------
(* Properties.                                                             *)

\* The writes sent so far.
Written == {written[i] : i \in DOMAIN written}

\* A restart at this point leaves the generation HELD.
HeldAfterRestart == RestartState(gate.journal, gate.marker) = "HELD" \/ WriteFloor(policy.log)

\* A write sent without a settling answer is outstanding, or holds the
\* generation; and in both cases a restart holds it, whatever writes failed.
\* The I07 channel holds the generation without a record of its own
\* (`set_state'); that hold survives a restart all the same.  The base gate's
\* promise for the worker's requests holds with them (`rebuild').  And while a
\* policy write is outstanding no worker request is, and every worker request
\* ever forwarded has its settling answer (`settle_maintenance').
UnknownHolds ==
  /\ UnknownIsHeld
  /\ policy.pending # 0 => InFlight(gate) = {} /\ forwarded = answered
  /\ Written # confirmed =>
       HeldAfterRestart /\ (gate.state = "HELD" \/ Written = confirmed \cup {policy.pending})
  /\ gate.state = "HELD" /\ ~gate.residual => HeldAfterRestart

\* A generation only ever gets stricter, through failures and restarts too;
\* the one exception is a restart after the disclosed residual.  Once a
\* maintenance has ended no write is ever sent again, by any session and
\* after any restart; and a step sends one write at most, under an id that was
\* never sent before (write_object's id check, over failures and restarts).
NeverReopens ==
  [][/\ Rank(gate.state) <= Rank(gate'.state) \/ (gate.residual /\ Rank(gate'.state) = 2)
     /\ policy.maint = "ENDED" => policy'.maint = "ENDED" /\ written' = written
     /\ written' # written =>
          written' = Append(written, policy'.pending) /\ policy'.pending \notin Written]_policyVars

\* A waiting maintenance is opened, held or ended, and an outstanding write is
\* settled or given up.
WriterNotStuck ==
  /\ policy.maint = "PENDING" ~> policy.maint # "PENDING"
  /\ policy.pending # 0 ~> policy.pending = 0
=============================================================================
