---------------------------- MODULE PolicyProofs ----------------------------
(***************************************************************************)
(* The gate with its policy writer: why a policy write is sent over no     *)
(* unknown result and never forgotten, and why nothing reopens.  PolicyInv *)
(* adds the policy to GateInv: its writes are the log's, and one without a *)
(* settling answer is outstanding or holds the generation.  What an event  *)
(* comes to is PolicySteps.                                                *)
(***************************************************************************)
EXTENDS PolicyGate, GateProofs

\* A write that ended ambiguous, or whose end could not be recorded.  The
\* outstanding write is left out: its answer may still settle it.
WriteHolds(w) == \E id \in DOMAIN w.log : id # w.pending /\ w.log[id] # "DELIVERED_RESULT"

\* The writes W sent, of which those of C were settled, are the journal's, and
\* one without a settling answer is outstanding or holds the generation.
WritesKnown(w, s, W, C) ==
  /\ Len(w.log) = Len(w.writes) /\ W = 1 .. Len(w.writes) /\ C \subseteq W
  /\ w.pending # 0 => w.pending \in W
  /\ \A id \in W \ C : w.log[id] # "DELIVERED_RESULT" /\ (id = w.pending \/ s = "HELD")

\* Nothing of the worker's is unknown.
Quiesced(g, F, A) == Rank(g.state) >= 2 /\ InFlight(g) = {} /\ F = A

\* The inductive invariant of a gate and its policy: W were sent, C settled.
PolicyInv(g, w, F, A, W, C) ==
  /\ GateInv(g, F, A) /\ w \in Policy
  /\ HoldKept(g, WriteHolds(w)) /\ WritesKnown(w, g.state, W, C)
  /\ w.maint = "OPEN" \/ w.pending # 0 => Quiesced(g, F, A)

\* A gate and its policy.
Pairs == [gate : Gate, policy : Policy]

PairInv(p, F, A, W, C) == p \in Pairs /\ PolicyInv(p.gate, p.policy, F, A, W, C)

\* What a handler of the pair leaves, while nothing is sent and no restart happens.
PairKept(p, q) ==
  /\ Rank(p.gate.state) <= Rank(q.gate.state) /\ InFlight(q.gate) \subseteq InFlight(p.gate)
  /\ p.policy.maint = "ENDED" => q.policy.maint = "ENDED"

\* A handler that kept the invariant and undid nothing.
PairGood(p, q, F, A, W, C) == PairInv(q, F, A, W, C) /\ PairKept(p, q)

\* Handlers follow each other within an event.
LEMMA PairTransitive ==
  ASSUME NEW p, NEW q, NEW r, NEW F, NEW A, NEW W, NEW C,
         PairKept(p, q), PairGood(q, r, F, A, W, C)
  PROVE  PairGood(p, r, F, A, W, C)
<1>1. Rank(p.gate.state) \in Nat /\ Rank(q.gate.state) \in Nat /\ Rank(r.gate.state) \in Nat
  BY DEF Rank
<1> QED
  BY <1>1 DEF PairGood, PairKept

\* The strictest state is kept by a step that does not lower the rank.
LEMMA HeldStays ==
  ASSUME NEW s, NEW t, Rank(s) <= Rank(t)
  PROVE  /\ s = "HELD" => t = "HELD"
         /\ Rank(s) >= 2 => Rank(t) >= 2
  BY DEF Rank

\* A good step of the gate under an unchanged policy.
LEMMA PolicyUnderGood ==
  ASSUME NEW g, NEW h, NEW w, NEW F, NEW A, NEW B, NEW W, NEW C, PolicyInv(g, w, F, A, W, C),
         Steps(g, h, F, B, WriteHolds(w)), A \subseteq B
  PROVE  PolicyInv(h, w, F, B, W, C)
<1>1. /\ GateInv(h, F, B) /\ HoldKept(h, WriteHolds(w)) /\ Rank(g.state) <= Rank(h.state)
      /\ Rank(g.state) >= 2 => InFlight(h) \subseteq InFlight(g)
  BY DEF Steps, Sound
<1>2. WritesKnown(w, h.state, W, C)
  BY <1>1, HeldStays DEF PolicyInv, WritesKnown
<1>3. Quiesced(g, F, A) => Quiesced(h, F, B)
  <2>1. A \subseteq F /\ B \subseteq F
    BY <1>1 DEF PolicyInv, GateInv
  <2> QED
    BY <1>1, <2>1, HeldStays DEF Quiesced
<1> QED
  BY <1>1, <1>2, <1>3 DEF PolicyInv

\* The policy v has the writes of w.
SameWrites(w, v) == v \in Policy /\ v.writes = w.writes /\ v.pending = w.pending /\ v.log = w.log

\* A policy with the same writes keeps the invariant, if it may be open.
LEMMA SameWritesKeep ==
  ASSUME NEW g, NEW w, NEW v, NEW F, NEW A, NEW W, NEW C, PolicyInv(g, w, F, A, W, C),
         SameWrites(w, v), v.maint = "OPEN" => w.maint = "OPEN" \/ Quiesced(g, F, A)
  PROVE  PolicyInv(g, v, F, A, W, C)
<1>1. WriteHolds(v) = WriteHolds(w)
  BY DEF WriteHolds, SameWrites
<1>2. HoldKept(g, WriteHolds(v))
  BY <1>1 DEF PolicyInv
<1>3. WritesKnown(v, g.state, W, C)
  BY DEF PolicyInv, WritesKnown, SameWrites
<1> QED
  BY <1>2, <1>3 DEF PolicyInv, SameWrites

\* Only the log changed.
Relogged(w, v, log) == v = [w EXCEPT !.log = log]

\* An I07 record, written or failed.
LEMMA RecordWriterShape ==
  ASSUME NEW p \in Pairs, NEW log, NEW F, NEW A, GateInv(p.gate, F, A), NEW q \in RecordWriter(p, log)
  PROVE  /\ \/ q.gate.ok /\ Appended(p.gate, q.gate, p.gate.journal) /\ Relogged(p.policy, q.policy, log)
            \/ ~q.gate.ok /\ Failed(p.gate, q.gate, F, A) /\ q.policy = p.policy
         /\ q = [gate |-> q.gate, policy |-> q.policy]
<1>1. PICK h \in Record(p.gate, p.gate.journal) :
        q = [gate |-> h, policy |-> IF h.ok THEN [p.policy EXCEPT !.log = log] ELSE p.policy]
  BY DEF RecordWriter
<1>2. p.gate \in Gate /\ p.gate.journal \in Journal
  BY DEF Pairs, Gate
<1> DEFINE g == p.gate
           j == p.gate.journal
<1> HIDE DEF g, j
<1>4. GateInv(g, F, A) /\ j \in Journal /\ h \in Record(g, j)
  BY <1>2 DEF g, j
<1>5. \/ h.ok /\ Appended(g, h, j)
      \/ ~h.ok /\ Failed(g, h, F, A)
  BY <1>4, RecordShape
<1>3. \/ h.ok /\ Appended(p.gate, h, p.gate.journal)
      \/ ~h.ok /\ Failed(p.gate, h, F, A)
  BY <1>5 DEF g, j
<1> QED
  BY <1>1, <1>3 DEF Relogged

\* The same gate, but for the result of the append.
LEMMA SameGate ==
  ASSUME NEW g, NEW h, NEW F, NEW A, NEW w, GateInv(g, F, A), HoldKept(g, w), Appended(g, h, g.journal)
  PROVE  /\ Good(g, h, F, A, w) /\ h.state = g.state /\ h.actions = g.actions
         /\ h.journal = g.journal /\ h.marker = g.marker /\ h.residual = g.residual
<1>1. g \in Gate
  BY DEF GateInv
<1>2. h = [g EXCEPT !.ok = TRUE]
  BY Zenon, <1>1 DEF Appended, Gate
<1>3. Good(g, h, F, A, w)
  BY <1>2, QuietKeeps
<1> QED
  BY <1>1, <1>2, <1>3 DEF Gate

\* A record that says nothing of a write.
LEMMA NoteKeeps ==
  ASSUME NEW p, NEW F, NEW A, NEW W, NEW C, PairInv(p, F, A, W, C), NEW q \in RecordWriter(p, p.policy.log)
  PROVE  /\ PairGood(p, q, F, A, W, C) /\ q.policy = p.policy
         /\ q.gate.ok => q.gate.state = p.gate.state
<1>1. /\ p \in Pairs /\ p.policy \in Policy /\ GateInv(p.gate, F, A) /\ HoldKept(p.gate, WriteHolds(p.policy))
      /\ PolicyInv(p.gate, p.policy, F, A, W, C)
  BY DEF PairInv, PolicyInv
<1>2. q = [gate |-> q.gate, policy |-> q.policy]
  BY Zenon, <1>1, RecordWriterShape
<1>3. /\ Good(p.gate, q.gate, F, A, WriteHolds(p.policy)) /\ q.policy = p.policy
      /\ q.gate.ok => q.gate.state = p.gate.state
  <2>1. CASE q.gate.ok /\ Appended(p.gate, q.gate, p.gate.journal) /\ Relogged(p.policy, q.policy, p.policy.log)
    <3>1. q.policy = p.policy
      BY <1>1, <2>1 DEF Relogged, Policy
    <3> QED
      BY <1>1, <2>1, <3>1, SameGate
  <2>2. CASE ~q.gate.ok /\ Failed(p.gate, q.gate, F, A) /\ q.policy = p.policy
    BY <2>2, FailedGood
  <2>3. \/ q.gate.ok /\ Appended(p.gate, q.gate, p.gate.journal) /\ Relogged(p.policy, q.policy, p.policy.log)
        \/ ~q.gate.ok /\ Failed(p.gate, q.gate, F, A) /\ q.policy = p.policy
    BY Zenon, <1>1, RecordWriterShape
  <2> QED
    BY <2>1, <2>2, <2>3
<1>4. /\ Steps(p.gate, q.gate, F, A, WriteHolds(p.policy)) /\ InFlight(q.gate) \subseteq InFlight(p.gate)
      /\ Rank(p.gate.state) <= Rank(q.gate.state) /\ q.gate \in Gate
  BY ZenonT(60), <1>3, GoodSteps DEF Steps, Good, GateInv
<1>5. PolicyInv(q.gate, q.policy, F, A, W, C)
  BY <1>1, <1>3, <1>4, PolicyUnderGood
<1>6. q \in Pairs
  BY <1>1, <1>2, <1>3, <1>4 DEF Pairs
<1> QED
  BY <1>3, <1>4, <1>5, <1>6 DEF PairGood, PairInv, PairKept

\* Pair q is p with the maintenance m.
Remaint(p, q, m) == q = [p EXCEPT !.policy.maint = m]

\* Pair q is p with another session.
Resession(p, q, s) == q = [p EXCEPT !.policy.session = s]

\* The maintenance moves, or the session; the writes stay.
LEMMA MaintenanceKeeps ==
  ASSUME NEW p, NEW q, NEW F, NEW A, NEW W, NEW C, PairInv(p, F, A, W, C), NEW m \in Maintenance,
         Remaint(p, q, m), m = "OPEN" => Quiesced(p.gate, F, A), p.policy.maint = "ENDED" => m = "ENDED"
  PROVE  /\ PairGood(p, q, F, A, W, C) /\ q.gate = p.gate /\ q.policy.maint = m
         /\ SameWrites(p.policy, q.policy) /\ q.policy.session = p.policy.session
<1>1. p \in Pairs /\ p.policy \in Policy /\ PolicyInv(p.gate, p.policy, F, A, W, C)
  BY DEF PairInv, PolicyInv
<1>2. /\ q \in Pairs /\ q.gate = p.gate /\ q.policy = [p.policy EXCEPT !.maint = m]
  BY <1>1 DEF Pairs, Policy, Remaint
<1>3. SameWrites(p.policy, q.policy) /\ q.policy.maint = m /\ q.policy.session = p.policy.session
  BY <1>1, <1>2 DEF SameWrites, Policy
<1>4. PolicyInv(q.gate, q.policy, F, A, W, C)
  BY ZenonT(60), <1>1, <1>2, <1>3, SameWritesKeep
<1>5. Rank(p.gate.state) <= Rank(q.gate.state)
  BY <1>2 DEF Rank
<1> QED
  BY <1>2, <1>3, <1>4, <1>5 DEF PairGood, PairInv, PairKept

\* The session is no part of what is held.
LEMMA SessionKeeps ==
  ASSUME NEW p, NEW q, NEW F, NEW A, NEW W, NEW C, PairInv(p, F, A, W, C), NEW s \in Session \cup {None},
         Resession(p, q, s)
  PROVE  /\ PairGood(p, q, F, A, W, C) /\ q.gate = p.gate /\ q.policy.maint = p.policy.maint
         /\ SameWrites(p.policy, q.policy) /\ q.policy.session = s
<1>1. p \in Pairs /\ p.policy \in Policy /\ PolicyInv(p.gate, p.policy, F, A, W, C)
  BY DEF PairInv, PolicyInv
<1>2. /\ q \in Pairs /\ q.gate = p.gate /\ q.policy = [p.policy EXCEPT !.session = s]
  BY SMTT(60), <1>1 DEF Pairs, Policy, Resession
<1>3. SameWrites(p.policy, q.policy) /\ q.policy.maint = p.policy.maint /\ q.policy.session = s
  BY <1>1, <1>2 DEF SameWrites, Policy
<1>4. PolicyInv(q.gate, q.policy, F, A, W, C)
  BY ZenonT(60), <1>1, <1>2, <1>3, SameWritesKeep
<1>5. Rank(p.gate.state) <= Rank(q.gate.state)
  BY <1>2 DEF Rank
<1> QED
  BY <1>2, <1>3, <1>4, <1>5 DEF PairGood, PairInv, PairKept

\* A pair is itself.
LEMMA PairStays ==
  ASSUME NEW p, NEW F, NEW A, NEW W, NEW C, PairInv(p, F, A, W, C)
  PROVE  PairGood(p, p, F, A, W, C) /\ SameWrites(p.policy, p.policy)
  BY DEF PairGood, PairKept, PairInv, PolicyInv, SameWrites, Rank

\* The same writes, over two steps.
LEMMA SameWritesTransitive ==
  ASSUME NEW w, NEW v, NEW u, SameWrites(w, v), SameWrites(v, u)
  PROVE  SameWrites(w, u)
  BY DEF SameWrites

\* An open fence shows that nothing of the worker's is unknown.
LEMMA OpenQuiesced ==
  ASSUME NEW g, NEW F, NEW A, GateInv(g, F, A), Fence(g) = "OPEN"
  PROVE  Quiesced(g, F, A)
<1>1. F = A
  BY UnsettledSeen
<1> QED
  BY <1>1 DEF Fence, Quiesced, Rank

\* settle_maintenance.
LEMMA SettleMaintenanceKeeps ==
  ASSUME NEW p, NEW F, NEW A, NEW W, NEW C, PairInv(p, F, A, W, C), NEW r \in SettleMaintenance(p)
  PROVE  PairGood(p, r, F, A, W, C) /\ SameWrites(p.policy, r.policy)
<1> DEFINE opened == IF p.policy.maint = "PENDING" /\ Fence(p.gate) = "OPEN"
                  THEN {IF q.gate.ok THEN [q EXCEPT !.policy.maint = "OPEN"] ELSE q :
                          q \in RecordWriter(p, p.policy.log)}
                  ELSE {p}
           Hold(q) == IF q.policy.maint \in {"PENDING", "OPEN"} /\ Fence(q.gate) = "HELD"
                   THEN RecordWriter([q EXCEPT !.policy.maint = "HELD"], q.policy.log)
                   ELSE {q}
<1>1. PICK q \in opened : r \in Hold(q)
  BY Zenon DEF SettleMaintenance
<1>2. PairGood(p, q, F, A, W, C) /\ SameWrites(p.policy, q.policy)
  <2>1. CASE q = p
    BY <2>1, PairStays
  <2>2. CASE /\ p.policy.maint = "PENDING" /\ Fence(p.gate) = "OPEN"
             /\ \E k \in RecordWriter(p, p.policy.log) :
                  q = IF k.gate.ok THEN [k EXCEPT !.policy.maint = "OPEN"] ELSE k
    <3>1. PICK k \in RecordWriter(p, p.policy.log) :
            q = IF k.gate.ok THEN [k EXCEPT !.policy.maint = "OPEN"] ELSE k
      BY Zenon, <2>2
    <3>2. /\ PairGood(p, k, F, A, W, C) /\ k.policy = p.policy /\ PairInv(k, F, A, W, C) /\ PairKept(p, k)
      BY NoteKeeps DEF PairGood
    <3>3. Quiesced(p.gate, F, A) /\ p.policy \in Policy
      BY <2>2, OpenQuiesced DEF PairInv, PolicyInv
    <3>4. Quiesced(k.gate, F, A)
      BY <3>2, <3>3, HeldStays DEF Quiesced, PairKept
    <3>5. CASE k.gate.ok
      <4>1. Remaint(k, q, "OPEN")
        BY <3>1, <3>5 DEF Remaint
      <4>2. "OPEN" \in Maintenance /\ k.policy.maint # "ENDED"
        BY <2>2, <3>2 DEF Maintenance
      <4>3. PairGood(k, q, F, A, W, C) /\ SameWrites(k.policy, q.policy)
        BY ZenonT(60), <3>2, <3>4, <4>1, <4>2, MaintenanceKeeps
      <4> QED
        BY <3>2, <4>3, PairTransitive
    <3>6. CASE ~k.gate.ok
      BY <3>1, <3>2, <3>3, <3>6 DEF SameWrites
    <3> QED
      BY <3>5, <3>6
  <2> QED
    BY <2>1, <2>2
<1> HIDE DEF opened
<1>3. PairInv(q, F, A, W, C) /\ PairKept(p, q)
  BY <1>2 DEF PairGood
<1>4. CASE r = q
  BY <1>2, <1>4
<1>5. CASE /\ q.policy.maint \in {"PENDING", "OPEN"}
           /\ r \in RecordWriter([q EXCEPT !.policy.maint = "HELD"], q.policy.log)
  <2>1. PICK k : k = [q EXCEPT !.policy.maint = "HELD"]
    BY Zenon
  <2>2. Remaint(q, k, "HELD") /\ "HELD" \in Maintenance /\ q.policy.maint # "ENDED"
    BY <1>5, <2>1 DEF Remaint, Maintenance
  <2>3. PairGood(q, k, F, A, W, C) /\ SameWrites(q.policy, k.policy)
    BY <1>3, <2>2, MaintenanceKeeps
  <2>4. PairInv(k, F, A, W, C) /\ k.policy.log = q.policy.log
    BY <2>3 DEF PairGood, SameWrites
  <2>5. PairGood(k, r, F, A, W, C) /\ r.policy = k.policy
    BY ZenonT(60), <1>5, <2>1, <2>4, NoteKeeps
  <2>6. PairGood(q, r, F, A, W, C)
    BY <2>3, <2>5, PairTransitive DEF PairGood
  <2> QED
    BY SMTT(60), <1>2, <1>3, <2>3, <2>5, <2>6, PairTransitive, SameWritesTransitive
<1> QED
  BY <1>1, <1>4, <1>5

\* The maintenance ends with its owning session.
LEMMA EndSessionKeeps ==
  ASSUME NEW p, NEW F, NEW A, NEW W, NEW C, PairInv(p, F, A, W, C), NEW r \in EndSession(p)
  PROVE  PairGood(p, r, F, A, W, C)
<1>1. PICK q \in RecordWriter([p EXCEPT !.policy.session = None], p.policy.log) :
        r = q \/ (q.policy.maint # "ENDED" /\ r \in EndMaintenance(q))
  BY DEF EndSession
<1>2. PICK k : k = [p EXCEPT !.policy.session = None]
  OBVIOUS
<1>3. PairGood(p, k, F, A, W, C) /\ SameWrites(p.policy, k.policy)
  BY Zenon, <1>2, SessionKeeps DEF Resession
<1>4. PairInv(k, F, A, W, C) /\ k.policy.log = p.policy.log /\ PairKept(p, k)
  BY <1>3 DEF PairGood, SameWrites
<1>5. PairGood(k, q, F, A, W, C)
  BY ZenonT(60), <1>1, <1>2, <1>4, NoteKeeps
<1>6. PairGood(p, q, F, A, W, C) /\ PairInv(q, F, A, W, C) /\ PairKept(p, q)
  BY <1>4, <1>5, PairTransitive DEF PairGood
<1>7. CASE r \in EndMaintenance(q)
  <2>1. PICK m : m = [q EXCEPT !.policy.maint = "ENDED"]
    BY Zenon
  <2>2. Remaint(q, m, "ENDED") /\ "ENDED" \in Maintenance
    BY <2>1 DEF Remaint, Maintenance
  <2>3. PairGood(q, m, F, A, W, C) /\ SameWrites(q.policy, m.policy)
    BY <1>6, <2>2, MaintenanceKeeps
  <2>4. PairInv(m, F, A, W, C) /\ m.policy.log = q.policy.log
    BY <2>3 DEF PairGood, SameWrites
  <2>5. PairGood(m, r, F, A, W, C)
    BY ZenonT(60), <1>7, <2>1, <2>4, NoteKeeps DEF EndMaintenance
  <2>6. PairGood(q, r, F, A, W, C)
    BY <2>3, <2>5, PairTransitive DEF PairGood
  <2> QED
    BY <1>6, <2>6, PairTransitive
<1> QED
  BY <1>1, <1>6, <1>7

\* set_state(HELD).
LEMMA HoldGate ==
  ASSUME NEW g, NEW F, NEW A, NEW h, GateInv(g, F, A), h = [g EXCEPT !.state = "HELD"]
  PROVE  /\ GateInv(h, F, A) /\ Kept(g, h) /\ h.state = "HELD" /\ h \in Gate
         /\ HoldKept(h, TRUE) /\ (g.state = "HELD" /\ HoldKept(g, FALSE) => HoldKept(h, FALSE))
<1>1. g \in Gate /\ g.drain \in BOOLEAN /\ g.channel \in Channel /\ "HELD" \in State
  BY DEF GateInv, Gate, State
<1>2. Moved(g, h, "HELD", g.drain, g.channel)
  BY Zenon, <1>1 DEF Moved, Gate
<1>3. /\ h \in Gate /\ Calm(g, h) /\ h.state = "HELD" /\ h.journal = g.journal
      /\ h.marker = g.marker /\ h.residual = g.residual /\ h.actions = g.actions
  BY <1>1, <1>2, FieldsCalm
<1>4. Rank(g.state) <= Rank(h.state)
  BY <1>3 DEF Rank
<1>5. GateInv(h, F, A) /\ Kept(g, h)
  BY Zenon, <1>3, <1>4, CalmGood
<1>6. InFlight(h) = InFlight(g)
  BY <1>3 DEF InFlight, Ids
<1> QED
  BY <1>3, <1>5, <1>6 DEF HoldKept

\* Policy v is w with its outstanding write ended and the log l.
WriteEnded(w, v, l) ==
  /\ v \in Policy /\ v.maint = w.maint /\ v.session = w.session /\ v.pending = 0
  /\ v.log = l /\ Len(v.writes) = Len(w.writes)

\* A terminal record replaces one entry of the log.
LEMMA TerminalLog ==
  ASSUME NEW w \in Policy, NEW id \in 1 .. Len(w.log), NEW c \in WriteEntry
  PROVE  LET l == LogTerminal(w.log, id, c) IN
         /\ l \in Seq(WriteEntry) /\ Len(l) = Len(w.log) /\ l[id] = c
         /\ \A k \in 1 .. Len(w.log) : k # id => l[k] = w.log[k]
  BY DEF Policy, LogTerminal

\* A write ends with its record, or without one when it failed.
LEMMA EndedShape ==
  ASSUME NEW w \in Policy, NEW u, NEW l \in Seq(WriteEntry), u = w \/ Relogged(w, u, l),
         NEW id \in 1 .. Len(w.writes), NEW c \in WriteEntry
  PROVE  WriteEnded(w, [u EXCEPT !.pending = 0, !.writes[id] = c], u.log) /\ u \in Policy
<1>1. u \in Policy /\ u.writes = w.writes /\ u.maint = w.maint /\ u.session = w.session
  BY Zenon DEF Relogged, Policy
<1>2. PICK x : x = [u.writes EXCEPT ![id] = c]
  BY Zenon
<1>3. x \in Seq(WriteEntry) /\ Len(x) = Len(w.writes)
  BY <1>1, <1>2 DEF Policy
<1>4. [u EXCEPT !.pending = 0, !.writes[id] = c] = [u EXCEPT !.pending = 0, !.writes = x]
  BY Zenon, <1>1, <1>2 DEF Policy
<1>6. PICK v : v = [u EXCEPT !.pending = 0, !.writes = x]
  OBVIOUS
<1>7. 0 \in 0 .. MaxWrites
  BY WriteBoundAssumption
<1>8. v \in Policy
  BY ZenonT(60), <1>1, <1>3, <1>6, <1>7 DEF Policy
<1>9. v.maint = u.maint /\ v.session = u.session /\ v.pending = 0 /\ v.log = u.log /\ v.writes = x
  BY <1>1, <1>6 DEF Policy
<1>5. WriteEnded(w, v, u.log)
  BY SMTT(60), <1>1, <1>3, <1>8, <1>9 DEF WriteEnded
<1> QED
  BY <1>1, <1>4, <1>5, <1>6

\* The log l shows the outstanding write as ambiguous, or the gate h is held.
Ambiguous(w, l, h) ==
  /\ Len(l) = Len(w.log) /\ \A k \in 1 .. Len(l) : k # w.pending => l[k] = w.log[k]
  /\ \/ l[w.pending] = "IO_AMBIGUOUS"
     \/ l = w.log /\ h.state = "HELD" /\ HoldKept(h, FALSE)

\* Pair r is the gate h held, and some policy.
HeldPair(r, h) ==
  r = [gate |-> r.gate, policy |-> r.policy] /\ r.gate = [h EXCEPT !.state = "HELD"]

\* The outstanding write ends ambiguous, and holds the generation.
LEMMA EndsHeld ==
  ASSUME NEW p, NEW r, NEW F, NEW A, NEW W, NEW C, NEW D, NEW l, NEW h, PairInv(p, F, A, W, C),
         p.policy.pending # 0, C \subseteq D, D \subseteq W, HeldPair(r, h),
         GateInv(h, F, A), Kept(p.gate, h),
         WriteEnded(p.policy, r.policy, l), Ambiguous(p.policy, l, h)
  PROVE  PairGood(p, r, F, A, W, D)
<1>1. /\ p.gate \in Gate /\ p.policy \in Policy /\ WritesKnown(p.policy, p.gate.state, W, C)
      /\ Quiesced(p.gate, F, A) /\ Len(p.policy.log) \in Nat
  BY DEF PairInv, PolicyInv, Pairs, Policy
<1>2. /\ GateInv(r.gate, F, A) /\ Kept(h, r.gate) /\ r.gate.state = "HELD" /\ r.gate \in Gate
      /\ HoldKept(r.gate, TRUE) /\ (h.state = "HELD" /\ HoldKept(h, FALSE) => HoldKept(r.gate, FALSE))
  BY Zenon, HoldGate DEF HeldPair
<1>3. r.policy \in Policy /\ r.policy.pending = 0 /\ r.policy.log = l /\ r.policy.maint = p.policy.maint
      /\ Len(r.policy.writes) = Len(p.policy.writes)
  BY DEF WriteEnded
<1>4. /\ Len(p.policy.log) = Len(p.policy.writes) /\ W = 1 .. Len(p.policy.log)
      /\ p.policy.pending \in W /\ DOMAIN l = W
      /\ \A id \in W \ C : p.policy.log[id] # "DELIVERED_RESULT"
  BY <1>1, <1>3 DEF WritesKnown, Policy, Ambiguous
<1>5. WritesKnown(r.policy, r.gate.state, W, D)
  <2>1. ASSUME NEW id \in W \ D
        PROVE  l[id] # "DELIVERED_RESULT"
    <3>1. p.policy.log[id] # "DELIVERED_RESULT" /\ id \in 1 .. Len(l)
      BY <1>4
    <3> QED
      BY Zenon, <3>1 DEF Ambiguous
  <2> QED
    BY <1>2, <1>3, <1>4, <2>1 DEF WritesKnown
<1>6. HoldKept(r.gate, WriteHolds(r.policy))
  <2>1. CASE l[p.policy.pending] = "IO_AMBIGUOUS"
    <3>1. WriteHolds(r.policy)
      BY SMTT(60), <1>3, <1>4, <2>1 DEF WriteHolds
    <3> QED
      BY <3>1 DEF HoldKept
  <2>2. CASE h.state = "HELD" /\ HoldKept(h, FALSE)
    BY <1>2, <2>2 DEF HoldKept
  <2> QED
    BY Zenon, <2>1, <2>2 DEF Ambiguous
<1>7. InFlight(r.gate) \subseteq InFlight(p.gate) /\ Rank(r.gate.state) = 3
  BY <1>2 DEF Kept, Rank
<1>8. Quiesced(r.gate, F, A)
  BY <1>1, <1>7 DEF Quiesced
<1>9. Rank(p.gate.state) <= Rank(r.gate.state)
  BY <1>7 DEF Rank
<1>10. r \in Pairs
  BY <1>2, <1>3 DEF Pairs, HeldPair
<1> QED
  BY SMTT(60), <1>2, <1>3, <1>5, <1>6, <1>7, <1>8, <1>9, <1>10 DEF PairGood, PairInv, PairKept, PolicyInv

\* The outstanding write is given up, or its end could not be recorded.
LEMMA GivenUp ==
  ASSUME NEW p, NEW q, NEW r, NEW F, NEW A, NEW W, NEW C, NEW D, PairInv(p, F, A, W, C),
         p.policy.pending # 0, C \subseteq D, D \subseteq W, NEW c \in WriteEntry,
         q \in RecordWriter(p, LogTerminal(p.policy.log, p.policy.pending, c)),
         q.gate.ok => c = "IO_AMBIGUOUS",
         r = [q EXCEPT !.policy.pending = 0, !.policy.writes[p.policy.pending] = "IO_AMBIGUOUS",
                       !.gate.state = "HELD"]
  PROVE  PairGood(p, r, F, A, W, D) /\ r.policy.pending = 0
<1> DEFINE id == p.policy.pending
           w == p.policy
           l == LogTerminal(w.log, id, c)
           u == q.policy
           v == [u EXCEPT !.pending = 0, !.writes[id] = "IO_AMBIGUOUS"]
           h == q.gate
<1>1. /\ p \in Pairs /\ w \in Policy /\ GateInv(p.gate, F, A) /\ WritesKnown(w, p.gate.state, W, C)
      /\ HoldKept(p.gate, WriteHolds(w))
  BY DEF PairInv, PolicyInv
<1>2. Len(w.log) = Len(w.writes) /\ id \in 1 .. Len(w.log)
  BY <1>1 DEF WritesKnown
<1>3. /\ l \in Seq(WriteEntry) /\ Len(l) = Len(w.log) /\ l[id] = c
      /\ \A k \in 1 .. Len(w.log) : k # id => l[k] = w.log[k]
  BY <1>1, <1>2, TerminalLog
<1> HIDE DEF l
<1>4. /\ \/ h.ok /\ Appended(p.gate, h, p.gate.journal) /\ Relogged(w, u, l)
         \/ ~h.ok /\ Failed(p.gate, h, F, A) /\ u = w
      /\ q = [gate |-> h, policy |-> u]
  BY ZenonT(60), <1>1, RecordWriterShape DEF l
<1>5. WriteEnded(w, v, u.log) /\ u \in Policy
  <2>1. u = w \/ Relogged(w, u, l)
    BY <1>4
  <2>2. id \in 1 .. Len(w.writes) /\ "IO_AMBIGUOUS" \in WriteEntry
    BY <1>2 DEF WriteEntry
  <2> QED
    BY ZenonT(60), <1>1, <1>3, <2>1, <2>2, EndedShape
<1>6. r = [gate |-> [h EXCEPT !.state = "HELD"], policy |-> v]
  BY Zenon, <1>4
<1>7. HeldPair(r, h) /\ r.policy = v
  BY Zenon, <1>6 DEF HeldPair
<1>8. GateInv(h, F, A) /\ Kept(p.gate, h)
  <2>1. CASE Appended(p.gate, h, p.gate.journal)
    BY <1>1, <2>1, SameGate DEF Good
  <2>2. CASE Failed(p.gate, h, F, A)
    BY <2>2 DEF Failed
  <2> QED
    BY <1>4, <2>1, <2>2
<1>9. \/ u.log = l /\ c = "IO_AMBIGUOUS"
      \/ u.log = w.log /\ h.state = "HELD" /\ HoldKept(h, FALSE)
  <2>1. CASE h.ok /\ Relogged(w, u, l)
    BY <1>1, <2>1 DEF Relogged, Policy
  <2>2. CASE Failed(p.gate, h, F, A) /\ u = w
    BY Zenon, <2>2 DEF Failed
  <2> QED
    BY ZenonT(60), <1>4, <2>1, <2>2
<1> HIDE DEF u, v, h
<1>10. Ambiguous(w, u.log, h)
  BY Zenon, <1>3, <1>9 DEF Ambiguous
<1>11. WriteEnded(w, r.policy, u.log)
  BY <1>5, <1>7
<1>12. PairGood(p, r, F, A, W, D)
  BY ZenonT(60), <1>7, <1>8, <1>10, <1>11, EndsHeld
<1> QED
  BY <1>11, <1>12 DEF WriteEnded

\* abort_pending.
LEMMA AbortPendingKeeps ==
  ASSUME NEW p, NEW F, NEW A, NEW W, NEW C, PairInv(p, F, A, W, C), NEW r \in AbortPending(p)
  PROVE  PairGood(p, r, F, A, W, C) /\ r.policy.pending = 0
<1>1. CASE p.policy.pending = 0
  BY <1>1, PairStays DEF AbortPending
<1>2. CASE p.policy.pending # 0
  <2>1. PICK q \in RecordWriter(p, LogTerminal(p.policy.log, p.policy.pending, "IO_AMBIGUOUS")) :
          r = [q EXCEPT !.policy.pending = 0, !.policy.writes[p.policy.pending] = "IO_AMBIGUOUS",
                        !.gate.state = "HELD"]
    BY Zenon, <1>2 DEF AbortPending
  <2>2. "IO_AMBIGUOUS" \in WriteEntry /\ C \subseteq W
    BY DEF WriteEntry, PairInv, PolicyInv, WritesKnown
  <2> QED
    BY ZenonT(60), <1>2, <2>1, <2>2, GivenUp
<1> QED
  BY <1>1, <1>2

\* The session ends: lost, broken, or with the writer's custody gone.
LEMMA SessionLostKeeps ==
  ASSUME NEW p, NEW F, NEW A, NEW W, NEW C, PairInv(p, F, A, W, C), NEW r \in WriterLost(p) \cup WriterFatal(p)
  PROVE  PairGood(p, r, F, A, W, C)
<1>1. PICK q \in AbortPending(p) : r \in EndSession(q)
  BY DEF WriterLost, WriterFatal
<1>2. PairGood(p, q, F, A, W, C) /\ PairInv(q, F, A, W, C) /\ PairKept(p, q)
  BY AbortPendingKeeps DEF PairGood
<1>3. PairGood(q, r, F, A, W, C)
  BY <1>1, <1>2, EndSessionKeeps
<1> QED
  BY <1>2, <1>3, PairTransitive

\* Another gate in the pair.
LEMMA RegateKeeps ==
  ASSUME NEW p, NEW q, NEW h, NEW F, NEW A, NEW W, NEW C, PairInv(p, F, A, W, C),
         Good(p.gate, h, F, A, WriteHolds(p.policy)), q = [p EXCEPT !.gate = h]
  PROVE  PairGood(p, q, F, A, W, C) /\ q.gate = h /\ q.policy = p.policy
<1>1. p \in Pairs /\ PolicyInv(p.gate, p.policy, F, A, W, C)
  BY DEF PairInv
<1>2. /\ Steps(p.gate, h, F, A, WriteHolds(p.policy)) /\ InFlight(h) \subseteq InFlight(p.gate)
      /\ Rank(p.gate.state) <= Rank(h.state) /\ h \in Gate
  BY Zenon, GoodSteps DEF Steps, Good, GateInv
<1>3. q \in Pairs /\ q.gate = h /\ q.policy = p.policy
  BY <1>1, <1>2 DEF Pairs
<1>4. PolicyInv(q.gate, q.policy, F, A, W, C)
  BY SMTT(60), <1>1, <1>2, <1>3, PolicyUnderGood
<1> QED
  BY <1>2, <1>3, <1>4 DEF PairGood, PairInv, PairKept

\* deviation.
LEMMA DeviationKeeps ==
  ASSUME NEW p, NEW F, NEW A, NEW W, NEW C, PairInv(p, F, A, W, C), NEW r \in Deviation(p)
  PROVE  PairGood(p, r, F, A, W, C)
<1>1. PICK q \in AbortPending(p) :
        r \in UNION {EndSession([q EXCEPT !.gate = [h EXCEPT !.state = "HELD"]]) : h \in Urgent(q.gate, "HELD")}
  BY Zenon DEF Deviation
<1>2. PICK h \in Urgent(q.gate, "HELD") : r \in EndSession([q EXCEPT !.gate = [h EXCEPT !.state = "HELD"]])
  BY Zenon, <1>1
<1>3. PairGood(p, q, F, A, W, C) /\ PairInv(q, F, A, W, C) /\ PairKept(p, q) /\ GateInv(q.gate, F, A)
  BY Zenon, AbortPendingKeeps DEF PairGood, PairInv, PolicyInv
<1>4. Good(q.gate, h, F, A, FALSE) /\ h.state = "HELD"
  BY Zenon, <1>3, UrgentKeeps
<1>5. PICK m : m = [h EXCEPT !.state = "HELD"]
  BY Zenon
<1>6. GateInv(h, F, A) /\ HoldKept(h, FALSE) /\ Kept(q.gate, h) /\ h.bound = q.gate.bound /\ h \in Gate
  BY Zenon, <1>4 DEF Good, GateInv
<1>7. m = h
  BY SMTT(60), <1>4, <1>5, <1>6 DEF Gate
<1>8. HoldKept(h, WriteHolds(q.policy))
  BY <1>6 DEF HoldKept
<1>9. Good(q.gate, h, F, A, WriteHolds(q.policy))
  BY <1>6, <1>8 DEF Good
<1>10. PICK k : k = [q EXCEPT !.gate = h]
  BY Zenon
<1>11. PairGood(q, k, F, A, W, C)
  BY SMTT(60), <1>3, <1>9, <1>10, RegateKeeps
<1>12. PairGood(k, r, F, A, W, C)
  BY SMTT(60), <1>2, <1>5, <1>7, <1>10, <1>11, EndSessionKeeps DEF PairGood
<1>13. PairGood(q, r, F, A, W, C)
  BY SMTT(60), <1>11, <1>12, PairTransitive DEF PairGood
<1> QED
  BY <1>3, <1>13, PairTransitive

\* The outstanding write ends with a recorded result.
LEMMA EndsDelivered ==
  ASSUME NEW p, NEW h, NEW v, NEW F, NEW A, NEW W, NEW C, NEW l, PairInv(p, F, A, W, C),
         p.policy.pending # 0, Appended(p.gate, h, p.gate.journal), WriteEnded(p.policy, v, l),
         Len(l) = Len(p.policy.log), \A k \in 1 .. Len(l) : k # p.policy.pending => l[k] = p.policy.log[k],
         l[p.policy.pending] = "DELIVERED_RESULT"
  PROVE  PairGood(p, [gate |-> h, policy |-> v], F, A, W, C \cup {p.policy.pending})
<1> DEFINE D == C \cup {p.policy.pending}
           r == [gate |-> h, policy |-> v]
<1>1. /\ p \in Pairs /\ p.gate \in Gate /\ p.policy \in Policy /\ WritesKnown(p.policy, p.gate.state, W, C)
      /\ Quiesced(p.gate, F, A) /\ Len(p.policy.log) \in Nat /\ GateInv(p.gate, F, A)
      /\ HoldKept(p.gate, WriteHolds(p.policy))
  BY DEF PairInv, PolicyInv, Pairs, Policy
<1>2. v \in Policy /\ v.pending = 0 /\ v.log = l /\ v.maint = p.policy.maint
      /\ Len(v.writes) = Len(p.policy.writes)
  BY DEF WriteEnded
<1>3. /\ Len(p.policy.log) = Len(p.policy.writes) /\ W = 1 .. Len(p.policy.log)
      /\ p.policy.pending \in W /\ DOMAIN l = W /\ DOMAIN p.policy.log = W /\ C \subseteq W
      /\ \A id \in W \ C : p.policy.log[id] # "DELIVERED_RESULT" /\ (id = p.policy.pending \/ p.gate.state = "HELD")
  BY <1>1, <1>2 DEF WritesKnown, Policy
<1>4. WriteHolds(v) = WriteHolds(p.policy)
  BY <1>2, <1>3 DEF WriteHolds
<1>5. /\ Good(p.gate, h, F, A, WriteHolds(p.policy)) /\ h.state = p.gate.state /\ h.actions = p.gate.actions
  BY ZenonT(60), <1>1, SameGate
<1>6. GateInv(h, F, A) /\ HoldKept(h, WriteHolds(v)) /\ h \in Gate /\ Kept(p.gate, h)
  BY <1>4, <1>5 DEF Good, GateInv
<1>7. WritesKnown(v, h.state, W, D)
  BY ZenonT(60), <1>2, <1>3, <1>5 DEF WritesKnown
<1>8. Quiesced(h, F, A)
  BY SMTT(60), <1>1, <1>6, HeldStays DEF Quiesced, Kept
<1>9. PolicyInv(h, v, F, A, W, D)
  BY SMTT(60), <1>2, <1>6, <1>7, <1>8 DEF PolicyInv
<1>10. r \in Pairs /\ r.gate = h /\ r.policy = v
  BY <1>2, <1>6 DEF Pairs
<1> HIDE DEF r
<1>11. PairGood(p, r, F, A, W, D)
  BY <1>2, <1>6, <1>9, <1>10 DEF PairGood, PairInv, PairKept, Kept
<1> QED
  BY <1>11 DEF r

\* The outcome of a write, with what it confirms.
LEMMA WriteUpstreamKeeps ==
  ASSUME NEW p, NEW F, NEW A, NEW W, NEW C, PairInv(p, F, A, W, C), NEW id \in 1 .. MaxWrites,
         NEW final, NEW r \in WriteUpstream(p, id, final)
  PROVE  PairGood(p, r, F, A, W, IF final /\ p.policy.pending = id THEN C \cup {id} ELSE C)
<1>1. CASE p.policy.pending # id
  BY <1>1, NoteKeeps DEF WriteUpstream
<1>2. CASE p.policy.pending = id
  <2> DEFINE class == IF final THEN "DELIVERED_RESULT" ELSE "IO_AMBIGUOUS"
             l == LogTerminal(p.policy.log, id, class)
             D == IF final THEN C \cup {id} ELSE C
  <2>1. PICK q \in RecordWriter(p, l) :
          r = IF q.gate.ok /\ final
                THEN [q EXCEPT !.policy.pending = 0, !.policy.writes[id] = class]
                ELSE [q EXCEPT !.policy.pending = 0, !.policy.writes[id] = "IO_AMBIGUOUS", !.gate.state = "HELD"]
    BY Zenon, <1>2 DEF WriteUpstream
  <2>2. /\ p \in Pairs /\ p.policy \in Policy /\ GateInv(p.gate, F, A) /\ WritesKnown(p.policy, p.gate.state, W, C)
        /\ p.policy.pending # 0
    BY <1>2 DEF PairInv, PolicyInv
  <2>3. /\ Len(p.policy.log) = Len(p.policy.writes) /\ id \in 1 .. Len(p.policy.log)
        /\ C \subseteq D /\ D \subseteq W /\ class \in WriteEntry
    BY <1>2, <2>2 DEF WritesKnown, WriteEntry
  <2>4. CASE ~(q.gate.ok /\ final)
    <3>1. r = [q EXCEPT !.policy.pending = 0, !.policy.writes[id] = "IO_AMBIGUOUS", !.gate.state = "HELD"]
      BY <2>1, <2>4
    <3>2. q.gate.ok => class = "IO_AMBIGUOUS"
      BY <2>4
    <3>3. q \in RecordWriter(p, LogTerminal(p.policy.log, id, class))
      BY <2>1
    <3> HIDE DEF class, D
    <3>4. PairGood(p, r, F, A, W, D)
      BY ZenonT(60), <1>2, <2>2, <2>3, <3>1, <3>2, <3>3, GivenUp
    <3> QED
      BY <1>2, <3>4 DEF D
  <2>5. CASE q.gate.ok /\ final
    <3>1. r = [q EXCEPT !.policy.pending = 0, !.policy.writes[id] = "DELIVERED_RESULT"]
      BY <2>1, <2>5
    <3>2. /\ l \in Seq(WriteEntry) /\ Len(l) = Len(p.policy.log) /\ l[id] = class
          /\ \A k \in 1 .. Len(p.policy.log) : k # id => l[k] = p.policy.log[k]
      BY ZenonT(60), <2>2, <2>3, TerminalLog
    <3>3. class = "DELIVERED_RESULT" /\ D = C \cup {id}
      BY <2>5
    <3> HIDE DEF l, class, D
    <3>4. /\ Appended(p.gate, q.gate, p.gate.journal) /\ Relogged(p.policy, q.policy, l)
          /\ q = [gate |-> q.gate, policy |-> q.policy]
      BY Zenon, <2>1, <2>2, <2>5, RecordWriterShape
    <3>5. PICK v : v = [q.policy EXCEPT !.pending = 0, !.writes[id] = "DELIVERED_RESULT"]
      OBVIOUS
    <3>6. r = [gate |-> q.gate, policy |-> v]
      BY ZenonT(60), <3>1, <3>4, <3>5
    <3>7. "DELIVERED_RESULT" \in WriteEntry /\ id \in 1 .. Len(p.policy.writes)
      BY <2>3 DEF WriteEntry
    <3>8. WriteEnded(p.policy, v, q.policy.log)
      BY Zenon, <2>2, <3>2, <3>4, <3>5, <3>7, EndedShape
    <3>9. q.policy.log = l
      BY SMTT(60), <2>2, <3>4 DEF Relogged, Policy
    <3>10. PairGood(p, [gate |-> q.gate, policy |-> v], F, A, W, C \cup {id})
      BY SMTT(60), <1>2, <2>2, <3>2, <3>3, <3>4, <3>8, <3>9, EndsDelivered
    <3> QED
      BY SMTT(60), <1>2, <2>5, <3>3, <3>6, <3>10
  <2> QED
    BY <2>4, <2>5
<1> QED
  BY <1>1, <1>2

\* Policy v is w with the next write outstanding.
WriteSent(w, v) ==
  /\ v \in Policy /\ v.maint = w.maint /\ v.pending = Len(w.writes) + 1
  /\ v.writes = Append(w.writes, "FORWARDED") /\ v.log = Append(w.log, "FORWARDED")

\* A forwarded write is the next of the log and of the writes.
LEMMA SentShape ==
  ASSUME NEW w \in Policy, NEW u, Relogged(w, u, Append(w.log, "FORWARDED")), Len(w.writes) < MaxWrites
  PROVE  WriteSent(w, [u EXCEPT !.writes = Append(@, "FORWARDED"), !.pending = Len(w.writes) + 1])
<1>1. Append(w.log, "FORWARDED") \in Seq(WriteEntry) /\ Append(w.writes, "FORWARDED") \in Seq(WriteEntry)
  BY DEF Policy, WriteEntry
<1>2. /\ u \in Policy /\ u.writes = w.writes /\ u.maint = w.maint /\ u.log = Append(w.log, "FORWARDED")
  BY Zenon, <1>1 DEF Relogged, Policy
<1>3. PICK x : x = Append(w.writes, "FORWARDED")
  BY Zenon
<1>4. PICK n : n = Len(w.writes) + 1
  OBVIOUS
<1>5. n \in 0 .. MaxWrites /\ x \in Seq(WriteEntry)
  BY SMTT(60), <1>1, <1>3, <1>4, WriteBoundAssumption DEF Policy
<1>6. PICK v : v = [u EXCEPT !.writes = x, !.pending = n]
  OBVIOUS
<1>7. v \in Policy /\ v.maint = u.maint /\ v.pending = n /\ v.writes = x /\ v.log = u.log
  BY ZenonT(60), <1>2, <1>5, <1>6 DEF Policy
<1>8. WriteSent(w, v)
  BY SMTT(60), <1>2, <1>3, <1>4, <1>7 DEF WriteSent
<1> QED
  BY SMTT(60), <1>2, <1>3, <1>4, <1>6, <1>8

\* A write is sent only when nothing of the worker's is unknown.
LEMMA SentKeeps ==
  ASSUME NEW p, NEW h, NEW v, NEW F, NEW A, NEW W, NEW C, PairInv(p, F, A, W, C),
         p.policy.pending = 0, p.policy.maint = "OPEN",
         Appended(p.gate, h, p.gate.journal), WriteSent(p.policy, v)
  PROVE  PairGood(p, [gate |-> h, policy |-> v], F, A, W \cup {v.pending}, C)
<1> DEFINE n == Len(p.policy.writes) + 1
           r == [gate |-> h, policy |-> v]
<1>1. /\ p \in Pairs /\ p.gate \in Gate /\ p.policy \in Policy /\ WritesKnown(p.policy, p.gate.state, W, C)
      /\ Quiesced(p.gate, F, A) /\ Len(p.policy.writes) \in Nat /\ GateInv(p.gate, F, A)
      /\ HoldKept(p.gate, WriteHolds(p.policy))
  BY DEF PairInv, PolicyInv, Pairs, Policy
<1>2. v \in Policy /\ v.pending = n /\ v.log = Append(p.policy.log, "FORWARDED") /\ v.maint = p.policy.maint
      /\ v.writes = Append(p.policy.writes, "FORWARDED")
  BY DEF WriteSent
<1>3. /\ Len(p.policy.log) = Len(p.policy.writes) /\ W = 1 .. Len(p.policy.log)
      /\ DOMAIN p.policy.log = W /\ C \subseteq W
      /\ \A id \in W \ C : p.policy.log[id] # "DELIVERED_RESULT" /\ p.gate.state = "HELD"
  BY <1>1 DEF WritesKnown, Policy
<1>4. /\ Len(v.log) = n /\ Len(v.writes) = n /\ DOMAIN v.log = W \cup {n} /\ n \notin W
      /\ v.log[n] = "FORWARDED" /\ \A id \in W : v.log[id] = p.policy.log[id]
      /\ W \cup {n} = 1 .. n
  BY SMTT(60), <1>1, <1>2, <1>3 DEF Policy
<1>5. WriteHolds(v) = WriteHolds(p.policy)
  BY SMTT(60), <1>1, <1>2, <1>3, <1>4 DEF WriteHolds
<1>6. /\ Good(p.gate, h, F, A, WriteHolds(p.policy)) /\ h.state = p.gate.state
  BY ZenonT(60), <1>1, SameGate
<1>7. GateInv(h, F, A) /\ HoldKept(h, WriteHolds(v)) /\ h \in Gate /\ Kept(p.gate, h)
  BY SMTT(60), <1>5, <1>6 DEF Good, GateInv
<1>8. WritesKnown(v, h.state, W \cup {n}, C)
  BY SMTT(60), <1>2, <1>3, <1>4, <1>6 DEF WritesKnown
<1>9. Quiesced(h, F, A)
  BY SMTT(60), <1>1, <1>7, HeldStays DEF Quiesced, Kept
<1>10. PolicyInv(h, v, F, A, W \cup {n}, C)
  BY SMTT(60), <1>2, <1>7, <1>8, <1>9 DEF PolicyInv
<1>11. r \in Pairs /\ r.gate = h /\ r.policy = v
  BY SMTT(60), <1>2, <1>7 DEF Pairs
<1> HIDE DEF r, n
<1>12. PairGood(p, r, F, A, W \cup {n}, C)
  BY SMTT(60), <1>2, <1>7, <1>10, <1>11 DEF PairGood, PairInv, PairKept, Kept
<1> QED
  BY <1>2, <1>12 DEF r

\* WRITE_OBJECT: nothing is sent, or the next write is, for the first time.
LEMMA WriteObjectKeeps ==
  ASSUME NEW p, NEW F, NEW A, NEW W, NEW C, PairInv(p, F, A, W, C), p.policy.pending = 0,
         p.policy.maint = "OPEN", Len(p.policy.writes) < MaxWrites, NEW r \in WriteObject(p)
  PROVE  \/ PairGood(p, r, F, A, W, C) /\ r.policy.pending = 0
         \/ /\ PairGood(p, r, F, A, W \cup {r.policy.pending}, C)
            /\ r.policy.pending # 0 /\ r.policy.pending \notin W
<1> DEFINE n == Len(p.policy.writes) + 1
           l == Append(p.policy.log, "FORWARDED")
<1>1. PICK q \in RecordWriter(p, l) :
        r = IF q.gate.ok THEN [q EXCEPT !.policy.writes = Append(@, "FORWARDED"), !.policy.pending = n] ELSE q
  BY Zenon DEF WriteObject, LogForwarded
<1>2. /\ p \in Pairs /\ p.policy \in Policy /\ GateInv(p.gate, F, A) /\ Len(p.policy.writes) \in Nat
      /\ PolicyInv(p.gate, p.policy, F, A, W, C)
  BY DEF PairInv, PolicyInv, Policy
<1> HIDE DEF l
<1>3. /\ \/ q.gate.ok /\ Appended(p.gate, q.gate, p.gate.journal) /\ Relogged(p.policy, q.policy, l)
         \/ ~q.gate.ok /\ Failed(p.gate, q.gate, F, A) /\ q.policy = p.policy
      /\ q = [gate |-> q.gate, policy |-> q.policy]
  BY ZenonT(60), <1>2, RecordWriterShape
<1>4. CASE q.gate.ok /\ Appended(p.gate, q.gate, p.gate.journal) /\ Relogged(p.policy, q.policy, l)
  <2>1. PICK v : v = [q.policy EXCEPT !.writes = Append(@, "FORWARDED"), !.pending = n]
    OBVIOUS
  <2>2. WriteSent(p.policy, v)
    BY ZenonT(60), <1>2, <1>4, <2>1, SentShape DEF l
  <2>3. r = [gate |-> q.gate, policy |-> v]
    BY ZenonT(60), <1>1, <1>3, <1>4, <2>1
  <2>4. PairGood(p, [gate |-> q.gate, policy |-> v], F, A, W \cup {v.pending}, C)
    BY SMTT(60), <1>4, <2>2, SentKeeps
  <2>5. v.pending # 0 /\ v.pending \notin W
    BY <1>2, <2>2 DEF WriteSent, PolicyInv, WritesKnown
  <2> QED
    BY <2>3, <2>4, <2>5
<1>5. CASE ~q.gate.ok /\ Failed(p.gate, q.gate, F, A) /\ q.policy = p.policy
  <2>1. r = q
    BY <1>1, <1>5
  <2>2. Good(p.gate, q.gate, F, A, WriteHolds(p.policy))
    BY <1>5, FailedGood
  <2>3. q = [p EXCEPT !.gate = q.gate]
    BY <1>2, <1>3, <1>5 DEF Pairs
  <2>4. PairGood(p, q, F, A, W, C)
    BY <2>2, <2>3, RegateKeeps
  <2> QED
    BY <1>5, <2>1, <2>4
<1> QED
  BY <1>3, <1>4, <1>5

\* WRITE_END.
LEMMA WriteEndKeeps ==
  ASSUME NEW p, NEW F, NEW A, NEW W, NEW C, PairInv(p, F, A, W, C), NEW r \in WriteEnd(p)
  PROVE  PairGood(p, r, F, A, W, C)
<1>1. PICK q \in RecordWriter(p, p.policy.log) :
        r = IF q.gate.ok THEN [q EXCEPT !.policy.maint = "ENDED"] ELSE q
  BY DEF WriteEnd
<1>2. PairGood(p, q, F, A, W, C) /\ PairInv(q, F, A, W, C) /\ PairKept(p, q)
  BY NoteKeeps DEF PairGood
<1>3. CASE r = [q EXCEPT !.policy.maint = "ENDED"]
  <2>1. Remaint(q, r, "ENDED") /\ "ENDED" \in Maintenance
    BY <1>3 DEF Remaint, Maintenance
  <2>2. PairGood(q, r, F, A, W, C)
    BY <1>2, <2>1, MaintenanceKeeps
  <2> QED
    BY <1>2, <2>2, PairTransitive
<1> QED
  BY <1>1, <1>2, <1>3

\* WRITE_BEGIN.
LEMMA BeginKeeps ==
  ASSUME NEW p, NEW F, NEW A, NEW W, NEW C, PairInv(p, F, A, W, C), p.policy.session # None, NEW r \in Begin(p)
  PROVE  PairGood(p, r, F, A, W, C)
<1> DEFINE Taken(q) == [q EXCEPT !.policy.session.owner = TRUE, !.policy.maint = "PENDING"]
<1>1. CASE p.policy.maint # "NONE"
  BY <1>1, SettleMaintenanceKeeps DEF Begin
<1>2. CASE p.policy.maint = "NONE"
  <2>1. PICK q \in RecordWriter(p, p.policy.log) :
          \/ r = q
          \/ r \in UNION {SettleMaintenance([Taken(q) EXCEPT !.gate = h]) : h \in Drain(q.gate)}
    BY Zenon, <1>2 DEF Begin
  <2>2. /\ PairGood(p, q, F, A, W, C) /\ PairInv(q, F, A, W, C) /\ PairKept(p, q) /\ q.policy = p.policy
        /\ q \in Pairs /\ q.policy \in Policy /\ q.policy.session \in Session
    BY ZenonT(60), NoteKeeps DEF PairGood, PairInv, PolicyInv, Policy
  <2>3. ASSUME NEW h \in Drain(q.gate), r \in SettleMaintenance([Taken(q) EXCEPT !.gate = h])
        PROVE  PairGood(q, r, F, A, W, C)
    <3>1. PICK s : s = [q.policy.session EXCEPT !.owner = TRUE]
      BY Zenon
    <3>2. s \in Session
      BY Zenon, <2>2, <3>1 DEF Session
    <3>3. PICK k : k = [q EXCEPT !.policy.session = s]
      BY Zenon
    <3>18. Resession(q, k, s) /\ s \in Session \cup {None}
      BY SMTT(60), <3>2, <3>3 DEF Resession
    <3>4. PairGood(q, k, F, A, W, C) /\ k.policy.maint = "NONE" /\ k.gate = q.gate
      BY SMTT(60), <1>2, <2>2, <3>18, SessionKeeps
    <3>5. PICK m : m = [k EXCEPT !.policy.maint = "PENDING"]
      BY Zenon
    <3>6. "PENDING" \in Maintenance /\ Remaint(k, m, "PENDING") /\ PairInv(k, F, A, W, C) /\ PairKept(q, k)
      BY <3>4, <3>5 DEF Maintenance, Remaint, PairGood
    <3>7. PairGood(k, m, F, A, W, C) /\ m.gate = k.gate
      BY SMTT(60), <3>4, <3>6, MaintenanceKeeps
    <3>8. PairGood(q, m, F, A, W, C) /\ PairInv(m, F, A, W, C) /\ PairKept(q, m)
      BY SMTT(60), <3>6, <3>7, PairTransitive DEF PairGood
    <3>9. m = Taken(q)
      BY SMTT(60), <2>2, <3>1, <3>3, <3>5 DEF Pairs, Policy, Session
    <3>10. PICK n : n = [m EXCEPT !.gate = h]
      BY ZenonT(60)
    <3>11. GateInv(m.gate, F, A) /\ HoldKept(m.gate, WriteHolds(m.policy)) /\ h \in Drain(m.gate)
      BY SMTT(60), <2>3, <3>4, <3>7, <3>8 DEF PairInv, PolicyInv
    <3>12. Good(m.gate, h, F, A, WriteHolds(m.policy))
      BY <3>11, DrainKeeps
    <3>13. PairGood(m, n, F, A, W, C)
      BY SMTT(60), <3>8, <3>10, <3>12, RegateKeeps
    <3>14. PairInv(n, F, A, W, C) /\ PairKept(m, n)
      BY <3>13 DEF PairGood
    <3>15. r \in SettleMaintenance(n)
      BY SMTT(60), <2>3, <3>9, <3>10
    <3>16. PairGood(n, r, F, A, W, C)
      BY SMTT(60), <3>14, <3>15, SettleMaintenanceKeeps
    <3>17. PairGood(m, r, F, A, W, C)
      BY SMTT(60), <3>14, <3>16, PairTransitive
    <3> QED
      BY <3>8, <3>17, PairTransitive
  <2>4. CASE r \in UNION {SettleMaintenance([Taken(q) EXCEPT !.gate = h]) : h \in Drain(q.gate)}
    <3>1. PICK h \in Drain(q.gate) : r \in SettleMaintenance([Taken(q) EXCEPT !.gate = h])
      BY ZenonT(60), <2>4
    <3>2. PairGood(q, r, F, A, W, C)
      BY Zenon, <2>3, <3>1
    <3> QED
      BY SMTT(60), <2>2, <3>2, PairTransitive
  <2> QED
    BY ZenonT(60), <2>1, <2>2, <2>4
<1> QED
  BY <1>1, <1>2

\* What follows every handler: the drain, then the maintenance.
LEMMA FinishKeeps ==
  ASSUME NEW p, NEW h, NEW q, NEW r, NEW F, NEW A, NEW W, NEW C, PairInv(p, F, A, W, C),
         h \in SettleDrain(p.gate), q \in SettleMaintenance([p EXCEPT !.gate = h]),
         r = [gate |-> [q.gate EXCEPT !.ok = TRUE], policy |-> q.policy]
  PROVE  PairGood(p, r, F, A, W, C) /\ SameWrites(p.policy, r.policy)
<1>1. GateInv(p.gate, F, A) /\ HoldKept(p.gate, WriteHolds(p.policy))
  BY DEF PairInv, PolicyInv
<1>2. Good(p.gate, h, F, A, WriteHolds(p.policy))
  BY <1>1, SettleDrainKeeps
<1>3. PICK k : k = [p EXCEPT !.gate = h]
  OBVIOUS
<1>4. PairGood(p, k, F, A, W, C) /\ k.policy = p.policy /\ PairInv(k, F, A, W, C) /\ PairKept(p, k)
  BY <1>2, <1>3, RegateKeeps DEF PairGood
<1>5. PairGood(k, q, F, A, W, C) /\ SameWrites(k.policy, q.policy)
  BY ZenonT(60), <1>3, <1>4, SettleMaintenanceKeeps
<1>6. PairInv(q, F, A, W, C) /\ PairKept(k, q) /\ q \in Pairs
  BY <1>5 DEF PairGood, PairInv
<1>7. PICK m : m = [q.gate EXCEPT !.ok = TRUE]
  OBVIOUS
<1>8. GateInv(q.gate, F, A) /\ HoldKept(q.gate, WriteHolds(q.policy))
  BY <1>6 DEF PairInv, PolicyInv
<1>9. Good(q.gate, m, F, A, WriteHolds(q.policy))
  BY <1>7, <1>8, QuietKeeps
<1>13. r = [gate |-> m, policy |-> q.policy] /\ q = [gate |-> q.gate, policy |-> q.policy]
  BY <1>6, <1>7 DEF Pairs
<1>10. r = [q EXCEPT !.gate = m]
  <2>1. PICK a : a = q.gate
    OBVIOUS
  <2>2. PICK b : b = q.policy
    OBVIOUS
  <2>3. q = [gate |-> a, policy |-> b] /\ r = [gate |-> m, policy |-> b]
    BY ZenonT(60), <1>13, <2>1, <2>2
  <2>4. [q EXCEPT !.gate = m] = [gate |-> m, policy |-> b]
    BY ONLY <2>3
  <2> QED
    BY Zenon, <2>3, <2>4
<1>11. PairGood(q, r, F, A, W, C) /\ r.policy = q.policy
  BY ZenonT(60), <1>6, <1>9, <1>10, RegateKeeps
<1>12. PairGood(k, r, F, A, W, C)
  BY SMTT(60), <1>6, <1>11, PairTransitive
<1> QED
  BY SMTT(60), <1>4, <1>5, <1>11, <1>12, PairTransitive

\* A new process, or GATE_RESTART: the floor holds every write without a result.
LEMMA RestartPolicyKeeps ==
  ASSUME NEW g, NEW w, NEW F, NEW A, NEW W, NEW C, PolicyInv(g, w, F, A, W, C),
         NEW r \in RestartPolicy(Reopened(g), w)
  PROVE  /\ PairInv(r, F, A, W, C) /\ r.policy.maint = "ENDED"
         /\ Rank(g.state) <= Rank(r.gate.state) \/ (g.residual /\ Rank(r.gate.state) = 2)
<1> DEFINE l == RebuiltWrites(w.log)
           f == WriteFloor(w.log)
<1>1. PICK h \in GateRestart(Reopened(g), f) :
        r = [gate |-> h, policy |-> [w EXCEPT !.pending = 0, !.writes = l, !.maint = "ENDED", !.session = None]]
  BY DEF RestartPolicy
<1>2. /\ GateInv(g, F, A) /\ w \in Policy /\ HoldKept(g, WriteHolds(w)) /\ WritesKnown(w, g.state, W, C)
      /\ Len(w.log) \in Nat /\ w.log \in Seq(WriteEntry) /\ DOMAIN w.log = 1 .. Len(w.log)
  BY DEF PolicyInv, Policy
<1>3. l \in Seq(WriteEntry) /\ Len(l) = Len(w.log)
  BY <1>2 DEF RebuiltWrites, WriteEntry
<1>4. ASSUME NEW id \in DOMAIN w.log, w.log[id] # "DELIVERED_RESULT"
      PROVE  f
  <2>1. w.log[id] \in WriteEntry
    BY <1>2
  <2> QED
    BY <1>4, <2>1 DEF WriteFloor, RebuiltWrites, WriteEntry
<1>5. Implied(WriteHolds(w), f)
  BY <1>4 DEF Implied, WriteHolds
<1> HIDE DEF l, f
<1>6. /\ Sound(g, h, F, A, WriteHolds(w)) /\ HoldKept(h, FALSE) /\ HeldIf(f, h) /\ InFlight(h) = {}
      /\ Rank(g.state) <= Rank(h.state) \/ (g.residual /\ Rank(h.state) = 2)
  BY ZenonT(60), <1>1, <1>2, <1>5, RestartSound
<1>7. PICK v : v = [w EXCEPT !.pending = 0, !.writes = l, !.maint = "ENDED", !.session = None]
  OBVIOUS
<1>8. 0 \in 0 .. MaxWrites /\ "ENDED" \in Maintenance
  BY WriteBoundAssumption DEF Maintenance
<1>9. v \in Policy /\ v.pending = 0 /\ v.writes = l /\ v.maint = "ENDED" /\ v.log = w.log
  BY ZenonT(60), <1>2, <1>3, <1>7, <1>8 DEF Policy
<1>10. GateInv(h, F, A) /\ h \in Gate
  BY <1>6 DEF Sound, GateInv
<1>11. HoldKept(h, WriteHolds(v))
  BY <1>6 DEF HoldKept
<1>12. WritesKnown(v, h.state, W, C)
  <2>1. ASSUME NEW id \in W \ C
        PROVE  w.log[id] # "DELIVERED_RESULT" /\ h.state = "HELD"
    <3>1. id \in DOMAIN w.log /\ w.log[id] # "DELIVERED_RESULT"
      BY <1>2 DEF WritesKnown
    <3> QED
      BY SMTT(60), <1>4, <1>6, <3>1 DEF HeldIf
  <2> QED
    BY SMTT(60), <1>2, <1>3, <1>9, <2>1 DEF WritesKnown
<1>13. PolicyInv(h, v, F, A, W, C)
  BY SMTT(60), <1>9, <1>10, <1>11, <1>12 DEF PolicyInv
<1>14. r \in Pairs /\ r.gate = h /\ r.policy = v
  BY SMTT(60), <1>1, <1>7, <1>9, <1>10 DEF Pairs
<1> QED
  BY SMTT(60), <1>6, <1>9, <1>13, <1>14 DEF PairInv

\* What `Finish' makes of one of the pairs of S.
Finishes(S, h, v) ==
  \E p \in S : \E k \in SettleDrain(p.gate) : \E q \in SettleMaintenance([p EXCEPT !.gate = k]) :
    h = [q.gate EXCEPT !.ok = TRUE] /\ v = q.policy

\* What an event that is no restart makes of the gate g and the policy w.
PolicySteps(g, w, h, v, F, A, W, C) ==
  /\ PolicyInv(h, v, F, A, W, C)
  /\ Rank(g.state) <= Rank(h.state)
  /\ w.maint = "ENDED" => v.maint = "ENDED"

\* What follows every handler, the settled drain and maintenance, undoes nothing.
LEMMA FinishedOf ==
  ASSUME NEW S, NEW h, NEW v, Finishes(S, h, v)
  PROVE  \E p \in S : \A F, A, W, C : PairInv(p, F, A, W, C) =>
           PairGood(p, [gate |-> h, policy |-> v], F, A, W, C) /\ SameWrites(p.policy, v)
<1>1. PICK p \in S : \E k \in SettleDrain(p.gate) : \E q \in SettleMaintenance([p EXCEPT !.gate = k]) :
        h = [q.gate EXCEPT !.ok = TRUE] /\ v = q.policy
  BY Zenon DEF Finishes
<1>2. PICK k \in SettleDrain(p.gate) : \E q \in SettleMaintenance([p EXCEPT !.gate = k]) :
        h = [q.gate EXCEPT !.ok = TRUE] /\ v = q.policy
  BY Zenon, <1>1
<1>3. PICK q \in SettleMaintenance([p EXCEPT !.gate = k]) : h = [q.gate EXCEPT !.ok = TRUE] /\ v = q.policy
  BY Zenon, <1>2
<1>4. PICK r : r = [gate |-> h, policy |-> v]
  BY Zenon
<1>5. ASSUME NEW F, NEW A, NEW W, NEW C, PairInv(p, F, A, W, C)
      PROVE  PairGood(p, r, F, A, W, C) /\ SameWrites(p.policy, v)
  <2>1. r = [gate |-> [q.gate EXCEPT !.ok = TRUE], policy |-> q.policy] /\ r.policy = v
    BY <1>3, <1>4
  <2> QED
    BY <1>5, <2>1, FinishKeeps
<1> QED
  BY <1>4, <1>5

\* A handler of the writer's channel.
LEMMA WriterSteps ==
  ASSUME NEW g, NEW w, NEW h, NEW v, NEW F, NEW A, NEW W, NEW C, NEW S, Finishes(S, h, v),
         \A p \in S : PairGood([gate |-> g, policy |-> w], p, F, A, W, C)
  PROVE  PolicySteps(g, w, h, v, F, A, W, C)
<1>1. PICK p \in S : \A E, B, V, D : PairInv(p, E, B, V, D) =>
        PairGood(p, [gate |-> h, policy |-> v], E, B, V, D) /\ SameWrites(p.policy, v)
  BY Zenon, FinishedOf
<1>2. PICK r : r = [gate |-> h, policy |-> v]
  BY Zenon
<1>3. PICK o : o = [gate |-> g, policy |-> w]
  OBVIOUS
<1>4. PairGood(o, p, F, A, W, C) /\ PairInv(p, F, A, W, C) /\ PairKept(o, p)
  BY <1>3 DEF PairGood
<1>5. PairGood(p, r, F, A, W, C)
  BY <1>1, <1>2, <1>4
<1>6. PairGood(o, r, F, A, W, C)
  BY <1>4, <1>5, PairTransitive
<1>7. r.gate = h /\ r.policy = v /\ o.gate = g /\ o.policy = w
  BY <1>2, <1>3
<1> QED
  BY <1>6, <1>7 DEF PairGood, PairInv, PairKept, PolicySteps

\* A handler of the gate under the policy.
LEMMA BaseSteps ==
  ASSUME NEW g, NEW w, NEW h, NEW v, NEW F, NEW A, NEW B, NEW W, NEW C, NEW S,
         PolicyInv(g, w, F, A, W, C), A \subseteq B, \A k \in S : Steps(g, k, F, B, WriteHolds(w)),
         Finishes({[gate |-> k, policy |-> w] : k \in S}, h, v)
  PROVE  PolicySteps(g, w, h, v, F, B, W, C)
<1> DEFINE P == {[gate |-> k, policy |-> w] : k \in S}
<1>1. PICK p \in P : \A E, X, V, D : PairInv(p, E, X, V, D) =>
        PairGood(p, [gate |-> h, policy |-> v], E, X, V, D) /\ SameWrites(p.policy, v)
  BY FinishedOf
<1>2. PICK k \in S : p = [gate |-> k, policy |-> w]
  BY <1>1
<1>3. p.gate = k /\ p.policy = w
  BY <1>2
<1>4. Steps(g, k, F, B, WriteHolds(w)) /\ k \in Gate /\ w \in Policy /\ Rank(g.state) <= Rank(k.state)
  BY DEF Steps, Sound, GateInv, PolicyInv
<1>5. PolicyInv(k, w, F, B, W, C)
  BY <1>4, PolicyUnderGood
<1>6. PairInv(p, F, B, W, C)
  BY SMTT(60), <1>2, <1>3, <1>4, <1>5 DEF PairInv, Pairs
<1>7. PICK r : r = [gate |-> h, policy |-> v]
  BY Zenon
<1>8. PairGood(p, r, F, B, W, C) /\ r.gate = h /\ r.policy = v
  BY SMTT(60), <1>1, <1>6, <1>7
<1>9. Rank(g.state) \in Nat /\ Rank(k.state) \in Nat /\ Rank(h.state) \in Nat
  BY DEF Rank
<1> QED
  BY SMTT(60), <1>3, <1>4, <1>8, <1>9 DEF PairGood, PairInv, PairKept, PolicySteps

\* A worker's request under the policy; none is let through while a write is out.
LEMMA PolicyRequestSteps ==
  ASSUME NEW g, NEW w, NEW h, NEW v, NEW F, NEW A, NEW W, NEW C, PolicyInv(g, w, F, A, W, C),
         NEW c \in Conns, NEW exact,
         Finishes({[gate |-> k, policy |-> w] : k \in Request(g, c, exact)}, h, v)
  PROVE  PolicySteps(g, w, h, v, F \cup Sent(g, h), A, W, C)
<1>1. GateInv(g, F, A) /\ HoldKept(g, WriteHolds(w)) /\ w \in Policy /\ WritesKnown(w, g.state, W, C)
  BY DEF PolicyInv
<1>2. PICK p \in {[gate |-> k, policy |-> w] : k \in Request(g, c, exact)} :
        \E x \in SettleDrain(p.gate) : \E q \in SettleMaintenance([p EXCEPT !.gate = x]) :
          h = [q.gate EXCEPT !.ok = TRUE] /\ v = q.policy
  BY Zenon DEF Finishes
<1>3. PICK k \in Request(g, c, exact) : p = [gate |-> k, policy |-> w]
  BY <1>2
<1>4. p.gate = k /\ p.policy = w
  BY <1>3
<1>5. PICK x \in SettleDrain(k) : \E q \in SettleMaintenance([p EXCEPT !.gate = x]) :
        h = [q.gate EXCEPT !.ok = TRUE] /\ v = q.policy
  BY Zenon, <1>2, <1>4
<1>6. PICK q \in SettleMaintenance([p EXCEPT !.gate = x]) : h = [q.gate EXCEPT !.ok = TRUE] /\ v = q.policy
  BY Zenon, <1>5
<1>7. CASE Good(g, k, F, A, WriteHolds(w))
  <2>1. /\ Steps(g, k, F, A, WriteHolds(w)) /\ InFlight(k) \subseteq InFlight(g) /\ k \in Gate
        /\ Rank(g.state) <= Rank(k.state)
    BY SMTT(60), <1>7, GoodSteps DEF Steps, Good, GateInv
  <2>2. PolicyInv(k, w, F, A, W, C)
    BY <2>1, PolicyUnderGood
  <2>3. PairInv(p, F, A, W, C)
    BY SMTT(60), <1>1, <1>3, <1>4, <2>1, <2>2 DEF PairInv, Pairs
  <2>4. PICK r : r = [gate |-> [q.gate EXCEPT !.ok = TRUE], policy |-> q.policy]
    BY Zenon
  <2>5. PairGood(p, r, F, A, W, C) /\ r.gate = h /\ r.policy = v
    BY ZenonT(60), <1>4, <1>5, <1>6, <2>3, <2>4, FinishKeeps
  <2>6. /\ InFlight(h) \subseteq InFlight(g) /\ Rank(k.state) <= Rank(h.state) /\ PolicyInv(h, v, F, A, W, C)
        /\ w.maint = "ENDED" => v.maint = "ENDED"
    BY SMTT(60), <1>4, <2>1, <2>5 DEF PairGood, PairKept, PairInv
  <2>7. F \cup Sent(g, h) = F
    BY <2>6, NothingSent
  <2>8. Rank(g.state) \in Nat /\ Rank(k.state) \in Nat /\ Rank(h.state) \in Nat
    BY DEF Rank
  <2>9. Rank(g.state) <= Rank(h.state)
    BY SMTT(60), <2>1, <2>6, <2>8
  <2> QED
    BY ZenonT(60), <2>6, <2>7, <2>9 DEF PolicySteps
<1>8. CASE \E i \in Armed(g) : Forwards(g, k, i, F, A)
  <2>1. PICK i \in Armed(g) : Forwards(g, k, i, F, A)
    BY <1>8
  <2>2. PICK m : m = [k EXCEPT !.ok = TRUE]
    BY Zenon
  <2>3. /\ SettleDrain(k) = {k} /\ Fence(k) = "PENDING" /\ m.state = "ACTIVE"
        /\ Steps(g, m, F \cup Sent(g, m), A, WriteHolds(w))
    BY ZenonT(60), <1>1, <2>1, <2>2, ForwardsSent
  <2>4. [p EXCEPT !.gate = x] = p /\ x = k
    BY SMTT(60), <1>3, <1>5, <2>3
  <2>5. SettleMaintenance(p) = {p}
    BY <1>4, <2>3 DEF SettleMaintenance
  <2>6. h = m /\ v = w
    BY ZenonT(60), <1>4, <1>6, <2>2, <2>4, <2>5
  <2>7. /\ GateInv(h, F \cup Sent(g, h), A) /\ HoldKept(h, WriteHolds(w))
        /\ Rank(g.state) <= Rank(h.state) /\ h.state = "ACTIVE"
    BY <2>3, <2>6 DEF Steps, Sound
  <2>8. g.state = "ACTIVE"
    BY <2>1 DEF Forwards
  <2>9. ~(w.maint = "OPEN" \/ w.pending # 0)
    BY <2>8 DEF PolicyInv, Quiesced, Rank
  <2>10. WritesKnown(w, h.state, W, C)
    BY SMTT(60), <1>1, <2>7, <2>8
  <2>11. PolicyInv(h, w, F \cup Sent(g, h), A, W, C)
    BY SMTT(60), <1>1, <2>7, <2>9, <2>10 DEF PolicyInv
  <2> QED
    BY SMTT(60), <2>6, <2>7, <2>11 DEF PolicySteps
<1>9. Good(g, k, F, A, WriteHolds(w)) \/ \E i \in Armed(g) : Forwards(g, k, i, F, A)
  BY <1>1, RequestKeeps
<1> QED
  BY <1>7, <1>8, <1>9

-----------------------------------------------------------------------------
(* The events of the gate with its writer.                                 *)

\* The invariant of the gate with its writer.
PolicyInvariant ==
  PolicyInv(gate, policy, forwarded, answered, Written, confirmed) /\ written \in Seq(Nat)

\* What no event may do.
Stricter ==
  /\ Rank(gate.state) <= Rank(gate'.state) \/ (gate.residual /\ Rank(gate'.state) = 2)
  /\ policy.maint = "ENDED" => policy'.maint = "ENDED" /\ written' = written
  /\ written' # written =>
       written' = Append(written, policy'.pending) /\ policy'.pending \notin Written

\* An event that sends no write.
LEMMA QuietEvent ==
  ASSUME PolicyInvariant, written' = written,
         PolicySteps(gate, policy, gate', policy', forwarded', answered', Written, confirmed')
  PROVE  PolicyInvariant' /\ Stricter
<1>1. Written' = Written
  BY DEF Written
<1> QED
  BY <1>1 DEF PolicySteps, PolicyInvariant, Stricter

\* A write that is sent joins the ones sent before.
LEMMA WrittenGrows ==
  ASSUME NEW id \in Nat, written \in Seq(Nat), written' = Append(written, id)
  PROVE  Written' = Written \cup {id} /\ written' \in Seq(Nat)
<1>1. /\ written' \in Seq(Nat) /\ DOMAIN written' = 1 .. Len(written) + 1 /\ DOMAIN written = 1 .. Len(written)
      /\ Len(written) \in Nat
      /\ \A i \in 1 .. Len(written) : written'[i] = written[i]
      /\ written'[Len(written) + 1] = id
  OBVIOUS
<1> QED
  BY <1>1 DEF Written

\* An event of the gate that settles nothing.
LEMMA BaseEvent ==
  ASSUME PolicyInvariant, NEW S, BaseStep(S), UNCHANGED forwarded,
         \A k \in S : Steps(gate, k, forwarded, answered, WriteHolds(policy))
  PROVE  PolicyInvariant' /\ Stricter
<1>1. Finishes({[gate |-> k, policy |-> policy] : k \in S}, gate', policy')
  BY Zenon DEF BaseStep, Finish, Finishes
<1>2. PolicySteps(gate, policy, gate', policy', forwarded, answered, Written, confirmed)
  BY <1>1, BaseSteps DEF PolicyInvariant
<1> QED
  BY <1>2, QuietEvent DEF BaseStep

\* An event of the writer's channel that sends nothing.
LEMMA WriterEvent ==
  ASSUME PolicyInvariant, NEW S, WriterStep(S), UNCHANGED written,
         \A p \in S : PairGood([gate |-> gate, policy |-> policy], p, forwarded, answered, Written, confirmed)
  PROVE  PolicyInvariant' /\ Stricter
<1>1. Finishes(S, gate', policy')
  BY Zenon DEF WriterStep, Finish, Finishes
<1>2. PolicySteps(gate, policy, gate', policy', forwarded, answered, Written, confirmed)
  BY <1>1, WriterSteps
<1> QED
  BY <1>2, QuietEvent DEF WriterStep

\* The pair of the specification.
LEMMA PairOf ==
  ASSUME PolicyInvariant
  PROVE  /\ PairInv(Pair, forwarded, answered, Written, confirmed)
         /\ Pair.gate = gate /\ Pair.policy = policy /\ Pair = [gate |-> gate, policy |-> policy]
  BY DEF Pair, PairInv, PolicyInvariant, PolicyInv, GateInv, Pairs

\* The I05 events.
LEMMA GateEvents ==
  ASSUME PolicyInvariant,
         PWorker \/ PBroker \/ PExpire \/ \E c \in Conns, i \in 1 .. MaxActions : PTimeout(c, i)
  PROVE  PolicyInvariant' /\ Stricter
<1> DEFINE Fine(S) == \A k \in S : Steps(gate, k, forwarded, answered, WriteHolds(policy))
<1>1. GateInv(gate, forwarded, answered) /\ HoldKept(gate, WriteHolds(policy))
  BY DEF PolicyInvariant, PolicyInv
<1>2. ASSUME NEW S, Fine(S), BaseStep(S), UNCHANGED forwarded
      PROVE  PolicyInvariant' /\ Stricter
  BY <1>2, BaseEvent
<1>3. ASSUME NEW c \in Conns, PBacklog(c) \/ PAccept(c) \/ PDisconnect(c)
      PROVE  PolicyInvariant' /\ Stricter
  <2>1. Fine(Backlog(gate, c)) /\ Fine(Accept(gate, c)) /\ Fine(Disconnect(gate, c))
    BY ZenonT(60), <1>1, BrokerSteps
  <2> HIDE DEF Fine
  <2> QED
    BY <1>2, <1>3, <2>1 DEF PBacklog, PAccept, PDisconnect
<1>4. ASSUME NEW c \in Conns, NEW exact \in BOOLEAN, PRequest(c, exact)
      PROVE  PolicyInvariant' /\ Stricter
  <2>1. Finishes({[gate |-> k, policy |-> policy] : k \in Request(gate, c, exact)}, gate', policy')
    BY ZenonT(60), <1>4 DEF PRequest, BaseStep, Finish, Finishes
  <2>2. PolicySteps(gate, policy, gate', policy', forwarded \cup Sent(gate, gate'), answered, Written, confirmed)
    BY <2>1, PolicyRequestSteps DEF PolicyInvariant
  <2>3. forwarded' = forwarded \cup Sent(gate, gate') /\ UNCHANGED <<answered, written, confirmed>>
    BY ZenonT(60), <1>4 DEF PRequest, BaseStep
  <2>4. PolicySteps(gate, policy, gate', policy', forwarded', answered, Written, confirmed)
    BY ZenonT(60), <2>2, <2>3
  <2> HIDE DEF Fine
  <2> QED
    BY <2>3, <2>4, QuietEvent
<1>5. ASSUME NEW c \in Conns, NEW i \in 1 .. MaxActions, PTimeout(c, i)
      PROVE  PolicyInvariant' /\ Stricter
  <2>1. Fine(Timeout(gate, c, i))
    BY ZenonT(60), <1>1, <1>5, BrokerSteps DEF PTimeout
  <2> HIDE DEF Fine
  <2> QED
    BY <1>2, <1>5, <2>1 DEF PTimeout
<1>6. CASE POpen
  <2>1. Fine({[gate EXCEPT !.channel = "OPEN"]})
    BY SMTT(60), <1>1, <1>6, BrokerSteps DEF POpen
  <2> HIDE DEF Fine
  <2> QED
    BY SMTT(60), <1>2, <1>6, <2>1 DEF POpen
<1>7. CASE PChannelLost \/ PFatal \/ PExpire
  <2>1. Fine(ChannelLost(gate)) /\ Fine(Fatal(gate)) /\ Fine(Expire(gate))
    BY ZenonT(60), <1>1, BrokerSteps
  <2> HIDE DEF Fine
  <2> QED
    BY SMTT(60), <1>2, <1>7, <2>1 DEF PChannelLost, PFatal, PExpire
<1>8. ASSUME NEW e \in Executions, NEW r \in Runs, PBind(e, r)
      PROVE  PolicyInvariant' /\ Stricter
  <2>1. Fine(Bind(gate, e, r))
    BY SMTT(60), <1>1, <1>8, BindingSteps DEF PBind
  <2> HIDE DEF Fine
  <2> QED
    BY SMTT(60), <1>2, <1>8, <2>1 DEF PBind
<1>9. ASSUME NEW e \in Executions, NEW t \in Template, PArm(e, t)
      PROVE  PolicyInvariant' /\ Stricter
  <2>1. Fine(Arm(gate, t))
    BY SMTT(60), <1>1, <1>9, BindingSteps DEF PArm
  <2> HIDE DEF Fine
  <2> QED
    BY SMTT(60), <1>2, <1>9, <2>1 DEF PArm
<1>10. ASSUME NEW e \in Executions, NEW i \in 1 .. MaxActions, POutcome(e, i)
       PROVE  PolicyInvariant' /\ Stricter
  <2>1. Fine(Outcome(gate, i))
    BY ZenonT(60), <1>1, <1>10, BrokerSteps DEF POutcome, MaySeal
  <2> HIDE DEF Fine
  <2> QED
    BY SMTT(60), <1>2, <1>10, <2>1 DEF POutcome
<1>11. ASSUME NEW reason \in CloseReason, PClose(reason)
       PROVE  PolicyInvariant' /\ Stricter
  <2>1. Fine(Close(gate, reason))
    BY ZenonT(60), <1>1, BrokerSteps
  <2> HIDE DEF Fine
  <2> QED
    BY SMTT(60), <1>2, <1>11, <2>1 DEF PClose
<1> HIDE DEF Fine
<1>12. CASE PWorker
  BY <1>3, <1>4, <1>12 DEF PWorker
<1>13. CASE PBroker
  BY SMTT(60), <1>6, <1>7, <1>8, <1>9, <1>10, <1>11, <1>13 DEF PBroker
<1> QED
  BY SMTT(60), <1>5, <1>7, <1>12, <1>13

\* The apiserver's answers.
LEMMA AnswerEvents ==
  ASSUME PolicyInvariant
  PROVE  /\ \A c \in Conns, i \in 1 .. MaxActions, response \in Response \cup {"lost"}, uid \in Uids \cup {None} :
              PUpstream(c, i, response, uid) => PolicyInvariant' /\ Stricter
         /\ \A id \in 1 .. MaxWrites, final \in BOOLEAN : OnWriteUpstream(id, final) => PolicyInvariant' /\ Stricter
<1>1. GateInv(gate, forwarded, answered) /\ HoldKept(gate, WriteHolds(policy))
  BY DEF PolicyInvariant, PolicyInv
<1>2. ASSUME NEW c \in Conns, NEW i \in 1 .. MaxActions, NEW response \in Response \cup {"lost"},
             NEW uid \in Uids \cup {None}, PUpstream(c, i, response, uid)
      PROVE  PolicyInvariant' /\ Stricter
  <2> DEFINE B == answered \cup Settles(gate, forwarded, i, response)
  <2>1. /\ i \in ForwardedOn(gate, c)
        /\ Finishes({[gate |-> k, policy |-> policy] : k \in Upstream(gate, c, i, response, uid)}, gate', policy')
    BY Zenon, <1>2 DEF PUpstream, Finish, Finishes
  <2>2. \A k \in Upstream(gate, c, i, response, uid) : Steps(gate, k, forwarded, B, WriteHolds(policy))
    BY <1>1, <2>1, UpstreamSteps
  <2>3. B = answered \cup Settling(gate, i, response) /\ answered \subseteq B
    BY DEF Settles, Settling
  <2> HIDE DEF B
  <2>4. PolicySteps(gate, policy, gate', policy', forwarded, B, Written, confirmed)
    BY ZenonT(60), <2>1, <2>2, <2>3, BaseSteps DEF PolicyInvariant
  <2> QED
    BY SMTT(60), <1>2, <2>3, <2>4, QuietEvent DEF PUpstream
<1>3. ASSUME NEW id \in 1 .. MaxWrites, NEW final \in BOOLEAN, OnWriteUpstream(id, final)
      PROVE  PolicyInvariant' /\ Stricter
  <2> DEFINE D == IF final /\ policy.pending = id THEN confirmed \cup {id} ELSE confirmed
  <2>1. Finishes(WriteUpstream(Pair, id, final), gate', policy')
    BY Zenon, <1>3 DEF OnWriteUpstream, Finish, Finishes
  <2>2. \A p \in WriteUpstream(Pair, id, final) : PairGood(Pair, p, forwarded, answered, Written, D)
    BY PairOf, WriteUpstreamKeeps
  <2>3. confirmed' = D
    BY <1>3 DEF OnWriteUpstream
  <2> HIDE DEF D
  <2>4. PolicySteps(gate, policy, gate', policy', forwarded, answered, Written, D)
    BY SMTT(60), <2>1, <2>2, PairOf, WriterSteps
  <2> QED
    BY SMTT(60), <1>3, <2>3, <2>4, QuietEvent DEF OnWriteUpstream
<1> QED
  BY <1>2, <1>3

\* The writer's frames.
LEMMA WriterEvents ==
  ASSUME PolicyInvariant, PWriter
  PROVE  PolicyInvariant' /\ Stricter
<1> DEFINE Fine(S) == \A p \in S :
             PairGood([gate |-> gate, policy |-> policy], p, forwarded, answered, Written, confirmed)
<1>1. /\ PairInv(Pair, forwarded, answered, Written, confirmed)
      /\ Pair.gate = gate /\ Pair.policy = policy /\ Pair = [gate |-> gate, policy |-> policy]
  BY PairOf
<1>2. ASSUME NEW S, Fine(S), WriterStep(S), UNCHANGED written
      PROVE  PolicyInvariant' /\ Stricter
  BY <1>2, WriterEvent
<1>3. CASE OnConnect
  <2>1. PICK s : s = [opened |-> FALSE, owner |-> FALSE]
    BY Zenon
  <2>2. s \in Session \cup {None}
    BY <2>1 DEF Session
  <2>3. Fine(Connect(Pair))
    <3>1. ASSUME NEW p, p = [Pair EXCEPT !.policy.session = s]
          PROVE  PairGood(Pair, p, forwarded, answered, Written, confirmed)
      BY SMTT(60), <1>1, <2>2, <3>1, SessionKeeps DEF Resession
    <3> QED
      BY SMTT(60), <1>1, <2>1, <3>1 DEF Connect
  <2> HIDE DEF Fine
  <2> QED
    BY <1>2, <1>3, <2>3 DEF OnConnect
<1>4. CASE OnWriterLost \/ OnWriterFatal \/ OnDeviation
  <2>1. Fine(WriterLost(Pair)) /\ Fine(WriterFatal(Pair))
    BY <1>1, SessionLostKeeps
  <2>2. Fine(Deviation(Pair))
    BY <1>1, DeviationKeeps
  <2> HIDE DEF Fine
  <2> QED
    BY SMTT(60), <1>2, <1>4, <2>1, <2>2 DEF OnWriterLost, OnWriterFatal, OnDeviation
<1>5. CASE OnOpenSession
  <2>1. policy \in Policy /\ policy.session \in Session /\ Pair \in Pairs
    BY <1>1, <1>5 DEF OnOpenSession, PairInv, PolicyInv, Policy
  <2>2. PICK s : s = [policy.session EXCEPT !.opened = TRUE]
    BY Zenon
  <2>3. s \in Session \cup {None}
    BY Zenon, <2>1, <2>2 DEF Session
  <2>4. Fine(OpenSession(Pair))
    <3>1. ASSUME NEW p, p = [Pair EXCEPT !.policy.session = s]
          PROVE  PairGood(Pair, p, forwarded, answered, Written, confirmed)
      BY <1>1, <2>3, <3>1, SessionKeeps DEF Resession
    <3>2. [Pair EXCEPT !.policy.session.opened = TRUE] = [Pair EXCEPT !.policy.session = s]
      BY SMTT(60), <1>1, <2>1, <2>2 DEF Policy, Session
    <3> QED
      BY ZenonT(60), <1>1, <3>1, <3>2 DEF OpenSession
  <2> HIDE DEF Fine
  <2> QED
    BY SMTT(60), <1>2, <1>5, <2>4 DEF OnOpenSession
<1>6. CASE OnBegin
  <2>1. Fine(Begin(Pair))
    BY SMTT(60), <1>1, <1>6, BeginKeeps DEF OnBegin, MayOperate
  <2> HIDE DEF Fine
  <2> QED
    BY SMTT(60), <1>2, <1>6, <2>1 DEF OnBegin
<1>7. CASE OnWriteEnd
  <2>1. Fine(WriteEnd(Pair))
    BY <1>1, WriteEndKeeps
  <2> HIDE DEF Fine
  <2> QED
    BY SMTT(60), <1>2, <1>7, <2>1 DEF OnWriteEnd
<1>8. CASE OnWriteObject
  <2>1. /\ Finishes(WriteObject(Pair), gate', policy') /\ forwarded' = forwarded /\ answered' = answered
        /\ confirmed' = confirmed
        /\ written' = IF policy'.pending = 0 THEN written ELSE Append(written, policy'.pending)
        /\ policy.pending = 0 /\ policy.maint = "OPEN" /\ Len(policy.writes) < MaxWrites
    BY Zenon, <1>8 DEF OnWriteObject, WriterStep, Finish, Finishes, MayOperate
  <2>2. PICK p \in WriteObject(Pair) : \A E, B, V, D : PairInv(p, E, B, V, D) =>
          PairGood(p, [gate |-> gate', policy |-> policy'], E, B, V, D) /\ SameWrites(p.policy, policy')
    BY <2>1, FinishedOf
  <2>3. PICK r : r = [gate |-> gate', policy |-> policy']
    BY Zenon
  <2>4. r.gate = gate' /\ r.policy = policy'
    BY <2>3
  <2>5. ASSUME NEW V, PairGood(Pair, p, forwarded, answered, V, confirmed)
        PROVE  /\ PolicySteps(gate, policy, gate', policy', forwarded, answered, V, confirmed)
               /\ policy'.pending = p.policy.pending
    <3>1. PairInv(p, forwarded, answered, V, confirmed) /\ PairKept(Pair, p)
      BY <2>5 DEF PairGood
    <3>2. PairGood(p, r, forwarded, answered, V, confirmed) /\ SameWrites(p.policy, policy')
      BY <2>2, <2>3, <3>1
    <3>3. PairGood(Pair, r, forwarded, answered, V, confirmed)
      BY <3>1, <3>2, PairTransitive
    <3> QED
      BY <1>1, <2>4, <3>2, <3>3 DEF PairGood, PairInv, PairKept, PolicySteps, SameWrites
  <2>6. CASE PairGood(Pair, p, forwarded, answered, Written, confirmed) /\ p.policy.pending = 0
    <3>1. policy'.pending = 0 /\ PolicySteps(gate, policy, gate', policy', forwarded, answered, Written, confirmed)
      BY <2>5, <2>6
    <3>2. written' = written
      BY <2>1, <3>1
    <3> QED
      BY ZenonT(60), <2>1, <3>1, <3>2, QuietEvent
  <2>7. CASE /\ PairGood(Pair, p, forwarded, answered, Written \cup {p.policy.pending}, confirmed)
             /\ p.policy.pending # 0 /\ p.policy.pending \notin Written
    <3>1. /\ policy'.pending = p.policy.pending
          /\ PolicySteps(gate, policy, gate', policy', forwarded, answered,
                         Written \cup {p.policy.pending}, confirmed)
      BY <2>5, <2>7
    <3>2. p.policy.pending \in Nat
      BY <2>7, WriteBoundAssumption DEF PairGood, PairInv, PolicyInv, Policy
    <3>3. written' = Append(written, p.policy.pending)
      BY <2>1, <2>7, <3>1
    <3>4. Written' = Written \cup {p.policy.pending} /\ written' \in Seq(Nat)
      BY <3>2, <3>3, WrittenGrows DEF PolicyInvariant
    <3> QED
      BY ZenonT(60), <2>1, <2>7, <3>1, <3>3, <3>4 DEF PolicySteps, PolicyInvariant, Stricter
  <2> QED
    BY SMTT(60), <1>1, <2>1, <2>2, <2>6, <2>7, WriteObjectKeeps
<1> QED
  BY SMTT(60), <1>3, <1>4, <1>5, <1>6, <1>7, <1>8 DEF PWriter

\* The process restart.
LEMMA RestartEvent ==
  ASSUME PolicyInvariant, PProcessRestart
  PROVE  PolicyInvariant' /\ Stricter
<1>1. /\ Finishes(RestartPolicy(Reopened(gate), policy), gate', policy') /\ forwarded' = forwarded
      /\ answered' = answered /\ confirmed' = confirmed /\ written' = written
  BY Zenon DEF PProcessRestart, WriterStep, Finish, Finishes
<1>2. PICK p \in RestartPolicy(Reopened(gate), policy) : \A E, B, V, D : PairInv(p, E, B, V, D) =>
        PairGood(p, [gate |-> gate', policy |-> policy'], E, B, V, D) /\ SameWrites(p.policy, policy')
  BY <1>1, FinishedOf
<1>3. PICK r : r = [gate |-> gate', policy |-> policy']
  BY Zenon
<1>4. /\ PairInv(p, forwarded, answered, Written, confirmed) /\ p.policy.maint = "ENDED"
      /\ Rank(gate.state) <= Rank(p.gate.state) \/ (gate.residual /\ Rank(p.gate.state) = 2)
  BY RestartPolicyKeeps DEF PolicyInvariant
<1>5. PairGood(p, r, forwarded, answered, Written, confirmed) /\ r.gate = gate' /\ r.policy = policy'
  BY SMTT(60), <1>2, <1>3, <1>4
<1>6. /\ PolicyInv(gate', policy', forwarded, answered, Written, confirmed)
      /\ Rank(p.gate.state) <= Rank(gate'.state) /\ policy'.maint = "ENDED"
  BY <1>4, <1>5 DEF PairGood, PairInv, PairKept
<1>7. Rank(gate.state) \in 0 .. 3 /\ Rank(p.gate.state) \in 0 .. 3 /\ Rank(gate'.state) \in 0 .. 3
  BY DEF Rank
<1>8. Rank(gate.state) <= Rank(gate'.state) \/ (gate.residual /\ Rank(gate'.state) = 2)
  BY <1>4, <1>6, <1>7
<1> QED
  BY <1>1, <1>6, <1>8 DEF PolicyInvariant, Stricter, Written

\* The invariant of the gate with its writer: a hold has a cause that a restart
\* reads, a write without a result is outstanding or holds the generation, and
\* while a write is out nothing of the worker's is unknown (policy_gate.rs).
THEOREM PolicySafe == PolicySpec => []PolicyInvariant
<1>1. PolicyInit => PolicyInvariant
  <2> SUFFICES ASSUME PolicyInit PROVE PolicyInvariant
    OBVIOUS
  <2>1. GateInv(gate, forwarded, answered) /\ HoldKept(gate, WriteHolds(policy))
    BY GateInitially DEF PolicyInit
  <2>2. policy = InitialPolicy /\ written = <<>> /\ Written = {} /\ confirmed = {}
    BY DEF PolicyInit, Written
  <2>3. policy \in Policy
    BY <2>2, WriteBoundAssumption DEF InitialPolicy, Policy, Maintenance
  <2>4. WritesKnown(policy, gate.state, Written, confirmed) /\ policy.maint # "OPEN" /\ policy.pending = 0
    BY <2>2 DEF WritesKnown, InitialPolicy
  <2>5. written \in Seq(Nat)
    BY <2>2
  <2> QED
    BY <2>1, <2>3, <2>4, <2>5 DEF PolicyInvariant, PolicyInv
<1>2. PolicyInvariant /\ [PolicyNext]_policyVars => PolicyInvariant'
  <2> SUFFICES ASSUME PolicyInvariant, [PolicyNext]_policyVars PROVE PolicyInvariant'
    OBVIOUS
  <2>1. CASE PolicyNext
    BY SMTT(60), <2>1, GateEvents, AnswerEvents, WriterEvents, RestartEvent DEF PolicyNext, PApiserver
  <2>2. CASE UNCHANGED policyVars
    BY <2>2 DEF policyVars, PolicyInvariant, Written
  <2> QED
    BY <2>1, <2>2
<1> QED
  BY <1>1, <1>2, PTL DEF PolicySpec

\* What is sent and unsettled holds the generation, now or after a restart,
\* whatever writes failed, for the worker's requests and the writer's
\* (rebuild, rebuild_writes, settle_maintenance, set_state).
THEOREM UnknownIsAlwaysHeld == PolicySpec => []UnknownHolds
<1>1. PolicyInvariant => UnknownHolds
  <2> SUFFICES ASSUME PolicyInvariant PROVE UnknownHolds
    OBVIOUS
  <2>1. /\ GateInv(gate, forwarded, answered) /\ HoldKept(gate, WriteHolds(policy)) /\ policy \in Policy
        /\ WritesKnown(policy, gate.state, Written, confirmed)
        /\ policy.maint = "OPEN" \/ policy.pending # 0 => Quiesced(gate, forwarded, answered)
    BY DEF PolicyInvariant, PolicyInv
  <2>2. UnknownIsHeld
    BY <2>1, UnsettledSeen DEF UnknownIsHeld
  <2>3. policy.pending # 0 => InFlight(gate) = {} /\ forwarded = answered
    BY <2>1 DEF Quiesced
  <2>4. ASSUME NEW id \in DOMAIN policy.log, policy.log[id] # "DELIVERED_RESULT"
        PROVE  WriteFloor(policy.log)
    <3>1. policy.log[id] \in WriteEntry
      BY <2>1 DEF Policy
    <3> QED
      BY <2>4, <3>1 DEF WriteFloor, RebuiltWrites, WriteEntry
  <2>5. ASSUME Written # confirmed
        PROVE  HeldAfterRestart /\ (gate.state = "HELD" \/ Written = confirmed \cup {policy.pending})
    <3>1. DOMAIN policy.log = Written /\ confirmed \subseteq Written
      BY <2>1 DEF WritesKnown, Policy
    <3>2. PICK id \in Written : id \notin confirmed
      BY <2>5, <3>1
    <3>3. WriteFloor(policy.log)
      BY SMTT(60), <2>1, <2>4, <3>1, <3>2 DEF WritesKnown
    <3>4. ASSUME gate.state # "HELD"
          PROVE  Written = confirmed \cup {policy.pending}
      <4>1. \A e \in Written : e \in confirmed \/ e = policy.pending
        BY <2>1, <3>4 DEF WritesKnown
      <4>2. policy.pending = id
        BY <3>2, <4>1
      <4> QED
        BY SMTT(60), <3>1, <3>2, <4>1, <4>2
    <3> QED
      BY <3>3, <3>4 DEF HeldAfterRestart
  <2>6. ASSUME gate.state = "HELD", ~gate.residual
        PROVE  HeldAfterRestart
    <3>1. CASE WriteHolds(policy)
      BY <2>4, <3>1 DEF WriteHolds, HeldAfterRestart
    <3>2. CASE gate.marker \/ gate.journal.torn \/ gate.journal.state \notin {"CLOSED", "INVALIDATED"}
      BY <3>2 DEF HeldAfterRestart, RestartState
    <3>3. CASE \E i \in DOMAIN gate.journal.actions : Unclean(gate.journal.actions[i])
      <4>1. ~Clean(gate.journal)
        BY <3>3 DEF Clean, Settled, Unclean
      <4> QED
        BY <4>1 DEF HeldAfterRestart, RestartState
    <3> QED
      BY SMTT(60), <2>1, <2>6, <3>1, <3>2, <3>3 DEF HoldKept
  <2> QED
    BY SMTT(60), <2>2, <2>3, <2>5, <2>6 DEF UnknownHolds
<1> QED
  BY <1>1, PolicySafe, PTL

\* A generation only gets stricter, but for a restart after the disclosed
\* residual; an ended maintenance sends nothing more, and no write is sent twice
\* (set_state, restart_with, write_object).
THEOREM NothingReopens == PolicySpec => NeverReopens
<1>1. PolicyInvariant /\ [PolicyNext]_policyVars => [Stricter]_policyVars
  BY GateEvents, AnswerEvents, WriterEvents, RestartEvent DEF PolicyNext, PApiserver
<1> QED
  BY <1>1, PolicySafe, PTL DEF PolicySpec, NeverReopens, Stricter

=============================================================================
