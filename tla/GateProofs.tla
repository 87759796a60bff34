----------------------------- MODULE GateProofs -----------------------------
(***************************************************************************)
(* Why the gate never opens its fence over an unsettled request, never     *)
(* lets an old connection serve a new action and never forwards a mutation *)
(* twice, for any number of connections, actions and failing writes: the   *)
(* handlers that close, drain, bind, arm and restart, the events, and the  *)
(* theorems.  What an event comes to, a handler and what always follows    *)
(* it, is Steps; HoldKept says that a hold has a cause a restart can read. *)
(***************************************************************************)
EXTENDS GateLemmas

(* Draining, expiring and closing.                                         *)

\* A handler that does nothing.
LEMMA StillGood ==
  ASSUME NEW g, NEW F, NEW A, NEW w, GateInv(g, F, A), HoldKept(g, w)
  PROVE  Good(g, g, F, A, w)
  BY DEF Good, GateInv, Gate, State, Kept, Frozen, Rank

\* A calm step that enters no hold and writes nothing.
LEMMA CalmStays ==
  ASSUME NEW g, NEW h, NEW F, NEW A, NEW w, GateInv(g, F, A), HoldKept(g, w), Calm(g, h),
         Rank(g.state) <= Rank(h.state), h.state = "HELD" => g.state = "HELD",
         h.journal = g.journal, h.marker = g.marker, h.residual = g.residual
  PROVE  Good(g, h, F, A, w)
<1>1. GateInv(h, F, A) /\ Kept(g, h) /\ h.bound = g.bound
  BY CalmGood
<1> QED
  BY <1>1 DEF Good, HoldKept, Kept

\* deny_armed after a step.
LEMMA ThenDeny ==
  ASSUME NEW g, NEW k, NEW F, NEW A, NEW w, GateInv(g, F, A), Good(g, k, F, A, w), NEW h \in DenyArmed(k)
  PROVE  Good(g, h, F, A, w)
<1>1. GateInv(k, F, A) /\ HoldKept(k, w) /\ Kept(g, k) /\ k.bound = g.bound
  BY DEF Good
<1>2. Good(k, h, F, A, w)
  BY <1>1, DenyArmedKeeps
<1> QED
  BY <1>1, <1>2, GoodTransitive

\* settle_drain after a step.
LEMMA ThenSettle ==
  ASSUME NEW g, NEW k, NEW F, NEW A, NEW w, GateInv(g, F, A), Good(g, k, F, A, w), NEW h \in SettleDrain(k)
  PROVE  Good(g, h, F, A, w)
<1>1. GateInv(k, F, A) /\ HoldKept(k, w) /\ Kept(g, k) /\ k.bound = g.bound
  BY DEF Good
<1>2. Good(k, h, F, A, w)
  BY <1>1, SettleDrainKeeps
<1> QED
  BY <1>1, <1>2, GoodTransitive

\* A record of what the journal already shows.
LEMMA SameRecord ==
  ASSUME NEW g, NEW F, NEW A, NEW w, GateInv(g, F, A), HoldKept(g, w), NEW h \in Record(g, g.journal)
  PROVE  Good(g, h, F, A, w) /\ (h.state = g.state \/ h.state = "HELD")
<1>1. g.journal \in Journal
  BY DEF GateInv, Gate
<1>2. LogKept(g.journal, g.journal)
  BY LogSame
<1> QED
  BY <1>1, <1>2, RecordKeeps

\* The I07 drain.
LEMMA DrainKeeps ==
  ASSUME NEW g, NEW F, NEW A, NEW w, GateInv(g, F, A), HoldKept(g, w), NEW h \in Drain(g)
  PROVE  Good(g, h, F, A, w)
<1> DEFINE s == IF g.state \in {"ACTIVE", "INSPECTING"} THEN "DRAINING" ELSE g.state
           m == [g EXCEPT !.state = s, !.drain = TRUE]
<1>1. g \in Gate
  BY DEF GateInv
<1>2. [g EXCEPT !.state = IF @ \in {"ACTIVE", "INSPECTING"} THEN "DRAINING" ELSE @, !.drain = TRUE] = m
  BY <1>1 DEF Gate
<1>3. PICK n \in (IF g.drain THEN {m} ELSE Record(m, m.journal)) :
        \E k \in DenyArmed(n) : h \in SettleDrain(k)
  BY <1>2 DEF Drain
<1>4. PICK k \in DenyArmed(n) : h \in SettleDrain(k)
  BY <1>3
<1>5. Moved(g, m, s, m.drain, g.channel) /\ m.drain \in BOOLEAN /\ g.channel \in Channel
  BY Zenon, <1>1 DEF Moved, Gate
<1>6. s \in State /\ (g.state = "HELD" <=> s = "HELD") /\ Rank(g.state) <= Rank(s)
  BY <1>1 DEF Gate, State, Rank
<1> HIDE DEF m, s
<1>7. /\ Calm(g, m) /\ m.state = s /\ m.journal = g.journal /\ m.marker = g.marker
      /\ m.residual = g.residual
  BY <1>1, <1>5, <1>6, FieldsCalm
<1>8. Good(g, m, F, A, w)
  BY <1>6, <1>7, CalmStays
<1>9. Good(g, n, F, A, w)
  <2>1. CASE n = m
    BY <1>8, <2>1
  <2>2. CASE n \in Record(m, m.journal)
    <3>1. GateInv(m, F, A) /\ HoldKept(m, w) /\ Kept(g, m) /\ m.bound = g.bound
      BY <1>8 DEF Good
    <3>2. Good(m, n, F, A, w)
      BY <2>2, <3>1, SameRecord
    <3> QED
      BY <3>1, <3>2, GoodTransitive
  <2> QED
    BY <1>3, <2>1, <2>2
<1>10. Good(g, k, F, A, w)
  BY <1>4, <1>9, ThenDeny
<1> QED
  BY <1>4, <1>10, ThenSettle

\* The end of an execution's time.
LEMMA ExpireKeeps ==
  ASSUME NEW g, NEW F, NEW A, NEW w, GateInv(g, F, A), HoldKept(g, w), NEW h \in Expire(g)
  PROVE  Good(g, h, F, A, w)
<1> DEFINE x == [g EXCEPT !.expired = TRUE]
           m == MarkInFlight(x)
<1>1. g \in Gate
  BY DEF GateInv
<1>2. PICK k \in Record(m, JExpired(m.journal, g.bound)) : h \in DenyArmed(k)
  BY Zenon DEF Expire
<1>3. /\ x \in Gate /\ Calm(g, x) /\ x.state = g.state /\ x.journal = g.journal /\ x.marker = g.marker
      /\ x.residual = g.residual /\ x = [x EXCEPT !.state = x.state] /\ x.state \in State
  <2>1. x \in Gate
    BY Zenon, <1>1 DEF Gate
  <2> QED
    BY Zenon, <1>1, <2>1, LogSame DEF Calm, Gate, SameAction
<1> HIDE DEF x
<1>4. m = MarkInFlight([x EXCEPT !.state = x.state])
  BY <1>3
<1>5. /\ Calm(x, m) /\ m.state = x.state /\ m.journal = x.journal /\ m.marker = x.marker
      /\ m.residual = x.residual
  BY <1>3, <1>4, MarkCalm
<1> HIDE DEF m
<1>6. Calm(g, m) /\ Rank(g.state) <= Rank(m.state)
  BY <1>1, <1>3, <1>5, CalmTransitive DEF Rank
<1>7. Good(g, m, F, A, w)
  BY <1>3, <1>5, <1>6, CalmStays
<1>8. GateInv(m, F, A) /\ HoldKept(m, w) /\ Kept(g, m) /\ m.bound = g.bound /\ m.journal \in Journal
  BY <1>7 DEF Good, GateInv, Gate
<1>9. /\ JExpired(m.journal, g.bound) \in Journal /\ LogKept(m.journal, JExpired(m.journal, g.bound))
      /\ JExpired(m.journal, g.bound).state = m.journal.state
      /\ JExpired(m.journal, g.bound).torn = m.journal.torn
  BY <1>3, <1>8, StateRecords
<1>10. Good(m, k, F, A, w)
  BY <1>2, <1>8, <1>9, RecordKeeps
<1>11. Good(g, k, F, A, w)
  BY <1>8, <1>10, GoodTransitive
<1> QED
  BY <1>2, <1>11, ThenDeny

\* Entering a state with its record.
LEMMA StateRecordKeeps ==
  ASSUME NEW g, NEW F, NEW A, NEW w, GateInv(g, F, A), NEW s \in State, Rank(g.state) <= Rank(s),
         NEW j \in Journal, LogKept(g.journal, j), j.state = s, j.torn = g.journal.torn,
         NEW k \in Record([g EXCEPT !.state = s], j), NEW h \in DenyArmed(k)
  PROVE  Good(g, h, F, A, w)
<1> DEFINE m == [g EXCEPT !.state = s]
<1>1. g \in Gate /\ g.drain \in BOOLEAN /\ g.channel \in Channel
  BY DEF GateInv, Gate
<1>2. Moved(g, m, s, g.drain, g.channel) /\ k \in Record(m, j)
  BY Zenon, <1>1 DEF Moved, Gate
<1>3. g.state = "HELD" => s = "HELD"
  BY <1>1 DEF Rank, Gate, State
<1> HIDE DEF m
<1>4. Calm(g, m) /\ m.state = s /\ m.journal = g.journal
  BY <1>1, <1>2, <1>3, FieldsCalm
<1>5. GateInv(m, F, A) /\ Kept(g, m) /\ m.bound = g.bound
  BY Zenon, <1>4, CalmGood
<1>6. Good(m, k, F, A, w)
  BY SMTT(60), <1>2, <1>4, <1>5, RecordKeeps
<1>7. Good(g, k, F, A, w)
  BY <1>5, <1>6, GoodTransitive
<1> QED
  BY <1>7, ThenDeny

\* CLOSE_GENERATION.
LEMMA CloseKeeps ==
  ASSUME NEW g, NEW F, NEW A, NEW w, GateInv(g, F, A), HoldKept(g, w), NEW reason, NEW h \in Close(g, reason)
  PROVE  Good(g, h, F, A, w)
<1>1. g \in Gate /\ g.journal \in Journal
  BY DEF GateInv, Gate
<1>2. Good(g, g, F, A, w)
  BY StillGood
<1>3. CASE \E k \in {g} : h \in DenyArmed(k)
  BY <1>2, <1>3, ThenDeny
<1>4. CASE h = g
  BY <1>2, <1>4
<1>5. CASE /\ g.state \in {"CLOSED", "INVALIDATED"}
           /\ \E k \in Record([g EXCEPT !.state = "HELD"], JInvalidated(g.journal, "HELD")) : h \in DenyArmed(k)
  <2> DEFINE j == JInvalidated(g.journal, "HELD")
  <2>1. "HELD" \in State /\ Rank(g.state) <= Rank("HELD")
    BY <1>5 DEF State, Rank
  <2>2. j \in Journal /\ LogKept(g.journal, j) /\ j.state = "HELD" /\ j.torn = g.journal.torn
    BY <1>1, <2>1, StateRecords
  <2>3. PICK k \in Record([g EXCEPT !.state = "HELD"], j) : h \in DenyArmed(k)
    BY <1>5
  <2> HIDE DEF j
  <2> QED
    BY <2>1, <2>2, <2>3, StateRecordKeeps
<1>6. CASE /\ g.state \notin {"CLOSED", "INVALIDATED", "HELD"}
           /\ \E k \in Record([g EXCEPT !.state = "CLOSED"], JState(g.journal, "CLOSED")) : h \in DenyArmed(k)
  <2> DEFINE j == JState(g.journal, "CLOSED")
  <2>1. "CLOSED" \in State /\ Rank(g.state) <= Rank("CLOSED")
    BY <1>1, <1>6 DEF State, Rank, Gate
  <2>2. j \in Journal /\ LogKept(g.journal, j) /\ j.state = "CLOSED" /\ j.torn = g.journal.torn
    BY <1>1, <2>1, StateRecords
  <2>3. PICK k \in Record([g EXCEPT !.state = "CLOSED"], j) : h \in DenyArmed(k)
    BY <1>6
  <2> HIDE DEF j
  <2> QED
    BY <2>1, <2>2, <2>3, StateRecordKeeps
<1>7. CASE \E s \in {"HELD", "INVALIDATED"} : h \in Urgent(g, s)
  <2>1. Good(g, h, F, A, FALSE)
    BY Zenon, <1>7, UrgentKeeps
  <2> QED
    BY <2>1 DEF Good, HoldKept
<1>8. CASE g.state \in {"CLOSED", "INVALIDATED", "HELD"}
  BY <1>3, <1>5, <1>8 DEF Close
<1>9. CASE g.state \notin {"CLOSED", "INVALIDATED", "HELD"} /\ reason = "NORMAL_DRAIN"
  <2> DEFINE s == IF AnyAmbiguous(g) THEN "HELD" ELSE "CLOSED"
  <2>1. s = "CLOSED"
    BY <1>9 DEF GateInv, AmbiguityHeld
  <2>2. [g EXCEPT !.state = "CLOSED"].state = "CLOSED"
    BY <1>1 DEF Gate
  <2> QED
    BY <1>4, <1>6, <1>9, <2>1, <2>2 DEF Close
<1>10. CASE g.state \notin {"CLOSED", "INVALIDATED", "HELD"} /\ reason # "NORMAL_DRAIN"
  BY <1>7, <1>10 DEF Close
<1> QED
  BY <1>8, <1>9, <1>10

\* The channel opens, or ends.
LEMMA ChannelKeeps ==
  ASSUME NEW g, NEW F, NEW A, NEW w, GateInv(g, F, A), HoldKept(g, w), NEW h,
         h \in ChannelLost(g) \/ (g.channel = "UNOPENED" /\ h = [g EXCEPT !.channel = "OPEN"])
  PROVE  Good(g, h, F, A, w)
<1>1. /\ g \in Gate /\ g.state \in State /\ g.drain \in BOOLEAN /\ "OPEN" \in Channel /\ "CLOSED" \in Channel
      /\ Rank(g.state) <= Rank(g.state)
  BY DEF GateInv, Gate, Channel, Rank
<1>2. CASE g.channel = "UNOPENED" /\ h = [g EXCEPT !.channel = "OPEN"]
  <2>1. Moved(g, h, g.state, g.drain, "OPEN") /\ ("OPEN" # "CLOSED" => g.channel # "CLOSED")
    BY Zenon, <1>1, <1>2 DEF Moved, Gate
  <2>2. /\ Calm(g, h) /\ h.state = g.state /\ h.journal = g.journal /\ h.marker = g.marker
        /\ h.residual = g.residual
    BY <1>1, <2>1, FieldsCalm
  <2> QED
    BY <1>1, <2>2, CalmStays
<1>3. CASE h \in ChannelLost(g)
  <2> DEFINE m == [g EXCEPT !.channel = "CLOSED"]
  <2>1. Moved(g, m, g.state, g.drain, "CLOSED")
    BY Zenon, <1>1 DEF Moved, Gate
  <2>2. h = g \/ h \in Record(m, g.journal) \/ h \in Fatal(g)
    BY <1>3 DEF ChannelLost
  <2> HIDE DEF m
  <2>3. CASE h \in Record(m, g.journal)
    <3>1. /\ Calm(g, m) /\ m.state = g.state /\ m.journal = g.journal /\ m.marker = g.marker
          /\ m.residual = g.residual
      BY <1>1, <2>1, FieldsCalm
    <3>2. Good(g, m, F, A, w)
      BY <1>1, <3>1, CalmStays
    <3>3. GateInv(m, F, A) /\ HoldKept(m, w) /\ Kept(g, m) /\ m.bound = g.bound
      BY <3>2 DEF Good
    <3>4. h \in Record(m, m.journal)
      BY <2>3, <3>1
    <3>5. Good(m, h, F, A, w)
      BY <3>3, <3>4, SameRecord
    <3> QED
      BY <3>3, <3>5, GoodTransitive
  <2> QED
    BY <2>2, <2>3, StillGood, FatalKeeps
<1> QED
  BY <1>2, <1>3

\* Sealing a terminal action.
LEMMA SealKeeps ==
  ASSUME NEW g, NEW F, NEW A, NEW w, GateInv(g, F, A), HoldKept(g, w), NEW i \in Ids(g),
         g.actions[i].status = "TERMINAL", NEW b \in BOOLEAN,
         NEW k \in Record(g, JSealed(g.journal, i, g.actions[i].class, b)), NEW h,
         h = IF k.ok THEN [k EXCEPT !.actions[i].sealed = TRUE] ELSE k
  PROVE  Good(g, h, F, A, w)
<1> DEFINE c == g.actions[i].class
           x == [status |-> "TERMINAL", class |-> c, sealed |-> TRUE, after |-> b /\ c # "NOT_FORWARDED"]
           j == JSealed(g.journal, i, c, b)
           a == [g.actions[i] EXCEPT !.sealed = TRUE]
           s == [g.actions EXCEPT ![i] = a]
<1>1. /\ g \in Gate /\ JournalAgrees(g) /\ Ids(g) = 1 .. Len(g.actions) /\ DOMAIN g.journal.actions = Ids(g)
      /\ g.actions \in Seq(Action) /\ g.actions[i] \in Action /\ g.journal \in Journal
  BY SameIds DEF GateInv, Gate, Ids
<1>2. x \in Logged /\ x.status = "TERMINAL" /\ x.class = c /\ x.sealed = TRUE
  BY <1>1 DEF Logged, Action, Status
<1>3. j = JUpdate(g.journal, i, x)
  BY DEF JSealed
<1>4. /\ a \in Action /\ a.status = "TERMINAL" /\ a.class = c /\ a.sealed = TRUE /\ a.armed = g.actions[i].armed
  BY Zenon, <1>1 DEF Action
<1>5. /\ s \in Seq(Action) /\ Len(s) = Len(g.actions) /\ s[i] = a
      /\ \A m \in Ids(g) : m # i => s[m] = g.actions[m]
  BY SMTT(60), <1>1, <1>4
<1> HIDE DEF x, j
<1>6. Updated(g.journal, j, i, x) /\ j \in Journal /\ k \in Record(g, j)
  <2>1. Updated(g.journal, j, i, x)
    BY <1>1, <1>2, <1>3, UpdateShape
  <2> QED
    BY <2>1 DEF Updated, j
<1>7. CASE ~k.ok /\ Failed(g, k, F, A)
  BY <1>7, FailedGood
<1>8. CASE k.ok /\ Appended(g, k, j)
  <2>1. /\ k \in Gate /\ k.actions = g.actions /\ k.journal = j
        /\ k.state = g.state /\ k.channel = g.channel /\ k.bound = g.bound /\ k.run = g.run
        /\ k.bindings = g.bindings /\ k.keys = g.keys /\ k.conns = g.conns
        /\ k.marker = g.marker /\ k.residual = g.residual
    BY Zenon, <1>1, <1>6, <1>8 DEF Appended, Gate
  <2>2. h = [k EXCEPT !.actions = s]
    BY <1>8, <2>1
  <2> HIDE DEF a, s
  <2>3. /\ h \in Gate /\ h.actions = s /\ h.journal = j
        /\ h.state = g.state /\ h.channel = g.channel /\ h.bound = g.bound /\ h.run = g.run
        /\ h.bindings = g.bindings /\ h.keys = g.keys /\ h.conns = g.conns
        /\ h.marker = g.marker /\ h.residual = g.residual
    BY ZenonT(60), <1>5, <2>1, <2>2 DEF Gate
  <2>4. /\ Ids(h) = Ids(g) /\ h.actions[i] = a /\ j.actions[i] = x
        /\ \A m \in Ids(g) : m # i => h.actions[m] = g.actions[m] /\ j.actions[m] = g.journal.actions[m]
        /\ DOMAIN j.actions = Ids(g)
    BY <1>1, <1>5, <1>6, <2>3 DEF Ids, Updated
  <2>5. Armed(h) = Armed(g) /\ InFlight(h) = InFlight(g) /\ i \notin Armed(g) \cup InFlight(g)
    BY ZenonT(60), <1>4, <2>4 DEF Armed, InFlight
  <2>6. JournalAgrees(h)
    <3>2. SealAgrees(a, x)
      BY Zenon, <1>2, <1>4 DEF SealAgrees
    <3>1. \A m \in Ids(g) : SealAgrees(h.actions[m], j.actions[m])
      BY Zenon, <1>1, <2>4, <3>2 DEF JournalAgrees
    <3> QED
      BY Zenon, <1>1, <1>5, <1>6, <2>3, <2>4, <3>1 DEF JournalAgrees, Updated
  <2>7. StampsArmed(h) /\ AmbiguityHeld(h)
    <3>1. \A m \in Ids(g) : h.actions[m].class = g.actions[m].class
      BY Zenon, <1>4, <2>4
    <3>2. Armed(h) = Armed(g) /\ h.conns = g.conns /\ h.bound = g.bound /\ h.state = g.state /\ Ids(h) = Ids(g)
      BY <2>3, <2>4, <2>5
    <3>3. AmbiguityHeld(h)
      BY <3>1, <3>2 DEF GateInv, AmbiguityHeld, AnyAmbiguous
    <3> QED
      BY <3>2, <3>3 DEF GateInv, StampsArmed
  <2>8. Unclean(x) = Unclean(g.actions[i]) /\ Unclean(a) = Unclean(g.actions[i])
    BY <1>2, <1>4 DEF Unclean
  <2>9. StatusLogged(h)
    <3>1. \A m \in Ids(h) : Unclean(j.actions[m]) => Unclean(h.actions[m])
      BY Zenon, <2>4, <2>8 DEF GateInv, StatusLogged
    <3> QED
      <4>1. \A m \in Armed(g) \cup InFlight(g) : m \in Ids(g) /\ m # i
        BY <2>5 DEF Armed, InFlight
      <4> QED
        BY ZenonT(60), <2>3, <2>4, <2>5, <3>1, <4>1 DEF GateInv, StatusLogged
  <2>10. Frozen(g, h) /\ Kept(g, h)
    <3>1. Frozen(g, h)
      BY Zenon, <1>4, <2>4 DEF Frozen
    <3>2. Rank(g.state) <= Rank(h.state)
      BY <2>3 DEF Rank
    <3> QED
      BY Zenon, <2>5, <3>1, <3>2 DEF Kept
  <2>11. \A m \in Ids(g) :
          /\ ActionKept(g.actions[m], h.actions[m])
          /\ Unclean(g.actions[m]) /\ Unclean(g.journal.actions[m]) =>
               Unclean(h.actions[m]) /\ Unclean(h.journal.actions[m])
    BY Zenon, <1>4, <2>3, <2>4, <2>8 DEF ActionKept
  <2>12. Tame(g, h, {})
    BY Zenon, <1>5, <2>3, <2>6, <2>7, <2>9, <2>10, <2>11 DEF Tame
  <2>13. GateInv(h, F, A)
    BY <2>12, TameKeepsAll
  <2>14. HoldKept(h, w)
    <3>1. j.state = g.journal.state /\ j.torn = g.journal.torn
      BY <1>6 DEF Updated
    <3>2. \A m \in Ids(g) : Unclean(g.journal.actions[m]) => Unclean(j.actions[m])
      BY <2>4, <2>8 DEF GateInv, StatusLogged
    <3> QED
      BY <1>1, <2>3, <2>4, <2>5, <3>1, <3>2 DEF HoldKept
  <2> QED
    BY <2>3, <2>10, <2>13, <2>14 DEF Good
<1> QED
  BY <1>6, <1>7, <1>8, RecordShape

\* ACTION_OUTCOME.
LEMMA OutcomeKeeps ==
  ASSUME NEW g, NEW F, NEW A, NEW w, GateInv(g, F, A), HoldKept(g, w), NEW i \in Ids(g), NEW h \in Outcome(g, i)
  PROVE  Good(g, h, F, A, w)
<1> DEFINE a == g.actions[i]
           q == IF a.conn = None THEN g ELSE CloseConn(g, a.conn)
           cut == IF a.status = "ARMED" THEN Deny(g, i)
                  ELSE IF a.status = "CONSUMED"
                    THEN [Terminate(q, i, "IO_AMBIGUOUS") EXCEPT !.state = "HELD"]
                  ELSE g
<1>1. g \in Gate /\ a \in Action /\ Ids(g) = 1 .. Len(g.actions)
  BY SMTT(60), SameIds DEF GateInv, Gate, Ids
<1>2. PICK k \in Record(cut, JSealed(cut.journal, i, cut.actions[i].class, a.after)) :
        h = IF k.ok THEN [k EXCEPT !.actions[i].sealed = TRUE] ELSE k
  BY DEF Outcome
<1>3. Good(g, cut, F, A, w) /\ cut.actions[i].status = "TERMINAL" /\ i \in Ids(cut)
  <2>1. CASE a.status = "ARMED"
    <3>1. i \in Armed(g) /\ cut = Deny(g, i)
      BY <2>1 DEF Armed
    <3> HIDE DEF cut
    <3>2. /\ Tame(g, cut, {}) /\ Kept(g, cut) /\ Steady(g, cut)
          /\ cut.state = g.state /\ cut.journal = g.journal /\ cut.marker = g.marker
          /\ cut.residual = g.residual /\ cut.actions[i].status = "TERMINAL"
      BY <3>1, DenyTame
    <3>3. GateInv(cut, F, A) /\ cut.bound = g.bound
      BY <3>2, TameKeepsAll DEF Tame
    <3> QED
      BY <3>2, <3>3 DEF Good, HoldKept, Kept, Steady
  <2>2. CASE a.status = "CONSUMED"
    <3>1. Good(g, q, F, A, w) /\ q.actions = g.actions
      <4>1. a.conn \in Conns \cup {None}
        BY <1>1 DEF Action
      <4> QED
        BY ZenonT(60), <4>1, StillGood, CloseConnKeeps
    <3>2. cut = [Terminate(q, i, "IO_AMBIGUOUS") EXCEPT !.state = "HELD"]
      BY <2>2
    <3> HIDE DEF q, cut
    <3>3. /\ i \in InFlight(q) /\ GateInv(q, F, A) /\ HoldKept(q, w) /\ Kept(g, q) /\ q.bound = g.bound
          /\ Ids(q) = Ids(g)
      BY <2>2, <3>1 DEF InFlight, Ids, Good
    <3>4. Good(q, cut, F, A, w) /\ cut.actions[i].status = "TERMINAL"
      BY ZenonT(60), <3>2, <3>3, CutKeeps
    <3>5. Good(g, cut, F, A, w)
      BY <3>3, <3>4, GoodTransitive
    <3>6. i \in Ids(cut)
      <4>1. q \in Gate /\ i \in Ids(q) /\ "IO_AMBIGUOUS" \in Classification
        BY <3>3 DEF GateInv, Classification
      <4> DEFINE t == Terminate(q, i, "IO_AMBIGUOUS")
      <4>2. t \in Gate /\ Len(t.actions) = Len(q.actions)
        BY <4>1, TerminateShape
      <4>3. cut.actions = t.actions
        <5> HIDE DEF t
        <5>1. cut = [t EXCEPT !.state = "HELD"]
          BY <3>2 DEF t
        <5> QED
          BY <4>2, <5>1 DEF Gate
      <4> HIDE DEF t
      <4> QED
        BY <1>1, <3>1, <4>1, <4>2, <4>3 DEF Ids, Gate
    <3> QED
      BY <3>4, <3>5, <3>6
  <2>3. CASE a.status = "TERMINAL"
    BY SMTT(60), <2>3, StillGood
  <2> QED
    BY Zenon, <1>1, <2>1, <2>2, <2>3 DEF Action, Status
<1>4. a.after \in BOOLEAN
  BY <1>1 DEF Action
<1> HIDE DEF a, cut
<1>5. GateInv(cut, F, A) /\ HoldKept(cut, w) /\ Kept(g, cut) /\ cut.bound = g.bound
  BY <1>3 DEF Good
<1>6. Good(cut, h, F, A, w)
  BY <1>2, <1>3, <1>4, <1>5, SealKeeps
<1> QED
  BY <1>5, <1>6, GoodTransitive

-----------------------------------------------------------------------------
(* Restarts.                                                               *)

\* Gate r has the durable part of g, and its binding.
SameFiles(g, r) ==
  /\ r \in Gate
  /\ r.bound = g.bound /\ r.run = g.run /\ r.bindings = g.bindings
  /\ r.journal = g.journal /\ r.marker = g.marker /\ r.residual = g.residual

\* What `rebuild' makes of an action.
LEMMA RevivedShape ==
  ASSUME NEW x \in Logged
  PROVE  /\ Revived(x) \in Action /\ Revived(x).status = "TERMINAL" /\ Revived(x).sealed = x.sealed
         /\ x.status = "TERMINAL" => Revived(x).class = x.class
         /\ Unclean(x) = Unclean(Revived(x))
  BY DEF Logged, Action, Revived, Status, Classification, Unclean

\* The gate a restart makes.
LEMMA RestartedShape ==
  ASSUME NEW g \in Gate, NEW floor
  PROVE  LET h == Restarted(g, floor)
             x == g.journal.actions IN
         /\ h \in Gate /\ SameFiles(g, h) /\ h.channel = "CLOSED" /\ ~h.drain
         /\ h.state = IF floor THEN "HELD" ELSE RestartState(g.journal, g.marker)
         /\ h.actions = [i \in DOMAIN x |-> Revived(x[i])] /\ Len(h.actions) = Len(x)
         /\ \A c \in Conns : h.conns[c].phase # "open"
<1> DEFINE x == g.journal.actions
           s == IF floor THEN "HELD" ELSE RestartState(g.journal, g.marker)
           m == [i \in DOMAIN x |-> Revived(x[i])]
           t == [c \in Conns |-> Dropped(g.conns[c])]
           h == [g EXCEPT !.state = s, !.actions = m, !.conns = t, !.channel = "CLOSED", !.drain = FALSE]
<1>1. g.conns \in [Conns -> Connection] /\ x \in Seq(Logged) /\ g.journal.state \in State
  BY DEF Gate, Journal
<1>2. s \in State
  BY <1>1 DEF RestartState, State
<1>3. m \in Seq(Action) /\ Len(m) = Len(x)
  <2>1. \A i \in DOMAIN x : Revived(x[i]) \in Action
    BY <1>1, RevivedShape
  <2> QED
    BY <1>1, <2>1
<1>4. \A c \in Conns : Dropped(g.conns[c]) \in Connection /\ Dropped(g.conns[c]).phase # "open"
  <2>1. Absent \in Connection /\ Absent.phase # "open"
    BY NoneAssumption DEF Absent, Connection
  <2>2. \A x1 \in Connection : Dropped(x1) \in Connection /\ Dropped(x1).phase # "open"
    BY <2>1 DEF Connection, Dropped
  <2> QED
    BY <1>1, <2>2
<1>5. t \in [Conns -> Connection] /\ \A c \in Conns : t[c].phase # "open"
  BY <1>4
<1>6. Restarted(g, floor) = h
  BY DEF Restarted
<1> HIDE DEF s, m, t
<1>7. /\ h \in Gate /\ h.channel = "CLOSED" /\ ~h.drain /\ h.state = s /\ h.actions = m /\ h.conns = t
      /\ h.bound = g.bound /\ h.run = g.run /\ h.bindings = g.bindings
      /\ h.journal = g.journal /\ h.marker = g.marker /\ h.residual = g.residual
  BY Zenon, <1>2, <1>3, <1>5 DEF Gate, Channel
<1> HIDE DEF h
<1>8. /\ h \in Gate /\ SameFiles(g, h) /\ h.channel = "CLOSED" /\ ~h.drain /\ h.state = s /\ h.actions = m
      /\ Len(h.actions) = Len(x) /\ \A c \in Conns : h.conns[c].phase # "open"
  BY <1>3, <1>5, <1>7 DEF SameFiles
<1> QED
  BY <1>6, <1>8 DEF s, m

\* restart_with on the files of g, before its record.
LEMMA RestartedKeeps ==
  ASSUME NEW g, NEW F, NEW A, GateInv(g, F, A), NEW r, SameFiles(g, r), NEW floor
  PROVE  LET h == Restarted(r, floor) IN
         /\ GateInv(h, F, A) /\ Frozen(g, h) /\ InFlight(h) = {} /\ h.bound = g.bound
         /\ Rank(h.state) >= 2 /\ h.journal = g.journal
         /\ \A w : HoldKept(g, w) /\ (w => floor) => Rank(g.state) <= Rank(h.state) \/ g.residual
<1> DEFINE h == Restarted(r, floor)
           x == g.journal.actions
           s == IF floor THEN "HELD" ELSE RestartState(g.journal, g.marker)
<1>1. /\ g \in Gate /\ r \in Gate /\ JournalAgrees(g) /\ Ids(g) = 1 .. Len(g.actions) /\ DOMAIN x = Ids(g)
      /\ g.journal \in Journal /\ r.journal = g.journal /\ r.marker = g.marker
  BY SameIds DEF GateInv, SameFiles, Gate
<1>2. /\ h \in Gate /\ SameFiles(r, h) /\ h.channel = "CLOSED" /\ ~h.drain /\ h.state = s
      /\ h.actions = [i \in DOMAIN x |-> Revived(x[i])] /\ Len(h.actions) = Len(x)
      /\ \A c \in Conns : h.conns[c].phase # "open"
  BY <1>1, RestartedShape
<1> HIDE DEF h
<1>3. /\ h.bound = g.bound /\ h.run = g.run /\ h.bindings = g.bindings /\ h.journal = g.journal
      /\ h.marker = g.marker /\ h.residual = g.residual
  BY <1>2 DEF SameFiles
<1>4. Ids(h) = Ids(g) /\ \A i \in Ids(g) : x[i] \in Logged /\ h.actions[i] = Revived(x[i])
  BY <1>1, <1>2 DEF Ids, Journal
<1>5. \A i \in Ids(g) :
        /\ h.actions[i].status = "TERMINAL" /\ h.actions[i].sealed = x[i].sealed
        /\ x[i].status = "TERMINAL" => h.actions[i].class = x[i].class
        /\ Unclean(x[i]) = Unclean(h.actions[i])
  BY <1>4, RevivedShape
<1>6. Armed(h) = {} /\ InFlight(h) = {}
  BY <1>4, <1>5 DEF Armed, InFlight
<1>7. JournalAgrees(h)
  <2>1. \A i \in Ids(g) : SealAgrees(h.actions[i], x[i])
    BY <1>1, <1>5 DEF JournalAgrees, SealAgrees
  <2> QED
    BY <1>1, <1>2, <1>3, <1>4, <2>1 DEF JournalAgrees
<1>8. BindingKept(h) /\ OneArmed(h) /\ TemplatesOfRun(h) /\ StampsArmed(h)
  BY ZenonT(60), <1>2, <1>3, <1>4, <1>5, <1>6 DEF GateInv, BindingKept, OneArmed, TemplatesOfRun, StampsArmed
<1>9. s = "HELD" \/ (s \in {"CLOSED", "INVALIDATED"} /\ ~floor /\ Clean(g.journal) /\ ~g.marker /\ ~g.journal.torn
                       /\ s = g.journal.state)
  BY DEF RestartState
<1>10. Clean(g.journal) => \A i \in Ids(g) : x[i].status = "TERMINAL" /\ x[i].class # "IO_AMBIGUOUS"
  BY <1>1 DEF Clean, Settled
<1>11. AmbiguityHeld(h)
  BY SMTT(60), <1>2, <1>4, <1>5, <1>9, <1>10 DEF AmbiguityHeld, AnyAmbiguous
<1>12. StatusLogged(h)
  BY <1>3, <1>4, <1>5, <1>6 DEF StatusLogged
<1>13. ForwardedKnown(h, F)
  BY <1>3, <1>4, <1>5 DEF GateInv, ForwardedKnown
<1>14. Unsettled(h, F, A)
  BY <1>3, <1>4, <1>5 DEF GateInv, Unsettled
<1>15. KeysKnown(h, F) /\ ManifestsOfRuns(h, F) /\ MutationsOnce(h, F)
  BY <1>2, <1>3, <1>6 DEF GateInv, KeysKnown, ManifestsOfRuns, MutationsOnce
<1>16. GateInv(h, F, A)
  BY SMTT(60), <1>2, <1>7, <1>8, <1>11, <1>12, <1>13, <1>14, <1>15 DEF GateInv
<1>17. Frozen(g, h)
  BY <1>1, <1>4, <1>5 DEF Frozen, JournalAgrees, SealAgrees
<1>18. Rank(h.state) >= 2
  BY <1>2, <1>9 DEF Rank
<1>19. ASSUME NEW w, HoldKept(g, w), w => floor
       PROVE  Rank(g.state) <= Rank(h.state) \/ g.residual
  <2>1. CASE s = "HELD"
    BY <1>1, <1>2, <2>1 DEF Rank, Gate, State
  <2>2. CASE s # "HELD" /\ g.state # "HELD"
    BY <1>1, <1>18, <2>2 DEF Rank, Gate, State
  <2>3. CASE s # "HELD" /\ g.state = "HELD"
    <3>1. \A i \in DOMAIN x : ~Unclean(x[i])
      BY <1>1, <1>9, <1>10, <2>3 DEF Unclean
    <3> QED
      BY <1>9, <1>19, <2>3, <3>1 DEF HoldKept
  <2> QED
    BY <2>1, <2>2, <2>3
<1> QED
  BY SMTT(60), <1>3, <1>6, <1>16, <1>17, <1>18, <1>19 DEF h

\* The hold w of the policy writes is part of a restart's floor, which holds it.
Implied(w, floor) == w => floor
HeldIf(floor, h) == floor => h.state = "HELD"

\* GATE_RESTART, and Gate::open of a new process.
LEMMA RestartKeeps ==
  ASSUME NEW g, NEW F, NEW A, GateInv(g, F, A), NEW r, SameFiles(g, r), NEW floor,
         NEW w, HoldKept(g, w), Implied(w, floor), NEW h \in GateRestart(r, floor)
  PROVE  /\ GateInv(h, F, A) /\ Frozen(g, h) /\ InFlight(h) = {} /\ h.bound = g.bound
         /\ Rank(h.state) >= 2 /\ HoldKept(h, FALSE) /\ HeldIf(floor, h)
         /\ Rank(g.state) <= Rank(h.state) \/ g.residual
<1> DEFINE m == Restarted(r, floor)
           j == JState(m.journal, m.state)
<1>12. floor => m.state = "HELD"
  <2>1. r \in Gate
    BY DEF SameFiles
  <2>2. m.state = IF floor THEN "HELD" ELSE RestartState(r.journal, r.marker)
    BY Zenon, <2>1, RestartedShape
  <2> QED
    BY <2>2
<1>1. /\ GateInv(m, F, A) /\ Frozen(g, m) /\ InFlight(m) = {} /\ m.bound = g.bound
      /\ Rank(m.state) >= 2 /\ m.journal = g.journal
      /\ \A v : HoldKept(g, v) /\ (v => floor) => Rank(g.state) <= Rank(m.state) \/ g.residual
  BY RestartedKeeps
<1>2. h \in Record(m, j)
  BY DEF GateRestart
<1> HIDE DEF m
<1>3. m \in Gate /\ m.journal \in Journal /\ m.state \in State /\ g \in Gate
  BY <1>1 DEF GateInv, Gate
<1>4. j \in Journal /\ LogKept(m.journal, j) /\ j.state = m.state /\ j.torn = m.journal.torn
  BY <1>3, StateRecords
<1> HIDE DEF j
<1>5. Good(m, h, F, A, FALSE) /\ (h.state = m.state \/ h.state = "HELD")
  BY Zenon, <1>1, <1>2, <1>4, RecordKeeps
<1>13. HeldIf(floor, h)
  BY <1>5, <1>12 DEF HeldIf
<1>6. GateInv(h, F, A) /\ HoldKept(h, FALSE) /\ Kept(m, h) /\ h.bound = g.bound /\ h \in Gate
  BY Zenon, <1>1, <1>5 DEF Good, GateInv
<1>7. Frozen(g, h) /\ InFlight(h) = {}
  BY <1>1, <1>6 DEF Kept, Frozen
<1>8. Rank(m.state) <= Rank(h.state) /\ Rank(m.state) \in Nat /\ Rank(h.state) \in Nat /\ Rank(g.state) \in Nat
  BY <1>6 DEF Kept, Rank
<1>9. Rank(g.state) <= Rank(h.state) \/ g.residual
  <2>2. w => floor
    BY DEF Implied
  <2>1. Rank(g.state) <= Rank(m.state) \/ g.residual
    BY <1>1, <2>2
  <2> QED
    BY <1>8, <2>1
<1>10. Rank(h.state) >= 2
  BY <1>1, <1>8
<1> QED
  BY Zenon, <1>6, <1>7, <1>9, <1>10, <1>13

\* A new process reads the same files.
LEMMA ReopenedFiles ==
  ASSUME NEW g, NEW F, NEW A, GateInv(g, F, A)
  PROVE  SameFiles(g, g) /\ SameFiles(g, Reopened(g))
<1> DEFINE t == [c \in Conns |-> Absent]
<1>1. g \in Gate /\ JournalAgrees(g)
  BY DEF GateInv
<1>2. Absent \in Connection
  BY NoneAssumption DEF Absent, Connection
<1>3. t \in [Conns -> Connection]
  BY <1>2
<1>4. /\ g.journal.bound \in Executions \cup {None} /\ g.journal.run \in Runs \cup {None}
      /\ g.journal.expired \in BOOLEAN /\ g.journal.bindings \in SUBSET (Executions \cup Runs)
      /\ g.journal.bound = g.bound /\ g.journal.run = g.run /\ g.journal.bindings = g.bindings
  BY <1>1 DEF Gate, Journal, JournalAgrees
<1> DEFINE h == [g EXCEPT !.bound = g.bound, !.run = g.run, !.expired = g.journal.expired,
                          !.bindings = g.bindings, !.keys = {}, !.uids = {}, !.conns = t]
<1>5. Reopened(g) = h
  BY <1>4 DEF Reopened
<1> HIDE DEF t
<1>6. h \in Gate
  BY Zenon, <1>1, <1>3, <1>4 DEF Gate
<1>7. /\ h.bound = g.bound /\ h.run = g.run /\ h.bindings = g.bindings
      /\ h.journal = g.journal /\ h.marker = g.marker /\ h.residual = g.residual
  BY <1>1 DEF Gate
<1> QED
  BY <1>1, <1>5, <1>6, <1>7 DEF SameFiles

-----------------------------------------------------------------------------
(* Binding and arming.                                                     *)

\* While the generation is active and its actions are settled, every request
\* has its answer and nothing is armed.
LEMMA SettledAnswered ==
  ASSUME NEW g, NEW F, NEW A, GateInv(g, F, A), g.state = "ACTIVE", AllSettled(g)
  PROVE  F \subseteq A /\ Armed(g) = {} /\ InFlight(g) = {}
<1>1. Armed(g) = {} /\ InFlight(g) = {}
  BY DEF AllSettled, Settled, Armed, InFlight
<1>2. ~AnyAmbiguous(g)
  BY DEF GateInv, AmbiguityHeld
<1>3. ASSUME NEW f \in F, f \notin A
      PROVE  FALSE
  <2>1. f.id \in Ids(g) /\ Unclean(g.actions[f.id])
    BY <1>3 DEF GateInv, Unsettled
  <2> QED
    BY <1>2, <2>1 DEF AllSettled, Settled, Unclean, AnyAmbiguous
<1> QED
  BY <1>1, <1>3

\* Gate h is g after it bound execution e and run r.
Bound(g, h, e, r) ==
  /\ h \in Gate
  /\ h.state = g.state /\ h.channel = g.channel /\ h.conns = g.conns
  /\ h.bound = e /\ h.run = r /\ h.bindings = g.bindings \cup {e, r} /\ h.actions = <<>>
  /\ h.journal.bound = e /\ h.journal.run = r /\ h.journal.bindings = g.journal.bindings \cup {e, r}
  /\ h.journal.actions = <<>> /\ h.journal.consistent = g.journal.consistent

\* A binding keeps the invariant: what came before is settled.
LEMMA BoundKeeps ==
  ASSUME NEW g, NEW h, NEW F, NEW A, GateInv(g, F, A), NEW e \in Executions, NEW r \in Runs,
         MayBind(g, e, r), Bound(g, h, e, r)
  PROVE  GateInv(h, F, A) /\ InFlight(h) = {}
<1>1. F \subseteq A /\ Armed(g) = {}
  BY SettledAnswered DEF MayBind
<1>2. Ids(h) = {} /\ Armed(h) = {} /\ InFlight(h) = {} /\ Len(h.actions) = 0 /\ Len(h.journal.actions) = 0
  BY DEF Bound, Ids, Armed, InFlight
<1>3. e \notin g.bindings /\ r \notin g.bindings
  BY DEF MayBind
<1>4. JournalAgrees(h)
  BY <1>2, BoundAssumption DEF GateInv, JournalAgrees, Bound
<1>5. BindingKept(h) /\ OneArmed(h) /\ TemplatesOfRun(h)
  BY <1>2 DEF BindingKept, OneArmed, TemplatesOfRun, Bound
<1>6. StampsArmed(h)
  BY <1>1 DEF GateInv, StampsArmed, Bound
<1>7. AmbiguityHeld(h) /\ StatusLogged(h)
  BY <1>2 DEF AmbiguityHeld, AnyAmbiguous, StatusLogged
<1>8. ForwardedKnown(h, F) /\ Unsettled(h, F, A)
  BY <1>1, <1>3 DEF GateInv, ForwardedKnown, Unsettled, Bound
<1>9. KeysKnown(h, F)
  BY <1>2, <1>3 DEF GateInv, KeysKnown, ForwardedKnown, Bound
<1>10. ManifestsOfRuns(h, F)
  <2> SUFFICES ASSUME NEW f \in F
               PROVE  /\ f.exec # h.bound
                      /\ \E q \in Runs \cap h.bindings : q # h.run /\ f.template.manifest \in Case[q]
    BY DEF ManifestsOfRuns
  <2>1. f.exec \in g.bindings /\ f.exec \in Executions /\ f.exec # None
    BY NoneAssumption DEF GateInv, ForwardedKnown, Forwarded
  <2>2. \E q \in Runs \cap g.bindings : f.template.manifest \in Case[q]
    <3>1. CASE f.exec = g.bound
      <4>1. g.run \in Runs \cap g.bindings
        BY <2>1, <3>1 DEF GateInv, BindingKept
      <4> QED
        BY <3>1, <4>1 DEF GateInv, ManifestsOfRuns
    <3>2. CASE f.exec # g.bound
      BY <3>2 DEF GateInv, ManifestsOfRuns
    <3> QED
      BY <3>1, <3>2
  <2> QED
    BY <1>3, <2>1, <2>2 DEF Bound
<1>11. MutationsOnce(h, F)
  BY <1>2 DEF GateInv, MutationsOnce
<1>12. h \in Gate /\ F \subseteq Forwarded /\ A \subseteq F
  BY DEF GateInv, Bound
<1> QED
  BY SMTT(60), <1>2, <1>4, <1>5, <1>6, <1>7, <1>8, <1>9, <1>10, <1>11, <1>12 DEF GateInv

\* BIND.
LEMMA BindKeeps ==
  ASSUME NEW g, NEW F, NEW A, NEW w, GateInv(g, F, A), NEW e \in Executions, NEW r \in Runs,
         MayBind(g, e, r), NEW h \in Bind(g, e, r)
  PROVE  \/ Good(g, h, F, A, w)
         \/ /\ GateInv(h, F, A) /\ HoldKept(h, w) /\ h.bound # g.bound
            /\ h.state = g.state /\ InFlight(h) = {}
<1> DEFINE j == JBind(g.journal, e, r)
<1>1. g \in Gate /\ g.journal \in Journal /\ g.state = "ACTIVE"
  BY DEF GateInv, Gate, MayBind
<1>2. /\ j \in Journal /\ j.bound = e /\ j.run = r /\ j.bindings = g.journal.bindings \cup {e, r}
      /\ j.actions = <<>> /\ j.consistent = g.journal.consistent
  <2>1. <<>> \in Seq(Logged) /\ g.journal.bindings \cup {e, r} \in SUBSET (Executions \cup Runs)
    BY <1>1 DEF Journal
  <2>2. /\ j.bound = e /\ j.run = r /\ j.bindings = g.journal.bindings \cup {e, r}
        /\ j.actions = <<>> /\ j.consistent = g.journal.consistent
    BY <1>1 DEF JBind, Journal
  <2>3. j = [g.journal EXCEPT !.actions = <<>>, !.bound = e, !.run = r, !.expired = FALSE,
                              !.bindings = g.journal.bindings \cup {e, r}]
    BY DEF JBind
  <2>4. j \in Journal
    <3> DEFINE x == <<>>
               y == g.journal.bindings \cup {e, r}
    <3>1. j = [g.journal EXCEPT !.actions = x, !.bound = e, !.run = r, !.expired = FALSE, !.bindings = y]
      BY <2>3
    <3>2. x \in Seq(Logged) /\ y \in SUBSET (Executions \cup Runs)
      BY <2>1
    <3> HIDE DEF x, y, j
    <3> QED
      BY Zenon, <1>1, <3>1, <3>2 DEF Journal
  <2> QED
    BY <2>2, <2>4
<1>3. PICK k \in Record(g, j) :
        h = IF k.ok
              THEN [k EXCEPT !.bound = e, !.run = r, !.expired = FALSE, !.actions = <<>>,
                             !.keys = {}, !.uids = {}, !.bindings = @ \cup {e, r}]
              ELSE k
  BY Zenon DEF Bind
<1> HIDE DEF j
<1>4. CASE ~k.ok /\ Failed(g, k, F, A)
  BY <1>3, <1>4, FailedGood
<1>5. CASE k.ok /\ Appended(g, k, j)
  <2>1. /\ k \in Gate /\ k.state = g.state /\ k.channel = g.channel /\ k.conns = g.conns
        /\ k.bindings = g.bindings /\ k.journal = j
    BY Zenon, <1>1, <1>2, <1>5 DEF Appended, Gate
  <2>2. h = [k EXCEPT !.bound = e, !.run = r, !.expired = FALSE, !.actions = <<>>,
                      !.keys = {}, !.uids = {}, !.bindings = @ \cup {e, r}]
    BY <1>3, <1>5
  <2>3. /\ h \in Gate /\ h.state = k.state /\ h.channel = k.channel /\ h.conns = k.conns
        /\ h.bound = e /\ h.run = r /\ h.bindings = k.bindings \cup {e, r} /\ h.actions = <<>>
        /\ h.journal = k.journal
    <3> DEFINE x == <<>>
               y == k.bindings \cup {e, r}
    <3>1. h = [k EXCEPT !.bound = e, !.run = r, !.expired = FALSE, !.actions = x,
                        !.keys = {}, !.uids = {}, !.bindings = y]
      BY <2>2
    <3>2. x \in Seq(Action) /\ y \in SUBSET (Executions \cup Runs)
      BY <2>1 DEF Gate
    <3> HIDE DEF x, y
    <3>3. h \in Gate
      BY Zenon, <2>1, <3>1, <3>2 DEF Gate
    <3>4. /\ h.state = k.state /\ h.channel = k.channel /\ h.conns = k.conns
          /\ h.bound = e /\ h.run = r /\ h.bindings = y /\ h.actions = x /\ h.journal = k.journal
      BY <2>1, <3>1 DEF Gate
    <3> QED
      BY <3>3, <3>4 DEF x, y
  <2>4. Bound(g, h, e, r)
    BY <1>2, <2>1, <2>3 DEF Bound
  <2>5. GateInv(h, F, A) /\ InFlight(h) = {}
    BY <2>4, BoundKeeps
  <2>6. h.bound # g.bound
    BY <2>3, NoneAssumption DEF GateInv, BindingKept, MayBind
  <2>7. HoldKept(h, w)
    BY <1>1, <2>1, <2>3 DEF HoldKept
  <2> QED
    BY <2>1, <2>3, <2>5, <2>6, <2>7
<1> QED
  BY <1>2, <1>3, <1>4, <1>5, RecordShape

\* C2: no usable connection is left.
LEMMA FlushKeeps ==
  ASSUME NEW g, NEW F, NEW A, GateInv(g, F, A)
  PROVE  LET h == Flush(g) IN
         /\ Good(g, h, F, A, TRUE) /\ \A w : HoldKept(g, w) => Good(g, h, F, A, w)
         /\ Reconnected(g, h) /\ \A c \in Conns : h.conns[c].phase = "open" => h.conns[c].consumed
<1> DEFINE x == [c \in Conns |->
                   IF g.conns[c].phase = "queued" \/ (g.conns[c].phase = "open" /\ ~g.conns[c].consumed)
                     THEN [g.conns[c] EXCEPT !.phase = "closed"] ELSE g.conns[c]]
           h == Flush(g)
<1>1. g \in Gate /\ \A c \in Conns : g.conns[c] \in Connection
  BY DEF GateInv, Gate
<1>2. x \in [Conns -> Connection] /\ \A c \in Conns : x[c].phase = "open" => x[c].consumed
  BY <1>1 DEF Connection
<1>3. h = [g EXCEPT !.conns = x]
  BY DEF Flush
<1> HIDE DEF x, h
<1>4. h \in Gate /\ h.conns = x
  BY <1>1, <1>2, <1>3 DEF Gate
<1>5. Reconnected(g, h)
  BY <1>3, <1>4 DEF Reconnected
<1>6. Good(g, h, F, A, TRUE) /\ \A w : HoldKept(g, w) => Good(g, h, F, A, w)
  BY Zenon, <1>2, <1>4, <1>5, ConnsKeep
<1> QED
  BY Zenon, <1>2, <1>4, <1>5, <1>6 DEF h

\* Gate h is g after it armed action i with template t.
ArmedWith(g, h, i, t) ==
  /\ h \in Gate
  /\ h.state = g.state /\ h.channel = g.channel /\ h.conns = g.conns
  /\ h.bound = g.bound /\ h.run = g.run /\ h.bindings = g.bindings
  /\ h.keys = g.keys \cup MutationKey(t)
  /\ Len(h.actions) = i /\ \A k \in Ids(g) : h.actions[k] = g.actions[k]
  /\ h.actions[i].status = "ARMED" /\ h.actions[i].class = None
  /\ h.actions[i].sealed = FALSE /\ h.actions[i].armed = t
  /\ h.journal.bound = g.journal.bound /\ h.journal.run = g.journal.run
  /\ h.journal.bindings = g.journal.bindings /\ h.journal.consistent = g.journal.consistent
  /\ Len(h.journal.actions) = i
  /\ \A k \in Ids(g) : h.journal.actions[k] = g.journal.actions[k]
  /\ h.journal.actions[i] = Rebuilt

\* Arming keeps the invariant: the template was not forwarded yet.
LEMMA ArmedKeeps ==
  ASSUME NEW g, NEW h, NEW F, NEW A, GateInv(g, F, A), NEW e \in Executions, NEW t \in Template,
         MayArm(g, e, t), \A c \in Conns : g.conns[c].phase = "open" => g.conns[c].consumed,
         ArmedWith(g, h, Len(g.actions) + 1, t)
  PROVE  GateInv(h, F, A) /\ Kept(g, h)
<1> DEFINE i == Len(g.actions) + 1
<1>1. F \subseteq A /\ Armed(g) = {} /\ InFlight(g) = {}
  BY SettledAnswered DEF MayArm
<1>2. /\ g \in Gate /\ h \in Gate /\ JournalAgrees(g) /\ Ids(g) = 1 .. Len(g.actions) /\ Len(g.actions) \in Nat
  BY SameIds DEF GateInv, ArmedWith
<1>3. Ids(h) = Ids(g) \cup {i} /\ i \notin Ids(g) /\ i <= MaxActions
  BY <1>2, BoundAssumption DEF ArmedWith, Ids, Gate, MayArm
<1>4. g.bound \in Executions /\ g.bound # None /\ g.run \in Runs /\ t.manifest \in Case[g.run]
  BY NoneAssumption DEF MayArm, GateInv, BindingKept
<1>5. /\ h.actions[i].status = "ARMED" /\ h.actions[i].armed = t /\ h.actions[i].class = None
      /\ \A k \in Ids(g) : h.actions[k] = g.actions[k]
      /\ h.journal.actions[i].status = "ARMED" /\ h.journal.actions[i].sealed = FALSE
      /\ h.actions[i].sealed = FALSE
      /\ \A k \in Ids(g) : h.journal.actions[k] = g.journal.actions[k]
  BY DEF ArmedWith, Rebuilt
<1>6. /\ h.state = g.state /\ h.channel = g.channel /\ h.conns = g.conns
      /\ h.bound = g.bound /\ h.run = g.run /\ h.bindings = g.bindings
      /\ h.keys = g.keys \cup MutationKey(t)
  BY DEF ArmedWith
<1>7. Armed(h) = {i} /\ InFlight(h) = {}
  BY <1>1, <1>3, <1>5 DEF Armed, InFlight
<1>8. JournalAgrees(h)
  <2>1. SealAgrees(h.actions[i], h.journal.actions[i])
    BY Zenon, <1>5 DEF SealAgrees
  <2>2. \A k \in Ids(h) : SealAgrees(h.actions[k], h.journal.actions[k])
    BY <1>2, <1>3, <1>5, <2>1 DEF JournalAgrees
  <2> QED
    BY <1>2, <1>3, <2>2 DEF JournalAgrees, ArmedWith
<1>9. BindingKept(h) /\ OneArmed(h)
  BY <1>6, <1>7 DEF GateInv, BindingKept, OneArmed
<1>10. TemplatesOfRun(h)
  BY <1>3, <1>4, <1>5, <1>6 DEF GateInv, TemplatesOfRun
<1>11. StampsArmed(h)
  BY <1>6 DEF StampsArmed
<1>12. AmbiguityHeld(h)
  BY SMTT(60), <1>3, <1>5, <1>6, ClassAssumption DEF GateInv, AmbiguityHeld, AnyAmbiguous, Classification
<1>13. StatusLogged(h)
  <2>1. \A k \in Ids(h) : Unclean(h.journal.actions[k]) => Unclean(h.actions[k])
    BY SMTT(60), <1>3, <1>5 DEF GateInv, StatusLogged, Unclean
  <2> QED
    BY SMTT(60), <1>5, <1>7, <2>1 DEF StatusLogged
<1>14. ForwardedKnown(h, F)
  BY <1>3, <1>5, <1>6 DEF GateInv, ForwardedKnown
<1>15. Unsettled(h, F, A)
  BY <1>1 DEF Unsettled
<1>16. KeysKnown(h, F)
  BY <1>5, <1>6, <1>7 DEF GateInv, KeysKnown
<1>17. ManifestsOfRuns(h, F)
  BY <1>6 DEF GateInv, ManifestsOfRuns
<1>18. MutationsOnce(h, F)
  <2>1. ASSUME NEW f \in F, f.template = t, t.verb # "GET"
        PROVE  FALSE
    <3>1. CASE f.exec = g.bound
      <4>1. MutationKey(t) \subseteq g.keys /\ MutationKey(t) \cap g.keys = {}
        BY <2>1, <3>1 DEF GateInv, KeysKnown, MayArm
      <4>2. MutationKey(t) # {}
        BY <2>1 DEF MutationKey, Template, Verb
      <4> QED
        BY <4>1, <4>2
    <3>2. CASE f.exec # g.bound
      <4>1. PICK q \in Runs : q # g.run /\ t.manifest \in Case[q]
        BY <2>1, <3>2 DEF GateInv, ManifestsOfRuns
      <4> QED
        BY <1>4, <4>1, CaseAssumption
    <3> QED
      BY <3>1, <3>2
  <2> QED
    BY <1>5, <1>7, <2>1 DEF GateInv, MutationsOnce
<1>19. F \subseteq Forwarded /\ A \subseteq F
  BY DEF GateInv
<1>20. Kept(g, h)
  BY <1>1, <1>3, <1>5, <1>6, <1>7 DEF Kept, Frozen, Rank
<1> QED
  BY SMTT(60), <1>2, <1>8, <1>9, <1>10, <1>11, <1>12, <1>13, <1>14, <1>15, <1>16, <1>17, <1>18, <1>19, <1>20
     DEF GateInv

\* ARM.
LEMMA ArmKeeps ==
  ASSUME NEW g, NEW F, NEW A, NEW w, GateInv(g, F, A), NEW e \in Executions, NEW t \in Template,
         MayArm(g, e, t), NEW h \in Arm(g, t)
  PROVE  Good(g, h, F, A, w)
<1> DEFINE m == Flush(g)
           i == Len(g.actions) + 1
           j == JArm(g.journal, i)
           new == [status |-> "ARMED", class |-> None, after |-> FALSE,
                   sealed |-> FALSE, armed |-> t, conn |-> None]
<1>1. PICK k \in Record(m, j) :
        h = IF k.ok THEN [k EXCEPT !.keys = @ \cup MutationKey(t), !.actions = Append(@, new)] ELSE k
  BY Zenon DEF Arm
<1>2. /\ Good(g, m, F, A, TRUE) /\ Reconnected(g, m)
      /\ \A c \in Conns : m.conns[c].phase = "open" => m.conns[c].consumed
  BY ZenonT(60), FlushKeeps
<1> HIDE DEF m
<1>3. /\ g \in Gate /\ m \in Gate /\ GateInv(m, F, A) /\ Kept(g, m) /\ m.bound = g.bound
      /\ g.state = "ACTIVE" /\ g.bound = e
  BY <1>2 DEF Good, GateInv, MayArm
<1>4. /\ m.state = g.state /\ m.channel = g.channel /\ m.run = g.run /\ m.bindings = g.bindings
      /\ m.keys = g.keys /\ m.actions = g.actions /\ m.journal = g.journal /\ m.expired = g.expired
      /\ m.uids = g.uids
  BY <1>2, <1>3 DEF Reconnected, Gate
<1>5. MayArm(m, e, t) /\ i = Len(m.actions) + 1
  BY SMTT(60), <1>3, <1>4 DEF MayArm, AllSettled, Ids
<1>6. /\ JournalAgrees(g) /\ Len(g.actions) \in Nat /\ Len(g.journal.actions) = Len(g.actions)
      /\ Ids(g) = 1 .. Len(g.actions) /\ g.journal \in Journal /\ g.journal.actions \in Seq(Logged)
      /\ g.actions \in Seq(Action)
  <2>1. JournalAgrees(g) /\ Len(g.journal.actions) = Len(g.actions)
    BY Zenon DEF GateInv, JournalAgrees
  <2>2. Ids(g) = 1 .. Len(g.actions) /\ Len(g.actions) \in Nat
    BY Zenon, <1>3, <2>1, SameIds
  <2>3. g.journal \in Journal /\ g.actions \in Seq(Action)
    BY Zenon, <1>3 DEF Gate
  <2> QED
    BY Zenon, <2>1, <2>2, <2>3 DEF Journal
<1>7. Rebuilt \in Logged /\ new \in Action
  BY DEF Rebuilt, Logged, Status, Action
<1> HIDE DEF new
<1>8. LET s == Append(g.journal.actions, Rebuilt) IN
      /\ s \in Seq(Logged) /\ Len(s) = i /\ s[i] = Rebuilt
      /\ \A n \in Ids(g) : s[n] = g.journal.actions[n]
  BY <1>6, <1>7
<1>9. LET s == Append(g.actions, new) IN
      s \in Seq(Action) /\ Len(s) = i /\ s[i] = new /\ \A n \in Ids(g) : s[n] = g.actions[n]
  BY <1>6, <1>7
<1>10. j = [g.journal EXCEPT !.actions = Append(g.journal.actions, Rebuilt)]
  BY <1>6 DEF JArm
<1> HIDE DEF j
<1>11. /\ j \in Journal /\ j.actions = Append(g.journal.actions, Rebuilt) /\ j.bound = g.journal.bound
       /\ j.run = g.journal.run /\ j.bindings = g.journal.bindings /\ j.consistent = g.journal.consistent
  BY Zenon, <1>6, <1>8, <1>10 DEF Journal
<1>12. CASE ~k.ok /\ Failed(m, k, F, A)
  <2>1. Good(m, h, F, A, w)
    BY <1>1, <1>12, FailedGood
  <2> QED
    BY <1>3, <2>1, GoodTransitive
<1>13. CASE k.ok /\ Appended(m, k, j)
  <2>1. /\ k \in Gate /\ k.actions = g.actions /\ k.keys = g.keys /\ k.journal = j
        /\ k.state = m.state /\ k.channel = m.channel /\ k.conns = m.conns
        /\ k.bound = m.bound /\ k.run = m.run /\ k.bindings = m.bindings
    BY Zenon, <1>3, <1>4, <1>11, <1>13 DEF Appended, Gate
  <2> DEFINE s == Append(g.actions, new)
             u == g.keys \cup MutationKey(t)
  <2>2. h = [k EXCEPT !.keys = u, !.actions = s]
    BY <1>1, <1>13, <2>1
  <2>3. s \in Seq(Action) /\ u \in SUBSET (Manifests \cup Uids)
    <3>1. MutationKey(t) \subseteq Manifests \cup Uids
      BY DEF MutationKey, Template, MayArm
    <3> QED
      BY <1>3, <1>9, <3>1 DEF Gate
  <2> HIDE DEF s, u
  <2>4. /\ h \in Gate /\ h.actions = s /\ h.keys = u /\ h.journal = k.journal
        /\ h.state = k.state /\ h.channel = k.channel /\ h.conns = k.conns
        /\ h.bound = k.bound /\ h.run = k.run /\ h.bindings = k.bindings
    BY Zenon, <2>1, <2>2, <2>3 DEF Gate
  <2>5. /\ new.status = "ARMED" /\ new.class = None /\ new.sealed = FALSE /\ new.armed = t
    BY DEF new
  <2>6. Ids(m) = Ids(g)
    BY <1>4 DEF Ids
  <2>7. ArmedWith(m, h, Len(m.actions) + 1, t)
    <3>1. Len(s) = i /\ s[i] = new /\ \A n \in Ids(g) : s[n] = g.actions[n]
      BY Zenon, <1>9 DEF s
    <3>2. Len(j.actions) = i /\ j.actions[i] = Rebuilt /\ \A n \in Ids(g) : j.actions[n] = g.journal.actions[n]
      BY Zenon, <1>8, <1>11
    <3>3. u = m.keys \cup MutationKey(t)
      BY <1>4 DEF u
    <3> HIDE DEF i
    <3> QED
      BY ZenonT(60), <1>4, <1>5, <1>11, <2>1, <2>4, <2>5, <2>6, <3>1, <3>2, <3>3 DEF ArmedWith
  <2>8. GateInv(h, F, A) /\ Kept(m, h)
    BY <1>2, <1>3, <1>5, <2>7, ArmedKeeps
  <2>9. Good(m, h, F, A, w)
    BY <1>3, <1>4, <2>1, <2>4, <2>8 DEF Good, HoldKept
  <2> QED
    BY <1>3, <2>9, GoodTransitive
<1> QED
  BY <1>1, <1>3, <1>11, <1>12, <1>13, RecordShape

-----------------------------------------------------------------------------
(* The events of the gate.                                                 *)

\* What every event keeps, a restart included.
Sound(g, h, F, A, w) ==
  GateInv(h, F, A) /\ HoldKept(h, w) /\ (h.bound = g.bound => Frozen(g, h))

\* What any other event may make of gate g.
Steps(g, h, F, A, w) ==
  /\ Sound(g, h, F, A, w)
  /\ Rank(g.state) <= Rank(h.state)
  /\ Rank(g.state) >= 2 => InFlight(h) \subseteq InFlight(g)

\* A good handler is an event.
LEMMA GoodSteps ==
  ASSUME NEW g, NEW h, NEW F, NEW A, NEW w, Good(g, h, F, A, w)
  PROVE  Steps(g, h, F, A, w) /\ InFlight(h) \subseteq InFlight(g)
  BY DEF Good, Steps, Sound, Kept

\* What follows a handler within the same event does not undo it.
LEMMA ThenGood ==
  ASSUME NEW g, NEW k, NEW h, NEW F, NEW A, NEW w, Good(k, h, F, A, w)
  PROVE  /\ Sound(g, k, F, A, w) => Sound(g, h, F, A, w)
         /\ Steps(g, k, F, A, w) => Steps(g, h, F, A, w)
<1>1. GateInv(h, F, A) /\ HoldKept(h, w) /\ Kept(k, h) /\ h.bound = k.bound
  BY DEF Good
<1>2. Sound(g, k, F, A, w) => Sound(g, h, F, A, w)
  BY <1>1 DEF Sound, Kept, Frozen
<1>3. \A s : Rank(s) \in 0 .. 3
  BY DEF Rank
<1>4. Rank(k.state) <= Rank(h.state) /\ Rank(g.state) \in 0 .. 3 /\ Rank(k.state) \in 0 .. 3 /\ Rank(h.state) \in 0 .. 3
  BY <1>1, <1>3 DEF Kept
<1>5. Rank(g.state) <= Rank(k.state) => Rank(g.state) <= Rank(h.state)
  BY <1>4
<1>6. InFlight(h) \subseteq InFlight(k)
  BY <1>1 DEF Kept
<1> QED
  BY <1>2, <1>5, <1>6 DEF Steps

\* An event whose handler sends nothing.
LEMMA HandledSound ==
  ASSUME NEW g, NEW S, NEW F, NEW A, NEW w, NEW h \in Quiet(Handle(S)),
         \A k \in S : Sound(g, k, F, A, w)
  PROVE  Sound(g, h, F, A, w)
<1>1. PICK k \in S : GateInv(k, F, A) /\ HoldKept(k, w) => Good(k, h, F, A, w)
  BY HandleKeeps
<1>2. Sound(g, k, F, A, w) /\ GateInv(k, F, A) /\ HoldKept(k, w)
  BY DEF Sound
<1> QED
  BY <1>1, <1>2, ThenGood

\* The handlers of the broker's frames, of the worker's connections and of the
\* timers; g's guards are those of the events.
LEMMA BrokerSteps ==
  ASSUME NEW g, NEW F, NEW A, NEW w, GateInv(g, F, A), HoldKept(g, w)
  PROVE  /\ g.channel = "UNOPENED" => \A h \in {[g EXCEPT !.channel = "OPEN"]} : Steps(g, h, F, A, w)
         /\ \A h \in ChannelLost(g) \cup Fatal(g) \cup Drain(g) \cup Expire(g) : Steps(g, h, F, A, w)
         /\ \A reason : \A h \in Close(g, reason) : Steps(g, h, F, A, w)
         /\ \A i \in Ids(g) : \A h \in Outcome(g, i) : Steps(g, h, F, A, w)
         /\ \A c \in Conns : \A h \in Backlog(g, c) \cup Accept(g, c) \cup Disconnect(g, c) : Steps(g, h, F, A, w)
         /\ \A c \in Conns, i \in InFlight(g) : \A h \in Timeout(g, c, i) : Steps(g, h, F, A, w)
<1>1. g.channel = "UNOPENED" => \A h \in {[g EXCEPT !.channel = "OPEN"]} : Steps(g, h, F, A, w)
  BY ChannelKeeps, GoodSteps
<1>2. \A h \in ChannelLost(g) : Steps(g, h, F, A, w)
  BY ChannelKeeps, GoodSteps
<1>3. \A h \in Fatal(g) : Steps(g, h, F, A, w)
  BY FatalKeeps, GoodSteps
<1>4. \A h \in Drain(g) : Steps(g, h, F, A, w)
  BY DrainKeeps, GoodSteps
<1>5. \A h \in Expire(g) : Steps(g, h, F, A, w)
  BY ExpireKeeps, GoodSteps
<1>6. \A reason : \A h \in Close(g, reason) : Steps(g, h, F, A, w)
  BY CloseKeeps, GoodSteps
<1>7. \A i \in Ids(g) : \A h \in Outcome(g, i) : Steps(g, h, F, A, w)
  BY OutcomeKeeps, GoodSteps
<1>8. \A c \in Conns : \A h \in Backlog(g, c) \cup Accept(g, c) \cup Disconnect(g, c) : Steps(g, h, F, A, w)
  BY ConnectionsKeep, GoodSteps
<1>9. \A c \in Conns, i \in InFlight(g) : \A h \in Timeout(g, c, i) : Steps(g, h, F, A, w)
  BY TimeoutKeeps, GoodSteps
<1> QED
  BY <1>1, <1>2, <1>3, <1>4, <1>5, <1>6, <1>7, <1>8, <1>9

\* BIND and ARM.
LEMMA BindingSteps ==
  ASSUME NEW g, NEW F, NEW A, NEW w, GateInv(g, F, A), NEW e \in Executions
  PROVE  /\ \A r \in Runs : MayBind(g, e, r) => \A h \in Bind(g, e, r) : Steps(g, h, F, A, w)
         /\ \A t \in Template : MayArm(g, e, t) => \A h \in Arm(g, t) : Steps(g, h, F, A, w)
<1>1. ASSUME NEW r \in Runs, MayBind(g, e, r), NEW h \in Bind(g, e, r)
      PROVE  Steps(g, h, F, A, w)
  <2>1. CASE Good(g, h, F, A, w)
    BY <2>1, GoodSteps
  <2>2. CASE /\ GateInv(h, F, A) /\ HoldKept(h, w) /\ h.bound # g.bound
             /\ h.state = g.state /\ InFlight(h) = {}
    BY <2>2 DEF Steps, Sound, Rank
  <2>3. \/ Good(g, h, F, A, w)
        \/ /\ GateInv(h, F, A) /\ HoldKept(h, w) /\ h.bound # g.bound
           /\ h.state = g.state /\ InFlight(h) = {}
    BY Zenon, <1>1, BindKeeps
  <2> QED
    BY <2>1, <2>2, <2>3
<1>2. ASSUME NEW t \in Template, MayArm(g, e, t), NEW h \in Arm(g, t)
      PROVE  Steps(g, h, F, A, w)
  BY <1>2, ArmKeeps, GoodSteps
<1> QED
  BY <1>1, <1>2

\* The apiserver's answer, with what it settles.
LEMMA UpstreamSteps ==
  ASSUME NEW g, NEW F, NEW A, NEW w, GateInv(g, F, A), HoldKept(g, w), NEW c \in Conns,
         NEW i \in ForwardedOn(g, c), NEW response, NEW uid \in Uids \cup {None}
  PROVE  \A h \in Upstream(g, c, i, response, uid) : Steps(g, h, F, A \cup Settles(g, F, i, response), w)
  BY UpstreamKeeps, GoodSteps

\* A restart, with the floor that the policy writes set.
LEMMA RestartSound ==
  ASSUME NEW g, NEW F, NEW A, GateInv(g, F, A), NEW floor,
         NEW w, HoldKept(g, w), Implied(w, floor), NEW r \in {g, Reopened(g)}
  PROVE  \A h \in GateRestart(r, floor) :
           /\ Sound(g, h, F, A, w) /\ HoldKept(h, FALSE) /\ HeldIf(floor, h) /\ InFlight(h) = {}
           /\ Rank(g.state) <= Rank(h.state) \/ (g.residual /\ Rank(h.state) = 2)
<1> SUFFICES ASSUME NEW h \in GateRestart(r, floor)
             PROVE  /\ Sound(g, h, F, A, w) /\ HoldKept(h, FALSE) /\ HeldIf(floor, h) /\ InFlight(h) = {}
                    /\ Rank(g.state) <= Rank(h.state) \/ (g.residual /\ Rank(h.state) = 2)
  BY Zenon
<1>1. SameFiles(g, r)
  BY ReopenedFiles
<1>2. /\ GateInv(h, F, A) /\ Frozen(g, h) /\ InFlight(h) = {} /\ h.bound = g.bound
      /\ Rank(h.state) >= 2 /\ HoldKept(h, FALSE) /\ HeldIf(floor, h)
      /\ Rank(g.state) <= Rank(h.state) \/ g.residual
  BY Zenon, <1>1, RestartKeeps
<1>3. HoldKept(h, w)
  BY <1>2 DEF HoldKept
<1>4. Rank(g.state) <= Rank(h.state) \/ (g.residual /\ Rank(h.state) = 2)
  BY <1>2 DEF Rank
<1> QED
  BY Zenon, <1>2, <1>3, <1>4 DEF Sound

\* A request that is let through is sent, and nothing else is.
LEMMA ForwardsSent ==
  ASSUME NEW g, NEW k, NEW F, NEW A, NEW w, GateInv(g, F, A), NEW i \in Armed(g), Forwards(g, k, i, F, A)
  PROVE  LET h == [k EXCEPT !.ok = TRUE] IN
         /\ SettleDrain(k) = {k} /\ Fence(k) = "PENDING"
         /\ Sent(g, h) = {Request1(g, i)} /\ Steps(g, h, F \cup Sent(g, h), A, w)
         /\ h.state = "ACTIVE"
<1> DEFINE h == [k EXCEPT !.ok = TRUE]
           f == F \cup {Request1(g, i)}
<1>1. /\ g.state = "ACTIVE" /\ k.state = "ACTIVE" /\ ~k.drain /\ k.bound = g.bound
      /\ GateInv(k, f, A) /\ Frozen(g, k)
      /\ InFlight(k) = InFlight(g) \cup {i} /\ i \notin InFlight(g)
      /\ k.actions[i].armed = g.actions[i].armed
  BY DEF Forwards
<1>2. k \in Gate /\ HoldKept(k, w)
  BY <1>1 DEF GateInv, HoldKept
<1> HIDE DEF f
<1>3. Good(k, h, f, A, w) /\ h.state = k.state
  BY <1>1, <1>2, QuietKeeps
<1>4. h.actions = k.actions /\ h.bound = k.bound
  BY <1>2 DEF Gate
<1>5. InFlight(h) = InFlight(g) \cup {i}
  BY <1>1, <1>4 DEF InFlight, Ids
<1> HIDE DEF h
<1>6. Sent(g, h) = {Request1(g, i)}
  BY <1>1, <1>4, <1>5 DEF Sent, Request1
<1>7. Steps(g, k, f, A, w)
  BY <1>1, <1>2 DEF Steps, Sound, Rank
<1>8. Steps(g, h, f, A, w)
  BY <1>3, <1>7, ThenGood
<1>9. SettleDrain(k) = {k} /\ Fence(k) = "PENDING"
  BY <1>1 DEF SettleDrain, Fence
<1> QED
  BY Zenon, <1>1, <1>3, <1>6, <1>8, <1>9 DEF h, f

\* An event that leaves nothing new in flight sends nothing.
LEMMA NothingSent ==
  ASSUME NEW g, NEW h, InFlight(h) \subseteq InFlight(g)
  PROVE  Sent(g, h) = {}
  BY DEF Sent

\* A worker's request.
LEMMA RequestSteps ==
  ASSUME NEW g, NEW F, NEW A, NEW w, GateInv(g, F, A), HoldKept(g, w), NEW c \in Conns,
         NEW exact, NEW h \in Quiet(Handle(Request(g, c, exact)))
  PROVE  Steps(g, h, F \cup Sent(g, h), A, w)
<1>1. PICK k \in Request(g, c, exact) : \E m \in SettleDrain(k) : h = [m EXCEPT !.ok = TRUE]
  BY DEF Quiet, Handle
<1>2. PICK m \in SettleDrain(k) : h = [m EXCEPT !.ok = TRUE]
  BY Zenon, <1>1
<1>3. CASE Good(g, k, F, A, w)
  <2>1. Good(g, m, F, A, w)
    BY <1>3, ThenSettle
  <2>2. Good(m, h, F, A, w)
    BY <1>2, <2>1, QuietKeeps DEF Good
  <2>3. Good(g, h, F, A, w)
    BY <2>1, <2>2, GoodTransitive DEF Good
  <2>4. Steps(g, h, F, A, w) /\ Sent(g, h) = {}
    BY <2>3, GoodSteps, NothingSent
  <2>5. F \cup Sent(g, h) = F
    BY <2>4
  <2> QED
    BY <2>4, <2>5
<1>4. CASE \E i \in Armed(g) : Forwards(g, k, i, F, A)
  <2>1. PICK i \in Armed(g) : Forwards(g, k, i, F, A)
    BY <1>4
  <2>2. SettleDrain(k) = {k}
    BY Zenon, <2>1, ForwardsSent
  <2>3. h = [k EXCEPT !.ok = TRUE]
    BY <1>2, <2>2
  <2> QED
    BY SMTT(60), <2>1, <2>3, ForwardsSent
<1> QED
  BY <1>3, <1>4, RequestKeeps

-----------------------------------------------------------------------------
(* The gate alone.                                                         *)

\* The invariant of the base gate, which has no policy writes.
GateInvariant == GateInv(gate, forwarded, answered) /\ HoldKept(gate, FALSE)

\* A new gate has the invariant, whatever state it is opened in.
LEMMA GateInitially ==
  ASSUME Init
  PROVE  \A w : GateInv(gate, forwarded, answered) /\ HoldKept(gate, w)
<1>1. PICK s \in State : gate = InitialGate(s)
  BY DEF Init
<1>2. forwarded = {} /\ answered = {}
  BY DEF Init
<1>3. EmptyJournal \in Journal /\ Absent \in Connection
  BY DEF EmptyJournal, Journal, State, Absent, Connection
<1>4. gate \in Gate
  BY <1>1, <1>3, BoundAssumption DEF InitialGate, Gate, Channel
<1>5. /\ gate.actions = <<>> /\ gate.bound = None /\ gate.run = None /\ gate.bindings = {}
      /\ gate.journal = EmptyJournal /\ \A c \in Conns : gate.conns[c] = Absent
  BY <1>1 DEF InitialGate
<1>6. Ids(gate) = {} /\ Armed(gate) = {} /\ InFlight(gate) = {}
  BY <1>5 DEF Ids, Armed, InFlight
<1>7. /\ JournalAgrees(gate) /\ BindingKept(gate) /\ OneArmed(gate) /\ TemplatesOfRun(gate)
      /\ AmbiguityHeld(gate) /\ StatusLogged(gate)
  BY <1>5, <1>6, BoundAssumption
     DEF JournalAgrees, EmptyJournal, BindingKept, OneArmed, TemplatesOfRun, AmbiguityHeld, AnyAmbiguous, StatusLogged
<1>8. StampsArmed(gate)
  BY <1>5 DEF StampsArmed, Absent
<1>9. /\ ForwardedKnown(gate, forwarded) /\ Unsettled(gate, forwarded, answered)
      /\ KeysKnown(gate, forwarded) /\ ManifestsOfRuns(gate, forwarded) /\ MutationsOnce(gate, forwarded)
  BY <1>2, <1>6 DEF ForwardedKnown, Unsettled, KeysKnown, ManifestsOfRuns, MutationsOnce
<1>10. \A w : HoldKept(gate, w)
  BY <1>5 DEF HoldKept, EmptyJournal
<1> QED
  BY <1>2, <1>4, <1>7, <1>8, <1>9, <1>10 DEF GateInv

\* Every event keeps what must be kept.
LEMMA EveryEventSound ==
  ASSUME GateInvariant, Next
  PROVE  Sound(gate, gate', forwarded', answered', FALSE)
<1> DEFINE Fine(S) == \A k \in S : Sound(gate, k, forwarded, answered, FALSE)
<1>1. GateInv(gate, forwarded, answered) /\ HoldKept(gate, FALSE)
  BY Zenon DEF GateInvariant
<1>2. ASSUME NEW S, Fine(S), gate' \in Quiet(Handle(S)), UNCHANGED <<forwarded, answered>>
      PROVE  Sound(gate, gate', forwarded', answered', FALSE)
  <2>1. Sound(gate, gate', forwarded, answered, FALSE)
    BY Zenon, <1>2, HandledSound
  <2> QED
    BY Zenon, <1>2, <2>1
<1>3. ASSUME NEW c \in Conns, OnBacklog(c) \/ OnAccept(c) \/ OnDisconnect(c)
      PROVE  Sound(gate, gate', forwarded', answered', FALSE)
  <2>1. Fine(Backlog(gate, c)) /\ Fine(Accept(gate, c)) /\ Fine(Disconnect(gate, c))
    BY Zenon, <1>1, BrokerSteps DEF Steps
  <2> HIDE DEF Fine
  <2> QED
    BY Zenon, <1>2, <1>3, <2>1 DEF OnBacklog, OnAccept, OnDisconnect, Step
<1>4. ASSUME NEW c \in Conns, NEW exact \in BOOLEAN, OnRequest(c, exact)
      PROVE  Sound(gate, gate', forwarded', answered', FALSE)
  <2>1. Sound(gate, gate', forwarded \cup Sent(gate, gate'), answered, FALSE)
    BY Zenon, <1>1, <1>4, RequestSteps DEF OnRequest, Steps
  <2> QED
    BY Zenon, <1>4, <2>1 DEF OnRequest
<1>5. ASSUME NEW c \in Conns, NEW i \in 1 .. MaxActions, NEW response \in Response \cup {"lost"},
             NEW uid \in Uids \cup {None}, OnUpstream(c, i, response, uid)
      PROVE  Sound(gate, gate', forwarded', answered', FALSE)
  <2>1. i \in ForwardedOn(gate, c) /\ gate' \in Quiet(Handle(Upstream(gate, c, i, response, uid)))
    BY <1>5 DEF OnUpstream
  <2>2. \A k \in Upstream(gate, c, i, response, uid) :
          Sound(gate, k, forwarded, answered \cup Settles(gate, forwarded, i, response), FALSE)
    BY Zenon, <1>1, <2>1, UpstreamSteps DEF Steps
  <2>3. Sound(gate, gate', forwarded, answered \cup Settles(gate, forwarded, i, response), FALSE)
    BY Zenon, <2>1, <2>2, HandledSound
  <2>4. Settles(gate, forwarded, i, response) = Settling(gate, i, response)
    BY DEF Settles, Settling
  <2> QED
    BY Zenon, <1>5, <2>3, <2>4 DEF OnUpstream
<1>6. ASSUME NEW c \in Conns, NEW i \in 1 .. MaxActions, OnTimeout(c, i)
      PROVE  Sound(gate, gate', forwarded', answered', FALSE)
  <2>1. Fine(Timeout(gate, c, i))
    BY Zenon, <1>1, <1>6, BrokerSteps DEF Steps, OnTimeout
  <2> HIDE DEF Fine
  <2> QED
    BY Zenon, <1>2, <1>6, <2>1 DEF OnTimeout, Step
<1>7. CASE OnOpen
  <2>1. Fine({[gate EXCEPT !.channel = "OPEN"]})
    BY Zenon, <1>1, <1>7, BrokerSteps DEF Steps, OnOpen
  <2> HIDE DEF Fine
  <2> QED
    BY Zenon, <1>2, <1>7, <2>1 DEF OnOpen, Step
<1>8. CASE OnChannelLost \/ OnFatal \/ OnDrain \/ OnExpire
  <2>1. Fine(ChannelLost(gate)) /\ Fine(Fatal(gate)) /\ Fine(Drain(gate)) /\ Fine(Expire(gate))
    BY Zenon, <1>1, BrokerSteps DEF Steps
  <2> HIDE DEF Fine
  <2> QED
    BY Zenon, <1>2, <1>8, <2>1 DEF OnChannelLost, OnFatal, OnDrain, OnExpire, Step
<1>9. ASSUME NEW e \in Executions, NEW r \in Runs, OnBind(e, r)
      PROVE  Sound(gate, gate', forwarded', answered', FALSE)
  <2>1. Fine(Bind(gate, e, r))
    BY Zenon, <1>1, <1>9, BindingSteps DEF Steps, OnBind
  <2> HIDE DEF Fine
  <2> QED
    BY Zenon, <1>2, <1>9, <2>1 DEF OnBind, Step
<1>10. ASSUME NEW e \in Executions, NEW t \in Template, OnArm(e, t)
       PROVE  Sound(gate, gate', forwarded', answered', FALSE)
  <2>1. Fine(Arm(gate, t))
    BY Zenon, <1>1, <1>10, BindingSteps DEF Steps, OnArm
  <2> HIDE DEF Fine
  <2> QED
    BY Zenon, <1>2, <1>10, <2>1 DEF OnArm, Step
<1>11. ASSUME NEW e \in Executions, NEW i \in 1 .. MaxActions, OnOutcome(e, i)
       PROVE  Sound(gate, gate', forwarded', answered', FALSE)
  <2>1. Fine(Outcome(gate, i))
    BY Zenon, <1>1, <1>11, BrokerSteps DEF Steps, OnOutcome, MaySeal
  <2> HIDE DEF Fine
  <2> QED
    BY Zenon, <1>2, <1>11, <2>1 DEF OnOutcome, Step
<1>12. ASSUME NEW reason \in CloseReason, OnClose(reason)
       PROVE  Sound(gate, gate', forwarded', answered', FALSE)
  <2>1. Fine(Close(gate, reason))
    BY Zenon, <1>1, BrokerSteps DEF Steps
  <2> HIDE DEF Fine
  <2> QED
    BY Zenon, <1>2, <1>12, <2>1 DEF OnClose, Step
<1>13. CASE OnGateRestart \/ OnProcessRestart
  <2>1. Implied(FALSE, FALSE)
    BY DEF Implied
  <2>2. Fine(GateRestart(gate, FALSE)) /\ Fine(GateRestart(Reopened(gate), FALSE))
    BY Zenon, <1>1, <2>1, RestartSound
  <2> HIDE DEF Fine
  <2> QED
    BY Zenon, <1>2, <1>13, <2>2 DEF OnGateRestart, OnProcessRestart, Step
<1> HIDE DEF Fine
<1>14. CASE Worker
  BY Zenon, <1>3, <1>4, <1>14 DEF Worker
<1>15. CASE Apiserver
  BY Zenon, <1>5, <1>6, <1>15 DEF Apiserver
<1>16. CASE Broker
  BY ZenonT(60), <1>7, <1>8, <1>9, <1>10, <1>11, <1>12, <1>16 DEF Broker
<1> QED
  BY Zenon, <1>8, <1>13, <1>14, <1>15, <1>16 DEF Next

\* An open fence, like a restart that would open it, leaves nothing unsettled.
LEMMA UnsettledSeen ==
  ASSUME NEW g, NEW F, NEW A, GateInv(g, F, A), F # A
  PROVE  /\ Fence(g) # "OPEN" /\ RestartState(g.journal, g.marker) = "HELD"
         /\ g.state = "HELD" \/ InFlight(g) # {}
<1>1. PICK f \in F : f \notin A
  BY DEF GateInv
<1>2. /\ g \in Gate /\ JournalAgrees(g) /\ f.id \in Ids(g)
      /\ Unclean(g.actions[f.id]) /\ Unclean(g.journal.actions[f.id])
  BY <1>1 DEF GateInv, Unsettled
<1>3. f.id \in DOMAIN g.journal.actions
  BY <1>2, SameIds
<1>4. ~Clean(g.journal)
  BY <1>2, <1>3 DEF Clean, Settled, Unclean
<1>5. g.state = "HELD" \/ InFlight(g) # {}
  BY <1>2 DEF GateInv, AmbiguityHeld, AnyAmbiguous, Unclean, InFlight
<1> QED
  BY <1>4, <1>5 DEF RestartState, Fence

\* The gate's invariant: for every number of connections, actions, bindings and
\* failing writes, what is forwarded and unsettled is unclean in memory and in
\* the journal (gate.rs, journal.rs).
THEOREM GateSafe == Spec => []GateInvariant
<1>1. Init => GateInvariant
  BY Zenon, GateInitially DEF GateInvariant
<1>2. GateInvariant /\ [Next]_vars => GateInvariant'
  <2> SUFFICES ASSUME GateInvariant, [Next]_vars PROVE GateInvariant'
    OBVIOUS
  <2>1. CASE Next
    BY Zenon, <2>1, EveryEventSound DEF Sound, GateInvariant
  <2>2. CASE UNCHANGED vars
    BY <2>2 DEF vars, GateInvariant, GateInv, HoldKept
  <2> QED
    BY <2>1, <2>2
<1> QED
  BY <1>1, <1>2, PTL DEF Spec

\* The fence is open only when every forwarded request has its settling answer,
\* a usable stamp is the armed action's and no mutation is forwarded twice
\* (fence, accept_worker, flush, arm).
THEOREM ForwardingIsGuarded == Spec => []ForwardingGuarded
<1>1. GateInvariant => ForwardingGuarded
  <2> SUFFICES ASSUME GateInvariant PROVE ForwardingGuarded
    OBVIOUS
  <2>1. GateInv(gate, forwarded, answered)
    BY DEF GateInvariant
  <2>2. FenceProtects
    BY <2>1, UnsettledSeen DEF FenceProtects
  <2>3. StampsCurrent
    BY <2>1 DEF GateInv, StampsArmed, MutationsOnce, StampsCurrent
  <2> QED
    BY <2>2, <2>3 DEF ForwardingGuarded
<1> QED
  BY <1>1, GateSafe, PTL

\* While a forwarded request has no settling answer a restart holds the
\* generation, whatever writes failed (rebuild).
THEOREM UnsettledIsHeld == Spec => []UnknownIsHeld
<1>1. GateInvariant => UnknownIsHeld
  BY UnsettledSeen DEF GateInvariant, UnknownIsHeld
<1> QED
  BY <1>1, GateSafe, PTL

\* What ACTION_OUTCOME told of a sealed action stays as long as its execution
\* is bound (seal, rebuild).
THEOREM SealsAreFrozen == Spec => SealedFrozen
<1>1. GateInvariant /\ [Next]_vars =>
        [\A i \in Ids(gate) :
           gate.actions[i].sealed /\ gate'.bound = gate.bound =>
             /\ i \in Ids(gate') /\ gate'.actions[i].sealed
             /\ gate'.actions[i].class = gate.actions[i].class]_vars
  BY Zenon, EveryEventSound DEF Sound, Frozen
<1> QED
  BY <1>1, GateSafe, PTL DEF Spec, SealedFrozen

=============================================================================
