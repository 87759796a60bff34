----------------------------- MODULE GateLemmas -----------------------------
(***************************************************************************)
(* The inductive invariant of the gate and what a request, from its        *)
(* admission to its end, does to it.                                       *)
(*                                                                         *)
(* The invariant, GateInv, speaks of a gate g, of the requests F it        *)
(* forwarded and of those, A, that were answered.  Its heart is Unsettled: *)
(* a request without its answer is unclean both in memory and in the       *)
(* journal, so neither the fence nor a restart overlooks it.               *)
(*                                                                         *)
(* Handlers are operators from a gate to a set of gates, so the proof goes *)
(* along their calls: every helper is shown to leave a gate that is Tame   *)
(* with respect to the one it was given, and TameKeeps says once and for   *)
(* all that a tame step keeps the invariant.  Only the handlers that are   *)
(* not tame, Bind, Arm, Consume and the restart, look at the invariant     *)
(* themselves.                                                             *)
(***************************************************************************)
EXTENDS EffectGate, TLAPS

\* A request may have reached the apiserver without a known result.
Unclean(a) == a.status = "CONSUMED" \/ (a.status = "TERMINAL" /\ a.class = "IO_AMBIGUOUS")

\* A sealed action is terminal, and its journal shows the same.
SealAgrees(a, x) ==
  /\ a.sealed = x.sealed
  /\ a.sealed => a.status = "TERMINAL" /\ x.status = "TERMINAL" /\ a.class = x.class

\* The journal speaks of the same execution and of the same actions.
JournalAgrees(g) ==
  /\ g.journal.bound = g.bound /\ g.journal.run = g.run
  /\ g.journal.bindings = g.bindings
  /\ g.journal.consistent
  /\ Len(g.journal.actions) = Len(g.actions)
  /\ Len(g.actions) <= MaxActions
  /\ \A i \in Ids(g) : SealAgrees(g.actions[i], g.journal.actions[i])

\* What is bound stays among the bindings.
BindingKept(g) ==
  /\ g.bound # None => g.bound \in g.bindings
  /\ g.bound # None => g.run \in Runs \cap g.bindings

\* At most one action is armed.
OneArmed(g) == \A i, k \in Armed(g) : i = k

\* An action that is not terminal has its template, one of the bound run.
TemplatesOfRun(g) ==
  \A i \in Ids(g) : g.actions[i].status # "TERMINAL" =>
    /\ g.bound # None
    /\ g.actions[i].armed \in Template
    /\ g.actions[i].armed.manifest \in Case[g.run]

\* A stamp that can still be used is the armed action's.
StampsArmed(g) ==
  \A c \in Conns :
    g.conns[c].phase = "open" /\ ~g.conns[c].consumed /\ g.conns[c].stamp # None =>
      g.conns[c].stamp.exec = g.bound /\ g.conns[c].stamp.id \in Armed(g)

\* An ambiguous action holds the generation.
AmbiguityHeld(g) == g.state # "HELD" => ~AnyAmbiguous(g)

\* A forwarded request of the bound execution is one of its actions.
ForwardedKnown(g, F) ==
  \A f \in F :
    /\ f.exec \in g.bindings
    /\ f.exec = g.bound =>
         /\ f.id \in Ids(g) /\ g.actions[f.id].status # "ARMED"
         /\ g.actions[f.id].status = "CONSUMED" => g.actions[f.id].armed = f.template

\* A request without its answer is unclean in memory and in the journal.
Unsettled(g, F, A) ==
  \A f \in F \ A :
    /\ f.exec = g.bound /\ f.id \in Ids(g)
    /\ Unclean(g.actions[f.id]) /\ Unclean(g.journal.actions[f.id])

\* What is armed is armed in the journal, what is in flight unclean, and what
\* ended with a known result is not unclean.
StatusLogged(g) ==
  /\ \A i \in Armed(g) : g.journal.actions[i].status = "ARMED"
  /\ \A i \in InFlight(g) : Unclean(g.journal.actions[i])
  /\ \A i \in Ids(g) : Unclean(g.journal.actions[i]) => Unclean(g.actions[i])

\* While actions can be armed the keys used in the execution are known.
KeysKnown(g, F) ==
  g.channel # "CLOSED" =>
    /\ \A f \in F : f.exec = g.bound => MutationKey(f.template) \subseteq g.keys
    /\ \A i \in Armed(g) : MutationKey(g.actions[i].armed) \subseteq g.keys

\* A forwarded request's manifest is of its execution's run.
ManifestsOfRuns(g, F) ==
  \A f \in F :
    IF f.exec = g.bound THEN f.template.manifest \in Case[g.run]
    ELSE \E r \in Runs \cap g.bindings : r # g.run /\ f.template.manifest \in Case[r]

\* No mutation was forwarded twice, and the armed one was not forwarded yet.
MutationsOnce(g, F) ==
  /\ \A f, h \in F : f # h /\ f.template.verb # "GET" => f.template # h.template
  /\ \A i \in Armed(g), f \in F :
       g.actions[i].armed.verb # "GET" => f.template # g.actions[i].armed

\* A request sent to the apiserver.
Forwarded == [exec : Executions, id : 1..MaxActions, template : Template]

\* The inductive invariant of a gate.
GateInv(g, F, A) ==
  /\ g \in Gate /\ F \subseteq Forwarded /\ A \subseteq F
  /\ JournalAgrees(g) /\ BindingKept(g) /\ OneArmed(g) /\ TemplatesOfRun(g)
  /\ StampsArmed(g) /\ AmbiguityHeld(g) /\ StatusLogged(g)
  /\ ForwardedKnown(g, F) /\ Unsettled(g, F, A)
  /\ KeysKnown(g, F) /\ ManifestsOfRuns(g, F) /\ MutationsOnce(g, F)

\* A held generation is held by something a restart reads: the marker, a torn
\* record, its state, an unclean action that no answer can settle any more, or
\* an ambiguous policy write (w);
\* unless neither the marker nor the INVALIDATED record could be written.
HoldKept(g, w) ==
  g.state = "HELD" =>
    \/ w \/ g.residual \/ g.marker \/ g.journal.torn
    \/ g.journal.state \notin {"CLOSED", "INVALIDATED"}
    \/ \E i \in DOMAIN g.journal.actions : i \notin InFlight(g) /\ Unclean(g.journal.actions[i])

-----------------------------------------------------------------------------
(* Tame steps.                                                             *)

\* What a tame step may do to an action: keep it, or end it.
ActionKept(a, b) ==
  /\ b.status = a.status \/ b.status = "TERMINAL"
  /\ b.status # "TERMINAL" => b.armed = a.armed

\* What was told of a sealed action is kept.
Frozen(g, h) ==
  \A i \in Ids(g) : g.actions[i].sealed =>
    i \in Ids(h) /\ h.actions[i].sealed /\ h.actions[i].class = g.actions[i].class

\* The actions of D may get their result, the others stay unclean.
Tame(g, h, D) ==
  /\ h \in Gate
  /\ h.bound = g.bound /\ h.run = g.run /\ h.bindings = g.bindings
  /\ h.channel # "CLOSED" => g.channel # "CLOSED" /\ h.keys = g.keys
  /\ Len(h.actions) = Len(g.actions)
  /\ \A i \in Ids(g) :
       /\ ActionKept(g.actions[i], h.actions[i])
       /\ i \notin D /\ Unclean(g.actions[i]) /\ Unclean(g.journal.actions[i]) =>
            Unclean(h.actions[i]) /\ Unclean(h.journal.actions[i])
  /\ Frozen(g, h)
  /\ JournalAgrees(h) /\ StampsArmed(h) /\ AmbiguityHeld(h) /\ StatusLogged(h)

\* A tame step keeps the invariant, if the requests of D are answered.
LEMMA TameKeeps ==
  ASSUME NEW g, NEW h, NEW D, NEW F, NEW A, NEW B,
         GateInv(g, F, A), Tame(g, h, D), A \subseteq B, B \subseteq F,
         \A f \in F \ B : f.exec = g.bound => f.id \notin D
  PROVE  GateInv(h, F, B)
<1> USE DEF GateInv, Tame
<1>1. Ids(h) = Ids(g) /\ Ids(g) = 1 .. Len(g.actions)
  BY DEF Ids, Gate
<1>2. Armed(h) \subseteq Armed(g) /\ \A i \in Armed(h) : h.actions[i].armed = g.actions[i].armed
  BY <1>1 DEF Armed, ActionKept
<1>3. BindingKept(h) /\ OneArmed(h)
  BY <1>2 DEF BindingKept, OneArmed
<1>4. TemplatesOfRun(h)
  BY <1>1 DEF TemplatesOfRun, ActionKept
<1>5. ForwardedKnown(h, F)
  BY <1>1 DEF ForwardedKnown, ActionKept
<1>6. Unsettled(h, F, B)
  BY <1>1 DEF Unsettled
<1>7. KeysKnown(h, F)
  BY <1>1, <1>2 DEF KeysKnown
<1>8. ManifestsOfRuns(h, F)
  BY DEF ManifestsOfRuns
<1>9. MutationsOnce(h, F)
  BY <1>2 DEF MutationsOnce
<1> QED
  BY <1>3, <1>4, <1>5, <1>6, <1>7, <1>8, <1>9

\* The common case: nothing is answered.
LEMMA TameKeepsAll ==
  ASSUME NEW g, NEW h, NEW F, NEW A, GateInv(g, F, A), Tame(g, h, {})
  PROVE  GateInv(h, F, A)
<1>1. A \subseteq F
  BY DEF GateInv
<1>2. \A f \in F \ A : f.exec = g.bound => f.id \notin {}
  OBVIOUS
<1> QED
  BY <1>1, <1>2, TameKeeps

-----------------------------------------------------------------------------
(* What the helpers on actions, connections and journals leave.            *)

\* Action b is a, ended as c.
Ended(a, b, c) ==
  b.status = "TERMINAL" /\ b.class = c /\ b.sealed = a.sealed /\ b.armed = a.armed /\ b.conn = a.conn

\* Ending an action leaves the other actions and every other field alone.
LEMMA TerminateShape ==
  ASSUME NEW g \in Gate, NEW i \in Ids(g), NEW c \in Classification
  PROVE  /\ Terminate(g, i, c) \in Gate
         /\ Terminate(g, i, c) = [g EXCEPT !.actions = Terminate(g, i, c).actions]
         /\ Len(Terminate(g, i, c).actions) = Len(g.actions)
         /\ \A k \in Ids(g) : k # i => Terminate(g, i, c).actions[k] = g.actions[k]
         /\ Ended(g.actions[i], Terminate(g, i, c).actions[i], c)
<1> DEFINE a == [g.actions[i] EXCEPT !.status = "TERMINAL", !.class = c]
           s == [g.actions EXCEPT ![i] = a]
<1>1. g.actions \in Seq(Action) /\ Ids(g) = 1 .. Len(g.actions) /\ g.actions[i] \in Action
  BY DEF Gate, Ids
<1>2. a \in Action
  BY Zenon, <1>1 DEF Action, Status
<1>3. s \in Seq(Action) /\ Len(s) = Len(g.actions)
  BY <1>1, <1>2
<1>4. s[i] = a /\ \A k \in Ids(g) : k # i => s[k] = g.actions[k]
  BY <1>1
<1>7. Ended(g.actions[i], a, c)
  BY <1>1 DEF Ended, Action
<1>5. Terminate(g, i, c) = [g EXCEPT !.actions = s]
  BY ZenonT(60), <1>1 DEF Terminate, Gate, Action
<1>6. [g EXCEPT !.actions = s] \in Gate /\ [g EXCEPT !.actions = s].actions = s
  BY Zenon, <1>3 DEF Gate
<1> QED
  BY <1>3, <1>4, <1>5, <1>6, <1>7

\* Closing the stamped connections leaves everything else alone.
LEMMA CloseStampedShape ==
  ASSUME NEW g \in Gate, NEW i
  PROVE  /\ CloseStamped(g, i) \in Gate
         /\ CloseStamped(g, i) = [g EXCEPT !.conns = CloseStamped(g, i).conns]
         /\ \A c \in Conns :
              CloseStamped(g, i).conns[c] =
                IF /\ g.conns[c].phase = "open" /\ ~g.conns[c].consumed
                   /\ g.bound # None /\ g.conns[c].stamp = [exec |-> g.bound, id |-> i]
                  THEN [g.conns[c] EXCEPT !.phase = "closed"] ELSE g.conns[c]
<1> DEFINE Closed(c) == /\ g.conns[c].phase = "open" /\ ~g.conns[c].consumed
                        /\ g.bound # None /\ g.conns[c].stamp = [exec |-> g.bound, id |-> i]
           s == [c \in Conns |-> IF Closed(c) THEN [g.conns[c] EXCEPT !.phase = "closed"] ELSE g.conns[c]]
<1>1. \A c \in Conns : g.conns[c] \in Connection
  BY DEF Gate
<1>2. s \in [Conns -> Connection]
  BY <1>1 DEF Connection
<1>3. CloseStamped(g, i) = [g EXCEPT !.conns = s]
  BY DEF CloseStamped, Gate
<1>4. [g EXCEPT !.conns = s] \in Gate /\ [g EXCEPT !.conns = s].conns = s
  BY Zenon, <1>2 DEF Gate
<1> QED
  BY <1>3, <1>4

-----------------------------------------------------------------------------
(* Calm steps: no action moves.                                            *)

\* What the proofs read of an action, and of a journalled one, is the same.
SameAction(a, b) ==
  b.status = a.status /\ b.class = a.class /\ b.sealed = a.sealed /\ b.armed = a.armed /\ b.conn = a.conn

LoggedKept(x, y) ==
  y.status = x.status /\ y.class = x.class /\ y.sealed = x.sealed

\* A journal that shows the same actions of the same execution.
LogKept(j, k) ==
  /\ k.bound = j.bound /\ k.run = j.run /\ k.bindings = j.bindings /\ k.consistent = j.consistent
  /\ Len(k.actions) = Len(j.actions)
  /\ \A i \in DOMAIN j.actions : LoggedKept(j.actions[i], k.actions[i])

\* A step that ends no action and moves none.
Calm(g, h) ==
  /\ h \in Gate
  /\ h.bound = g.bound /\ h.run = g.run /\ h.bindings = g.bindings
  /\ h.channel # "CLOSED" => g.channel # "CLOSED" /\ h.keys = g.keys
  /\ g.state = "HELD" => h.state = "HELD"
  /\ Len(h.actions) = Len(g.actions)
  /\ \A i \in Ids(g) : SameAction(g.actions[i], h.actions[i])
  /\ LogKept(g.journal, h.journal)
  /\ \A c \in Conns : h.conns[c].phase = "open" /\ ~h.conns[c].consumed => h.conns[c] = g.conns[c]

\* The indices of a gate's actions are those of its journal's.
LEMMA SameIds ==
  ASSUME NEW g \in Gate, JournalAgrees(g)
  PROVE  Ids(g) = 1 .. Len(g.actions) /\ DOMAIN g.journal.actions = Ids(g) /\ Len(g.actions) \in Nat
  BY DEF Gate, Journal, Ids, JournalAgrees

\* A calm step is tame.
LEMMA CalmTame ==
  ASSUME NEW g, NEW h, NEW F, NEW A, GateInv(g, F, A), Calm(g, h)
  PROVE  Tame(g, h, {})
<1> USE DEF GateInv, Calm
<1>1. Ids(g) = 1 .. Len(g.actions) /\ DOMAIN g.journal.actions = Ids(g) /\ Ids(h) = Ids(g)
  BY SameIds DEF Gate, Ids
<1>2. Armed(h) = Armed(g) /\ InFlight(h) = InFlight(g)
  BY <1>1 DEF Armed, InFlight, SameAction
<1>3. JournalAgrees(h)
  BY <1>1 DEF JournalAgrees, LogKept, LoggedKept, SealAgrees, SameAction
<1>4. StampsArmed(h)
  BY <1>2 DEF StampsArmed
<1>5. AmbiguityHeld(h)
  BY <1>1 DEF AmbiguityHeld, AnyAmbiguous, SameAction
<1>6. StatusLogged(h)
  <2>1. \A i \in Ids(h) : Unclean(h.journal.actions[i]) => Unclean(h.actions[i])
    BY SMTT(60), <1>1 DEF StatusLogged, SameAction, LogKept, LoggedKept, Unclean
  <2>2. \A i \in Ids(g) : LoggedKept(g.journal.actions[i], h.journal.actions[i])
    BY <1>1 DEF LogKept
  <2>3. Armed(g) \subseteq Ids(g) /\ InFlight(g) \subseteq Ids(g)
    BY DEF Armed, InFlight
  <2> QED
    BY <1>2, <2>1, <2>2, <2>3 DEF StatusLogged, LoggedKept, Unclean
<1>7. Frozen(g, h)
  BY <1>1 DEF Frozen, SameAction
<1>8. \A i \in Ids(g) :
        /\ ActionKept(g.actions[i], h.actions[i])
        /\ Unclean(g.actions[i]) /\ Unclean(g.journal.actions[i]) =>
             Unclean(h.actions[i]) /\ Unclean(h.journal.actions[i])
  BY SMTT(60), <1>1 DEF ActionKept, SameAction, Unclean, LogKept, LoggedKept
<1> QED
  BY <1>1, <1>3, <1>4, <1>5, <1>6, <1>7, <1>8 DEF Tame

\* A journal keeps what it showed when nothing is recorded of an action.
LEMMA LogSame ==
  ASSUME NEW j, NEW k, k.bound = j.bound, k.run = j.run, k.bindings = j.bindings,
         k.consistent = j.consistent, k.actions = j.actions
  PROVE  LogKept(j, k)
  BY DEF LogKept, LoggedKept

\* Gate h is g after the durable append that leaves journal j.
Appended(g, h, j) == h = [g EXCEPT !.journal = j, !.ok = TRUE]

\* One append, done or failed.
LEMMA AttemptShape ==
  ASSUME NEW g \in Gate, NEW j \in Journal, NEW h \in Attempt(g, j)
  PROVE  /\ h \in Gate
         /\ \/ h.ok /\ Appended(g, h, j)
            \/ /\ ~h.ok /\ Calm(g, h) /\ h.state = g.state
               /\ h.conns = g.conns /\ h.actions = g.actions /\ h.channel = g.channel /\ h.drain = g.drain
               /\ h.marker = g.marker /\ h.residual = g.residual
               /\ h.journal.state = g.journal.state /\ h.journal.actions = g.journal.actions
               /\ g.journal.torn => h.journal.torn
<1>1. CASE h = [g EXCEPT !.journal = j, !.ok = TRUE]
  BY Zenon, <1>1 DEF Gate, Appended
<1>2. CASE \E torn \in {b \in BOOLEAN : g.faults < MaxFaults} :
             h = [g EXCEPT !.journal.torn = @ \/ torn, !.ok = FALSE, !.faults = @ + 1]
  <2>1. PICK torn \in BOOLEAN : g.faults < MaxFaults /\
               h = [g EXCEPT !.journal.torn = @ \/ torn, !.ok = FALSE, !.faults = @ + 1]
    BY Zenon, <1>2
  <2> DEFINE k == [g.journal EXCEPT !.torn = @ \/ torn]
  <2>2. g.journal \in Journal /\ g.faults \in 0 .. MaxFaults
    BY DEF Gate
  <2>3. k \in Journal
    BY <2>2 DEF Journal
  <2>4. h = [g EXCEPT !.journal = k, !.ok = FALSE, !.faults = g.faults + 1]
    BY <2>1 DEF Gate
  <2>5. g.faults + 1 \in 0 .. MaxFaults
    BY <2>1, <2>2, BoundAssumption
  <2>6. h \in Gate /\ ~h.ok
    BY ZenonT(60), <2>3, <2>4, <2>5 DEF Gate
  <2>7. LogKept(g.journal, h.journal)
    BY SMTT(60), <2>2, <2>4, LogSame DEF Gate, Journal
  <2>8. Calm(g, h)
    BY <2>4, <2>6, <2>7 DEF Calm, SameAction, Gate
  <2>9. h.journal.state = g.journal.state /\ h.journal.actions = g.journal.actions
        /\ (g.journal.torn => h.journal.torn)
    BY <2>2, <2>4 DEF Gate, Journal
  <2> QED
    BY <2>4, <2>6, <2>8, <2>9 DEF Gate
<1> QED
  BY Zenon, <1>1, <1>2 DEF Attempt

\* Marking leaves an action as it was, but for `after'.
LEMMA MarkedActions ==
  ASSUME NEW s \in Seq(Action)
  PROVE  /\ [i \in DOMAIN s |-> AfterInvalidation(s[i])] \in Seq(Action)
         /\ Len([i \in DOMAIN s |-> AfterInvalidation(s[i])]) = Len(s)
         /\ \A i \in DOMAIN s : SameAction(s[i], [k \in DOMAIN s |-> AfterInvalidation(s[k])][i])
<1>1. \A i \in DOMAIN s : s[i] \in Action
  OBVIOUS
<1>2. \A a \in Action : AfterInvalidation(a) \in Action /\ SameAction(a, AfterInvalidation(a))
  BY Zenon DEF AfterInvalidation, Action, SameAction
<1>3. DOMAIN s = 1 .. Len(s) /\ Len(s) \in Nat
  OBVIOUS
<1> QED
  BY <1>1, <1>2, <1>3

\* The same for the journal's actions.
LEMMA MarkedLogged ==
  ASSUME NEW s \in Seq(Logged)
  PROVE  /\ [i \in DOMAIN s |-> AfterInvalidation(s[i])] \in Seq(Logged)
         /\ Len([i \in DOMAIN s |-> AfterInvalidation(s[i])]) = Len(s)
         /\ \A i \in DOMAIN s : LoggedKept(s[i], [k \in DOMAIN s |-> AfterInvalidation(s[k])][i])
<1>1. \A i \in DOMAIN s : s[i] \in Logged
  OBVIOUS
<1>2. \A a \in Logged : AfterInvalidation(a) \in Logged /\ LoggedKept(a, AfterInvalidation(a))
  BY Zenon DEF AfterInvalidation, Logged, LoggedKept
<1>3. DOMAIN s = 1 .. Len(s) /\ Len(s) \in Nat
  OBVIOUS
<1> QED
  BY <1>1, <1>2, <1>3

\* INVALIDATED, EXPIRED and the records that carry a state keep the actions.
LEMMA StateRecords ==
  ASSUME NEW j \in Journal, NEW s \in State, NEW e
  PROVE  /\ JInvalidated(j, s) \in Journal /\ LogKept(j, JInvalidated(j, s))
         /\ JInvalidated(j, s).state = s /\ JInvalidated(j, s).torn = j.torn
         /\ JExpired(j, e) \in Journal /\ LogKept(j, JExpired(j, e))
         /\ JExpired(j, e).state = j.state /\ JExpired(j, e).torn = j.torn
         /\ JState(j, s) \in Journal /\ LogKept(j, JState(j, s))
         /\ JState(j, s).state = s /\ JState(j, s).torn = j.torn
<1> DEFINE m == [i \in DOMAIN j.actions |-> AfterInvalidation(j.actions[i])]
<1>1. j.actions \in Seq(Logged)
  BY DEF Journal
<1>2. m \in Seq(Logged) /\ Len(m) = Len(j.actions) /\ \A i \in DOMAIN j.actions : LoggedKept(j.actions[i], m[i])
  BY <1>1, MarkedLogged
<1> HIDE DEF m
<1>3. JInvalidated(j, s) = [j EXCEPT !.state = s, !.actions = m]
  BY DEF JInvalidated, m, Journal
<1>4. JExpired(j, e) = [j EXCEPT !.actions = m, !.expired = @ \/ j.bound = e]
  BY DEF JExpired, m, Journal
<1>5. /\ JInvalidated(j, s) \in Journal /\ LogKept(j, JInvalidated(j, s))
      /\ JInvalidated(j, s).state = s /\ JInvalidated(j, s).torn = j.torn
  BY Zenon, <1>2, <1>3 DEF Journal, LogKept
<1>6. /\ JExpired(j, e) \in Journal /\ LogKept(j, JExpired(j, e))
      /\ JExpired(j, e).state = j.state /\ JExpired(j, e).torn = j.torn
  BY Zenon, <1>2, <1>4 DEF Journal, LogKept
<1>7. /\ JState(j, s) \in Journal /\ LogKept(j, JState(j, s))
      /\ JState(j, s).state = s /\ JState(j, s).torn = j.torn
  BY LogSame DEF JState, Journal
<1> QED
  BY <1>5, <1>6, <1>7

\* Journal k is j with a as its action i.
Updated(j, k, i, a) ==
  /\ k \in Journal
  /\ k.bound = j.bound /\ k.run = j.run /\ k.bindings = j.bindings /\ k.consistent = j.consistent
  /\ k.state = j.state /\ k.torn = j.torn
  /\ Len(k.actions) = Len(j.actions) /\ DOMAIN k.actions = DOMAIN j.actions
  /\ k.actions[i] = a
  /\ \A m \in DOMAIN j.actions : m # i => k.actions[m] = j.actions[m]

\* A record about one action changes that one.
LEMMA UpdateShape ==
  ASSUME NEW j \in Journal, NEW i \in DOMAIN j.actions, NEW a \in Logged
  PROVE  Updated(j, JUpdate(j, i, a), i, a)
<1> DEFINE s == [j.actions EXCEPT ![i] = a]
<1>1. j.actions \in Seq(Logged) /\ DOMAIN j.actions = 1 .. Len(j.actions)
  BY DEF Journal
<1>2. s \in Seq(Logged) /\ Len(s) = Len(j.actions)
  BY <1>1
<1>3. s[i] = a /\ \A k \in DOMAIN j.actions : k # i => s[k] = j.actions[k]
  BY <1>1
<1>4. JUpdate(j, i, a) = [j EXCEPT !.actions = s]
  BY DEF JUpdate, Journal
<1> DEFINE k == [j EXCEPT !.actions = s]
<1>5. k \in Journal /\ k.actions = s
  BY <1>2 DEF Journal
<1>6. /\ k.bound = j.bound /\ k.run = j.run /\ k.bindings = j.bindings /\ k.consistent = j.consistent
      /\ k.state = j.state /\ k.torn = j.torn
  BY DEF Journal
<1>7. DOMAIN s = DOMAIN j.actions
  OBVIOUS
<1> HIDE DEF k, s
<1> QED
  BY <1>2, <1>3, <1>4, <1>5, <1>6, <1>7 DEF Updated, k

\* What every handler but Consume keeps: sealed actions, how strict the
\* generation is, and that nothing new is in flight.
Kept(g, h) ==
  /\ Frozen(g, h)
  /\ Rank(g.state) <= Rank(h.state)
  /\ InFlight(h) \subseteq InFlight(g)

\* Inside a handler an action that is not armed keeps its result.
Steady(g, h) ==
  /\ Ids(h) = Ids(g)
  /\ \A i \in Ids(g) :
       /\ h.actions[i].sealed = g.actions[i].sealed
       /\ g.actions[i].status # "ARMED" => SameAction(g.actions[i], h.actions[i])

\* Steadiness is transitive.
LEMMA SteadyTransitive ==
  ASSUME NEW g, NEW h, NEW k, Steady(g, h), Steady(h, k)
  PROVE  Steady(g, k)
  BY DEF Steady, SameAction

\* The ranks are ordered: keeping is transitive.
LEMMA KeptTransitive ==
  ASSUME NEW g \in Gate, NEW h \in Gate, NEW k \in Gate, Kept(g, h), Kept(h, k)
  PROVE  Kept(g, k)
<1>1. Frozen(g, k)
  BY DEF Kept, Frozen
<1>2. Rank(g.state) <= Rank(k.state)
  BY DEF Kept, Rank
<1> QED
  BY <1>1, <1>2 DEF Kept

\* A calm step that keeps or holds the state keeps what a handler keeps.
LEMMA CalmKept ==
  ASSUME NEW g \in Gate, NEW h \in Gate, Calm(g, h), Rank(g.state) <= Rank(h.state)
  PROVE  Kept(g, h) /\ Steady(g, h)
<1>1. Ids(h) = Ids(g)
  BY DEF Calm, Ids, Gate
<1>2. Frozen(g, h) /\ Steady(g, h)
  BY <1>1 DEF Frozen, Steady, Calm, SameAction
<1>3. InFlight(h) \subseteq InFlight(g)
  BY <1>1 DEF InFlight, Calm, SameAction
<1> QED
  BY <1>2, <1>3 DEF Kept

-----------------------------------------------------------------------------
(* The helpers, along their calls.                                         *)

\* Denying the armed action closes every connection stamped for it.
LEMMA DenyTame ==
  ASSUME NEW g, NEW F, NEW A, GateInv(g, F, A), NEW i \in Armed(g)
  PROVE  /\ Tame(g, Deny(g, i), {}) /\ Kept(g, Deny(g, i)) /\ Steady(g, Deny(g, i))
         /\ Deny(g, i).state = g.state /\ Deny(g, i).journal = g.journal
         /\ Deny(g, i).marker = g.marker /\ Deny(g, i).residual = g.residual
         /\ Deny(g, i).actions[i].status = "TERMINAL" /\ Deny(g, i).actions[i].class = "NOT_FORWARDED"
         /\ Deny(g, i).drain = g.drain /\ Deny(g, i).channel = g.channel
         /\ Armed(Deny(g, i)) = {}
<1> DEFINE k == CloseStamped(g, i)
           h == Terminate(k, i, "NOT_FORWARDED")
<1>1. g \in Gate /\ JournalAgrees(g) /\ Ids(g) = 1 .. Len(g.actions) /\ DOMAIN g.journal.actions = Ids(g)
  BY SameIds DEF GateInv
<1>2. i \in Ids(g) /\ g.actions[i].status = "ARMED" /\ ~g.actions[i].sealed
  BY <1>1 DEF Armed, JournalAgrees, SealAgrees
<1>3. /\ k \in Gate /\ k = [g EXCEPT !.conns = k.conns]
      /\ \A c \in Conns : k.conns[c] =
           IF /\ g.conns[c].phase = "open" /\ ~g.conns[c].consumed
              /\ g.bound # None /\ g.conns[c].stamp = [exec |-> g.bound, id |-> i]
             THEN [g.conns[c] EXCEPT !.phase = "closed"] ELSE g.conns[c]
  BY <1>1, CloseStampedShape
<1>4. k.actions = g.actions /\ Ids(k) = Ids(g)
  BY <1>3 DEF Gate, Ids
<1>5. /\ h \in Gate /\ h = [k EXCEPT !.actions = h.actions]
      /\ Len(h.actions) = Len(g.actions)
      /\ \A m \in Ids(g) : m # i => h.actions[m] = g.actions[m]
      /\ Ended(g.actions[i], h.actions[i], "NOT_FORWARDED")
  BY <1>2, <1>3, <1>4, TerminateShape DEF Classification
<1> HIDE DEF k, h
<1>6. /\ h.bound = g.bound /\ h.run = g.run /\ h.bindings = g.bindings /\ h.channel = g.channel
      /\ h.keys = g.keys /\ h.journal = g.journal /\ h.state = g.state /\ h.conns = k.conns
      /\ h.marker = g.marker /\ h.residual = g.residual /\ h.drain = g.drain
  BY ZenonT(60), <1>3, <1>5 DEF Gate
<1>7. Ids(h) = Ids(g)
  BY <1>1, <1>5 DEF Ids, Gate
<1>8. /\ \A m \in Ids(g) : m # i => h.actions[m] = g.actions[m]
      /\ h.actions[i].status = "TERMINAL" /\ h.actions[i].class = "NOT_FORWARDED"
      /\ h.actions[i].sealed = g.actions[i].sealed
  BY <1>5 DEF Ended
<1>9. Armed(h) = {} /\ Armed(g) = {i} /\ InFlight(h) = InFlight(g)
  BY <1>2, <1>7, <1>8 DEF Armed, InFlight, OneArmed, GateInv
<1>10. StampsArmed(h)
  <2> SUFFICES ASSUME NEW c \in Conns, h.conns[c].phase = "open", ~h.conns[c].consumed,
                      h.conns[c].stamp # None
               PROVE  FALSE
    BY DEF StampsArmed
  <2>1. g.conns[c] \in Connection
    BY <1>1 DEF Gate
  <2>2. k.conns[c] = g.conns[c]
    BY Zenon, <1>3, <1>6, <2>1 DEF Connection
  <2>3. g.conns[c].stamp \in Stamp
    BY <1>6, <2>1, <2>2 DEF Connection
  <2>4. g.conns[c].stamp.exec = g.bound /\ g.conns[c].stamp.id \in Armed(g)
    BY <1>6, <2>2 DEF GateInv, StampsArmed
  <2>5. g.bound # None
    BY <2>3, <2>4, NoneAssumption DEF Stamp
  <2>6. g.conns[c].stamp = [exec |-> g.bound, id |-> i]
    BY <1>9, <2>3, <2>4 DEF Stamp
  <2> QED
    BY Zenon, <1>3, <1>6, <2>1, <2>2, <2>5, <2>6 DEF Connection
<1>11. JournalAgrees(h)
  BY <1>1, <1>2, <1>5, <1>6, <1>7, <1>8 DEF JournalAgrees, SealAgrees
<1>12. AmbiguityHeld(h)
  BY <1>6, <1>7, <1>8 DEF AmbiguityHeld, AnyAmbiguous, GateInv
<1>13. StatusLogged(h)
  <2>1. ~Unclean(g.journal.actions[i])
    BY DEF GateInv, StatusLogged, Unclean
  <2>2. \A m \in Ids(h) : Unclean(g.journal.actions[m]) => Unclean(h.actions[m])
    BY <1>7, <1>8, <2>1 DEF StatusLogged, GateInv
  <2> QED
    BY <1>6, <1>9, <2>2 DEF StatusLogged, GateInv
<1>14. Frozen(g, h) /\ Steady(g, h)
  BY <1>2, <1>7, <1>8 DEF Frozen, Steady, SameAction
<1>15. \A m \in Ids(g) :
         /\ ActionKept(g.actions[m], h.actions[m])
         /\ Unclean(g.actions[m]) /\ Unclean(g.journal.actions[m]) =>
              Unclean(h.actions[m]) /\ Unclean(h.journal.actions[m])
  BY <1>2, <1>6, <1>8 DEF ActionKept, Unclean
<1>16. Tame(g, h, {})
  BY <1>5, <1>6, <1>10, <1>11, <1>12, <1>13, <1>14, <1>15 DEF Tame
<1>17. Kept(g, h)
  BY <1>1, <1>6, <1>9, <1>14 DEF Kept, Rank
<1> QED
  BY <1>2, <1>6, <1>8, <1>9, <1>14, <1>16, <1>17 DEF Deny, h, k

\* What the storage-failure path leaves, whatever of it fails again.
Failed(g, h, F, A) ==
  /\ GateInv(h, F, A) /\ Kept(g, h) /\ Steady(g, h)
  /\ h.state = "HELD" /\ HoldKept(h, FALSE)
  /\ h.bound = g.bound

\* The DENIED record changes one action that the journal showed as armed.
LEMMA DeniedLogged ==
  ASSUME NEW g, NEW F, NEW A, GateInv(g, F, A), NEW i \in Ids(g), NEW h,
         g.actions[i].status = "TERMINAL", g.actions[i].class = "NOT_FORWARDED",
         g.journal.actions[i].status = "ARMED",
         Appended(g, h, JDenied(g.journal, i))
  PROVE  /\ Tame(g, h, {}) /\ Kept(g, h) /\ Steady(g, h) /\ h.state = g.state /\ h.conns = g.conns
         /\ \A w : HoldKept(g, w) => HoldKept(h, w)
         /\ JDenied(g.journal, i) \in Journal
<1> DEFINE k == JDenied(g.journal, i)
           x == [g.journal.actions[i] EXCEPT !.status = "TERMINAL", !.class = "NOT_FORWARDED"]
<1>1. g \in Gate /\ JournalAgrees(g) /\ Ids(g) = 1 .. Len(g.actions) /\ DOMAIN g.journal.actions = Ids(g)
  BY SameIds DEF GateInv
<1>2. g.journal \in Journal /\ g.journal.actions[i] \in Logged
  BY <1>1 DEF Gate, Journal
<1>3. x \in Logged /\ x.sealed = g.journal.actions[i].sealed /\ x.status = "TERMINAL"
  BY Zenon, <1>2 DEF Logged, Status, Classification
<1>18. k = JUpdate(g.journal, i, x)
  BY DEF JDenied
<1> HIDE DEF k, x
<1>4. Updated(g.journal, k, i, x)
  BY <1>1, <1>2, <1>3, <1>18, UpdateShape
<1>5. h = [g EXCEPT !.journal = k, !.ok = TRUE]
  BY DEF k, Appended
<1>6. h \in Gate
  BY Zenon, <1>1, <1>4, <1>5 DEF Gate, Updated
<1>7. /\ h.journal = k /\ h.state = g.state /\ h.actions = g.actions /\ h.conns = g.conns /\ h.marker = g.marker
      /\ h.residual = g.residual /\ h.bound = g.bound /\ h.run = g.run /\ h.bindings = g.bindings
      /\ h.channel = g.channel /\ h.keys = g.keys
  BY <1>1, <1>5 DEF Gate
<1>8. /\ k.bound = g.journal.bound /\ k.run = g.journal.run /\ k.bindings = g.journal.bindings
      /\ k.consistent = g.journal.consistent /\ k.state = g.journal.state /\ k.torn = g.journal.torn
      /\ DOMAIN k.actions = Ids(g)
  BY <1>1, <1>4 DEF Updated
<1>9. Ids(h) = Ids(g) /\ Armed(h) = Armed(g) /\ InFlight(h) = InFlight(g) /\ i \notin Armed(g) \cup InFlight(g)
  BY <1>7 DEF Ids, Armed, InFlight
<1>10. ~g.actions[i].sealed /\ ~Unclean(g.actions[i]) /\ ~Unclean(g.journal.actions[i])
  BY <1>1 DEF JournalAgrees, SealAgrees, Unclean
<1>11. JournalAgrees(h)
  <2>1. SealAgrees(g.actions[i], x)
    BY <1>1, <1>3, <1>10 DEF JournalAgrees, SealAgrees
  <2>2. \A m \in Ids(g) : SealAgrees(g.actions[m], k.actions[m])
    BY <1>1, <1>4, <2>1 DEF JournalAgrees, Updated
  <2> QED
    BY Zenon, <1>1, <1>4, <1>7, <1>8, <1>9, <2>2 DEF JournalAgrees, Updated
<1>12. StampsArmed(h) /\ AmbiguityHeld(h)
  BY <1>7, <1>9 DEF StampsArmed, AmbiguityHeld, AnyAmbiguous, GateInv
<1>13. StatusLogged(h)
  <2>1. ~Unclean(x)
    BY <1>2 DEF Unclean, Logged, x
  <2>2. \A m \in Ids(h) : Unclean(k.actions[m]) => Unclean(h.actions[m])
    BY <1>1, <1>4, <1>7, <1>9, <2>1 DEF StatusLogged, GateInv, Updated
  <2> QED
    BY <1>1, <1>4, <1>7, <1>9, <2>2 DEF StatusLogged, GateInv, Armed, InFlight, Updated
<1>14. Frozen(g, h) /\ Steady(g, h) /\ Kept(g, h)
  BY <1>1, <1>7, <1>9 DEF Frozen, Steady, SameAction, Kept, Rank
<1>15. \A m \in Ids(g) :
         /\ ActionKept(g.actions[m], h.actions[m])
         /\ Unclean(g.actions[m]) /\ Unclean(g.journal.actions[m]) =>
              Unclean(h.actions[m]) /\ Unclean(h.journal.actions[m])
  BY <1>1, <1>4, <1>7, <1>10 DEF ActionKept, Updated
<1>16. Tame(g, h, {})
  BY <1>6, <1>7, <1>11, <1>12, <1>13, <1>14, <1>15 DEF Tame
<1>17. \A w : HoldKept(g, w) => HoldKept(h, w)
  BY <1>1, <1>4, <1>7, <1>8, <1>10, <1>14 DEF HoldKept, Kept, Updated
<1> QED
  BY <1>4, <1>7, <1>14, <1>16, <1>17 DEF k, Updated

\* A failed append keeps a hold.
LEMMA FailedAppendHold ==
  ASSUME NEW g \in Gate, NEW h \in Gate, NEW w, HoldKept(g, w), Kept(g, h), h.state = g.state,
         h.marker = g.marker, h.residual = g.residual, g.journal.torn => h.journal.torn,
         h.journal.state = g.journal.state, h.journal.actions = g.journal.actions
  PROVE  HoldKept(h, w)
  BY DEF HoldKept, Kept

\* deny_armed in the storage-failure path: the DENIED record may be dropped.
LEMMA DenyFailingKeeps ==
  ASSUME NEW g, NEW F, NEW A, GateInv(g, F, A), HoldKept(g, FALSE), g.state = "HELD",
         NEW h \in DenyFailing(g)
  PROVE  Failed(g, h, F, A)
<1>1. g \in Gate /\ JournalAgrees(g) /\ Ids(g) = 1 .. Len(g.actions) /\ DOMAIN g.journal.actions = Ids(g)
  BY SameIds DEF GateInv
<1>2. CASE Armed(g) = {}
  <2>1. h = g
    BY <1>2 DEF DenyFailing
  <2>2. Kept(g, g) /\ Steady(g, g)
    BY <1>1 DEF Kept, Steady, Frozen, SameAction, Rank
  <2> QED
    BY Zenon, <2>1, <2>2 DEF Failed
<1>3. CASE Armed(g) # {}
  <2> DEFINE i == ArmedId(g)
             d == Deny(g, i)
  <2>1. i \in Armed(g) /\ i \in Ids(g)
    BY <1>3 DEF ArmedId, Armed
  <2>2. h \in Attempt(d, JDenied(g.journal, i))
    BY <1>3 DEF DenyFailing
  <2> HIDE DEF i
  <2>3. /\ Tame(g, d, {}) /\ Kept(g, d) /\ Steady(g, d)
        /\ d.state = g.state /\ d.journal = g.journal /\ d.marker = g.marker /\ d.residual = g.residual
        /\ d.actions[i].status = "TERMINAL" /\ d.actions[i].class = "NOT_FORWARDED"
    BY <2>1, DenyTame
  <2>4. GateInv(d, F, A) /\ d.bound = g.bound
    BY <2>3, TameKeepsAll DEF Tame
  <2> HIDE DEF d
  <2>5. d \in Gate /\ Ids(d) = Ids(g)
    BY <1>1, <2>3, <2>4, SameIds DEF GateInv, Tame
  <2>6. d.journal.actions[i].status = "ARMED" /\ HoldKept(d, FALSE) /\ i \in Ids(d)
    BY <2>1, <2>3, <2>5 DEF GateInv, StatusLogged, HoldKept, Kept
  <2>7. JDenied(d.journal, i) \in Journal
    <3>1. PICK m : Appended(d, m, JDenied(d.journal, i))
      BY DEF Appended
    <3> QED
      BY <2>3, <2>4, <2>6, <3>1, DeniedLogged
  <2>9. h \in Attempt(d, JDenied(d.journal, i))
    BY <2>2, <2>3
  <2>8. Failed(d, h, F, A)
    <3>1. CASE h.ok /\ Appended(d, h, JDenied(d.journal, i))
      <4>1. /\ Tame(d, h, {}) /\ Kept(d, h) /\ Steady(d, h) /\ h.state = d.state
            /\ HoldKept(h, FALSE)
        BY Zenon, <2>3, <2>4, <2>6, <3>1, DeniedLogged
      <4>2. GateInv(h, F, A) /\ h.bound = d.bound
        BY <2>4, <4>1, TameKeepsAll DEF Tame
      <4> QED
        BY Zenon, <2>3, <4>1, <4>2 DEF Failed
    <3>2. CASE ~h.ok
      <4>1. /\ Calm(d, h) /\ h.state = d.state /\ h.marker = d.marker /\ h.residual = d.residual
            /\ h.journal.state = d.journal.state /\ h.journal.actions = d.journal.actions
            /\ d.journal.torn => h.journal.torn
        BY <2>5, <2>7, <2>9, <3>2, AttemptShape
      <4>2. GateInv(h, F, A) /\ h.bound = d.bound
        BY <2>4, <4>1, CalmTame, TameKeepsAll DEF Calm
      <4>3. h \in Gate /\ Kept(d, h) /\ Steady(d, h)
        BY <2>5, <4>1, CalmKept DEF Calm, Rank
      <4>4. HoldKept(h, FALSE)
        BY Zenon, <2>5, <2>6, <4>1, <4>3, FailedAppendHold
      <4> QED
        BY Zenon, <2>3, <4>1, <4>2, <4>3, <4>4 DEF Failed
    <3> QED
      BY <2>5, <2>7, <2>9, <3>1, <3>2, AttemptShape
  <2> QED
    BY Zenon, <1>1, <2>3, <2>4, <2>5, <2>8, KeptTransitive, SteadyTransitive DEF Failed, GateInv
<1> QED
  BY <1>2, <1>3

\* Marking what is in flight, in a generation that is held or not.
LEMMA MarkCalm ==
  ASSUME NEW g \in Gate, NEW s \in State, g.state = "HELD" => s = "HELD"
  PROVE  LET h == MarkInFlight([g EXCEPT !.state = s]) IN
         /\ Calm(g, h) /\ h.state = s /\ h.journal = g.journal /\ h.marker = g.marker
         /\ h.residual = g.residual /\ h.drain = g.drain /\ h.channel = g.channel
<1> DEFINE m == [i \in DOMAIN g.actions |-> AfterInvalidation(g.actions[i])]
           h == MarkInFlight([g EXCEPT !.state = s])
<1>1. g.actions \in Seq(Action)
  BY DEF Gate
<1>2. m \in Seq(Action) /\ Len(m) = Len(g.actions) /\ \A i \in DOMAIN g.actions : SameAction(g.actions[i], m[i])
  BY <1>1, MarkedActions
<1>3. h = [g EXCEPT !.state = s, !.actions = m]
  BY DEF MarkInFlight, Gate
<1> HIDE DEF m, h
<1>4. h \in Gate
  BY Zenon, <1>2, <1>3 DEF Gate
<1>5. /\ h.actions = m /\ h.bound = g.bound /\ h.run = g.run /\ h.bindings = g.bindings
      /\ h.channel = g.channel /\ h.keys = g.keys /\ h.journal = g.journal /\ h.conns = g.conns
      /\ h.state = s /\ h.marker = g.marker /\ h.residual = g.residual /\ h.drain = g.drain
  BY <1>3 DEF Gate
<1>6. Calm(g, h)
  BY <1>2, <1>4, <1>5, LogSame DEF Calm, Ids
<1> QED
  BY <1>5, <1>6 DEF h

\* The marker is there or one more write has failed.
LEMMA MarkerCalm ==
  ASSUME NEW g \in Gate, NEW h \in WriteMarker(g)
  PROVE  /\ Calm(g, h) /\ h.state = g.state /\ h.journal = g.journal
         /\ g.marker => h.marker
<1>1. CASE h = [g EXCEPT !.marker = TRUE]
  <2>1. h \in Gate
    BY Zenon, <1>1 DEF Gate
  <2> QED
    BY <1>1, <2>1, LogSame DEF Calm, Gate, SameAction
<1>2. CASE h = [g EXCEPT !.faults = @ + 1] /\ ~g.marker /\ g.faults < MaxFaults
  <2>1. g.faults + 1 \in 0 .. MaxFaults
    BY <1>2, BoundAssumption DEF Gate
  <2>2. h \in Gate
    BY <1>2, <2>1 DEF Gate
  <2> QED
    BY <1>2, <2>2, LogSame DEF Calm, Gate, SameAction
<1> QED
  BY Zenon, <1>1, <1>2 DEF WriteMarker

\* A durable record that keeps the actions.
LEMMA AppendedCalm ==
  ASSUME NEW g \in Gate, NEW j \in Journal, LogKept(g.journal, j), NEW h, Appended(g, h, j)
  PROVE  /\ Calm(g, h) /\ h.journal = j /\ h.state = g.state /\ h.marker = g.marker
         /\ h.residual = g.residual /\ h.drain = g.drain /\ h.channel = g.channel /\ h.ok
<1>1. h \in Gate
  BY Zenon DEF Gate, Appended
<1> QED
  BY <1>1 DEF Calm, Gate, SameAction, Appended

\* Calm steps compose.
LEMMA CalmTransitive ==
  ASSUME NEW g \in Gate, NEW h, NEW k, Calm(g, h), Calm(h, k)
  PROVE  Calm(g, k)
<1>1. Ids(h) = Ids(g) /\ DOMAIN h.journal.actions = DOMAIN g.journal.actions
  BY DEF Calm, LogKept, Ids, Gate, Journal
<1> QED
  BY <1>1 DEF Calm, SameAction, LogKept, LoggedKept

\* on_storage_failure: the generation is held, and by something durable
\* unless both the marker and the record could not be written.
LEMMA StorageFailureKeeps ==
  ASSUME NEW g, NEW F, NEW A, GateInv(g, F, A), NEW h \in StorageFailure(g)
  PROVE  Failed(g, h, F, A)
<1> DEFINE held == MarkInFlight([g EXCEPT !.state = "HELD"])
           Holding(v) == [v EXCEPT !.residual = @ \/ (~v.marker /\ ~v.ok)]
<1>1. g \in Gate /\ "HELD" \in State
  BY DEF GateInv, State
<1>2. Calm(g, held) /\ held.state = "HELD" /\ held \in Gate
  BY <1>1, MarkCalm DEF Calm
<1>16. PICK m \in WriteMarker(held) :
         \E v \in Attempt(m, JInvalidated(m.journal, "HELD")) : h \in DenyFailing(Holding(v))
  BY Zenon DEF StorageFailure
<1>3. PICK v \in Attempt(m, JInvalidated(m.journal, "HELD")) : h \in DenyFailing(Holding(v))
  BY Zenon, <1>16
<1> HIDE DEF held
<1>4. Calm(held, m) /\ m.state = "HELD" /\ m \in Gate
  BY <1>2, MarkerCalm DEF Calm
<1>5. /\ JInvalidated(m.journal, "HELD") \in Journal /\ LogKept(m.journal, JInvalidated(m.journal, "HELD"))
      /\ JInvalidated(m.journal, "HELD").state = "HELD"
  BY <1>1, <1>4, StateRecords DEF Gate
<1>6. Calm(m, v) /\ v.state = "HELD" /\ v \in Gate /\ (v.ok => v.journal.state = "HELD")
  <2>1. CASE v.ok /\ Appended(m, v, JInvalidated(m.journal, "HELD"))
    BY <1>4, <1>5, <2>1, AppendedCalm DEF Calm
  <2>2. CASE ~v.ok
    BY <1>4, <1>5, <2>2, AttemptShape
  <2> QED
    BY <1>3, <1>4, <1>5, <2>1, <2>2, AttemptShape
<1> DEFINE u == Holding(v)
<1>7. /\ Calm(v, u) /\ u.state = "HELD" /\ u \in Gate /\ u.journal = v.journal /\ u.marker = v.marker
      /\ u.residual = (v.residual \/ (~v.marker /\ ~v.ok))
  <2>1. u \in Gate
    BY Zenon, <1>6 DEF Gate
  <2> QED
    BY <1>6, <2>1, LogSame DEF Calm, Gate, SameAction
<1>8. h \in DenyFailing(u)
  BY <1>3
<1> HIDE DEF u
<1>9. Calm(g, u)
  BY <1>1, <1>2, <1>4, <1>6, <1>7, CalmTransitive
<1>10. GateInv(u, F, A) /\ Kept(g, u) /\ Steady(g, u) /\ u.bound = g.bound
  <2>1. Rank(g.state) <= Rank(u.state)
    BY <1>7 DEF Rank
  <2> QED
    BY <1>1, <1>7, <1>9, <2>1, CalmTame, CalmKept, TameKeepsAll DEF Calm
<1>11. HoldKept(u, FALSE)
  BY Zenon, <1>6, <1>7 DEF HoldKept
<1>12. Failed(u, h, F, A)
  BY Zenon, <1>7, <1>8, <1>10, <1>11, DenyFailingKeeps
<1>13. h \in Gate
  BY <1>12 DEF Failed, GateInv
<1>14. Kept(g, h)
  BY <1>1, <1>7, <1>10, <1>12, <1>13, KeptTransitive DEF Failed
<1>15. Steady(g, h)
  BY <1>10, <1>12, SteadyTransitive DEF Failed
<1> QED
  BY Zenon, <1>10, <1>12, <1>14, <1>15 DEF Failed

\* The append result is local to a handler.
LEMMA QuietCalm ==
  ASSUME NEW g \in Gate, NEW b \in BOOLEAN
  PROVE  LET h == [g EXCEPT !.ok = b] IN
         /\ Calm(g, h) /\ h.ok = b /\ h.state = g.state /\ h.journal = g.journal /\ h.marker = g.marker
         /\ h.residual = g.residual /\ h.drain = g.drain /\ h.channel = g.channel
<1>1. [g EXCEPT !.ok = b] \in Gate
  BY DEF Gate
<1> QED
  BY Zenon, <1>1, LogSame DEF Calm, Gate, SameAction

\* `record': the journal has the record, or the generation is held.
LEMMA RecordShape ==
  ASSUME NEW g, NEW F, NEW A, GateInv(g, F, A), NEW j \in Journal, NEW h \in Record(g, j)
  PROVE  \/ h.ok /\ Appended(g, h, j)
         \/ ~h.ok /\ Failed(g, h, F, A)
<1>1. g \in Gate
  BY DEF GateInv
<1>2. CASE h \in Attempt(g, j) /\ h.ok
  BY <1>1, <1>2, AttemptShape
<1>3. CASE \E t \in Attempt(g, j) : ~t.ok /\ \E k \in StorageFailure(t) : h = [k EXCEPT !.ok = FALSE]
  <2>10. PICK t \in Attempt(g, j) : ~t.ok /\ \E k \in StorageFailure(t) : h = [k EXCEPT !.ok = FALSE]
    BY Zenon, <1>3
  <2>1. PICK k \in StorageFailure(t) : h = [k EXCEPT !.ok = FALSE]
    BY Zenon, <2>10
  <2>2. Calm(g, t) /\ t.state = g.state /\ t \in Gate
    BY <1>1, <2>10, AttemptShape
  <2>3. GateInv(t, F, A) /\ Kept(g, t) /\ Steady(g, t) /\ t.bound = g.bound
    <3>1. Rank(g.state) <= Rank(t.state)
      BY <2>2 DEF Rank
    <3> QED
      BY <1>1, <2>2, <3>1, CalmTame, CalmKept, TameKeepsAll DEF Calm
  <2>11. Failed(t, k, F, A)
    BY <2>1, <2>3, StorageFailureKeeps
  <2>4. Failed(t, k, F, A) /\ k \in Gate
    BY Zenon, <2>11 DEF Failed, GateInv
  <2>5. /\ Calm(k, h) /\ h.ok = FALSE /\ h.state = k.state /\ h.journal = k.journal /\ h.marker = k.marker
        /\ h.residual = k.residual /\ h \in Gate
    BY Zenon, <2>1, <2>4, QuietCalm DEF Calm
  <2>6. GateInv(h, F, A) /\ Kept(k, h) /\ Steady(k, h) /\ h.bound = k.bound
    <3>1. Rank(k.state) <= Rank(h.state)
      BY <2>5 DEF Rank
    <3> QED
      BY <2>4, <2>5, <3>1, CalmTame, CalmKept, TameKeepsAll DEF Calm, Failed
  <2>7. HoldKept(h, FALSE) /\ h.state = "HELD"
    BY <2>4, <2>5, <2>6 DEF Failed, HoldKept, Kept
  <2>8. Kept(g, h)
    BY <1>1, <2>2, <2>3, <2>4, <2>5, <2>6, KeptTransitive DEF Failed
  <2>9. Steady(g, h)
    BY <2>3, <2>4, <2>6, SteadyTransitive DEF Failed
  <2> QED
    BY Zenon, <2>3, <2>4, <2>5, <2>6, <2>7, <2>8, <2>9 DEF Failed
<1> QED
  BY <1>2, <1>3 DEF Record

\* What a handler that sends nothing leaves.
Good(g, h, F, A, w) ==
  GateInv(h, F, A) /\ HoldKept(h, w) /\ Kept(g, h) /\ h.bound = g.bound

\* Such handlers compose.
LEMMA GoodTransitive ==
  ASSUME NEW g, NEW h, NEW k, NEW F, NEW A, NEW B, NEW w,
         GateInv(g, F, B), GateInv(h, F, A), Kept(g, h), h.bound = g.bound, Good(h, k, F, A, w)
  PROVE  Good(g, k, F, A, w)
<1>1. g \in Gate /\ h \in Gate /\ k \in Gate
  BY DEF Good, GateInv
<1>2. Kept(g, k)
  BY <1>1, KeptTransitive DEF Good
<1> QED
  BY <1>2 DEF Good

\* A failed record left the generation held.
LEMMA FailedGood ==
  ASSUME NEW g, NEW h, NEW F, NEW A, NEW w, Failed(g, h, F, A)
  PROVE  Good(g, h, F, A, w) /\ h.state = "HELD"
  BY DEF Failed, Good, HoldKept

\* A calm step keeps the invariant.
LEMMA CalmGood ==
  ASSUME NEW g, NEW h, NEW F, NEW A, GateInv(g, F, A), Calm(g, h), Rank(g.state) <= Rank(h.state)
  PROVE  GateInv(h, F, A) /\ Kept(g, h) /\ Steady(g, h) /\ h.bound = g.bound /\ h \in Gate
<1>1. g \in Gate /\ h \in Gate /\ h.bound = g.bound
  BY DEF GateInv, Calm
<1>2. Kept(g, h) /\ Steady(g, h)
  BY <1>1, CalmKept
<1>3. GateInv(h, F, A)
  BY CalmTame, TameKeepsAll
<1> QED
  BY <1>1, <1>2, <1>3

\* A record that keeps the actions: it tells the gate's state, or leaves the
\* state that was told.
LEMMA RecordKeeps ==
  ASSUME NEW g, NEW F, NEW A, NEW w, GateInv(g, F, A), NEW j \in Journal, LogKept(g.journal, j),
         j.torn = g.journal.torn,
         j.state = g.state \/ (HoldKept(g, w) /\ j.state = g.journal.state),
         NEW h \in Record(g, j)
  PROVE  Good(g, h, F, A, w) /\ (h.state = g.state \/ h.state = "HELD")
<1>1. CASE h.ok /\ Appended(g, h, j)
  <2>1. g \in Gate
    BY DEF GateInv
  <2>2. /\ Calm(g, h) /\ h.journal = j /\ h.state = g.state /\ h.marker = g.marker
        /\ h.residual = g.residual
    BY <1>1, <2>1, AppendedCalm
  <2>3. Rank(g.state) <= Rank(h.state)
    BY <2>2 DEF Rank
  <2>4. GateInv(h, F, A) /\ Kept(g, h) /\ h.bound = g.bound
    BY <2>2, <2>3, CalmGood
  <2>5. CASE j.state = g.state
    BY <2>2, <2>4, <2>5 DEF Good, HoldKept
  <2>6. CASE HoldKept(g, w) /\ j.state = g.journal.state
    <3>1. DOMAIN j.actions = DOMAIN g.journal.actions
      BY <2>1 DEF LogKept, Gate, Journal
    <3>2. \A i \in DOMAIN g.journal.actions : Unclean(g.journal.actions[i]) => Unclean(j.actions[i])
      BY DEF LogKept, LoggedKept, Unclean
    <3>3. HoldKept(h, w)
      BY <2>2, <2>4, <2>6, <3>1, <3>2 DEF HoldKept, Kept
    <3> QED
      BY <2>2, <2>4, <3>3 DEF Good
  <2> QED
    BY <2>5, <2>6
<1>2. CASE ~h.ok /\ Failed(g, h, F, A)
  BY <1>2, FailedGood
<1> QED
  BY <1>1, <1>2, RecordShape

\* deny_armed.
LEMMA DenyArmedKeeps ==
  ASSUME NEW g, NEW F, NEW A, NEW w, GateInv(g, F, A), HoldKept(g, w), NEW h \in DenyArmed(g)
  PROVE  Good(g, h, F, A, w) /\ (h.state = g.state \/ h.state = "HELD")
<1>1. g \in Gate /\ JournalAgrees(g) /\ Ids(g) = 1 .. Len(g.actions) /\ DOMAIN g.journal.actions = Ids(g)
  BY SameIds DEF GateInv
<1>2. CASE Armed(g) = {}
  <2>1. h = g
    BY <1>2 DEF DenyArmed
  <2>2. Kept(g, g)
    BY <1>1 DEF Kept, Frozen, Rank
  <2> QED
    BY <2>1, <2>2 DEF Good
<1>3. CASE Armed(g) # {}
  <2> DEFINE i == ArmedId(g)
             d == Deny(g, i)
  <2>1. i \in Armed(g) /\ i \in Ids(g)
    BY <1>3 DEF ArmedId, Armed
  <2>2. h \in Record(d, JDenied(g.journal, i))
    BY <1>3 DEF DenyArmed
  <2> HIDE DEF i
  <2>3. /\ Tame(g, d, {}) /\ Kept(g, d)
        /\ d.state = g.state /\ d.journal = g.journal /\ d.marker = g.marker /\ d.residual = g.residual
        /\ d.actions[i].status = "TERMINAL" /\ d.actions[i].class = "NOT_FORWARDED"
    BY <2>1, DenyTame
  <2>4. GateInv(d, F, A) /\ d.bound = g.bound
    BY <2>3, TameKeepsAll DEF Tame
  <2> HIDE DEF d
  <2>5. d \in Gate /\ Ids(d) = Ids(g)
    BY <1>1, <2>3, <2>4, SameIds DEF GateInv, Tame
  <2>6. d.journal.actions[i].status = "ARMED" /\ HoldKept(d, w) /\ i \in Ids(d)
    BY <2>1, <2>3, <2>5 DEF GateInv, StatusLogged, HoldKept, Kept
  <2>7. JDenied(d.journal, i) \in Journal
    <3>1. PICK m : Appended(d, m, JDenied(d.journal, i))
      BY DEF Appended
    <3> QED
      BY <2>3, <2>4, <2>6, <3>1, DeniedLogged
  <2>8. h \in Record(d, JDenied(d.journal, i))
    BY <2>2, <2>3
  <2>9. Good(d, h, F, A, w) /\ (h.state = d.state \/ h.state = "HELD")
    <3>1. CASE h.ok /\ Appended(d, h, JDenied(d.journal, i))
      <4>1. Tame(d, h, {}) /\ Kept(d, h) /\ HoldKept(h, w) /\ h.state = d.state
        BY <2>3, <2>4, <2>6, <3>1, DeniedLogged
      <4>2. GateInv(h, F, A) /\ h.bound = d.bound
        BY <2>4, <4>1, TameKeepsAll DEF Tame
      <4> QED
        BY <4>1, <4>2 DEF Good
    <3>2. CASE ~h.ok /\ Failed(d, h, F, A)
      BY <3>2, FailedGood
    <3> QED
      BY <2>4, <2>7, <2>8, <3>1, <3>2, RecordShape
  <2> QED
    BY <2>3, <2>4, <2>9, GoodTransitive
<1> QED
  BY <1>2, <1>3

\* The urgent ways into INVALIDATED and HELD, for every reason there is.
LEMMA UrgentKeeps ==
  ASSUME NEW g, NEW F, NEW A, NEW s \in {"HELD", "INVALIDATED"}, GateInv(g, F, A), NEW h \in Urgent(g, s)
  PROVE  Good(g, h, F, A, FALSE) /\ (s = "HELD" => h.state = "HELD")
<1> DEFINE t == IF g.state = "HELD" THEN g.state ELSE s
           m == MarkInFlight([g EXCEPT !.state = t])
<1>1. g \in Gate /\ t \in State
  BY DEF GateInv, Gate, State
<1>2. [g EXCEPT !.state = IF @ = "HELD" THEN @ ELSE s] = [g EXCEPT !.state = t]
  BY <1>1 DEF Gate
<1>3. PICK k \in Record(m, JInvalidated(m.journal, m.state)) : h \in DenyArmed(k)
  BY <1>2 DEF Urgent
<1>4. Calm(g, m) /\ m.state = t
  BY <1>1, MarkCalm
<1>5. Rank(g.state) <= Rank(t)
  BY <1>1 DEF Rank, Gate, State
<1>6. GateInv(m, F, A) /\ Kept(g, m) /\ m.bound = g.bound /\ m \in Gate
  BY <1>4, <1>5, CalmGood
<1> HIDE DEF m, t
<1>7. /\ JInvalidated(m.journal, m.state) \in Journal /\ LogKept(m.journal, JInvalidated(m.journal, m.state))
      /\ JInvalidated(m.journal, m.state).state = m.state
      /\ JInvalidated(m.journal, m.state).torn = m.journal.torn
  BY <1>6, StateRecords DEF Gate
<1>8. Good(m, k, F, A, FALSE) /\ (k.state = m.state \/ k.state = "HELD")
  BY Zenon, <1>6, <1>7, RecordKeeps
<1>9. GateInv(k, F, A) /\ HoldKept(k, FALSE)
  BY Zenon, <1>8 DEF Good
<1>10. Good(k, h, F, A, FALSE) /\ (h.state = k.state \/ h.state = "HELD")
  BY Zenon, <1>3, <1>9, DenyArmedKeeps
<1>11. Good(m, h, F, A, FALSE)
  BY Zenon, <1>6, <1>8, <1>9, <1>10, GoodTransitive DEF Good
<1> QED
  BY Zenon, <1>4, <1>6, <1>8, <1>10, <1>11, GoodTransitive DEF t

\* Only the state, the drain and the channel changed.
Moved(g, h, s, d, c) == h = [g EXCEPT !.state = s, !.drain = d, !.channel = c]

\* Setting the state, the drain or the channel touches no action.
LEMMA FieldsCalm ==
  ASSUME NEW g \in Gate, NEW s \in State, NEW d \in BOOLEAN, NEW c \in Channel, NEW h, Moved(g, h, s, d, c),
         g.state = "HELD" => s = "HELD", c # "CLOSED" => g.channel # "CLOSED"
  PROVE  /\ h \in Gate /\ Calm(g, h)
         /\ h.state = s /\ h.drain = d /\ h.channel = c /\ h.journal = g.journal
         /\ h.marker = g.marker /\ h.residual = g.residual /\ h.actions = g.actions
<1>1. h \in Gate
  BY Zenon DEF Gate, Moved
<1> QED
  BY <1>1, LogSame DEF Calm, Gate, SameAction, Moved

\* The fatal paths of the channel.
LEMMA FatalKeeps ==
  ASSUME NEW g, NEW F, NEW A, NEW w, GateInv(g, F, A), NEW h \in Fatal(g)
  PROVE  Good(g, h, F, A, w)
<1> DEFINE m == [g EXCEPT !.channel = "CLOSED"]
<1>1. g \in Gate
  BY DEF GateInv
<1>2. Moved(g, m, g.state, g.drain, "CLOSED")
  BY Zenon, <1>1 DEF Gate, Moved
<1>9. g.state \in State /\ g.drain \in BOOLEAN /\ "CLOSED" \in Channel /\ Rank(g.state) <= Rank(g.state)
  BY <1>1 DEF Channel, Gate, Rank
<1>3. Calm(g, m) /\ m.state = g.state
  BY <1>1, <1>2, <1>9, FieldsCalm
<1>4. GateInv(m, F, A) /\ Kept(g, m) /\ m.bound = g.bound
  BY Zenon, <1>3, <1>9, CalmGood
<1>5. PICK k \in Urgent(m, "HELD") : h = [k EXCEPT !.state = "HELD"]
  BY DEF Fatal
<1> HIDE DEF m
<1>6. Good(m, k, F, A, FALSE) /\ k.state = "HELD"
  BY Zenon, <1>4, <1>5, UrgentKeeps
<1>7. h = k
  BY <1>5, <1>6 DEF Good, GateInv, Gate
<1>8. Good(m, h, F, A, w)
  BY <1>6, <1>7 DEF Good, HoldKept
<1> QED
  BY <1>4, <1>8, GoodTransitive

\* settle_drain.
LEMMA SettleDrainKeeps ==
  ASSUME NEW g, NEW F, NEW A, NEW w, GateInv(g, F, A), HoldKept(g, w), NEW h \in SettleDrain(g)
  PROVE  Good(g, h, F, A, w)
<1> DEFINE s == IF g.state = "DRAINING" /\ InFlight(g) = {} THEN "CLOSED" ELSE g.state
           k == [g EXCEPT !.state = s]
           n == [k EXCEPT !.drain = FALSE]
<1>1. g \in Gate
  BY DEF GateInv
<1>2. (IF g.state = "DRAINING" /\ InFlight(g) = {}
         THEN [g EXCEPT !.state = IF AnyAmbiguous(g) THEN "HELD" ELSE "CLOSED"] ELSE g) = k
  BY <1>1 DEF GateInv, AmbiguityHeld, Gate
<1>3. s \in State /\ (g.state = "HELD" => s = "HELD") /\ (s = "HELD" => g.state = "HELD")
      /\ Rank(g.state) <= Rank(s)
  BY <1>1 DEF State, Gate, Rank
<1>4. Moved(g, k, s, g.drain, g.channel) /\ Moved(g, n, s, n.drain, g.channel)
  BY Zenon, <1>1 DEF Gate, Moved
<1>5. Good(g, g, F, A, w)
  BY <1>1 DEF Good, Kept, Frozen, Rank
<1>11. g.drain \in BOOLEAN /\ n.drain \in BOOLEAN /\ g.channel \in Channel
  BY <1>1 DEF Gate
<1>8. h = g \/ h = k \/ h \in Record(n, JState(k.journal, k.state))
  BY Zenon, <1>2 DEF SettleDrain
<1> HIDE DEF s, k, n
<1>6. /\ Calm(g, k) /\ k.state = s /\ k.journal = g.journal /\ k.marker = g.marker
      /\ k.residual = g.residual
  BY <1>1, <1>3, <1>4, <1>11, FieldsCalm
<1>7. /\ Calm(g, n) /\ n.state = s /\ n.journal = g.journal /\ n.marker = g.marker
      /\ n.residual = g.residual
  BY <1>1, <1>3, <1>4, <1>11, FieldsCalm
<1>9. CASE h = k
  <2>1. GateInv(k, F, A) /\ Kept(g, k) /\ k.bound = g.bound
    BY <1>3, <1>6, CalmGood
  <2>2. HoldKept(k, w)
    BY <1>3, <1>6, <2>1 DEF HoldKept, Kept
  <2> QED
    BY <1>9, <2>1, <2>2 DEF Good
<1>10. CASE h \in Record(n, JState(k.journal, k.state))
  <2>1. GateInv(n, F, A) /\ Kept(g, n) /\ n.bound = g.bound
    BY <1>3, <1>7, CalmGood
  <2> DEFINE j == JState(k.journal, k.state)
  <2>2. j \in Journal /\ LogKept(n.journal, j) /\ j.state = n.state /\ j.torn = n.journal.torn
    BY <1>1, <1>3, <1>6, <1>7, StateRecords DEF Gate
  <2> HIDE DEF j
  <2>3. h \in Record(n, j)
    BY <1>10 DEF j
  <2>4. Good(n, h, F, A, w)
    BY Zenon, <2>1, <2>2, <2>3, RecordKeeps
  <2> QED
    BY <2>1, <2>4, GoodTransitive
<1> QED
  BY <1>5, <1>8, <1>9, <1>10

\* The append result is not part of the state.
LEMMA QuietKeeps ==
  ASSUME NEW g, NEW F, NEW A, NEW w, GateInv(g, F, A), HoldKept(g, w)
  PROVE  Good(g, [g EXCEPT !.ok = TRUE], F, A, w) /\ [g EXCEPT !.ok = TRUE].state = g.state
<1> DEFINE h == [g EXCEPT !.ok = TRUE]
<1>1. g \in Gate
  BY DEF GateInv
<1>2. Calm(g, h) /\ h.state = g.state /\ h.journal = g.journal /\ h.marker = g.marker /\ h.residual = g.residual
  BY Zenon, <1>1, QuietCalm
<1> HIDE DEF h
<1>3. GateInv(h, F, A) /\ Kept(g, h) /\ h.bound = g.bound
  BY <1>1, <1>2, CalmGood DEF Rank
<1>4. HoldKept(h, w)
  BY <1>2, <1>3 DEF HoldKept, Kept
<1>5. Good(g, h, F, A, w) /\ h.state = g.state
  BY <1>2, <1>3, <1>4 DEF Good
<1> QED
  BY <1>5 DEF h

\* `handle': what the handler leaves is settled.
LEMMA HandleKeeps ==
  ASSUME NEW S, NEW F, NEW A, NEW w, NEW h \in Quiet(Handle(S))
  PROVE  \E k \in S : GateInv(k, F, A) /\ HoldKept(k, w) => Good(k, h, F, A, w)
<1>1. PICK k \in S : \E m \in SettleDrain(k) : h = [m EXCEPT !.ok = TRUE]
  BY DEF Quiet, Handle
<1>2. PICK m \in SettleDrain(k) : h = [m EXCEPT !.ok = TRUE]
  BY Zenon, <1>1
<1>3. ASSUME GateInv(k, F, A), HoldKept(k, w)
      PROVE  Good(k, h, F, A, w)
  <2>1. Good(k, m, F, A, w)
    BY <1>2, <1>3, SettleDrainKeeps
  <2>2. GateInv(m, F, A) /\ HoldKept(m, w) /\ Kept(k, m) /\ m.bound = k.bound
    BY <2>1 DEF Good
  <2>3. Good(m, h, F, A, w)
    BY <1>2, <2>2, QuietKeeps
  <2> QED
    BY <1>3, <2>2, <2>3, GoodTransitive
<1> QED
  BY <1>3

-----------------------------------------------------------------------------
(* The handlers that only touch connections.                               *)

\* Only the connections changed.
Reconnected(g, h) == h \in Gate /\ h = [g EXCEPT !.conns = h.conns]

\* Connections may change as long as every usable stamp is the armed action's.
LEMMA ConnsKeep ==
  ASSUME NEW g, NEW h, NEW F, NEW A, GateInv(g, F, A), Reconnected(g, h),
         \A c \in Conns :
           h.conns[c].phase = "open" /\ ~h.conns[c].consumed /\ h.conns[c].stamp # None =>
             h.conns[c].stamp.exec = g.bound /\ h.conns[c].stamp.id \in Armed(g)
  PROVE  Good(g, h, F, A, TRUE) /\ \A w : HoldKept(g, w) => Good(g, h, F, A, w)
<1>1. g \in Gate /\ h \in Gate
  BY DEF GateInv, Reconnected
<1>2. /\ h.bound = g.bound /\ h.run = g.run /\ h.bindings = g.bindings /\ h.channel = g.channel
      /\ h.keys = g.keys /\ h.actions = g.actions /\ h.journal = g.journal /\ h.state = g.state
      /\ h.marker = g.marker /\ h.residual = g.residual
  BY <1>1 DEF Gate, Reconnected
<1>3. Ids(h) = Ids(g) /\ Armed(h) = Armed(g) /\ InFlight(h) = InFlight(g)
  BY <1>2 DEF Ids, Armed, InFlight
<1>4. JournalAgrees(h) /\ AmbiguityHeld(h) /\ StatusLogged(h)
  BY <1>2, <1>3 DEF GateInv, JournalAgrees, AmbiguityHeld, AnyAmbiguous, StatusLogged
<1>5. StampsArmed(h)
  BY <1>2, <1>3 DEF StampsArmed
<1>6. Frozen(g, h)
  BY <1>2, <1>3 DEF Frozen
<1>7. Tame(g, h, {})
  BY <1>1, <1>2, <1>4, <1>5, <1>6 DEF Tame, ActionKept
<1>8. GateInv(h, F, A)
  BY <1>7, TameKeepsAll
<1>9. Kept(g, h)
  BY <1>1, <1>2, <1>3, <1>6 DEF Kept, Rank
<1> QED
  BY <1>2, <1>8, <1>9 DEF Good, HoldKept, Kept

\* The same for one connection, that is not usable or is as it was.
LEMMA ConnKeeps ==
  ASSUME NEW g, NEW F, NEW A, GateInv(g, F, A), NEW c \in Conns, NEW x \in Connection,
         x.phase = "open" /\ ~x.consumed /\ x.stamp # None =>
           \/ g.conns[c].phase = "open" /\ ~g.conns[c].consumed /\ x.stamp = g.conns[c].stamp
           \/ x.stamp.exec = g.bound /\ x.stamp.id \in Armed(g)
  PROVE  LET h == [g EXCEPT !.conns[c] = x] IN
         /\ Good(g, h, F, A, TRUE) /\ \A w : HoldKept(g, w) => Good(g, h, F, A, w)
         /\ h.conns[c] = x /\ h.drain = g.drain /\ h.state = g.state /\ h.journal = g.journal
         /\ h.actions = g.actions
<1> DEFINE h == [g EXCEPT !.conns[c] = x]
           s == [g.conns EXCEPT ![c] = x]
<1>1. g \in Gate
  BY DEF GateInv
<1>2. s \in [Conns -> Connection] /\ h = [g EXCEPT !.conns = s]
  BY <1>1 DEF Gate
<1>3. /\ Reconnected(g, h) /\ h.conns = s /\ h.drain = g.drain /\ h.state = g.state
      /\ h.journal = g.journal /\ h.actions = g.actions
  BY Zenon, <1>1, <1>2 DEF Gate, Reconnected
<1>4. s[c] = x /\ \A d \in Conns : d # c => s[d] = g.conns[d]
  BY <1>1 DEF Gate
<1> HIDE DEF h, s
<1>5. \A d \in Conns :
        h.conns[d].phase = "open" /\ ~h.conns[d].consumed /\ h.conns[d].stamp # None =>
          h.conns[d].stamp.exec = g.bound /\ h.conns[d].stamp.id \in Armed(g)
  BY <1>3, <1>4 DEF GateInv, StampsArmed
<1>6. Good(g, h, F, A, TRUE) /\ \A w : HoldKept(g, w) => Good(g, h, F, A, w)
  BY Zenon, <1>3, <1>5, ConnsKeep
<1> QED
  BY Zenon, <1>3, <1>4, <1>6 DEF h

\* Closing a connection.
LEMMA CloseConnKeeps ==
  ASSUME NEW g, NEW F, NEW A, GateInv(g, F, A), NEW c \in Conns
  PROVE  LET h == CloseConn(g, c) IN
         /\ Good(g, h, F, A, TRUE) /\ \A w : HoldKept(g, w) => Good(g, h, F, A, w)
         /\ h.drain = g.drain /\ h.state = g.state /\ h.journal = g.journal
         /\ h.actions = g.actions
<1> DEFINE x == [g.conns[c] EXCEPT !.phase = IF g.conns[c].phase = "open" THEN "closed" ELSE g.conns[c].phase]
<1>1. g \in Gate /\ g.conns[c] \in Connection
  BY DEF GateInv, Gate
<1>2. x \in Connection /\ (x.phase # "open")
  BY <1>1 DEF Connection
<1>3. CloseConn(g, c) = [g EXCEPT !.conns[c] = x]
  BY <1>1 DEF CloseConn, Gate, Connection
<1>4. CloseConn(g, c).drain = g.drain /\ CloseConn(g, c).state = g.state
      /\ CloseConn(g, c).journal = g.journal /\ CloseConn(g, c).actions = g.actions
  BY <1>1 DEF CloseConn, Gate
<1>7. PICK h : h = [g EXCEPT !.conns[c] = x]
  BY Zenon
<1>8. h = CloseConn(g, c)
  BY <1>3, <1>7
<1> HIDE DEF x
<1>5. Good(g, h, F, A, TRUE)
  BY Zenon, <1>2, <1>7, ConnKeeps
<1>6. ASSUME NEW w, HoldKept(g, w) PROVE Good(g, h, F, A, w)
  BY Zenon, <1>2, <1>6, <1>7, ConnKeeps
<1> QED
  BY Zenon, <1>4, <1>5, <1>6, <1>8

\* Listening, accepting, and forgetting a connection.
LEMMA ConnectionsKeep ==
  ASSUME NEW g, NEW F, NEW A, NEW w, GateInv(g, F, A), HoldKept(g, w), NEW c \in Conns,
         NEW h, h \in Backlog(g, c) \cup Accept(g, c) \cup Disconnect(g, c)
  PROVE  Good(g, h, F, A, w)
<1>1. g \in Gate /\ g.conns[c] \in Connection
  BY DEF GateInv, Gate
<1>2. Absent \in Connection /\ Absent.phase # "open"
  BY NoneAssumption DEF Absent, Connection
<1>3. CASE h \in Backlog(g, c)
  <2> DEFINE x == [g.conns[c] EXCEPT !.phase = "queued"]
  <2>1. x \in Connection /\ x.phase # "open"
    BY <1>1 DEF Connection
  <2>2. h = [g EXCEPT !.conns[c] = x]
    BY <1>1, <1>3 DEF Backlog, Gate, Connection
  <2> HIDE DEF x
  <2> QED
    BY Zenon, <2>1, <2>2, ConnKeeps
<1>4. CASE h \in Disconnect(g, c)
  <2>1. h = [g EXCEPT !.conns[c] = Absent]
    BY <1>4 DEF Disconnect
  <2> QED
    BY Zenon, <1>2, <2>1, ConnKeeps
<1>5. CASE h \in Accept(g, c)
  <2> DEFINE stamp == IF Armed(g) # {} /\ g.bound # None
                        THEN [exec |-> g.bound, id |-> ArmedId(g)] ELSE None
             x == [Absent EXCEPT !.phase = "open", !.stamp = stamp]
  <2>1. Armed(g) # {} => ArmedId(g) \in Armed(g)
    BY DEF ArmedId
  <2>2. Armed(g) \subseteq 1 .. MaxActions
    BY <1>1, BoundAssumption, SameIds DEF GateInv, JournalAgrees, Armed
  <2>3. stamp \in Stamp \cup {None}
    BY <1>1, <2>1, <2>2 DEF Stamp, Gate
  <2>4. stamp # None => stamp.exec = g.bound /\ stamp.id \in Armed(g)
    BY <2>1
  <2>5. h = [g EXCEPT !.conns[c] = x]
    BY <1>5 DEF Accept
  <2> HIDE DEF stamp
  <2>6. x \in Connection /\ x.stamp = stamp
    BY Zenon, <1>2, <2>3 DEF Connection
  <2> HIDE DEF x
  <2> QED
    BY Zenon, <2>4, <2>5, <2>6, ConnKeeps
<1> QED
  BY <1>3, <1>4, <1>5

-----------------------------------------------------------------------------
(* A request: refused, or consumed and forwarded.                          *)

\* Gate h is g after action i was consumed for the request on connection c.
Consumed(g, h, c, i) ==
  /\ h \in Gate
  /\ h.state = g.state /\ h.drain = g.drain /\ h.channel = g.channel /\ h.bound = g.bound
  /\ h.run = g.run /\ h.bindings = g.bindings /\ h.keys = g.keys
  /\ Updated(g.journal, h.journal, i, [g.journal.actions[i] EXCEPT !.status = "CONSUMED", !.after = FALSE])
  /\ Len(h.actions) = Len(g.actions)
  /\ \A k \in Ids(g) : k # i => h.actions[k] = g.actions[k]
  /\ h.actions[i].status = "CONSUMED" /\ h.actions[i].class = g.actions[i].class
  /\ h.actions[i].sealed = g.actions[i].sealed /\ h.actions[i].armed = g.actions[i].armed
  /\ \A d \in Conns : h.conns[d].phase = "open" /\ ~h.conns[d].consumed =>
       /\ h.conns[d] = g.conns[d]
       /\ g.bound # None => g.conns[d].stamp # [exec |-> g.bound, id |-> i]

\* The one request the consumption sends.
Request1(g, i) == [exec |-> g.bound, id |-> i, template |-> g.actions[i].armed]

\* A consumption keeps the invariant, with its request among the forwarded.
LEMMA ConsumedKeeps ==
  ASSUME NEW g, NEW h, NEW F, NEW A, GateInv(g, F, A), NEW c \in Conns, NEW i \in Armed(g),
         Consumed(g, h, c, i)
  PROVE  /\ GateInv(h, F \cup {Request1(g, i)}, A)
         /\ Frozen(g, h) /\ InFlight(h) = InFlight(g) \cup {i} /\ i \notin InFlight(g)
<1> DEFINE n == Request1(g, i)
           G == F \cup {n}
<1>1. /\ g \in Gate /\ h \in Gate /\ JournalAgrees(g) /\ i \in Ids(g) /\ Ids(h) = Ids(g)
      /\ Ids(g) = 1 .. Len(g.actions) /\ DOMAIN g.journal.actions = Ids(g)
  BY SameIds DEF GateInv, Consumed, Ids, Armed, Gate
<1>2. /\ g.actions[i].status = "ARMED" /\ g.journal.actions[i] \in Logged
      /\ g.bound # None /\ g.actions[i].armed \in Template /\ g.actions[i].armed.manifest \in Case[g.run]
  <2>1. g.actions[i].status = "ARMED"
    BY Zenon DEF Armed
  <2>2. g.journal.actions \in Seq(Logged)
    BY Zenon, <1>1 DEF Gate, Journal
  <2>3. g.journal.actions[i] \in Logged
    BY <1>1, <2>2
  <2>4. TemplatesOfRun(g)
    BY Zenon DEF GateInv
  <2> QED
    BY <1>1, <2>1, <2>3, <2>4 DEF TemplatesOfRun
<1>3. n.exec = g.bound /\ n.id = i /\ n.template = g.actions[i].armed
  BY DEF Request1
<1>4. n \in Forwarded
  <2>1. g.bound \in Executions
    BY <1>1, <1>2 DEF Gate
  <2>2. i \in 1 .. MaxActions
    BY <1>1, BoundAssumption, SameIds DEF JournalAgrees
  <2> QED
    BY <1>2, <2>1, <2>2 DEF Request1, Forwarded
<1> HIDE DEF n
<1>5. /\ Armed(h) = {} /\ InFlight(h) = InFlight(g) \cup {i} /\ i \notin InFlight(g)
  BY <1>1, <1>2 DEF Armed, InFlight, Consumed, GateInv, OneArmed
<1>6. /\ h.journal.bound = g.journal.bound /\ h.journal.run = g.journal.run
      /\ h.journal.bindings = g.journal.bindings /\ h.journal.consistent = g.journal.consistent
      /\ Len(h.journal.actions) = Len(g.journal.actions)
      /\ h.journal.actions[i].status = "CONSUMED"
      /\ h.journal.actions[i].class = g.journal.actions[i].class
      /\ h.journal.actions[i].sealed = g.journal.actions[i].sealed
      /\ \A k \in Ids(g) : k # i => h.journal.actions[k] = g.journal.actions[k]
  BY SMTT(60), <1>1, <1>2 DEF Consumed, Updated, Logged
<1>7. JournalAgrees(h)
  BY SMTT(60), <1>1, <1>2, <1>6 DEF JournalAgrees, SealAgrees, Consumed
<1>8. BindingKept(h) /\ OneArmed(h)
  BY <1>5 DEF GateInv, Consumed, BindingKept, OneArmed
<1>9. TemplatesOfRun(h)
  BY <1>1, <1>2 DEF GateInv, Consumed, TemplatesOfRun
<1>10. StampsArmed(h)
  <2> SUFFICES ASSUME NEW d \in Conns, h.conns[d].phase = "open", ~h.conns[d].consumed,
                      h.conns[d].stamp # None
               PROVE  FALSE
    BY DEF StampsArmed
  <2>1. /\ h.conns[d] = g.conns[d] /\ g.conns[d].stamp # [exec |-> g.bound, id |-> i]
        /\ g.conns[d].stamp \in Stamp
    BY <1>1, <1>2 DEF Consumed, Gate, Connection
  <2>2. g.conns[d].stamp.exec = g.bound /\ g.conns[d].stamp.id = i
    BY <2>1 DEF GateInv, StampsArmed, OneArmed
  <2> QED
    BY <2>1, <2>2 DEF Stamp
<1>11. AmbiguityHeld(h)
  BY <1>1 DEF GateInv, AmbiguityHeld, AnyAmbiguous, Consumed
<1>12. StatusLogged(h)
  <2>1. \A k \in InFlight(g) : Unclean(g.journal.actions[k]) /\ k \in Ids(g) /\ k # i
    BY <1>5 DEF GateInv, StatusLogged, InFlight
  <2>2. \A k \in Ids(h) : Unclean(h.journal.actions[k]) => Unclean(h.actions[k])
    BY SMTT(60), <1>1, <1>6 DEF GateInv, StatusLogged, Unclean, Consumed
  <2> QED
    BY <1>5, <1>6, <2>1, <2>2 DEF StatusLogged, Unclean
<1>13. ForwardedKnown(h, G)
  <2>1. \A f \in F : f.exec = g.bound => f.id # i
    BY <1>2 DEF GateInv, ForwardedKnown
  <2>2. n.exec \in h.bindings
    BY <1>2, <1>3 DEF GateInv, BindingKept, Consumed
  <2>3. h.actions[n.id].status = "CONSUMED" /\ h.actions[n.id].armed = n.template
    BY <1>3 DEF Consumed
  <2>4. ForwardedKnown(h, F)
    BY <1>1, <2>1 DEF GateInv, ForwardedKnown, Consumed
  <2> QED
    BY <1>1, <1>3, <2>2, <2>3, <2>4 DEF ForwardedKnown
<1>14. Unsettled(h, G, A)
  <2>1. \A f \in F \ A : f.exec = g.bound /\ f.id \in Ids(g) /\ f.id # i
    BY <1>2 DEF GateInv, Unsettled, Unclean
  <2>2. Unsettled(h, F, A)
    BY SMTT(60), <1>1, <1>6, <2>1 DEF GateInv, Unsettled, Consumed
  <2>3. Unclean(h.actions[i]) /\ Unclean(h.journal.actions[i])
    BY <1>6 DEF Unclean, Consumed
  <2> QED
    BY <1>1, <1>3, <2>2, <2>3 DEF Unsettled, Consumed
<1>15. KeysKnown(h, G)
  BY <1>3, <1>5 DEF GateInv, KeysKnown, Consumed
<1>16. ManifestsOfRuns(h, G)
  BY <1>2, <1>3 DEF GateInv, ManifestsOfRuns, Consumed
<1>17. MutationsOnce(h, G)
  <2>1. \A f \in F : f.template.verb # "GET" \/ n.template.verb # "GET" => f.template # n.template
    BY <1>3 DEF GateInv, MutationsOnce
  <2> QED
    BY <1>5, <2>1 DEF GateInv, MutationsOnce
<1>18. G \subseteq Forwarded /\ A \subseteq G
  BY <1>4 DEF GateInv
<1>19. Frozen(g, h)
  BY <1>1 DEF Frozen, Consumed
<1>20. GateInv(h, G, A)
  BY <1>1, <1>7, <1>8, <1>9, <1>10, <1>11, <1>12, <1>13, <1>14, <1>15, <1>16, <1>17, <1>18 DEF GateInv
<1> QED
  BY <1>5, <1>19, <1>20 DEF n

\* What Consume leaves once CONSUMED is durable.
LEMMA ConsumeShape ==
  ASSUME NEW g, NEW F, NEW A, GateInv(g, F, A), NEW c \in Conns, NEW i \in Armed(g),
         NEW k, Appended(g, k, JConsumed(g.journal, i))
  PROVE  /\ JConsumed(g.journal, i) \in Journal
         /\ Consumed(g, CloseStamped([k EXCEPT !.actions[i].status = "CONSUMED", !.actions[i].conn = c,
                                 !.actions[i].after = FALSE, !.conns[c].consumed = TRUE], i), c, i)
<1> DEFINE x == [g.journal.actions[i] EXCEPT !.status = "CONSUMED", !.after = FALSE]
           a == [g.actions[i] EXCEPT !.status = "CONSUMED", !.conn = c, !.after = FALSE]
           s == [g.actions EXCEPT ![i] = a]
           y == [g.conns[c] EXCEPT !.consumed = TRUE]
           t == [g.conns EXCEPT ![c] = y]
           m == [k EXCEPT !.actions = s, !.conns = t]
           h == CloseStamped(m, i)
           j == JConsumed(g.journal, i)
<1>1. /\ g \in Gate /\ JournalAgrees(g) /\ i \in Ids(g)
      /\ Ids(g) = 1 .. Len(g.actions) /\ DOMAIN g.journal.actions = Ids(g)
  BY SameIds DEF GateInv, Armed
<1>2. /\ g.journal \in Journal /\ g.journal.actions[i] \in Logged /\ g.actions[i] \in Action
      /\ g.actions \in Seq(Action) /\ g.conns \in [Conns -> Connection] /\ g.conns[c] \in Connection
  BY <1>1 DEF Gate, Journal
<1>3. x \in Logged
  BY Zenon, <1>2 DEF Logged, Status
<1>4. Updated(g.journal, j, i, x)
  BY <1>1, <1>2, <1>3, UpdateShape DEF JConsumed
<1>5. j \in Journal
  BY <1>4 DEF Updated
<1> HIDE DEF j
<1>6. k \in Gate /\ k = [g EXCEPT !.journal = j, !.ok = TRUE]
  BY Zenon, <1>1, <1>5 DEF Appended, Gate, j
<1>7. a \in Action /\ y \in Connection /\ y.consumed
  BY Zenon, <1>2 DEF Action, Status, Connection
<1>8. /\ a.status = "CONSUMED" /\ a.class = g.actions[i].class /\ a.sealed = g.actions[i].sealed
      /\ a.armed = g.actions[i].armed
  BY <1>2 DEF Action
<1>9. /\ s \in Seq(Action) /\ Len(s) = Len(g.actions) /\ s[i] = a
      /\ \A n \in Ids(g) : n # i => s[n] = g.actions[n]
  BY <1>1, <1>2, <1>7
<1>10. t \in [Conns -> Connection] /\ t[c].consumed /\ \A d \in Conns : d # c => t[d] = g.conns[d]
  BY <1>2, <1>7
<1>11. [k EXCEPT !.actions[i].status = "CONSUMED", !.actions[i].conn = c,
                 !.actions[i].after = FALSE, !.conns[c].consumed = TRUE] = m
  <2>1. k.actions = g.actions /\ k.conns = g.conns
    BY <1>1, <1>6 DEF Gate
  <2>2. [k EXCEPT !.actions[i].status = "CONSUMED", !.actions[i].conn = c, !.actions[i].after = FALSE]
          = [k EXCEPT !.actions = s]
    <3> DEFINE a1 == [g.actions[i] EXCEPT !.status = "CONSUMED"]
               a2 == [a1 EXCEPT !.conn = c]
               s1 == [g.actions EXCEPT ![i] = a1]
               s2 == [g.actions EXCEPT ![i] = a2]
               k1 == [k EXCEPT !.actions = s1]
               k2 == [k EXCEPT !.actions = s2]
    <3>1. k1 = [k EXCEPT !.actions[i].status = "CONSUMED"]
      BY <2>1
    <3>6. i \in DOMAIN g.actions /\ k = [k EXCEPT !.actions = k.actions]
      BY Zenon, <1>1, <1>6 DEF Ids, Gate
    <3>7. k1.actions = s1 /\ k2.actions = s2
      BY <1>6 DEF Gate
    <3>8. s1[i] = a1 /\ s2[i] = a2
      BY <3>6
    <3>9. [s1 EXCEPT ![i] = a2] = s2 /\ [s2 EXCEPT ![i] = [a2 EXCEPT !.after = FALSE]] = s
      <4> HIDE DEF a1, a2
      <4>1. a = [a2 EXCEPT !.after = FALSE]
        BY DEF a2, a1
      <4> HIDE DEF a
      <4>2. [s1 EXCEPT ![i] = a2] = s2
        BY <3>6
      <4>3. [s2 EXCEPT ![i] = a] = s
        BY <3>6
      <4> QED
        BY <4>1, <4>2, <4>3
    <3>2. k1.actions[i] = a1 /\ [s1 EXCEPT ![i] = a2] = s2
      BY <3>7, <3>8, <3>9
    <3>3. k2 = [k1 EXCEPT !.actions[i].conn = c]
      BY Zenon, <1>1, <1>2, <1>6, <3>2 DEF Gate
    <3>4. k2.actions[i] = a2 /\ [s2 EXCEPT ![i] = [a2 EXCEPT !.after = FALSE]] = s
      BY <3>7, <3>8, <3>9
    <3>5. [k EXCEPT !.actions = s] = [k2 EXCEPT !.actions[i].after = FALSE]
      BY Zenon, <1>1, <1>2, <1>6, <3>4 DEF Gate
    <3> QED
      BY Zenon, <3>1, <3>3, <3>5
  <2>3. m = [[k EXCEPT !.actions = s] EXCEPT !.conns[c].consumed = TRUE]
    BY <1>2, <1>6, <2>1 DEF Gate, Connection
  <2> QED
    BY Zenon, <2>2, <2>3
<1> HIDE DEF a, y, s, t
<1>12. /\ m \in Gate /\ m.actions = s /\ m.conns = t /\ m.journal = j /\ m.state = g.state /\ m.drain = g.drain
       /\ m.channel = g.channel /\ m.bound = g.bound /\ m.run = g.run /\ m.bindings = g.bindings
       /\ m.keys = g.keys
  BY ZenonT(60), <1>1, <1>6, <1>9, <1>10 DEF Gate
<1> HIDE DEF m
<1>13. /\ h \in Gate /\ h.actions = s /\ h.journal = j /\ h.state = g.state /\ h.drain = g.drain
       /\ h.channel = g.channel /\ h.bound = g.bound /\ h.run = g.run /\ h.bindings = g.bindings
       /\ h.keys = g.keys
  <2>2. m \in Gate
    BY <1>12
  <2>1. h \in Gate /\ h = [m EXCEPT !.conns = h.conns]
    BY Zenon, <2>2, CloseStampedShape
  <2> HIDE DEF h
  <2> QED
    BY <1>12, <2>1 DEF Gate
<1>14. \A d \in Conns : h.conns[d].phase = "open" /\ ~h.conns[d].consumed =>
         /\ h.conns[d] = g.conns[d]
         /\ g.bound # None => g.conns[d].stamp # [exec |-> g.bound, id |-> i]
  <2> SUFFICES ASSUME NEW d \in Conns, h.conns[d].phase = "open", ~h.conns[d].consumed
               PROVE  /\ h.conns[d] = g.conns[d]
                      /\ g.bound # None => g.conns[d].stamp # [exec |-> g.bound, id |-> i]
    OBVIOUS
  <2> DEFINE Z == /\ m.conns[d].phase = "open" /\ ~m.conns[d].consumed
                  /\ m.bound # None /\ m.conns[d].stamp = [exec |-> m.bound, id |-> i]
  <2>1. h.conns[d] = IF Z THEN [m.conns[d] EXCEPT !.phase = "closed"] ELSE m.conns[d]
    BY <1>12, CloseStampedShape
  <2>2. m.conns[d] \in Connection
    BY <1>10, <1>12
  <2> HIDE DEF h
  <2>3. ~Z /\ h.conns[d] = m.conns[d]
    BY <2>1, <2>2 DEF Connection
  <2>4. d # c
    BY <1>10, <1>12, <2>3
  <2>5. m.conns[d] = g.conns[d]
    BY <1>10, <1>12, <2>4
  <2> QED
    BY <1>12, <2>3, <2>5
<1>15. Consumed(g, h, c, i)
  <2> HIDE DEF h
  <2> QED
    BY <1>4, <1>8, <1>9, <1>13, <1>14 DEF Consumed
<1> QED
  BY <1>5, <1>11, <1>15 DEF j

\* Gate h is g after it forwarded action i.
Forwards(g, h, i, F, A) ==
  /\ g.state = "ACTIVE" /\ h.state = "ACTIVE" /\ ~h.drain /\ h.bound = g.bound
  /\ GateInv(h, F \cup {Request1(g, i)}, A) /\ Frozen(g, h)
  /\ InFlight(h) = InFlight(g) \cup {i} /\ i \notin InFlight(g)
  /\ h.actions[i].armed = g.actions[i].armed

\* Counting a request touches nothing else.
LEMMA CountedKeeps ==
  ASSUME NEW g, NEW F, NEW A, NEW w, GateInv(g, F, A), HoldKept(g, w), NEW c \in Conns
  PROVE  LET h == [g EXCEPT !.conns[c].requests = IF @ = 2 THEN @ ELSE @ + 1] IN
         /\ Good(g, h, F, A, w) /\ h.state = g.state /\ h.actions = g.actions
         /\ h.bound = g.bound /\ h.conns[c].stamp = g.conns[c].stamp
<1> DEFINE r == IF g.conns[c].requests = 2 THEN g.conns[c].requests ELSE g.conns[c].requests + 1
           x == [g.conns[c] EXCEPT !.requests = r]
           h == [g EXCEPT !.conns[c].requests = IF @ = 2 THEN @ ELSE @ + 1]
<1>1. g \in Gate /\ g.conns \in [Conns -> Connection] /\ g.conns[c] \in Connection
  BY DEF GateInv, Gate
<1>2. r \in 0 .. 2
  BY <1>1 DEF Connection
<1> HIDE DEF r
<1>3. x \in Connection /\ x.phase = g.conns[c].phase /\ x.consumed = g.conns[c].consumed
      /\ x.stamp = g.conns[c].stamp
  BY <1>1, <1>2 DEF Connection
<1>4. h = [g EXCEPT !.conns[c] = x]
  BY <1>1 DEF Gate, Connection, r
<1>5. PICK k : k = [g EXCEPT !.conns[c] = x]
  BY Zenon
<1>6. k = h
  BY <1>4, <1>5
<1>7. k.state = g.state /\ k.actions = g.actions /\ k.bound = g.bound /\ k.conns[c] = x
  BY <1>1, <1>5 DEF Gate
<1> HIDE DEF x, h
<1>9. x.phase = "open" /\ ~x.consumed /\ x.stamp # None =>
        g.conns[c].phase = "open" /\ ~g.conns[c].consumed /\ x.stamp = g.conns[c].stamp
  BY <1>3
<1>10. x \in Connection
  BY <1>3
<1>8. Good(g, k, F, A, w)
  BY Zenon, <1>5, <1>9, <1>10, ConnKeeps
<1> QED
  BY <1>3, <1>6, <1>7, <1>8 DEF h

\* A worker's request.
LEMMA RequestKeeps ==
  ASSUME NEW g, NEW F, NEW A, NEW w, GateInv(g, F, A), HoldKept(g, w), NEW c \in Conns,
         NEW exact, NEW h \in Request(g, c, exact)
  PROVE  Good(g, h, F, A, w) \/ \E i \in Armed(g) : Forwards(g, h, i, F, A)
<1> DEFINE m == [g EXCEPT !.conns[c].requests = IF @ = 2 THEN @ ELSE @ + 1]
           i == g.conns[c].stamp.id
<1>1. /\ Good(g, m, F, A, w) /\ m.state = g.state /\ m.actions = g.actions
      /\ m.bound = g.bound /\ m.conns[c].stamp = g.conns[c].stamp
  BY CountedKeeps
<1>2. h \in IF Admit(m, c, exact) THEN Consume(m, c, i) ELSE {CloseConn(m, c)}
  BY DEF Request
<1> HIDE DEF m
<1>3. GateInv(m, F, A) /\ HoldKept(m, w) /\ Kept(g, m)
  BY <1>1 DEF Good
<1>4. CASE h = CloseConn(m, c)
  <2>1. Good(m, h, F, A, w)
    BY ZenonT(60), <1>3, <1>4, CloseConnKeeps
  <2> QED
    BY <1>1, <1>3, <2>1, GoodTransitive
<1>5. CASE Admit(m, c, exact) /\ h \in Consume(m, c, i)
  <2>1. m.state = "ACTIVE" /\ ~m.drain /\ i \in Armed(m) /\ i \in Armed(g)
    BY <1>1, <1>5 DEF Admit, Armed, Ids
  <2> HIDE DEF i
  <2>2. PICK k \in Record(m, JConsumed(m.journal, i)) :
          h = IF k.ok
                THEN CloseStamped([k EXCEPT !.actions[i].status = "CONSUMED", !.actions[i].conn = c,
                                 !.actions[i].after = FALSE, !.conns[c].consumed = TRUE], i)
                ELSE CloseConn(k, c)
    BY Zenon, <1>5 DEF Consume
  <2>3. JConsumed(m.journal, i) \in Journal
    <3>1. PICK n : Appended(m, n, JConsumed(m.journal, i))
      BY DEF Appended
    <3> QED
      BY Zenon, <1>3, <2>1, <3>1, ConsumeShape
  <2>4. CASE k.ok /\ Appended(m, k, JConsumed(m.journal, i))
    <3>1. Consumed(m, h, c, i)
      BY Zenon, <1>3, <2>1, <2>2, <2>4, ConsumeShape
    <3>2. /\ GateInv(h, F \cup {Request1(m, i)}, A)
          /\ Frozen(m, h) /\ InFlight(h) = InFlight(m) \cup {i} /\ i \notin InFlight(m)
      BY Zenon, <1>3, <2>1, <3>1, ConsumedKeeps
    <3>3. Request1(m, i) = Request1(g, i) /\ InFlight(m) = InFlight(g) /\ Frozen(g, h)
      BY <1>1, <3>2 DEF Request1, InFlight, Ids, Frozen
    <3>4. Forwards(g, h, i, F, A)
      BY <1>1, <2>1, <3>1, <3>2, <3>3 DEF Forwards, Consumed
    <3> QED
      BY <2>1, <3>4
  <2>5. CASE ~k.ok /\ Failed(m, k, F, A)
    <3>1. Good(m, k, F, A, w)
      BY <2>5, FailedGood
    <3>2. GateInv(k, F, A) /\ HoldKept(k, w) /\ Kept(m, k) /\ k.bound = m.bound
      BY <3>1 DEF Good
    <3>3. Good(k, h, F, A, w)
      BY Zenon, <2>2, <2>5, <3>2, CloseConnKeeps
    <3>4. Good(m, h, F, A, w)
      BY <1>3, <3>2, <3>3, GoodTransitive
    <3> QED
      BY <1>1, <1>3, <3>4, GoodTransitive
  <2> QED
    BY <1>3, <2>2, <2>3, <2>4, <2>5, RecordShape
<1> QED
  BY <1>2, <1>4, <1>5

-----------------------------------------------------------------------------
(* The end of a request in flight.                                         *)

\* The TERMINAL record changes its action.
LEMMA TerminalRecord ==
  ASSUME NEW j \in Journal, NEW i \in DOMAIN j.actions, NEW c \in Classification, NEW b \in BOOLEAN,
         NEW k, k = JTerminal(j, i, c, b)
  PROVE  /\ Updated(j, k, i, k.actions[i]) /\ k \in Journal
         /\ k.actions[i].status = "TERMINAL" /\ k.actions[i].class = c
         /\ k.actions[i].sealed = j.actions[i].sealed
<1> DEFINE x == [j.actions[i] EXCEPT !.status = "TERMINAL", !.class = c, !.after = b]
<1>1. j.actions[i] \in Logged
  BY DEF Journal
<1>2. x \in Logged /\ x.status = "TERMINAL" /\ x.class = c /\ x.sealed = j.actions[i].sealed
  BY Zenon, <1>1 DEF Logged, Status
<1>3. k = JUpdate(j, i, x)
  BY DEF JTerminal
<1> HIDE DEF x
<1>4. Updated(j, k, i, x)
  BY <1>2, <1>3, UpdateShape
<1>5. k.actions[i] = x /\ k \in Journal
  BY <1>4 DEF Updated
<1> QED
  BY <1>2, <1>4, <1>5

\* An ambiguous TERMINAL record keeps the request unclean.
LEMMA AmbiguousLogged ==
  ASSUME NEW g, NEW F, NEW A, GateInv(g, F, A), NEW i \in InFlight(g), NEW h, NEW j,
         Updated(g.journal, j, i, j.actions[i]), j.actions[i].status = "TERMINAL",
         j.actions[i].class = "IO_AMBIGUOUS", j.actions[i].sealed = g.journal.actions[i].sealed,
         Appended(g, h, j)
  PROVE  GateInv(h, F, A) /\ Kept(g, h) /\ h.bound = g.bound /\ InFlight(h) = InFlight(g)
<1>1. /\ g \in Gate /\ JournalAgrees(g) /\ Ids(g) = 1 .. Len(g.actions) /\ DOMAIN g.journal.actions = Ids(g)
      /\ i \in Ids(g) /\ g.actions[i].status = "CONSUMED"
  BY SameIds DEF GateInv, InFlight
<1>2. h \in Gate
  BY Zenon, <1>1 DEF Appended, Gate, Updated
<1>3. /\ h.bound = g.bound /\ h.run = g.run /\ h.bindings = g.bindings /\ h.channel = g.channel
      /\ h.keys = g.keys /\ h.actions = g.actions /\ h.state = g.state /\ h.conns = g.conns
      /\ h.journal = j
  BY <1>1 DEF Appended, Gate
<1>4. Ids(h) = Ids(g) /\ Armed(h) = Armed(g) /\ InFlight(h) = InFlight(g) /\ i \notin Armed(g)
  BY <1>1, <1>3 DEF Ids, Armed, InFlight
<1>5. Unclean(j.actions[i]) /\ ~g.actions[i].sealed /\ \A k \in Ids(g) : k # i => j.actions[k] = g.journal.actions[k]
  BY <1>1 DEF Unclean, Updated, JournalAgrees, SealAgrees
<1>6. JournalAgrees(h)
  <2>1. \A k \in Ids(g) : SealAgrees(g.actions[k], j.actions[k])
    BY <1>1, <1>5 DEF JournalAgrees, SealAgrees
  <2> QED
    BY Zenon, <1>1, <1>3, <1>4, <2>1 DEF JournalAgrees, Updated
<1>7. StampsArmed(h) /\ AmbiguityHeld(h)
  BY <1>3, <1>4 DEF GateInv, StampsArmed, AmbiguityHeld, AnyAmbiguous
<1>8. StatusLogged(h)
  <2>1. StatusLogged(g)
    BY Zenon DEF GateInv
  <2>2. \A k \in Armed(g) : j.actions[k].status = "ARMED"
    BY Zenon, <1>4, <1>5, <2>1 DEF StatusLogged, Armed
  <2>3. \A k \in InFlight(g) : Unclean(j.actions[k])
    BY Zenon, <1>5, <2>1 DEF StatusLogged, InFlight
  <2>4. Unclean(g.actions[i])
    BY <1>1 DEF Unclean
  <2>5. \A k \in Ids(g) : Unclean(j.actions[k]) => Unclean(g.actions[k])
    BY Zenon, <1>5, <2>1, <2>4 DEF StatusLogged
  <2> QED
    BY Zenon, <1>3, <1>4, <2>2, <2>3, <2>5 DEF StatusLogged
<1>9. Frozen(g, h) /\ Kept(g, h)
  <2>1. Frozen(g, h)
    BY Zenon, <1>3, <1>4 DEF Frozen
  <2>2. Rank(g.state) <= Rank(h.state)
    BY <1>3 DEF Rank
  <2> QED
    BY Zenon, <1>4, <2>1, <2>2 DEF Kept
<1>10. \A k \in Ids(g) :
         /\ ActionKept(g.actions[k], h.actions[k])
         /\ Unclean(g.actions[k]) /\ Unclean(g.journal.actions[k]) =>
              Unclean(h.actions[k]) /\ Unclean(h.journal.actions[k])
  BY <1>3, <1>5 DEF ActionKept
<1>11. Tame(g, h, {})
  BY <1>2, <1>3, <1>6, <1>7, <1>8, <1>9, <1>10 DEF Tame
<1> QED
  BY <1>3, <1>4, <1>9, <1>11, TameKeepsAll

\* Giving a request up holds the generation.
LEMMA CutKeeps ==
  ASSUME NEW g, NEW F, NEW A, NEW w, GateInv(g, F, A), NEW i \in InFlight(g)
  PROVE  LET h == [Terminate(g, i, "IO_AMBIGUOUS") EXCEPT !.state = "HELD"] IN
         Good(g, h, F, A, w) /\ h.state = "HELD" /\ h.journal = g.journal
           /\ h.actions[i].status = "TERMINAL" /\ h.actions[i].class = "IO_AMBIGUOUS"
           /\ h.actions[i].sealed = g.actions[i].sealed
<1> DEFINE k == Terminate(g, i, "IO_AMBIGUOUS")
           h == [k EXCEPT !.state = "HELD"]
<1>1. /\ g \in Gate /\ JournalAgrees(g) /\ Ids(g) = 1 .. Len(g.actions) /\ DOMAIN g.journal.actions = Ids(g)
      /\ i \in Ids(g) /\ g.actions[i].status = "CONSUMED"
  BY SameIds DEF GateInv, InFlight
<1>2. /\ k \in Gate /\ k = [g EXCEPT !.actions = k.actions] /\ Len(k.actions) = Len(g.actions)
      /\ \A m \in Ids(g) : m # i => k.actions[m] = g.actions[m]
      /\ Ended(g.actions[i], k.actions[i], "IO_AMBIGUOUS")
  BY <1>1, TerminateShape DEF Classification
<1> HIDE DEF k
<1>3. /\ h \in Gate /\ h.state = "HELD" /\ h.actions = k.actions /\ h.bound = g.bound /\ h.run = g.run
      /\ h.bindings = g.bindings /\ h.channel = g.channel /\ h.keys = g.keys /\ h.conns = g.conns
      /\ h.journal = g.journal
  BY ZenonT(60), <1>1, <1>2 DEF Gate, State
<1> HIDE DEF h
<1>4. /\ Ids(h) = Ids(g) /\ i \notin InFlight(h) /\ Armed(h) = Armed(g) /\ InFlight(h) \subseteq InFlight(g)
      /\ ~g.actions[i].sealed
  <2>1. Ids(h) = Ids(g)
    BY <1>1, <1>2, <1>3 DEF Ids, Gate
  <2>2. h.actions[i].status = "TERMINAL" /\ \A m \in Ids(g) : m # i => h.actions[m] = g.actions[m]
    BY <1>2, <1>3 DEF Ended
  <2>3. ~g.actions[i].sealed
    BY <1>1 DEF JournalAgrees, SealAgrees
  <2> QED
    BY <1>1, <2>1, <2>2, <2>3 DEF Armed, InFlight
<1>5. JournalAgrees(h)
  <2>1. \A m \in Ids(g) : SealAgrees(h.actions[m], g.journal.actions[m])
    BY <1>1, <1>2, <1>3, <1>4 DEF JournalAgrees, SealAgrees, Ended
  <2> QED
    BY <1>1, <1>2, <1>3, <1>4, <2>1 DEF JournalAgrees
<1>6. StampsArmed(h) /\ AmbiguityHeld(h)
  BY <1>3, <1>4 DEF GateInv, StampsArmed, AmbiguityHeld
<1>7. StatusLogged(h)
  <2>1. \A m \in Ids(h) : Unclean(g.journal.actions[m]) => Unclean(h.actions[m])
    BY <1>2, <1>3, <1>4 DEF GateInv, StatusLogged, Unclean, Ended
  <2> QED
    BY <1>3, <1>4, <2>1 DEF GateInv, StatusLogged
<1>8. Frozen(g, h) /\ Rank(g.state) <= Rank(h.state)
  BY <1>1, <1>2, <1>3, <1>4 DEF Frozen, Rank
<1>9. \A m \in Ids(g) :
        /\ ActionKept(g.actions[m], h.actions[m])
        /\ Unclean(g.actions[m]) /\ Unclean(g.journal.actions[m]) =>
             Unclean(h.actions[m]) /\ Unclean(h.journal.actions[m])
  BY <1>2, <1>3 DEF ActionKept, Ended, Unclean
<1>10. Tame(g, h, {})
  BY <1>2, <1>3, <1>5, <1>6, <1>7, <1>8, <1>9 DEF Tame
<1>11. GateInv(h, F, A)
  BY <1>10, TameKeepsAll
<1>12. HoldKept(h, w)
  <2>1. Unclean(g.journal.actions[i]) /\ i \in DOMAIN h.journal.actions
    BY <1>1, <1>3 DEF GateInv, StatusLogged
  <2> QED
    BY <1>3, <1>4, <2>1 DEF HoldKept
<1>13. Good(g, h, F, A, w)
  BY <1>3, <1>4, <1>8, <1>11, <1>12 DEF Good, Kept
<1> QED
  BY <1>2, <1>3, <1>13 DEF h, k, Ended

\* Gate h is g after action i got its result.
Delivered(g, h, j, i) ==
  /\ h \in Gate
  /\ h.state = g.state /\ h.channel = g.channel /\ h.bound = g.bound /\ h.run = g.run
  /\ h.bindings = g.bindings /\ h.keys = g.keys /\ h.conns = g.conns /\ h.journal = j
  /\ h.marker = g.marker /\ h.residual = g.residual
  /\ Len(h.actions) = Len(g.actions)
  /\ \A k \in Ids(g) : k # i => h.actions[k] = g.actions[k]
  /\ Ended(g.actions[i], h.actions[i], "DELIVERED_RESULT")

\* What the handler leaves once the TERMINAL record is durable.
LEMMA DeliveredShape ==
  ASSUME NEW g \in Gate, NEW i \in Ids(g), NEW j \in Journal, NEW k, Appended(g, k, j),
         NEW u \in SUBSET (Manifests \X Uids)
  PROVE  Delivered(g, [Terminate(k, i, "DELIVERED_RESULT") EXCEPT !.uids = u], j, i)
<1> DEFINE t == Terminate(k, i, "DELIVERED_RESULT")
           h == [t EXCEPT !.uids = u]
<1>1. /\ k \in Gate /\ k.actions = g.actions /\ Ids(k) = Ids(g)
      /\ k.state = g.state /\ k.channel = g.channel /\ k.bound = g.bound /\ k.run = g.run
      /\ k.bindings = g.bindings /\ k.keys = g.keys /\ k.conns = g.conns /\ k.journal = j
      /\ k.marker = g.marker /\ k.residual = g.residual
  BY Zenon DEF Appended, Gate, Ids
<1>2. /\ t \in Gate /\ t = [k EXCEPT !.actions = t.actions] /\ Len(t.actions) = Len(g.actions)
      /\ \A m \in Ids(g) : m # i => t.actions[m] = g.actions[m]
      /\ Ended(g.actions[i], t.actions[i], "DELIVERED_RESULT")
  BY <1>1, TerminateShape DEF Classification
<1> HIDE DEF t
<1>3. /\ h \in Gate /\ h.actions = t.actions
      /\ h.state = k.state /\ h.channel = k.channel /\ h.bound = k.bound /\ h.run = k.run
      /\ h.bindings = k.bindings /\ h.keys = k.keys /\ h.conns = k.conns /\ h.journal = k.journal
      /\ h.marker = k.marker /\ h.residual = k.residual
  BY ZenonT(60), <1>1, <1>2 DEF Gate
<1> HIDE DEF h
<1>4. Delivered(g, h, j, i)
  BY <1>1, <1>2, <1>3 DEF Delivered
<1> QED
  BY <1>4 DEF h, t

\* A delivered result keeps the invariant, if its request is answered.
LEMMA DeliveredKeeps ==
  ASSUME NEW g, NEW h, NEW j, NEW F, NEW A, NEW B, NEW w, GateInv(g, F, A), HoldKept(g, w),
         NEW i \in InFlight(g), Delivered(g, h, j, i),
         Updated(g.journal, j, i, j.actions[i]), j.actions[i].status = "TERMINAL",
         j.actions[i].class = "DELIVERED_RESULT", j.actions[i].sealed = g.journal.actions[i].sealed,
         A \subseteq B, B \subseteq F, \A f \in F \ B : f.exec = g.bound => f.id # i
  PROVE  Good(g, h, F, B, w)
<1>1. /\ g \in Gate /\ JournalAgrees(g) /\ Ids(g) = 1 .. Len(g.actions) /\ DOMAIN g.journal.actions = Ids(g)
      /\ i \in Ids(g) /\ g.actions[i].status = "CONSUMED" /\ h \in Gate
  BY SameIds DEF GateInv, InFlight, Delivered
<1>2. Ids(h) = Ids(g)
  <2>1. g.actions \in Seq(Action) /\ h.actions \in Seq(Action) /\ Len(h.actions) = Len(g.actions)
    BY Zenon, <1>1 DEF Gate, Delivered
  <2> QED
    BY <2>1 DEF Ids
<1>3. /\ h.actions[i].status = "TERMINAL" /\ h.actions[i].class = "DELIVERED_RESULT"
      /\ h.actions[i].sealed = g.actions[i].sealed /\ h.journal = j
      /\ \A k \in Ids(g) : k # i => h.actions[k] = g.actions[k] /\ j.actions[k] = g.journal.actions[k]
      /\ DOMAIN j.actions = Ids(g)
  BY <1>1 DEF Delivered, Ended, Updated
<1>4. Armed(h) = Armed(g) /\ InFlight(h) = InFlight(g) \ {i} /\ i \notin Armed(g) /\ ~g.actions[i].sealed
  BY <1>1, <1>2, <1>3 DEF Armed, InFlight, JournalAgrees, SealAgrees
<1>5. JournalAgrees(h)
  <2>1. \A k \in Ids(g) : SealAgrees(h.actions[k], j.actions[k])
    <3>1. \A k \in Ids(g) : SealAgrees(g.actions[k], g.journal.actions[k])
      BY Zenon, <1>1 DEF JournalAgrees
    <3>2. SealAgrees(h.actions[i], j.actions[i])
      BY <1>1, <1>3, <1>4, <3>1 DEF SealAgrees
    <3> QED
      BY Zenon, <1>3, <3>1, <3>2
  <2> QED
    BY <1>1, <1>2, <1>3, <2>1 DEF JournalAgrees, Updated, Delivered
<1>6. StampsArmed(h)
  BY <1>4 DEF GateInv, StampsArmed, Delivered
<1>7. AmbiguityHeld(h)
  BY <1>1, <1>2, <1>3 DEF GateInv, AmbiguityHeld, AnyAmbiguous, Delivered
<1>8. StatusLogged(h)
  <2>1. \A k \in Ids(h) : Unclean(j.actions[k]) => Unclean(h.actions[k])
    <3>1. \A k \in Ids(g) : Unclean(g.journal.actions[k]) => Unclean(g.actions[k])
      BY Zenon DEF GateInv, StatusLogged
    <3>2. ~Unclean(j.actions[i])
      BY DEF Unclean
    <3> QED
      BY Zenon, <1>2, <1>3, <3>1, <3>2
  <2>2. \A k \in Armed(h) : j.actions[k].status = "ARMED"
    <3>1. \A k \in Armed(g) : k \in Ids(g) /\ k # i /\ g.journal.actions[k].status = "ARMED"
      BY Zenon, <1>4 DEF GateInv, StatusLogged, Armed
    <3> QED
      BY Zenon, <1>3, <1>4, <3>1
  <2>3. \A k \in InFlight(h) : Unclean(j.actions[k])
    <3>1. \A k \in InFlight(g) : k \in Ids(g) /\ Unclean(g.journal.actions[k])
      BY Zenon DEF GateInv, StatusLogged, InFlight
    <3> QED
      BY Zenon, <1>3, <1>4, <3>1
  <2> QED
    BY Zenon, <1>3, <2>1, <2>2, <2>3 DEF StatusLogged
<1>9. Frozen(g, h) /\ Kept(g, h)
  <2>1. Frozen(g, h)
    BY Zenon, <1>2, <1>3, <1>4 DEF Frozen
  <2>2. Rank(g.state) <= Rank(h.state)
    BY DEF Rank, Delivered
  <2> QED
    BY Zenon, <1>4, <2>1, <2>2 DEF Kept
<1>10. \A k \in Ids(g) :
         /\ ActionKept(g.actions[k], h.actions[k])
         /\ k \notin {i} /\ Unclean(g.actions[k]) /\ Unclean(g.journal.actions[k]) =>
              Unclean(h.actions[k]) /\ Unclean(h.journal.actions[k])
  BY <1>3 DEF ActionKept
<1>11. Tame(g, h, {i})
  BY <1>1, <1>5, <1>6, <1>7, <1>8, <1>9, <1>10 DEF Tame, Delivered
<1>12. GateInv(h, F, B)
  <2>1. \A f \in F \ B : f.exec = g.bound => f.id \notin {i}
    OBVIOUS
  <2> QED
    BY <1>11, <2>1, TameKeeps
<1>13. HoldKept(h, w)
  <2>1. j.state = g.journal.state /\ j.torn = g.journal.torn
    BY DEF Updated
  <2> QED
    BY <1>1, <1>3, <1>4, <2>1 DEF HoldKept, Delivered
<1> QED
  BY <1>9, <1>12, <1>13 DEF Good, Delivered

\* More answers settle more requests.
LEMMA MoreAnswers ==
  ASSUME NEW g, NEW h, NEW F, NEW A, NEW B, NEW w, Good(g, h, F, A, w), A \subseteq B, B \subseteq F
  PROVE  Good(g, h, F, B, w)
  BY DEF Good, GateInv, Unsettled

\* Giving a request up closes its connection.
LEMMA CutClosedKeeps ==
  ASSUME NEW g, NEW F, NEW A, NEW w, GateInv(g, F, A), NEW i \in InFlight(g), NEW c \in Conns, NEW h,
         h = CloseConn([Terminate(g, i, "IO_AMBIGUOUS") EXCEPT !.state = "HELD"], c)
  PROVE  Good(g, h, F, A, w)
<1> DEFINE k == [Terminate(g, i, "IO_AMBIGUOUS") EXCEPT !.state = "HELD"]
<1>1. Good(g, k, F, A, w)
  BY CutKeeps
<1>2. h = CloseConn(k, c)
  OBVIOUS
<1> HIDE DEF k
<1>3. GateInv(k, F, A) /\ HoldKept(k, w) /\ Kept(g, k) /\ k.bound = g.bound
  BY <1>1 DEF Good
<1>4. Good(k, h, F, A, w)
  BY Zenon, <1>2, <1>3, CloseConnKeeps
<1> QED
  BY <1>3, <1>4, GoodTransitive

\* After a failed record the request is still in flight, and given up.
LEMMA CutAfterFailure ==
  ASSUME NEW g, NEW F, NEW A, NEW w, GateInv(g, F, A), NEW i \in InFlight(g), NEW c \in Conns, NEW k, NEW h,
         Failed(g, k, F, A),
         h = CloseConn([Terminate(k, i, "IO_AMBIGUOUS") EXCEPT !.state = "HELD"], c)
  PROVE  Good(g, h, F, A, w)
<1>1. i \in InFlight(k) /\ GateInv(k, F, A) /\ Kept(g, k) /\ k.bound = g.bound
  BY DEF Failed, Steady, InFlight, SameAction
<1>2. Good(k, h, F, A, w)
  BY <1>1, CutClosedKeeps
<1> QED
  BY <1>1, <1>2, GoodTransitive

\* An exchange that is lost or out of time.
LEMMA LostKeeps ==
  ASSUME NEW g, NEW F, NEW A, NEW w, GateInv(g, F, A), NEW i \in InFlight(g), NEW c \in Conns,
         NEW k \in Record(g, JTerminal(g.journal, i, "IO_AMBIGUOUS", g.actions[i].after)), NEW h,
         h = CloseConn([Terminate(k, i, "IO_AMBIGUOUS") EXCEPT !.state = "HELD"], c)
  PROVE  Good(g, h, F, A, w)
<1> DEFINE j == JTerminal(g.journal, i, "IO_AMBIGUOUS", g.actions[i].after)
<1>1. /\ g.journal \in Journal /\ i \in DOMAIN g.journal.actions /\ g.actions[i].after \in BOOLEAN
      /\ "IO_AMBIGUOUS" \in Classification
  <2>1. /\ g \in Gate /\ i \in Ids(g) /\ DOMAIN g.journal.actions = Ids(g)
    BY SameIds DEF GateInv, InFlight
  <2> QED
    <3>1. g.actions[i] \in Action
      BY <2>1 DEF Gate, Ids
    <3> QED
      BY <2>1, <3>1 DEF Gate, Action, Classification
<1>2. /\ Updated(g.journal, j, i, j.actions[i]) /\ j \in Journal
      /\ j.actions[i].status = "TERMINAL" /\ j.actions[i].class = "IO_AMBIGUOUS"
      /\ j.actions[i].sealed = g.journal.actions[i].sealed
  BY <1>1, TerminalRecord
<1>3. k \in Record(g, j)
  OBVIOUS
<1> HIDE DEF j
<1>4. CASE k.ok /\ Appended(g, k, j)
  <2>1. GateInv(k, F, A) /\ Kept(g, k) /\ k.bound = g.bound /\ i \in InFlight(k)
    BY <1>2, <1>4, AmbiguousLogged
  <2>2. Good(k, h, F, A, w)
    BY <2>1, CutClosedKeeps
  <2> QED
    BY <2>1, <2>2, GoodTransitive
<1>5. CASE ~k.ok /\ Failed(g, k, F, A)
  BY <1>5, CutAfterFailure
<1> QED
  BY <1>2, <1>3, <1>4, <1>5, RecordShape

\* The 900-second bound.
LEMMA TimeoutKeeps ==
  ASSUME NEW g, NEW F, NEW A, NEW w, GateInv(g, F, A), NEW i \in InFlight(g), NEW c \in Conns,
         NEW h \in Timeout(g, c, i)
  PROVE  Good(g, h, F, A, w)
<1>1. PICK k \in Record(g, JTerminal(g.journal, i, "IO_AMBIGUOUS", g.actions[i].after)) :
        h = CloseConn([Terminate(k, i, "IO_AMBIGUOUS") EXCEPT !.state = "HELD"], c)
  BY DEF Timeout
<1> QED
  BY <1>1, LostKeeps

\* The requests that an answer settles.
Settles(g, F, i, response) ==
  {f \in F : /\ f.exec = g.bound /\ f.id = i /\ i \in InFlight(g)
             /\ response # "lost" /\ OutcomeIsFinal(f.template.verb, response)}

\* The upstream's answer, or its loss.
LEMMA UpstreamKeeps ==
  ASSUME NEW g, NEW F, NEW A, NEW w, GateInv(g, F, A), HoldKept(g, w), NEW c \in Conns,
         NEW i \in ForwardedOn(g, c), NEW response, NEW uid \in Uids \cup {None},
         NEW h \in Upstream(g, c, i, response, uid)
  PROVE  Good(g, h, F, A \cup Settles(g, F, i, response), w)
<1> DEFINE a == g.actions[i]
           B == A \cup Settles(g, F, i, response)
           Final == response # "lost" /\ OutcomeIsFinal(a.armed.verb, response)
           class == IF Final THEN "DELIVERED_RESULT" ELSE "IO_AMBIGUOUS"
           created == a.armed.verb = "CREATE" /\ response = "created" /\ uid # None
           Made(k) == [Terminate(k, i, "DELIVERED_RESULT") EXCEPT
                         !.uids = IF created THEN @ \cup {<<a.armed.manifest, uid>>} ELSE @]
           Lost(k) == [Terminate(k, i, "IO_AMBIGUOUS") EXCEPT !.state = "HELD"]
           j == JTerminal(g.journal, i, class, a.after)
<1>1. /\ g \in Gate /\ i \in Ids(g) /\ DOMAIN g.journal.actions = Ids(g) /\ a.status # "ARMED"
      /\ a \in Action /\ g.journal \in Journal
  <2>1. g \in Gate /\ JournalAgrees(g)
    BY Zenon DEF GateInv
  <2>2. i \in Ids(g) /\ a.status # "ARMED"
    BY Zenon DEF ForwardedOn
  <2>3. g.actions \in Seq(Action) /\ g.journal \in Journal
    BY Zenon, <2>1 DEF Gate
  <2>4. DOMAIN g.journal.actions = Ids(g)
    BY Zenon, <2>1, SameIds
  <2> QED
    BY <2>1, <2>2, <2>3, <2>4 DEF Ids
<1>2. A \subseteq B /\ B \subseteq F
  BY DEF Settles, GateInv
<1>3. CASE a.status = "TERMINAL"
  <2>1. h \in Record(g, g.journal)
    BY <1>3 DEF Upstream
  <2>2. LogKept(g.journal, g.journal)
    BY LogSame
  <2>3. Good(g, h, F, A, w)
    BY <1>1, <2>1, <2>2, RecordKeeps
  <2> QED
    BY <1>2, <2>3, MoreAnswers
<1>4. CASE a.status # "TERMINAL"
  <2>1. i \in InFlight(g)
    BY <1>1, <1>4 DEF InFlight, Action, Status
  <2>2. PICK k \in Record(g, j) :
          h = CloseConn(IF k.ok /\ class = "DELIVERED_RESULT" THEN Made(k) ELSE Lost(k), c)
    BY Zenon, <1>4 DEF Upstream
  <2>3. CASE ~Final
    <3>1. k \in Record(g, JTerminal(g.journal, i, "IO_AMBIGUOUS", g.actions[i].after))
      BY <2>3
    <3>2. h = CloseConn([Terminate(k, i, "IO_AMBIGUOUS") EXCEPT !.state = "HELD"], c)
      BY <2>2, <2>3
    <3>3. Good(g, h, F, A, w)
      BY <2>1, <3>1, <3>2, LostKeeps
    <3> QED
      BY <1>2, <3>3, MoreAnswers
  <2>4. CASE Final
    <3>1. class = "DELIVERED_RESULT" /\ class \in Classification /\ a.after \in BOOLEAN
      BY <1>1, <2>4 DEF Classification, Action
    <3> HIDE DEF class
    <3>2. /\ Updated(g.journal, j, i, j.actions[i]) /\ j \in Journal
          /\ j.actions[i].status = "TERMINAL" /\ j.actions[i].class = "DELIVERED_RESULT"
          /\ j.actions[i].sealed = g.journal.actions[i].sealed
      <4>1. g.journal \in Journal /\ i \in DOMAIN g.journal.actions
        BY <1>1
      <4>2. j = JTerminal(g.journal, i, "DELIVERED_RESULT", a.after)
        BY <3>1
      <4>3. "DELIVERED_RESULT" \in Classification /\ a.after \in BOOLEAN
        BY <3>1
      <4> HIDE DEF j, a
      <4> QED
        BY <4>1, <4>2, <4>3, TerminalRecord
    <3> HIDE DEF j
    <3>3. CASE ~k.ok /\ Failed(g, k, F, A)
      <4>1. h = CloseConn([Terminate(k, i, "IO_AMBIGUOUS") EXCEPT !.state = "HELD"], c)
        BY <2>2, <3>3
      <4>2. Good(g, h, F, A, w)
        BY <2>1, <3>3, <4>1, CutAfterFailure
      <4> QED
        BY <1>2, <4>2, MoreAnswers
    <3>4. CASE k.ok /\ Appended(g, k, j)
      <4> DEFINE t == Terminate(k, i, "DELIVERED_RESULT")
                 u == IF created THEN t.uids \cup {<<a.armed.manifest, uid>>} ELSE t.uids
      <4>1. Made(k) = [t EXCEPT !.uids = u]
        OBVIOUS
      <4>2. a.armed \in Template
        BY <1>1, <1>4 DEF GateInv, TemplatesOfRun
      <4>3. k \in Gate /\ i \in Ids(k)
        BY Zenon, <1>1, <3>2, <3>4 DEF Appended, Gate, Ids
      <4>4. t \in Gate
        BY <4>3, TerminateShape DEF Classification
      <4>5. u \in SUBSET (Manifests \X Uids)
        BY <4>2, <4>4 DEF Gate, Template
      <4>6. Delivered(g, Made(k), j, i)
        <5> HIDE DEF u
        <5> QED
          BY <1>1, <3>2, <3>4, <4>1, <4>5, DeliveredShape
      <4>7. \A f \in F \ B : f.exec = g.bound => f.id # i
        <5>1. ASSUME NEW f \in F, f.exec = g.bound, f.id = i
              PROVE  f \in Settles(g, F, i, response)
          <6>1. f.template = a.armed
            BY <2>1, <5>1 DEF GateInv, ForwardedKnown, InFlight
          <6> QED
            BY <2>1, <2>4, <5>1, <6>1 DEF Settles
        <5> QED
          BY <5>1
      <4>8. Good(g, Made(k), F, B, w)
        <5> HIDE DEF Made, B
        <5> QED
          BY Zenon, <1>2, <2>1, <3>2, <4>6, <4>7, DeliveredKeeps
      <4>9. h = CloseConn(Made(k), c)
        BY <2>2, <3>1, <3>4
      <4> HIDE DEF Made, B
      <4>10. /\ GateInv(Made(k), F, B) /\ HoldKept(Made(k), w) /\ Kept(g, Made(k))
             /\ Made(k).bound = g.bound
        BY <4>8 DEF Good
      <4>11. Good(Made(k), h, F, B, w)
        BY Zenon, <4>9, <4>10, CloseConnKeeps
      <4>12. Good(g, h, F, B, w)
        BY <4>10, <4>11, GoodTransitive
      <4> QED
        BY <4>12 DEF B
    <3> QED
      BY <2>2, <3>2, <3>3, <3>4, RecordShape
  <2> QED
    BY <2>3, <2>4
<1> QED
  BY <1>3, <1>4

=============================================================================
