------------------------------- MODULE GateWire -------------------------------
(***************************************************************************)
(* The gate with the two ports of its event loop: the I04 server that      *)
(* accepts the workers' connections (gate-tls/src/i04.rs), the upstream    *)
(* client that forwards to the apiserver (upstream.rs), the exchange board *)
(* between them (exchange.rs), and the loop's rules for feeding their      *)
(* events to the model (effect-gate/src/substrate.rs).                     *)
(*                                                                         *)
(* The loop is one thread.  A call of a port returns a list of events,     *)
(* `lane'; they are fed one by one, and after every one both ports see the *)
(* model's output (`apply') and the model's new state (`sync').  Every     *)
(* call but the pre-frame drain can be the only one of its wake, so the    *)
(* order of the calls is free.  A deadline may be due at any wake.         *)
(* TLS and HTTP are kept as what a read may come to: more to read, a whole *)
(* request or answer, or the end of the connection.                        *)
(***************************************************************************)
EXTENDS PolicyGate, SequencesExt

CONSTANTS
  Cap,        \* connections held at once
  AcceptsPerReady, \* accepts of one readiness of the listener
  DrainLimit  \* accepts of one pre-frame drain before the port fails

ASSUME WireBoundAssumption == Cap \in Nat /\ AcceptsPerReady \in Nat /\ DrainLimit \in Nat

VARIABLES
  port,    \* the two ports and the board
  lane,    \* events and checks of the current call, not yet fed
  queue,   \* connections waiting in the I04 listener
  used,    \* connections that ever connected: a source id is not reused
  early,   \* those waiting when the frame being processed was received
  exit     \* why the loop stopped, or None

wireVars == <<policyVars, port, lane, queue, used, early, exit>>

-----------------------------------------------------------------------------
(* The ports' state.                                                       *)

\* "reading" is the handshake and the request, "relaying" the response and
\* the linger after it: the two halves differ in their deadlines only.
Phase == {"none", "reading", "fed", "inflight", "relaying"}

PortConn == [phase : Phase, confirmed : BOOLEAN, gone : BOOLEAN]

NoConn == [phase |-> "none", confirmed |-> FALSE, gone |-> FALSE]

StagedRequest == [conn : Conns, action : 0..MaxActions]

\* The one open exchange: of a worker's connection, or of a policy write.
\* "exchanging" starts with the connect.
Open == [conn : Conns \cup {None}, write : 0..MaxWrites, phase : {"armed", "exchanging", "expired"}]

Port == [conns : [Conns -> PortConn], fed : Conns \cup {None}, inflight : Conns \cup {None},
         request : StagedRequest \cup {None}, response : Conns \cup {None},
         up : Open \cup {None}, started : 0..MaxWrites, failed : BOOLEAN]

InitialPort ==
  [conns |-> [c \in Conns |-> NoConn], fed |-> None, inflight |-> None,
   request |-> None, response |-> None, up |-> None, started |-> 0, failed |-> FALSE]

Live(p) == {c \in Conns : p.conns[c].phase # "none" /\ ~p.conns[c].gone}

Fail(p) == [p EXCEPT !.failed = TRUE]

\* I04Server::close: the entry goes, and the mark that it is in flight.
CloseEntry(p, c) ==
  [p EXCEPT !.conns[c] = NoConn, !.inflight = IF @ = c THEN None ELSE @]

-----------------------------------------------------------------------------
(* The events a call may return.                                           *)

Ev(kind, c) == [kind |-> kind, conn |-> c]

Check == Ev("check", None)

\* Calls of `accept': the waiting connections in order, those over the cap
\* closed unfed.
Admitted(p, waiting) ==
  LET Take(q, c) == IF Cardinality(Live(q)) >= Cap THEN q
                    ELSE [q EXCEPT !.conns[c] = [NoConn EXCEPT !.phase = "reading"]]
  IN FoldLeft(Take, p, waiting)

AcceptEvents(p, q, waiting) ==
  LET new == SelectSeq(waiting, LAMBDA c : q.conns[c].phase # p.conns[c].phase)
  IN FlattenSeq([k \in DOMAIN new |-> <<Ev("backlog", new[k]), Ev("accept", new[k])>>])

\* The port ends a connection before its request: the model hears of it once
\* it holds it.
DisconnectEvents(p, c) == IF p.conns[c].confirmed THEN <<Ev("disconnect", c)>> ELSE <<>>

-----------------------------------------------------------------------------
(* The ports' `apply' on an output of the model, and `sync' on its state.  *)

Nothing == [kind |-> "nothing", action |-> 0, relay |-> FALSE]
Output(kind, i, relay) == [kind |-> kind, action |-> i, relay |-> relay]

\* start_relay: the staged response goes to the connection in flight.
StartRelay(p) ==
  LET c == p.inflight
      taken == [p EXCEPT !.response = None, !.inflight = None]
  IN IF c = None THEN Fail(taken)
     ELSE IF p.response # c THEN Fail(CloseEntry(taken, c))
     ELSE IF p.conns[c].gone THEN CloseEntry(taken, c)
     ELSE [taken EXCEPT !.conns[c].phase = "relaying"]

I04Apply(p, out) ==
  IF out.kind = "close"
    THEN LET q == IF p.fed = None THEN p ELSE CloseEntry(p, p.fed)
         IN [q EXCEPT !.fed = None, !.request = None]
  ELSE IF out.kind = "forward"
    THEN IF p.fed = None \/ p.conns[p.fed].phase = "none" THEN Fail([p EXCEPT !.fed = None])
         ELSE LET staged == p.request # None /\ p.request.conn = p.fed /\ p.request.action = 0
                  q == [p EXCEPT !.conns[p.fed].phase = "inflight", !.inflight = p.fed, !.fed = None]
              IN IF staged THEN [q EXCEPT !.request.action = out.action] ELSE Fail(q)
  ELSE IF out.kind = "upstream"
    THEN IF out.relay THEN StartRelay(p)
         ELSE LET q == [p EXCEPT !.response = None]
              IN IF p.inflight = None THEN Fail(q) ELSE CloseEntry(q, p.inflight)
  ELSE IF out.kind = "late" THEN [p EXCEPT !.response = None]
  ELSE p

\* The request is taken from the board only under its own action.
UpstreamApply(p, out) ==
  IF out.kind # "forward" THEN p
  ELSE IF p.up # None \/ p.request = None THEN Fail(p)
  ELSE IF p.request.action # out.action THEN Fail(p)
  ELSE [p EXCEPT !.request = None,
                 !.up = [conn |-> p.request.conn, write |-> 0, phase |-> "armed"]]

\* A connection is confirmed by the first sync that sees it open, and after
\* that closed by the first one that does not, unless its answer is being
\* relayed.
SyncConn(conn, open) ==
  IF conn.phase = "none" THEN conn
  ELSE IF ~conn.confirmed THEN [conn EXCEPT !.confirmed = open]
  ELSE IF open \/ conn.phase = "relaying" THEN conn
  ELSE NoConn

I04Sync(p, g) ==
  LET conns == [c \in Conns |-> SyncConn(p.conns[c], g.conns[c].phase = "open")]
  IN [p EXCEPT !.conns = conns,
               !.inflight = IF @ # None /\ conns[@].phase = "none" THEN None ELSE @]

\* Mutant: an exchange the model has given up stays open.
UpstreamSyncKeeping(p, g, w) ==
  IF w.pending = 0 \/ w.pending = p.started THEN p
  ELSE [p EXCEPT !.started = w.pending,
                 !.up = [conn |-> None, write |-> w.pending, phase |-> "armed"]]

\* An exchange the model has given up is closed, and a write it forwarded is
\* started.
UpstreamSync(p, g, w) ==
  LET aborted == p.up # None /\ IF p.up.conn # None THEN g.conns[p.up.conn].phase # "open"
                                ELSE w.pending # p.up.write
      q == IF aborted THEN [p EXCEPT !.up = None] ELSE p
  IN IF w.pending = 0 \/ w.pending = q.started THEN q
     ELSE IF q.up # None THEN Fail([q EXCEPT !.started = w.pending])
     ELSE [q EXCEPT !.started = w.pending,
                    !.up = [conn |-> None, write |-> w.pending, phase |-> "armed"]]

\* `deliver' after the model has handled the event.
Delivered(p, out) ==
  port' = UpstreamSync(I04Sync(UpstreamApply(I04Apply(p, out), out), gate'), gate', policy')

-----------------------------------------------------------------------------
(* Feeding the lane.                                                       *)

Feeding(kind) == exit = None /\ lane # <<>> /\ lane[1].kind = kind

\* The event is handled; the failure of a port stops the loop.
Fed(out) ==
  /\ Delivered(port, out)
  /\ lane' = Tail(lane)
  /\ exit' = IF port'.failed THEN "port" ELSE None
  /\ early' = IF Len(lane) = 1 THEN {} ELSE early
  /\ UNCHANGED <<queue, used>>

\* An event outside the model's preconditions stops the loop.
Refuse ==
  /\ exit' = "refused"
  /\ UNCHANGED <<policyVars, port, lane, queue, used, early>>

FeedBacklog == \E c \in Conns :
  Feeding("backlog") /\ lane[1].conn = c /\ (PBacklog(c) /\ Fed(Nothing))

FeedAccept == \E c \in Conns :
  /\ Feeding("accept") /\ lane[1].conn = c
  /\ IF gate.conns[c].phase = "queued" THEN PAccept(c) /\ Fed(Nothing) ELSE Refuse

FeedDisconnect == \E c \in Conns :
  /\ Feeding("disconnect") /\ lane[1].conn = c
  /\ IF gate.conns[c].phase \in {"open", "closed"} /\ gate.conns[c].requests = 0
       THEN PDisconnect(c) /\ Fed(Nothing) ELSE Refuse

\* The decision closes the connection or forwards its request.
Decision ==
  LET sent == InFlight(gate') \ InFlight(gate)
  IN IF sent = {} THEN Output("close", 0, FALSE)
     ELSE Output("forward", CHOOSE i \in sent : TRUE, FALSE)

FeedRequest == \E c \in Conns, exact \in BOOLEAN :
  /\ Feeding("request") /\ lane[1].conn = c
  /\ IF gate.conns[c].phase \in {"open", "closed"} THEN PRequest(c, exact) /\ Fed(Decision) ELSE Refuse

\* The answer is relayed once its TERMINAL record is durable.
AnswerOutput(i, lost) ==
  IF gate.actions[i].status = "TERMINAL" THEN Output("late", i, FALSE)
  ELSE Output("upstream", i, ~lost /\ gate'.journal.actions[i].status = "TERMINAL")

\* An answer whose object the kind journals carries its uid, or is LOST.
FeedResponse == \E c \in Conns, response \in Response :
  LET on == ForwardedOn(gate, c) IN
  /\ Feeding("response") /\ lane[1].conn = c
  /\ IF on # {}
       THEN \E i \in on, uid \in IF response \in {"created", "ok"} THEN Uids ELSE {None} :
              PUpstream(c, i, response, uid) /\ Fed(AnswerOutput(i, FALSE))
       ELSE Refuse

FeedLost == \E c \in Conns :
  LET on == ForwardedOn(gate, c) IN
  /\ Feeding("lost") /\ lane[1].conn = c
  /\ IF on # {}
       THEN \E i \in on : PUpstream(c, i, "lost", None) /\ Fed(AnswerOutput(i, TRUE))
       ELSE Refuse

FeedTimeout == \E c \in Conns :
  LET on == ForwardedOn(gate, c) \cap InFlight(gate) IN
  /\ Feeding("timeout") /\ lane[1].conn = c
  /\ IF on # {}
       THEN \E i \in on : PTimeout(c, i) /\ Fed(Output("upstream", i, FALSE))
       ELSE Refuse

\* The outcome of a policy write: the event carries its id as `conn'.
FeedWrite == \E id \in 1..MaxWrites, final \in BOOLEAN :
  /\ Feeding("write") /\ lane[1].conn = id
  /\ IF id \in DOMAIN policy.writes THEN OnWriteUpstream(id, final) /\ Fed(Nothing) ELSE Refuse

\* check_expiry: the realtime clock has reached the bound run's end, or not.
FeedCheck ==
  /\ Feeding("check")
  /\ \/ PExpire /\ Fed(Nothing)
     \/ lane' = Tail(lane) /\ UNCHANGED <<policyVars, port, queue, used, early, exit>>

\* Mutant: the frame is handled before the listener's readiness.
DrainNone(waiting) == <<>>

\* drain_backlog accepts until the listener is empty.
Drained(waiting) == waiting

FeedDrain ==
  /\ Feeding("drain")
  /\ IF Len(queue) > DrainLimit
       THEN exit' = "flood" /\ UNCHANGED <<policyVars, port, lane, queue, used, early>>
       ELSE LET taken == Drained(queue) IN
            /\ port' = Admitted(port, taken)
            /\ lane' = AcceptEvents(port, port', taken) \o Tail(lane)
            /\ queue' = SubSeq(queue, Len(taken) + 1, Len(queue))
            /\ UNCHANGED <<policyVars, used, early, exit>>

\* A request of the broker: refused with a response, or one of the operations.
Frame ==
  \/ UNCHANGED policyVars
  \/ POpen \/ PFatal
  \/ \E e \in Executions :
       \/ \E r \in Runs : PBind(e, r)
       \/ \E t \in Template : PArm(e, t)
       \/ \E i \in 1..MaxActions : POutcome(e, i)
  \/ \E reason \in CloseReason : PClose(reason)

\* The frame is fed when the model's channel still stands.
FeedFrame ==
  /\ Feeding("frame")
  /\ IF gate.channel # "CLOSED"
       THEN Frame /\ Fed(Nothing)
       ELSE lane' = Tail(lane) /\ early' = {} /\ UNCHANGED <<policyVars, port, queue, used, exit>>

Feed ==
  \/ FeedBacklog \/ FeedAccept \/ FeedDisconnect \/ FeedRequest \/ FeedResponse \/ FeedLost
  \/ FeedTimeout \/ FeedWrite \/ FeedCheck \/ FeedDrain \/ FeedFrame

-----------------------------------------------------------------------------
(* The calls of a wake.                                                    *)

Waking == exit = None /\ lane = <<>>

\* A call that only changes a port and returns events.
Call(p, events) ==
  /\ Waking
  /\ port' = p
  /\ lane' = events
  /\ exit' = IF p.failed THEN "port" ELSE None
  /\ UNCHANGED <<policyVars, queue, used, early>>

\* The listener is ready: at most as many accepts as a readiness allows,
\* fewer when a call of accept was skipped.
AcceptReady ==
  /\ Waking
  /\ \E k \in 1..AcceptsPerReady : k <= Len(queue) /\
       LET taken == SubSeq(queue, 1, k) IN
       /\ port' = Admitted(port, taken)
       /\ lane' = AcceptEvents(port, port', taken)
       /\ queue' = SubSeq(queue, k + 1, Len(queue))
  /\ UNCHANGED <<policyVars, used, early, exit>>

\* A whole request has been read: staged on the board, and fed after the
\* check of the expiry.
RequestRead(c) ==
  /\ port.conns[c].phase = "reading"
  /\ LET p == [port EXCEPT !.conns[c].phase = "fed", !.fed = c] IN
     Call(IF p.request = None THEN [p EXCEPT !.request = [conn |-> c, action |-> 0]] ELSE Fail(p),
          <<Check, Ev("request", c)>>)

\* End of file, or a failed read or handshake.
EndBeforeRequest(c) ==
  /\ port.conns[c].phase = "reading"
  /\ Call(CloseEntry(port, c), DisconnectEvents(port, c))

\* The client hangs up while its request is in flight: only its descriptor goes.
HangUpInFlight(c) ==
  /\ port.conns[c].phase = "inflight" /\ ~port.conns[c].gone
  /\ Call([port EXCEPT !.conns[c].gone = TRUE], <<>>)

\* Mutant: the end of an answered connection is fed to the model too.
EndAfterAnswerFed(c) == port.conns[c].phase = "relaying" /\ Call(CloseEntry(port, c), DisconnectEvents(port, c))

\* The response is written out and the client is gone, or a send has failed.
EndAfterAnswer(c) == port.conns[c].phase = "relaying" /\ Call(CloseEntry(port, c), <<>>)

\* due: every connection whose deadline has passed is ended in one call; the
\* model hears of those that had no request yet.
DeadlinesDue ==
  \E due \in SUBSET {c \in Conns : port.conns[c].phase \in {"reading", "relaying"}} \ {{}} :
    \E order \in SetToSeqs(due) :
      Call(FoldLeft(CloseEntry, port, order),
           FlattenSeq([k \in DOMAIN order |->
             IF port.conns[order[k]].phase = "reading" THEN DisconnectEvents(port, order[k]) ELSE <<>>]))

OutcomeEvent(kind) ==
  IF port.up.conn # None THEN <<Ev(kind, port.up.conn)>> ELSE <<Ev("write", port.up.write)>>

\* The connect at the start deadline; its handshake and the request follow.
Connecting ==
  port.up # None /\ port.up.phase = "armed" /\ Call([port EXCEPT !.up.phase = "exchanging"], <<>>)

\* A failed connect, handshake, send or read, a refused answer, or a phase deadline.
Lose ==
  /\ port.up # None /\ port.up.phase # "expired"
  /\ Call([port EXCEPT !.up = None], OutcomeEvent("lost"))

\* A complete answer within the bound: staged for the I04 port, then fed.
Complete ==
  /\ port.up # None /\ port.up.phase = "exchanging"
  /\ LET p == [port EXCEPT !.up = None] IN
     IF port.up.conn = None THEN Call(p, OutcomeEvent("response"))
     ELSE IF port.response # None THEN Call(Fail(p), <<>>)
     ELSE Call([p EXCEPT !.response = port.up.conn], OutcomeEvent("response"))

\* A complete answer past the bound is dropped: the timeout follows.
CompleteLate ==
  /\ port.up # None /\ port.up.phase = "exchanging"
  /\ Call([port EXCEPT !.up.phase = "expired"], <<>>)

Bound ==
  /\ port.up # None
  /\ Call([port EXCEPT !.up = None], OutcomeEvent("timeout"))

Wake == Call(port, <<Check>>)

\* A datagram of the broker: the pre-frame steps, then the frame.
ReceiveFrame ==
  /\ Waking /\ gate.channel # "CLOSED"
  /\ lane' = <<Check, Ev("drain", None), Ev("frame", None)>>
  /\ early' = ToSet(queue)
  /\ UNCHANGED <<policyVars, port, queue, used, exit>>

\* Events of the two channels that are fed alone.
ChannelEvent ==
  /\ Waking
  /\ \/ PChannelLost \/ PFatal
     \/ OnConnect \/ OnWriterLost \/ OnWriterFatal \/ OnDeviation \/ OnOpenSession
     \/ OnBegin \/ OnWriteObject \/ OnWriteEnd
  /\ Delivered(port, Nothing)
  /\ exit' = IF port'.failed THEN "port" ELSE None
  /\ UNCHANGED <<lane, queue, used, early>>

\* A worker connects.
Connects(c) ==
  /\ c \notin used
  /\ queue' = Append(queue, c) /\ used' = used \cup {c}
  /\ UNCHANGED <<policyVars, port, lane, early, exit>>

\* The process dies, or has stopped, and starts again: the sockets are gone.
Restart ==
  /\ PProcessRestart
  /\ port' = InitialPort /\ lane' = <<>> /\ queue' = <<>> /\ early' = {} /\ exit' = None
  /\ UNCHANGED used

WireInit ==
  /\ PolicyInit
  /\ port = InitialPort /\ lane = <<>> /\ queue = <<>> /\ used = {} /\ early = {}
  /\ exit = None

UpstreamCall == Connecting \/ Lose \/ Complete \/ CompleteLate \/ Bound

I04Call ==
  \/ AcceptReady
  \/ DeadlinesDue
  \/ \E c \in Conns :
       RequestRead(c) \/ EndBeforeRequest(c) \/ HangUpInFlight(c) \/ EndAfterAnswer(c)

WireNext ==
  \/ Feed \/ UpstreamCall \/ I04Call \/ Wake \/ ReceiveFrame \/ ChannelEvent
  \/ \E c \in Conns : Connects(c)
  \/ Restart

WireSpec == WireInit /\ [][WireNext]_wireVars

-----------------------------------------------------------------------------
(* Properties.                                                             *)

\* But for a failing system call, the loop stops for a flood of connections
\* only: no port ever feeds an event outside the model's preconditions, finds
\* the board in the wrong state, or gets an outcome with nothing in flight.
\* And between two calls the I04 port holds exactly the connections the model
\* holds open, none of them unconfirmed or waiting for a decision, and an
\* exchange is open exactly for what the model waits for: the action in
\* flight, or the outstanding write.
PortsAgree ==
  /\ exit \notin {"refused", "port"}
  /\ lane = <<>> /\ exit = None =>
    /\ \A c \in Conns :
         /\ port.conns[c].phase \in {"reading", "inflight"} <=> gate.conns[c].phase = "open"
         /\ port.conns[c].phase # "fed" /\ (port.conns[c].phase # "none" => port.conns[c].confirmed)
         /\ (port.up # None /\ port.up.conn = c) <=> \E i \in InFlight(gate) : gate.actions[i].conn = c
    /\ \A id \in 1..MaxWrites : (port.up # None /\ port.up.write = id) <=> policy.pending = id

\* C2: no connection that waited when a frame was received is still waiting
\* when the model handles it, so an ARM's flush misses none.
DrainedBeforeFrame ==
  [][Feeding("frame") /\ gate' # gate => early \cap ToSet(queue) = {}]_wireVars
=============================================================================
