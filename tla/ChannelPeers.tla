----------------------------- MODULE ChannelPeers -----------------------------
(***************************************************************************)
(* The gate's two local channels and the peers behind them                 *)
(* (effect-gate/src/substrate.rs): the I05 channel of the broker and the   *)
(* I07 channel of the policy writer, over SOCK_SEQPACKET sockets.          *)
(*                                                                         *)
(* An accepted connection is qualified by a sequence of calls about a      *)
(* process that may exit, and whose pid may be used again, between any two *)
(* of them; every datagram of a held connection is checked the same way    *)
(* (`custody').  The other end of a connection may be inherited or passed  *)
(* on, so the sender of a datagram need not be the process that connected. *)
(*                                                                         *)
(* Of the gate's model only what the channels see is kept: the state of    *)
(* the generation's one I05 channel and whether an I07 session exists.     *)
(* A process is `good' while every check of it (label, uid, gid, cgroup,   *)
(* the writer's executable) would pass; it may change by an exec or a move *)
(* at any time.                                                            *)
(***************************************************************************)
EXTENDS Naturals, Sequences, FiniteSets

CONSTANTS
  MaxProcs,  \* processes ever started
  Pids,      \* process ids
  MaxConns,  \* connections ever made
  MaxInbox,  \* datagrams waiting on one connection
  MaxBusy,   \* connections with datagrams waiting
  None

ASSUME PeersAssumption ==
  /\ {MaxProcs, MaxConns, MaxInbox, MaxBusy} \subseteq Nat
  /\ None \notin Nat \cup Pids /\ None \notin [conn : Nat, dir : Nat] /\ None \notin {"I05", "I07"}

\* Process incarnations and connections, numbered in the order they come.
Procs == 1 .. MaxProcs
Conns == 1 .. MaxConns

\* Any other process, one that never has a pid of Pids.
Other == 0

Side == {"I05", "I07"}

VARIABLES
  proc,     \* the processes
  conn,     \* the connections, with what waits on them
  held,     \* the connection held on each channel, with its qualified identity
  loop,     \* the step the loop is at, and the connection it is about
  channel,  \* Gate::channel
  session,  \* whether PolicyGate has a writer session
  pending,  \* whether it has forwarded a write whose outcome is awaited
  refused,  \* history: the model refused an event
  foreign   \* history: a frame was fed that the connection's opener did not send

vars == <<proc, conn, held, loop, channel, session, pending, refused, foreign>>

Proc == [life : {"unborn", "live", "dead"}, pid : Pids \cup {None}, good : BOOLEAN]

Datagram == [pid : Pids \cup {None}, good : BOOLEAN, sender : Procs \cup {Other}]

\* `good' is what SO_PEERCRED and SO_PEERSEC recorded at the connect.
Conn == [state : {"new", "queued", "open", "closed"}, side : Side \cup {None},
         opener : Procs \cup {None}, good : BOOLEAN, holders : SUBSET (Procs \cup {Other}),
         inbox : Seq(Datagram)]

\* `dir' is the process whose /proc directory was opened for the connection.
Held == [conn : Conns, dir : Procs]

NoConn(state, side) ==
  [state |-> state, side |-> side, opener |-> None, good |-> FALSE, holders |-> {}, inbox |-> <<>>]

\* The steps of the loop, in the order it takes them.
Qualifying == {"peer", "open", "read", "exe", "pidfd"}
Checking == {"custody", "custodyExe", "probe"}

LoopStep == [at : {"wait"} \cup Qualifying \cup Checking, conn : Conns \cup {None},
             dir : Procs \cup {None}, from : Procs \cup {Other, None}]

Waiting == [at |-> "wait", conn |-> None, dir |-> None, from |-> None]

TypeOK ==
  /\ proc \in [Procs -> Proc]
  /\ conn \in [Conns -> Conn]
  /\ held \in [Side -> Held \cup {None}]
  /\ loop \in LoopStep
  /\ channel \in {"UNOPENED", "OPEN", "CLOSED"}
  /\ session \in BOOLEAN /\ pending \in BOOLEAN /\ refused \in BOOLEAN /\ foreign \in BOOLEAN

Init ==
  /\ proc = [p \in Procs |-> [life |-> "unborn", pid |-> None, good |-> FALSE]]
  /\ conn = [c \in Conns |-> NoConn("new", None)]
  /\ held = [s \in Side |-> None]
  /\ loop = Waiting
  /\ channel = "UNOPENED" /\ session = FALSE /\ pending = FALSE
  /\ refused = FALSE /\ foreign = FALSE

Live == {p \in Procs : proc[p].life = "live"}

-----------------------------------------------------------------------------
(* The processes and their sockets.                                        *)

Outside == UNCHANGED <<held, loop, channel, session, pending, refused, foreign>>

\* A process starts under a pid no live process has.
Spawn(p, x) ==
  /\ proc[p].life = "unborn" /\ \A q \in 1 .. p - 1 : proc[q].life # "unborn"
  /\ \A q \in Live : proc[q].pid # x
  /\ \E good \in BOOLEAN : proc' = [proc EXCEPT ![p] = [life |-> "live", pid |-> x, good |-> good]]
  /\ UNCHANGED conn /\ Outside

\* An exec, a move to another cgroup, a replaced executable.
Change(p) ==
  /\ p \in Live
  /\ proc' = [proc EXCEPT ![p].good = ~@]
  /\ UNCHANGED conn /\ Outside

Exit(p) ==
  /\ p \in Live
  /\ proc' = [proc EXCEPT ![p].life = "dead", ![p].good = FALSE]
  /\ conn' = [c \in Conns |-> [conn[c] EXCEPT !.holders = @ \ {p}]]
  /\ Outside

Connect(p, c) ==
  /\ p \in Live /\ conn[c].state = "new" /\ \A d \in 1 .. c - 1 : conn[d].state # "new"
  /\ \E s \in Side :
       conn' = [conn EXCEPT ![c] = [state |-> "queued", side |-> s, opener |-> p, good |-> proc[p].good,
                                    holders |-> {p}, inbox |-> <<>>]]
  /\ UNCHANGED proc /\ Outside

\* The descriptor is inherited or passed on.
Share(c, q) ==
  /\ q \in (Live \cup {Other}) \ conn[c].holders /\ conn[c].holders # {}
  /\ conn' = [conn EXCEPT ![c].holders = @ \cup {q}]
  /\ UNCHANGED proc /\ Outside

HangUp(p, c) ==
  /\ p \in conn[c].holders
  /\ conn' = [conn EXCEPT ![c].holders = @ \ {p}]
  /\ UNCHANGED proc /\ Outside

\* The kernel attaches the sender's pid and label to a datagram.
Send(p, c) ==
  /\ p \in Live \cup {Other} /\ p \in conn[c].holders /\ conn[c].state \in {"queued", "open"}
  /\ Len(conn[c].inbox) < MaxInbox /\ Cardinality({d \in Conns : conn[d].inbox # <<>>} \cup {c}) <= MaxBusy
  /\ conn' = [conn EXCEPT ![c].inbox = Append(@, IF p = Other
       THEN [pid |-> None, good |-> TRUE, sender |-> Other]
       ELSE [pid |-> proc[p].pid, good |-> proc[p].good, sender |-> p])]
  /\ UNCHANGED proc /\ Outside

-----------------------------------------------------------------------------
(* What the model answers to the channels' events.                         *)

CloseConn(c) == conn' = [conn EXCEPT ![c] = NoConn("closed", @.side)]

\* drop_held.
DropHeld(s) == held' = [held EXCEPT ![s] = None] /\ CloseConn(held[s].conn)

\* ChannelLost uses up the generation's one channel; WChannelLost, WPeerChanged
\* and WAnswerLate end the session and abort its write.
Lost(s) ==
  IF s = "I05" THEN channel' = "CLOSED" /\ UNCHANGED <<session, pending>>
  ELSE session' = FALSE /\ pending' = FALSE /\ UNCHANGED channel

\* A frame of the I05 channel is answered, or ends the channel: it is fatal, or
\* its answer is late (AnswerLate) or cannot be sent (ChannelLost).
FrameI05 ==
  \/ channel' = "OPEN" /\ UNCHANGED <<held, conn, session, pending, refused>>
  \/ Lost("I05") /\ DropHeld("I05") /\ UNCHANGED refused

\* A frame of the I07 channel is answered, is forwarded, or ends the session:
\* it is fatal (a frame before the answer of a forwarded write is), or its
\* answer is late or cannot be sent.  The model refuses one without a session.
FrameI07 ==
  /\ refused' = (refused \/ ~session)
  /\ \/ ~pending /\ pending' \in BOOLEAN /\ UNCHANGED <<held, conn, channel, session>>
     \/ Lost("I07") /\ DropHeld("I07")

\* Mutant: a peer that deviates before its first frame is only disconnected.
DeviationUnfed(s) ==
  /\ IF s = "I05" /\ channel = "UNOPENED" THEN UNCHANGED <<channel, session, pending>> ELSE Lost(s)
  /\ DropHeld(s)
  /\ loop' = Waiting
  /\ UNCHANGED <<proc, refused, foreign>>

\* PeerChanged closes an open channel, the generation held; before the first
\* frame it is nothing, and ChannelLost follows.  WPeerChanged ends the session.
Deviation(s) ==
  /\ Lost(s)
  /\ DropHeld(s)
  /\ loop' = Waiting
  /\ UNCHANGED <<proc, refused, foreign>>

-----------------------------------------------------------------------------
(* Accepting and qualifying a connection.                                  *)

At(step) == loop.at = step

Goto(step) == loop' = [loop EXCEPT !.at = step]

LoopOnly == UNCHANGED <<proc, conn, held, channel, session, pending, refused, foreign>>

\* A connection that is not to be qualified is closed; the I05 listener feeds
\* it as SecondChannel, which the model refuses before the first frame, unless
\* the first connection is still without a frame.
TurnAway(c) ==
  /\ CloseConn(c)
  /\ refused' = (refused \/ (conn[c].side = "I05" /\ channel = "UNOPENED" /\ held["I05"] = None))
  /\ UNCHANGED <<proc, held, loop, channel, session, pending, foreign>>

\* The generation's first I05 connection is qualified, and an I07 connection
\* while no session exists.
Accept(c) ==
  /\ At("wait") /\ conn[c].state = "queued"
  /\ IF IF conn[c].side = "I05" THEN channel = "UNOPENED" /\ held["I05"] = None ELSE ~session
       THEN loop' = [Waiting EXCEPT !.at = "peer", !.conn = c] /\ LoopOnly
       ELSE TurnAway(c)

\* Any call of the qualification may fail, and a check may not pass: on I05
\* the channel is used up, on I07 the connection is closed unfed.
Unqualified ==
  /\ loop.at \in Qualifying
  /\ IF conn[loop.conn].side = "I05" THEN Lost("I05") ELSE UNCHANGED <<channel, session, pending>>
  /\ CloseConn(loop.conn)
  /\ loop' = Waiting
  /\ UNCHANGED <<proc, held, refused, foreign>>

\* SO_PEERCRED, SO_PEERSEC, SO_PEERPIDFD.
QualifyPeer == At("peer") /\ Goto("open") /\ LoopOnly

\* The directory of whichever process has the pid now.
QualifyOpen ==
  /\ At("open")
  /\ \E p \in Live :
       /\ proc[p].pid = proc[conn[loop.conn].opener].pid
       /\ loop' = [loop EXCEPT !.at = "read", !.dir = p]
  /\ LoopOnly

\* A read through the directory of an exited process fails; then the labels of
\* process and socket, the ids and the cgroup.
QualifyRead ==
  /\ At("read") /\ loop.dir \in Live /\ proc[loop.dir].good /\ conn[loop.conn].good
  /\ Goto(IF conn[loop.conn].side = "I07" THEN "exe" ELSE "pidfd")
  /\ LoopOnly

QualifyExe == At("exe") /\ loop.dir \in Live /\ proc[loop.dir].good /\ Goto("pidfd") /\ LoopOnly

\* The connection is held, on I07 after WConnect answered Session.
Hold ==
  LET s == conn[loop.conn].side IN
  /\ held' = [held EXCEPT ![s] = [conn |-> loop.conn, dir |-> loop.dir]]
  /\ conn' = [conn EXCEPT ![loop.conn].state = "open"]
  /\ session' = (session \/ s = "I07")
  /\ loop' = Waiting
  /\ UNCHANGED <<proc, channel, pending, refused, foreign>>

\* Mutant: the pidfd is not probed after the directory was read.
QualifyPidfdUnprobed == At("pidfd") /\ Hold

\* Last: the process that connected still runs, so the directory was its.
QualifyPidfd == At("pidfd") /\ conn[loop.conn].opener \in Live /\ Hold

-----------------------------------------------------------------------------
(* Reading a held connection.                                              *)

Peer(s) == conn[held[s].conn].opener

\* The connection is dropped and its loss fed.
EndHeld(s) ==
  /\ At("wait") /\ held[s] # None
  /\ Lost(s) /\ DropHeld(s)
  /\ UNCHANGED <<proc, loop, refused, foreign>>

\* End of file: nothing waits and no process has the other end.
ReadEnd(s) ==
  /\ held[s] # None
  /\ conn[held[s].conn].inbox = <<>> /\ conn[held[s].conn].holders = {}
  /\ EndHeld(s)

\* A read fails.
ReadFailed(s) == EndHeld(s)

\* A datagram, with its credentials and label against the identity's: they
\* match, or the control data does not parse or is another's.
Receive(s) ==
  /\ At("wait") /\ held[s] # None
  /\ conn[held[s].conn].inbox # <<>>
  /\ LET c == held[s].conn  d == Head(conn[c].inbox) IN
     \/ /\ d.pid = proc[Peer(s)].pid /\ d.good
        /\ conn' = [conn EXCEPT ![c].inbox = Tail(@)]
        /\ loop' = [at |-> "custody", conn |-> c, dir |-> held[s].dir, from |-> d.sender]
        /\ UNCHANGED <<proc, held, channel, session, pending, refused, foreign>>
     \/ Deviation(s)

\* The process's start time, cgroup and label; for the writer its executable.
Custody ==
  /\ loop.at \in {"custody", "custodyExe"}
  /\ loop.dir \in Live /\ proc[loop.dir].good
  /\ Goto(IF At("custody") /\ conn[loop.conn].side = "I07" THEN "custodyExe" ELSE "probe")
  /\ LoopOnly

\* The pidfd last; then the frame is fed.
Feed ==
  /\ At("probe")
  /\ LET s == conn[loop.conn].side IN
     /\ Peer(s) \in Live
     /\ IF s = "I05" THEN FrameI05 ELSE FrameI07
     /\ foreign' = (foreign \/ loop.from # Peer(s))
  /\ loop' = Waiting /\ UNCHANGED proc

\* A check of the custody does not pass, or its call fails.
CustodyFails == loop.at \in Checking /\ Deviation(conn[loop.conn].side)

\* The outcome of the forwarded write: its answer is sent, or cannot be.
WriteAnswered ==
  /\ At("wait") /\ pending
  /\ \/ pending' = FALSE /\ UNCHANGED <<held, conn, channel, session>>
     \/ Lost("I07") /\ DropHeld("I07")
  /\ UNCHANGED <<proc, loop, refused, foreign>>

\* Mutant: a fired pidfd only has the connection read.
PidfdFiredReading(s) == FALSE

\* The pidfd fired, and the connection that another process keeps open has
\* nothing to read (what waits on it is read first).
PidfdFired(s) ==
  /\ At("wait") /\ held[s] # None
  /\ Peer(s) \notin Live /\ conn[held[s].conn].inbox = <<>> /\ conn[held[s].conn].holders # {}
  /\ Deviation(s)

-----------------------------------------------------------------------------

Loop ==
  \/ \E c \in Conns : Accept(c)
  \/ Unqualified \/ QualifyPeer \/ QualifyOpen \/ QualifyRead \/ QualifyExe \/ QualifyPidfd
  \/ Custody \/ Feed \/ CustodyFails

Environment ==
  \/ \E p \in Procs, x \in Pids : Spawn(p, x)
  \/ \E p \in Procs : Change(p) \/ Exit(p)
  \/ \E p \in Procs, c \in Conns : Connect(p, c)
  \/ \E p \in Procs \cup {Other}, c \in Conns : Share(c, p) \/ HangUp(p, c) \/ Send(p, c)

Serve(s) == ReadEnd(s) \/ Receive(s) \/ PidfdFired(s)

Next == Environment \/ Loop \/ WriteAnswered \/ \E s \in Side : Serve(s) \/ ReadFailed(s)

\* The loop goes on, and a wake serves every descriptor that is ready.
Fairness == WF_vars(Loop) /\ \A s \in Side : SF_vars(Serve(s))

Spec == Init /\ [][Next]_vars /\ Fairness

-----------------------------------------------------------------------------
(* Properties.                                                             *)

\* D1-8 and section 4.2: whatever exits, is reused or is passed on between two
\* calls, the identity of a held connection was read of the process that
\* connected, and every frame fed to the model was sent by that process.
PeerIsOpener ==
  /\ \A s \in Side : held[s] # None => held[s].dir = Peer(s)
  /\ ~foreign

\* Between two steps of the loop the channels and the model agree, no event
\* was refused, and a connection that was held and is gone has used up the
\* generation's I05 channel.
InStep ==
  /\ ~refused
  /\ At("wait") =>
       /\ (held["I05"] = None) <=> (channel = "CLOSED" \/ \A c \in Conns : conn[c].side = "I05" => conn[c].state \in {"new", "queued"})
       /\ (held["I07"] # None) <=> session

\* A held connection whose process has exited is closed, though others keep
\* its other end open.
ExitCloses ==
  \A s \in Side : held[s] # None /\ Peer(s) \notin Live ~> held[s] = None \/ Peer(s) \in Live
=============================================================================
