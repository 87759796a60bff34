-------------------------- MODULE ChannelPeersProofs --------------------------
(***************************************************************************)
(* Why the last look at the pidfd is enough.  A process that still runs    *)
(* ran at every earlier step since it connected, so until now nobody else  *)
(* had its pid: the directory opened under that pid, and every datagram    *)
(* that carries it, are its own.  The inductive invariant says so of every *)
(* step of the loop, for any number of processes, pids and connections.    *)
(***************************************************************************)
EXTENDS ChannelPeers, TLAPS

\* A pid names one live process.
PidsUnique ==
  /\ \A p \in Live : proc[p].pid \in Pids
  /\ \A p, q \in Live : proc[p].pid = proc[q].pid => p = q

\* A connection in use was made by a process that has started.
OpenersBorn ==
  \A c \in Conns :
    \/ conn[c].state \in {"new", "closed"} /\ conn[c].opener = None
    \/ /\ conn[c].state \in {"queued", "open"}
       /\ conn[c].opener \in Procs /\ conn[c].side \in Side /\ proc[conn[c].opener].life # "unborn"

\* While the opener runs, a datagram with its pid is its own.
OwnMail(c, d) ==
  conn[c].opener \in Live /\ d.pid = proc[conn[c].opener].pid => d.sender = conn[c].opener

MailOwned == \A c \in Conns : \A i \in 1 .. Len(conn[c].inbox) : OwnMail(c, conn[c].inbox[i])

\* The connection under qualification, and what the channel waits for.
QualifyingFresh ==
  loop.at \in Qualifying =>
    /\ loop.conn \in Conns /\ conn[loop.conn].state = "queued"
    /\ held[conn[loop.conn].side] = None
    /\ conn[loop.conn].side = "I05" => channel = "UNOPENED"

\* While the opener runs, the directory opened under its pid is its own.
DirectoryOwned ==
  loop.at \in {"read", "exe", "pidfd"} =>
    loop.dir \in Procs /\ (conn[loop.conn].opener \in Live => loop.dir = conn[loop.conn].opener)

HeldOpen ==
  \A s \in Side : held[s] # None =>
    /\ conn[held[s].conn].state = "open" /\ conn[held[s].conn].side = s
    /\ held[s].dir = conn[held[s].conn].opener

\* While the opener runs, the datagram under custody is its own.
CheckingOwned ==
  loop.at \in Checking =>
    /\ loop.conn \in Conns /\ conn[loop.conn].side \in Side
    /\ held[conn[loop.conn].side] # None /\ held[conn[loop.conn].side].conn = loop.conn
    /\ conn[loop.conn].opener \in Live => loop.from = conn[loop.conn].opener

\* The model's view of the channels.
ModelAgrees ==
  /\ (held["I07"] # None) <=> session
  /\ pending => session
  /\ held["I05"] # None => channel # "CLOSED"
  /\ channel = "OPEN" => held["I05"] # None
  /\ ~refused /\ ~foreign

\* Without a held connection a channel not used up has had none.
ChannelUnused ==
  held["I05"] = None /\ channel # "CLOSED" =>
    \A c \in Conns : conn[c].side = "I05" => conn[c].state \in {"new", "queued"}

LoopInv == QualifyingFresh /\ DirectoryOwned /\ HeldOpen /\ CheckingOwned /\ ModelAgrees /\ ChannelUnused

Inv == TypeOK /\ PidsUnique /\ OpenersBorn /\ MailOwned /\ LoopInv

-----------------------------------------------------------------------------

\* An unused or closed connection is a connection.
LEMMA NoConnType ==
  ASSUME NEW state \in {"new", "closed"}, NEW side \in Side \cup {None}
  PROVE  NoConn(state, side) \in Conn
<1>1. <<>> \in Seq(Datagram)
  OBVIOUS
<1> QED
  BY <1>1 DEF NoConn, Conn

\* The loop's resting place is a step of the loop.
LEMMA WaitingType == Waiting \in LoopStep
  BY DEF Waiting, LoopStep

\* The initial states: no process, no connection, the loop waiting.
LEMMA InitInv == Init => Inv
<1> SUFFICES ASSUME Init PROVE Inv
  OBVIOUS
<1> USE PeersAssumption DEF Init
<1>1. TypeOK
  <2>1. proc \in [Procs -> Proc]
    BY DEF Proc
  <2>2. conn \in [Conns -> Conn]
    BY NoConnType
  <2>3. held \in [Side -> Held \cup {None}]
    OBVIOUS
  <2> QED
    BY <2>1, <2>2, <2>3, WaitingType DEF TypeOK
<1>2. PidsUnique /\ OpenersBorn
  BY DEF PidsUnique, OpenersBorn, Live, NoConn
<1>3. MailOwned
  BY DEF MailOwned, NoConn
<1>4. LoopInv
  BY DEF LoopInv, QualifyingFresh, DirectoryOwned, HeldOpen, CheckingOwned, ModelAgrees, ChannelUnused,
         Waiting, Qualifying, Checking, Side, NoConn
<1> QED
  BY <1>1, <1>2, <1>3, <1>4 DEF Inv

\* A step of a process or of its sockets that keeps every connection in use
\* and lets no process come back to life keeps what the loop relies on.
LEMMA OutsideKeeps ==
  ASSUME Inv, Outside,
         \A c \in Conns : conn[c].state # "new" =>
           conn'[c].state = conn[c].state /\ conn'[c].side = conn[c].side /\ conn'[c].opener = conn[c].opener,
         \A c \in Conns : conn[c].state = "new" => conn'[c].state \in {"new", "queued"},
         \A p \in Procs : proc[p].life # "unborn" => (p \in Live' => p \in Live)
  PROVE  LoopInv'
<1> USE DEF Outside, Inv, LoopInv
<1>1. QualifyingFresh'
  BY DEF QualifyingFresh
<1>2. DirectoryOwned'
  <2> SUFFICES ASSUME loop.at \in {"read", "exe", "pidfd"}, conn'[loop.conn].opener \in Live'
               PROVE  loop.dir = conn'[loop.conn].opener
    BY DEF DirectoryOwned
  <2>1. loop.conn \in Conns /\ conn[loop.conn].state = "queued"
    BY DEF QualifyingFresh, Qualifying
  <2>2. conn'[loop.conn].opener = conn[loop.conn].opener /\ conn[loop.conn].opener \in Live
    BY <2>1 DEF OpenersBorn
  <2> QED
    BY <2>2 DEF DirectoryOwned
<1>3. HeldOpen'
  <2> SUFFICES ASSUME NEW s \in Side, held[s] # None
               PROVE  /\ conn'[held[s].conn].state = "open" /\ conn'[held[s].conn].side = s
                      /\ held[s].dir = conn'[held[s].conn].opener
    BY DEF HeldOpen
  <2>1. held[s] \in Held
    BY DEF TypeOK
  <2>2. held[s].conn \in Conns
    BY <2>1 DEF Held
  <2> QED
    BY <2>2 DEF HeldOpen
<1>4. CheckingOwned'
  <2> SUFFICES ASSUME loop.at \in Checking
               PROVE  /\ loop.conn \in Conns /\ conn'[loop.conn].side \in Side
                      /\ held[conn'[loop.conn].side] # None /\ held[conn'[loop.conn].side].conn = loop.conn
                      /\ conn'[loop.conn].opener \in Live' => loop.from = conn'[loop.conn].opener
    BY DEF CheckingOwned
  <2>1. loop.conn \in Conns /\ conn[loop.conn].state = "open"
    BY DEF CheckingOwned, HeldOpen
  <2>2. conn'[loop.conn].side = conn[loop.conn].side /\ conn'[loop.conn].opener = conn[loop.conn].opener
    BY <2>1
  <2>3. conn[loop.conn].opener \in Live' => conn[loop.conn].opener \in Live
    BY <2>1 DEF OpenersBorn
  <2> QED
    BY <2>1, <2>2, <2>3 DEF CheckingOwned
<1>5. ModelAgrees' /\ ChannelUnused'
  BY DEF ModelAgrees, ChannelUnused
<1> QED
  BY <1>1, <1>2, <1>3, <1>4, <1>5

-----------------------------------------------------------------------------
(* The processes and their sockets.                                        *)

\* The new process takes a free pid and was nobody's opener.
LEMMA SpawnInv == ASSUME Inv, NEW p \in Procs, NEW x \in Pids, Spawn(p, x) PROVE Inv'
<1> USE DEF Inv, Spawn, Outside
<1> PICK good \in BOOLEAN : proc' = [proc EXCEPT ![p] = [life |-> "live", pid |-> x, good |-> good]]
  OBVIOUS
<1>1. TypeOK'
  <2>1. [life |-> "live", pid |-> x, good |-> good] \in Proc
    BY DEF Proc
  <2> QED
    BY <2>1 DEF TypeOK
<1>2. Live' = Live \cup {p} /\ \A q \in Procs : q # p => proc'[q] = proc[q]
  BY DEF Live, TypeOK
<1>3. proc'[p].pid = x
  BY DEF TypeOK
<1>4. PidsUnique'
  BY <1>2, <1>3 DEF PidsUnique, Live
<1>5. OpenersBorn'
  BY <1>2 DEF OpenersBorn
<1>6. MailOwned'
  <2> SUFFICES ASSUME NEW c \in Conns, NEW i \in 1 .. Len(conn[c].inbox), conn[c].opener \in Live',
                      conn[c].inbox[i].pid = proc'[conn[c].opener].pid
               PROVE  conn[c].inbox[i].sender = conn[c].opener
    BY DEF MailOwned, OwnMail
  <2>1. CASE conn[c].opener = p
    BY <2>1, PeersAssumption DEF OpenersBorn, Procs
  <2>2. CASE conn[c].opener # p
    BY <2>2, <1>2 DEF MailOwned, OwnMail, Live
  <2> QED
    BY <2>1, <2>2
<1>7. LoopInv'
  BY <1>2, OutsideKeeps
<1> QED
  BY <1>1, <1>4, <1>5, <1>6, <1>7

\* An exec or a move changes neither who lives nor whose the pid is.
LEMMA ChangeInv == ASSUME Inv, NEW p \in Procs, Change(p) PROVE Inv'
<1> USE DEF Inv, Change, Outside
<1>1. TypeOK'
  <2>1. [proc[p] EXCEPT !.good = ~@] \in Proc
    BY DEF Proc, TypeOK
  <2> QED
    BY <2>1 DEF TypeOK
<1>2. \A q \in Procs : proc'[q].life = proc[q].life /\ proc'[q].pid = proc[q].pid
  BY DEF TypeOK, Proc
<1>3. Live' = Live
  BY <1>2 DEF Live
<1>4. PidsUnique' /\ OpenersBorn'
  BY <1>2, <1>3 DEF PidsUnique, OpenersBorn, Live
<1>5. MailOwned'
  BY <1>2, <1>3 DEF MailOwned, OwnMail, Live
<1>6. LoopInv'
  BY <1>3, OutsideKeeps
<1> QED
  BY <1>1, <1>4, <1>5, <1>6

\* A process that exits owns nothing any more; the others are as before.
LEMMA ExitInv == ASSUME Inv, NEW p \in Procs, Exit(p) PROVE Inv'
<1> USE DEF Inv, Exit, Outside
<1>1. TypeOK'
  <2>1. [[proc[p] EXCEPT !.life = "dead"] EXCEPT !.good = FALSE] \in Proc
    BY DEF Proc, TypeOK
  <2>2. \A c \in Conns : [conn[c] EXCEPT !.holders = @ \ {p}] \in Conn
    BY DEF Conn, TypeOK
  <2> QED
    BY <2>1, <2>2 DEF TypeOK
<1>2. \A q \in Procs : proc'[q].pid = proc[q].pid /\ (q # p => proc'[q] = proc[q])
  BY DEF TypeOK, Proc
<1>3. Live' = Live \ {p} /\ proc'[p].life = "dead"
  BY <1>2 DEF Live, TypeOK, Proc
<1>4. \A c \in Conns : /\ conn'[c].state = conn[c].state /\ conn'[c].side = conn[c].side
                        /\ conn'[c].opener = conn[c].opener /\ conn'[c].inbox = conn[c].inbox
  BY DEF TypeOK, Conn
<1>a. Outside
  OBVIOUS
<1> HIDE DEF Exit
<1>5. PidsUnique'
  BY <1>2, <1>3 DEF PidsUnique, Live
<1>6. OpenersBorn'
  BY <1>2, <1>3, <1>4 DEF OpenersBorn
<1>7. MailOwned'
  BY <1>2, <1>3, <1>4 DEF MailOwned, OwnMail, Live
<1>8. LoopInv'
  BY <1>3, <1>4, <1>a, OutsideKeeps
<1> QED
  BY <1>1, <1>5, <1>6, <1>7, <1>8

\* A fresh connection has a live opener and no mail.
LEMMA ConnectInv == ASSUME Inv, NEW p \in Procs, NEW c \in Conns, Connect(p, c) PROVE Inv'
<1> USE DEF Inv, Connect, Outside
<1> DEFINE New(s) == [state |-> "queued", side |-> s, opener |-> p, good |-> proc[p].good,
                      holders |-> {p}, inbox |-> <<>>]
<1> PICK s \in Side : conn' = [conn EXCEPT ![c] = New(s)]
  OBVIOUS
<1>0. p \in Live /\ conn[c].state = "new" /\ UNCHANGED proc /\ Outside
  OBVIOUS
<1> HIDE DEF Connect
<1>1. TypeOK'
  <2>1. proc[p].good \in BOOLEAN /\ <<>> \in Seq(Datagram)
    BY DEF TypeOK, Proc
  <2>2. New(s) \in Conn
    BY <2>1 DEF Conn
  <2> QED
    BY <2>2, <1>0 DEF TypeOK
<1>2. Live' = Live
  BY <1>0 DEF Live
<1>3. conn'[c] = New(s) /\ \A d \in Conns : d # c => conn'[d] = conn[d]
  BY DEF TypeOK
<1>4. PidsUnique'
  BY <1>0, <1>2 DEF PidsUnique
<1>5. OpenersBorn'
  BY <1>0, <1>3 DEF OpenersBorn, Live
<1>6. MailOwned'
  <2> SUFFICES ASSUME NEW d \in Conns, NEW i \in 1 .. Len(conn'[d].inbox)
               PROVE  OwnMail(d, conn[d].inbox[i])'
    BY DEF MailOwned
  <2>1. d # c
    BY <1>3
  <2> QED
    BY <2>1, <1>0, <1>2, <1>3 DEF MailOwned, OwnMail
<1>7. LoopInv'
  BY <1>0, <1>2, <1>3, OutsideKeeps
<1> QED
  BY <1>1, <1>4, <1>5, <1>6, <1>7

\* A connection whose holders change keeps everything else.
LEMMA HoldersInv ==
  ASSUME Inv, Outside, NEW c \in Conns, NEW h \in SUBSET (Procs \cup {Other}),
         conn' = [conn EXCEPT ![c].holders = h], UNCHANGED proc
  PROVE  Inv'
<1> USE DEF Inv, Outside
<1>1. TypeOK'
  <2>1. [conn[c] EXCEPT !.holders = h] \in Conn
    BY DEF Conn, TypeOK
  <2> QED
    BY <2>1 DEF TypeOK
<1>2. Live' = Live
  BY DEF Live
<1>3. \A d \in Conns : /\ conn'[d].state = conn[d].state /\ conn'[d].side = conn[d].side
                        /\ conn'[d].opener = conn[d].opener /\ conn'[d].inbox = conn[d].inbox
  BY DEF TypeOK, Conn
<1>4. PidsUnique' /\ OpenersBorn'
  BY <1>2, <1>3 DEF PidsUnique, OpenersBorn
<1>5. MailOwned'
  BY <1>2, <1>3 DEF MailOwned, OwnMail
<1>6. LoopInv'
  BY <1>2, <1>3, OutsideKeeps
<1> QED
  BY <1>1, <1>4, <1>5, <1>6

\* Passing the descriptor on changes who may send, not what was sent.
LEMMA ShareInv == ASSUME Inv, NEW c \in Conns, NEW q \in Procs \cup {Other}, Share(c, q) PROVE Inv'
<1>1. conn[c].holders \cup {q} \in SUBSET (Procs \cup {Other})
  BY DEF Inv, TypeOK, Conn
<1> QED
  BY <1>1, HoldersInv DEF Share

\* So does closing it.
LEMMA HangUpInv == ASSUME Inv, NEW c \in Conns, NEW p \in Procs \cup {Other}, HangUp(p, c) PROVE Inv'
<1>1. conn[c].holders \ {p} \in SUBSET (Procs \cup {Other})
  BY DEF Inv, TypeOK, Conn
<1> QED
  BY <1>1, HoldersInv DEF HangUp

\* A sender with the opener's pid, while the opener runs, is the opener.
LEMMA SendInv == ASSUME Inv, NEW c \in Conns, NEW p \in Procs \cup {Other}, Send(p, c) PROVE Inv'
<1> USE DEF Inv, Send, Outside
<1> DEFINE d == IF p = Other THEN [pid |-> None, good |-> TRUE, sender |-> Other]
                ELSE [pid |-> proc[p].pid, good |-> proc[p].good, sender |-> p]
<1>1. d \in Datagram
  BY DEF TypeOK, Proc, Datagram
<1>2. conn[c].inbox \in Seq(Datagram)
  BY DEF TypeOK, Conn
<1>3. conn' = [conn EXCEPT ![c].inbox = Append(@, d)]
  OBVIOUS
<1>b. OwnMail(c, d)
  BY PeersAssumption DEF OwnMail, PidsUnique
<1> HIDE DEF d
<1>4. Append(conn[c].inbox, d) \in Seq(Datagram)
  BY <1>1, <1>2
<1>5. TypeOK'
  <2>1. [conn[c] EXCEPT !.inbox = Append(@, d)] \in Conn
    BY <1>4 DEF Conn, TypeOK
  <2> QED
    BY <2>1, <1>3 DEF TypeOK
<1>6. Live' = Live
  BY DEF Live
<1>7. \A e \in Conns : /\ conn'[e].state = conn[e].state /\ conn'[e].side = conn[e].side
                        /\ conn'[e].opener = conn[e].opener
                        /\ e # c => conn'[e].inbox = conn[e].inbox
  BY <1>3 DEF TypeOK, Conn
<1>8. conn'[c].inbox = Append(conn[c].inbox, d)
  BY <1>3 DEF TypeOK, Conn
<1>9. PidsUnique' /\ OpenersBorn'
  BY <1>6, <1>7 DEF PidsUnique, OpenersBorn
<1>10. MailOwned'
  <2> SUFFICES ASSUME NEW e \in Conns, NEW i \in 1 .. Len(conn'[e].inbox)
               PROVE  OwnMail(e, conn[e].inbox[i])'
    BY DEF MailOwned
  <2>1. CASE e # c
    BY <2>1, <1>6, <1>7 DEF MailOwned, OwnMail
  <2>2. CASE e = c /\ i \in 1 .. Len(conn[c].inbox)
    <3>1. conn'[e].inbox[i] = conn[c].inbox[i]
      BY <2>2, <1>1, <1>2, <1>8
    <3> QED
      BY <2>2, <3>1, <1>6, <1>7 DEF MailOwned, OwnMail
  <2>3. CASE e = c /\ i = Len(conn[c].inbox) + 1
    <3>1. conn'[e].inbox[i] = d
      BY <2>3, <1>1, <1>2, <1>8
    <3> QED
      BY <2>3, <3>1, <1>6, <1>7, <1>b DEF OwnMail
  <2> QED
    BY <2>1, <2>2, <2>3, <1>1, <1>2, <1>8
<1>11. LoopInv'
  BY <1>6, <1>7, OutsideKeeps
<1> QED
  BY <1>5, <1>9, <1>10, <1>11

-----------------------------------------------------------------------------
(* The loop.                                                               *)

\* A step of the loop leaves the processes, and so who lives, alone.
LEMMA LoopLeavesProcesses ==
  ASSUME Inv, UNCHANGED proc PROVE Live' = Live /\ PidsUnique'
  BY DEF Inv, Live, PidsUnique

\* A step that changes no more than the loop's place in a qualification.
LEMMA LoopOnlyInv ==
  ASSUME Inv, LoopOnly, loop' \in LoopStep, QualifyingFresh', DirectoryOwned', CheckingOwned'
  PROVE  Inv'
<1> USE DEF Inv, LoopOnly, LoopInv
<1>1. Live' = Live /\ PidsUnique'
  BY LoopLeavesProcesses
<1>2. TypeOK'
  BY DEF TypeOK
<1>3. OpenersBorn' /\ MailOwned'
  BY <1>1 DEF OpenersBorn, MailOwned, OwnMail
<1>4. HeldOpen' /\ ModelAgrees' /\ ChannelUnused'
  BY DEF HeldOpen, ModelAgrees, ChannelUnused
<1> QED
  BY <1>1, <1>2, <1>3, <1>4

\* Closing a connection that is not held keeps the connections' invariants.
LEMMA CloseFacts ==
  ASSUME Inv, NEW c \in Conns, CloseConn(c), UNCHANGED proc
  PROVE  /\ conn' \in [Conns -> Conn]
         /\ conn'[c] = NoConn("closed", conn[c].side) /\ \A d \in Conns : d # c => conn'[d] = conn[d]
         /\ OpenersBorn' /\ MailOwned'
<1> USE DEF Inv, CloseConn
<1>1. conn[c].side \in Side \cup {None}
  BY DEF TypeOK, Conn
<1>2. NoConn("closed", conn[c].side) \in Conn
  BY <1>1, NoConnType
<1>3. conn'[c] = NoConn("closed", conn[c].side) /\ \A d \in Conns : d # c => conn'[d] = conn[d]
  BY DEF TypeOK
<1>4. conn' \in [Conns -> Conn]
  BY <1>2 DEF TypeOK
<1>5. OpenersBorn'
  BY <1>3 DEF OpenersBorn, NoConn
<1>6. MailOwned'
  <2> SUFFICES ASSUME NEW d \in Conns, NEW i \in 1 .. Len(conn'[d].inbox)
               PROVE  OwnMail(d, conn[d].inbox[i])'
    BY DEF MailOwned
  <2>1. d # c
    BY <1>3 DEF NoConn
  <2>2. Live' = Live
    BY LoopLeavesProcesses
  <2> QED
    BY <2>1, <2>2, <1>3 DEF MailOwned, OwnMail
<1> QED
  BY <1>3, <1>4, <1>5, <1>6

\* Nothing is claimed of a loop that waits.
LEMMA WaitingOwesNothing ==
  ASSUME loop'.at = "wait" PROVE QualifyingFresh' /\ DirectoryOwned' /\ CheckingOwned'
  BY DEF QualifyingFresh, DirectoryOwned, CheckingOwned, Qualifying, Checking

\* Dropping a held connection and feeding its loss: end of file, a failed send,
\* a fatal frame, a deviation.
LEMMA DropInv ==
  ASSUME Inv, NEW s \in Side, held[s] # None, Lost(s), DropHeld(s), UNCHANGED proc,
         loop' \in LoopStep, loop'.at = "wait", refused' = FALSE, foreign' = FALSE
  PROVE  Inv'
<1> DEFINE c == held[s].conn
<1>1. c \in Conns /\ conn[c].state = "open" /\ conn[c].side = s
  BY DEF Inv, TypeOK, Held, LoopInv, HeldOpen
<1>2. held' = [held EXCEPT ![s] = None] /\ CloseConn(c)
  BY DEF DropHeld
<1> HIDE DEF c
<1>3. Live' = Live /\ PidsUnique'
  BY LoopLeavesProcesses
<1>4. /\ conn' \in [Conns -> Conn]
      /\ conn'[c] = NoConn("closed", conn[c].side) /\ \A d \in Conns : d # c => conn'[d] = conn[d]
      /\ OpenersBorn' /\ MailOwned'
  BY <1>1, <1>2, CloseFacts
<1>5. held'[s] = None /\ \A t \in Side : t # s => held'[t] = held[t]
  BY <1>2 DEF Inv, TypeOK
<1>6. TypeOK'
  BY <1>2, <1>4 DEF Inv, TypeOK, Lost
<1>7. HeldOpen'
  <2> SUFFICES ASSUME NEW t \in Side, held'[t] # None
               PROVE  /\ conn'[held'[t].conn].state = "open" /\ conn'[held'[t].conn].side = t
                      /\ held'[t].dir = conn'[held'[t].conn].opener
    BY DEF HeldOpen
  <2>1. t # s /\ held'[t] = held[t]
    BY <1>5
  <2>2. held[t].conn \in Conns
    BY <2>1 DEF Inv, TypeOK, Held
  <2>3. held[t].conn # c
    BY <2>1, <1>1 DEF Inv, LoopInv, HeldOpen
  <2> QED
    BY <2>1, <2>2, <2>3, <1>4 DEF Inv, LoopInv, HeldOpen
<1>8. ModelAgrees'
  BY <1>5 DEF Inv, LoopInv, ModelAgrees, Lost, Side
<1>9. ChannelUnused'
  BY <1>1, <1>4, <1>5 DEF Inv, LoopInv, ChannelUnused, Lost, Side, NoConn
<1> QED
  BY <1>3, <1>4, <1>6, <1>7, <1>8, <1>9, WaitingOwesNothing DEF Inv, LoopInv

\* A deviation, deviation(), drops the held connection.
LEMMA DeviationInv == ASSUME Inv, NEW s \in Side, held[s] # None, Deviation(s) PROVE Inv'
<1>1. refused' = FALSE /\ foreign' = FALSE
  BY DEF Inv, LoopInv, ModelAgrees, TypeOK, Deviation
<1>2. loop' \in LoopStep /\ loop'.at = "wait"
  BY WaitingType DEF Deviation, Waiting
<1> QED
  BY <1>1, <1>2, DropInv DEF Deviation

\* Closing a connection that was never held.
LEMMA CloseFreshInv ==
  ASSUME Inv, NEW c \in Conns, conn[c].state = "queued", CloseConn(c), UNCHANGED <<proc, held, session, pending>>,
         loop' \in LoopStep, loop'.at = "wait", refused' = FALSE, foreign' = FALSE,
         channel' \in {channel, "CLOSED"}, channel' # channel => held["I05"] = None,
         conn[c].side = "I05" => channel' = "CLOSED" \/ held["I05"] # None
  PROVE  Inv'
<1>1. Live' = Live /\ PidsUnique'
  BY LoopLeavesProcesses
<1>2. /\ conn' \in [Conns -> Conn]
      /\ conn'[c] = NoConn("closed", conn[c].side) /\ \A d \in Conns : d # c => conn'[d] = conn[d]
      /\ OpenersBorn' /\ MailOwned'
  BY CloseFacts
<1>3. TypeOK'
  BY <1>2 DEF Inv, TypeOK
<1>4. HeldOpen'
  <2> SUFFICES ASSUME NEW t \in Side, held[t] # None
               PROVE  /\ conn'[held[t].conn].state = "open" /\ conn'[held[t].conn].side = t
                      /\ held[t].dir = conn'[held[t].conn].opener
    BY DEF HeldOpen
  <2>1. held[t].conn \in Conns /\ held[t].conn # c
    BY DEF Inv, TypeOK, Held, LoopInv, HeldOpen
  <2> QED
    BY <2>1, <1>2 DEF Inv, LoopInv, HeldOpen
<1>5. ModelAgrees'
  BY DEF Inv, LoopInv, ModelAgrees, TypeOK
<1>6. ChannelUnused'
  BY <1>2 DEF Inv, LoopInv, ChannelUnused, NoConn
<1> QED
  BY <1>1, <1>2, <1>3, <1>4, <1>5, <1>6, WaitingOwesNothing DEF Inv, LoopInv

\* A queued connection is turned away or becomes the one under qualification.
LEMMA AcceptInv == ASSUME Inv, NEW c \in Conns, Accept(c) PROVE Inv'
<1>1. conn[c].state = "queued" /\ conn[c].side \in Side /\ loop.at = "wait"
  BY DEF Accept, At, Inv, OpenersBorn
<1>2. CASE TurnAway(c) /\ ~(conn[c].side = "I05" /\ channel = "UNOPENED" /\ held["I05"] = None)
  <2>1. refused' = FALSE /\ foreign' = FALSE
    BY <1>2 DEF TurnAway, Inv, LoopInv, ModelAgrees, TypeOK
  <2>2. loop' \in LoopStep /\ loop'.at = "wait"
    BY <1>1, <1>2 DEF TurnAway, Inv, TypeOK
  <2>3. conn[c].side = "I05" => channel = "CLOSED" \/ held["I05"] # None
    BY <1>2 DEF Inv, LoopInv, ModelAgrees, TypeOK
  <2> QED
    BY <1>1, <1>2, <2>1, <2>2, <2>3, CloseFreshInv DEF TurnAway
<1>3. CASE /\ IF conn[c].side = "I05" THEN channel = "UNOPENED" /\ held["I05"] = None ELSE ~session
           /\ loop' = [Waiting EXCEPT !.at = "peer", !.conn = c] /\ LoopOnly
  <2>1. loop' = [at |-> "peer", conn |-> c, dir |-> None, from |-> None]
    BY <1>3 DEF Waiting
  <2>2. loop' \in LoopStep
    BY <2>1 DEF LoopStep, Qualifying
  <2>3. QualifyingFresh'
    BY <1>1, <1>3, <2>1 DEF QualifyingFresh, LoopOnly, Inv, LoopInv, ModelAgrees, Side
  <2>4. DirectoryOwned' /\ CheckingOwned'
    BY <2>1 DEF DirectoryOwned, CheckingOwned, Checking
  <2> QED
    BY <1>3, <2>2, <2>3, <2>4, LoopOnlyInv
<1> QED
  BY <1>2, <1>3 DEF Accept

\* A failed qualify(): the connection, never held, is closed.
LEMMA UnqualifiedInv == ASSUME Inv, Unqualified PROVE Inv'
<1>1. loop.conn \in Conns /\ conn[loop.conn].state = "queued" /\ held[conn[loop.conn].side] = None
  BY DEF Unqualified, Inv, LoopInv, QualifyingFresh
<1>2. refused' = FALSE /\ foreign' = FALSE
  BY DEF Unqualified, Inv, LoopInv, ModelAgrees, TypeOK
<1>3. loop' \in LoopStep /\ loop'.at = "wait"
  BY WaitingType DEF Unqualified, Waiting
<1>4. /\ UNCHANGED <<session, pending>> /\ channel' \in {channel, "CLOSED"}
      /\ channel' # channel => held["I05"] = None
      /\ conn[loop.conn].side = "I05" => channel' = "CLOSED" \/ held["I05"] # None
  BY <1>1 DEF Unqualified, Lost
<1> QED
  BY <1>1, <1>2, <1>3, <1>4, CloseFreshInv DEF Unqualified

\* From one step of the qualification to the next, the directory kept.
LEMMA QualifyGotoInv ==
  ASSUME Inv, NEW step \in Qualifying, loop.at \in Qualifying, Goto(step), LoopOnly,
         step \in {"read", "exe", "pidfd"} => loop.at \in {"read", "exe", "pidfd"}
  PROVE  Inv'
<1>1. loop' \in LoopStep /\ loop'.at = step /\ loop'.conn = loop.conn /\ loop'.dir = loop.dir
  BY DEF Goto, Inv, TypeOK, LoopStep, Qualifying
<1>2. QualifyingFresh'
  BY <1>1 DEF QualifyingFresh, LoopOnly, Inv, LoopInv
<1>3. Live' = Live
  BY LoopLeavesProcesses DEF LoopOnly
<1>4. DirectoryOwned'
  BY <1>1, <1>3 DEF DirectoryOwned, LoopOnly, Inv, LoopInv
<1>5. CheckingOwned'
  BY <1>1 DEF CheckingOwned, Checking, Qualifying
<1> QED
  BY <1>1, <1>2, <1>4, <1>5, LoopOnlyInv

\* The socket options are read.
LEMMA QualifyPeerInv == ASSUME Inv, QualifyPeer PROVE Inv'
  BY QualifyGotoInv DEF QualifyPeer, At, Qualifying

\* The process directory is read.
LEMMA QualifyReadInv == ASSUME Inv, QualifyRead PROVE Inv'
  BY QualifyGotoInv DEF QualifyRead, At, Qualifying

\* The writer's executable is read.
LEMMA QualifyExeInv == ASSUME Inv, QualifyExe PROVE Inv'
  BY QualifyGotoInv DEF QualifyExe, At, Qualifying

\* Whoever has the pid now is the opener, if the opener runs.
LEMMA QualifyOpenInv == ASSUME Inv, QualifyOpen PROVE Inv'
<1> PICK p \in Live : /\ proc[p].pid = proc[conn[loop.conn].opener].pid
                      /\ loop' = [loop EXCEPT !.at = "read", !.dir = p]
  BY DEF QualifyOpen
<1>1. LoopOnly /\ loop.at = "open"
  BY DEF QualifyOpen, At
<1>2. p \in Procs
  BY DEF Live
<1>3. loop' \in LoopStep /\ loop'.at = "read" /\ loop'.conn = loop.conn /\ loop'.dir = p
  BY <1>2 DEF Inv, TypeOK, LoopStep, Qualifying
<1>4. QualifyingFresh'
  BY <1>1, <1>3 DEF QualifyingFresh, LoopOnly, Inv, LoopInv, Qualifying
<1>5. Live' = Live
  BY <1>1, LoopLeavesProcesses DEF LoopOnly
<1>6. DirectoryOwned'
  BY <1>1, <1>2, <1>3, <1>5 DEF DirectoryOwned, LoopOnly, Inv, PidsUnique
<1>7. CheckingOwned'
  BY <1>3 DEF CheckingOwned, Checking
<1> QED
  BY <1>1, <1>3, <1>4, <1>6, <1>7, LoopOnlyInv

\* The opener runs, so the directory is its own, and the connection is held.
LEMMA QualifyPidfdInv == ASSUME Inv, QualifyPidfd PROVE Inv'
<1> DEFINE c == loop.conn
           s == conn[loop.conn].side
           h == [conn |-> loop.conn, dir |-> loop.dir]
<1>1. c \in Conns /\ conn[c].state = "queued" /\ held[s] = None /\ (s = "I05" => channel = "UNOPENED")
  BY DEF QualifyPidfd, At, Inv, LoopInv, QualifyingFresh, Qualifying
<1>2. s \in Side
  BY <1>1 DEF Inv, OpenersBorn
<1>3. loop.dir \in Procs /\ loop.dir = conn[c].opener
  BY DEF QualifyPidfd, At, Inv, LoopInv, DirectoryOwned
<1>4. /\ held' = [held EXCEPT ![s] = h] /\ conn' = [conn EXCEPT ![c].state = "open"]
      /\ session' = (session \/ s = "I07") /\ loop' = Waiting
      /\ UNCHANGED <<proc, channel, pending, refused, foreign>>
  BY DEF QualifyPidfd, Hold
<1>5. h \in Held /\ h # None /\ h.conn = c /\ h.dir = loop.dir
  BY <1>1, <1>3, PeersAssumption DEF Held, Conns, Procs
<1> HIDE DEF h, c, s
<1>6. /\ \A d \in Conns : d # c => conn'[d] = conn[d]
      /\ conn'[c] = [conn[c] EXCEPT !.state = "open"]
      /\ held'[s] = h /\ \A t \in Side : t # s => held'[t] = held[t]
  BY <1>1, <1>2, <1>4 DEF Inv, TypeOK
<1>7. [conn[c] EXCEPT !.state = "open"] \in Conn
  BY <1>1 DEF Inv, TypeOK, Conn
<1>8. /\ conn'[c].state = "open" /\ conn'[c].side = conn[c].side
      /\ conn'[c].opener = conn[c].opener /\ conn'[c].inbox = conn[c].inbox
  BY <1>1, <1>6 DEF Inv, TypeOK, Conn
<1>9. Live' = Live /\ PidsUnique'
  BY <1>4, LoopLeavesProcesses
<1>10. TypeOK'
  BY <1>1, <1>2, <1>4, <1>5, <1>7, WaitingType DEF Inv, TypeOK
<1>11. OpenersBorn'
  BY <1>1, <1>4, <1>6, <1>8 DEF Inv, OpenersBorn
<1>12. MailOwned'
  BY <1>4, <1>6, <1>8, <1>9 DEF Inv, MailOwned, OwnMail
<1>13. HeldOpen'
  <2> SUFFICES ASSUME NEW t \in Side, held'[t] # None
               PROVE  /\ conn'[held'[t].conn].state = "open" /\ conn'[held'[t].conn].side = t
                      /\ held'[t].dir = conn'[held'[t].conn].opener
    BY DEF HeldOpen
  <2>1. CASE t = s
    BY <2>1, <1>3, <1>5, <1>6, <1>8 DEF s, c
  <2>2. CASE t # s
    <3>1. held'[t] = held[t] /\ held[t].conn \in Conns
      BY <2>2, <1>6 DEF Inv, TypeOK, Held
    <3>2. held[t].conn # c
      BY <3>1, <1>1 DEF Inv, LoopInv, HeldOpen
    <3> QED
      BY <3>1, <3>2, <1>6 DEF Inv, LoopInv, HeldOpen
  <2> QED
    BY <2>1, <2>2
<1>14. ModelAgrees'
  BY <1>1, <1>2, <1>4, <1>5, <1>6 DEF Inv, LoopInv, ModelAgrees, Side
<1>15. ChannelUnused'
  BY <1>1, <1>2, <1>4, <1>5, <1>6, <1>8 DEF Inv, LoopInv, ChannelUnused, Side, s, c
<1>16. loop'.at = "wait"
  BY <1>4 DEF Waiting
<1> QED
  BY <1>9, <1>10, <1>11, <1>12, <1>13, <1>14, <1>15, <1>16, WaitingOwesNothing DEF Inv, LoopInv

\* End of file or a failed read.
LEMMA EndHeldInv == ASSUME Inv, NEW s \in Side, EndHeld(s) PROVE Inv'
<1>1. refused' = FALSE /\ foreign' = FALSE
  BY DEF EndHeld, Inv, LoopInv, ModelAgrees, TypeOK
<1>2. loop' \in LoopStep /\ loop'.at = "wait"
  BY DEF EndHeld, At, Inv, TypeOK
<1> QED
  BY <1>1, <1>2, DropInv DEF EndHeld

\* The forwarded write's answer, sent or not.
LEMMA WriteAnsweredInv == ASSUME Inv, WriteAnswered PROVE Inv'
<1>1. loop.at = "wait" /\ held["I07"] # None /\ UNCHANGED <<proc, loop, refused, foreign>>
  BY DEF WriteAnswered, At, Inv, LoopInv, ModelAgrees
<1>2. CASE Lost("I07") /\ DropHeld("I07")
  <2>1. refused' = FALSE /\ foreign' = FALSE
    BY <1>1 DEF Inv, LoopInv, ModelAgrees, TypeOK
  <2> QED
    BY <1>1, <1>2, <2>1, DropInv DEF Inv, TypeOK, Side
<1>3. CASE pending' = FALSE /\ UNCHANGED <<held, conn, channel, session>>
  <2>1. Live' = Live /\ PidsUnique'
    BY <1>1, LoopLeavesProcesses
  <2>2. TypeOK' /\ OpenersBorn'
    BY <1>1, <1>3 DEF Inv, TypeOK, OpenersBorn
  <2>3. MailOwned'
    BY <1>1, <1>3, <2>1 DEF Inv, MailOwned, OwnMail
  <2>4. HeldOpen' /\ ModelAgrees' /\ ChannelUnused'
    BY <1>1, <1>3 DEF Inv, LoopInv, HeldOpen, ModelAgrees, ChannelUnused
  <2> QED
    BY <1>1, <2>1, <2>2, <2>3, <2>4, WaitingOwesNothing DEF Inv, LoopInv
<1> QED
  BY <1>2, <1>3 DEF WriteAnswered

\* A datagram is taken for the custody checks, or deviates.
LEMMA ReceiveInv == ASSUME Inv, NEW s \in Side, Receive(s) PROVE Inv'
<1> DEFINE c == held[s].conn
           d == Head(conn[c].inbox)
<1>1. held[s] # None /\ conn[c].inbox # <<>>
  BY DEF Receive
<1>2. c \in Conns /\ held[s].dir \in Procs /\ conn[c].state = "open" /\ conn[c].side = s
  BY <1>1 DEF Inv, TypeOK, Held, LoopInv, HeldOpen
<1>3. CASE Deviation(s)
  BY <1>1, <1>3, DeviationInv
<1>4. CASE /\ d.pid = proc[Peer(s)].pid /\ d.good
           /\ conn' = [conn EXCEPT ![c].inbox = Tail(@)]
           /\ loop' = [at |-> "custody", conn |-> c, dir |-> held[s].dir, from |-> d.sender]
           /\ UNCHANGED <<proc, held, channel, session, pending, refused, foreign>>
  <2>1. conn[c].inbox \in Seq(Datagram)
    BY <1>2 DEF Inv, TypeOK, Conn
  <2>2. d = conn[c].inbox[1] /\ 1 \in 1 .. Len(conn[c].inbox) /\ Tail(conn[c].inbox) \in Seq(Datagram)
    BY <1>1, <2>1
  <2>3. d \in Datagram
    BY <2>1, <2>2
  <2>4. conn[c].opener \in Live => d.sender = conn[c].opener
    BY <1>2, <1>4, <2>2 DEF Inv, MailOwned, OwnMail, Peer
  <2>5. d.sender \in Procs \cup {Other}
    BY <2>3 DEF Datagram
  <2> HIDE DEF c, d
  <2>6. [conn[c] EXCEPT !.inbox = Tail(@)] \in Conn
    BY <1>2, <2>2 DEF Inv, TypeOK, Conn
  <2>7. /\ \A e \in Conns : e # c => conn'[e] = conn[e]
        /\ conn'[c].state = conn[c].state /\ conn'[c].side = conn[c].side
        /\ conn'[c].opener = conn[c].opener /\ conn'[c].inbox = Tail(conn[c].inbox)
    BY <1>2, <1>4 DEF Inv, TypeOK, Conn
  <2>8. Live' = Live /\ PidsUnique'
    BY <1>4, LoopLeavesProcesses
  <2>9. loop' \in LoopStep
    BY <1>2, <1>4, <2>5 DEF LoopStep, Checking
  <2>10. TypeOK'
    BY <1>2, <1>4, <2>6, <2>9 DEF Inv, TypeOK
  <2>11. OpenersBorn'
    BY <1>2, <1>4, <2>7 DEF Inv, OpenersBorn
  <2>12. MailOwned'
    <3> SUFFICES ASSUME NEW e \in Conns, NEW i \in 1 .. Len(conn'[e].inbox)
                 PROVE  OwnMail(e, conn[e].inbox[i])'
      BY DEF MailOwned
    <3>1. CASE e # c
      BY <3>1, <1>4, <2>7, <2>8 DEF Inv, MailOwned, OwnMail
    <3>2. CASE e = c
      <4>1. i + 1 \in 1 .. Len(conn[c].inbox) /\ conn'[e].inbox[i] = conn[c].inbox[i + 1]
        BY <3>2, <1>1, <2>1, <2>7
      <4> QED
        BY <3>2, <4>1, <1>2, <1>4, <2>7, <2>8 DEF Inv, MailOwned, OwnMail
    <3> QED
      BY <3>1, <3>2
  <2>13. HeldOpen'
    BY <1>2, <1>4, <2>7 DEF Inv, TypeOK, Held, LoopInv, HeldOpen
  <2>14. ModelAgrees'
    BY <1>4 DEF Inv, LoopInv, ModelAgrees
  <2>15. ChannelUnused'
    BY <1>2, <1>4, <2>7 DEF Inv, LoopInv, ChannelUnused
  <2>16. QualifyingFresh' /\ DirectoryOwned'
    BY <1>4 DEF QualifyingFresh, DirectoryOwned, Qualifying
  <2>17. CheckingOwned'
    BY <1>1, <1>2, <1>4, <2>4, <2>7, <2>8 DEF CheckingOwned, c
  <2> QED
    BY <2>8, <2>10, <2>11, <2>12, <2>13, <2>14, <2>15, <2>16, <2>17 DEF Inv, LoopInv
<1> QED
  BY <1>3, <1>4 DEF Receive

\* custody() goes from one check to the next.
LEMMA CustodyInv == ASSUME Inv, Custody PROVE Inv'
<1>1. PICK step \in Checking : Goto(step) /\ LoopOnly /\ loop.at \in Checking
  BY DEF Custody, Checking
<1>2. loop' \in LoopStep /\ loop'.at = step /\ loop'.conn = loop.conn /\ loop'.from = loop.from
  BY <1>1 DEF Goto, Inv, TypeOK, LoopStep, Checking
<1>3. Live' = Live
  BY <1>1, LoopLeavesProcesses DEF LoopOnly
<1>4. CheckingOwned'
  BY <1>1, <1>2, <1>3 DEF CheckingOwned, LoopOnly, Inv, LoopInv
<1>5. QualifyingFresh' /\ DirectoryOwned'
  BY <1>2 DEF QualifyingFresh, DirectoryOwned, Qualifying, Checking
<1> QED
  BY <1>1, <1>2, <1>4, <1>5, LoopOnlyInv

\* A check of custody() that does not pass is a deviation.
LEMMA CustodyFailsInv == ASSUME Inv, CustodyFails PROVE Inv'
<1>1. conn[loop.conn].side \in Side /\ held[conn[loop.conn].side] # None
  BY DEF CustodyFails, Inv, LoopInv, CheckingOwned
<1> QED
  BY <1>1, DeviationInv DEF CustodyFails

\* The peer runs, so the datagram that is fed is its own.
LEMMA FeedInv == ASSUME Inv, Feed PROVE Inv'
<1> DEFINE s == conn[loop.conn].side
<1>1. s \in Side /\ held[s] # None /\ held[s].conn = loop.conn /\ loop.conn \in Conns
  BY DEF Feed, At, Inv, LoopInv, CheckingOwned, Checking
<1>2. foreign' = FALSE
  BY <1>1 DEF Feed, At, Peer, Inv, LoopInv, CheckingOwned, Checking, ModelAgrees, TypeOK
<1>3. s = "I07" => session
  BY <1>1 DEF Inv, LoopInv, ModelAgrees
<1>4. refused' = FALSE
  BY <1>1, <1>3 DEF Feed, FrameI05, FrameI07, Inv, LoopInv, ModelAgrees, TypeOK, Side
<1>5. loop' \in LoopStep /\ loop'.at = "wait" /\ UNCHANGED proc
  BY WaitingType DEF Feed, Waiting
<1>6. CASE Lost(s) /\ DropHeld(s)
  BY <1>1, <1>2, <1>4, <1>5, <1>6, DropInv
<1>7. CASE /\ UNCHANGED <<held, conn, session>>
           /\ \/ s = "I05" /\ channel' = "OPEN" /\ UNCHANGED pending
              \/ s = "I07" /\ pending' \in BOOLEAN /\ UNCHANGED channel
  <2>1. Live' = Live /\ PidsUnique'
    BY <1>5, LoopLeavesProcesses
  <2>2. TypeOK'
    BY <1>2, <1>4, <1>5, <1>7 DEF Inv, TypeOK
  <2>3. OpenersBorn' /\ MailOwned'
    BY <1>5, <1>7, <2>1 DEF Inv, OpenersBorn, MailOwned, OwnMail
  <2>4. HeldOpen'
    BY <1>7 DEF Inv, LoopInv, HeldOpen
  <2>5. ModelAgrees'
    BY <1>1, <1>2, <1>3, <1>4, <1>7 DEF Inv, LoopInv, ModelAgrees
  <2>6. ChannelUnused'
    BY <1>1, <1>7 DEF Inv, LoopInv, ChannelUnused
  <2> QED
    BY <1>5, <2>1, <2>2, <2>3, <2>4, <2>5, <2>6, WaitingOwesNothing DEF Inv, LoopInv
<1> QED
  BY <1>1, <1>6, <1>7 DEF Feed, FrameI05, FrameI07, Side

\* pidfd_fired() on a connection that stays open is a deviation.
LEMMA PidfdFiredInv == ASSUME Inv, NEW s \in Side, PidfdFired(s) PROVE Inv'
  BY DeviationInv DEF PidfdFired

-----------------------------------------------------------------------------
(* The theorems.                                                           *)

\* Every step keeps the invariant.
LEMMA NextInv == Inv /\ [Next]_vars => Inv'
<1> SUFFICES ASSUME Inv, [Next]_vars PROVE Inv'
  OBVIOUS
<1>1. ASSUME NEW p \in Procs, NEW x \in Pids, Spawn(p, x) PROVE Inv'
  BY <1>1, SpawnInv
<1>2. ASSUME NEW p \in Procs, Change(p) \/ Exit(p) PROVE Inv'
  BY <1>2, ChangeInv, ExitInv
<1>3. ASSUME NEW p \in Procs, NEW c \in Conns, Connect(p, c) PROVE Inv'
  BY <1>3, ConnectInv
<1>4. ASSUME NEW p \in Procs \cup {Other}, NEW c \in Conns, Share(c, p) \/ HangUp(p, c) \/ Send(p, c) PROVE Inv'
  BY <1>4, ShareInv, HangUpInv, SendInv
<1>5. ASSUME NEW c \in Conns, Accept(c) PROVE Inv'
  BY <1>5, AcceptInv
<1>6. CASE Unqualified \/ QualifyPeer \/ QualifyOpen \/ QualifyRead \/ QualifyExe \/ QualifyPidfd
  BY <1>6, UnqualifiedInv, QualifyPeerInv, QualifyOpenInv, QualifyReadInv, QualifyExeInv, QualifyPidfdInv
<1>7. CASE Custody \/ Feed \/ CustodyFails \/ WriteAnswered
  BY <1>7, CustodyInv, FeedInv, CustodyFailsInv, WriteAnsweredInv
<1>8. ASSUME NEW s \in Side, Serve(s) \/ ReadFailed(s) PROVE Inv'
  BY <1>8, EndHeldInv, ReceiveInv, PidfdFiredInv DEF Serve, ReadEnd, ReadFailed
<1>9. CASE UNCHANGED vars
  BY <1>9 DEF vars, Inv, TypeOK, PidsUnique, OpenersBorn, MailOwned, OwnMail, Live, LoopInv, QualifyingFresh,
              DirectoryOwned, HeldOpen, CheckingOwned, ModelAgrees, ChannelUnused
<1> QED
  BY <1>1, <1>2, <1>3, <1>4, <1>5, <1>6, <1>7, <1>8, <1>9 DEF Next, Environment, Loop

\* The inductive invariant holds in every reachable state.
THEOREM PeersInvariant == Spec => []Inv
  BY InitInv, NextInv, PTL DEF Spec

\* Whatever exits, is reused or is passed on between two calls of qualify() or
\* custody(), the identity of a held connection is its opener's and every frame
\* fed to the model is its opener's: for any number of processes, pids,
\* connections and waiting datagrams.
THEOREM PeersAreOpeners == Spec => []PeerIsOpener
<1>1. Inv => PeerIsOpener
  BY DEF Inv, LoopInv, HeldOpen, ModelAgrees, PeerIsOpener, Peer
<1> QED
  BY <1>1, PeersInvariant, PTL

\* The substrate's slots and the model never drift apart and no event of the
\* channels is one the model refuses, so no such event ever stops the loop.
THEOREM ChannelsInStep == Spec => []InStep
<1>1. Inv => InStep
  <2> SUFFICES ASSUME Inv PROVE InStep
    OBVIOUS
  <2>1. held["I05"] # None => \E c \in Conns : conn[c].side = "I05" /\ conn[c].state = "open"
    BY DEF Inv, TypeOK, Held, LoopInv, HeldOpen, Side
  <2> QED
    BY <2>1 DEF Inv, LoopInv, ModelAgrees, ChannelUnused, InStep
<1> QED
  BY <1>1, PeersInvariant, PTL
=============================================================================
