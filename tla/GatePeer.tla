------------------------------ MODULE GatePeer ------------------------------
(* The gate's qualification as the broker's peer (broker/src/gate_peer.rs):   *)
(* the checks of what was observed of a process, taken by reads between which *)
(* the process may exit, change or be followed by another one with its pid.   *)
(* The reads themselves are of the kernel (the order of them is that of       *)
(* GateObservation's fields); the broker's code judges them.                  *)
(*                                                                            *)
(* A text is a sequence of symbols; "nul" and "nl" are the NUL and newline.   *)
EXTENDS Integers, Sequences, SequencesExt, FiniteSetsExt, TLC

CONSTANTS Images,        \* what a process may be: [uid, label, cgroup, exe, command]
          MaxProcesses, MaxFrames,
          PeerPids, StartTicks,
          START_FIELD    \* the start time's field, counted after the name

VARIABLES process,       \* the processes that ever had the pid, the last one live or gone
          gone,          \* whether the last one has exited
          peer,          \* the process that opened the connection
          observed,      \* what was read so far
          token,         \* GateQualified, or a refusal
          frames         \* history: for each compared frame, <<the comparison, peer live then>>

peerVars == <<process, gone, peer, observed, token, frames>>

Digit == {"0", "1", "2"}
DigitIs == [d \in Digit |-> CHOOSE n \in 0 .. 2 : d = <<"0", "1", "2">>[n + 1]]
GateLabel == <<"gate_t">>
GateCgroup == <<"gate.service">>
GateExecutable == <<"gate">>
Unread == [qualified |-> FALSE, why |-> "unread"]
Absent == -1

\* One trailing NUL is stripped.
LabelMatches(delivered, expected) ==
  LET stripped == IF delivered # <<>> /\ Last(delivered) = "nul" THEN Front(delivered) ELSE delivered
  IN expected # <<>> /\ stripped = expected

\* The set of a text's lines, {} for an empty text or one with an empty line.
Split(text, separator) ==
  LET ends == {i \in 1 .. Len(text) + 1 : i = Len(text) + 1 \/ text[i] = separator}
      start(e) == Max({0} \cup {i \in ends : i < e}) + 1
  IN [k \in 1 .. Cardinality(ends) |->
        LET e == CHOOSE i \in ends : Cardinality({j \in ends : j <= i}) = k IN SubSeq(text, start(e), e - 1)]
Unended(text) == IF text # <<>> /\ Last(text) = "nl" THEN Front(text) ELSE text
LineSet(text) ==
  LET lines == Range(Split(Unended(text), "nl")) IN IF <<>> \in lines THEN {} ELSE lines

SameLines(text, expected) == LineSet(text) # {} /\ LineSet(text) = LineSet(expected)

DecimalOf(text) ==
  IF text = <<>> \/ \E i \in 1 .. Len(text) : text[i] \notin Digit THEN Absent
  ELSE FoldLeft(LAMBDA n, d : 10 * n + DigitIs[d], 0, text)

\* Mutant of StatStartTime: the fields are counted from the first parenthesis that closes.
StatStartTimeFirst(stat) ==
  LET close == {i \in 1 .. Len(stat) : stat[i] = ")"}
      rest == Unended(SubSeq(stat, Min(close) + 1, Len(stat)))
      fields == Split(Tail(rest), " ")
  IN IF close = {} \/ rest = <<>> THEN Absent
     ELSE IF Head(rest) # " " \/ Len(fields) < START_FIELD THEN Absent
     ELSE DecimalOf(fields[START_FIELD])

StatStartTime(stat) ==
  LET open == {i \in 1 .. Len(stat) : stat[i] = "("}
      close == {i \in 1 .. Len(stat) : stat[i] = ")"}
      rest == Unended(SubSeq(stat, Max(close) + 1, Len(stat)))
      fields == Split(Tail(rest), " ")
  IN IF open = {} \/ close = {} THEN Absent
     ELSE IF Max(close) < Min(open) \/ rest = <<>> THEN Absent
     ELSE IF Head(rest) # " " \/ Len(fields) < START_FIELD THEN Absent
     ELSE DecimalOf(fields[START_FIELD])

\* <<pid, start time>>, either of them Absent.
StatIdentity(stat) ==
  LET open == {i \in 1 .. Len(stat) : stat[i] = "("}
      head == SubSeq(stat, 1, Min(open) - 1)
  IN IF open = {} THEN <<Absent, Absent>>
     ELSE IF head = <<>> \/ Last(head) # " " THEN <<Absent, Absent>>
     ELSE <<DecimalOf(Front(head)), StatStartTime(stat)>>

Refusal(why) == [qualified |-> FALSE, why |-> why]
Qualified(pid, ticks) == [qualified |-> TRUE, pid |-> pid, startTicks |-> ticks]

QualifyGate(o) ==
  LET identity == StatIdentity(o.stat)
  IN IF o.credentials.pid <= 0 THEN Refusal("Pid")
     ELSE IF o.credentials.uid # 0 THEN Refusal("Uid")
     ELSE IF o.credentials.gid # 0 THEN Refusal("Gid")
     ELSE IF ~LabelMatches(o.attrCurrent, GateLabel) THEN Refusal("Label")
     ELSE IF ~SameLines(o.cgroup, GateCgroup) THEN Refusal("Cgroup")
     ELSE IF o.exeLink # GateExecutable THEN Refusal("Executable")
     ELSE IF Absent \in Range(identity) THEN Refusal("Stat")
     ELSE IF identity[1] # o.credentials.pid THEN Refusal("StatPid")
     ELSE IF o.exited THEN Refusal("Exited")
     ELSE Qualified(identity[1], identity[2])

CompareStartTime(qualified, stat, exited) ==
  LET identity == StatIdentity(stat)
  IN CASE Absent \in Range(identity) -> "Stat"
       [] Absent \notin Range(identity) /\ identity[1] # qualified.pid -> "StatPid"
       [] Absent \notin Range(identity) /\ identity[1] = qualified.pid ->
            IF identity[2] # qualified.startTicks THEN "StartTime"
            ELSE IF exited THEN "Exited" ELSE "Ok"

-----------------------------------------------------------------------------
(* The processes with the gate's pid, one after the other.                    *)

NumberText(n) == IF n < 3 THEN <<<<"0", "1", "2">>[n + 1]>> ELSE <<"1", "2">>
StatOf(p) ==
  NumberText(p.pid) \o <<" ", "(">> \o p.image.command \o <<")", " ", "S", " ">> \o NumberText(p.startTicks) \o <<" ", "0", "nl">>

Process == {[pid |-> pid, startTicks |-> ticks, image |-> image] :
              pid \in PeerPids, ticks \in StartTicks, image \in Images}

PeerStart(p) ==
  /\ process = <<p>>
  /\ gone = FALSE /\ peer = 1 /\ observed = [at |-> "exeLink"] /\ token = Unread /\ frames = <<>>
PeerInit == \E p \in Process : PeerStart(p)

Current == Last(process)

Exits == ~gone /\ gone' = TRUE /\ UNCHANGED <<process, peer, observed, token, frames>>

\* A later process gets the pid; its start time is another one.
Reused ==
  /\ gone /\ Len(process) < MaxProcesses /\ gone' = FALSE
  /\ \E p \in Process : /\ p.pid = Current.pid /\ p.startTicks > Current.startTicks
                        /\ process' = Append(process, p)
  /\ UNCHANGED <<peer, observed, token, frames>>

Order == <<"exeLink", "attrCurrent", "cgroup", "stat", "exited", "done">>
NextRead(at) == Order[(CHOOSE i \in 1 .. 5 : Order[i] = at) + 1]
PeerGone == gone \/ Len(process) > peer
ReadOf(at) ==
  CASE at = "exeLink" -> Current.image.exe
    [] at = "attrCurrent" -> Current.image.label
    [] at = "cgroup" -> Current.image.cgroup
    [] at = "stat" -> StatOf(Current)
    [] at = "exited" -> PeerGone

\* One read about the pid.  A read of a process that is gone fails, which ends
\* the qualification.
ReadNext ==
  /\ token = Unread /\ observed.at # "done"
  /\ observed.at # "exited" => ~gone
  /\ observed' = (observed.at :> ReadOf(observed.at)) @@ [observed EXCEPT !.at = NextRead(@)]
  /\ UNCHANGED <<process, gone, peer, token, frames>>

Qualify ==
  /\ token = Unread /\ observed.at = "done"
  /\ token' = QualifyGate(observed @@ ("credentials" :> 
                     [pid |-> process[peer].pid, uid |-> process[peer].image.uid, gid |-> process[peer].image.uid]))
  /\ UNCHANGED <<process, gone, peer, observed, frames>>

\* A later frame: the line is read again, then the pidfd is polled.
ReadStat ==
  /\ observed.at = "done" /\ Len(frames) < MaxFrames /\ ~gone
  /\ token.qualified
  /\ observed' = [observed EXCEPT !.stat = StatOf(Current), !.at = "poll"]
  /\ UNCHANGED <<process, gone, peer, token, frames>>

Compare ==
  /\ observed.at = "poll"
  /\ frames' = Append(frames, <<CompareStartTime(token, observed.stat, PeerGone), ~PeerGone>>)
  /\ observed' = [observed EXCEPT !.at = "done"]
  /\ UNCHANGED <<process, gone, peer, token>>

PeerNext == Exits \/ Reused \/ ReadNext \/ Qualify \/ ReadStat \/ Compare

-----------------------------------------------------------------------------
\* A minted token describes the process that opened the connection, its own pid
\* and start time, and that process is the gate, however the reads fell between
\* exits and reuses of the pid and whatever the process is called; a qualifying
\* process is never refused while it lives; and a later frame passes exactly
\* when that process was still there.
\* (gate_peer.rs qualify_gate, compare_start_time, stat_identity)
TokenIsOpener ==
  LET opener == process[peer]
      isGate == /\ opener.image.uid = 0 /\ opener.image.label = <<"gate_t", "nul">>
                /\ opener.image.cgroup = <<"gate.service", "nl">> /\ opener.image.exe = GateExecutable
  IN /\ token.qualified => isGate /\ token = Qualified(opener.pid, opener.startTicks)
     /\ token # Unread /\ ~token.qualified /\ isGate => token.why = "Exited" \/ Len(process) > 1
     /\ \A i \in 1 .. Len(frames) : (frames[i][1] = "Ok") = frames[i][2]
=============================================================================
