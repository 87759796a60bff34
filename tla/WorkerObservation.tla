------------------------- MODULE WorkerObservation --------------------------
(* The gate's observation of the worker that a BIND names                     *)
(* (effect-gate/src/observation.rs): five reads of the kernel by the pid,     *)
(* between which processes exit, are reaped, start under a freed pid and move *)
(* between cgroups.                                                           *)
(*                                                                            *)
(* A member file is its lines, a stat file its fields after the name; each    *)
(* also says in which way it may be out of form.                              *)
EXTENDS Integers, Sequences

CONSTANTS Processes,      \* every process that ever starts
          Nobody,
          Pids,           \* the numbers the kernel gives
          Ticks,          \* the start times
          BindPids,       \* what a BIND may name: any integers
          BindTicks,
          I32_MAX,        \* the largest number of a member file
          U64_MAX,        \* and of a start time
          START_FIELD,    \* the start time's place among the fields (20)
          LOG_ENTRIES,    \* the entries the log keeps (64)
          MaxBinds        \* a bound on the observations

ASSUME NobodyAssumption == Nobody \notin Processes
ASSUME PidAssumption == Pids \subseteq 1 .. I32_MAX /\ I32_MAX \in Nat
ASSUME TickAssumption == Ticks \subseteq 0 .. U64_MAX /\ U64_MAX \in Nat
ASSUME FieldAssumption == START_FIELD \in Nat \ {0} /\ LOG_ENTRIES \in Nat \ {0}

VARIABLES procs,          \* of a process, its pid, its start time, its state and whether it is in the leaf
          observing,      \* the observation: its step, what the BIND names and the held process
          log,            \* the entries kept and the number dropped
          history         \* history: who was in the leaf at the recheck, who was alive at the poll, who stayed
                          \*          alive in the leaf since the BIND, whether a read failed, and all entries

observeVars == <<procs, observing, log, history>>

Live(p) == procs[p].state = "alive"
HasPid(p) == procs[p].state \in {"alive", "zombie"}
Listed == {p \in Processes : Live(p) /\ procs[p].leaf}

-----------------------------------------------------------------------------
(* The two files and their parsers; <<>> is None *)

Line(number) == [canonical |-> TRUE, number |-> number]
\* A process of another pid namespace is listed as 0.
MemberFile(foreign) ==
  [long |-> FALSE, ended |-> TRUE,
   lines |-> {Line(procs[p].pid) : p \in Listed} \cup {line \in {Line(0)} : foreign}]
Field(form, number) == [form |-> form, number |-> number]
StatFile(p) ==
  [long |-> FALSE, opened |-> TRUE, spaced |-> TRUE, ended |-> TRUE,
   fields |-> [i \in 1 .. START_FIELD + 1 |-> IF i = START_FIELD THEN Field("digits", procs[p].ticks) ELSE Field("text", 0)]]

ParseLeafProcs(file) ==
  IF file.long THEN <<>>
  ELSE IF file.lines = {} THEN <<{}>>
  ELSE IF ~file.ended \/ \E line \in file.lines : ~line.canonical \/ line.number > I32_MAX THEN <<>>
  ELSE <<{line.number : line \in file.lines}>>

ParseStatStart(file) ==
  IF file.long \/ ~file.opened \/ ~file.spaced \/ ~file.ended \/ Len(file.fields) < START_FIELD THEN <<>>
  ELSE IF file.fields[START_FIELD].form # "digits" \/ file.fields[START_FIELD].number > U64_MAX THEN <<>>
  ELSE <<file.fields[START_FIELD].number>>

\* A file that is longer than its bound or out of form; a read that fails gives no file.
OddMemberFiles(file) ==
  {[file EXCEPT !.long = TRUE], [file EXCEPT !.ended = FALSE],
   [file EXCEPT !.lines = @ \cup {[canonical |-> FALSE, number |-> 0]}],
   [file EXCEPT !.lines = @ \cup {Line(I32_MAX + 1)}]}
OddStatFiles(file) ==
  {[file EXCEPT !.long = TRUE], [file EXCEPT !.opened = FALSE], [file EXCEPT !.spaced = FALSE],
   [file EXCEPT !.ended = FALSE], [file EXCEPT !.fields = SubSeq(@, 1, START_FIELD - 1)],
   [file EXCEPT !.fields[START_FIELD] = Field("text", 0)], [file EXCEPT !.fields[START_FIELD] = Field("digits", U64_MAX + 1)]}

\* Step 1 or 4 on what the member file read returned: "none" when the pid is listed, else the cause.
Listing(file, pid) ==
  IF ParseLeafProcs(file) = <<>> THEN "Unreadable"
  ELSE IF pid # 0 /\ pid \in ParseLeafProcs(file)[1] THEN "none" ELSE "NotListed"

-----------------------------------------------------------------------------
(* The observation *)

Observing(step, pid, ticks, held, found) ==
  [step |-> step, pid |-> pid, ticks |-> ticks, held |-> held, found |-> found]
Seen(leaf, alive, stayed, failed, all) ==
  [leaf |-> leaf, alive |-> alive, stayed |-> stayed, failed |-> failed, all |-> all]

\* The log drops and counts its oldest entry when it is full.
RecordEntry(entry) ==
  IF Len(log.entries) >= LOG_ENTRIES
  THEN [entries |-> Append(Tail(log.entries), entry), dropped |-> log.dropped + 1]
  ELSE [entries |-> Append(log.entries, entry), dropped |-> log.dropped]

\* The observation ends: with what it found, at its step and for its cause.
Ends(found, failed) ==
  LET entry == [pid |-> observing.pid, ticks |-> observing.ticks, step |-> observing.step, found |-> found]
  IN /\ observing' = Observing("ended", observing.pid, observing.ticks, Nobody, found)
     /\ log' = RecordEntry(entry)
     /\ history' = Seen(history.leaf, {p \in Processes : Live(p)}, history.stayed, failed, Append(history.all, entry))

Goes(step, held) ==
  /\ observing' = Observing(step, observing.pid, observing.ticks, held, "none")
  /\ UNCHANGED <<log, history>>

\* A BIND that passed every check before it.
BindWorker(pid, ticks) ==
  /\ observing.step \in {"idle", "ended"} /\ Len(history.all) < MaxBinds
  /\ observing' = Observing("Membership", pid, ticks, Nobody, "none")
  /\ history' = Seen({}, {}, Listed, FALSE, history.all)
  /\ UNCHANGED <<procs, log>>

\* A gate without an observer: step 1, unreadable.
Unobserved == observing.step = "Membership" /\ Ends("Unreadable", TRUE) /\ UNCHANGED procs

\* Steps 1 and 4 on the file `file'.
ReadMembers(file, odd) ==
  LET cause == Listing(file, observing.pid)
  IN /\ IF cause # "none" THEN Ends(cause, odd)
        ELSE IF observing.step = "Membership" THEN Goes("PidfdOpen", Nobody)
        ELSE /\ observing' = Observing("Liveness", observing.pid, observing.ticks, observing.held, "none")
             /\ history' = Seen(Listed, {}, history.stayed, FALSE, history.all)
             /\ UNCHANGED log
     /\ UNCHANGED procs

Membership ==
  /\ observing.step \in {"Membership", "Recheck"}
  /\ \/ \E foreign \in BOOLEAN : ReadMembers(MemberFile(foreign), FALSE)
     \/ \E file \in OddMemberFiles(MemberFile(FALSE)) : ReadMembers(file, TRUE)
     \/ Ends("Unreadable", TRUE) /\ UNCHANGED procs

\* The process that has the pid now.
Holders == {p \in Processes : HasPid(p) /\ procs[p].pid = observing.pid}

PidfdOpen ==
  /\ observing.step = "PidfdOpen"
  /\ \/ \E p \in Holders : Goes("StartTime", p)
     \/ Holders = {} /\ Ends("Gone", FALSE)
     \/ Ends("OpenFailed", TRUE)
  /\ UNCHANGED procs

\* Step 3 on the file `file'.
ReadStat(file, odd) ==
  LET start == ParseStatStart(file)
  IN IF start = <<>> THEN Ends("Unreadable", odd)
     ELSE IF start[1] # observing.ticks THEN Ends("StartDiffers", odd)
     ELSE Goes("Recheck", observing.held)

StartTime ==
  /\ observing.step = "StartTime"
  /\ \/ \E p \in Holders : ReadStat(StatFile(p), FALSE)
     \/ \E p \in Holders : \E file \in OddStatFiles(StatFile(p)) : ReadStat(file, TRUE)
     \/ Holders = {} /\ Ends("Gone", FALSE)
     \/ Ends("Unreadable", TRUE)
  /\ UNCHANGED procs

\* Mutant: the member file lists the pid, so the process has not exited.
LivenessSkipped ==
  /\ observing.step = "Liveness"
  /\ Ends("Observed", FALSE)
  /\ UNCHANGED procs

Liveness ==
  /\ observing.step = "Liveness"
  /\ \/ Live(observing.held) /\ Ends("Observed", FALSE)
     \/ ~Live(observing.held) /\ Ends("Exited", FALSE)
     \/ Ends("PollFailed", TRUE)
  /\ UNCHANGED procs

-----------------------------------------------------------------------------
(* The kernel's processes *)

Unborn == [pid |-> 0, ticks |-> 0, state |-> "unborn", leaf |-> FALSE]

\* The next process starts, under a pid that no process has.
Start(p, pid, ticks, leaf) ==
  /\ procs[p].state = "unborn" /\ p = CHOOSE q \in Processes : procs[q].state = "unborn"
  /\ \A o \in Processes : HasPid(o) => procs[o].pid # pid
  /\ procs' = [procs EXCEPT ![p] = [pid |-> pid, ticks |-> ticks, state |-> "alive", leaf |-> leaf]]
  /\ UNCHANGED <<observing, log, history>>

\* It exits, keeps its pid until it is reaped, and moves between cgroups.
Exit(p) ==
  /\ Live(p)
  /\ procs' = [procs EXCEPT ![p].state = "zombie"]
  /\ history' = Seen(history.leaf, history.alive, history.stayed \ {p}, history.failed, history.all)
  /\ UNCHANGED <<observing, log>>

Reap(p) ==
  /\ procs[p].state = "zombie"
  /\ procs' = [procs EXCEPT ![p].state = "gone"]
  /\ UNCHANGED <<observing, log, history>>

Move(p) ==
  /\ Live(p)
  /\ procs' = [procs EXCEPT ![p].leaf = ~procs[p].leaf]
  /\ history' = Seen(history.leaf, history.alive, history.stayed \ {p}, history.failed, history.all)
  /\ UNCHANGED <<observing, log>>

-----------------------------------------------------------------------------
ObserveInit ==
  /\ procs = [p \in Processes |-> Unborn]
  /\ observing = Observing("idle", 0, 0, Nobody, "none")
  /\ log = [entries |-> <<>>, dropped |-> 0]
  /\ history = Seen({}, {}, {}, FALSE, <<>>)

ObserverSteps ==
  \/ \E pid \in BindPids, ticks \in BindTicks : BindWorker(pid, ticks)
  \/ Unobserved \/ Membership \/ PidfdOpen \/ StartTime \/ Liveness

KernelSteps ==
  \E p \in Processes :
    \/ \E pid \in Pids, ticks \in Ticks, leaf \in BOOLEAN : Start(p, pid, ticks, leaf)
    \/ Exit(p) \/ Reap(p) \/ Move(p)

ObserveNext == ObserverSteps \/ KernelSteps

ObserveSpec == ObserveInit /\ [][ObserveNext]_observeVars

-----------------------------------------------------------------------------
(* Properties *)

\* An observed worker is one process: it had the BIND's pid and start time, was
\* in the leaf at the recheck and alive at the poll, although each of the reads
\* went by the pid alone.  (observation.rs observe)
ObservedIsOne ==
  observing.step = "ended" /\ observing.found = "Observed" =>
    \E p \in history.leaf \cap history.alive :
      procs[p].pid = observing.pid /\ procs[p].ticks = observing.ticks

\* A worker that stays alive in its leaf is refused only when a read failed, and
\* the log holds the last observations and counts the others.
\* (observation.rs observe, ObservationLog::record)
RefusedForCause ==
  /\ observing.step = "ended" /\ observing.found # "Observed" /\ ~history.failed =>
       \A p \in history.stayed : procs[p].pid # observing.pid \/ procs[p].ticks # observing.ticks
  /\ Len(log.entries) <= LOG_ENTRIES /\ log.dropped + Len(log.entries) = Len(history.all)
  /\ \A i \in 1 .. Len(log.entries) : log.entries[i] = history.all[log.dropped + i]

\* The gate binds exactly the worker the BIND names: what it observed is one
\* process of that pid and start time, in the leaf and alive, through exits,
\* reuses of the pid and moves between the reads; one that stays is refused only
\* when a read failed; and the log loses no entry uncounted.
\* (observation.rs observe, gate.rs bind)
ObservedIsWorker == ObservedIsOne /\ RefusedForCause
=============================================================================
