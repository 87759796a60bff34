------------------------- MODULE ObservationProofs --------------------------
(***************************************************************************)
(* Two observations that stay true of what they observed.                  *)
(*                                                                         *)
(* The observed worker is the one the BIND names, for any number of        *)
(* processes, pids and observations.  Every read but the last goes by the  *)
(* pid.  What ties them together is the pidfd: the held process had the    *)
(* pid when it was opened, a process keeps its pid until it is reaped and  *)
(* does not come back, so if it is alive at the poll the start time and    *)
(* the second listing were its own.                                        *)
(*                                                                         *)
(* The recorded headroom fits, for every scale, table of units and set of  *)
(* quotas, and after any number of the quota controller's steps.           *)
(***************************************************************************)
EXTENDS WorkerObservation, QuotaHeadroom, TLAPS

-----------------------------------------------------------------------------
(* The worker.                                                             *)

Found == {"none", "Observed", "Unreadable", "NotListed", "Gone", "OpenFailed", "StartDiffers", "PollFailed", "Exited"}
Steps == {"idle", "Membership", "PidfdOpen", "StartTime", "Recheck", "Liveness", "ended"}
Named == BindPids \cup {0}
NamedTicks == BindTicks \cup {0}
Entry == [pid : Named, ticks : NamedTicks, step : Steps, found : Found]

ObserveType ==
  /\ procs \in [Processes -> [pid : Nat, ticks : Nat, state : {"unborn", "alive", "zombie", "gone"}, leaf : BOOLEAN]]
  /\ \A p \in Processes : procs[p].state # "unborn" => procs[p].pid \in Pids /\ procs[p].ticks \in Ticks
  /\ observing \in [step : Steps, pid : Named, ticks : NamedTicks, held : Processes \cup {Nobody}, found : Found]
  /\ log \in [entries : Seq(Entry), dropped : Nat]
  /\ history \in [leaf : SUBSET Processes, alive : SUBSET Processes, stayed : SUBSET Processes,
                  failed : BOOLEAN, all : Seq(Entry)]

\* A pid is one process's until it is reaped.
PidsApart == \A p, q \in Processes : HasPid(p) /\ HasPid(q) /\ procs[p].pid = procs[q].pid => p = q

\* What the steps so far say of the held process, if it is still alive.
HeldIsOne ==
  /\ observing.step \in {"StartTime", "Recheck", "Liveness"} =>
       /\ observing.held \in Processes
       /\ procs[observing.held].state # "unborn"
       /\ procs[observing.held].pid = observing.pid
  /\ observing.step \in {"Recheck", "Liveness"} /\ Live(observing.held) =>
       procs[observing.held].ticks = observing.ticks
  /\ observing.step = "Liveness" /\ Live(observing.held) => observing.held \in history.leaf
  /\ \A p \in history.leaf : procs[p].state # "unborn"

\* A process that stayed is the held one, if it has the pid.
StayedIsHeld ==
  /\ \A p \in history.stayed : Live(p) /\ procs[p].leaf
  /\ observing.step \in {"StartTime", "Recheck", "Liveness"} =>
       \A p \in history.stayed : procs[p].pid = observing.pid => p = observing.held

LogExact ==
  /\ Len(log.entries) <= LOG_ENTRIES /\ log.dropped + Len(log.entries) = Len(history.all)
  /\ \A i \in 1 .. Len(log.entries) : log.entries[i] = history.all[log.dropped + i]

RefusedInTime ==
  observing.step = "ended" /\ observing.found # "Observed" /\ ~history.failed =>
    \A p \in history.stayed : procs[p].pid # observing.pid \/ procs[p].ticks # observing.ticks

ObserveInv == ObserveType /\ PidsApart /\ HeldIsOne /\ StayedIsHeld /\ LogExact /\ RefusedInTime /\ ObservedIsOne

-----------------------------------------------------------------------------
(* What the parsers make of the files *)

\* A stat file has one field after the start time's.
LEMMA FieldsOfStat ==
  ASSUME ObserveType, NEW p \in Processes
  PROVE  StatFile(p).fields \in Seq([form : {"digits", "text"}, number : Nat]) /\ Len(StatFile(p).fields) = START_FIELD + 1
<1>. DEFINE field(i) == IF i = START_FIELD THEN Field("digits", procs[p].ticks) ELSE Field("text", 0)
           T == [form : {"digits", "text"}, number : Nat]
<1>1. \A i : field(i) \in T
  <2>1. procs[p].ticks \in Nat
    BY DEF ObserveType
  <2>2. Field("digits", procs[p].ticks) \in T /\ Field("text", 0) \in T
    BY <2>1 DEF Field
  <2>. QED  BY <2>2
<1>2. StatFile(p).fields = [i \in 1 .. START_FIELD + 1 |-> field(i)]
  BY DEF StatFile
<1>3. START_FIELD + 1 \in Nat
  BY FieldAssumption
<1>. HIDE DEF field, T
<1>4. [i \in 1 .. START_FIELD + 1 |-> field(i)] \in Seq(T) /\ Len([i \in 1 .. START_FIELD + 1 |-> field(i)]) = START_FIELD + 1
  BY <1>1, <1>3
<1>. QED  BY <1>2, <1>4 DEF T

\* The strict parser reads the start time of a running process.  (parse_stat_start)
LEMMA StatParsed ==
  ASSUME ObserveType, NEW p \in Processes, procs[p].state # "unborn"
  PROVE  ParseStatStart(StatFile(p)) = <<procs[p].ticks>>
<1>1. procs[p].ticks \in 0 .. U64_MAX /\ U64_MAX \in Nat
  BY TickAssumption DEF ObserveType
<1>2. START_FIELD \in Nat \ {0}
  BY FieldAssumption
<1>3. StatFile(p).fields \in Seq([form : {"digits", "text"}, number : Nat]) /\ Len(StatFile(p).fields) = START_FIELD + 1
  BY FieldsOfStat
<1>4. StatFile(p).fields[START_FIELD] = Field("digits", procs[p].ticks)
  BY <1>2 DEF StatFile
<1>. QED  BY <1>1, <1>2, <1>3, <1>4 DEF ParseStatStart, StatFile, Field

\* It refuses every other file.  (parse_stat_start)
LEMMA OddStatRefused ==
  ASSUME ObserveType, NEW p \in Processes, NEW file \in OddStatFiles(StatFile(p))
  PROVE  ParseStatStart(file) = <<>>
<1>1. START_FIELD \in Nat \ {0} /\ U64_MAX \in Nat
  BY FieldAssumption, TickAssumption
<1>2. CASE file.long \/ ~file.opened \/ ~file.spaced \/ ~file.ended
  BY <1>2 DEF ParseStatStart
<1>3. CASE file = [StatFile(p) EXCEPT !.fields = SubSeq(@, 1, START_FIELD - 1)]
  <2>1. StatFile(p).fields \in Seq([form : {"digits", "text"}, number : Nat]) /\ Len(StatFile(p).fields) = START_FIELD + 1
    BY FieldsOfStat
  <2>2. file.fields = SubSeq(StatFile(p).fields, 1, START_FIELD - 1)
    BY <1>3 DEF StatFile
  <2>3. Len(file.fields) = START_FIELD - 1
    BY <1>1, <2>1, <2>2
  <2>. QED  BY <1>1, <2>3 DEF ParseStatStart
<1>4. CASE file = [StatFile(p) EXCEPT !.fields[START_FIELD] = Field("text", 0)]
  <2>1. file.fields[START_FIELD].form = "text"
    BY <1>1, <1>4 DEF StatFile, Field
  <2>. QED  BY <2>1 DEF ParseStatStart
<1>5. CASE file = [StatFile(p) EXCEPT !.fields[START_FIELD] = Field("digits", U64_MAX + 1)]
  <2>1. file.fields[START_FIELD].number = U64_MAX + 1
    BY <1>1, <1>5 DEF StatFile, Field
  <2>2. file.fields[START_FIELD].number > U64_MAX
    BY <1>1, <2>1
  <2>. QED  BY <2>2 DEF ParseStatStart
<1>. QED  BY <1>2, <1>3, <1>4, <1>5 DEF OddStatFiles, StatFile

\* A pid that is found listed is a live process's of the leaf.  (listing)
LEMMA ListedIsMember ==
  ASSUME ObserveType, NEW file, NEW pid, Listing(file, pid) = "none",
         (\E foreign \in BOOLEAN : file = MemberFile(foreign)) \/ file \in OddMemberFiles(MemberFile(FALSE))
  PROVE  \E p \in Listed : procs[p].pid = pid
<1>1. I32_MAX \in Nat
  BY PidAssumption
<1>2. ParseLeafProcs(file) # <<>> /\ pid # 0 /\ pid \in ParseLeafProcs(file)[1]
  BY DEF Listing
<1>3. /\ pid \in {line.number : line \in file.lines}
      /\ \A line \in file.lines : line.canonical /\ ~(line.number > I32_MAX)
  BY <1>2 DEF ParseLeafProcs
<1>4. PICK line \in file.lines : line.number = pid
  BY <1>3
<1>5. line \in {Line(procs[p].pid) : p \in Listed} \cup {Line(0), [canonical |-> FALSE, number |-> 0], Line(I32_MAX + 1)}
  <2>1. \A foreign : MemberFile(foreign).lines \subseteq {Line(procs[p].pid) : p \in Listed} \cup {Line(0)}
    BY DEF MemberFile
  <2>2. CASE \E foreign \in BOOLEAN : file = MemberFile(foreign)
    BY <2>1, <2>2, <1>4
  <2>3. CASE file \in OddMemberFiles(MemberFile(FALSE))
    <3>1. file.lines \subseteq MemberFile(FALSE).lines \cup {[canonical |-> FALSE, number |-> 0], Line(I32_MAX + 1)}
      <4>. DEFINE f == MemberFile(FALSE)
      <4>1. f = [long |-> f.long, ended |-> f.ended, lines |-> f.lines]
        BY DEF MemberFile
      <4>2. file \in OddMemberFiles(f)
        BY <2>3
      <4>. HIDE DEF f
      <4>. SUFFICES file.lines \subseteq f.lines \cup {[canonical |-> FALSE, number |-> 0], Line(I32_MAX + 1)}
        BY DEF f
      <4>3. CASE file = [f EXCEPT !.long = TRUE] \/ file = [f EXCEPT !.ended = FALSE]
        BY <4>1, <4>3
      <4>4. CASE file = [f EXCEPT !.lines = @ \cup {[canonical |-> FALSE, number |-> 0]}]
        BY <4>1, <4>4
      <4>5. CASE file = [f EXCEPT !.lines = @ \cup {Line(I32_MAX + 1)}]
        BY <4>1, <4>5
      <4>. QED  BY <4>2, <4>3, <4>4, <4>5 DEF OddMemberFiles
    <3>. QED  BY <2>1, <3>1, <1>4
  <2>. QED  BY <2>2, <2>3
<1>6. line.number # 0 /\ ~(line.number > I32_MAX)
  BY <1>2, <1>3, <1>4
<1>. QED  BY <1>1, <1>4, <1>5, <1>6 DEF Line

\* Every live process of the leaf is found listed.  (listing)
LEMMA MemberIsListed ==
  ASSUME ObserveType, NEW foreign \in BOOLEAN, NEW p \in Listed
  PROVE  Listing(MemberFile(foreign), procs[p].pid) = "none"
<1>1. Listed \subseteq Processes /\ \A q \in Listed : procs[q].pid \in 1 .. I32_MAX
  BY PidAssumption DEF ObserveType, Listed, Live
<1>2. I32_MAX \in Nat
  BY PidAssumption
<1>3. \A line \in MemberFile(foreign).lines : line.canonical /\ ~(line.number > I32_MAX)
  BY <1>1, <1>2 DEF MemberFile, Line
<1>4. Line(procs[p].pid) \in MemberFile(foreign).lines
  BY DEF MemberFile
<1>5. ParseLeafProcs(MemberFile(foreign)) = <<{line.number : line \in MemberFile(foreign).lines}>>
  BY <1>3, <1>4 DEF ParseLeafProcs, MemberFile
<1>6. procs[p].pid \in ParseLeafProcs(MemberFile(foreign))[1] /\ procs[p].pid # 0
  BY <1>1, <1>2, <1>4, <1>5 DEF Line
<1>. QED  BY <1>5, <1>6 DEF Listing

-----------------------------------------------------------------------------
(* The ways a step ends *)

\* `kept' is the end of `all', after its first `dropped'.
Window(kept, dropped, all) ==
  dropped + Len(kept) = Len(all) /\ \A i \in 1 .. Len(kept) : kept[i] = all[dropped + i]

\* The window grows with the sequence.
LEMMA WindowGrows ==
  ASSUME NEW S, NEW kept \in Seq(S), NEW all \in Seq(S), NEW dropped \in Nat, NEW x \in S, Window(kept, dropped, all)
  PROVE  Window(Append(kept, x), dropped, Append(all, x))
<1>1. /\ Len(kept) \in Nat /\ Len(all) \in Nat /\ dropped + Len(kept) = Len(all)
      /\ Len(Append(kept, x)) = Len(kept) + 1 /\ Len(Append(all, x)) = Len(all) + 1
  BY DEF Window
<1>2. ASSUME NEW i \in 1 .. Len(kept) + 1
      PROVE  Append(kept, x)[i] = Append(all, x)[dropped + i]
  <2>1. CASE i = Len(kept) + 1
    <3>1. dropped + i = Len(all) + 1
      BY <1>1, <2>1
    <3>. QED  BY <1>1, <2>1, <3>1
  <2>2. CASE i \in 1 .. Len(kept)
    <3>1. dropped + i \in 1 .. Len(all) /\ kept[i] = all[dropped + i]
      BY <1>1, <2>2 DEF Window
    <3>2. Append(kept, x)[i] = kept[i]
      BY <1>1, <2>2
    <3>3. Append(all, x)[dropped + i] = all[dropped + i]
      BY <1>1, <3>1
    <3>. QED  BY <3>1, <3>2, <3>3
  <2>. QED  BY <1>1, <2>1, <2>2
<1>3. dropped + Len(Append(kept, x)) = Len(Append(all, x))
  BY <1>1
<1>4. \A i \in 1 .. Len(Append(kept, x)) : Append(kept, x)[i] = Append(all, x)[dropped + i]
  BY <1>1, <1>2, Zenon
<1>. QED  BY <1>3, <1>4, Zenon DEF Window

\* Its first element may be dropped and counted.
LEMMA WindowSlides ==
  ASSUME NEW S, NEW kept \in Seq(S), NEW all \in Seq(S), NEW dropped \in Nat, kept # <<>>, Window(kept, dropped, all)
  PROVE  Window(Tail(kept), dropped + 1, all)
<1>1. /\ Len(kept) \in Nat \ {0} /\ Len(all) \in Nat /\ dropped + Len(kept) = Len(all)
      /\ Len(Tail(kept)) = Len(kept) - 1
  BY DEF Window
<1>2. ASSUME NEW i \in 1 .. Len(kept) - 1
      PROVE  Tail(kept)[i] = all[(dropped + 1) + i]
  <2>1. Tail(kept)[i] = kept[i + 1]
    BY <1>1
  <2>2. i + 1 \in 1 .. Len(kept) /\ dropped + (i + 1) = (dropped + 1) + i
    BY <1>1
  <2>3. kept[i + 1] = all[dropped + (i + 1)]
    BY <2>2 DEF Window
  <2>. QED  BY <2>1, <2>2, <2>3
<1>. QED  BY <1>1, <1>2 DEF Window

\* A recorded entry is the last of the log, which keeps to its bound.  (ObservationLog::record)
LEMMA RecordKeepsLog ==
  ASSUME ObserveType, LogExact, NEW entry \in Entry, log' = RecordEntry(entry), history'.all = Append(history.all, entry)
  PROVE  LogExact' /\ log' \in [entries : Seq(Entry), dropped : Nat]
<1>1. /\ log.entries \in Seq(Entry) /\ log.dropped \in Nat /\ history.all \in Seq(Entry)
      /\ LOG_ENTRIES \in Nat \ {0} /\ Len(log.entries) \in Nat
  BY FieldAssumption DEF ObserveType
<1>2. Len(log.entries) <= LOG_ENTRIES /\ Window(log.entries, log.dropped, history.all)
  BY DEF LogExact, Window
<1>3. PICK kept \in Seq(Entry), dropped \in Nat :
        /\ Window(kept, dropped, history.all) /\ Len(kept) < LOG_ENTRIES
        /\ log' = [entries |-> Append(kept, entry), dropped |-> dropped]
  <2>1. CASE Len(log.entries) >= LOG_ENTRIES
    <3>1. log.entries # <<>> /\ Tail(log.entries) \in Seq(Entry) /\ Len(Tail(log.entries)) = Len(log.entries) - 1
      BY <1>1, <2>1
    <3>2. Window(Tail(log.entries), log.dropped + 1, history.all)
      BY <1>1, <1>2, <3>1, WindowSlides
    <3>3. log.dropped + 1 \in Nat /\ Len(Tail(log.entries)) < LOG_ENTRIES
      BY <1>1, <1>2, <3>1
    <3>4. log' = [entries |-> Append(Tail(log.entries), entry), dropped |-> log.dropped + 1]
      BY <2>1 DEF RecordEntry
    <3>. USE <3>1, <3>3
    <3>. WITNESS Tail(log.entries) \in Seq(Entry), log.dropped + 1 \in Nat
    <3>. QED  BY <3>2, <3>3, <3>4
  <2>2. CASE ~(Len(log.entries) >= LOG_ENTRIES)
    <3>1. Len(log.entries) < LOG_ENTRIES
      BY <1>1, <2>2
    <3>2. log' = [entries |-> Append(log.entries, entry), dropped |-> log.dropped]
      BY <2>2 DEF RecordEntry
    <3>. USE <1>1
    <3>. WITNESS log.entries \in Seq(Entry), log.dropped \in Nat
    <3>. QED  BY <1>2, <3>1, <3>2
  <2>. QED  BY <2>1, <2>2
<1>4. Window(Append(kept, entry), dropped, Append(history.all, entry))
  BY <1>1, <1>3, WindowGrows
<1>5. Append(kept, entry) \in Seq(Entry) /\ Len(Append(kept, entry)) <= LOG_ENTRIES
  BY <1>1, <1>3
<1>6. Len(log'.entries) <= LOG_ENTRIES /\ Window(log'.entries, log'.dropped, history'.all)
  BY <1>3, <1>4, <1>5
<1>7. LogExact'
  BY <1>6 DEF LogExact, Window
<1>. QED  BY <1>3, <1>5, <1>7

\* An observation may end in Observed when a live process of the leaf answers
\* to the BIND, and is refused without a failed read when none that stayed does.
LEMMA EndsKeeps ==
  ASSUME ObserveInv, NEW found \in Found, NEW failed \in BOOLEAN, Ends(found, failed), procs' = procs,
         found = "Observed" => \E p \in history.leaf :
           Live(p) /\ procs[p].pid = observing.pid /\ procs[p].ticks = observing.ticks,
         found # "Observed" /\ ~failed => \A p \in history.stayed :
           procs[p].pid # observing.pid \/ procs[p].ticks # observing.ticks
  PROVE  ObserveInv'
<1>. DEFINE entry == [pid |-> observing.pid, ticks |-> observing.ticks, step |-> observing.step, found |-> found]
<1>. USE DEF ObserveInv
<1>1. entry \in Entry
  BY DEF ObserveType, Entry
<1>2. /\ observing' = Observing("ended", observing.pid, observing.ticks, Nobody, found)
      /\ log' = RecordEntry(entry)
      /\ history' = Seen(history.leaf, {p \in Processes : Live(p)}, history.stayed, failed, Append(history.all, entry))
  BY DEF Ends
<1>3. history'.all = Append(history.all, entry)
  BY <1>2 DEF Seen
<1>4. LogExact' /\ log' \in [entries : Seq(Entry), dropped : Nat]
  BY <1>1, <1>2, <1>3, RecordKeepsLog
<1>. HIDE DEF entry
<1>5. ObserveType'
  <2>1. Append(history.all, entry) \in Seq(Entry)
    BY <1>1 DEF ObserveType
  <2>2. history' \in [leaf : SUBSET Processes, alive : SUBSET Processes, stayed : SUBSET Processes,
                      failed : BOOLEAN, all : Seq(Entry)]
    BY <1>2, <2>1 DEF ObserveType, Seen
  <2>3. observing' \in [step : Steps, pid : Named, ticks : NamedTicks, held : Processes \cup {Nobody}, found : Found]
    BY <1>2 DEF ObserveType, Observing, Steps
  <2>. QED  BY <1>4, <2>2, <2>3 DEF ObserveType
<1>6. PidsApart' /\ HeldIsOne' /\ StayedIsHeld'
  BY <1>2 DEF PidsApart, HasPid, HeldIsOne, StayedIsHeld, Live, Observing, Seen
<1>7. RefusedInTime'
  BY <1>2 DEF RefusedInTime, Observing, Seen
<1>8. ObservedIsOne'
  BY <1>2 DEF ObservedIsOne, Observing, Seen, ObserveType, Live
<1>. QED  BY <1>4, <1>5, <1>6, <1>7, <1>8

\* An observation goes on with the process that answers so far.
LEMMA GoesKeeps ==
  ASSUME ObserveInv, NEW step \in Steps \ {"ended"}, NEW held \in Processes \cup {Nobody}, Goes(step, held), procs' = procs,
         step \in {"StartTime", "Recheck", "Liveness"} =>
           /\ held \in Processes /\ procs[held].state # "unborn" /\ procs[held].pid = observing.pid
           /\ \A p \in history.stayed : procs[p].pid = observing.pid => p = held,
         step = "Recheck" /\ Live(held) => procs[held].ticks = observing.ticks,
         step # "Liveness"
  PROVE  ObserveInv'
<1>. USE DEF ObserveInv
<1>1. /\ observing' = Observing(step, observing.pid, observing.ticks, held, "none")
      /\ log' = log /\ history' = history
  BY DEF Goes
<1>2. ObserveType'
  <2>1. observing' \in [step : Steps, pid : Named, ticks : NamedTicks, held : Processes \cup {Nobody}, found : Found]
    BY <1>1 DEF ObserveType, Observing, Found
  <2>. QED  BY <1>1, <2>1 DEF ObserveType
<1>3. PidsApart' /\ LogExact' /\ RefusedInTime' /\ ObservedIsOne'
  BY <1>1 DEF PidsApart, HasPid, LogExact, RefusedInTime, ObservedIsOne, Observing, Steps
<1>4. HeldIsOne' /\ StayedIsHeld'
  BY <1>1 DEF HeldIsOne, StayedIsHeld, Live, Observing
<1>. QED  BY <1>2, <1>3, <1>4

-----------------------------------------------------------------------------
(* The steps of the observation *)

\* One process has the pid: who stayed with it is who has it now.
LEMMA StayedHasPid ==
  ASSUME ObserveInv, NEW p \in history.stayed, procs[p].pid = observing.pid
  PROVE  p \in Processes /\ p \in Listed /\ Holders = {p}
<1>1. p \in Processes /\ Live(p) /\ procs[p].leaf
  BY DEF ObserveInv, ObserveType, StayedIsHeld
<1>2. \A q \in Holders : q = p
  BY <1>1 DEF ObserveInv, PidsApart, Holders, HasPid, Live
<1>. QED  BY <1>1, <1>2 DEF Listed, Holders, HasPid, Live

\* The two listings.  (observe, steps 1 and 4)
LEMMA MembershipKeeps == ObserveInv /\ Membership => ObserveInv'
<1>. SUFFICES ASSUME ObserveInv, Membership
              PROVE  ObserveInv'
  OBVIOUS
<1>0. observing.step \in {"Membership", "Recheck"} /\ ObserveType
  BY DEF Membership, ObserveInv
<1>1. ASSUME Ends("Unreadable", TRUE), procs' = procs
      PROVE  ObserveInv'
  BY <1>1, EndsKeeps DEF Found
<1>2. ASSUME NEW file, NEW odd \in BOOLEAN, ReadMembers(file, odd),
             ~odd => \E foreign \in BOOLEAN : file = MemberFile(foreign),
             odd => file \in OddMemberFiles(MemberFile(FALSE))
      PROVE  ObserveInv'
  <2>. DEFINE cause == Listing(file, observing.pid)
  <2>0. procs' = procs /\ cause \in {"none", "Unreadable", "NotListed"}
    BY <1>2 DEF ReadMembers, Listing
  <2>1. CASE cause # "none"
    <3>1. Ends(cause, odd)
      BY <1>2, <2>1 DEF ReadMembers
    <3>2. ASSUME ~odd, NEW p \in history.stayed, procs[p].pid = observing.pid
          PROVE  FALSE
      <4>1. p \in Listed
        BY <3>2, StayedHasPid
      <4>2. PICK foreign \in BOOLEAN : file = MemberFile(foreign)
        BY <1>2, <3>2
      <4>3. Listing(MemberFile(foreign), procs[p].pid) = "none"
        BY <1>0, <4>1, MemberIsListed
      <4>. QED  BY <2>1, <3>2, <4>2, <4>3
    <3>. HIDE DEF cause
    <3>. QED  BY <2>0, <2>1, <3>1, <3>2, EndsKeeps DEF Found
  <2>2. CASE cause = "none" /\ observing.step = "Membership"
    <3>1. Goes("PidfdOpen", Nobody)
      BY <1>2, <2>2 DEF ReadMembers
    <3>. QED  BY <2>0, <3>1, GoesKeeps DEF Steps
  <2>3. CASE cause = "none" /\ observing.step = "Recheck"
    <3>1. /\ observing' = Observing("Liveness", observing.pid, observing.ticks, observing.held, "none")
          /\ history' = Seen(Listed, {}, history.stayed, FALSE, history.all) /\ log' = log
      BY <1>2, <2>3 DEF ReadMembers
    <3>2. PICK p \in Listed : procs[p].pid = observing.pid
      BY <1>0, <1>2, <2>3, ListedIsMember
    <3>3. /\ observing.held \in Processes /\ procs[observing.held].state # "unborn"
          /\ procs[observing.held].pid = observing.pid
          /\ Live(observing.held) => procs[observing.held].ticks = observing.ticks
      BY <2>3 DEF ObserveInv, HeldIsOne
    <3>4. Live(observing.held) => observing.held \in Listed
      BY <3>2, <3>3 DEF ObserveInv, PidsApart, HasPid, Live, Listed
    <3>5. ObserveType'
      <4>1. observing' \in [step : Steps, pid : Named, ticks : NamedTicks, held : Processes \cup {Nobody}, found : Found]
        BY <1>0, <3>1 DEF ObserveType, Observing, Found, Steps
      <4>2. history' \in [leaf : SUBSET Processes, alive : SUBSET Processes, stayed : SUBSET Processes,
                          failed : BOOLEAN, all : Seq(Entry)]
        BY <1>0, <3>1 DEF ObserveType, Seen, Listed
      <4>. QED  BY <1>0, <2>0, <3>1, <4>1, <4>2 DEF ObserveType
    <3>6. HeldIsOne'
      BY <2>0, <3>1, <3>3, <3>4 DEF HeldIsOne, Live, Observing, Seen, Listed
    <3>7. StayedIsHeld'
      BY <2>0, <2>3, <3>1 DEF ObserveInv, StayedIsHeld, Live, Observing, Seen
    <3>8. PidsApart' /\ LogExact' /\ RefusedInTime' /\ ObservedIsOne'
      BY <2>0, <3>1 DEF ObserveInv, PidsApart, HasPid, LogExact, RefusedInTime, ObservedIsOne, Observing, Seen
    <3>. QED  BY <3>5, <3>6, <3>7, <3>8 DEF ObserveInv
  <2>. QED  BY <1>0, <2>1, <2>2, <2>3
<1>. QED  BY <1>1, <1>2 DEF Membership

\* A BIND starts an observation.  (bind)
LEMMA BindKeeps ==
  ASSUME ObserveInv, NEW pid \in BindPids, NEW ticks \in BindTicks, BindWorker(pid, ticks)
  PROVE  ObserveInv'
<1>. USE DEF ObserveInv
<1>1. /\ observing' = Observing("Membership", pid, ticks, Nobody, "none")
      /\ history' = Seen({}, {}, Listed, FALSE, history.all) /\ procs' = procs /\ log' = log
  BY DEF BindWorker
<1>2. ObserveType'
  <2>1. observing' \in [step : Steps, pid : Named, ticks : NamedTicks, held : Processes \cup {Nobody}, found : Found]
    BY <1>1 DEF Observing, Found, Steps, Named, NamedTicks
  <2>2. history' \in [leaf : SUBSET Processes, alive : SUBSET Processes, stayed : SUBSET Processes,
                      failed : BOOLEAN, all : Seq(Entry)]
    BY <1>1 DEF ObserveType, Seen, Listed
  <2>. QED  BY <1>1, <2>1, <2>2 DEF ObserveType
<1>3. HeldIsOne' /\ StayedIsHeld'
  BY <1>1 DEF HeldIsOne, StayedIsHeld, Live, Observing, Seen, Listed
<1>4. PidsApart' /\ LogExact' /\ RefusedInTime' /\ ObservedIsOne'
  BY <1>1 DEF PidsApart, HasPid, LogExact, RefusedInTime, ObservedIsOne, Observing, Seen
<1>. QED  BY <1>2, <1>3, <1>4

\* The pidfd.  (observe, step 2)
LEMMA PidfdKeeps == ObserveInv /\ PidfdOpen => ObserveInv'
<1>. SUFFICES ASSUME ObserveInv, PidfdOpen
              PROVE  ObserveInv'
  OBVIOUS
<1>0. procs' = procs
  BY DEF PidfdOpen
<1>1. ASSUME NEW p \in Holders, Goes("StartTime", p)
      PROVE  ObserveInv'
  <2>1. p \in Processes /\ procs[p].state # "unborn" /\ procs[p].pid = observing.pid
    BY <1>1 DEF Holders, HasPid
  <2>2. \A q \in history.stayed : procs[q].pid = observing.pid => q = p
    BY <1>1, StayedHasPid
  <2>. QED  BY <1>0, <1>1, <2>1, <2>2, GoesKeeps DEF Steps
<1>2. ASSUME Holders = {}, Ends("Gone", FALSE)
      PROVE  ObserveInv'
  <2>1. \A q \in history.stayed : procs[q].pid # observing.pid
    BY <1>2, StayedHasPid
  <2>. QED  BY <1>0, <1>2, <2>1, EndsKeeps DEF Found
<1>3. ASSUME Ends("OpenFailed", TRUE)
      PROVE  ObserveInv'
  BY <1>0, <1>3, EndsKeeps DEF Found
<1>. QED  BY <1>1, <1>2, <1>3 DEF PidfdOpen

\* The start time: if the held process is alive, the file read is its own.  (observe, step 3)
LEMMA StartTimeKeeps == ObserveInv /\ StartTime => ObserveInv'
<1>. SUFFICES ASSUME ObserveInv, StartTime
              PROVE  ObserveInv'
  OBVIOUS
<1>0. procs' = procs /\ observing.step = "StartTime" /\ ObserveType
  BY DEF StartTime, ObserveInv
<1>1. ASSUME NEW p \in Holders, ReadStat(StatFile(p), FALSE)
      PROVE  ObserveInv'
  <2>1. p \in Processes /\ procs[p].state # "unborn" /\ procs[p].pid = observing.pid /\ HasPid(p)
    BY <1>1 DEF Holders, HasPid
  <2>2. ParseStatStart(StatFile(p)) = <<procs[p].ticks>>
    BY <1>0, <2>1, StatParsed
  <2>3. CASE procs[p].ticks # observing.ticks
    <3>1. Ends("StartDiffers", FALSE)
      <4>1. ParseStatStart(StatFile(p)) # <<>> /\ ParseStatStart(StatFile(p))[1] # observing.ticks
        BY <2>2, <2>3
      <4>. QED  BY <1>1, <4>1 DEF ReadStat
    <3>2. \A q \in history.stayed : procs[q].pid = observing.pid => q = p
      BY <1>1, StayedHasPid
    <3>. QED  BY <1>0, <2>3, <3>1, <3>2, EndsKeeps DEF Found
  <2>4. CASE procs[p].ticks = observing.ticks
    <3>1. Goes("Recheck", observing.held)
      BY <1>1, <2>2, <2>4 DEF ReadStat
    <3>2. /\ observing.held \in Processes /\ procs[observing.held].state # "unborn"
          /\ procs[observing.held].pid = observing.pid
          /\ \A q \in history.stayed : procs[q].pid = observing.pid => q = observing.held
      BY <1>0 DEF ObserveInv, HeldIsOne, StayedIsHeld
    <3>3. Live(observing.held) => observing.held = p
      BY <2>1, <3>2 DEF ObserveInv, PidsApart, HasPid, Live
    <3>. QED  BY <1>0, <2>4, <3>1, <3>2, <3>3, GoesKeeps DEF Steps
  <2>. QED  BY <2>3, <2>4
<1>2. ASSUME NEW p \in Holders, NEW file \in OddStatFiles(StatFile(p)), ReadStat(file, TRUE)
      PROVE  ObserveInv'
  <2>1. ParseStatStart(file) = <<>>
    BY <1>0, <1>2, OddStatRefused DEF Holders
  <2>2. Ends("Unreadable", TRUE)
    BY <1>2, <2>1 DEF ReadStat
  <2>. QED  BY <1>0, <2>2, EndsKeeps DEF Found
<1>3. ASSUME Holders = {}, Ends("Gone", FALSE)
      PROVE  ObserveInv'
  <2>1. \A q \in history.stayed : procs[q].pid # observing.pid
    BY <1>3, StayedHasPid
  <2>. QED  BY <1>0, <1>3, <2>1, EndsKeeps DEF Found
<1>4. ASSUME Ends("Unreadable", TRUE)
      PROVE  ObserveInv'
  BY <1>0, <1>4, EndsKeeps DEF Found
<1>. QED  BY <1>1, <1>2, <1>3, <1>4 DEF StartTime

\* The poll.  (observe, step 5)
LEMMA LivenessKeeps == ObserveInv /\ Liveness => ObserveInv'
<1>. SUFFICES ASSUME ObserveInv, Liveness
              PROVE  ObserveInv'
  OBVIOUS
<1>0. procs' = procs /\ observing.step = "Liveness"
  BY DEF Liveness
<1>1. ASSUME Live(observing.held), Ends("Observed", FALSE)
      PROVE  ObserveInv'
  <2>1. /\ observing.held \in history.leaf /\ procs[observing.held].pid = observing.pid
        /\ procs[observing.held].ticks = observing.ticks
    BY <1>0, <1>1 DEF ObserveInv, HeldIsOne
  <2>. QED  BY <1>0, <1>1, <2>1, EndsKeeps DEF Found
<1>2. ASSUME ~Live(observing.held), Ends("Exited", FALSE)
      PROVE  ObserveInv'
  <2>1. \A q \in history.stayed : Live(q) /\ (procs[q].pid = observing.pid => q = observing.held)
    BY <1>0 DEF ObserveInv, StayedIsHeld
  <2>. QED  BY <1>0, <1>2, <2>1, EndsKeeps DEF Found
<1>3. ASSUME Ends("PollFailed", TRUE)
      PROVE  ObserveInv'
  BY <1>0, <1>3, EndsKeeps DEF Found
<1>. QED  BY <1>1, <1>2, <1>3 DEF Liveness

-----------------------------------------------------------------------------
(* The kernel's steps *)

\* Whatever the kernel does to one process, one that has started keeps its pid
\* and its start time and is never alive again once it exited.
LEMMA KernelKeeps ==
  ASSUME ObserveInv, observing' = observing, log' = log,
         procs' \in [Processes -> [pid : Nat, ticks : Nat, state : {"unborn", "alive", "zombie", "gone"}, leaf : BOOLEAN]],
         \A p \in Processes : procs'[p].state # "unborn" => procs'[p].pid \in Pids /\ procs'[p].ticks \in Ticks,
         \A p \in Processes : procs[p].state # "unborn" =>
           /\ procs'[p].state # "unborn" /\ procs'[p].pid = procs[p].pid /\ procs'[p].ticks = procs[p].ticks
           /\ Live(p)' => Live(p),
         PidsApart',
         NEW stayed \in SUBSET history.stayed,
         history' = Seen(history.leaf, history.alive, stayed, history.failed, history.all),
         \A p \in stayed : procs'[p] = procs[p]
  PROVE  ObserveInv'
<1>. USE DEF ObserveInv
<1>1. ObserveType'
  <2>1. history' \in [leaf : SUBSET Processes, alive : SUBSET Processes, stayed : SUBSET Processes,
                      failed : BOOLEAN, all : Seq(Entry)]
    BY DEF ObserveType, Seen
  <2>. QED  BY <2>1 DEF ObserveType
<1>2. HeldIsOne'
  <2>1. history'.leaf = history.leaf /\ history.leaf \subseteq Processes
    BY DEF Seen, ObserveType
  <2>. QED  BY <2>1 DEF HeldIsOne, ObserveType
<1>3. StayedIsHeld'
  BY DEF StayedIsHeld, Live, Seen
<1>4. LogExact' /\ RefusedInTime'
  BY DEF LogExact, RefusedInTime, Seen
<1>5. ObservedIsOne'
  <2>1. \A p \in history.leaf : procs'[p].pid = procs[p].pid /\ procs'[p].ticks = procs[p].ticks
    BY DEF HeldIsOne, ObserveType
  <2>. QED  BY <2>1 DEF ObservedIsOne, Seen
<1>. QED  BY <1>1, <1>2, <1>3, <1>4, <1>5

\* The kernel gives a new process a pid that no process has.
LEMMA StartKeeps ==
  ASSUME ObserveInv, NEW p \in Processes, NEW pid \in Pids, NEW ticks \in Ticks, NEW leaf \in BOOLEAN,
         Start(p, pid, ticks, leaf)
  PROVE  ObserveInv'
<1>. DEFINE new == [pid |-> pid, ticks |-> ticks, state |-> "alive", leaf |-> leaf]
<1>1. /\ procs[p].state = "unborn" /\ procs' = [procs EXCEPT ![p] = new]
      /\ observing' = observing /\ log' = log /\ history' = history
      /\ \A o \in Processes : HasPid(o) => procs[o].pid # pid
  BY DEF Start
<1>2. new \in [pid : Nat, ticks : Nat, state : {"unborn", "alive", "zombie", "gone"}, leaf : BOOLEAN]
  BY PidAssumption, TickAssumption
<1>3. ObserveType
  BY DEF ObserveInv
<1>4. procs'[p] = new /\ \A o \in Processes : o # p => procs'[o] = procs[o]
  BY <1>1, <1>3 DEF ObserveType
<1>5. PidsApart'
  BY <1>1, <1>4 DEF ObserveInv, PidsApart, HasPid
<1>6. p \notin history.stayed /\ history.stayed \subseteq Processes
  BY <1>1, <1>3 DEF ObserveInv, StayedIsHeld, Live, ObserveType
<1>7. history' = Seen(history.leaf, history.alive, history.stayed, history.failed, history.all)
  BY <1>1, <1>3 DEF ObserveType, Seen
<1>8. procs' \in [Processes -> [pid : Nat, ticks : Nat, state : {"unborn", "alive", "zombie", "gone"}, leaf : BOOLEAN]]
  BY <1>1, <1>2, <1>3 DEF ObserveType
<1>9. \A o \in Processes : procs'[o].state # "unborn" => procs'[o].pid \in Pids /\ procs'[o].ticks \in Ticks
  <2>1. procs'[p].pid \in Pids /\ procs'[p].ticks \in Ticks
    BY <1>4
  <2>2. \A o \in Processes : procs[o].state # "unborn" => procs[o].pid \in Pids /\ procs[o].ticks \in Ticks
    BY <1>3 DEF ObserveType
  <2>. QED  BY <1>4, <2>1, <2>2, Zenon
<1>10. \A o \in Processes : procs[o].state # "unborn" =>
         /\ procs'[o].state # "unborn" /\ procs'[o].pid = procs[o].pid /\ procs'[o].ticks = procs[o].ticks
         /\ Live(o)' => Live(o)
  BY <1>1, <1>4 DEF Live
<1>. QED  BY <1>1, <1>4, <1>5, <1>6, <1>7, <1>8, <1>9, <1>10, KernelKeeps

\* A process exits, is reaped or moves.
LEMMA ChangeKeeps ==
  ASSUME ObserveInv, NEW p \in Processes, Exit(p) \/ Reap(p) \/ Move(p)
  PROVE  ObserveInv'
<1>1. ObserveType
  BY DEF ObserveInv
<1>2. /\ procs[p].state \in {"alive", "zombie"} /\ observing' = observing /\ log' = log
      /\ procs' \in [Processes -> [pid : Nat, ticks : Nat, state : {"unborn", "alive", "zombie", "gone"}, leaf : BOOLEAN]]
      /\ procs'[p].pid = procs[p].pid /\ procs'[p].ticks = procs[p].ticks
      /\ procs'[p].state \in {"alive", "zombie", "gone"} /\ (procs'[p].state = "alive" => procs[p].state = "alive")
      /\ \A o \in Processes : o # p => procs'[o] = procs[o]
  <2>1. CASE Exit(p)
    BY <1>1, <2>1 DEF ObserveType, Exit, Live
  <2>2. CASE Reap(p)
    BY <1>1, <2>2 DEF ObserveType, Reap
  <2>3. CASE Move(p)
    BY <1>1, <2>3 DEF ObserveType, Move, Live
  <2>. QED  BY <2>1, <2>2, <2>3
<1>3. history' = Seen(history.leaf, history.alive, history.stayed \ {p}, history.failed, history.all)
  <2>1. CASE Exit(p) \/ Move(p)
    BY <2>1 DEF Exit, Move
  <2>2. CASE Reap(p)
    <3>1. p \notin history.stayed
      BY <2>2 DEF Reap, ObserveInv, StayedIsHeld, Live
    <3>2. history' = history /\ history.stayed \ {p} = history.stayed
      BY <2>2, <3>1 DEF Reap
    <3>. QED  BY <1>1, <3>2 DEF ObserveType, Seen
  <2>. QED  BY <2>1, <2>2
<1>4. PidsApart'
  BY <1>2 DEF ObserveInv, PidsApart, HasPid
<1>5. \A o \in Processes : procs'[o].state # "unborn" => procs'[o].pid \in Pids /\ procs'[o].ticks \in Ticks
  BY <1>1, <1>2 DEF ObserveType
<1>6. \A o \in Processes : procs[o].state # "unborn" =>
        /\ procs'[o].state # "unborn" /\ procs'[o].pid = procs[o].pid /\ procs'[o].ticks = procs[o].ticks
        /\ Live(o)' => Live(o)
  BY <1>2 DEF Live
<1>7. \A o \in history.stayed \ {p} : procs'[o] = procs[o]
  BY <1>1, <1>2 DEF ObserveType
<1>8. history.stayed \ {p} \in SUBSET history.stayed
  OBVIOUS
<1>. QED  BY <1>2, <1>3, <1>4, <1>5, <1>6, <1>7, <1>8, KernelKeeps

-----------------------------------------------------------------------------
\* The inductive invariant: what the steps so far say of the held process, of the
\* processes that stayed and of the log.  (observation.rs observe)
THEOREM ObserveInvariant == ObserveSpec => []ObserveInv
<1>1. ObserveInit => ObserveInv
  <2>. SUFFICES ASSUME ObserveInit
                PROVE  ObserveInv
    OBVIOUS
  <2>1. /\ procs = [p \in Processes |-> Unborn] /\ observing = Observing("idle", 0, 0, Nobody, "none")
        /\ log = [entries |-> <<>>, dropped |-> 0] /\ history = Seen({}, {}, {}, FALSE, <<>>)
    BY DEF ObserveInit
  <2>2. ObserveType
    BY <2>1 DEF ObserveType, Unborn, Observing, Seen, Named, NamedTicks, Found, Steps
  <2>3. PidsApart /\ HeldIsOne /\ StayedIsHeld /\ RefusedInTime /\ ObservedIsOne
    BY <2>1 DEF PidsApart, HasPid, Unborn, HeldIsOne, StayedIsHeld, RefusedInTime, ObservedIsOne, Observing, Seen
  <2>4. LogExact
    BY <2>1, FieldAssumption DEF LogExact, Seen
  <2>. QED  BY <2>2, <2>3, <2>4 DEF ObserveInv
<1>2. ObserveInv /\ [ObserveNext]_observeVars => ObserveInv'
  <2>. SUFFICES ASSUME ObserveInv, [ObserveNext]_observeVars
                PROVE  ObserveInv'
    OBVIOUS
  <2>1. CASE ObserverSteps
    <3>1. ASSUME Unobserved
          PROVE  ObserveInv'
      <4>1. Ends("Unreadable", TRUE) /\ procs' = procs
        BY <3>1 DEF Unobserved
      <4>. QED  BY <4>1, EndsKeeps DEF Found
    <3>. QED  BY <2>1, <3>1, BindKeeps, MembershipKeeps, PidfdKeeps, StartTimeKeeps, LivenessKeeps DEF ObserverSteps
  <2>2. CASE KernelSteps
    BY <2>2, StartKeeps, ChangeKeeps DEF KernelSteps
  <2>3. CASE UNCHANGED observeVars
    BY <2>3 DEF observeVars, ObserveInv, ObserveType, PidsApart, HasPid, HeldIsOne, StayedIsHeld, Live, LogExact,
                RefusedInTime, ObservedIsOne
  <2>. QED  BY <2>1, <2>2, <2>3 DEF ObserveNext
<1>. QED  BY <1>1, <1>2, PTL DEF ObserveSpec

\* The gate observes exactly the worker the BIND names, for any processes, pids
\* and number of observations.  (observation.rs observe, gate.rs bind)
THEOREM ObservedAlwaysWorker == ObserveSpec => []ObservedIsWorker
<1>1. ObserveInv => ObservedIsWorker
  BY DEF ObserveInv, ObservedIsWorker, RefusedForCause, RefusedInTime, LogExact
<1>. QED  BY <1>1, ObserveInvariant, PTL

-----------------------------------------------------------------------------
(* The quotas: rounding.                                                   *)

\* The floor of a value in a unit is at most the value.
LEMMA FloorBelow ==
  ASSUME NEW v \in Nat, NEW d \in Nat \ {0}
  PROVE  FloorIn(v, d) \in Nat /\ FloorIn(v, d) * d <= v
<1>1. v = d * (v \div d) + (v % d) /\ v % d \in 0 .. d - 1 /\ v \div d \in Nat
  OBVIOUS
<1> QED BY <1>1 DEF FloorIn

\* The ceiling of a value in a unit is at least the value.
LEMMA CeilAbove ==
  ASSUME NEW v \in Nat, NEW d \in Nat \ {0}
  PROVE  CeilIn(v, d) \in Nat /\ v <= CeilIn(v, d) * d
<1> DEFINE w == v + d - 1
<1>1. w \in Nat
  OBVIOUS
<1> HIDE DEF w
<1>2. w = d * (w \div d) + (w % d) /\ w % d \in 0 .. d - 1 /\ w \div d \in Nat
  BY <1>1
<1>3. CeilIn(v, d) = w \div d
  BY DEF CeilIn, w
<1>4. w - (w % d) <= d * (w \div d) /\ w - (w % d) >= v
  BY <1>2, <1>1 DEF w
<1>5. PICK n \in Nat : n = w \div d
  BY <1>2
<1> QED BY <1>3, <1>4, <1>5, <1>2, <1>1

\* A room of at most floor(hard) - ceil(used), or of none, fits below the hard
\* limit exactly: the two roundings go against the requester.
\* (quota.rs floor_in, ceil_in, max(0))
LEMMA RoundedRoomFits ==
  ASSUME NEW hard \in Nat, NEW used \in Nat, NEW d \in Nat \ {0}, NEW room \in Nat, used <= hard,
         room <= IF FloorIn(hard, d) >= CeilIn(used, d) THEN FloorIn(hard, d) - CeilIn(used, d) ELSE 0
  PROVE  used + room * d <= hard
<1>1. PICK f \in Nat : f = FloorIn(hard, d) /\ f * d <= hard
  BY FloorBelow
<1>2. PICK c \in Nat : c = CeilIn(used, d) /\ used <= c * d
  BY CeilAbove
<1>3. CASE room = 0
  BY <1>3
<1>4. CASE room # 0
  <2>1. room + c <= f
    BY <1>1, <1>2, <1>4
  <2>2. PICK slack \in Nat : f = room + c + slack
    <3>1. f - (room + c) \in Nat /\ f = room + c + (f - (room + c))
      BY <2>1
    <3> QED BY <3>1
  <2>3. f * d = room * d + c * d + slack * d
    BY <2>2
  <2>4. room * d \in Nat /\ c * d \in Nat /\ slack * d \in Nat
    OBVIOUS
  <2> QED BY <1>1, <1>2, <2>3, <2>4
<1> QED BY <1>3, <1>4

-----------------------------------------------------------------------------
(* Quantities *)

\* What the parser gives is a natural number or nothing.
\* (quota.rs parse_quantity)
LEMMA ParsedIsNatural ==
  ASSUME NEW text \in QuotaTexts
  PROVE  ParseQuantity(text) \in Nat \cup {Unparsed}
<1> DEFINE two == SUFFIXES[text.suffix].two
           power == ScaleDigits - text.fraction + SUFFIXES[text.suffix].ten
           scaled == text.mantissa * 2 ^ two
<1>1. text.mantissa \in Int /\ two \in 0 .. MAX_POWER /\ power \in -MAX_POWER .. MAX_POWER
  BY TextAssumption
<1>2. 2 ^ two \in Nat \ {0}
  BY <1>1, PowerAssumption
<1>3. CASE text.mantissa <= 0
  BY <1>1, <1>3 DEF ParseQuantity, Unparsed
<1>4. CASE text.mantissa > 0
  <2>1. scaled \in Nat
    BY <1>1, <1>2, <1>4
  <2>2. CASE power >= 0
    <3>1. 10 ^ power \in Nat
      BY <1>1, <2>2, PowerAssumption
    <3>2. scaled * 10 ^ power \in Nat
      BY <2>1, <3>1
    <3> QED BY <3>2, <2>2, <1>4 DEF ParseQuantity
  <2>3. CASE ~(power >= 0)
    <3>1. -power \in 0 .. MAX_POWER
      BY <1>1, <2>3, PowerAssumption
    <3>2. 10 ^ (-power) \in Nat \ {0}
      BY <3>1, PowerAssumption
    <3>3. scaled \div 10 ^ (-power) \in Nat
      BY <2>1, <3>2
    <3> QED BY <3>3, <2>3, <1>4 DEF ParseQuantity
  <2> QED BY <2>2, <2>3
<1> QED BY <1>1, <1>3, <1>4

\* A unit's divisor is a positive number.
LEMMA DivisorPositive == ASSUME NEW scale PROVE Divisor(scale) \in Nat \ {0}
  BY ScaleAssumption DEF Divisor

-----------------------------------------------------------------------------
(* The invariant: once the quotas were measured they stay settled and within  *)
(* their limits, so that the controller's step changes texts and no values.   *)

QuotaInv ==
  /\ AreQuotas(quotas)
  /\ measured.status = "Ok" => \A i \in DOMAIN quotas : Settled(quotas[i]) /\ UsedWithin(quotas[i])
  /\ RoomFits

\* A quota that is settled and within its limits has, after the controller's
\* step, the values it had before.
LEMMA SyncKeepsValues ==
  ASSUME AreQuotas(quotas), NEW i \in DOMAIN quotas, SyncStatus(i)
  PROVE  /\ AreQuotas(quotas') /\ DOMAIN quotas' = DOMAIN quotas
         /\ \A j \in DOMAIN quotas : j # i => quotas'[j] = quotas[j]
         /\ Settled(quotas[i]) /\ UsedWithin(quotas[i]) =>
              /\ Settled(quotas'[i]) /\ UsedWithin(quotas'[i])
              /\ DOMAIN quotas'[i].hard = DOMAIN quotas[i].hard
              /\ \A key \in DOMAIN quotas[i].hard :
                   /\ key \in DOMAIN quotas'[i].used
                   /\ ParseQuantity(quotas'[i].hard[key]) = ParseQuantity(quotas[i].hard[key])
                   /\ ParseQuantity(quotas'[i].used[key]) = ParseQuantity(quotas[i].used[key])
<1> DEFINE q == quotas[i]
           u == [key \in DOMAIN q.spec |-> IF key \in DOMAIN q.used THEN q.used[key] ELSE Zero]
           n == [name |-> q.name, spec |-> q.spec, hard |-> q.spec, used |-> u]
<1>1. IsQuota(q)
  BY DEF AreQuotas
<1>2. quotas' = [quotas EXCEPT ![i] = n]
  BY DEF SyncStatus
<1>3. DOMAIN quotas' = DOMAIN quotas /\ quotas'[i] = n
      /\ quotas' = [j \in DOMAIN quotas' |-> quotas'[j]] /\ \A j \in DOMAIN quotas : j # i => quotas'[j] = quotas[j]
  BY <1>2 DEF AreQuotas
<1>4. IsQuotaMap(u)
  BY <1>1, TextAssumption DEF IsQuota, IsQuotaMap
<1>5. IsQuota(n)
  BY <1>1, <1>4 DEF IsQuota
<1>6. AreQuotas(quotas')
  BY <1>3, <1>5 DEF AreQuotas
<1>7. ASSUME Settled(q), UsedWithin(q)
      PROVE  /\ Settled(n) /\ UsedWithin(n) /\ DOMAIN n.hard = DOMAIN q.hard
             /\ \A key \in DOMAIN q.hard :
                  /\ key \in DOMAIN n.used
                  /\ ParseQuantity(n.hard[key]) = ParseQuantity(q.hard[key])
                  /\ ParseQuantity(n.used[key]) = ParseQuantity(q.used[key])
  <2>1. DOMAIN q.hard = DOMAIN q.spec
    <3>1. DOMAIN Quantities(q.hard) = DOMAIN q.hard /\ DOMAIN Quantities(q.spec) = DOMAIN q.spec
      BY DEF Quantities
    <3> QED BY <3>1, <1>7 DEF Settled
  <2>2. \A key \in DOMAIN q.hard : ParseQuantity(q.spec[key]) = ParseQuantity(q.hard[key])
    <3>1. \A key \in DOMAIN q.hard : /\ Quantities(q.hard)[key] = ParseQuantity(q.hard[key])
                                     /\ Quantities(q.spec)[key] = ParseQuantity(q.spec[key])
      BY <2>1 DEF Quantities
    <3> QED BY <3>1, <1>7 DEF Settled
  <2>3. \A key \in DOMAIN q.hard : key \in DOMAIN n.used /\ n.used[key] = q.used[key]
    BY <2>1, <1>7 DEF UsedWithin
  <2>4. Settled(n)
    BY DEF Settled
  <2>5. UsedWithin(n)
    BY <2>1, <2>2, <2>3, <1>7 DEF UsedWithin
  <2> QED BY <2>1, <2>2, <2>3, <2>4, <2>5
<1> HIDE DEF n, u
<1> QED BY <1>3, <1>6, <1>7

\* A measured unit's headroom is at most the room of every covering key.
\* (quota.rs quota, the least room)
LEMMA MeasuredIsLeast ==
  ASSUME Measure.status = "Ok", AreQuotas(quotas), NEW unit \in DOMAIN UNITS, NEW c \in Covering(unit)
  PROVE  LET q == quotas[c[1]]
             d == Divisor(UNITS[unit].scale)
         IN /\ c[1] \in DOMAIN quotas /\ c[2] \in DOMAIN q.hard
            /\ ParseQuantity(q.hard[c[2]]) \in Nat /\ ParseQuantity(q.used[c[2]]) \in Nat
            /\ Measure.headroom[unit] \in Nat /\ Measure.headroom[unit] <= Room(q, c[2], d).room
<1> DEFINE d == Divisor(UNITS[unit].scale)
           k == CHOOSE k \in Chosen(unit) : TRUE
<1>1. /\ \A i \in DOMAIN quotas : Parsed(quotas[i]) /\ UsedWithin(quotas[i])
      /\ Bounded(unit) /\ Measure.headroom[unit] = k.room
  BY DEF Measure
<1>2. c[1] \in DOMAIN quotas /\ c[2] \in DOMAIN quotas[c[1]].hard
  BY DEF Covering
<1>3. ASSUME NEW x \in Covering(unit)
      PROVE  /\ ParseQuantity(quotas[x[1]].hard[x[2]]) \in Nat
             /\ ParseQuantity(quotas[x[1]].used[x[2]]) \in Nat
  <2> DEFINE q == quotas[x[1]]
  <2>1. x[1] \in DOMAIN quotas /\ x[2] \in DOMAIN q.hard
    BY DEF Covering
  <2>2. x[2] \in DOMAIN q.used /\ Parsed(q) /\ IsQuota(q)
    BY <2>1, <1>1 DEF UsedWithin, AreQuotas
  <2>3. q.hard[x[2]] \in QuotaTexts /\ q.used[x[2]] \in QuotaTexts
    BY <2>1, <2>2 DEF IsQuota, IsQuotaMap
  <2>4. ParseQuantity(q.hard[x[2]]) # Unparsed /\ ParseQuantity(q.used[x[2]]) # Unparsed
    BY <2>1, <2>2 DEF Parsed
  <2> QED BY <2>3, <2>4, ParsedIsNatural
<1>4. \A x \in Covering(unit) : Room(quotas[x[1]], x[2], d).room \in Nat
  <2> TAKE x \in Covering(unit)
  <2>1. PICK f \in Nat : f = FloorIn(ParseQuantity(quotas[x[1]].hard[x[2]]), d)
    BY <1>3, FloorBelow, DivisorPositive
  <2>2. PICK g \in Nat : g = CeilIn(ParseQuantity(quotas[x[1]].used[x[2]]), d)
    BY <1>3, CeilAbove, DivisorPositive
  <2>3. Room(quotas[x[1]], x[2], d).room = IF f >= g THEN f - g ELSE 0
    BY <2>1, <2>2 DEF Room
  <2> QED BY <2>1, <2>2, <2>3
<1>5. \A r \in Rooms(unit) : r.room \in Nat
  BY <1>4 DEF Rooms
<1>6. Room(quotas[c[1]], c[2], d) \in Rooms(unit)
  BY DEF Rooms
<1>7. k \in Chosen(unit)
  BY <1>1 DEF Bounded
<1>8. k \in Rooms(unit) /\ ~Earlier(Room(quotas[c[1]], c[2], d), k)
  BY <1>6, <1>7 DEF Chosen
<1>9. k.room <= Room(quotas[c[1]], c[2], d).room
  BY <1>5, <1>6, <1>8 DEF Earlier
<1> HIDE DEF k, d
<1>10. k.room \in Nat
  BY <1>5, <1>8
<1> QED BY <1>1, <1>2, <1>3, <1>9, <1>10 DEF d

\* The quotas, once measured, stay settled and the headroom fits.
THEOREM QuotaInvariant == QuotaSpec => []QuotaInv
<1>1. QuotaInit => QuotaInv
  BY QuotaAssumption DEF QuotaInit, Unmeasured, QuotaInv, RoomFits
<1>2. QuotaInv /\ [QuotaNext]_quotaVars => QuotaInv'
  <2> SUFFICES ASSUME QuotaInv, [QuotaNext]_quotaVars PROVE QuotaInv'
    OBVIOUS
  <2>1. CASE TakeQuota
    <3>1. quotas' = quotas /\ measured' = Measure
      BY <2>1 DEF TakeQuota
    <3>2. AreQuotas(quotas)
      BY DEF QuotaInv
    <3>3. SUFFICES ASSUME Measure.status = "Ok"
                   PROVE  /\ \A i \in DOMAIN quotas : Settled(quotas[i]) /\ UsedWithin(quotas[i])
                          /\ RoomFits'
      BY <3>1, <3>2 DEF QuotaInv, RoomFits
    <3>4. \A i \in DOMAIN quotas : Settled(quotas[i]) /\ UsedWithin(quotas[i])
      BY <3>3 DEF Measure
    <3>5. ASSUME NEW unit \in DOMAIN UNITS, NEW c \in Covering(unit)
          PROVE  /\ c[2] \in DOMAIN quotas[c[1]].used
                 /\ ParseQuantity(quotas[c[1]].used[c[2]]) + Measure.headroom[unit] * Divisor(UNITS[unit].scale)
                      <= ParseQuantity(quotas[c[1]].hard[c[2]])
      <4> DEFINE q == quotas[c[1]]
                 d == Divisor(UNITS[unit].scale)
                 hard == ParseQuantity(q.hard[c[2]])
                 used == ParseQuantity(q.used[c[2]])
                 room == Measure.headroom[unit]
      <4>1. /\ c[1] \in DOMAIN quotas /\ c[2] \in DOMAIN q.hard
            /\ hard \in Nat /\ used \in Nat /\ room \in Nat /\ room <= Room(q, c[2], d).room
        BY <3>2, <3>3, MeasuredIsLeast
      <4>2. c[2] \in DOMAIN q.used /\ used <= hard
        BY <3>4, <4>1 DEF UsedWithin
      <4>3. room <= IF FloorIn(hard, d) >= CeilIn(used, d) THEN FloorIn(hard, d) - CeilIn(used, d) ELSE 0
        BY <4>1 DEF Room
      <4>4. d \in Nat \ {0}
        BY DivisorPositive
      <4> HIDE DEF hard, used, room, d
      <4>5. used + room * d <= hard
        BY <4>1, <4>2, <4>3, <4>4, RoundedRoomFits
      <4> QED BY <4>2, <4>5 DEF hard, used, room, d
    <3>6. \A unit : Covering(unit)' = Covering(unit)
      BY <3>1 DEF Covering
    <3> QED BY <3>1, <3>4, <3>5, <3>6 DEF RoomFits
  <2>2. ASSUME NEW i \in DOMAIN quotas, SyncStatus(i) PROVE QuotaInv'
    <3>1. AreQuotas(quotas)
      BY DEF QuotaInv
    <3>2. measured' = measured
      BY <2>2 DEF SyncStatus
    <3>3. AreQuotas(quotas') /\ DOMAIN quotas' = DOMAIN quotas /\ \A j \in DOMAIN quotas : j # i => quotas'[j] = quotas[j]
      BY <3>1, <2>2, SyncKeepsValues
    <3>4. CASE measured.status # "Ok"
      BY <3>2, <3>3, <3>4 DEF QuotaInv, RoomFits
    <3>5. CASE measured.status = "Ok"
      <4>1. \A j \in DOMAIN quotas :
              /\ Settled(quotas'[j]) /\ UsedWithin(quotas'[j])
              /\ DOMAIN quotas'[j].hard = DOMAIN quotas[j].hard
              /\ \A key \in DOMAIN quotas[j].hard :
                   /\ key \in DOMAIN quotas'[j].used
                   /\ ParseQuantity(quotas'[j].hard[key]) = ParseQuantity(quotas[j].hard[key])
                   /\ ParseQuantity(quotas'[j].used[key]) = ParseQuantity(quotas[j].used[key])
        <5> TAKE j \in DOMAIN quotas
        <5>1. Settled(quotas[j]) /\ UsedWithin(quotas[j])
          BY <3>5 DEF QuotaInv
        <5>2. CASE j = i
          BY <5>1, <5>2, <3>1, <2>2, SyncKeepsValues
        <5>3. CASE j # i
          BY <5>1, <5>3, <3>3 DEF UsedWithin
        <5> QED BY <5>2, <5>3
      <4>2. \A unit \in DOMAIN UNITS : Covering(unit)' = Covering(unit)
        BY <3>3, <4>1 DEF Covering
      <4>3. ASSUME NEW unit \in DOMAIN UNITS, NEW c \in Covering(unit)
            PROVE  /\ c[2] \in DOMAIN quotas'[c[1]].used
                   /\ ParseQuantity(quotas'[c[1]].used[c[2]]) + measured.headroom[unit] * Divisor(UNITS[unit].scale)
                        <= ParseQuantity(quotas'[c[1]].hard[c[2]])
        <5>1. c[1] \in DOMAIN quotas /\ c[2] \in DOMAIN quotas[c[1]].hard
          BY DEF Covering
        <5>2. ParseQuantity(quotas[c[1]].used[c[2]]) + measured.headroom[unit] * Divisor(UNITS[unit].scale)
                <= ParseQuantity(quotas[c[1]].hard[c[2]])
          BY <3>5 DEF QuotaInv, RoomFits
        <5> QED BY <5>1, <5>2, <4>1
      <4>4. RoomFits'
        BY <3>2, <4>2, <4>3 DEF RoomFits
      <4> QED BY <3>2, <3>3, <3>5, <4>1, <4>4 DEF QuotaInv
    <3> QED BY <3>4, <3>5
  <2>3. CASE UNCHANGED quotaVars
    BY <2>3 DEF QuotaInv, RoomFits, Covering, quotaVars
  <2> QED BY <2>1, <2>2, <2>3 DEF QuotaNext
<1> QED BY <1>1, <1>2, PTL DEF QuotaSpec

\* For every scale, table of units and set of quotas: a run that asks for the
\* recorded headroom exceeds no quota, now or after the controller's steps.
THEOREM HeadroomAlwaysFits == QuotaSpec => []RoomFits
<1>1. QuotaInv => RoomFits
  BY DEF QuotaInv
<1> QED BY <1>1, QuotaInvariant, PTL

=============================================================================
