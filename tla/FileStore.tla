----------------------------- MODULE FileStore -----------------------------
(***************************************************************************)
(* The file-backed stores of the effect gate (effect-gate/src/             *)
(* file_store.rs, with the freshness test of gate/src/main.rs): the        *)
(* generation index, and each generation's journal, document and failure   *)
(* marker, opened and appended to by gate processes that die, meet I/O     *)
(* errors and lose power.                                                  *)
(*                                                                         *)
(* A file is its directory entry and its append attempts.  An attempt has  *)
(* the status byte a read returns now, and the set of what the medium may  *)
(* hold for it after a power loss: a sync makes the two agree.  A sync of  *)
(* a file is taken to flush the whole file, as fsync promises.             *)
(*                                                                         *)
(* An append runs under a lock nobody else passes (the index's for the     *)
(* index and the documents, the journal's for the journal and the marker), *)
(* so no other process sees its middle; what it can leave behind when it   *)
(* fails or its process dies is the set AppendFrame.                       *)
(***************************************************************************)
EXTENDS Integers, Sequences, FiniteSets

CONSTANTS Procs,      \* gate processes
          Gens,       \* generations a signed configuration may name
          Docs,       \* digests of signed configurations
          Execs,      \* executions a BIND record may name
          MaxFrames,  \* R20: append attempts a file has room for
          MaxStarts,  \* process starts
          MaxFaults,  \* failing appends
          MaxPower,   \* power losses
          None

ASSUME StoreAssumption ==
    /\ MaxFrames \in Nat \ {0}
    /\ MaxStarts \in Nat /\ MaxFaults \in Nat /\ MaxPower \in Nat
    /\ None \notin Gens \cup Docs \cup Execs

VARIABLES files,      \* the store files
          proc,       \* the gate processes
          starts, faults, power,
          reported,   \* records each journal's appends answered Durable for
          granted,    \* how often each execution's BIND was answered Durable
          opened,     \* the (generation, document) pairs an opening succeeded with
          marked      \* generations whose marker append was answered Durable

vars == <<files, proc, starts, faults, power, reported, granted, opened, marked>>

-----------------------------------------------------------------------------
(* Files *)

\* Every record but a BIND, and the marker's one payload.
Other == "OTHER"
Marker == "MARKER"

Index == <<"index", None>>
JournalOf(g) == <<"journal", g>>
DocumentOf(g) == <<"document", g>>
MarkerOf(g) == <<"marker", g>>
JournalDir == {Index} \cup {JournalOf(g) : g \in Gens} \cup {DocumentOf(g) : g \in Gens}
MarkerDir == {MarkerOf(g) : g \in Gens}
FileNames == JournalDir \cup MarkerDir

\* An attempt's bytes: an incomplete frame, or a whole one with status P, C or R.
Status == {"torn", "P", "C", "R"}
Frame == [data : Gens \cup Docs \cup Execs \cup {Other, Marker}, now : Status, may : SUBSET (Status \cup {"none"})]
File == [entry : {"none", "volatile", "durable"}, frames : Seq(Frame)]

Missing == [entry |-> "none", frames |-> <<>>]
Exists(f) == f.entry # "none"

\* O_CREAT: the entry of a file that was not there is in the page cache only.
Created(f) == IF Exists(f) THEN f ELSE [f EXCEPT !.entry = "volatile"]

\* fsync of a directory makes its entries durable.
DirSynced(fs, dir) == [n \in FileNames |-> IF n \in dir /\ Exists(fs[n]) THEN [fs[n] EXCEPT !.entry = "durable"] ELSE fs[n]]

Flushed(frames) == [k \in 1..Len(frames) |-> [frames[k] EXCEPT !.may = {frames[k].now}]]

\* The committed payloads of a file in order: what a scan reads as frames (the rest is TORN).
Committed(f) == LET isCommitted(frame) == frame.now = "C" IN SelectSeq(f.frames, isCommitted)
Payloads(f) == {Committed(f)[k].data : k \in 1..Len(Committed(f))}
\* journal_entries: every attempt is its record, or TORN.
Torn == "TORN"
Scan(f) == [k \in 1..Len(f.frames) |-> IF f.frames[k].now = "C" THEN f.frames[k].data ELSE Torn]

-----------------------------------------------------------------------------
(* The two-phase append (R29) *)

Attempt(d, now, may) == [data |-> d, now |-> now, may |-> may]

\* What the bytes of an attempt come to when it stops before the commit byte:
\* part of the frame; the frame, not synced; the frame, synced.
Pending(frames, d) ==
    {frames \o <<Attempt(d, "torn", {"none", "torn"})>>,
     frames \o <<Attempt(d, "P", {"none", "torn", "P"})>>,
     Flushed(frames) \o <<Attempt(d, "P", {"P"})>>}

\* The commit byte written, and synced or not.
Commits(frames, d) ==
    {Flushed(frames) \o <<Attempt(d, "C", {"P", "C"})>>,
     Flushed(frames) \o <<Attempt(d, "C", {"C"})>>}

\* revoke: its write fails, its sync fails, or the frame is revoked.
Revocations(frames) ==
    LET n == Len(frames) IN
    {frames, [frames EXCEPT ![n].now = "R", ![n].may = @ \cup {"R"}],
     [frames EXCEPT ![n].now = "R", ![n].may = {"R"}]}

\* Mutant: the commit byte is not synced.
CommittedUnsynced(frames, d) == Flushed(frames) \o <<Attempt(d, "C", {"P", "C"})>>

CommittedFrames(frames, d) == Flushed(frames) \o <<Attempt(d, "C", {"C"})>>

\* Every way one append of d can end.  A full file, and a failure that left
\* the length unchanged, is clean; any other failure is torn, also when only
\* the length could not be read.  A process killed in the middle leaves any of
\* the states a failure leaves.
Stopped(f, d) ==
    {[f EXCEPT !.frames = frames] :
        frames \in Pending(f.frames, d) \cup UNION {Revocations(c) : c \in Commits(f.frames, d)}}

AppendFrame(f, d) ==
    {[file |-> f, result |-> "Clean"]} \cup
    (IF Len(f.frames) < MaxFrames
       THEN {[file |-> [f EXCEPT !.frames = CommittedFrames(f.frames, d)], result |-> "Durable"],
             [file |-> f, result |-> "Torn"]}
            \cup {[file |-> left, result |-> r] : left \in Stopped(f, d), r \in {"Torn", "Killed"}}
       ELSE {})

\* A full file fails for good; any other failure is a fault of this append.
Faulty(f, result) == result # "Durable" /\ Len(f.frames) < MaxFrames
Charge(f, result) ==
    /\ Faulty(f, result) => faults < MaxFaults
    /\ faults' = IF Faulty(f, result) THEN faults + 1 ELSE faults

-----------------------------------------------------------------------------
(* The processes *)

\* Before the index lock; holding it; holding the generation's journal lock.
Stages == {"idle", "index", "lock", "check", "document", "journal", "sync", "entry", "open"}
Proc == [pc : Stages, gen : Gens \cup {None}, doc : Docs \cup {None}, indexed : BOOLEAN, created : BOOLEAN,
         prior : SUBSET Execs, mirror : Seq(Execs \cup {Other, Torn}), binds : BOOLEAN,
         marker : [file : BOOLEAN, synced : BOOLEAN, present : BOOLEAN]]

Idle == [pc |-> "idle", gen |-> None, doc |-> None, indexed |-> FALSE, created |-> FALSE, prior |-> {},
         mirror |-> <<>>, binds |-> FALSE, marker |-> [file |-> FALSE, synced |-> FALSE, present |-> FALSE]]

IndexLocked(p) == proc[p].pc \in {"check", "document", "journal", "sync", "entry"}
Holds(p, g) == proc[p].gen = g /\ proc[p].pc \in {"entry", "open"}

Ghosts == <<reported, granted, opened, marked>>
Bounds == <<starts, faults, power>>

Init ==
    /\ files = [n \in FileNames |-> Missing]
    /\ proc = [p \in Procs |-> Idle]
    /\ starts = 0 /\ faults = 0 /\ power = 0
    /\ reported = [g \in Gens |-> 0]
    /\ granted = [e \in Execs |-> 0]
    /\ opened = {} /\ marked = {}

Leaves(p) == proc' = [proc EXCEPT ![p] = Idle]
Continues(p, pc) == proc' = [proc EXCEPT ![p].pc = pc]

\* The process ends and the kernel drops its locks: a kill, the loop's exit,
\* or an opening refused because a read, an open or a directory sync failed.
Exit(p) ==
    /\ proc[p].pc # "idle"
    /\ Leaves(p)
    /\ UNCHANGED <<files, Bounds, Ghosts>>

\* A process starts with a signed configuration and opens the index.
Start(p) ==
    /\ proc[p].pc = "idle" /\ starts < MaxStarts
    /\ \E g \in Gens, d \in Docs : proc' = [proc EXCEPT ![p] = [Idle EXCEPT !.pc = "index", !.gen = g, !.doc = d]]
    /\ files' = [files EXCEPT ![Index] = Created(@)]
    /\ starts' = starts + 1
    /\ UNCHANGED <<faults, power, Ghosts>>

SyncIndex(p) ==
    /\ proc[p].pc = "index"
    /\ files' = DirSynced(files, JournalDir)
    /\ Continues(p, "lock")
    /\ UNCHANGED <<Bounds, Ghosts>>

\* The blocking flock on the index.
LockIndex(p) ==
    /\ proc[p].pc = "lock"
    /\ \A q \in Procs : ~IndexLocked(q)
    /\ Continues(p, "check")
    /\ UNCHANGED <<files, Bounds, Ghosts>>

\* The checks of opening, all reads under the index lock (no journal lock is
\* taken without it, so one instant stands for the loop over the earlier
\* journals): R28, then every earlier generation's journal exists (R23) and is
\* not held (R30), its BINDs join the earlier bindings; then the marker.
IsIndexed(g) == g \in Payloads(files[Index])
Newest(g) == Committed(files[Index])[Len(Committed(files[Index]))].data = g
Earlier(g) == Payloads(files[Index]) \ {g}

\* Mutant: the earlier journals' locks are not looked at.
EarlierClosedAny(p) == \A e \in Earlier(proc[p].gen) : Exists(files[JournalOf(e)])

EarlierClosed(p) ==
    \A e \in Earlier(proc[p].gen) : Exists(files[JournalOf(e)]) /\ \A q \in Procs : ~Holds(q, e)
PriorBindings(g) == UNION {Payloads(files[JournalOf(e)]) : e \in Earlier(g)} \cap Execs

Passes(p) == LET g == proc[p].gen IN (IsIndexed(g) => Newest(g)) /\ EarlierClosed(p)

MarkerFound(p) == files[MarkerOf(proc[p].gen)]

\* marker_state: bytes, or a length that cannot be read, are a present marker.
Checked(p, unreadable) ==
    LET g == proc[p].gen IN
    [proc[p] EXCEPT !.pc = "document", !.indexed = IsIndexed(g), !.prior = PriorBindings(g),
                    !.marker = [file |-> Exists(MarkerFound(p)), synced |-> FALSE,
                                present |-> unreadable \/ MarkerFound(p).frames # <<>>]]

Check(p) ==
    /\ proc[p].pc = "check"
    /\ \/ ~Passes(p) /\ Leaves(p) /\ UNCHANGED faults
       \/ Passes(p) /\ proc' = [proc EXCEPT ![p] = Checked(p, FALSE)] /\ UNCHANGED faults
       \/ /\ Passes(p) /\ Exists(MarkerFound(p))
          /\ faults < MaxFaults /\ faults' = faults + 1
          /\ proc' = [proc EXCEPT ![p] = Checked(p, TRUE)]
    /\ UNCHANGED <<files, starts, power, Ghosts>>

\* document_matches: exactly one attempt, committed, of this digest.
DocumentMatches(f, d) == Len(f.frames) = 1 /\ f.frames[1].now = "C" /\ f.frames[1].data = d

MayReuse(p) == DocumentMatches(files[DocumentOf(proc[p].gen)], proc[p].doc)

\* bind_document (R75): a document that is there must match, whether the
\* generation is indexed or not; a missing one is written, unless indexed.
ReuseDocument(p) ==
    LET f == files[DocumentOf(proc[p].gen)] IN
    /\ proc[p].pc = "document" /\ (proc[p].indexed \/ Exists(f))
    /\ IF Exists(f) /\ MayReuse(p) THEN Continues(p, "journal") ELSE Leaves(p)
    /\ UNCHANGED <<files, Bounds, Ghosts>>

WriteDocument(p) ==
    LET n == DocumentOf(proc[p].gen) IN
    /\ proc[p].pc = "document" /\ ~proc[p].indexed /\ ~Exists(files[n])
    /\ \E a \in AppendFrame(Created(files[n]), proc[p].doc) :
         /\ Charge(files[n], a.result)
         /\ files' = [files EXCEPT ![n] = a.file]
         /\ IF a.result = "Durable" THEN Continues(p, "journal") ELSE Leaves(p)
    /\ UNCHANGED <<starts, power, Ghosts>>

CreateJournal(p) ==
    LET n == JournalOf(proc[p].gen) IN
    /\ proc[p].pc = "journal"
    /\ files' = [files EXCEPT ![n] = Created(@)]
    /\ proc' = [proc EXCEPT ![p].pc = "sync", ![p].created = ~Exists(files[n])]
    /\ UNCHANGED <<Bounds, Ghosts>>

NeedsSync(p) == proc[p].created \/ ~proc[p].indexed

\* The directory sync (R26), the non-blocking journal lock (R25) and the scan
\* into the mirror, of which a read error leaves a part and one TORN.
OpenJournal(p) ==
    LET g == proc[p].gen
        scan == Scan(files[JournalOf(g)])
    IN
    /\ proc[p].pc = "sync"
    /\ files' = IF NeedsSync(p) THEN DirSynced(files, JournalDir) ELSE files
    /\ IF \A q \in Procs \ {p} : ~Holds(q, g)
         THEN \/ /\ proc' = [proc EXCEPT ![p].pc = "entry", ![p].mirror = scan]
                 /\ UNCHANGED faults
              \/ /\ faults < MaxFaults /\ faults' = faults + 1
                 /\ \E k \in 0..Len(scan) :
                      proc' = [proc EXCEPT ![p].pc = "entry", ![p].mirror = Append(SubSeq(scan, 1, k), Torn)]
         ELSE Leaves(p) /\ UNCHANGED faults
    /\ UNCHANGED <<starts, power, Ghosts>>

\* Mutant: an empty journal without a marker is fresh, whoever indexed it.
FreshWhenEmpty(p) == proc[p].mirror = <<>> /\ ~proc[p].marker.file

\* main's freshness: only such stores get a gate that takes a BIND; all
\* others are restarted, deny-first.
Fresh(p) == proc[p].created /\ ~proc[p].indexed /\ proc[p].mirror = <<>> /\ ~proc[p].marker.file

Opens(p) ==
    /\ proc' = [proc EXCEPT ![p].pc = "open", ![p].binds = Fresh(p)]
    /\ opened' = opened \cup {<<proc[p].gen, proc[p].doc>>}

\* The index entry comes last; then the index lock is dropped.
AppendEntry(p) ==
    /\ proc[p].pc = "entry" /\ ~proc[p].indexed
    /\ \E a \in AppendFrame(files[Index], proc[p].gen) :
         /\ Charge(files[Index], a.result)
         /\ files' = [files EXCEPT ![Index] = a.file]
         /\ IF a.result = "Durable" THEN Opens(p) ELSE Leaves(p) /\ UNCHANGED opened
    /\ UNCHANGED <<starts, power, reported, granted, marked>>

KeepEntry(p) ==
    /\ proc[p].pc = "entry" /\ proc[p].indexed
    /\ Opens(p)
    /\ UNCHANGED <<files, Bounds, reported, granted, marked>>

-----------------------------------------------------------------------------
(* The open stores *)

\* The mirror after an append that was answered: a TORN for a torn failure,
\* nothing for a clean one.
Mirrored(mirror, d, result) ==
    mirror \o (CASE result = "Durable" -> <<d>> [] result = "Torn" -> <<Torn>> [] OTHER -> <<>>)

\* append: after any failure the gate is HELD and binds no more.
JournalAppend(p, d) ==
    LET g == proc[p].gen
        n == JournalOf(g)
    IN
    \E a \in AppendFrame(files[n], d) :
        /\ Charge(files[n], a.result)
        /\ files' = [files EXCEPT ![n] = a.file]
        /\ IF a.result = "Killed" THEN Leaves(p)
             ELSE proc' = [proc EXCEPT ![p].mirror = Mirrored(@, d, a.result), ![p].binds = @ /\ a.result = "Durable"]
        /\ reported' = IF a.result = "Durable" THEN [reported EXCEPT ![g] = @ + 1] ELSE reported
        /\ granted' = IF a.result = "Durable" /\ d \in Execs THEN [granted EXCEPT ![d] = @ + 1] ELSE granted
        /\ UNCHANGED <<starts, power, opened, marked>>

\* A BIND is accepted by a fresh gate, for an execution neither this journal
\* nor an earlier generation's has bound.
Bind(p) ==
    /\ proc[p].pc = "open" /\ proc[p].binds
    /\ \E e \in Execs \ proc[p].prior :
         /\ \A k \in 1..Len(proc[p].mirror) : proc[p].mirror[k] # e
         /\ JournalAppend(p, e)

Record(p) ==
    /\ proc[p].pc = "open"
    /\ JournalAppend(p, Other)

\* write_marker of a present marker, in whatever state its frame is, answers
\* true and writes nothing.
KeepMarker(p) ==
    /\ proc[p].pc = "open" /\ proc[p].marker.present
    /\ UNCHANGED vars

\* Mutant: a marker file that an earlier process created needs no sync.
MarkerNewNeedsSync(p) == ~proc[p].marker.synced /\ ~proc[p].marker.file

\* The first marker write of a process syncs the directory (R26).
MarkerNeedsSync(p) == ~proc[p].marker.synced

\* write_marker fails before its frame: the file was opened and its directory
\* could not be synced (a failed open leaves everything as it was).
MarkerUnwritten(p) ==
    LET n == MarkerOf(proc[p].gen) IN
    /\ proc[p].pc = "open" /\ ~proc[p].marker.present /\ MarkerNeedsSync(p)
    /\ faults < MaxFaults /\ faults' = faults + 1
    /\ files' = [files EXCEPT ![n] = Created(@)]
    /\ proc' = [proc EXCEPT ![p].marker.file = TRUE]
    /\ UNCHANGED <<starts, power, Ghosts>>

\* write_marker up to its answer; a failure that left bytes, or a length that
\* cannot be read, makes the marker present (R22).
WriteMarker(p) ==
    LET g == proc[p].gen
        n == MarkerOf(g)
        made == [files EXCEPT ![n] = Created(@)]
        ready == IF MarkerNeedsSync(p) THEN DirSynced(made, MarkerDir) ELSE made
    IN
    /\ proc[p].pc = "open" /\ ~proc[p].marker.present
    /\ \E a \in AppendFrame(ready[n], Marker) :
         /\ Charge(ready[n], a.result)
         /\ files' = [ready EXCEPT ![n] = a.file]
         /\ IF a.result = "Killed" THEN Leaves(p)
              ELSE \E present \in {a.file.frames # <<>>, TRUE} :
                     proc' = [proc EXCEPT ![p].marker = [file |-> TRUE, synced |-> TRUE, present |-> present]]
         /\ marked' = IF a.result = "Durable" THEN marked \cup {g} ELSE marked
    /\ UNCHANGED <<starts, power, reported, granted, opened>>

-----------------------------------------------------------------------------
(* Power loss: what is on the medium is what the next start reads *)

Kept(frame, status) == Attempt(frame.data, status, {status})

\* The trailing attempts that left no byte are gone; one before bytes that
\* did survive is a hole, which a scan reads as TORN.
KeptFrames(frames, s) ==
    LET last == CHOOSE n \in 0..Len(frames) : /\ n = 0 \/ s[n] # "none"
                                              /\ \A k \in n + 1..Len(frames) : s[k] = "none"
    IN  [k \in 1..last |-> Kept(frames[k], IF s[k] = "none" THEN "torn" ELSE s[k])]

Survivors(f) ==
    {[entry |-> "durable", frames |-> KeptFrames(f.frames, s)] :
        s \in {t \in [1..Len(f.frames) -> Status \cup {"none"}] : \A k \in 1..Len(f.frames) : t[k] \in f.frames[k].may}}
    \cup (IF f.entry = "volatile" THEN {Missing} ELSE {})

Settled(f) == f.entry # "volatile" /\ \A k \in 1..Len(f.frames) : f.frames[k].may = {f.frames[k].now}
Unsettled == {n \in FileNames : ~Settled(files[n])}

PowerLoss ==
    /\ power < MaxPower /\ power' = power + 1
    /\ \E kept \in [Unsettled -> UNION {Survivors(files[n]) : n \in Unsettled}] :
         /\ \A n \in Unsettled : kept[n] \in Survivors(files[n])
         /\ files' = [n \in FileNames |-> IF n \in Unsettled THEN kept[n] ELSE files[n]]
    /\ proc' = [p \in Procs |-> Idle]
    /\ UNCHANGED <<starts, faults, Ghosts>>

Opening(p) == \/ SyncIndex(p) \/ LockIndex(p) \/ Check(p) \/ ReuseDocument(p) \/ WriteDocument(p)
              \/ CreateJournal(p) \/ OpenJournal(p) \/ AppendEntry(p) \/ KeepEntry(p)
Using(p) == Bind(p) \/ Record(p) \/ KeepMarker(p) \/ MarkerUnwritten(p) \/ WriteMarker(p)

Next == PowerLoss \/ \E p \in Procs : Start(p) \/ Opening(p) \/ Using(p) \/ Exit(p)

Spec == Init /\ [][Next]_vars
-----------------------------------------------------------------------------
(* Properties *)

\* R25, R28, R30 and R75: at most one process has open stores, whatever the
\* generations, however their openings, exits and power losses interleave,
\* a generation is never opened under two signed documents, and an execution's
\* BIND is answered durable at most once over all of them, so that no
\* execution is granted twice.
OneHolder ==
    /\ \A p, q \in Procs : proc[p].pc = "open" /\ proc[q].pc = "open" => p = q
    /\ \A a, b \in opened : a[1] = b[1] => a = b
    /\ \A e \in Execs : granted[e] <= 1

\* R22, R26 and R29: every record and every marker whose append answered
\* Durable is committed on the medium, in a file with a durable directory
\* entry, so no later failure, kill or power loss unmakes it; and no crash
\* leaves an index entry that may read as committed without its generation's
\* journal and document files.  (The answer for a marker that was present
\* already, perhaps torn or not synced, promises nothing of the medium.)
DurableKept ==
    /\ \A g \in Gens :
         LET f == files[JournalOf(g)] IN
         /\ Cardinality({k \in 1..Len(f.frames) : f.frames[k].may = {"C"}}) >= reported[g]
         /\ reported[g] > 0 => f.entry = "durable"
    /\ \A g \in marked :
         LET f == files[MarkerOf(g)] IN
         f.entry = "durable" /\ \E k \in 1..Len(f.frames) : f.frames[k].may = {"C"}
    /\ \A k \in 1..Len(files[Index].frames) :
         LET frame == files[Index].frames[k] IN
         "C" \in frame.may => /\ files[JournalOf(frame.data)].entry = "durable"
                              /\ files[DocumentOf(frame.data)].entry = "durable"

=============================================================================
