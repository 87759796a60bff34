------------------------------ MODULE Captures ------------------------------
(***************************************************************************)
(* The observer's capture engine (observer/src/capture.rs).  Once per cycle *)
(* the epoch has it take a set: the WORKER's inspection window first, then  *)
(* the content fill, then the other roles' windows, the process scan and    *)
(* the lifecycle capture, and the backends.  A set has a budget, a window   *)
(* has a bound, and the enrolled record has an expiry mark, after which     *)
(* every slot reads Expired.                                                *)
(*                                                                          *)
(* File contents are hashed by the fill alone, into a memo that lives as    *)
(* long as the engine; a window only opens the path, reads the file's facts *)
(* and looks the digest up.  A file too long for the set's budget is left   *)
(* half hashed on its open descriptor and resumed by a later set.           *)
(*                                                                          *)
(* The world moves between any two reads: paths are replaced, removed and   *)
(* written in place.  A file is a sequence of chunks, one per read, and its *)
(* digest is the sequence that was hashed.  What the self-check looks at    *)
(* besides the files (members, credentials, programs, census) is a verdict. *)
(***************************************************************************)
EXTENDS Integers, Sequences

CONSTANTS
  Others,       \* the roles captured after the fill, in their order
  Backends,     \* the backend components, in their order
  Files,        \* the enrolled paths of each role and backend, in their order
  Order,        \* the fill's order of all the enrolled paths
  Row,          \* the enrolled content of each path (its size and sha256)
  Chunks,       \* what a chunk may hold
  MaxInode,     \* bound: files ever installed
  MaxChanges,   \* bound: changes of the world and failing reads
  MaxLate,      \* bound: how late a cycle's set may start
  MaxLeft,      \* bound: the expiry mark, once it is near
  SetBudget,    \* SET_BUDGET
  ScrapeToSet,  \* SCRAPE_TO_SET
  WindowMs,     \* WINDOW_MS
  MarginMs,     \* WINDOW_MARGIN_MS
  None

Elements(s) == {s[i] : i \in DOMAIN s}
Paths == Elements(Order)
Roles == {"WORKER"} \cup Elements(Others)
Slots == Roles \cup {"LIFECYCLE"} \cup Elements(Backends)

\* Every role and backend has its list of enrolled paths and a slot of its own, the fill's order lists each path once,
\* the WORKER's first, and a set that starts late still has budget for the WORKER's window and one read.
ASSUME CapturesAssumption ==
  /\ Order \in Seq(Paths) /\ Others \in Seq(Roles) /\ Backends \in Seq(Slots)
  /\ Roles \cap ({"LIFECYCLE"} \cup Elements(Backends)) = {}
  /\ Files \in [Roles \cup Elements(Backends) -> Seq(Paths)]
  /\ \A x \in DOMAIN Files : Files[x] # <<>>
  /\ \A i, j \in DOMAIN Order : Order[i] = Order[j] => i = j
  /\ \A i, j \in DOMAIN Order :
       Order[i] \notin Elements(Files["WORKER"]) /\ Order[j] \in Elements(Files["WORKER"]) => j < i
  /\ Row \in [Paths -> Seq(Chunks)]
  /\ {MaxInode, MaxChanges, MaxLate, MaxLeft, SetBudget, ScrapeToSet, WindowMs, MarginMs} \subseteq Nat
  /\ MaxLate + WindowMs + 1 < SetBudget
  /\ None \notin Paths

VARIABLES
  dir,      \* the inode each path names, 0 when there is none
  inode,    \* the files installed so far: content and ctime
  changes,  \* changes of the world and failing reads so far
  now,      \* the monotonic clock, from the cycle's scheduled start
  left,     \* the time left to expiresAt - 3 s, None while that is far away
  memo,     \* the content memo: entries and the one partial hash
  job,      \* where the engine is in its set
  view,     \* the latest capture view; while a set runs, the one it is building
  latched   \* the epoch's capture_expired

world == <<dir, inode, changes>>
vars == <<dir, inode, changes, now, left, memo, job, view, latched>>

-----------------------------------------------------------------------------
(* The world.                                                               *)

Inodes == 1..Len(inode)
KeyOf(i) == [inode |-> i, size |-> Len(inode[i].content), ctime |-> inode[i].ctime]

Changing == changes < MaxChanges /\ changes' = changes + 1

\* Another file takes a path's place.
Replace(p, content) ==
  /\ Changing /\ Len(inode) < MaxInode
  /\ inode' = Append(inode, [content |-> content, ctime |-> 0])
  /\ dir' = [dir EXCEPT ![p] = Len(inode) + 1]

Remove(p) ==
  /\ Changing /\ dir[p] # 0
  /\ dir' = [dir EXCEPT ![p] = 0]
  /\ UNCHANGED inode

\* A file is written in place, which moves its ctime.
Rewrite(i, content) ==
  /\ Changing
  /\ inode' = [inode EXCEPT ![i] = [content |-> content, ctime |-> @.ctime + 1]]
  /\ UNCHANGED dir

\* The contents the world may install: any of the row's size, a longer one and a shorter one.
Shortened(content) == SubSeq(content, 1, Len(content) - 1)
Contents(p) == [DOMAIN Row[p] -> Chunks] \cup {Row[p] \o Row[p], Shortened(Row[p])}

WorldStep ==
  /\ \E p \in Paths :
       \/ \E content \in Contents(p) : Replace(p, content)
       \/ Remove(p)
       \/ dir[p] # 0 /\ \E content \in Contents(p) : Rewrite(dir[p], content)
  /\ UNCHANGED <<now, left, memo, job, view, latched>>

\* A read fails, for a reason of the kernel's.
ReadFails == Changing /\ UNCHANGED <<dir, inode>>
ReadWorks == UNCHANGED world

\* A read takes at most one tick.
Passes(t) ==
  /\ now' = now + t
  /\ left' = IF left = None THEN None ELSE IF left < t THEN 0 ELSE left - t

-----------------------------------------------------------------------------
(* The memo.                                                                *)

Done(key, digest) == [kind |-> "Done", key |-> key, digest |-> digest]
Differs(key) == [kind |-> "Differs", key |-> key, digest |-> <<>>]
Partial(p, key, hashed) == [path |-> p, key |-> key, hashed |-> hashed]

DigestsReady(paths) == \A i \in DOMAIN paths : memo.entries[paths[i]] # None

\* Mutant: the file's key is not compared.
FoundStale(m, p, key) ==
  IF m.entries[p] # None /\ m.entries[p].kind = "Done" THEN m.entries[p].digest ELSE None

\* A window's look at the memo: the digest it finds for a file's key, and the memo it leaves.
Found(m, p, key) ==
  IF m.entries[p] # None /\ m.entries[p].kind = "Done" /\ m.entries[p].key = key
  THEN m.entries[p].digest ELSE None

Looked(m, p, key) ==
  [entries |-> IF m.entries[p] # None /\ m.entries[p].key # key THEN [m.entries EXCEPT ![p] = None] ELSE m.entries,
   partial |-> IF m.partial # None /\ m.partial.path = p /\ m.partial.key # key THEN None ELSE m.partial]

-----------------------------------------------------------------------------
(* The set.                                                                 *)

\* The reason of an Unavailable slot is told apart only for a spent budget.
Taken(files, ended) == [kind |-> "Taken", files |-> files, ended |-> ended]
Slot(kind) == [kind |-> kind, files |-> {}, ended |-> None]

Idle == [at |-> "Idle", step |-> 0, expired |-> FALSE, scan |-> FALSE, window |-> None, hash |-> None]

CanStart == IF left = None THEN TRUE ELSE left > WindowMs + MarginMs
\* No capture may start: it would not end before the mark, or the wall clock cannot be read.
Barred == (~CanStart /\ ReadWorks) \/ (CanStart /\ ReadFails)
Expired == left = 0
InBudget == now < SetBudget

\* The engine goes on to the next part of its set.
Goto(at) == job' = [job EXCEPT !.at = at, !.step = 1]
\* A slot is decided and the engine goes on; a slot that found the record expired decides the later ones.
Decide(x, slot, at, step) ==
  /\ view' = [view EXCEPT ![x] = slot]
  /\ job' = [job EXCEPT !.at = at, !.step = step, !.window = None, !.expired = @ \/ slot.kind = "Expired"]

Every(slot) == [x \in Slots |-> slot]

\* capture_cycle: the scheduled cycle's set starts, as late as the epoch is.
StartSet ==
  /\ job.at = "Idle" /\ ~latched
  /\ \E late \in 0..MaxLate, mark \in IF left = None THEN {None} \cup 1..MaxLeft ELSE 1..(left - 1) :
       now' = late /\ left' = mark
  /\ job' = [Idle EXCEPT !.at = "Worker"] /\ view' = Every(Slot("SetBudget"))
  /\ UNCHANGED <<world, memo, latched>>

\* A set that ends at once replaces the view as a whole: the wall clock is unusable, or before validFrom.
SkipSet ==
  /\ job.at = "Idle" /\ ~latched
  /\ \/ view' = Every(Slot("Unavailable"))
     \/ view' = Every(Slot("Pending"))
  /\ UNCHANGED <<world, now, left, memo, job, latched>>

\* check_capture_expiry, at the expiry wake or before a set: the mark is reached, for good.
ExpiryWake ==
  /\ job.at = "Idle" /\ ~latched
  /\ left' = 0 /\ latched' = TRUE /\ view' = Every(Slot("Expired"))
  /\ UNCHANGED <<world, now, memo, job>>

\* The leaf must be frozen for the WORKER; then the members and what each of them is are read.
ReadMembers(x, at, step) ==
  /\ \E t \in {0, 1} : Passes(t)
  /\ \/ ReadFails /\ Decide(x, Slot("Unavailable"), at, step)
     \/ ReadWorks /\ x = "WORKER" /\ Decide(x, Slot("NotFrozen"), at, step)
     \/ /\ ReadWorks
        /\ job' = [job EXCEPT !.at = "Window",
                              !.window = [slot |-> x, started |-> now, files |-> {}, next |-> 1,
                                          then |-> [at |-> at, step |-> step]]]
        /\ UNCHANGED view

\* What decides a window before its first read.
OpenWindow(x, at, step) ==
  \/ /\ ~InBudget
     /\ Decide(x, Slot("SetBudget"), at, step) /\ UNCHANGED <<world, now, left>>
  \/ /\ InBudget /\ x = "WORKER" /\ now > ScrapeToSet
     /\ Decide(x, Slot("Unavailable"), at, step) /\ UNCHANGED <<world, now, left>>
  \/ InBudget /\ (x = "WORKER" => now <= ScrapeToSet) /\ ReadMembers(x, at, step)

\* The WORKER's window comes first, and only once the memo answers for all its files.
WorkerFirst ==
  /\ job.at = "Worker"
  /\ \/ /\ ~DigestsReady(Files["WORKER"])
        /\ Decide("WORKER", Slot("Unavailable"), "Fill", 1) /\ UNCHANGED <<world, now, left>>
     \/ /\ DigestsReady(Files["WORKER"]) /\ Barred
        /\ Decide("WORKER", Slot("Expired"), "Role", 1) /\ UNCHANGED <<now, left>>
     \/ /\ DigestsReady(Files["WORKER"]) /\ CanStart
        /\ OpenWindow("WORKER", "Fill", 1)
  /\ UNCHANGED <<memo, latched>>

\* A window that stops leaves its slot Unavailable.
Stop == Decide(job.window.slot, Slot("Unavailable"), job.window.then.at, job.window.then.step)
InWindow == now' - job.window.started <= WindowMs

\* A file as a capture reports it.
File(p, key) == [path |-> p, key |-> key, digest |-> Found(memo, p, key)]

\* One enrolled file: opened afresh, its facts and verity read, its digest looked up.
Measure ==
  /\ job.at = "Window" /\ job.window.next <= Len(Files[job.window.slot])
  /\ \E t \in {0, 1} : Passes(t)
  /\ LET p == Files[job.window.slot][job.window.next]
         key == KeyOf(dir[p])
     IN  \/ ReadFails /\ Stop /\ UNCHANGED memo
         \/ ReadWorks /\ (dir[p] = 0 \/ ~InWindow) /\ Stop /\ UNCHANGED memo
         \/ /\ ReadWorks /\ dir[p] # 0 /\ InWindow
            /\ memo' = Looked(memo, p, key)
            /\ IF Found(memo, p, key) = None \/ key.size # Len(Row[p]) THEN Stop
               ELSE /\ job' = [job EXCEPT !.window.next = @ + 1, !.window.files = @ \cup {File(p, key)}]
                    /\ UNCHANGED view
  /\ UNCHANGED latched

\* The content check of check_capture, and its verdict: what else it compares may refuse the capture.
AsEnrolled(files) == \A f \in files : f.digest = Row[f.path]
Verdicts(files) == {FALSE, AsEnrolled(files)}

\* The cgroup's limits and programs, the members and the leaf are read again.
LateReads == ReadWorks /\ \E t \in {0, 1} : Passes(t)

\* The window ends, and the self-check decides.
CloseWindow ==
  /\ job.at = "Window" /\ job.window.next > Len(Files[job.window.slot])
  /\ LateReads
  /\ \E accepted \in Verdicts(job.window.files) :
       IF InWindow /\ accepted
       THEN Decide(job.window.slot, Taken(job.window.files, left'), job.window.then.at, job.window.then.step)
       ELSE Stop
  /\ UNCHANGED <<memo, latched>>

-----------------------------------------------------------------------------
(* The content fill.                                                        *)

Skip == job' = [job EXCEPT !.step = @ + 1, !.hash = None]

\* Mutant: every set starts the hash again.
ResumesNever(p) == FALSE

\* The partial hash is resumed only by its own path, and only while its descriptor still shows its key.
Resumes(p) == memo.partial # None /\ memo.partial.path = p /\ KeyOf(memo.partial.key.inode) = memo.partial.key

FillNext ==
  /\ job.at = "Fill" /\ job.hash = None
  /\ LET p == Order[job.step]
         started(key) == IF key.size = Len(Row[p])
                         THEN /\ job' = [job EXCEPT !.hash = Partial(p, key, <<>>)]
                              /\ memo' = [memo EXCEPT !.partial = None]
                         ELSE Skip /\ memo' = [entries |-> [memo.entries EXCEPT ![p] = Differs(key)], partial |-> None]
     IN  \/ job.step > Len(Order) /\ Goto("Role") /\ UNCHANGED <<memo, world>>
         \/ job.step <= Len(Order) /\ memo.entries[p] # None /\ Skip /\ UNCHANGED <<memo, world>>
         \/ job.step <= Len(Order) /\ memo.entries[p] = None /\ ~InBudget /\ Goto("Role") /\ UNCHANGED <<memo, world>>
         \/ /\ job.step <= Len(Order) /\ memo.entries[p] = None /\ InBudget
            /\ \/ /\ ReadWorks /\ Resumes(p)
                  /\ job' = [job EXCEPT !.hash = memo.partial] /\ memo' = [memo EXCEPT !.partial = None]
               \/ (ReadFails \/ (ReadWorks /\ ~Resumes(p))) /\ dir[p] # 0 /\ started(KeyOf(dir[p]))
               \/ /\ ReadFails \/ (ReadWorks /\ ~Resumes(p) /\ dir[p] = 0)
                  /\ Skip /\ memo' = [memo EXCEPT !.partial = None]
  /\ UNCHANGED <<now, left, view, latched>>

\* Mutant: the digest is filed under the key seen at the end of the hash.
HashedRekeyed(h) == Done(KeyOf(h.key.inode), h.hashed)

\* The whole file was read: its digest is filed under the key of the open that started it.
Hashed(h) == Done(h.key, h.hashed)

\* One plain read of the held file.
HashMore ==
  /\ job.at = "Fill" /\ job.hash # None
  /\ LET h == job.hash
         content == inode[h.key.inode].content
         n == Len(h.hashed)
         answer(e) == memo' = [memo EXCEPT !.entries[h.path] = e] /\ Skip
     IN  \/ /\ ~InBudget
            /\ memo' = [memo EXCEPT !.partial = h]
            /\ job' = [job EXCEPT !.at = "Role", !.step = 1, !.hash = None]
            /\ UNCHANGED <<world, now, left>>
         \/ /\ InBudget
            /\ \E t \in {0, 1} : Passes(t)
            /\ \/ ReadFails /\ Skip /\ UNCHANGED memo
               \/ /\ ReadWorks
                  /\ IF n < Len(content) /\ n < h.key.size
                     THEN job' = [job EXCEPT !.hash.hashed = Append(@, content[n + 1])] /\ UNCHANGED memo
                     ELSE answer(IF n >= Len(content) /\ n = h.key.size THEN Hashed(h) ELSE Differs(h.key))
  /\ UNCHANGED <<view, latched>>

-----------------------------------------------------------------------------
(* The rest of the set.                                                     *)

NextRole ==
  /\ job.at = "Role" /\ job.step <= Len(Others)
  /\ LET x == Others[job.step]
     IN  \/ /\ (job.expired /\ ReadWorks) \/ (~job.expired /\ Barred)
            /\ Decide(x, Slot("Expired"), "Role", job.step + 1) /\ UNCHANGED <<now, left>>
         \/ ~job.expired /\ CanStart /\ OpenWindow(x, "Role", job.step + 1)
  /\ UNCHANGED <<memo, latched>>

\* The host-wide scan, whose result the lifecycle and the backend captures use.
Scan ==
  /\ job.at = "Role" /\ job.step > Len(Others)
  /\ IF job.expired \/ ~InBudget THEN UNCHANGED <<world, now, left>> /\ job' = [job EXCEPT !.at = "Lifecycle"]
     ELSE /\ \E t \in {0, 1} : Passes(t)
          /\ ReadWorks
          /\ \E ok \in BOOLEAN : job' = [job EXCEPT !.at = "Lifecycle", !.scan = ok]
  /\ UNCHANGED <<memo, view, latched>>

\* What decides the slot of a capture that has no window before any read is made.
Unread == CASE job.expired -> Slot("Expired") [] ~job.expired /\ ~InBudget -> Slot("SetBudget")
            [] ~job.expired /\ InBudget /\ Expired -> Slot("Expired") [] OTHER -> None

Lifecycle ==
  /\ job.at = "Lifecycle"
  /\ IF Unread # None THEN Decide("LIFECYCLE", Unread, "Backend", 1) /\ UNCHANGED <<world, now, left>>
     ELSE /\ \E t \in {0, 1} : Passes(t)
          /\ ReadWorks
          /\ \E slot \in {Slot("Unavailable")} \cup (IF job.scan THEN {Taken({}, left)} ELSE {}) :
               Decide("LIFECYCLE", slot, "Backend", 1)
  /\ UNCHANGED <<memo, latched>>

\* A backend: its candidate comes from the scan, its executable is measured as a window measures a file.
Backend ==
  /\ job.at = "Backend" /\ job.step <= Len(Backends)
  /\ LET x == Backends[job.step]
         p == Files[x][1]
         key == KeyOf(dir[p])
         decide(slot) == Decide(x, slot, "Backend", job.step + 1)
     IN  IF Unread # None THEN decide(Unread) /\ UNCHANGED <<world, now, left, memo>>
         ELSE /\ \E t \in {0, 1} : Passes(t)
              /\ ReadWorks
              /\ \/ decide(Slot("Unavailable")) /\ UNCHANGED memo
                 \/ /\ job.scan /\ dir[p] # 0
                    /\ memo' = Looked(memo, p, key)
                    /\ decide(IF Found(memo, p, key) # None /\ key.size = Len(Row[p]) /\ AsEnrolled({File(p, key)})
                              THEN Taken({File(p, key)}, left) ELSE Slot("Unavailable"))
  /\ UNCHANGED latched

\* The set ends: an expiry met on the way also decides the roles that had only run out of budget.
Settled(slots, expired) ==
  [x \in Slots |-> IF expired /\ x \in Roles /\ slots[x].kind = "SetBudget" THEN Slot("Expired") ELSE slots[x]]

EndSet ==
  /\ job.at = "Backend" /\ job.step > Len(Backends)
  /\ view' = Settled(view, job.expired)
  /\ job' = Idle /\ now' = 0
  /\ UNCHANGED <<world, left, memo, latched>>

-----------------------------------------------------------------------------
Init ==
  /\ inode = [i \in DOMAIN Order |-> [content |-> Row[Order[i]], ctime |-> 0]]
  /\ \E missing \in SUBSET Paths :
       dir = [p \in Paths |-> IF p \in missing THEN 0 ELSE CHOOSE i \in DOMAIN Order : Order[i] = p]
  /\ changes = 0 /\ now = 0 /\ left = None
  /\ memo = [entries |-> [p \in Paths |-> None], partial |-> None]
  /\ job = Idle /\ view = Every(Slot("Pending")) /\ latched = FALSE

SetStep ==
  WorkerFirst \/ Measure \/ CloseWindow \/ FillNext \/ HashMore \/ NextRole \/ Scan \/ Lifecycle \/ Backend \/ EndSet

Next == WorldStep \/ StartSet \/ SkipSet \/ ExpiryWake \/ SetStep

Spec == Init /\ [][Next]_vars
FairSpec == Spec /\ WF_vars(StartSet) /\ WF_vars(SetStep) /\ WF_vars(left # None /\ ExpiryWake)

-----------------------------------------------------------------------------
\* Whatever the memo holds as a file's digest is that file's content, as long as the file still shows the key the
\* digest was filed under: hashing over several sets, on one descriptor, never mixes two versions.
MemoSound ==
  \A p \in Paths : LET e == memo.entries[p] IN
    e # None => (e.kind = "Done" /\ KeyOf(e.key.inode) = e.key => e.digest = inode[e.key.inode].content)

\* A published capture of enrolled files tells the truth about them: every file it names, unless written to since,
\* has its enrolled content.  No role's capture of a published set ended within the margin before the expiry mark.
TakenIsEnrolled ==
  /\ \A x \in Slots : \A f \in view[x].files : KeyOf(f.key.inode) = f.key => inode[f.key.inode].content = Row[f.path]
  /\ \A x \in Roles : view[x].kind = "Taken" => view[x].ended = None \/ view[x].ended > MarginMs

\* Once the enrolled files are all there to stay, each comes to have its answer in the memo, however many sets the
\* budget spreads the hashing over, unless the record expires first.
FillCompletes ==
  <>[](\A p \in Paths : dir[p] # 0) => <>[](latched \/ \A p \in Paths : memo.entries[p] # None)

\* A file that the budget cut is read on by the next fill, unless its key has changed.
PartialKept ==
  [][(/\ memo.partial # None /\ memo'.partial = None /\ changes' = changes
      /\ KeyOf(memo.partial.key.inode) = memo.partial.key)
       => job'.hash = memo.partial]_vars

=============================================================================
