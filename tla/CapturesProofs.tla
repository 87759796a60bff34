--------------------------- MODULE CapturesProofs ---------------------------
(***************************************************************************)
(* Proofs about the capture engine, for every enrolment, every budget and  *)
(* every number of changes of the world: what the memo files under a key   *)
(* is the content of the file while the file shows that key, and what a    *)
(* published capture says of its files is so.                              *)
(***************************************************************************)
EXTENDS Captures, TLAPS

Places == {"Idle", "Worker", "Window", "Fill", "Role", "Lifecycle", "Backend"}
Kinds == {"Pending", "SetBudget", "Unavailable", "Expired", "NotFrozen", "Taken"}
Inode == [content : Seq(Chunks), ctime : Nat]
Key == [inode : Nat, size : Nat, ctime : Nat]
FileReport == [path : Paths, key : Key, digest : Seq(Chunks)]
Entry == [kind : {"Done", "Differs"}, key : Key, digest : Seq(Chunks)]
PartialHash == [path : Paths, key : Key, hashed : Seq(Chunks)]
Window == [slot : Roles, started : Nat, files : SUBSET FileReport, next : Nat \ {0},
           then : [at : {"Fill", "Role"}, step : Nat \ {0}]]
Memo == [entries : [Paths -> {None} \cup Entry], partial : {None} \cup PartialHash]
SlotValue == [kind : Kinds, files : SUBSET FileReport, ended : {None} \cup Nat]

TypeOK ==
  /\ inode \in Seq(Inode)
  /\ dir \in [Paths -> 0 .. Len(inode)]
  /\ now \in Nat /\ left \in {None} \cup Nat
  /\ memo \in Memo
  /\ job \in [at : Places, step : Nat, expired : BOOLEAN, scan : BOOLEAN, window : {None} \cup Window,
              hash : {None} \cup PartialHash]
  /\ job.at \in {"Fill", "Role", "Lifecycle", "Backend"} => job.step # 0
  /\ job.at = "Window" => job.window \in Window
  /\ view \in [Slots -> SlotValue]

\* A key some open of the file saw: the file's ctime has not gone back since.
Seen(key) == key.inode \in Inodes /\ key.ctime <= inode[key.inode].ctime

\* The digest is the file's content, while the file still shows the key.
Tells(key, digest) == Seen(key) /\ (KeyOf(key.inode) = key => digest = inode[key.inode].content)

\* What was hashed so far is the content's beginning, while the file still shows the key.
Begins(h) ==
  /\ Seen(h.key)
  /\ KeyOf(h.key.inode) = h.key =>
       /\ Len(h.hashed) <= Len(inode[h.key.inode].content)
       /\ \A k \in 1 .. Len(h.hashed) : h.hashed[k] = inode[h.key.inode].content[k]

MemoTells ==
  /\ \A p \in Paths : memo.entries[p] # None /\ memo.entries[p].kind = "Done" =>
       Tells(memo.entries[p].key, memo.entries[p].digest)
  /\ memo.partial # None => Begins(memo.partial)

JobTells ==
  /\ job.hash # None => Begins(job.hash)
  /\ job.at = "Window" => \A f \in job.window.files : Tells(f.key, f.digest)

\* A window was opened with its whole bound, and the margin, to go before the expiry mark.
WindowInTime ==
  job.at = "Window" => left = None \/ left + (now - job.window.started) > WindowMs + MarginMs

ViewTells ==
  /\ \A x \in Slots : \A f \in view[x].files : Tells(f.key, Row[f.path])
  /\ \A x \in Roles : view[x].kind = "Taken" => view[x].ended = None \/ view[x].ended > MarginMs

CapturesInv == TypeOK /\ MemoTells /\ JobTells /\ WindowInTime /\ ViewTells

-----------------------------------------------------------------------------
(* The world moves on: files are added, and a write moves the ctime.         *)

Moves ==
  /\ inode' \in Seq(Inode)
  /\ Len(inode) <= Len(inode')
  /\ \A i \in Inodes : inode'[i] = inode[i] \/ inode'[i].ctime > inode[i].ctime

\* A key that was seen names the same version of the file, or no version of it any more.
LEMMA SeenKept ==
  ASSUME TypeOK, Moves, NEW key \in Key, Seen(key)
  PROVE  /\ Seen(key)'
         /\ KeyOf(key.inode)' = key => KeyOf(key.inode) = key /\ inode'[key.inode] = inode[key.inode]
<1>1. PICK i : i = key.inode
  OBVIOUS
<1>2. /\ i \in 1 .. Len(inode) /\ key.ctime <= inode[i].ctime /\ Len(inode) \in Nat /\ Len(inode') \in Nat
      /\ inode[i].ctime \in Nat /\ key.ctime \in Nat
  <2>1. i \in 1 .. Len(inode) /\ key.ctime <= inode[i].ctime
    BY <1>1 DEF Seen, Inodes
  <2>2. Len(inode) \in Nat /\ Len(inode') \in Nat
    BY DEF TypeOK, Moves
  <2>3. inode[i] \in Inode
    BY <2>1 DEF TypeOK
  <2>4. QED
    BY <2>1, <2>2, <2>3 DEF Key, Inode
<1>3. i \in 1 .. Len(inode')
  BY <1>2 DEF Moves
<1>4. inode'[i].ctime \in Nat
  <2>1. inode'[i] \in Inode
    BY <1>3 DEF Moves
  <2>2. QED
    BY <2>1 DEF Inode
<1>5. CASE inode'[i] = inode[i]
  BY <1>1, <1>2, <1>3, <1>5 DEF Seen, Inodes, KeyOf
<1>6. CASE inode'[i].ctime > inode[i].ctime
  <2>1. KeyOf(i)'.ctime = inode'[i].ctime
    BY DEF KeyOf
  <2>2. KeyOf(i)' # key
    BY <1>2, <1>4, <1>6, <2>1
  <2>3. QED
    BY <1>1, <1>2, <1>3, <1>4, <1>6, <2>2 DEF Seen, Inodes
<1>7. QED
  BY <1>2, <1>5, <1>6 DEF Moves, Inodes

\* A digest that told the truth tells it after the world has moved.
LEMMA TellsKept ==
  ASSUME TypeOK, Moves, NEW key \in Key, NEW digest, Tells(key, digest)
  PROVE  Tells(key, digest)'
BY SeenKept DEF Tells

\* A hash under way is of the content that shows its key, after the world has moved too.
LEMMA BeginsKept ==
  ASSUME TypeOK, Moves, NEW h \in PartialHash, Begins(h)
  PROVE  Begins(h)'
<1>1. h.key \in Key
  BY DEF PartialHash
<1>2. QED
  BY <1>1, SeenKept DEF Begins

\* What a step of the world leaves of the invariant.
LEMMA WorldKeeps ==
  ASSUME CapturesInv, Moves, dir' \in [Paths -> 0 .. Len(inode')], UNCHANGED <<now, left, memo, job, view>>
  PROVE  CapturesInv'
<1>1. TypeOK'
  BY DEF CapturesInv, TypeOK, Moves
<1>2. MemoTells'
  <2>1. ASSUME NEW p \in Paths, memo.entries[p] # None, memo.entries[p].kind = "Done"
        PROVE  Tells(memo.entries[p].key, memo.entries[p].digest)'
    <3>1. memo.entries[p].key \in Key
      BY <2>1 DEF CapturesInv, TypeOK, Memo, Entry
    <3>2. Tells(memo.entries[p].key, memo.entries[p].digest)
      BY <2>1 DEF CapturesInv, MemoTells
    <3>3. PICK key, digest : key = memo.entries[p].key /\ digest = memo.entries[p].digest
      OBVIOUS
    <3>4. Tells(key, digest)'
      BY <3>1, <3>2, <3>3, TellsKept DEF CapturesInv
    <3>5. QED
      BY <3>3, <3>4
  <2>2. ASSUME memo.partial # None PROVE Begins(memo.partial)'
    <3>1. PICK h : h = memo.partial
      OBVIOUS
    <3>2. h \in PartialHash /\ Begins(h)
      BY <2>2, <3>1 DEF CapturesInv, TypeOK, Memo, MemoTells
    <3>3. Begins(h)'
      BY <3>2, BeginsKept DEF CapturesInv
    <3>4. QED
      BY <3>1, <3>3
  <2>3. QED
    BY <2>1, <2>2 DEF MemoTells
<1>3. JobTells'
  <2>1. ASSUME job.hash # None PROVE Begins(job.hash)'
    <3>1. PICK h : h = job.hash
      OBVIOUS
    <3>2. h \in PartialHash /\ Begins(h)
      BY <2>1, <3>1 DEF CapturesInv, TypeOK, JobTells
    <3>3. Begins(h)'
      BY <3>2, BeginsKept DEF CapturesInv
    <3>4. QED
      BY <3>1, <3>3
  <2>2. ASSUME job.at = "Window", NEW f \in job.window.files PROVE Tells(f.key, f.digest)'
    <3>1. f.key \in Key
      BY <2>2 DEF CapturesInv, TypeOK, Window, FileReport
    <3>2. Tells(f.key, f.digest)
      BY <2>2 DEF CapturesInv, JobTells
    <3>3. QED
      BY <3>1, <3>2, TellsKept DEF CapturesInv
  <2>3. QED
    BY <2>1, <2>2 DEF JobTells
<1>4. WindowInTime'
  BY DEF CapturesInv, WindowInTime
<1>5. ViewTells'
  <2>1. ASSUME NEW x \in Slots, NEW f \in view[x].files PROVE Tells(f.key, Row[f.path])'
    <3>1. f.key \in Key
      BY <2>1 DEF CapturesInv, TypeOK, SlotValue, FileReport
    <3>2. Tells(f.key, Row[f.path])
      BY <2>1 DEF CapturesInv, ViewTells
    <3>3. PICK digest : digest = Row[f.path]
      OBVIOUS
    <3>4. Tells(f.key, digest)'
      BY <3>1, <3>2, <3>3, TellsKept DEF CapturesInv
    <3>5. QED
      BY <3>3, <3>4
  <2>2. QED
    BY <2>1 DEF CapturesInv, ViewTells
<1>6. QED
  BY <1>1, <1>2, <1>3, <1>4, <1>5 DEF CapturesInv


\* The contents the world installs are sequences of chunks.
LEMMA ContentsType ==
  ASSUME NEW p \in Paths, NEW content \in Contents(p)
  PROVE  content \in Seq(Chunks)
<1>1. Row[p] \in Seq(Chunks)
  BY CapturesAssumption
<1>2. [DOMAIN Row[p] -> Chunks] \subseteq Seq(Chunks)
  BY <1>1
<1>3. Row[p] \o Row[p] \in Seq(Chunks)
  BY <1>1
<1>4. Shortened(Row[p]) \in Seq(Chunks)
  <2>1. PICK n : n = Len(Row[p]) - 1
    OBVIOUS
  <2>2. n \in Int /\ n <= Len(Row[p])
    BY <1>1, <2>1
  <2>3. SubSeq(Row[p], 1, n) \in Seq(Chunks)
    BY <1>1, <2>2
  <2>4. QED
    BY <2>1, <2>3 DEF Shortened
<1>5. QED
  BY <1>2, <1>3, <1>4 DEF Contents

\* A file is replaced, removed or rewritten while the engine waits.
LEMMA WorldStepKeeps == CapturesInv /\ WorldStep => CapturesInv'
<1> SUFFICES ASSUME CapturesInv, WorldStep PROVE CapturesInv'
  OBVIOUS
<1>1. PICK p \in Paths :
        \/ \E content \in Contents(p) : Replace(p, content)
        \/ Remove(p)
        \/ dir[p] # 0 /\ \E content \in Contents(p) : Rewrite(dir[p], content)
  BY DEF WorldStep
<1>2. UNCHANGED <<now, left, memo, job, view>>
  BY DEF WorldStep
<1>3. inode \in Seq(Inode) /\ Len(inode) \in Nat /\ dir \in [Paths -> 0 .. Len(inode)]
  BY DEF CapturesInv, TypeOK, Memo
<1>4. ASSUME NEW content \in Contents(p), Replace(p, content) PROVE CapturesInv'
  <2>1. PICK e : e = [content |-> content, ctime |-> 0]
    OBVIOUS
  <2>2. e \in Inode
    BY <2>1, ContentsType DEF Inode
  <2>3. inode' = Append(inode, e) /\ dir' = [dir EXCEPT ![p] = Len(inode) + 1]
    BY <1>4, <2>1 DEF Replace
  <2>4. inode' \in Seq(Inode) /\ Len(inode') = Len(inode) + 1 /\ \A i \in 1 .. Len(inode) : inode'[i] = inode[i]
    BY <1>3, <2>2, <2>3
  <2>5. Moves
    BY <1>3, <2>4 DEF Moves, Inodes
  <2>6. dir' \in [Paths -> 0 .. Len(inode')]
    BY <1>3, <2>3, <2>4
  <2>7. QED
    BY <1>2, <2>5, <2>6, WorldKeeps
<1>5. CASE Remove(p)
  <2>1. inode' = inode /\ dir' = [dir EXCEPT ![p] = 0]
    BY <1>5 DEF Remove
  <2>2. Moves
    BY <1>3, <2>1 DEF Moves
  <2>3. dir' \in [Paths -> 0 .. Len(inode')]
    BY <1>3, <2>1
  <2>4. QED
    BY <1>2, <2>2, <2>3, WorldKeeps
<1>6. ASSUME NEW content \in Contents(p), dir[p] # 0, Rewrite(dir[p], content) PROVE CapturesInv'
  <2>0. PICK n : n = dir[p]
    OBVIOUS
  <2>1. n \in 1 .. Len(inode)
    BY <1>3, <1>6, <2>0
  <2>2. PICK e : e = [content |-> content, ctime |-> inode[n].ctime + 1]
    OBVIOUS
  <2>3. inode' = [inode EXCEPT ![n] = e] /\ dir' = dir
    BY <1>6, <2>0, <2>2 DEF Rewrite
  <2>4. inode[n] \in Inode
    BY <1>3, <2>1
  <2>5. e \in Inode /\ e.ctime > inode[n].ctime
    BY <2>2, <2>4, ContentsType DEF Inode
  <2>6. inode' \in Seq(Inode) /\ Len(inode') = Len(inode)
    BY <1>3, <2>1, <2>3, <2>5
  <2>7. \A i \in 1 .. Len(inode) : inode'[i] = inode[i] \/ inode'[i].ctime > inode[i].ctime
    BY <1>3, <2>1, <2>3, <2>5
  <2>8. Moves
    BY <1>3, <2>6, <2>7 DEF Moves, Inodes
  <2>9. dir' \in [Paths -> 0 .. Len(inode')]
    BY <1>3, <2>3, <2>6
  <2>10. QED
    BY <1>2, <2>8, <2>9, WorldKeeps
<1>7. QED
  BY <1>1, <1>4, <1>5, <1>6

-----------------------------------------------------------------------------
(* The engine's own steps leave the world as it is.                          *)

Still == inode' = inode /\ dir' = dir

\* While no file changes, what is known of the files stays known.
LEMMA StillTells ==
  ASSUME Still
  PROVE  /\ \A key, digest : Tells(key, digest)' <=> Tells(key, digest)
         /\ \A h : Begins(h)' <=> Begins(h)
BY DEF Still, Tells, Begins, Seen, KeyOf, Inodes

\* The steps of the engine itself change no file.
LEMMA WorldStill ==
  /\ ReadWorks => Still
  /\ ReadFails => Still
  /\ UNCHANGED world => Still
BY DEF ReadWorks, ReadFails, world, Still

\* Time that passes is counted by the clock and taken from what is left to the expiry.
LEMMA PassesTypes ==
  ASSUME TypeOK, NEW t \in {0, 1}, Passes(t)
  PROVE  now' \in Nat /\ now' = now + t /\ left' \in {None} \cup Nat
BY DEF TypeOK, Passes

\* Time that passes in a window leaves it in time.
LEMMA PassesInTime ==
  ASSUME TypeOK, NEW t \in {0, 1}, Passes(t), NEW started \in Nat,
         left = None \/ left + (now - started) > WindowMs + MarginMs
  PROVE  left' = None \/ left' + (now' - started) > WindowMs + MarginMs
<1>1. WindowMs \in Nat /\ MarginMs \in Nat /\ now \in Nat /\ left \in {None} \cup Nat
  BY CapturesAssumption DEF TypeOK
<1>2. now' = now + t
  BY DEF Passes
<1>3. CASE left = None
  BY <1>3 DEF Passes
<1>4. CASE left # None
  <2>1. left \in Nat /\ left + (now - started) > WindowMs + MarginMs
    BY <1>1, <1>4
  <2>2. CASE left < t
    <3>1. left' = 0 /\ left = 0 /\ t = 1
      BY <1>4, <2>1, <2>2 DEF Passes
    <3>2. QED
      BY <1>1, <1>2, <2>1, <3>1
  <2>3. CASE ~(left < t)
    <3>1. left' = left - t
      BY <1>4, <2>3 DEF Passes
    <3>2. QED
      BY <1>1, <1>2, <2>1, <3>1
  <2>4. QED
    BY <2>2, <2>3
<1>5. QED
  BY <1>3, <1>4

\* The memo after a window's look at it, and what it found.
LEMMA LookedKeeps ==
  ASSUME CapturesInv, NEW p \in Paths, NEW key, Still, memo' = Looked(memo, p, key)
  PROVE  /\ memo' \in Memo
         /\ MemoTells'
<1>1. memo \in Memo /\ MemoTells
  BY DEF CapturesInv, TypeOK, Memo
<1>2. /\ memo'.entries \in [Paths -> {None} \cup Entry]
      /\ \A q \in Paths : memo'.entries[q] = None \/ memo'.entries[q] = memo.entries[q]
  BY <1>1 DEF Looked, Memo
<1>3. memo'.partial = None \/ memo'.partial = memo.partial
  BY DEF Looked
<1>4. memo' = [entries |-> memo'.entries, partial |-> memo'.partial]
  BY DEF Looked
<1>5. memo' \in Memo
  BY <1>1, <1>2, <1>3, <1>4 DEF Memo
<1>6. MemoTells'
  BY <1>1, <1>2, <1>3, StillTells DEF MemoTells
<1>7. QED
  BY <1>5, <1>6

\* A digest found in the memo tells the truth about the file that shows the key.
LEMMA FoundTells ==
  ASSUME CapturesInv, NEW p \in Paths, NEW key, Found(memo, p, key) # None
  PROVE  Found(memo, p, key) \in Seq(Chunks) /\ Tells(key, Found(memo, p, key))
BY DEF CapturesInv, TypeOK, Memo, MemoTells, Found, Entry

\* The key of a file that exists is one that was seen.
LEMMA KeyOfType ==
  ASSUME TypeOK, NEW i \in Inodes
  PROVE  KeyOf(i) \in Key /\ Seen(KeyOf(i))
<1>1. Len(inode) \in Nat /\ i \in 1 .. Len(inode) /\ inode[i] \in Inode
  BY DEF TypeOK, Inodes
<1>2. inode[i].content \in Seq(Chunks) /\ inode[i].ctime \in Nat
  BY <1>1 DEF Inode
<1>3. Len(inode[i].content) \in Nat
  BY <1>2
<1>4. QED
  BY <1>1, <1>2, <1>3 DEF KeyOf, Key, Seen, Inodes


-----------------------------------------------------------------------------
(* A slot is decided.                                                        *)

\* A slot is decided: the view says nothing of the files that is not so.
LEMMA DecideKeeps ==
  ASSUME CapturesInv, Still, NEW x \in Slots, NEW slot \in SlotValue, NEW at \in {"Fill", "Role", "Backend"},
         NEW step \in Nat \ {0}, Decide(x, slot, at, step),
         now' \in Nat, left' \in {None} \cup Nat, memo' \in Memo, MemoTells',
         \A f \in slot.files : Tells(f.key, Row[f.path]),
         x \in Roles /\ slot.kind = "Taken" => slot.ended = None \/ slot.ended > MarginMs
  PROVE  CapturesInv'
<1>1. PICK expired \in BOOLEAN :
        job' = [job EXCEPT !.at = at, !.step = step, !.window = None, !.expired = expired]
  <2>1. (job.expired \/ slot.kind = "Expired") \in BOOLEAN
    OBVIOUS
  <2>2. QED
    BY <2>1 DEF Decide
<1>2. view' = [view EXCEPT ![x] = slot]
  BY DEF Decide
<1>3. TypeOK'
  <2>1. job' \in [at : Places, step : Nat, expired : BOOLEAN, scan : BOOLEAN, window : {None} \cup Window,
                  hash : {None} \cup PartialHash]
    <3>1. at \in Places /\ step \in Nat
      BY DEF Places
    <3>2. QED
      BY <1>1, <3>1 DEF CapturesInv, TypeOK
  <2>2. job'.at = at /\ job'.step = step
    BY <1>1 DEF CapturesInv, TypeOK
  <2>3. view' \in [Slots -> SlotValue]
    BY <1>2 DEF CapturesInv, TypeOK
  <2>4. inode' \in Seq(Inode) /\ dir' \in [Paths -> 0 .. Len(inode')]
    BY DEF CapturesInv, TypeOK, Still
  <2>5. QED
    BY <2>1, <2>2, <2>3, <2>4 DEF TypeOK
<1>4. job'.at # "Window" /\ job'.hash = job.hash
  BY <1>1 DEF CapturesInv, TypeOK
<1>5. JobTells' /\ WindowInTime'
  BY <1>4, StillTells DEF CapturesInv, JobTells, WindowInTime
<1>6. ViewTells'
  <2>1. \A y \in Slots : view'[y] = IF y = x THEN slot ELSE view[y]
    BY <1>2 DEF CapturesInv, TypeOK
  <2>2. Roles \subseteq Slots
    BY DEF Slots
  <2>3. \A y \in Slots : \A f \in view'[y].files : Tells(f.key, Row[f.path])
    BY <2>1 DEF CapturesInv, ViewTells
  <2>4. \A y \in Roles : view'[y].kind = "Taken" => view'[y].ended = None \/ view'[y].ended > MarginMs
    BY <2>1, <2>2 DEF CapturesInv, ViewTells
  <2>5. QED
    BY <2>3, <2>4, StillTells DEF ViewTells
<1>7. QED
  BY <1>3, <1>5, <1>6 DEF CapturesInv

\* A slot without files.
LEMMA SlotType ==
  ASSUME NEW kind \in Kinds
  PROVE  Slot(kind) \in SlotValue /\ Slot(kind).files = {} /\ Slot(kind).kind = kind
BY DEF Slot, SlotValue

\* A slot decided without files says nothing of them.
LEMMA EmptySlotKeeps ==
  ASSUME CapturesInv, Still, NEW x \in Slots, NEW kind \in Kinds, kind # "Taken",
         NEW at \in {"Fill", "Role", "Backend"}, NEW step \in Nat \ {0}, Decide(x, Slot(kind), at, step),
         now' \in Nat, left' \in {None} \cup Nat, memo' \in Memo, MemoTells'
  PROVE  CapturesInv'
<1>1. Slot(kind) \in SlotValue /\ Slot(kind).files = {} /\ Slot(kind).kind = kind
  BY SlotType
<1>2. QED
  BY <1>1, DecideKeeps

\* The memo of a step that does not touch it.
LEMMA SameMemo ==
  ASSUME CapturesInv, Still, memo' = memo
  PROVE  memo' \in Memo /\ MemoTells'
BY StillTells DEF CapturesInv, TypeOK, MemoTells


-----------------------------------------------------------------------------
(* The windows.                                                              *)

\* The members are read, and the window opens with time enough.
LEMMA ReadMembersKeeps ==
  ASSUME CapturesInv, CanStart, NEW x \in Roles, NEW at \in {"Fill", "Role"}, NEW step \in Nat \ {0},
         ReadMembers(x, at, step), memo' = memo
  PROVE  CapturesInv'
<1>1. PICK t \in {0, 1} : Passes(t)
  BY DEF ReadMembers
<1>2. now' \in Nat /\ now' = now + t /\ left' \in {None} \cup Nat /\ now \in Nat
  BY <1>1, PassesTypes DEF CapturesInv, TypeOK
<1>3. x \in Slots /\ Still
  BY WorldStill DEF ReadMembers, Slots
<1>4. memo' \in Memo /\ MemoTells'
  BY <1>3, SameMemo
<1>5. CASE Decide(x, Slot("Unavailable"), at, step)
  BY <1>2, <1>3, <1>4, <1>5, EmptySlotKeeps DEF Kinds
<1>6. CASE Decide(x, Slot("NotFrozen"), at, step)
  BY <1>2, <1>3, <1>4, <1>6, EmptySlotKeeps DEF Kinds
<1>7. ASSUME NEW w, w = [slot |-> x, started |-> now, files |-> {}, next |-> 1, then |-> [at |-> at, step |-> step]],
             job' = [job EXCEPT !.at = "Window", !.window = w], view' = view
      PROVE  CapturesInv'
  <2>1. w \in Window /\ w.started = now /\ w.files = {}
    BY <1>2, <1>7 DEF Window
  <2>2. job' \in [at : Places, step : Nat, expired : BOOLEAN, scan : BOOLEAN, window : {None} \cup Window,
                  hash : {None} \cup PartialHash]
    BY <1>7, <2>1 DEF CapturesInv, TypeOK, Places
  <2>3. job'.at = "Window" /\ job'.window = w /\ job'.hash = job.hash
    BY <1>7 DEF CapturesInv, TypeOK
  <2>4. TypeOK'
    BY <1>2, <1>3, <1>4, <1>7, <2>1, <2>2, <2>3 DEF CapturesInv, TypeOK, Still
  <2>5. JobTells'
    BY <1>3, <2>1, <2>3, StillTells DEF CapturesInv, JobTells
  <2>6. WindowInTime'
    <3>1. left = None \/ left + (now - now) > WindowMs + MarginMs
      <4>1. left = None \/ left > WindowMs + MarginMs
        BY DEF CanStart
      <4>2. left = None \/ left \in Nat
        BY DEF CapturesInv, TypeOK
      <4>3. QED
        BY <1>2, <4>1, <4>2
    <3>2. left' = None \/ left' + (now' - now) > WindowMs + MarginMs
      BY <1>1, <1>2, <3>1, PassesInTime DEF CapturesInv
    <3>3. QED
      BY <2>1, <2>3, <3>2 DEF WindowInTime
  <2>7. ViewTells'
    BY <1>3, <1>7, StillTells DEF CapturesInv, ViewTells
  <2>8. QED
    BY <1>4, <2>4, <2>5, <2>6, <2>7 DEF CapturesInv
<1>8. QED
  BY <1>5, <1>6, <1>7 DEF ReadMembers

\* A role is opened: refused, or its window starts in time.
LEMMA OpenWindowKeeps ==
  ASSUME CapturesInv, CanStart, NEW x \in Roles, NEW at \in {"Fill", "Role"}, NEW step \in Nat \ {0},
         OpenWindow(x, at, step), memo' = memo
  PROVE  CapturesInv'
<1>1. x \in Slots /\ now \in Nat /\ left \in {None} \cup Nat
  BY DEF Slots, CapturesInv, TypeOK
<1>2. ASSUME NEW kind \in {"SetBudget", "Unavailable"}, Decide(x, Slot(kind), at, step), UNCHANGED <<world, now, left>>
      PROVE  CapturesInv'
  <2>1. Still /\ now' \in Nat /\ left' \in {None} \cup Nat
    BY <1>1, <1>2, WorldStill
  <2>2. memo' \in Memo /\ MemoTells'
    BY <2>1, SameMemo
  <2>3. kind \in Kinds /\ kind # "Taken"
    BY DEF Kinds
  <2>4. QED
    BY <1>1, <1>2, <2>1, <2>2, <2>3, EmptySlotKeeps
<1>3. CASE ReadMembers(x, at, step)
  BY <1>3, ReadMembersKeeps
<1>4. QED
  BY <1>2, <1>3 DEF OpenWindow

\* The set opens the worker's role first.
LEMMA WorkerFirstKeeps == CapturesInv /\ WorkerFirst => CapturesInv'
<1> SUFFICES ASSUME CapturesInv, WorkerFirst PROVE CapturesInv'
  OBVIOUS
<1>1. "WORKER" \in Roles /\ "WORKER" \in Slots /\ now \in Nat /\ left \in {None} \cup Nat
  BY DEF Roles, Slots, CapturesInv, TypeOK
<1>2. ASSUME NEW kind \in {"Expired", "Unavailable"}, NEW at \in {"Fill", "Role"},
             Decide("WORKER", Slot(kind), at, 1), ReadWorks \/ ReadFails, UNCHANGED <<now, left>>
      PROVE  CapturesInv'
  <2>1. Still /\ now' \in Nat /\ left' \in {None} \cup Nat
    BY <1>1, <1>2, WorldStill
  <2>2. memo' \in Memo /\ MemoTells'
    BY <2>1, SameMemo DEF WorkerFirst
  <2>3. kind \in Kinds /\ kind # "Taken"
    BY DEF Kinds
  <2>4. QED
    BY <1>1, <1>2, <2>1, <2>2, <2>3, EmptySlotKeeps
<1>3. CASE CanStart /\ OpenWindow("WORKER", "Fill", 1)
  BY <1>1, <1>3, OpenWindowKeeps DEF WorkerFirst
<1>4. QED
  BY <1>2, <1>3 DEF WorkerFirst, Barred, ReadWorks

\* The next of the other roles is opened, or found expired.
LEMMA NextRoleKeeps == CapturesInv /\ NextRole => CapturesInv'
<1> SUFFICES ASSUME CapturesInv, NextRole PROVE CapturesInv'
  OBVIOUS
<1>0. PICK x : x = Others[job.step]
  OBVIOUS
<1>1. job.step \in Nat \ {0} /\ job.step + 1 \in Nat \ {0} /\ now \in Nat /\ left \in {None} \cup Nat
  BY DEF CapturesInv, TypeOK, NextRole
<1>2. x \in Roles /\ x \in Slots
  <2>1. job.step \in 1 .. Len(Others) /\ Others \in Seq(Roles)
    BY <1>1, CapturesAssumption DEF NextRole
  <2>2. QED
    BY <1>0, <2>1 DEF Slots
<1>3. CASE /\ Decide(x, Slot("Expired"), "Role", job.step + 1)
           /\ ReadWorks \/ ReadFails
           /\ UNCHANGED <<now, left>>
  <2>1. Still /\ now' \in Nat /\ left' \in {None} \cup Nat
    BY <1>1, <1>3, WorldStill
  <2>2. memo' \in Memo /\ MemoTells'
    BY <2>1, SameMemo DEF NextRole
  <2>3. "Expired" \in Kinds
    BY DEF Kinds
  <2>4. QED
    BY <1>1, <1>2, <1>3, <2>1, <2>2, <2>3, EmptySlotKeeps
<1>4. CASE CanStart /\ OpenWindow(x, "Role", job.step + 1)
  BY <1>1, <1>2, <1>4, OpenWindowKeeps DEF NextRole
<1>5. QED
  BY <1>0, <1>3, <1>4 DEF NextRole, Barred


\* A window that stops.
LEMMA StopKeeps ==
  ASSUME CapturesInv, job.at = "Window", Stop, Still, now' \in Nat, left' \in {None} \cup Nat,
         memo' \in Memo, MemoTells'
  PROVE  CapturesInv'
<1>1. PICK w : w = job.window
  OBVIOUS
<1>2. w \in Window
  BY <1>1 DEF CapturesInv, TypeOK
<1>3. w.slot \in Slots /\ w.then.at \in {"Fill", "Role"} /\ w.then.step \in Nat \ {0}
  BY <1>2 DEF Window, Slots
<1>4. Decide(w.slot, Slot("Unavailable"), w.then.at, w.then.step)
  BY <1>1 DEF Stop
<1>5. "Unavailable" \in Kinds
  BY DEF Kinds
<1>6. QED
  BY <1>3, <1>4, <1>5, EmptySlotKeeps

\* One file of the window is opened and its digest looked up.
LEMMA MeasureKeeps == CapturesInv /\ Measure => CapturesInv'
<1> SUFFICES ASSUME CapturesInv, Measure PROVE CapturesInv'
  OBVIOUS
<1>0. PICK w, p, key : /\ w = job.window /\ p = Files[w.slot][w.next] /\ key = KeyOf(dir[p])
  OBVIOUS
<1>1. job.at = "Window" /\ w \in Window /\ w.next <= Len(Files[w.slot])
  BY <1>0 DEF CapturesInv, TypeOK, Measure
<1>2. PICK t \in {0, 1} : Passes(t)
  BY DEF Measure
<1>3. now' \in Nat /\ now' = now + t /\ left' \in {None} \cup Nat /\ now \in Nat
  BY <1>2, PassesTypes DEF CapturesInv, TypeOK
<1>4. p \in Paths
  <2>1. w.slot \in Roles /\ w.next \in Nat \ {0}
    BY <1>1 DEF Window
  <2>2. Files[w.slot] \in Seq(Paths)
    BY <2>1, CapturesAssumption
  <2>3. w.next \in 1 .. Len(Files[w.slot])
    BY <1>1, <2>1, <2>2
  <2>4. QED
    BY <1>0, <2>2, <2>3
<1>5. Still
  BY WorldStill DEF Measure
<1>6. CASE Stop /\ memo' = memo
  BY <1>1, <1>3, <1>5, <1>6, SameMemo, StopKeeps
<1>7. ASSUME dir[p] # 0, memo' = Looked(memo, p, key), Stop PROVE CapturesInv'
  <2>1. memo' \in Memo /\ MemoTells'
    BY <1>4, <1>5, <1>7, LookedKeeps
  <2>2. QED
    BY <1>1, <1>3, <1>5, <1>7, <2>1, StopKeeps
<1>8. ASSUME dir[p] # 0, memo' = Looked(memo, p, key), Found(memo, p, key) # None, view' = view,
             job' = [job EXCEPT !.window.next = @ + 1, !.window.files = @ \cup {File(p, key)}]
      PROVE  CapturesInv'
  <2>1. memo' \in Memo /\ MemoTells'
    BY <1>4, <1>5, <1>8, LookedKeeps
  <2>2. key \in Key
    <3>1. dir[p] \in Inodes
      BY <1>4, <1>8 DEF CapturesInv, TypeOK, Inodes
    <3>2. QED
      BY <1>0, <3>1, KeyOfType DEF CapturesInv
  <2>3. PICK f : f = File(p, key)
    OBVIOUS
  <2>4. f \in FileReport /\ Tells(f.key, f.digest)
    <3>1. Found(memo, p, key) \in Seq(Chunks) /\ Tells(key, Found(memo, p, key))
      BY <1>4, <1>8, FoundTells
    <3>2. QED
      BY <1>4, <2>2, <2>3, <3>1 DEF File, FileReport
  <2>5. PICK v : v = [w EXCEPT !.next = w.next + 1, !.files = w.files \cup {f}]
    OBVIOUS
  <2>6. v \in Window /\ v.started = w.started /\ v.files = w.files \cup {f}
    <3>1. w.next + 1 \in Nat \ {0} /\ w.files \cup {f} \in SUBSET FileReport
      BY <1>1, <2>4 DEF Window
    <3>2. QED
      BY <1>1, <2>5, <3>1 DEF Window
  <2>7. job' = [job EXCEPT !.window = v]
    BY <1>0, <1>1, <1>8, <2>3, <2>5 DEF CapturesInv, TypeOK, Window
  <2>8. job' \in [at : Places, step : Nat, expired : BOOLEAN, scan : BOOLEAN, window : {None} \cup Window,
                  hash : {None} \cup PartialHash]
    BY <2>6, <2>7 DEF CapturesInv, TypeOK
  <2>9. job'.at = "Window" /\ job'.window = v /\ job'.hash = job.hash
    BY <1>1, <2>7 DEF CapturesInv, TypeOK
  <2>10. TypeOK'
    BY <1>3, <1>5, <1>8, <2>1, <2>6, <2>8, <2>9 DEF CapturesInv, TypeOK, Still
  <2>11. JobTells'
    <3>1. \A g \in w.files : Tells(g.key, g.digest)
      BY <1>0, <1>1 DEF CapturesInv, JobTells
    <3>2. \A g \in v.files : Tells(g.key, g.digest)
      BY <2>4, <2>6, <3>1
    <3>3. QED
      BY <1>5, <2>9, <3>2, StillTells DEF CapturesInv, JobTells
  <2>12. WindowInTime'
    <3>1. left = None \/ left + (now - w.started) > WindowMs + MarginMs
      BY <1>0, <1>1 DEF CapturesInv, WindowInTime
    <3>2. w.started \in Nat
      BY <1>1 DEF Window
    <3>3. left' = None \/ left' + (now' - w.started) > WindowMs + MarginMs
      BY <1>2, <3>1, <3>2, PassesInTime DEF CapturesInv
    <3>4. QED
      BY <2>6, <2>9, <3>3 DEF WindowInTime
  <2>13. ViewTells'
    BY <1>5, <1>8, StillTells DEF CapturesInv, ViewTells
  <2>14. QED
    BY <2>1, <2>10, <2>11, <2>12, <2>13 DEF CapturesInv
<1>9. QED
  BY <1>0, <1>6, <1>7, <1>8 DEF Measure

\* A window that ends within its bound ends before the margin.
LEMMA CloseWindowKeeps == CapturesInv /\ CloseWindow => CapturesInv'
<1> SUFFICES ASSUME CapturesInv, CloseWindow PROVE CapturesInv'
  OBVIOUS
<1>0. PICK w : w = job.window
  OBVIOUS
<1>1. job.at = "Window" /\ w \in Window
  BY <1>0 DEF CapturesInv, TypeOK, CloseWindow
<1>2. PICK t \in {0, 1} : Passes(t)
  BY DEF CloseWindow, LateReads
<1>3. now' \in Nat /\ now' = now + t /\ left' \in {None} \cup Nat /\ now \in Nat
  BY <1>2, PassesTypes DEF CapturesInv, TypeOK
<1>4. Still
  BY WorldStill DEF CloseWindow, LateReads
<1>5. memo' \in Memo /\ MemoTells'
  BY <1>4, SameMemo DEF CloseWindow
<1>6. CASE Stop
  BY <1>1, <1>3, <1>4, <1>5, <1>6, StopKeeps
<1>7. ASSUME InWindow, AsEnrolled(w.files), Decide(w.slot, Taken(w.files, left'), w.then.at, w.then.step)
      PROVE  CapturesInv'
  <2>1. PICK slot : slot = Taken(w.files, left')
    OBVIOUS
  <2>2. slot.files = w.files /\ slot.ended = left' /\ slot.kind = "Taken" /\ slot \in SlotValue
    BY <1>1, <1>3, <2>1 DEF Taken, SlotValue, Window, Kinds
  <2>3. \A f \in slot.files : Tells(f.key, Row[f.path])
    BY <1>0, <1>1, <1>7, <2>2 DEF CapturesInv, JobTells, AsEnrolled
  <2>4. slot.ended = None \/ slot.ended > MarginMs
    <3>1. w.started \in Nat /\ WindowMs \in Nat /\ MarginMs \in Nat
      BY <1>1, CapturesAssumption DEF Window
    <3>2. left = None \/ left + (now - w.started) > WindowMs + MarginMs
      BY <1>0, <1>1 DEF CapturesInv, WindowInTime
    <3>3. left' = None \/ left' + (now' - w.started) > WindowMs + MarginMs
      BY <1>2, <3>1, <3>2, PassesInTime DEF CapturesInv
    <3>4. now' - w.started <= WindowMs
      BY <1>0, <1>7 DEF InWindow
    <3>5. QED
      BY <1>3, <2>2, <3>1, <3>3, <3>4
  <2>5. w.slot \in Slots /\ w.then.at \in {"Fill", "Role"} /\ w.then.step \in Nat \ {0}
    BY <1>1 DEF Window, Slots
  <2>6. QED
    BY <1>3, <1>4, <1>5, <1>7, <2>1, <2>2, <2>3, <2>4, <2>5, DecideKeeps
<1>8. PICK accepted \in Verdicts(w.files) :
        IF InWindow /\ accepted THEN Decide(w.slot, Taken(w.files, left'), w.then.at, w.then.step) ELSE Stop
  BY <1>0 DEF CloseWindow
<1>9. accepted => AsEnrolled(w.files)
  BY DEF Verdicts
<1>10. QED
  BY <1>6, <1>7, <1>8, <1>9


-----------------------------------------------------------------------------
(* The fill.                                                                 *)

JobValue == [at : Places, step : Nat, expired : BOOLEAN, scan : BOOLEAN, window : {None} \cup Window,
             hash : {None} \cup PartialHash]

\* A step of the engine outside its windows that decides no slot.
LEMMA FillKeeps ==
  ASSUME CapturesInv, Still, job' \in JobValue, job'.at \in {"Fill", "Role", "Lifecycle"}, job'.step # 0,
         job'.hash # None => Begins(job'.hash),
         now' \in Nat, left' \in {None} \cup Nat, memo' \in Memo, MemoTells', view' = view
  PROVE  CapturesInv'
<1>1. TypeOK'
  BY DEF CapturesInv, TypeOK, Still, JobValue
<1>2. JobTells' /\ WindowInTime'
  BY StillTells DEF JobTells, WindowInTime
<1>3. ViewTells'
  BY StillTells DEF CapturesInv, ViewTells
<1>4. QED
  BY <1>1, <1>2, <1>3 DEF CapturesInv

\* The fill passes on to the next path, or to the rest of the set.
LEMMA SkipKeeps ==
  ASSUME CapturesInv, Still, job.at = "Fill", Skip,
         now' \in Nat, left' \in {None} \cup Nat, memo' \in Memo, MemoTells', view' = view
  PROVE  CapturesInv'
<1>1. job \in JobValue /\ job.step + 1 \in Nat \ {0}
  BY DEF CapturesInv, TypeOK, JobValue
<1>2. job' = [job EXCEPT !.step = job.step + 1, !.hash = None]
  BY DEF Skip
<1>3. job' \in JobValue /\ job'.at = "Fill" /\ job'.step # 0 /\ job'.hash = None
  BY <1>1, <1>2 DEF JobValue
<1>4. QED
  BY <1>3, FillKeeps

\* The time of the worker's idle fill is over.
LEMMA LeaveFillKeeps ==
  ASSUME CapturesInv, Still, job' = [job EXCEPT !.at = "Role", !.step = 1, !.hash = None],
         now' \in Nat, left' \in {None} \cup Nat, memo' \in Memo, MemoTells', view' = view
  PROVE  CapturesInv'
<1>1. job' \in JobValue /\ job'.at = "Role" /\ job'.step # 0 /\ job'.hash = None
  <2>1. "Role" \in Places
    BY DEF Places
  <2>2. job \in JobValue
    BY DEF CapturesInv, TypeOK, JobValue
  <2>3. job' \in JobValue
    BY <2>1, <2>2 DEF JobValue
  <2>4. job'.at = "Role" /\ job'.step = 1 /\ job'.hash = None
    BY <2>2 DEF JobValue
  <2>5. QED
    BY <2>3, <2>4
<1>2. QED
  BY <1>1, FillKeeps

\* The memo with the partial hash given up, and with another entry.
LEMMA DroppedPartial ==
  ASSUME CapturesInv, Still, memo' = [memo EXCEPT !.partial = None]
  PROVE  memo' \in Memo /\ MemoTells'
<1>1. memo' \in Memo /\ memo'.entries = memo.entries /\ memo'.partial = None
  BY DEF CapturesInv, TypeOK, Memo
<1>2. QED
  BY <1>1, StillTells DEF CapturesInv, MemoTells

\* A digest is filed in the memo under the key it was computed for.
LEMMA NewEntry ==
  ASSUME CapturesInv, Still, NEW p \in Paths, NEW e \in Entry, e.kind = "Done" => Tells(e.key, e.digest),
         memo'.entries = [memo.entries EXCEPT ![p] = e],
         memo'.partial \in {None, memo.partial},
         memo' = [entries |-> memo'.entries, partial |-> memo'.partial]
  PROVE  memo' \in Memo /\ MemoTells'
<1>1. memo'.entries \in [Paths -> {None} \cup Entry] /\ memo'.partial \in {None} \cup PartialHash
  BY DEF CapturesInv, TypeOK, Memo
<1>2. memo' \in Memo
  BY <1>1 DEF Memo
<1>3. \A q \in Paths : memo'.entries[q] = IF q = p THEN e ELSE memo.entries[q]
  BY DEF CapturesInv, TypeOK, Memo
<1>4. QED
  BY <1>2, <1>3, StillTells DEF CapturesInv, MemoTells

\* The idle fill picks the next file, whole, in part or not at all.
LEMMA FillNextKeeps == CapturesInv /\ FillNext => CapturesInv'
<1> SUFFICES ASSUME CapturesInv, FillNext PROVE CapturesInv'
  OBVIOUS
<1>0. PICK p : p = Order[job.step]
  OBVIOUS
<1>1. /\ job.at = "Fill" /\ job.hash = None /\ now' \in Nat /\ left' \in {None} \cup Nat /\ view' = view
      /\ job \in JobValue /\ job.step \in Nat \ {0}
  BY DEF CapturesInv, TypeOK, FillNext, JobValue
<1>2. ASSUME job.step <= Len(Order) PROVE p \in Paths /\ Row[p] \in Seq(Chunks)
  <2>1. Order \in Seq(Paths) /\ job.step \in 1 .. Len(Order)
    BY <1>1, <1>2, CapturesAssumption
  <2>2. QED
    BY <1>0, <2>1, CapturesAssumption
<1>3. Still
  BY WorldStill DEF FillNext
<1>4. CASE Goto("Role") /\ memo' = memo
  <2>1. job' = [job EXCEPT !.at = "Role", !.step = 1]
    BY <1>4 DEF Goto
  <2>2. job' \in JobValue /\ job'.at = "Role" /\ job'.step # 0 /\ job'.hash = None
    <3>1. "Role" \in Places
      BY DEF Places
    <3>2. job' \in JobValue
      BY <1>1, <2>1, <3>1 DEF JobValue
    <3>3. job'.at = "Role" /\ job'.step = 1 /\ job'.hash = job.hash
      BY <1>1, <2>1 DEF JobValue
    <3>4. QED
      BY <1>1, <3>2, <3>3
  <2>3. QED
    BY <1>1, <1>3, <1>4, <2>2, SameMemo, FillKeeps
<1>5. CASE Skip /\ memo' = memo
  BY <1>1, <1>3, <1>5, SameMemo, SkipKeeps
<1>6. CASE Skip /\ memo' = [memo EXCEPT !.partial = None]
  BY <1>1, <1>3, <1>6, DroppedPartial, SkipKeeps
<1>7. CASE Resumes(p) /\ job' = [job EXCEPT !.hash = memo.partial] /\ memo' = [memo EXCEPT !.partial = None]
  <2>1. memo.partial \in PartialHash /\ Begins(memo.partial)
    BY <1>7 DEF CapturesInv, TypeOK, Memo, MemoTells, Resumes
  <2>2. job' \in JobValue /\ job'.at = "Fill" /\ job'.step # 0 /\ job'.hash = memo.partial
    BY <1>1, <1>7, <2>1 DEF JobValue
  <2>3. QED
    BY <1>1, <1>3, <1>7, <2>1, <2>2, DroppedPartial, FillKeeps
<1>8. ASSUME job.step <= Len(Order), dir[p] # 0, NEW key, key = KeyOf(dir[p]), key.size = Len(Row[p]),
             job' = [job EXCEPT !.hash = Partial(p, key, <<>>)], memo' = [memo EXCEPT !.partial = None]
      PROVE  CapturesInv'
  <2>1. dir[p] \in Inodes
    BY <1>2, <1>8 DEF CapturesInv, TypeOK, Inodes
  <2>2. key \in Key /\ Seen(key)
    BY <1>8, <2>1, KeyOfType DEF CapturesInv
  <2>3. PICK h : h = Partial(p, key, <<>>)
    OBVIOUS
  <2>4. h \in PartialHash /\ h.key = key /\ h.hashed = <<>>
    BY <1>2, <1>8, <2>2, <2>3 DEF Partial, PartialHash
  <2>5. Begins(h)
    <3>1. inode[key.inode] \in Inode
      BY <2>2 DEF Seen, Inodes, CapturesInv, TypeOK
    <3>2. Len(inode[key.inode].content) \in Nat
      BY <3>1 DEF Inode
    <3>3. QED
      BY <2>2, <2>4, <3>2 DEF Begins
  <2>6. job' \in JobValue /\ job'.at = "Fill" /\ job'.step # 0 /\ job'.hash = h
    BY <1>1, <1>8, <2>3, <2>4 DEF JobValue
  <2>7. QED
    BY <1>1, <1>3, <1>8, <2>5, <2>6, DroppedPartial, FillKeeps
<1>9. ASSUME job.step <= Len(Order), dir[p] # 0, NEW key, key = KeyOf(dir[p]), Skip,
             memo' = [entries |-> [memo.entries EXCEPT ![p] = Differs(key)], partial |-> None]
      PROVE  CapturesInv'
  <2>1. dir[p] \in Inodes
    BY <1>2, <1>9 DEF CapturesInv, TypeOK, Inodes
  <2>2. key \in Key
    BY <1>9, <2>1, KeyOfType DEF CapturesInv
  <2>3. Differs(key) \in Entry /\ Differs(key).kind # "Done"
    BY <2>2 DEF Differs, Entry
  <2>4. memo' \in Memo /\ MemoTells'
    BY <1>2, <1>3, <1>9, <2>3, NewEntry
  <2>5. QED
    BY <1>1, <1>3, <1>9, <2>4, SkipKeeps
<1>10. QED
  BY <1>0, <1>4, <1>5, <1>6, <1>7, <1>8, <1>9 DEF FillNext


\* One read more of a file whose key still shows continues its content; and a
\* hash that has come to the end of such a file is the whole of it.
LEMMA HashMoreKeeps == CapturesInv /\ HashMore => CapturesInv'
<1> SUFFICES ASSUME CapturesInv, HashMore PROVE CapturesInv'
  OBVIOUS
<1>0. PICK h, content : h = job.hash /\ content = inode[h.key.inode].content
  OBVIOUS
<1>1. /\ job.at = "Fill" /\ h # None /\ view' = view /\ job \in JobValue /\ job.step \in Nat \ {0}
      /\ h \in PartialHash /\ Begins(h)
  BY <1>0 DEF CapturesInv, TypeOK, HashMore, JobValue, JobTells
<1>2. now' \in Nat /\ left' \in {None} \cup Nat
  BY PassesTypes DEF HashMore, CapturesInv, TypeOK
<1>3. Still
  BY WorldStill DEF HashMore
<1>4. /\ h.path \in Paths /\ h.key \in Key /\ h.hashed \in Seq(Chunks) /\ Len(h.hashed) \in Nat
      /\ h.key.inode \in 1 .. Len(inode) /\ content \in Seq(Chunks) /\ Len(content) \in Nat
  <2>1. h.path \in Paths /\ h.key \in Key /\ h.hashed \in Seq(Chunks) /\ h.key.inode \in 1 .. Len(inode)
    BY <1>1 DEF PartialHash, Begins, Seen, Inodes
  <2>2. inode[h.key.inode] \in Inode
    BY <2>1 DEF CapturesInv, TypeOK
  <2>3. content \in Seq(Chunks)
    BY <1>0, <2>2 DEF Inode
  <2>4. QED
    BY <2>1, <2>3
<1>5. CASE /\ memo' = [memo EXCEPT !.partial = h]
           /\ job' = [job EXCEPT !.at = "Role", !.step = 1, !.hash = None]
  <2>1. memo' \in Memo /\ memo'.entries = memo.entries /\ memo'.partial = h
    BY <1>1, <1>5 DEF CapturesInv, TypeOK, Memo
  <2>2. MemoTells'
    BY <1>1, <1>3, <2>1, StillTells DEF CapturesInv, MemoTells
  <2>3. QED
    BY <1>1, <1>2, <1>3, <1>5, <2>1, <2>2, LeaveFillKeeps
<1>6. CASE Skip /\ memo' = memo
  BY <1>1, <1>2, <1>3, <1>6, SameMemo, SkipKeeps
<1>7. ASSUME Len(h.hashed) < Len(content), memo' = memo,
             job' = [job EXCEPT !.hash.hashed = Append(@, content[Len(h.hashed) + 1])]
      PROVE  CapturesInv'
  <2>1. PICK n \in Nat : n = Len(h.hashed)
    BY <1>4
  <2>2. n + 1 \in 1 .. Len(content) /\ content[n + 1] \in Chunks
    BY <1>4, <1>7, <2>1
  <2>3. PICK more : more = Append(h.hashed, content[n + 1])
    OBVIOUS
  <2>4. /\ more \in Seq(Chunks) /\ Len(more) = n + 1 /\ more[n + 1] = content[n + 1]
        /\ \A k \in 1 .. n : more[k] = h.hashed[k]
    BY <1>4, <2>1, <2>2, <2>3
  <2>5. PICK g : g = [h EXCEPT !.hashed = more]
    OBVIOUS
  <2>6. g \in PartialHash /\ g.key = h.key /\ g.hashed = more
    BY <1>1, <2>4, <2>5 DEF PartialHash
  <2>7. Begins(g)
    <3>1. Seen(h.key)
      BY <1>1 DEF Begins
    <3>2. ASSUME KeyOf(h.key.inode) = h.key
          PROVE  /\ Len(more) <= Len(content) /\ \A k \in 1 .. Len(more) : more[k] = content[k]
      <4>1. \A k \in 1 .. n : h.hashed[k] = content[k]
        BY <1>0, <1>1, <2>1, <3>2 DEF Begins
      <4>2. ASSUME NEW k \in 1 .. n + 1 PROVE more[k] = content[k]
        <5>1. CASE k = n + 1
          BY <2>4, <5>1
        <5>2. CASE k \in 1 .. n
          BY <2>4, <4>1, <5>2
        <5>3. QED
          BY <2>1, <5>1, <5>2
      <4>3. QED
        BY <1>4, <2>2, <2>4, <4>2
    <3>3. QED
      BY <1>0, <2>6, <3>1, <3>2 DEF Begins
  <2>8. job' = [job EXCEPT !.hash = g]
    BY <1>0, <1>1, <1>7, <2>1, <2>3, <2>5 DEF JobValue, PartialHash
  <2>9. job' \in JobValue /\ job'.at = "Fill" /\ job'.step # 0 /\ job'.hash = g
    BY <1>1, <2>6, <2>8 DEF JobValue
  <2>10. QED
    BY <1>1, <1>2, <1>3, <1>7, <2>7, <2>9, SameMemo, FillKeeps
<1>8. ASSUME NEW e \in Entry, e.kind = "Done" => Tells(e.key, e.digest),
             memo' = [memo EXCEPT !.entries[h.path] = e], Skip
      PROVE  CapturesInv'
  <2>1. /\ memo'.entries = [memo.entries EXCEPT ![h.path] = e] /\ memo'.partial = memo.partial
        /\ memo' = [entries |-> memo'.entries, partial |-> memo'.partial]
    BY <1>8 DEF CapturesInv, TypeOK, Memo
  <2>2. memo' \in Memo /\ MemoTells'
    BY <1>3, <1>4, <1>8, <2>1, NewEntry
  <2>3. QED
    BY <1>1, <1>2, <1>3, <1>8, <2>2, SkipKeeps
<1>9. Differs(h.key) \in Entry /\ Differs(h.key).kind # "Done"
  BY <1>4 DEF Differs, Entry
<1>10. ASSUME Len(h.hashed) = h.key.size
       PROVE  Hashed(h) \in Entry /\ (Hashed(h).kind = "Done" => Tells(Hashed(h).key, Hashed(h).digest))
  <2>1. Hashed(h) \in Entry /\ Hashed(h).key = h.key /\ Hashed(h).digest = h.hashed
    BY <1>4 DEF Hashed, Done, Entry
  <2>2. ASSUME KeyOf(h.key.inode) = h.key PROVE h.hashed = content
    <3>1. Len(content) = h.key.size
      BY <1>0, <2>2 DEF KeyOf
    <3>2. \A k \in 1 .. Len(content) : h.hashed[k] = content[k]
      BY <1>0, <1>1, <1>10, <2>2, <3>1 DEF Begins
    <3>3. QED
      BY <1>4, <1>10, <3>1, <3>2
  <2>3. Tells(h.key, h.hashed)
    BY <1>0, <1>1, <2>2 DEF Begins, Tells
  <2>4. QED
    BY <2>1, <2>3
<1> DEFINE Answer(e) == memo' = [memo EXCEPT !.entries[h.path] = e] /\ Skip
<1>11. \/ /\ memo' = [memo EXCEPT !.partial = h]
          /\ job' = [job EXCEPT !.at = "Role", !.step = 1, !.hash = None]
       \/ Skip /\ memo' = memo
       \/ /\ Len(h.hashed) < Len(content) /\ memo' = memo
          /\ job' = [job EXCEPT !.hash.hashed = Append(@, content[Len(h.hashed) + 1])]
       \/ Answer(IF Len(h.hashed) >= Len(content) /\ Len(h.hashed) = h.key.size THEN Hashed(h) ELSE Differs(h.key))
  BY <1>0 DEF HashMore
<1>12. QED
  BY <1>5, <1>6, <1>7, <1>8, <1>9, <1>10, <1>11


-----------------------------------------------------------------------------
(* The rest of a set.                                                        *)

\* The host-wide scan, or none once the record expired or the budget is spent.
LEMMA ScanKeeps == CapturesInv /\ Scan => CapturesInv'
<1> SUFFICES ASSUME CapturesInv, Scan PROVE CapturesInv'
  OBVIOUS
<1>1. job.at = "Role" /\ job \in JobValue /\ job.step # 0 /\ view' = view /\ memo' = memo
  BY DEF CapturesInv, TypeOK, Scan, JobValue
<1>2. now' \in Nat /\ left' \in {None} \cup Nat
  BY PassesTypes DEF Scan, CapturesInv, TypeOK
<1>3. Still
  BY WorldStill DEF Scan
<1>4. "Lifecycle" \in Places
  BY DEF Places
<1>5. PICK ok \in BOOLEAN : job' = [job EXCEPT !.at = "Lifecycle", !.scan = ok]
  <2>1. job = [job EXCEPT !.scan = job.scan] /\ job.scan \in BOOLEAN
    BY <1>1 DEF JobValue
  <2>2. CASE job' = [job EXCEPT !.at = "Lifecycle"]
    <3>1. job' = [job EXCEPT !.at = "Lifecycle", !.scan = job.scan]
      BY <1>1, <2>2 DEF JobValue
    <3>2. QED
      BY <2>1, <3>1
  <2>3. QED
    BY <2>2 DEF Scan
<1>6. job' \in JobValue
  BY <1>1, <1>4, <1>5 DEF JobValue
<1>7. job'.at = "Lifecycle" /\ job'.step = job.step /\ job'.hash = job.hash
  BY <1>1, <1>5 DEF JobValue
<1>8. QED
  BY <1>1, <1>2, <1>3, <1>6, <1>7, SameMemo, FillKeeps DEF CapturesInv, JobTells

\* A slot that cannot be read any more is expired or out of budget.
LEMMA UnreadSlot ==
  ASSUME Unread # None
  PROVE  \E kind \in {"Expired", "SetBudget"} : Unread = Slot(kind)
BY DEF Unread

\* The slots of the lifecycle and of the backends are no role's.
LEMMA OwnSlots ==
  /\ "LIFECYCLE" \in Slots /\ "LIFECYCLE" \notin Roles
  /\ \A k \in 1 .. Len(Backends) :
       /\ Backends[k] \in Slots /\ Backends[k] \notin Roles
       /\ Files[Backends[k]] \in Seq(Paths) /\ Files[Backends[k]][1] \in Paths
<1>1. Backends \in Seq(Slots) /\ Roles \cap ({"LIFECYCLE"} \cup Elements(Backends)) = {}
  BY CapturesAssumption
<1>2. ASSUME NEW k \in 1 .. Len(Backends) PROVE Backends[k] \in Elements(Backends) /\ Backends[k] \in Slots
  BY <1>1 DEF Elements
<1>3. ASSUME NEW k \in 1 .. Len(Backends)
      PROVE  Files[Backends[k]] \in Seq(Paths) /\ Files[Backends[k]][1] \in Paths
  <2>1. Backends[k] \in DOMAIN Files
    BY <1>2, CapturesAssumption
  <2>2. Files[Backends[k]] \in Seq(Paths) /\ Files[Backends[k]] # <<>>
    BY <2>1, CapturesAssumption
  <2>3. QED
    BY <2>2
<1>4. QED
  BY <1>1, <1>2, <1>3 DEF Slots

\* The lifecycle slot is decided.
LEMMA LifecycleKeeps == CapturesInv /\ Lifecycle => CapturesInv'
<1> SUFFICES ASSUME CapturesInv, Lifecycle PROVE CapturesInv'
  OBVIOUS
<1>1. now' \in Nat /\ left' \in {None} \cup Nat /\ left \in {None} \cup Nat
  BY PassesTypes DEF Lifecycle, CapturesInv, TypeOK
<1>2. Still
  BY WorldStill DEF Lifecycle
<1>3. memo' \in Memo /\ MemoTells'
  BY <1>2, SameMemo DEF Lifecycle
<1>4. ASSUME NEW kind \in {"Expired", "SetBudget", "Unavailable"}, Decide("LIFECYCLE", Slot(kind), "Backend", 1)
      PROVE  CapturesInv'
  <2>1. kind \in Kinds /\ kind # "Taken"
    BY DEF Kinds
  <2>2. QED
    BY <1>1, <1>2, <1>3, <1>4, <2>1, OwnSlots, EmptySlotKeeps
<1>5. CASE Decide("LIFECYCLE", Taken({}, left), "Backend", 1)
  <2>1. Taken({}, left) \in SlotValue /\ Taken({}, left).files = {}
    BY <1>1 DEF Taken, SlotValue, Kinds
  <2>2. QED
    BY <1>1, <1>2, <1>3, <1>5, <2>1, OwnSlots, DecideKeeps
<1>6. CASE Unread # None
  BY <1>4, <1>6, UnreadSlot DEF Lifecycle
<1>7. CASE Unread = None
  BY <1>4, <1>5, <1>7 DEF Lifecycle
<1>8. QED
  BY <1>6, <1>7

\* A backend's slot is decided.
LEMMA BackendKeeps == CapturesInv /\ Backend => CapturesInv'
<1> SUFFICES ASSUME CapturesInv, Backend PROVE CapturesInv'
  OBVIOUS
<1>0. PICK x, p, key : x = Backends[job.step] /\ p = Files[x][1] /\ key = KeyOf(dir[p])
  OBVIOUS
<1>1. now' \in Nat /\ left' \in {None} \cup Nat /\ left \in {None} \cup Nat
  BY PassesTypes DEF Backend, CapturesInv, TypeOK
<1>2. Still
  BY WorldStill DEF Backend
<1>3. job.step \in Nat \ {0} /\ job.step + 1 \in Nat \ {0} /\ job.step <= Len(Backends)
  BY DEF CapturesInv, TypeOK, Backend
<1>4. x \in Slots /\ x \notin Roles /\ p \in Paths
  <2>1. job.step \in 1 .. Len(Backends)
    BY <1>3, CapturesAssumption
  <2>2. QED
    BY <1>0, <2>1, OwnSlots
<1>5. ASSUME NEW kind \in {"Expired", "SetBudget", "Unavailable"}, memo' \in Memo, MemoTells',
             Decide(x, Slot(kind), "Backend", job.step + 1)
      PROVE  CapturesInv'
  <2>1. kind \in Kinds /\ kind # "Taken"
    BY DEF Kinds
  <2>2. QED
    BY <1>1, <1>2, <1>3, <1>4, <1>5, <2>1, EmptySlotKeeps
<1>6. CASE Unread # None
  <2>1. memo' = memo /\ Decide(x, Unread, "Backend", job.step + 1)
    BY <1>0, <1>6 DEF Backend
  <2>2. QED
    BY <1>2, <1>5, <1>6, <2>1, UnreadSlot, SameMemo
<1>7. CASE Decide(x, Slot("Unavailable"), "Backend", job.step + 1) /\ memo' = memo
  BY <1>2, <1>5, <1>7, SameMemo
<1>8. CASE Decide(x, Slot("Unavailable"), "Backend", job.step + 1) /\ memo' = Looked(memo, p, key)
  BY <1>2, <1>4, <1>5, <1>8, LookedKeeps
<1>9. ASSUME dir[p] # 0, memo' = Looked(memo, p, key), Found(memo, p, key) # None, AsEnrolled({File(p, key)}),
             Decide(x, Taken({File(p, key)}, left), "Backend", job.step + 1)
      PROVE  CapturesInv'
  <2>1. memo' \in Memo /\ MemoTells'
    BY <1>2, <1>4, <1>9, LookedKeeps
  <2>2. key \in Key
    <3>1. dir[p] \in Inodes
      BY <1>4, <1>9 DEF CapturesInv, TypeOK, Inodes
    <3>2. QED
      BY <1>0, <3>1, KeyOfType DEF CapturesInv
  <2>3. PICK f : f = File(p, key)
    OBVIOUS
  <2>4. f \in FileReport /\ Tells(f.key, f.digest)
    <3>1. Found(memo, p, key) \in Seq(Chunks) /\ Tells(key, Found(memo, p, key))
      BY <1>4, <1>9, FoundTells
    <3>2. QED
      BY <1>4, <2>2, <2>3, <3>1 DEF File, FileReport
  <2>5. Tells(f.key, Row[f.path])
    BY <1>9, <2>3, <2>4 DEF AsEnrolled
  <2>6. PICK slot : slot = Taken({f}, left)
    OBVIOUS
  <2>7. slot \in SlotValue /\ slot.files = {f}
    BY <1>1, <2>4, <2>6 DEF Taken, SlotValue, Kinds
  <2>8. QED
    BY <1>1, <1>2, <1>3, <1>4, <1>9, <2>1, <2>3, <2>5, <2>6, <2>7, DecideKeeps
<1>10. CASE Unread = None
  BY <1>0, <1>7, <1>8, <1>9, <1>10 DEF Backend
<1>11. QED
  BY <1>6, <1>10


-----------------------------------------------------------------------------
(* A set begins and ends, and the record expires.                            *)

\* Between two sets nothing is held.
LEMMA IdleType == Idle \in JobValue /\ Idle.at = "Idle" /\ Idle.hash = None /\ [Idle EXCEPT !.at = "Worker"] \in JobValue
<1>1. "Idle" \in Places /\ "Worker" \in Places
  BY DEF Places
<1>2. QED
  BY <1>1 DEF Idle, JobValue

\* The view is replaced as a whole while no window is open and no file is held.
LEMMA ReplacedKeeps ==
  ASSUME CapturesInv, Still, NEW kind \in Kinds, kind # "Taken", view' = Every(Slot(kind)),
         job' \in JobValue, job'.at \in {"Idle", "Worker"}, job'.hash # None => Begins(job'.hash),
         now' \in Nat, left' \in {None} \cup Nat, memo' = memo
  PROVE  CapturesInv'
<1>1. memo' \in Memo /\ MemoTells'
  BY SameMemo
<1>2. Slot(kind) \in SlotValue /\ Slot(kind).files = {} /\ Slot(kind).kind = kind
  BY SlotType
<1>3. view' \in [Slots -> SlotValue] /\ \A x \in Slots : view'[x] = Slot(kind)
  BY <1>2 DEF Every
<1>4. TypeOK'
  BY <1>1, <1>3 DEF CapturesInv, TypeOK, Still, JobValue
<1>5. JobTells' /\ WindowInTime'
  BY StillTells DEF JobTells, WindowInTime
<1>6. ViewTells'
  BY <1>2, <1>3 DEF ViewTells, Slots
<1>7. QED
  BY <1>1, <1>4, <1>5, <1>6 DEF CapturesInv

\* A set begins.
LEMMA StartSetKeeps == CapturesInv /\ StartSet => CapturesInv'
<1> SUFFICES ASSUME CapturesInv, StartSet PROVE CapturesInv'
  OBVIOUS
<1>1. Still /\ memo' = memo
  BY WorldStill DEF StartSet
<1>2. PICK late \in 0 .. MaxLate, mark \in IF left = None THEN {None} \cup 1 .. MaxLeft ELSE 1 .. (left - 1) :
        now' = late /\ left' = mark
  BY DEF StartSet
<1>3. now' \in Nat /\ left' \in {None} \cup Nat
  <2>1. now' \in Nat
    BY <1>2, CapturesAssumption
  <2>2. MaxLeft \in Nat /\ left \in {None} \cup Nat
    BY CapturesAssumption DEF CapturesInv, TypeOK
  <2>3. CASE left = None
    BY <1>2, <2>1, <2>2, <2>3
  <2>4. CASE left # None
    <3>1. left \in Nat /\ left' \in 1 .. (left - 1)
      BY <1>2, <2>2, <2>4
    <3>2. QED
      BY <2>1, <3>1
  <2>5. QED
    BY <2>1, <2>3, <2>4
<1>4. job' \in JobValue /\ job'.at = "Worker" /\ job'.hash = None
  BY IdleType DEF StartSet, JobValue, Idle
<1>5. "SetBudget" \in Kinds
  BY DEF Kinds
<1>6. QED
  BY <1>1, <1>3, <1>4, <1>5, ReplacedKeeps DEF StartSet

\* A set that cannot begin replaces the view.
LEMMA SkipSetKeeps == CapturesInv /\ SkipSet => CapturesInv'
<1> SUFFICES ASSUME CapturesInv, SkipSet PROVE CapturesInv'
  OBVIOUS
<1>1. Still /\ memo' = memo /\ now' \in Nat /\ left' \in {None} \cup Nat
  BY WorldStill DEF SkipSet, CapturesInv, TypeOK
<1>2. job' \in JobValue /\ job'.at = "Idle" /\ (job'.hash # None => Begins(job'.hash))
  BY DEF SkipSet, CapturesInv, TypeOK, JobValue, JobTells
<1>3. "Unavailable" \in Kinds /\ "Pending" \in Kinds
  BY DEF Kinds
<1>4. QED
  BY <1>1, <1>2, <1>3, ReplacedKeeps DEF SkipSet

\* The record expires: the view says so in every slot.
LEMMA ExpiryWakeKeeps == CapturesInv /\ ExpiryWake => CapturesInv'
<1> SUFFICES ASSUME CapturesInv, ExpiryWake PROVE CapturesInv'
  OBVIOUS
<1>1. Still /\ memo' = memo /\ now' \in Nat /\ left' \in {None} \cup Nat
  BY WorldStill DEF ExpiryWake, CapturesInv, TypeOK
<1>2. job' \in JobValue /\ job'.at = "Idle" /\ (job'.hash # None => Begins(job'.hash))
  BY DEF ExpiryWake, CapturesInv, TypeOK, JobValue, JobTells
<1>3. "Expired" \in Kinds
  BY DEF Kinds
<1>4. QED
  BY <1>1, <1>2, <1>3, ReplacedKeeps DEF ExpiryWake

\* A set ends: what it left undecided stays, unless the record expired in it.
LEMMA EndSetKeeps == CapturesInv /\ EndSet => CapturesInv'
<1> SUFFICES ASSUME CapturesInv, EndSet PROVE CapturesInv'
  OBVIOUS
<1>1. Still /\ memo' = memo /\ now' \in Nat /\ left' \in {None} \cup Nat
  BY WorldStill DEF EndSet, CapturesInv, TypeOK
<1>2. memo' \in Memo /\ MemoTells'
  BY <1>1, SameMemo
<1>3. job' = Idle /\ job' \in JobValue /\ job'.at = "Idle" /\ job'.hash = None
  BY IdleType DEF EndSet
<1>4. Slot("Expired") \in SlotValue /\ Slot("Expired").files = {} /\ Slot("Expired").kind = "Expired"
  <2>1. "Expired" \in Kinds
    BY DEF Kinds
  <2>2. QED
    BY <2>1, SlotType
<1>5. /\ view' \in [Slots -> SlotValue]
      /\ \A x \in Slots : view'[x] = Slot("Expired") \/ view'[x] = view[x]
  <2>1. view \in [Slots -> SlotValue]
    BY DEF CapturesInv, TypeOK
  <2>2. QED
    BY <1>4, <2>1 DEF EndSet, Settled
<1>6. TypeOK'
  BY <1>1, <1>2, <1>3, <1>5 DEF CapturesInv, TypeOK, Still, JobValue
<1>7. JobTells' /\ WindowInTime'
  BY <1>3 DEF JobTells, WindowInTime
<1>8. ViewTells'
  <2>1. Roles \subseteq Slots
    BY DEF Slots
  <2>2. \A x \in Slots : \A f \in view'[x].files : Tells(f.key, Row[f.path])
    BY <1>4, <1>5 DEF CapturesInv, ViewTells
  <2>3. \A x \in Roles : view'[x].kind = "Taken" => view'[x].ended = None \/ view'[x].ended > MarginMs
    BY <1>4, <1>5, <2>1 DEF CapturesInv, ViewTells
  <2>4. QED
    BY <1>1, <2>2, <2>3, StillTells DEF ViewTells
<1>9. QED
  BY <1>2, <1>6, <1>7, <1>8 DEF CapturesInv

\* Before the first set the view is empty and the memo too.
LEMMA CapturesStart == Init => CapturesInv
<1> SUFFICES ASSUME Init PROVE CapturesInv
  OBVIOUS
<1>1. Order \in Seq(Paths) /\ Row \in [Paths -> Seq(Chunks)] /\ Len(Order) \in Nat
  BY CapturesAssumption
<1>2. inode \in Seq(Inode) /\ Len(inode) = Len(Order)
  <2>1. inode = [i \in 1 .. Len(Order) |-> [content |-> Row[Order[i]], ctime |-> 0]]
    BY <1>1 DEF Init
  <2>2. \A i \in 1 .. Len(Order) : [content |-> Row[Order[i]], ctime |-> 0] \in Inode
    BY <1>1 DEF Inode
  <2>3. QED
    BY <1>1, <2>1, <2>2
<1>3. dir \in [Paths -> 0 .. Len(inode)]
  <2>1. PICK missing \in SUBSET Paths :
          dir = [p \in Paths |-> IF p \in missing THEN 0 ELSE CHOOSE i \in DOMAIN Order : Order[i] = p]
    BY DEF Init
  <2>2. ASSUME NEW p \in Paths PROVE (CHOOSE i \in DOMAIN Order : Order[i] = p) \in 0 .. Len(inode)
    <3>1. \E i \in DOMAIN Order : Order[i] = p
      BY DEF Paths, Elements
    <3>2. (CHOOSE i \in DOMAIN Order : Order[i] = p) \in DOMAIN Order
      BY <3>1
    <3>3. QED
      BY <1>1, <1>2, <3>2
  <2>3. 0 \in 0 .. Len(inode)
    BY <1>1, <1>2
  <2>4. QED
    BY <2>1, <2>2, <2>3
<1>4. "Pending" \in Kinds
  BY DEF Kinds
<1>5. Slot("Pending") \in SlotValue /\ Slot("Pending").files = {} /\ Slot("Pending").kind = "Pending"
  BY <1>4, SlotType
<1>6. view \in [Slots -> SlotValue] /\ \A x \in Slots : view[x] = Slot("Pending")
  BY <1>5 DEF Init, Every
<1>7. memo \in Memo /\ memo.partial = None /\ \A p \in Paths : memo.entries[p] = None
  BY DEF Init, Memo
<1>8. job = Idle /\ job \in JobValue /\ job.at = "Idle" /\ job.hash = None
  BY IdleType DEF Init
<1>9. TypeOK
  BY <1>2, <1>3, <1>6, <1>7, <1>8 DEF Init, TypeOK, JobValue
<1>10. MemoTells /\ JobTells /\ WindowInTime /\ ViewTells
  BY <1>5, <1>6, <1>7, <1>8 DEF MemoTells, JobTells, WindowInTime, ViewTells, Slots
<1>11. QED
  BY <1>9, <1>10 DEF CapturesInv

\* What the engine holds of the files is so in every reachable state, whatever
\* the world does between its reads.
THEOREM CapturesSafe == Spec => []CapturesInv
<1>1. CapturesInv /\ UNCHANGED vars => CapturesInv'
  <2> SUFFICES ASSUME CapturesInv, UNCHANGED vars PROVE CapturesInv'
    OBVIOUS
  <2>1. Moves /\ dir' \in [Paths -> 0 .. Len(inode')]
    BY DEF vars, CapturesInv, TypeOK, Moves
  <2>2. QED
    BY <2>1, WorldKeeps DEF vars
<1>2. CapturesInv /\ [Next]_vars => CapturesInv'
  BY <1>1, WorldStepKeeps, StartSetKeeps, SkipSetKeeps, ExpiryWakeKeeps, WorkerFirstKeeps, MeasureKeeps,
     CloseWindowKeeps, FillNextKeeps, HashMoreKeeps, NextRoleKeeps, ScanKeeps, LifecycleKeeps, BackendKeeps,
     EndSetKeeps DEF Next, SetStep
<1>3. QED
  BY CapturesStart, <1>2, PTL DEF Spec

\* A published capture tells the truth about every file it names, unless the
\* file was written to since, and no role's ended within the margin (TakenIsEnrolled).
THEOREM CapturesTellTheTruth == Spec => []TakenIsEnrolled
<1>1. CapturesInv => TakenIsEnrolled
  BY DEF CapturesInv, ViewTells, Tells, TakenIsEnrolled
<1>2. QED
  BY CapturesSafe, <1>1, PTL

\* A digest of the memo is the content of the file it was filed for, while the
\* file shows its key: hashing over several sets mixes no versions (MemoSound).
THEOREM MemoIsSound == Spec => []MemoSound
<1>1. CapturesInv => MemoSound
  BY DEF CapturesInv, MemoTells, Tells, MemoSound
<1>2. QED
  BY CapturesSafe, <1>1, PTL

=============================================================================
