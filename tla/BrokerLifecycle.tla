---------------------------- MODULE BrokerLifecycle ----------------------------
(***************************************************************************)
(* The capacity broker's startup run (broker/src/lifecycle): one worker is *)
(* spawned into a frozen cgroup leaf, checked, bound at the gate, thawed,  *)
(* and at the end killed, reaped and the leaf released; whatever cannot be *)
(* shown clean leaves a standing HOLD.  The broker is one thread, but the  *)
(* kernel and the worker run beside it: processes stop, fork and die       *)
(* between any two of its reads and writes, each of which may fail, and    *)
(* the broker may crash and start again over the leaf as it was left.      *)
(*                                                                         *)
(* Time is kept as two countdowns, of the operation's deadline and of the  *)
(* current bounded wait; 0 is the bound itself and -1 past it, which       *)
(* `wait::poll' tells apart.                                               *)
(***************************************************************************)
EXTENDS Integers, FiniteSets

CONSTANTS
  Pids,        \* process ids, each used once
  MaxCrashes,  \* bound: broker restarts
  Deadline,    \* operationDeadlineSeconds
  FreezeWait,  \* FREEZE_WAIT_MS
  Hold,        \* NP9_HOLD_MS
  Reserve,     \* NP9_RESERVE_MS
  W6Bound,     \* W6_BOUND_MS
  None

ASSUME TimeAssumption ==
  /\ {Deadline, FreezeWait, Hold, W6Bound} \subseteq Nat
  /\ Reserve = W6Bound + FreezeWait

ASSUME BrokerAssumption == MaxCrashes \in Nat /\ None \notin Pids

VARIABLES
  leaf,      \* the cgroup: the freeze requested, what cgroup.events shows, the processes
  pc,        \* the run's next step
  child,     \* the spawned worker
  entry,     \* why W6 (or W1's failure path) was entered
  standing,  \* the standing HOLD: the first step that set it
  kept,      \* the children that a Held run keeps
  outcome,   \* of the run
  left,      \* until the operation's deadline
  timer,     \* until the bound of the current wait
  workers,   \* every process the broker spawned
  bound,     \* those the gate bound
  crashes,
  prompt     \* in this behaviour time passes in the broker's sleeps only

run == <<pc, child, entry, standing, kept, outcome>>
vars == <<leaf, pc, child, entry, standing, kept, outcome, left, timer, workers, bound, crashes, prompt>>

-----------------------------------------------------------------------------
(* The leaf.  A stopped process is one the freezer holds; one that was     *)
(* sent cgroup.kill is dying until the kernel is done with it.             *)

ProcState == {"unused", "stopped", "running", "dying", "zombie", "gone"}

Leaf == [freeze : BOOLEAN, frozen : BOOLEAN, procs : [Pids -> ProcState]]

In(l, state) == {p \in Pids : l.procs[p] = state}

Live(l) == In(l, "stopped") \cup In(l, "running") \cup In(l, "dying")

Moved(l, from, to) == [l EXCEPT !.procs = [p \in Pids |-> IF @[p] \in from THEN to ELSE @[p]]]

\* The kernel shows a leaf frozen once no process is left to stop: an empty
\* one at once, a populated one when its last process has stopped (Settle).
Shown(l) == [l EXCEPT !.frozen = @ \/ (l.freeze /\ Live(l) = {})]

\* What one write does when it takes effect.
Written(l, what) ==
  IF what = "Freeze" THEN Shown([l EXCEPT !.freeze = TRUE])
  ELSE IF what = "Kill" THEN Moved(l, {"stopped", "running"}, "dying")
  ELSE Moved([l EXCEPT !.freeze = FALSE, !.frozen = FALSE], {"stopped"}, "running")

\* A write that returned an error may have taken effect or not.
Write(what, ok) ==
  \/ leaf' = Written(leaf, what)
  \/ ~ok /\ leaf' = leaf

\* cgroup.events, as `text::events' reads it.
Events(l) == [populated |-> Live(l) # {}, frozen |-> l.frozen]

\* A read fails, or is of the leaf as it is now.
Reads == {None, Events(leaf)}

\* The kernel and the worker.
Stop(p) ==
  /\ leaf.freeze /\ p \in In(leaf, "running")
  /\ leaf' = [leaf EXCEPT !.procs[p] = "stopped"]

Settle ==
  /\ leaf.freeze /\ ~leaf.frozen /\ In(leaf, "running") = {}
  /\ leaf' = [leaf EXCEPT !.frozen = TRUE]

Fork(p, q) ==
  /\ p \in In(leaf, "running") /\ q \in In(leaf, "unused")
  /\ leaf' = [leaf EXCEPT !.procs[q] = "running", !.frozen = FALSE]

\* A worker's own end, or a killed process's; only the child waits to be reaped.
Die(p) ==
  /\ p \in In(leaf, "running") \cup In(leaf, "dying")
  /\ leaf' = Shown([leaf EXCEPT !.procs[p] = IF p = child THEN "zombie" ELSE "gone"])

Kernel ==
  /\ \E p \in Pids : Stop(p) \/ Die(p) \/ \E q \in Pids : Fork(p, q)
     \/ Settle
  /\ UNCHANGED <<run, left, timer, workers, bound, crashes>>

-----------------------------------------------------------------------------
(* The run's ends.                                                         *)

Step == {"HoldRead", "HoldPopulated", "HoldFrozen", "HoldStanding", "W5Open", "W5Measure",
         "W5Compare", "Pair", "W1Read", "W1NotEmpty", "W1Freeze", "W1NotFrozen",
         "W1NotEmptyOnReread", "W1FailThaw", "W2Spawn", "W2MaskRestore", "W3Read",
         "W3Membership", "W3Credentials", "W3Groups", "W3Label", "W3Descriptors", "Bind",
         "W4Thaw", "Np9Freeze", "Np9Events", "Np9Thaw", "W6NotEmpty", "W6Reap", "W6Release"}

W5Steps == {"W5Open", "W5Measure", "W5Compare", "Pair"}
W3Steps == {"W3Read", "W3Membership", "W3Credentials", "W3Groups", "W3Label", "W3Descriptors"}

Kinds == {"CapacityHeld", "NotSpawned", "Cleaned", "Held", "Ended", "Unavailable"}
Outcome == [kind : Kinds, step : Step \cup {None}]

ASSUME NoneAssumption == None \notin Step \cup Outcome

\* The first step that sets the standing HOLD keeps its name.
HoldBy(step) == standing' = IF standing = None THEN step ELSE standing

Finish(kind, step) ==
  /\ pc' = "done" /\ outcome' = [kind |-> kind, step |-> step]
  /\ UNCHANGED <<child, entry>>

Ends(kind, step) == Finish(kind, step) /\ UNCHANGED <<standing, kept>>

HoldsCapacity(step) == Finish("CapacityHeld", step) /\ HoldBy(step) /\ UNCHANGED kept

\* A held W6: the standing HOLD, and the child is kept with its pidfd.
Holds(step) ==
  /\ Finish("Held", step) /\ HoldBy(step)
  /\ kept' = kept \cup ({child} \ {None})

Goto(step) == pc' = step /\ UNCHANGED <<child, entry, standing, kept, outcome>>

\* W6 entered from a failure at `why', from the Binder's Unavailable, at the
\* worker's own end or at the deadline.
EnterW6(why) ==
  pc' = "w6freeze" /\ entry' = why /\ UNCHANGED <<child, standing, kept, outcome>>

FailW1(step) ==
  pc' = "w1fail" /\ entry' = step /\ UNCHANGED <<child, standing, kept, outcome>>

Still == UNCHANGED <<left, timer, workers, bound, crashes>>

-----------------------------------------------------------------------------
(* The steps of the run.                                                   *)

\* The derived HOLD, over a read of cgroup.events.
Derive(events, held) ==
  IF events = None THEN "HoldRead"
  ELSE IF events.populated THEN "HoldPopulated"
  ELSE IF events.frozen THEN "HoldFrozen"
  ELSE IF held THEN "HoldStanding" ELSE None

\* serve's derivation at start; a leaf that cannot be opened ends the run.
DeriveHold ==
  /\ pc = "serve" /\ leaf' = leaf /\ Still
  /\ \/ HoldsCapacity("HoldRead")
     \/ \E events \in Reads :
          /\ pc' = "startup" /\ standing' = Derive(events, FALSE)
          /\ UNCHANGED <<child, entry, kept, outcome>>

\* Steps 1 and 2: the standing HOLD, the gate's qualification.
Startup ==
  /\ pc = "startup" /\ leaf' = leaf /\ Still
  /\ IF standing # None THEN HoldsCapacity(standing)
     ELSE Goto("w5") \/ Ends("Unavailable", None)

\* Step 3: the script is opened, measured and compared, the pair made.
W5 ==
  /\ pc = "w5" /\ leaf' = leaf /\ Still
  /\ Goto("hold") \/ \E step \in W5Steps : Ends("NotSpawned", step)

DeriveBeforeW1 ==
  /\ pc = "hold" /\ leaf' = leaf /\ Still
  /\ \E events \in Reads :
       LET step == Derive(events, standing # None)
       IN IF step = None THEN Goto("w1read") ELSE HoldsCapacity(step)

\* Step 4, W1: an empty domain leaf, frozen.
W1Read ==
  /\ pc = "w1read" /\ leaf' = leaf /\ Still
  /\ \/ Ends("NotSpawned", "W1Read")
     \/ \E domain \in BOOLEAN :
          IF ~domain \/ Events(leaf).populated
            THEN Ends("NotSpawned", "W1NotEmpty") ELSE Goto("w1freeze")

W1Freeze ==
  /\ pc = "w1freeze" /\ UNCHANGED <<left, workers, bound, crashes>>
  /\ \E ok \in BOOLEAN :
       /\ Write("Freeze", ok)
       /\ IF ok THEN Goto("w1wait") /\ timer' = FreezeWait
          ELSE FailW1("W1Freeze") /\ UNCHANGED timer

W1Wait ==
  /\ pc = "w1wait" /\ leaf' = leaf /\ Still
  /\ \/ timer # -1 /\ FailW1("W1Read")
     \/ timer # -1 /\ Events(leaf).frozen /\ Goto("w2")
     \/ timer <= 0 /\ (Events(leaf).frozen => timer = -1) /\ FailW1("W1NotFrozen")

\* W1's failure path thaws only after it has read the leaf empty again.
W1Fail ==
  /\ pc = "w1fail" /\ leaf' = leaf /\ Still
  /\ \E events \in Reads :
       IF events # None /\ ~events.populated THEN Goto("w1thaw")
       ELSE HoldsCapacity("W1NotEmptyOnReread")

W1Thaw ==
  /\ pc = "w1thaw" /\ Still
  /\ \E ok \in BOOLEAN :
       /\ Write("Thaw", ok)
       /\ IF ok THEN Ends("NotSpawned", entry) ELSE HoldsCapacity("W1FailThaw")

\* Step 5, W2: clone3 into the leaf.  A failed plan or spawn leaves no child.
W2 ==
  /\ pc = "w2" /\ UNCHANGED <<left, timer, bound, crashes>>
  /\ \/ EnterW6("W2Spawn") /\ UNCHANGED <<leaf, workers>>
     \/ \E p \in In(leaf, "unused") :
          /\ leaf' = [leaf EXCEPT !.procs[p] = IF leaf.freeze THEN "stopped" ELSE "running",
                                  !.frozen = FALSE]
          /\ child' = p /\ workers' = workers \cup {p}
          /\ \/ pc' = "w3" /\ UNCHANGED entry
             \/ pc' = "w6freeze" /\ entry' = "W2MaskRestore"
          /\ UNCHANGED <<standing, kept, outcome>>

\* Step 6, W3: the frozen child's membership, credentials, label, identity
\* and descriptors.
W3 ==
  /\ pc = "w3" /\ leaf' = leaf /\ Still
  /\ Goto("bind") \/ \E step \in W3Steps : EnterW6(step)

\* Mutant: any accepted ticket will do.
BindAny ==
  /\ pc = "bind" /\ leaf' = leaf /\ UNCHANGED <<left, timer, workers, crashes>>
  /\ \/ EnterW6("Unavailable") /\ UNCHANGED bound
     \/ \E pid \in Pids, ticks \in BOOLEAN :
          Goto("w4") /\ bound' = IF pid = child /\ ticks THEN bound \cup {child} ELSE bound

\* Step 7: a ticket for this child's pid and start ticks (`ticks'), another, or none.
Bind ==
  /\ pc = "bind" /\ leaf' = leaf /\ UNCHANGED <<left, timer, workers, crashes>>
  /\ \/ EnterW6("Unavailable") /\ UNCHANGED bound
     \/ \E pid \in Pids, ticks \in BOOLEAN :
          IF pid = child /\ ticks
            THEN Goto("w4") /\ bound' = bound \cup {child}
            ELSE EnterW6("Bind") /\ UNCHANGED bound

\* Step 8, W4: the thaw.
W4 ==
  /\ pc = "w4" /\ Still
  /\ \E ok \in BOOLEAN : Write("Thaw", ok) /\ IF ok THEN Goto("np9") ELSE EnterW6("W4Thaw")

\* Mutant: the bracket needs only its own hold.
Np9BeginTight ==
  /\ pc = "np9" /\ UNCHANGED <<left, workers, bound, crashes>>
  /\ IF left < Hold THEN Goto("window") /\ UNCHANGED <<leaf, timer>>
     ELSE Write("Freeze", TRUE) /\ Goto("np9wait") /\ timer' = FreezeWait

\* NP-9's bracket: not when too little time remains.
Np9Begin ==
  /\ pc = "np9" /\ UNCHANGED <<left, workers, bound, crashes>>
  /\ IF left < Hold + Reserve THEN Goto("window") /\ UNCHANGED <<leaf, timer>>
     ELSE \E ok \in BOOLEAN :
            /\ Write("Freeze", ok)
            /\ IF ok THEN Goto("np9wait") /\ timer' = FreezeWait
               ELSE EnterW6("Np9Freeze") /\ UNCHANGED timer

Np9Wait ==
  /\ pc = "np9wait" /\ leaf' = leaf /\ UNCHANGED <<left, workers, bound, crashes>>
  /\ \/ timer # -1 /\ EnterW6("Np9Events") /\ UNCHANGED timer
     \/ timer # -1 /\ Events(leaf).frozen /\ Goto("np9hold") /\ timer' = Hold
     \/ /\ timer <= 0 /\ (Events(leaf).frozen => timer = -1)
        /\ Goto("np9skip") /\ UNCHANGED timer

Np9Skip ==
  /\ pc = "np9skip" /\ Still
  /\ \E ok \in BOOLEAN : Write("Thaw", ok) /\ IF ok THEN Goto("window") ELSE EnterW6("Np9Thaw")

\* The deadline inside the bracket goes to W6 with no thaw.
Np9Hold ==
  /\ pc = "np9hold" /\ Still
  /\ \/ left <= 0 /\ leaf' = leaf /\ EnterW6("Deadline")
     \/ /\ left > 0 /\ timer <= 0
        /\ \E ok \in BOOLEAN : Write("Thaw", ok) /\ IF ok THEN Goto("window") ELSE EnterW6("Np9Thaw")

Reaped == leaf' = [leaf EXCEPT !.procs[child] = "gone"]

\* The window until the worker's own end or the deadline.
Window ==
  /\ pc = "window" /\ Still
  /\ \/ left <= 0 /\ leaf' = leaf /\ EnterW6("Deadline")
     \/ left # -1 /\ leaf.procs[child] = "zombie" /\ Reaped /\ EnterW6("WorkerEnd")

\* W6: freeze, then kill; a failed write never ends the sequence.
W6Freeze ==
  /\ pc = "w6freeze" /\ UNCHANGED <<left, workers, bound, crashes>>
  /\ timer' = W6Bound
  /\ \E ok \in BOOLEAN : Write("Freeze", ok)
  /\ Goto("w6kill")

W6Kill ==
  /\ pc = "w6kill" /\ Still
  /\ \E ok \in BOOLEAN : Write("Kill", ok)
  /\ Goto("w6empty")

\* Mutant: the leaf counts as empty once the child is a zombie.
W6EmptyOfChild ==
  /\ pc = "w6empty" /\ leaf' = leaf /\ Still
  /\ \/ timer <= 0 /\ Holds("W6NotEmpty")
     \/ timer # -1 /\ child \notin Live(leaf) /\ Goto("w6reap")

\* Mutant: the wait for the empty leaf has no bound.
W6EmptyUnbounded ==
  /\ pc = "w6empty" /\ leaf' = leaf /\ Still
  /\ ~Events(leaf).populated /\ Goto("w6reap")

\* A read that fails does not show the leaf empty.
W6Empty ==
  /\ pc = "w6empty" /\ leaf' = leaf /\ Still
  /\ \/ timer <= 0 /\ Holds("W6NotEmpty")
     \/ timer # -1 /\ ~Events(leaf).populated /\ Goto("w6reap")

\* The reap shares the bound of the wait before it.
W6Reap ==
  /\ pc = "w6reap" /\ Still
  /\ IF child = None \/ leaf.procs[child] = "gone" THEN leaf' = leaf /\ Goto("w6release")
     ELSE \/ timer <= 0 /\ leaf' = leaf /\ Holds("W6Reap")
          \/ timer # -1 /\ leaf.procs[child] = "zombie" /\ Reaped /\ Goto("w6release")

\* The release, and the outcome by why W6 was entered.
AfterW6 ==
  /\ pc = "w6release" /\ Still
  /\ \E ok \in BOOLEAN :
       /\ Write("Thaw", ok)
       /\ IF ~ok THEN Holds("W6Release")
          ELSE IF entry \in Step THEN Ends("Cleaned", entry)
          ELSE IF entry = "Unavailable" THEN Ends("Unavailable", None)
          ELSE IF child # None THEN Ends("Ended", None) ELSE Holds("W6Reap")

Broker ==
  \/ DeriveHold \/ Startup \/ W5 \/ DeriveBeforeW1
  \/ W1Read \/ W1Freeze \/ W1Wait \/ W1Fail \/ W1Thaw
  \/ W2 \/ W3 \/ Bind \/ W4
  \/ Np9Begin \/ Np9Wait \/ Np9Skip \/ Np9Hold \/ Window
  \/ W6Freeze \/ W6Kill \/ W6Empty \/ W6Reap \/ AfterW6

\* The run sleeps in its polls, until the next check or the nearest bound.
Sleeping ==
  \/ pc \in {"w1wait", "np9wait", "w6empty", "w6reap"} /\ timer > 0
  \/ pc = "np9hold" /\ timer > 0 /\ left > 0
  \/ pc = "window" /\ left > 0

Passed(t) == IF t = -1 THEN t ELSE t - 1

Tick ==
  /\ pc # "done" /\ (prompt => Sleeping)
  /\ left' = Passed(left) /\ timer' = Passed(timer)
  /\ <<left, timer>> # <<left', timer'>>
  /\ UNCHANGED <<leaf, run, workers, bound, crashes>>

\* The process ends and starts again: its standing state and its children are
\* lost, a zombie is reaped by the system, and the leaf stays as it is.
Crash ==
  /\ crashes < MaxCrashes /\ crashes' = crashes + 1
  /\ pc' = "serve" /\ child' = None /\ entry' = None /\ standing' = None
  /\ kept' = {} /\ outcome' = None
  /\ left' = Deadline /\ timer' = 0
  /\ leaf' = Moved(leaf, {"zombie"}, "gone")
  /\ UNCHANGED <<workers, bound>>

Init ==
  /\ leaf = [freeze |-> FALSE, frozen |-> FALSE, procs |-> [p \in Pids |-> "unused"]]
  /\ pc = "serve" /\ child = None /\ entry = None /\ standing = None
  /\ kept = {} /\ outcome = None
  /\ left = Deadline /\ timer = 0
  /\ workers = {} /\ bound = {} /\ crashes = 0 /\ prompt \in BOOLEAN

Next == (Kernel \/ Broker \/ Tick \/ Crash) /\ UNCHANGED prompt

Spec == Init /\ [][Next]_vars

\* The broker runs and time passes; nothing is asked of the kernel.
FairSpec == Spec /\ WF_vars(Broker /\ UNCHANGED prompt) /\ WF_vars(Tick /\ UNCHANGED prompt)

-----------------------------------------------------------------------------
(* Properties.                                                             *)

Pc == {"serve", "startup", "w5", "hold", "w1read", "w1freeze", "w1wait", "w1fail", "w1thaw",
       "w2", "w3", "bind", "w4", "np9", "np9wait", "np9skip", "np9hold", "window",
       "w6freeze", "w6kill", "w6empty", "w6reap", "w6release", "done"}

\* Types, and that a run is done exactly when it has an outcome.
TypeOK ==
  /\ leaf \in Leaf /\ pc \in Pc
  /\ child \in Pids \cup {None}
  /\ entry \in Step \cup {None, "Unavailable", "WorkerEnd", "Deadline"}
  /\ standing \in Step \cup {None} /\ kept \subseteq Pids
  /\ outcome \in Outcome \cup {None} /\ (pc = "done" <=> outcome # None)
  /\ left \in -1..Deadline /\ timer \in Int
  /\ workers \subseteq Pids /\ bound \subseteq workers /\ crashes \in 0..MaxCrashes

\* G-HE5C-5 across restarts: a spawned worker executes only after the gate
\* accepted the BIND of that very process; neither a failure path nor a
\* later broker's run ever thaws one that was not bound.
OnlyBoundRuns == \A p \in workers : leaf.procs[p] = "running" => p \in bound

\* Every outcome but the two holds leaves the leaf empty and thawed, and a run
\* that ends with its child unreaped keeps it and holds.
NothingLeftBehind ==
  outcome # None =>
    /\ outcome.kind \notin {"CapacityHeld", "Held"} => Live(leaf) = {} /\ ~leaf.freeze
    /\ child # None /\ leaf.procs[child] # "gone" => child \in kept /\ standing # None

\* Over every restart, failed step and fork, the leaf runs only bound workers
\* while a run lasts and nothing after it.  (run.rs startup, w6.rs sequence)
LeafContained == OnlyBoundRuns /\ NothingLeftBehind

\* np9.rs: "a bracket never leaves W6 without its whole bound before the
\* deadline", when time passes in the broker's sleeps only.
BracketLeavesW6 == [][prompt /\ pc = "np9hold" /\ pc' = "window" => left >= W6Bound]_vars

\* Every wait is bounded: the run ends, whatever the kernel and the worker do.
RunEnds == <>[](outcome # None)
=============================================================================
