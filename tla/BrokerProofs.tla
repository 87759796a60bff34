---------------------------- MODULE BrokerProofs ----------------------------
(***************************************************************************)
(* Why a worker runs only after the gate bound it and why nothing but a    *)
(* hold leaves a process in the leaf, for any number of processes, forks,  *)
(* failed steps and broker restarts; and why the broker's client and the   *)
(* gate stay in lockstep, whatever is lost, delayed or replayed between    *)
(* them.                                                                   *)
(***************************************************************************)
EXTENDS BrokerLifecycle, GateClient, TLAPS

\* The steps before a child is spawned.
Unspawned == {"serve", "startup", "w5", "hold", "w1read", "w1freeze", "w1wait", "w1fail", "w1thaw", "w2"}

\* The steps at which the leaf was read empty and thawed, or is known to be empty.
Thawed == {"w5", "hold", "w1read", "w1freeze"}
Emptied == {"w1wait", "w1thaw", "w2", "w6reap", "w6release"}

\* The steps between the bind and W6.
Released == {"w4", "np9", "np9wait", "np9skip", "np9hold", "window"}

\* What the run knows of the leaf at each of its steps.
LeafAt ==
  /\ pc \in Unspawned => child = None
  /\ pc \in {"w1fail", "w1thaw"} => entry \in Step
  /\ pc \in Thawed \/ (pc = "startup" /\ standing = None) => Live(leaf) = {} /\ ~leaf.freeze
  /\ pc \in Emptied => Live(leaf) = {}
  /\ pc \in {"w1wait", "w2"} => leaf.freeze
  /\ pc \in {"w3", "bind"} => /\ child \in workers /\ leaf.procs[child] = "stopped"
                              /\ Live(leaf) \subseteq {child}
  /\ pc \in Released => child \in Pids /\ workers \cap Live(leaf) \subseteq bound
  /\ pc = "w6release" => child = None \/ leaf.procs[child] = "gone"

\* An empty leaf that is to be frozen shows it, and a spawned process stays known.
LeafKnown ==
  /\ leaf.freeze /\ Live(leaf) = {} => leaf.frozen
  /\ \A p \in workers : leaf.procs[p] # "unused"

\* Where the bracket still has its whole bound before the deadline.
Bracketed ==
  prompt =>
    /\ pc = "np9wait" => timer >= 0 /\ left >= Hold + W6Bound + timer
    /\ pc = "np9hold" => timer >= 0 /\ left >= W6Bound + timer

\* The inductive invariant.
BrokerInv == TypeOK /\ LeafKnown /\ LeafAt /\ LeafContained /\ Bracketed

-----------------------------------------------------------------------------
(* What the kernel and a write make of the leaf.                           *)

\* Leaf m came of l with no process started by the broker or let go by a thaw.
Drifted(l, m) ==
  /\ m \in Leaf /\ m.freeze = l.freeze
  /\ Live(m) = {} /\ m.freeze => m.frozen
  /\ In(l, "running") = {} => Live(m) \subseteq Live(l)
  /\ \A p \in Pids :
       /\ l.procs[p] \in {"gone", "stopped"} => m.procs[p] = l.procs[p]
       /\ m.procs[p] = "running" => l.procs[p] \in {"running", "unused"}
       /\ p \in Live(m) => p \in Live(l) \/ l.procs[p] = "unused"
       /\ m.procs[p] = "unused" => l.procs[p] = "unused"

\* What a step of the kernel may do to the leaf: stop, exit, fork, or settle its freeze.
LEMMA KernelDrifts ==
  ASSUME leaf \in Leaf, LeafKnown, Kernel
  PROVE  Drifted(leaf, leaf')
<1>1. CASE \E p \in Pids : Stop(p)
  <2>1. PICK p \in Pids : Stop(p)
    BY <1>1
  <2> QED
    BY <2>1 DEF Stop, Drifted, Leaf, Live, In, ProcState
<1>2. CASE \E p \in Pids : Die(p)
  <2>1. PICK p \in Pids : Die(p)
    BY <1>2
  <2>2. PICK s \in {"zombie", "gone"} : leaf' = Shown([leaf EXCEPT !.procs[p] = s])
    BY <2>1 DEF Die
  <2>3. PICK m : m = [leaf EXCEPT !.procs[p] = s]
    OBVIOUS
  <2>4. /\ m \in Leaf /\ m.freeze = leaf.freeze /\ m.procs[p] = s
        /\ \A q \in Pids : q # p => m.procs[q] = leaf.procs[q]
    BY <2>2, <2>3 DEF Leaf, ProcState
  <2>5. /\ leaf' \in Leaf /\ leaf'.procs = m.procs /\ leaf'.freeze = m.freeze
        /\ m.freeze /\ Live(m) = {} => leaf'.frozen
    BY <2>2, <2>3, <2>4 DEF Shown, Leaf
  <2>6. leaf.procs[p] \in {"running", "dying"}
    BY <2>1 DEF Die, In
  <2>7. Live(leaf') = Live(m)
    BY <2>5 DEF Live, In
  <2> QED
    BY <2>2, <2>4, <2>5, <2>6, <2>7 DEF Drifted, Live, In
<1>3. CASE \E p \in Pids, q \in Pids : Fork(p, q)
  <2>1. PICK p \in Pids, q \in Pids : Fork(p, q)
    BY <1>3
  <2> QED
    BY <2>1 DEF Fork, Drifted, Leaf, Live, In, ProcState
<1>4. CASE Settle
  BY <1>4 DEF Settle, Drifted, Leaf, Live, In
<1> QED
  BY <1>1, <1>2, <1>3, <1>4 DEF Kernel

\* A freeze, whether it took effect or not, moves no process.
LEMMA FreezeShape ==
  ASSUME leaf \in Leaf, LeafKnown, NEW ok \in BOOLEAN, Write("Freeze", ok)
  PROVE  /\ leaf' \in Leaf /\ leaf'.procs = leaf.procs /\ Live(leaf') = Live(leaf)
         /\ leaf'.freeze /\ Live(leaf') = {} => leaf'.frozen
         /\ ok => leaf'.freeze
<1>1. CASE leaf' = leaf /\ ~ok
  BY <1>1 DEF LeafKnown
<1>2. CASE leaf' = Shown([leaf EXCEPT !.freeze = TRUE])
  <2>1. PICK m : m = [leaf EXCEPT !.freeze = TRUE]
    OBVIOUS
  <2>2. m \in Leaf /\ m.freeze /\ m.procs = leaf.procs
    BY <2>1 DEF Leaf
  <2>3. /\ leaf' \in Leaf /\ leaf'.procs = m.procs /\ leaf'.freeze = m.freeze
        /\ m.freeze /\ Live(m) = {} => leaf'.frozen
    BY <1>2, <2>1, <2>2 DEF Shown, Leaf
  <2> QED
    BY <2>2, <2>3 DEF Live, In
<1> QED
  BY <1>1, <1>2 DEF Write, Written

\* A kill sends the live to their end.
LEMMA KillShape ==
  ASSUME leaf \in Leaf, LeafKnown, NEW ok \in BOOLEAN, Write("Kill", ok)
  PROVE  /\ leaf' \in Leaf /\ Live(leaf') = Live(leaf)
         /\ leaf'.freeze /\ Live(leaf') = {} => leaf'.frozen
         /\ \A p \in Pids : leaf'.procs[p] = leaf.procs[p] \/ (p \in Live(leaf) /\ leaf'.procs[p] = "dying")
<1>1. CASE leaf' = leaf
  BY <1>1 DEF LeafKnown
<1>2. CASE leaf' = Moved(leaf, {"stopped", "running"}, "dying")
  <2>1. PICK f : f = [p \in Pids |-> IF leaf.procs[p] \in {"stopped", "running"} THEN "dying" ELSE leaf.procs[p]]
    OBVIOUS
  <2>2. f \in [Pids -> ProcState]
    BY <2>1 DEF Leaf, ProcState
  <2>3. leaf' \in Leaf /\ leaf'.procs = f /\ leaf'.freeze = leaf.freeze /\ leaf'.frozen = leaf.frozen
    BY <1>2, <2>1, <2>2 DEF Moved, Leaf
  <2>4. Live(leaf') = Live(leaf)
    BY <2>1, <2>3 DEF Live, In
  <2> QED
    BY <2>1, <2>3, <2>4 DEF LeafKnown, Live, In
<1> QED
  BY <1>1, <1>2 DEF Write, Written

\* A thaw lets the stopped run.
LEMMA ThawShape ==
  ASSUME leaf \in Leaf, LeafKnown, NEW ok \in BOOLEAN, Write("Thaw", ok)
  PROVE  /\ leaf' \in Leaf /\ Live(leaf') = Live(leaf)
         /\ leaf'.freeze /\ Live(leaf') = {} => leaf'.frozen
         /\ ok => ~leaf'.freeze
         /\ \A p \in Pids : leaf'.procs[p] = leaf.procs[p] \/ (leaf.procs[p] = "stopped" /\ leaf'.procs[p] = "running")
<1>1. CASE leaf' = leaf /\ ~ok
  BY <1>1 DEF LeafKnown
<1>2. CASE leaf' = Moved([leaf EXCEPT !.freeze = FALSE, !.frozen = FALSE], {"stopped"}, "running")
  <2>1. PICK m : m = [leaf EXCEPT !.freeze = FALSE, !.frozen = FALSE]
    OBVIOUS
  <2>2. m \in Leaf /\ ~m.freeze /\ m.procs = leaf.procs
    BY <2>1 DEF Leaf
  <2>3. PICK f : f = [p \in Pids |-> IF leaf.procs[p] \in {"stopped"} THEN "running" ELSE leaf.procs[p]]
    OBVIOUS
  <2>4. f \in [Pids -> ProcState]
    BY <2>3 DEF Leaf, ProcState
  <2>5. leaf' \in Leaf /\ leaf'.procs = f /\ leaf'.freeze = m.freeze
    BY <1>2, <2>1, <2>2, <2>3, <2>4 DEF Moved, Leaf
  <2>6. Live(leaf') = Live(leaf)
    BY <2>3, <2>5 DEF Live, In
  <2> QED
    BY <2>2, <2>3, <2>5, <2>6
<1> QED
  BY <1>1, <1>2 DEF Write, Written

-----------------------------------------------------------------------------
(* The steps keep the invariant.                                           *)

\* What the kernel and the worker do on their own.
LEMMA KernelKeeps ==
  ASSUME BrokerInv, Kernel, prompt' = prompt
  PROVE  BrokerInv'
<1> USE DEF BrokerInv
<1>1. Drifted(leaf, leaf') /\ UNCHANGED <<pc, child, entry, standing, kept, outcome, left, timer, workers, bound, crashes>>
  BY KernelDrifts DEF TypeOK, Kernel, run
<1>2. TypeOK' /\ Bracketed'
  BY <1>1 DEF TypeOK, Drifted, Bracketed
<1>3. LeafKnown'
  BY <1>1 DEF LeafKnown, Drifted, TypeOK
<1>4. Live(leaf) = {} => Live(leaf') = {}
  BY <1>1 DEF Drifted, Live, In
<1>5. LeafAt'
  <2>1. ASSUME pc \in {"w3", "bind"}
        PROVE  leaf'.procs[child] = "stopped" /\ Live(leaf') \subseteq {child}
    <3>1. In(leaf, "running") = {}
      BY <2>1 DEF LeafAt, Live, In
    <3> QED
      BY <1>1, <2>1, <3>1 DEF LeafAt, Drifted, TypeOK
  <2>2. ASSUME pc \in Released
        PROVE  workers \cap Live(leaf') \subseteq bound
    BY <1>1, <2>2 DEF LeafAt, Drifted, LeafKnown, TypeOK
  <2>3. pc = "w6release" => child = None \/ leaf'.procs[child] = "gone"
    BY <1>1 DEF LeafAt, Drifted, TypeOK
  <2>4. leaf'.freeze = leaf.freeze
    BY <1>1 DEF Drifted
  <2> QED
    BY <1>1, <1>4, <2>1, <2>2, <2>3, <2>4 DEF LeafAt
<1>6. OnlyBoundRuns'
  BY <1>1 DEF LeafContained, OnlyBoundRuns, Drifted, LeafKnown, TypeOK
<1>7. NothingLeftBehind'
  BY <1>1, <1>4 DEF LeafContained, NothingLeftBehind, Drifted, TypeOK
<1> QED
  BY <1>2, <1>3, <1>5, <1>6, <1>7 DEF LeafContained

\* Time passes.
LEMMA TickKeeps ==
  ASSUME BrokerInv, Tick, prompt' = prompt
  PROVE  BrokerInv'
<1> USE DEF BrokerInv
<1>1. UNCHANGED <<leaf, pc, child, entry, standing, kept, outcome, workers, bound, crashes>>
  BY DEF Tick, run
<1>2. left' \in -1 .. Deadline /\ timer' \in Int /\ left \in -1 .. Deadline /\ timer \in Int
  BY TimeAssumption DEF TypeOK, Tick, Passed
<1>3. TypeOK'
  BY <1>1, <1>2 DEF TypeOK
<1>4. Bracketed'
  <2>1. ASSUME prompt, pc \in {"np9wait", "np9hold"}
        PROVE  timer > 0
    BY <2>1 DEF Tick, Sleeping
  <2> QED
    BY <1>1, <1>2, <2>1, TimeAssumption DEF Bracketed, Tick, Passed
<1>5. LeafKnown' /\ LeafAt' /\ LeafContained'
  BY <1>1 DEF LeafKnown, LeafAt, LeafContained, OnlyBoundRuns, NothingLeftBehind
<1> QED
  BY <1>3, <1>4, <1>5

\* The broker starts again over the leaf as it was left.
LEMMA CrashKeeps ==
  ASSUME BrokerInv, Crash, prompt' = prompt
  PROVE  BrokerInv'
<1> USE DEF BrokerInv
<1>1. /\ pc' = "serve" /\ child' = None /\ entry' = None /\ standing' = None /\ kept' = {} /\ outcome' = None
      /\ left' = Deadline /\ timer' = 0 /\ UNCHANGED <<workers, bound>> /\ crashes' = crashes + 1 /\ crashes < MaxCrashes
  BY DEF Crash
<1>2. PICK f : f = [p \in Pids |-> IF leaf.procs[p] \in {"zombie"} THEN "gone" ELSE leaf.procs[p]]
  OBVIOUS
<1>3. f \in [Pids -> ProcState]
  BY <1>2 DEF TypeOK, Leaf, ProcState
<1>4. leaf' \in Leaf /\ leaf'.procs = f /\ leaf'.freeze = leaf.freeze /\ leaf'.frozen = leaf.frozen
  BY <1>2, <1>3 DEF Crash, Moved, TypeOK, Leaf
<1>5. Live(leaf') = Live(leaf)
  BY <1>2, <1>4 DEF Live, In
<1>6. TypeOK'
  BY <1>1, <1>4, TimeAssumption, BrokerAssumption DEF TypeOK, Pc
<1>7. LeafKnown' /\ OnlyBoundRuns'
  BY <1>1, <1>2, <1>4, <1>5 DEF LeafKnown, LeafContained, OnlyBoundRuns, TypeOK
<1> QED
  BY <1>1, <1>6, <1>7 DEF LeafAt, LeafContained, NothingLeftBehind, Bracketed, Unspawned, Thawed, Emptied, Released

\* What a step of the run may leave of a leaf it only looked at: at its next
\* step it knows no more than it read.
LEMMA LookKeeps ==
  ASSUME BrokerInv, leaf' = leaf, prompt' = prompt, TypeOK', LeafAt', Bracketed', NothingLeftBehind',
         UNCHANGED workers, bound \subseteq bound'
  PROVE  BrokerInv'
  BY DEF BrokerInv, LeafKnown, LeafContained, OnlyBoundRuns

\* How a run that has no child ends.
LEMMA EndsBefore ==
  ASSUME BrokerInv, leaf' = leaf, prompt' = prompt, Still, pc \in Unspawned, NEW step \in Step,
         HoldsCapacity(step)
  PROVE  BrokerInv'
<1> USE DEF BrokerInv
<1>1. /\ pc' = "done" /\ outcome' = [kind |-> "CapacityHeld", step |-> step] /\ standing' \in Step
      /\ UNCHANGED <<child, entry, kept, left, timer, workers, bound, crashes>>
  BY DEF HoldsCapacity, Finish, HoldBy, Still, TypeOK
<1>2. outcome' \in Outcome /\ outcome' # None /\ outcome'.kind = "CapacityHeld"
  BY <1>1, NoneAssumption DEF Outcome, Kinds
<1>3. TypeOK'
  BY <1>1, <1>2 DEF TypeOK, Pc
<1>4. child' = None
  BY <1>1 DEF LeafAt
<1>5. NothingLeftBehind'
  BY <1>2, <1>4 DEF NothingLeftBehind
<1> QED
  BY <1>1, <1>3, <1>5, LookKeeps DEF LeafAt, Bracketed, Unspawned, Thawed, Emptied, Released

\* A run that ends without a hold leaves the leaf empty and thawed.
LEMMA EndsClean ==
  ASSUME BrokerInv, prompt' = prompt, Still, NEW kind \in Kinds, NEW step \in Step \cup {None},
         Ends(kind, step), leaf' \in Leaf, LeafKnown', OnlyBoundRuns', Live(leaf') = {}, ~leaf'.freeze,
         child = None \/ leaf'.procs[child] = "gone"
  PROVE  BrokerInv'
<1> USE DEF BrokerInv
<1>1. /\ pc' = "done" /\ outcome' = [kind |-> kind, step |-> step]
      /\ UNCHANGED <<child, entry, standing, kept, left, timer, workers, bound, crashes>>
  BY DEF Ends, Finish, Still
<1>2. outcome' \in Outcome /\ outcome' # None
  BY <1>1, NoneAssumption DEF Outcome
<1>3. TypeOK'
  BY <1>1, <1>2 DEF TypeOK, Pc
<1>4. NothingLeftBehind'
  BY <1>1 DEF NothingLeftBehind
<1> QED
  BY <1>1, <1>3, <1>4 DEF LeafContained, LeafAt, Bracketed, Unspawned, Thawed, Emptied, Released

\* The steps up to the frozen leaf.
LEMMA EarlyKeeps ==
  ASSUME BrokerInv, prompt' = prompt, DeriveHold \/ Startup \/ W5 \/ DeriveBeforeW1 \/ W1Read \/ W1Wait \/ W1Fail
  PROVE  BrokerInv'
<1> USE DEF BrokerInv
<1>1. leaf' = leaf /\ Still /\ UNCHANGED <<left, timer, workers, bound, crashes>> /\ pc # "done" /\ outcome = None
  BY DEF DeriveHold, Startup, W5, DeriveBeforeW1, W1Read, W1Wait, W1Fail, Still, TypeOK
<1>2. pc \in Unspawned /\ child = None
  BY DEF DeriveHold, Startup, W5, DeriveBeforeW1, W1Read, W1Wait, W1Fail, Unspawned, LeafAt
<1>3. ASSUME NEW step \in Step, HoldsCapacity(step) PROVE BrokerInv'
  BY <1>1, <1>2, <1>3, EndsBefore
<1>4. ASSUME NEW kind \in Kinds, NEW step \in Step \cup {None}, Ends(kind, step), Live(leaf) = {}, ~leaf.freeze
      PROVE BrokerInv'
  <2>1. leaf' \in Leaf /\ LeafKnown' /\ OnlyBoundRuns' /\ Live(leaf') = {} /\ ~leaf'.freeze
    BY <1>1, <1>4 DEF TypeOK, LeafKnown, LeafContained, OnlyBoundRuns
  <2> QED
    BY <1>1, <1>2, <1>4, <2>1, EndsClean
<1>5. ASSUME NEW step \in Pc \ {"done"}, Goto(step), LeafAt', step \notin {"np9wait", "np9hold"} PROVE BrokerInv'
  <2>1. TypeOK' /\ Bracketed' /\ NothingLeftBehind'
    BY <1>1, <1>5 DEF TypeOK, Goto, Bracketed, NothingLeftBehind
  <2> QED
    BY <1>1, <1>5, <2>1, LookKeeps
<1>6. ASSUME NEW step \in Step, FailW1(step) PROVE BrokerInv'
  <2>1. TypeOK' /\ Bracketed' /\ NothingLeftBehind'
    BY <1>1, <1>6 DEF TypeOK, FailW1, Bracketed, NothingLeftBehind, Pc
  <2>2. LeafAt'
    BY <1>2, <1>6 DEF FailW1, LeafAt, Thawed, Emptied, Released
  <2> QED
    BY <1>1, <2>1, <2>2, LookKeeps
<1>7. ASSUME NEW events \in Reads, NEW held, Derive(events, held) = None
      PROVE  Live(leaf) = {} /\ ~leaf.freeze
  <2>1. events = Events(leaf) /\ ~events.populated /\ ~events.frozen
    BY <1>7, NoneAssumption DEF Reads, Derive, Step
  <2> QED
    BY <2>1 DEF Events, LeafKnown
<1>8. \A events \in Reads, held \in BOOLEAN : Derive(events, held) \in Step \cup {None}
  BY DEF Derive, Step
<1>9. CASE DeriveHold
  <2>1. CASE HoldsCapacity("HoldRead")
    BY <1>3, <2>1 DEF Step
  <2>2. CASE \E events \in Reads :
               /\ pc' = "startup" /\ standing' = Derive(events, FALSE)
               /\ UNCHANGED <<child, entry, kept, outcome>>
    <3>1. PICK events \in Reads : /\ pc' = "startup" /\ standing' = Derive(events, FALSE)
                                  /\ UNCHANGED <<child, entry, kept, outcome>>
      BY <2>2
    <3>2. standing' \in Step \cup {None} /\ (standing' = None => Live(leaf) = {} /\ ~leaf.freeze)
      BY <1>7, <1>8, <3>1
    <3>3. TypeOK' /\ Bracketed' /\ NothingLeftBehind'
      BY <1>1, <3>1, <3>2 DEF TypeOK, Bracketed, NothingLeftBehind, Pc
    <3>4. LeafAt'
      BY <1>1, <1>2, <3>1, <3>2 DEF LeafAt, Thawed, Emptied, Released
    <3> QED
      BY <1>1, <3>3, <3>4, LookKeeps
  <2> QED
    BY <1>9, <2>1, <2>2 DEF DeriveHold
<1>10. CASE Startup
  <2>1. CASE standing # None
    BY <1>3, <1>10, <2>1 DEF Startup, TypeOK
  <2>2. CASE standing = None
    <3>1. Live(leaf) = {} /\ ~leaf.freeze
      BY <1>10, <2>2 DEF Startup, LeafAt
    <3>2. CASE Goto("w5")
      <4>1. LeafAt'
        BY <1>1, <1>2, <3>1, <3>2 DEF LeafAt, Goto, Emptied, Released
      <4> QED
        BY <1>5, <3>2, <4>1 DEF Pc
    <3> QED
      BY <1>4, <1>10, <2>2, <3>1, <3>2 DEF Startup, Kinds
  <2> QED
    BY <2>1, <2>2
<1>11. CASE W5
  <2>1. Live(leaf) = {} /\ ~leaf.freeze
    BY <1>11 DEF W5, LeafAt, Thawed
  <2>2. CASE Goto("hold")
    <3>1. LeafAt'
      BY <1>1, <1>2, <2>1, <2>2 DEF LeafAt, Goto, Emptied, Released
    <3> QED
      BY <1>5, <2>2, <3>1 DEF Pc
  <2>3. ASSUME NEW step \in W5Steps, Ends("NotSpawned", step) PROVE BrokerInv'
    BY <1>4, <2>1, <2>3 DEF W5Steps, Step, Kinds
  <2> QED
    BY <1>11, <2>2, <2>3 DEF W5
<1>12. CASE DeriveBeforeW1
  <2>1. Live(leaf) = {} /\ ~leaf.freeze
    BY <1>12 DEF DeriveBeforeW1, LeafAt, Thawed
  <2>2. PICK events \in Reads :
          LET step == Derive(events, standing # None)
          IN IF step = None THEN Goto("w1read") ELSE HoldsCapacity(step)
    BY <1>12 DEF DeriveBeforeW1
  <2>3. Derive(events, standing # None) \in Step \cup {None}
    BY <1>8
  <2>4. CASE Goto("w1read")
    <3>1. LeafAt'
      BY <1>1, <1>2, <2>1, <2>4 DEF LeafAt, Goto, Emptied, Released
    <3> QED
      BY <1>5, <2>4, <3>1 DEF Pc
  <2> QED
    BY <1>3, <2>2, <2>3, <2>4
<1>13. CASE W1Read
  <2>1. Live(leaf) = {} /\ ~leaf.freeze
    BY <1>13 DEF W1Read, LeafAt, Thawed
  <2>2. CASE Goto("w1freeze")
    <3>1. LeafAt'
      BY <1>1, <1>2, <2>1, <2>2 DEF LeafAt, Goto, Emptied, Released
    <3> QED
      BY <1>5, <2>2, <3>1 DEF Pc
  <2>3. Ends("NotSpawned", "W1Read") \/ Ends("NotSpawned", "W1NotEmpty") \/ Goto("w1freeze")
    BY <1>13 DEF W1Read
  <2> QED
    BY <1>4, <2>1, <2>2, <2>3 DEF Step, Kinds
<1>14. CASE W1Wait
  <2>1. Live(leaf) = {} /\ leaf.freeze
    BY <1>14 DEF W1Wait, LeafAt, Emptied
  <2>2. CASE Goto("w2")
    <3>1. LeafAt'
      BY <1>1, <1>2, <2>1, <2>2 DEF LeafAt, Goto, Thawed, Released
    <3> QED
      BY <1>5, <2>2, <3>1 DEF Pc
  <2> QED
    BY <1>6, <1>14, <2>2 DEF W1Wait, Step
<1>15. CASE W1Fail
  <2>1. CASE Goto("w1thaw") /\ Live(leaf) = {}
    <3>1. LeafAt'
      BY <1>1, <1>2, <1>15, <2>1 DEF LeafAt, Goto, W1Fail, Thawed, Released
    <3> QED
      BY <1>5, <2>1, <3>1 DEF Pc
  <2>2. PICK events \in Reads :
          IF events # None /\ ~events.populated THEN Goto("w1thaw") ELSE HoldsCapacity("W1NotEmptyOnReread")
    BY <1>15 DEF W1Fail
  <2>3. ASSUME events # None, ~events.populated
        PROVE  Live(leaf) = {}
    <3>1. events = Events(leaf)
      BY <2>3 DEF Reads
    <3> QED
      BY <2>3, <3>1 DEF Events
  <2>4. "W1NotEmptyOnReread" \in Step
    BY DEF Step
  <2> QED
    BY <1>3, <2>1, <2>2, <2>3, <2>4
<1> QED
  BY <1>9, <1>10, <1>11, <1>12, <1>13, <1>14, <1>15

\* The freeze and the thaw of W1.
LEMMA W1WritesKeep ==
  ASSUME BrokerInv, prompt' = prompt, W1Freeze \/ W1Thaw
  PROVE  BrokerInv'
<1> USE DEF BrokerInv
<1>1. leaf \in Leaf /\ child = None /\ Live(leaf) = {} /\ outcome = None
  BY DEF W1Freeze, W1Thaw, TypeOK, LeafAt, Unspawned, Thawed, Emptied
<1>2. CASE W1Freeze
  <2>1. PICK ok \in BOOLEAN :
          /\ Write("Freeze", ok)
          /\ IF ok THEN Goto("w1wait") /\ timer' = FreezeWait
             ELSE FailW1("W1Freeze") /\ UNCHANGED timer
    BY <1>2 DEF W1Freeze
  <2>2. /\ leaf' \in Leaf /\ leaf'.procs = leaf.procs /\ Live(leaf') = Live(leaf)
        /\ leaf'.freeze /\ Live(leaf') = {} => leaf'.frozen
        /\ ok => leaf'.freeze
    BY <1>1, <2>1, FreezeShape
  <2>3. /\ UNCHANGED <<left, workers, bound, crashes, child, standing, kept, outcome>>
        /\ \/ ok /\ pc' = "w1wait" /\ entry' = entry /\ timer' = FreezeWait
           \/ pc' = "w1fail" /\ entry' = "W1Freeze" /\ timer' = timer
    BY <1>2, <2>1 DEF W1Freeze, Goto, FailW1
  <2>4. TypeOK' /\ Bracketed'
    BY <1>1, <2>2, <2>3, TimeAssumption DEF TypeOK, Bracketed, Pc, Step
  <2>5. LeafKnown' /\ LeafContained'
    BY <1>1, <2>2, <2>3 DEF LeafKnown, LeafContained, OnlyBoundRuns, NothingLeftBehind
  <2>6. LeafAt'
    BY <1>1, <2>2, <2>3 DEF LeafAt, Thawed, Emptied, Released, Step
  <2> QED
    BY <2>4, <2>5, <2>6
<1>3. CASE W1Thaw
  <2>1. PICK ok \in BOOLEAN :
          Write("Thaw", ok) /\ IF ok THEN Ends("NotSpawned", entry) ELSE HoldsCapacity("W1FailThaw")
    BY <1>3 DEF W1Thaw
  <2>2. /\ leaf' \in Leaf /\ Live(leaf') = {}
        /\ leaf'.freeze /\ Live(leaf') = {} => leaf'.frozen
        /\ ok => ~leaf'.freeze
        /\ \A p \in Pids : leaf'.procs[p] = leaf.procs[p] \/ (leaf.procs[p] = "stopped" /\ leaf'.procs[p] = "running")
    BY <1>1, <2>1, ThawShape
  <2>3. \A p \in Pids : leaf'.procs[p] = leaf.procs[p]
    BY <1>1, <2>2 DEF Live, In
  <2>4. UNCHANGED <<left, timer, workers, bound, crashes>> /\ Still
    BY <1>3 DEF W1Thaw, Still
  <2>5. LeafKnown' /\ OnlyBoundRuns'
    BY <2>2, <2>3, <2>4 DEF LeafKnown, LeafContained, OnlyBoundRuns, TypeOK
  <2>6. CASE ok
    <3>1. entry \in Step \cup {None}
      BY <1>3 DEF W1Thaw, LeafAt
    <3> QED
      BY <1>1, <2>1, <2>2, <2>4, <2>5, <2>6, <3>1, EndsClean DEF Kinds
  <2>7. CASE ~ok
    <3>1. /\ pc' = "done" /\ outcome' = [kind |-> "CapacityHeld", step |-> "W1FailThaw"] /\ standing' \in Step
          /\ UNCHANGED <<child, entry, kept>>
      BY <2>1, <2>7 DEF HoldsCapacity, Finish, HoldBy, TypeOK, Step
    <3>2. outcome' \in Outcome /\ outcome' # None /\ outcome'.kind = "CapacityHeld"
      BY <3>1, NoneAssumption DEF Outcome, Kinds, Step
    <3>3. TypeOK'
      BY <2>2, <2>4, <3>1, <3>2 DEF TypeOK, Pc
    <3>4. NothingLeftBehind'
      BY <1>1, <3>1, <3>2 DEF NothingLeftBehind
    <3> QED
      BY <2>5, <3>1, <3>3, <3>4 DEF LeafContained, LeafAt, Bracketed, Unspawned, Thawed, Emptied, Released
  <2> QED
    BY <2>6, <2>7
<1> QED
  BY <1>2, <1>3

\* W6 is entered: the run knows nothing of the leaf but that only bound workers run.
LEMMA EntersW6 ==
  ASSUME BrokerInv, prompt' = prompt, pc # "done", EnterW6(entry'), UNCHANGED <<left, timer, crashes>>,
         entry' \in Step \cup {"Unavailable", "WorkerEnd", "Deadline"},
         leaf' \in Leaf, LeafKnown', OnlyBoundRuns', UNCHANGED <<workers, bound>>
  PROVE  BrokerInv'
<1>1. pc' = "w6freeze" /\ UNCHANGED <<child, standing, kept, outcome>>
  BY DEF EnterW6
<1>2. TypeOK'
  BY <1>1 DEF BrokerInv, TypeOK, Pc
<1> QED
  BY <1>1, <1>2 DEF BrokerInv, TypeOK, LeafAt, LeafContained, NothingLeftBehind, Bracketed,
                    Unspawned, Thawed, Emptied, Released

\* The spawn, the child's check and its bind.
LEMMA SpawnKeeps ==
  ASSUME BrokerInv, prompt' = prompt, W2 \/ W3 \/ Bind
  PROVE  BrokerInv'
<1> USE DEF BrokerInv
<1>1. leaf \in Leaf /\ pc # "done" /\ outcome = None /\ LeafKnown /\ OnlyBoundRuns
  BY DEF W2, W3, Bind, TypeOK, LeafContained
<1>2. ASSUME NEW why \in Step \cup {"Unavailable"}, EnterW6(why), leaf' = leaf,
             UNCHANGED <<left, timer, workers, bound, crashes>>
      PROVE  BrokerInv'
  <2>1. entry' = why /\ leaf' \in Leaf /\ LeafKnown' /\ OnlyBoundRuns'
    BY <1>1, <1>2 DEF EnterW6, LeafKnown, OnlyBoundRuns
  <2> QED
    BY <1>1, <1>2, <2>1, EntersW6
<1>3. CASE W2
  <2>1. CASE EnterW6("W2Spawn") /\ UNCHANGED <<leaf, workers>>
    BY <1>2, <1>3, <2>1 DEF W2, Step
  <2>2. CASE \E p \in In(leaf, "unused") :
          /\ leaf' = [leaf EXCEPT !.procs[p] = IF leaf.freeze THEN "stopped" ELSE "running",
                                  !.frozen = FALSE]
          /\ child' = p /\ workers' = workers \cup {p}
          /\ \/ pc' = "w3" /\ UNCHANGED entry
             \/ pc' = "w6freeze" /\ entry' = "W2MaskRestore"
          /\ UNCHANGED <<standing, kept, outcome>>
    <3>1. leaf.freeze /\ Live(leaf) = {}
      BY <1>3 DEF W2, LeafAt, Emptied
    <3>2. PICK p \in In(leaf, "unused") :
          /\ leaf' = [leaf EXCEPT !.procs[p] = "stopped", !.frozen = FALSE]
          /\ child' = p /\ workers' = workers \cup {p}
          /\ \/ pc' = "w3" /\ UNCHANGED entry
             \/ pc' = "w6freeze" /\ entry' = "W2MaskRestore"
          /\ UNCHANGED <<standing, kept, outcome>>
      BY <2>2, <3>1
    <3>3. /\ leaf' \in Leaf /\ p \in Pids /\ leaf'.procs[p] = "stopped" /\ leaf'.freeze = leaf.freeze
          /\ \A q \in Pids : q # p => leaf'.procs[q] = leaf.procs[q]
      BY <1>1, <3>2 DEF Leaf, In, ProcState
    <3>4. Live(leaf') = {p}
      BY <3>1, <3>3 DEF Live, In
    <3>5. UNCHANGED <<left, timer, bound, crashes>>
      BY <1>3 DEF W2
    <3>6. TypeOK'
      BY <1>1, <3>2, <3>3, <3>5 DEF TypeOK, Pc, Step
    <3>7. LeafKnown' /\ OnlyBoundRuns'
      BY <1>1, <3>2, <3>3, <3>4, <3>5 DEF LeafKnown, OnlyBoundRuns, TypeOK
    <3>8. LeafAt'
      BY <3>2, <3>3, <3>4 DEF LeafAt, Unspawned, Thawed, Emptied, Released
    <3> QED
      BY <1>1, <3>2, <3>6, <3>7, <3>8 DEF LeafContained, NothingLeftBehind, Bracketed
  <2> QED
    BY <1>3, <2>1, <2>2 DEF W2
<1>4. CASE W3
  <2>1. ASSUME NEW step \in W3Steps, EnterW6(step) PROVE BrokerInv'
    BY <1>2, <1>4, <2>1 DEF W3, Still, Step, W3Steps
  <2>2. CASE Goto("bind")
    <3>1. UNCHANGED <<leaf, left, timer, workers, bound, crashes, child, entry, standing, kept, outcome>> /\ pc' = "bind"
      BY <1>4, <2>2 DEF W3, Still, Goto
    <3>2. TypeOK' /\ Bracketed' /\ NothingLeftBehind'
      BY <1>1, <3>1 DEF TypeOK, Bracketed, NothingLeftBehind, Pc
    <3>3. LeafAt'
      BY <1>4, <3>1 DEF W3, LeafAt, Unspawned, Thawed, Emptied, Released
    <3> QED
      BY <3>1, <3>2, <3>3, LookKeeps
  <2> QED
    BY <1>4, <2>1, <2>2 DEF W3
<1>5. CASE Bind
  <2>1. ASSUME NEW why \in {"Unavailable", "Bind"}, EnterW6(why), UNCHANGED bound PROVE BrokerInv'
    BY <1>2, <1>5, <2>1 DEF Bind, Step
  <2>2. CASE Goto("w4") /\ bound' = bound \cup {child}
    <3>1. /\ UNCHANGED <<leaf, left, timer, workers, crashes, child, entry, standing, kept, outcome>>
          /\ pc' = "w4" /\ bound' = bound \cup {child}
      BY <1>5, <2>2 DEF Bind, Goto
    <3>2. child \in Pids /\ Live(leaf) \subseteq {child} /\ pc = "bind" /\ child \in workers
      BY <1>5 DEF Bind, LeafAt, TypeOK
    <3>3. TypeOK' /\ Bracketed' /\ NothingLeftBehind'
      BY <1>1, <3>1, <3>2 DEF TypeOK, Bracketed, NothingLeftBehind, Pc
    <3>4. LeafAt'
      BY <3>1, <3>2 DEF LeafAt, Unspawned, Thawed, Emptied, Released
    <3> QED
      BY <3>1, <3>3, <3>4, LookKeeps
  <2> QED
    BY <1>5, <2>1, <2>2 DEF Bind
<1> QED
  BY <1>3, <1>4, <1>5

\* The run goes on to another step between the bind and W6.
LEMMA GoesOn ==
  ASSUME BrokerInv, prompt' = prompt, pc \in Released, NEW step \in Released, Goto(step),
         leaf' \in Leaf, LeafKnown', OnlyBoundRuns', Live(leaf') = Live(leaf),
         UNCHANGED <<left, workers, bound, crashes>>, timer' \in Int, Bracketed'
  PROVE  BrokerInv'
<1>1. pc' = step /\ UNCHANGED <<child, entry, standing, kept, outcome>> /\ outcome = None
  BY DEF Goto, BrokerInv, TypeOK, Released
<1>2. TypeOK'
  BY <1>1 DEF BrokerInv, TypeOK, Pc, Released
<1>3. LeafAt'
  BY <1>1 DEF BrokerInv, LeafAt, Unspawned, Thawed, Emptied, Released
<1> QED
  BY <1>1, <1>2, <1>3 DEF BrokerInv, LeafContained, NothingLeftBehind

\* A thaw after the bind lets only bound workers run.
LEMMA ThawKeeps ==
  ASSUME BrokerInv, pc \in Released, NEW ok \in BOOLEAN, Write("Thaw", ok), UNCHANGED <<workers, bound>>
  PROVE  leaf' \in Leaf /\ LeafKnown' /\ OnlyBoundRuns' /\ Live(leaf') = Live(leaf)
<1> USE DEF BrokerInv
<1>1. leaf \in Leaf /\ LeafKnown /\ OnlyBoundRuns /\ workers \subseteq Pids /\ workers \cap Live(leaf) \subseteq bound
  BY DEF TypeOK, LeafContained, LeafAt
<1>2. /\ leaf' \in Leaf /\ Live(leaf') = Live(leaf)
      /\ leaf'.freeze /\ Live(leaf') = {} => leaf'.frozen
      /\ \A p \in Pids : leaf'.procs[p] = leaf.procs[p] \/ (leaf.procs[p] = "stopped" /\ leaf'.procs[p] = "running")
  BY <1>1, ThawShape
<1>3. LeafKnown'
  BY <1>1, <1>2 DEF LeafKnown
<1>4. OnlyBoundRuns'
  BY <1>1, <1>2 DEF OnlyBoundRuns, Live, In
<1> QED
  BY <1>2, <1>3, <1>4

\* W4, the bracket and the window.
LEMMA ReleasedKeeps ==
  ASSUME BrokerInv, prompt' = prompt, W4 \/ Np9Begin \/ Np9Wait \/ Np9Skip \/ Np9Hold \/ Window
  PROVE  BrokerInv' /\ (prompt /\ pc = "np9hold" /\ pc' = "window" => left >= W6Bound)
<1> USE DEF BrokerInv
<1>1. /\ leaf \in Leaf /\ pc \in Released /\ outcome = None /\ LeafKnown /\ OnlyBoundRuns
      /\ UNCHANGED <<left, workers, bound, crashes>> /\ pc # "done" /\ left \in Int /\ timer \in Int
  BY DEF W4, Np9Begin, Np9Wait, Np9Skip, Np9Hold, Window, Released, TypeOK, LeafContained, Still
<1>2. ASSUME NEW why \in Step \cup {"WorkerEnd", "Deadline"}, EnterW6(why), leaf' \in Leaf, LeafKnown',
             OnlyBoundRuns', UNCHANGED timer
      PROVE  BrokerInv'
  <2>1. entry' = why
    BY <1>2 DEF EnterW6
  <2> QED
    BY <1>1, <1>2, <2>1, EntersW6
<1>3. leaf' = leaf => leaf' \in Leaf /\ LeafKnown' /\ OnlyBoundRuns' /\ Live(leaf') = Live(leaf)
  BY <1>1 DEF LeafKnown, OnlyBoundRuns
<1>4. ASSUME NEW ok \in BOOLEAN, NEW step \in {"np9", "window"}, NEW why \in Step, Write("Thaw", ok), UNCHANGED timer,
             IF ok THEN Goto(step) ELSE EnterW6(why)
      PROVE  BrokerInv'
  <2>1. leaf' \in Leaf /\ LeafKnown' /\ OnlyBoundRuns' /\ Live(leaf') = Live(leaf)
    BY <1>1, <1>4, ThawKeeps
  <2>2. CASE ok
    <3>1. Bracketed' /\ step \in Released
      BY <1>4, <2>2 DEF Goto, Bracketed, Released
    <3> QED
      BY <1>1, <1>4, <2>1, <2>2, <3>1, GoesOn
  <2>3. CASE ~ok
    BY <1>2, <1>4, <2>1, <2>3
  <2> QED
    BY <2>2, <2>3
<1>5. CASE W4
  <2>1. "W4Thaw" \in Step /\ UNCHANGED timer /\ pc # "np9hold"
    BY <1>5 DEF W4, Still, Step
  <2> QED
    BY <1>4, <1>5, <2>1 DEF W4
<1>6. CASE Np9Skip
  <2>1. "Np9Thaw" \in Step /\ UNCHANGED timer /\ pc # "np9hold"
    BY <1>6 DEF Np9Skip, Still, Step
  <2> QED
    BY <1>4, <1>6, <2>1 DEF Np9Skip
<1>7. CASE Np9Hold
  <2>1. "Np9Thaw" \in Step /\ UNCHANGED timer
    BY <1>7 DEF Np9Hold, Still, Step
  <2>2. prompt => left >= W6Bound
    BY <1>1, <1>7, TimeAssumption DEF Np9Hold, Bracketed
  <2> QED
    BY <1>2, <1>3, <1>4, <1>7, <2>1, <2>2 DEF Np9Hold
<1>8. CASE Np9Begin
  <2>1. CASE left < Hold + Reserve
    <3>1. Goto("window") /\ leaf' = leaf /\ timer' = timer /\ pc # "np9hold"
      BY <1>8, <2>1 DEF Np9Begin
    <3>2. Bracketed' /\ "window" \in Released
      BY <3>1 DEF Goto, Bracketed, Released
    <3> QED
      BY <1>1, <1>3, <3>1, <3>2, GoesOn
  <2>2. CASE ~(left < Hold + Reserve)
    <3>1. PICK ok \in BOOLEAN :
            /\ Write("Freeze", ok)
            /\ IF ok THEN Goto("np9wait") /\ timer' = FreezeWait
               ELSE EnterW6("Np9Freeze") /\ UNCHANGED timer
      BY <1>8, <2>2 DEF Np9Begin
    <3>2. /\ leaf' \in Leaf /\ leaf'.procs = leaf.procs /\ Live(leaf') = Live(leaf)
          /\ leaf'.freeze /\ Live(leaf') = {} => leaf'.frozen
      BY <1>1, <3>1, FreezeShape
    <3>3. LeafKnown' /\ OnlyBoundRuns' /\ "Np9Freeze" \in Step /\ pc # "np9hold"
      BY <1>1, <1>8, <3>2 DEF LeafKnown, OnlyBoundRuns, Step, Np9Begin
    <3>4. CASE ok
      <4>1. Bracketed' /\ "np9wait" \in Released /\ timer' \in Int
        BY <1>1, <2>2, <3>1, <3>4, TimeAssumption DEF Goto, Bracketed, Released
      <4> QED
        BY <1>1, <3>1, <3>2, <3>3, <3>4, <4>1, GoesOn
    <3> QED
      BY <1>2, <3>1, <3>2, <3>3, <3>4
  <2> QED
    BY <2>1, <2>2
<1>9. CASE Np9Wait
  <2>1. leaf' = leaf /\ pc = "np9wait"
    BY <1>9 DEF Np9Wait
  <2>2. CASE EnterW6("Np9Events") /\ UNCHANGED timer
    BY <1>2, <1>3, <2>1, <2>2 DEF Step
  <2>3. CASE timer # -1 /\ Goto("np9hold") /\ timer' = Hold
    <3>1. Bracketed' /\ "np9hold" \in Released /\ timer' \in Int
      BY <1>1, <2>1, <2>3, TimeAssumption DEF Goto, Bracketed, Released
    <3> QED
      BY <1>1, <1>3, <2>1, <2>3, <3>1, GoesOn
  <2>4. CASE Goto("np9skip") /\ UNCHANGED timer
    <3>1. Bracketed' /\ "np9skip" \in Released
      BY <2>4 DEF Goto, Bracketed, Released
    <3> QED
      BY <1>1, <1>3, <2>1, <2>4, <3>1, GoesOn
  <2> QED
    BY <1>9, <2>1, <2>2, <2>3, <2>4 DEF Np9Wait
<1>10. CASE Window
  <2>1. UNCHANGED timer /\ pc = "window" /\ child \in Pids
    BY <1>1, <1>10 DEF Window, Still, LeafAt
  <2>2. CASE leaf' = leaf /\ EnterW6("Deadline")
    BY <1>2, <1>3, <2>1, <2>2
  <2>3. CASE leaf.procs[child] = "zombie" /\ Reaped /\ EnterW6("WorkerEnd")
    <3>1. /\ leaf' \in Leaf /\ leaf'.freeze = leaf.freeze /\ leaf'.frozen = leaf.frozen /\ leaf'.procs[child] = "gone"
          /\ \A p \in Pids : p # child => leaf'.procs[p] = leaf.procs[p]
      BY <1>1, <2>1, <2>3 DEF Reaped, Leaf, ProcState
    <3>2. Live(leaf') = Live(leaf)
      BY <2>1, <2>3, <3>1 DEF Live, In
    <3>3. LeafKnown' /\ OnlyBoundRuns'
      BY <1>1, <3>1, <3>2 DEF LeafKnown, OnlyBoundRuns, TypeOK
    <3> QED
      BY <1>2, <2>1, <2>3, <3>1, <3>3
  <2> QED
    BY <1>10, <2>1, <2>2, <2>3 DEF Window
<1> QED
  BY <1>5, <1>6, <1>7, <1>8, <1>9, <1>10

\* A held W6 keeps its child.
LEMMA HoldsKeeps ==
  ASSUME BrokerInv, prompt' = prompt, NEW step \in Step, Holds(step), Still,
         leaf' \in Leaf, LeafKnown', OnlyBoundRuns'
  PROVE  BrokerInv'
<1> USE DEF BrokerInv
<1>1. /\ pc' = "done" /\ outcome' = [kind |-> "Held", step |-> step] /\ standing' \in Step
      /\ kept' = kept \cup ({child} \ {None}) /\ UNCHANGED <<child, entry, left, timer, workers, bound, crashes>>
  BY DEF Holds, Finish, HoldBy, Still, TypeOK
<1>2. outcome' \in Outcome /\ outcome' # None /\ outcome'.kind = "Held" /\ standing' # None
  BY <1>1, NoneAssumption DEF Outcome, Kinds
<1>3. TypeOK'
  BY <1>1, <1>2 DEF TypeOK, Pc
<1>4. NothingLeftBehind'
  BY <1>1, <1>2 DEF NothingLeftBehind
<1> QED
  BY <1>1, <1>3, <1>4 DEF LeafContained, LeafAt, Bracketed, Unspawned, Thawed, Emptied, Released

\* W6 goes on to its next step, which may rest on the leaf being empty and the child reaped.
LEMMA W6GoesOn ==
  ASSUME BrokerInv, prompt' = prompt, pc # "done", NEW step \in {"w6kill", "w6empty", "w6reap", "w6release"}, Goto(step),
         leaf' \in Leaf, LeafKnown', OnlyBoundRuns', UNCHANGED <<left, workers, bound, crashes>>, timer' \in Int,
         step \in {"w6reap", "w6release"} => Live(leaf') = {},
         step = "w6release" => child = None \/ leaf'.procs[child] = "gone"
  PROVE  BrokerInv'
<1>1. pc' = step /\ UNCHANGED <<child, entry, standing, kept, outcome>> /\ outcome = None
  BY DEF Goto, BrokerInv, TypeOK
<1>2. TypeOK'
  BY <1>1 DEF BrokerInv, TypeOK, Pc
<1>3. LeafAt'
  BY <1>1 DEF LeafAt, Unspawned, Thawed, Emptied, Released
<1> QED
  BY <1>1, <1>2, <1>3 DEF BrokerInv, LeafContained, NothingLeftBehind, Bracketed

\* The sequence that ends every run with a child.
LEMMA W6Keeps ==
  ASSUME BrokerInv, prompt' = prompt, W6Freeze \/ W6Kill \/ W6Empty \/ W6Reap \/ AfterW6
  PROVE  BrokerInv'
<1> USE DEF BrokerInv
<1>1. /\ leaf \in Leaf /\ pc # "done" /\ outcome = None /\ LeafKnown /\ OnlyBoundRuns
      /\ UNCHANGED <<left, workers, bound, crashes>> /\ timer \in Int /\ workers \subseteq Pids
      /\ child \in Pids \cup {None}
  BY DEF W6Freeze, W6Kill, W6Empty, W6Reap, AfterW6, TypeOK, LeafContained, Still
<1>2. leaf' = leaf => leaf' \in Leaf /\ LeafKnown' /\ OnlyBoundRuns' /\ Live(leaf') = Live(leaf)
  BY <1>1 DEF LeafKnown, OnlyBoundRuns
<1>3. CASE W6Freeze
  <2>1. PICK ok \in BOOLEAN : Write("Freeze", ok)
    BY <1>3 DEF W6Freeze
  <2>2. /\ leaf' \in Leaf /\ leaf'.procs = leaf.procs /\ Live(leaf') = Live(leaf)
        /\ leaf'.freeze /\ Live(leaf') = {} => leaf'.frozen
    BY <1>1, <2>1, FreezeShape
  <2>3. LeafKnown' /\ OnlyBoundRuns'
    BY <1>1, <2>2 DEF LeafKnown, OnlyBoundRuns
  <2>4. Goto("w6kill") /\ timer' \in Int
    BY <1>3, TimeAssumption DEF W6Freeze
  <2> QED
    BY <1>1, <2>2, <2>3, <2>4, W6GoesOn
<1>4. CASE W6Kill
  <2>1. PICK ok \in BOOLEAN : Write("Kill", ok)
    BY <1>4 DEF W6Kill
  <2>2. /\ leaf' \in Leaf /\ Live(leaf') = Live(leaf)
        /\ leaf'.freeze /\ Live(leaf') = {} => leaf'.frozen
        /\ \A p \in Pids : leaf'.procs[p] = leaf.procs[p] \/ (p \in Live(leaf) /\ leaf'.procs[p] = "dying")
    BY <1>1, <2>1, KillShape
  <2>3. LeafKnown' /\ OnlyBoundRuns'
    BY <1>1, <2>2 DEF LeafKnown, OnlyBoundRuns
  <2>4. Goto("w6empty") /\ timer' \in Int
    BY <1>1, <1>4 DEF W6Kill, Still
  <2> QED
    BY <1>1, <2>2, <2>3, <2>4, W6GoesOn
<1>5. CASE W6Empty
  <2>1. leaf' = leaf /\ Still /\ timer' \in Int
    BY <1>1, <1>5 DEF W6Empty, Still
  <2>2. CASE Holds("W6NotEmpty")
    BY <1>2, <2>1, <2>2, HoldsKeeps DEF Step
  <2>3. CASE ~Events(leaf).populated /\ Goto("w6reap")
    <3>1. Live(leaf') = {}
      BY <2>1, <2>3 DEF Events
    <3> QED
      BY <1>1, <1>2, <2>1, <2>3, <3>1, W6GoesOn
  <2> QED
    BY <1>5, <2>2, <2>3 DEF W6Empty
<1>6. CASE W6Reap
  <2>1. Live(leaf) = {} /\ Still /\ timer' \in Int
    BY <1>1, <1>6 DEF W6Reap, Still, LeafAt, Emptied
  <2>2. CASE (child = None \/ leaf.procs[child] = "gone") /\ leaf' = leaf /\ Goto("w6release")
    BY <1>1, <1>2, <2>1, <2>2, W6GoesOn
  <2>3. CASE leaf' = leaf /\ Holds("W6Reap")
    BY <1>2, <2>1, <2>3, HoldsKeeps DEF Step
  <2>4. CASE child # None /\ leaf.procs[child] = "zombie" /\ Reaped /\ Goto("w6release")
    <3>1. /\ leaf' \in Leaf /\ leaf'.freeze = leaf.freeze /\ leaf'.frozen = leaf.frozen /\ leaf'.procs[child] = "gone"
          /\ \A p \in Pids : p # child => leaf'.procs[p] = leaf.procs[p]
      BY <1>1, <2>4 DEF Reaped, Leaf, ProcState
    <3>2. Live(leaf') = Live(leaf)
      BY <1>1, <2>4, <3>1 DEF Live, In
    <3>3. LeafKnown' /\ OnlyBoundRuns'
      BY <1>1, <3>1, <3>2 DEF LeafKnown, OnlyBoundRuns
    <3> QED
      BY <1>1, <2>1, <2>4, <3>1, <3>2, <3>3, W6GoesOn
  <2> QED
    BY <1>6, <2>2, <2>3, <2>4 DEF W6Reap
<1>7. CASE AfterW6
  <2>1. Live(leaf) = {} /\ Still /\ (child = None \/ leaf.procs[child] = "gone")
    BY <1>7 DEF AfterW6, LeafAt, Emptied
  <2>2. PICK ok \in BOOLEAN :
          /\ Write("Thaw", ok)
          /\ IF ~ok THEN Holds("W6Release")
             ELSE IF entry \in Step THEN Ends("Cleaned", entry)
             ELSE IF entry = "Unavailable" THEN Ends("Unavailable", None)
             ELSE IF child # None THEN Ends("Ended", None) ELSE Holds("W6Reap")
    BY <1>7 DEF AfterW6
  <2>3. /\ leaf' \in Leaf /\ Live(leaf') = {}
        /\ leaf'.freeze /\ Live(leaf') = {} => leaf'.frozen
        /\ ok => ~leaf'.freeze
        /\ \A p \in Pids : leaf'.procs[p] = leaf.procs[p] \/ (leaf.procs[p] = "stopped" /\ leaf'.procs[p] = "running")
    BY <1>1, <2>1, <2>2, ThawShape
  <2>4. \A p \in Pids : leaf'.procs[p] = leaf.procs[p]
    BY <2>1, <2>3 DEF Live, In
  <2>5. LeafKnown' /\ OnlyBoundRuns' /\ (child = None \/ leaf'.procs[child] = "gone")
    BY <1>1, <2>1, <2>3, <2>4 DEF LeafKnown, OnlyBoundRuns
  <2>6. ASSUME NEW step \in Step, Holds(step) PROVE BrokerInv'
    BY <2>1, <2>3, <2>5, <2>6, HoldsKeeps
  <2>7. ASSUME ok, NEW kind \in Kinds, NEW step \in Step \cup {None}, Ends(kind, step) PROVE BrokerInv'
    BY <2>1, <2>3, <2>5, <2>7, EndsClean
  <2>8. {"W6Release", "W6Reap"} \subseteq Step /\ {"Cleaned", "Unavailable", "Ended"} \subseteq Kinds
    BY DEF Step, Kinds
  <2> QED
    BY <2>2, <2>6, <2>7, <2>8
<1> QED
  BY <1>3, <1>4, <1>5, <1>6, <1>7

-----------------------------------------------------------------------------
(* The theorems.                                                           *)

\* A fresh leaf has the invariant.
LEMMA BrokerInitially == Init => BrokerInv
<1> SUFFICES ASSUME Init PROVE BrokerInv
  OBVIOUS
<1>1. leaf \in Leaf /\ Live(leaf) = {} /\ ~leaf.freeze
  BY DEF Init, Leaf, ProcState, Live, In
<1>2. TypeOK
  BY <1>1, TimeAssumption, BrokerAssumption DEF Init, TypeOK, Pc
<1> QED
  BY <1>1, <1>2 DEF Init, BrokerInv, LeafKnown, LeafAt, LeafContained, OnlyBoundRuns, NothingLeftBehind, Bracketed,
                    Unspawned, Thawed, Emptied, Released

\* Only the end of the bracket goes from its hold to the window.
LEMMA BrokerStep ==
  ASSUME BrokerInv, [Next]_vars
  PROVE  BrokerInv' /\ (prompt /\ pc = "np9hold" /\ pc' = "window" => left >= W6Bound)
<1>1. CASE UNCHANGED vars
  BY <1>1 DEF vars, BrokerInv, TypeOK, LeafKnown, LeafAt, LeafContained, OnlyBoundRuns, NothingLeftBehind, Bracketed
<1>2. CASE Kernel /\ prompt' = prompt
  BY <1>2, KernelKeeps DEF Kernel, run
<1>3. CASE Tick /\ prompt' = prompt
  BY <1>3, TickKeeps DEF Tick, run
<1>4. CASE Crash /\ prompt' = prompt
  BY <1>4, CrashKeeps DEF Crash
<1>5. CASE Broker /\ prompt' = prompt
  <2>1. CASE DeriveHold \/ Startup \/ W5 \/ DeriveBeforeW1 \/ W1Read \/ W1Wait \/ W1Fail
    BY <1>5, <2>1, EarlyKeeps DEF DeriveHold, Startup, W5, DeriveBeforeW1, W1Read, W1Wait, W1Fail
  <2>2. CASE W1Freeze \/ W1Thaw
    BY <1>5, <2>2, W1WritesKeep DEF W1Freeze, W1Thaw
  <2>3. CASE W2 \/ W3 \/ Bind
    BY <1>5, <2>3, SpawnKeeps DEF W2, W3, Bind
  <2>4. CASE W4 \/ Np9Begin \/ Np9Wait \/ Np9Skip \/ Np9Hold \/ Window
    BY <1>5, <2>4, ReleasedKeeps
  <2>5. CASE W6Freeze \/ W6Kill \/ W6Empty \/ W6Reap \/ AfterW6
    BY <1>5, <2>5, W6Keeps DEF W6Freeze, W6Kill, W6Empty, W6Reap, AfterW6
  <2> QED
    BY <1>5, <2>1, <2>2, <2>3, <2>4, <2>5 DEF Broker
<1> QED
  BY <1>1, <1>2, <1>3, <1>4, <1>5 DEF Next

\* The invariant holds throughout, types included.
THEOREM BrokerSafe == Spec => []BrokerInv
<1>1. BrokerInv /\ [Next]_vars => BrokerInv'
  BY BrokerStep
<1> QED
  BY <1>1, BrokerInitially, PTL DEF Spec

\* Over every restart, failed step and fork, the leaf runs only bound workers
\* while a run lasts and nothing after it (run.rs startup, w6.rs sequence).
THEOREM LeafIsContained == Spec => []LeafContained
  BY BrokerSafe, PTL DEF BrokerInv

\* The bracket never leaves W6 without its whole bound before the deadline,
\* when time passes in the broker's sleeps only (np9.rs bracket).
THEOREM BracketIsShort == Spec => BracketLeavesW6
<1>1. BrokerInv /\ [Next]_vars => [prompt /\ pc = "np9hold" /\ pc' = "window" => left >= W6Bound]_vars
  BY BrokerStep
<1> QED
  BY <1>1, BrokerSafe, PTL DEF Spec, BracketLeavesW6

-----------------------------------------------------------------------------
(* The two ends of the gate's channel.                                     *)

Digests == {NoDigest} \cup {Digest(frame) : frame \in sent}

ClientTypes ==
  /\ client \in [generation : 1 .. MaxGenerations, challenge : Nat, next : Nat, last : Digests,
                 pending : {NoRequest} \cup sent, opened : BOOLEAN, over : BOOLEAN]
  /\ gateSide \in [generation : 1 .. MaxGenerations, channel : {"UNOPENED", "OPEN", "CLOSED"}, challenge : Nat,
                   next : Nat, last : Digests]
  /\ toGate \in Seq(sent) /\ toClient \in Seq(sent)
  /\ answered \in [1 .. MaxGenerations -> Seq(sent \X sent)] /\ accepted \in Seq(sent \X sent)

\* The envelope of a frame that was sent: its challenge is one the broker has
\* drawn, and no request of the present client is past its `next'.
Sound(frame) ==
  /\ frame.generation \in 1 .. MaxGenerations /\ frame.sequence \in Nat
  /\ frame.challenge \in Nat /\ frame.challenge <= client.challenge
  /\ frame.direction = "BROKER_TO_GATE" /\ frame.challenge = client.challenge => frame.sequence <= client.next

\* A response was made for the request whose digest it carries.
Made(frame) ==
  frame.direction = "GATE_TO_BROKER" =>
    \E k \in 1 .. Len(answered[frame.generation]) :
       /\ answered[frame.generation][k][2] = frame
       /\ frame.previous = Digest(answered[frame.generation][k][1])

\* A client numbers its frames from its own count of what it has accepted.
ClientEnd ==
  /\ client.next = 2 * Len(accepted) + 1
  /\ client.pending # NoRequest =>
       client.pending.sequence = client.next /\ client.last = Digest(client.pending)
  /\ deviated => client.over
  /\ ~late

\* The gate numbers its own from what it has answered in its generation.
GateEnd ==
  /\ gateSide.next = 2 * Len(answered[gateSide.generation]) + 1
  /\ \A g \in 1 .. MaxGenerations : \A k \in 1 .. Len(answered[g]) : answered[g][k][1].sequence = 2 * k - 1
  /\ \A g \in 1 .. MaxGenerations : g > gateSide.generation => Len(answered[g]) = 0

\* The accepted pairs are the first of the answered ones, and the gate is at most one ahead.
Agreed ==
  /\ Len(accepted) <= Len(answered[client.generation])
  /\ \A k \in 1 .. Len(accepted) : accepted[k] = answered[client.generation][k]
  /\ gateSide.generation = client.generation /\ gateSide.channel = "OPEN" /\ gateSide.challenge = client.challenge =>
       Len(answered[client.generation]) <= Len(accepted) + 1

ClientInv ==
  /\ ClientTypes
  /\ \A frame \in sent : Sound(frame) /\ Made(frame)
  /\ ClientEnd /\ GateEnd /\ Agreed

-----------------------------------------------------------------------------

\* The sequences of sent frames stay such sequences as more frames are sent.
LEMMA SeqGrows ==
  ASSUME NEW S, NEW T, S \subseteq T, NEW s \in Seq(S)
  PROVE  s \in Seq(T)
OBVIOUS

\* Queued frames stay queued frames when one is put in front of them.
LEMMA SequenceConcat ==
  ASSUME NEW S, NEW s \in Seq(S), NEW t \in Seq(S)
  PROVE  s \o t \in Seq(S)
OBVIOUS

\* A sequence that agrees with a longer one at each place is a prefix of it.
LEMMA PrefixByElement ==
  ASSUME NEW S, NEW s \in Seq(S), NEW t \in Seq(S), Len(s) <= Len(t), \A k \in 1 .. Len(s) : s[k] = t[k]
  PROVE  s = SubSeq(t, 1, Len(s)) /\ Len(s) \in 0 .. Len(t)
OBVIOUS

\* The invariant is strong enough: the two ends are in lockstep (InLockstep).
LEMMA LockstepFollows == ClientInv => InLockstep
<1> SUFFICES ASSUME ClientInv PROVE InLockstep
  OBVIOUS
<1>1. accepted \in Seq(sent \X sent) /\ answered[client.generation] \in Seq(sent \X sent)
  BY DEF ClientInv, ClientTypes
<1>2. /\ accepted = SubSeq(answered[client.generation], 1, Len(accepted))
      /\ Len(accepted) \in 0 .. Len(answered[client.generation])
  BY <1>1, PrefixByElement DEF ClientInv, Agreed
<1>3. QED
  BY Zenon, <1>2 DEF ClientInv, ClientEnd, Agreed, InLockstep

\* A client just opened, facing a gate just served, satisfies the invariant.
LEMMA ClientStarts == ClientInit => ClientInv
BY GenerationsAssumption DEF ClientInit, ClientInv, ClientTypes, Digests, Open, Serve, ClientEnd, GateEnd, Agreed

-----------------------------------------------------------------------------
\* What a call of the client leaves: an end, after which it is over, or a frame.
LEMMA RequestEnds ==
  ASSUME ClientTypes, NEW operation, NEW id,
         Request(client, operation, id).answer[1] # "Ok"
  PROVE  LET after == Request(client, operation, id).client
         IN /\ after = [client EXCEPT !.over = TRUE]
            /\ after.over
<1>1. client.over => client = [client EXCEPT !.over = TRUE]
  BY DEF ClientTypes
<1>2. QED
  BY <1>1 DEF ClientTypes, Request, End

\* I05Client::request that succeeds: nothing was pending, and the frame it returns is pending now.
LEMMA RequestSends ==
  ASSUME ClientTypes, NEW operation, NEW id,
         Request(client, operation, id).answer[1] = "Ok"
  PROVE  LET done == Request(client, operation, id)
             frame == Envelope(client.generation, client.challenge, client.next, client.last, "BROKER_TO_GATE",
                               operation, "", id)
         IN /\ ~client.over /\ client.pending = NoRequest
            /\ done.answer = <<"Ok", frame>>
            /\ done.client = [client EXCEPT !.last = Digest(frame), !.pending = frame, !.opened = TRUE]
BY DEF ClientTypes, Request, End

\* I05Client::receive that fails is the end of the client.
LEMMA ReceiveEnds ==
  ASSUME ClientTypes, NEW frame, Receive(client, frame).answer[1] # "Ok"
  PROVE  LET after == Receive(client, frame).client
         IN /\ after = [client EXCEPT !.over = TRUE]
            /\ after.over
<1>1. client.over => client = [client EXCEPT !.over = TRUE]
  BY DEF ClientTypes
<1>2. QED
  BY <1>1 DEF ClientTypes, Receive, End

\* I05Client::receive that succeeds: the frame answers the pending request, and nothing is pending.
LEMMA ReceiveAccepts ==
  ASSUME ClientTypes, NEW frame, Receive(client, frame).answer[1] = "Ok"
  PROVE  /\ ~client.over /\ client.pending # NoRequest
         /\ frame.direction = "GATE_TO_BROKER" /\ frame.sequence = client.pending.sequence + 1
         /\ frame.previous = client.last /\ frame.generation = client.generation
         /\ frame.challenge = client.challenge
         /\ Receive(client, frame).client =
              [client EXCEPT !.last = Digest(frame), !.next = frame.sequence + 1, !.pending = NoRequest]
<1>1. ~client.over /\ Check(client, frame) = ""
  BY DEF Receive, End, Check
<1>2. QED
  BY <1>1 DEF Check, Receive


-----------------------------------------------------------------------------
\* A frame more among those that were sent keeps the type of everything built from them.
LEMMA SentGrows ==
  ASSUME ClientTypes, NEW frame, sent' = sent \cup {frame}
  PROVE  /\ toGate \in Seq(sent') /\ toClient \in Seq(sent') /\ accepted \in Seq(sent' \X sent')
         /\ answered \in [1 .. MaxGenerations -> Seq(sent' \X sent')]
         /\ \A d \in Digests : d \in Digests'
         /\ Digest(frame) \in Digests' /\ frame \in sent' /\ NoDigest \in Digests'
<1>1. sent \subseteq sent' /\ sent \X sent \subseteq sent' \X sent'
  OBVIOUS
<1>2. toGate \in Seq(sent') /\ toClient \in Seq(sent')
  BY <1>1, SeqGrows DEF ClientTypes
<1>3. accepted \in Seq(sent' \X sent')
  BY <1>1, SeqGrows DEF ClientTypes
<1>4. \A g \in 1 .. MaxGenerations : answered[g] \in Seq(sent' \X sent')
  BY <1>1, SeqGrows DEF ClientTypes
<1>5. \A d \in Digests : d \in Digests'
  BY <1>1 DEF Digests
<1>6. QED
  BY <1>2, <1>3, <1>4, <1>5 DEF ClientTypes, Digests

\* A call that ends the client changes nothing else.
LEMMA EndKeeps ==
  ASSUME ClientInv, client' = [client EXCEPT !.over = TRUE],
         gateSide' = gateSide, sent' = sent, toGate' = toGate, answered' = answered, accepted' = accepted,
         toClient' \in Seq(sent), ~late'
  PROVE  ClientInv'
<1>1. ClientTypes'
  BY DEF ClientInv, ClientTypes, Digests
<1>2. ASSUME NEW frame \in sent' PROVE (Sound(frame) /\ Made(frame))'
  BY DEF ClientInv, ClientTypes, Sound, Made
<1>3. ClientEnd'
  BY DEF ClientInv, ClientTypes, ClientEnd
<1>4. GateEnd' /\ Agreed'
  BY DEF ClientInv, ClientTypes, GateEnd, Agreed
<1>5. QED
  BY <1>1, <1>2, <1>3, <1>4 DEF ClientInv

\* A request goes out, numbered with the client's next.
LEMMA AskKeeps == ClientInv /\ Ask => ClientInv'
<1> SUFFICES ASSUME ClientInv, Ask PROVE ClientInv'
  OBVIOUS
<1> DEFINE Done(operation, id) == Request(client, operation, id)
           Ok(operation, id) == Done(operation, id).answer[1] = "Ok"
           Asks(operation, id) ==
             /\ client' = Done(operation, id).client
             /\ toGate' = IF Ok(operation, id) THEN Append(toGate, Done(operation, id).answer[2]) ELSE toGate
             /\ sent' = IF Ok(operation, id) THEN sent \cup {Done(operation, id).answer[2]} ELSE sent
             /\ deviated' = (deviated \/ ~Ok(operation, id)) /\ late' = (late \/ (deviated /\ Ok(operation, id)))
<1>a. \E operation \in Asked : \E id \in IF operation \in CarriesId THEN Ids ELSE {0} : Asks(operation, id)
  BY DEF Ask
<1>b. PICK operation \in Asked : \E id \in IF operation \in CarriesId THEN Ids ELSE {0} : Asks(operation, id)
  BY <1>a
<1>0. PICK id \in IF operation \in CarriesId THEN Ids ELSE {0} : Asks(operation, id)
  BY <1>b
<1>1. ClientTypes /\ ClientEnd /\ gateSide' = gateSide /\ toClient' = toClient /\ answered' = answered
      /\ accepted' = accepted
  BY DEF ClientInv, Ask
<1>2. CASE Request(client, operation, id).answer[1] # "Ok"
  <2>1. client' = [client EXCEPT !.over = TRUE]
    BY <1>0, <1>1, <1>2, RequestEnds
  <2>2. sent' = sent /\ toGate' = toGate /\ ~late' /\ toClient' \in Seq(sent)
    BY <1>0, <1>1, <1>2 DEF ClientTypes, ClientEnd
  <2>3. QED
    BY <1>1, <2>1, <2>2, EndKeeps
<1>3. CASE Request(client, operation, id).answer[1] = "Ok"
  <2>0. PICK frame : frame = Envelope(client.generation, client.challenge, client.next, client.last,
                                      "BROKER_TO_GATE", operation, "", id)
    OBVIOUS
  <2>1. /\ ~client.over /\ client.pending = NoRequest
        /\ Request(client, operation, id).answer = <<"Ok", frame>>
        /\ client' = [client EXCEPT !.last = Digest(frame), !.pending = frame, !.opened = TRUE]
    BY <1>0, <1>1, <1>3, <2>0, RequestSends
  <2>2. /\ frame.generation = client.generation /\ frame.challenge = client.challenge
        /\ frame.sequence = client.next /\ frame.direction = "BROKER_TO_GATE"
    BY <2>0 DEF Envelope
  <2>3. ~deviated
    BY <1>1, <2>1 DEF ClientEnd
  <2>4. sent' = sent \cup {frame} /\ toGate' = Append(toGate, frame) /\ ~late' /\ ~deviated'
    <3>1. Ok(operation, id) /\ Done(operation, id).answer[2] = frame /\ ~late
      BY <1>1, <1>3, <2>1 DEF ClientEnd
    <3>2. QED
      BY <1>0, <2>3, <3>1
  <2>5. ClientTypes'
    <3>1. client' \in [generation : 1 .. MaxGenerations, challenge : Nat, next : Nat, last : Digests',
                 pending : {NoRequest} \cup sent', opened : BOOLEAN, over : BOOLEAN]
      BY <1>1, <2>1, <2>4, SentGrows DEF ClientTypes
    <3>2. gateSide' \in [generation : 1 .. MaxGenerations, channel : {"UNOPENED", "OPEN", "CLOSED"}, challenge : Nat,
                   next : Nat, last : Digests']
      BY <1>1, <2>4, SentGrows DEF ClientTypes
    <3>3. toGate' \in Seq(sent')
      BY <1>1, <2>4, SentGrows
    <3>4. QED
      BY <1>1, <2>4, <3>1, <3>2, <3>3, SentGrows DEF ClientTypes
  <2>6. ASSUME NEW f \in sent' PROVE (Sound(f) /\ Made(f))'
    <3>1. client'.challenge = client.challenge /\ client'.next = client.next
      BY <1>1, <2>1 DEF ClientTypes
    <3>2. CASE f \in sent
      BY <1>1, <3>1, <3>2 DEF ClientInv, Sound, Made
    <3>3. CASE f = frame
      BY <1>1, <2>2, <3>1, <3>3 DEF ClientTypes, Sound, Made
    <3>4. QED
      BY <2>4, <3>2, <3>3
  <2>7. ClientEnd'
    BY <1>1, <2>1, <2>2, <2>3, <2>4 DEF ClientTypes, ClientEnd
  <2>8. GateEnd' /\ Agreed'
    BY <1>1, <2>1 DEF ClientInv, ClientTypes, GateEnd, Agreed
  <2>9. QED
    BY <2>5, <2>6, <2>7, <2>8 DEF ClientInv
<1>4. QED
  BY <1>2, <1>3


\* The client takes a datagram.  The one it accepts carries the digest of its
\* pending request, so it is the gate's answer to it, and by its number the next.
LEMMA TakeKeeps == ClientInv /\ Take => ClientInv'
<1> SUFFICES ASSUME ClientInv, Take PROVE ClientInv'
  OBVIOUS
<1>0. PICK frame : frame = Head(toClient)
  OBVIOUS
<1> DEFINE Done == Receive(client, frame)
           Ok == Done.answer[1] = "Ok"
<1>1. /\ client' = Done.client
      /\ accepted' = IF Ok THEN Append(accepted, <<client.pending, frame>>) ELSE accepted
      /\ deviated' = (deviated \/ ~Ok) /\ late' = (late \/ (deviated /\ Ok))
  BY <1>0 DEF Take
<1>2. /\ ClientTypes /\ ClientEnd /\ gateSide' = gateSide /\ toGate' = toGate /\ sent' = sent
      /\ answered' = answered
  BY DEF ClientInv, Take
<1>3. frame \in sent /\ toClient' \in Seq(sent)
  BY <1>0 DEF Take, ClientInv, ClientTypes
<1>4. CASE ~Ok
  <2>1. client' = [client EXCEPT !.over = TRUE]
    BY <1>1, <1>2, <1>4, ReceiveEnds
  <2>2. accepted' = accepted /\ ~late'
    BY <1>1, <1>2, <1>4 DEF ClientEnd
  <2>3. QED
    BY <1>2, <1>3, <2>1, <2>2, EndKeeps
<1>5. CASE Ok
  <2>0. PICK p : p = client.pending
    OBVIOUS
  <2>1. /\ ~client.over /\ p # NoRequest
        /\ frame.direction = "GATE_TO_BROKER" /\ frame.sequence = p.sequence + 1
        /\ frame.previous = client.last /\ frame.generation = client.generation
        /\ client' = [client EXCEPT !.last = Digest(frame), !.next = frame.sequence + 1, !.pending = NoRequest]
    BY <1>1, <1>2, <1>5, <2>0, ReceiveAccepts
  <2>2. p \in sent /\ p.sequence = client.next /\ client.last = Digest(p)
    BY <1>2, <2>0, <2>1 DEF ClientTypes, ClientEnd
  <2>3. ~deviated' /\ ~late' /\ accepted' = Append(accepted, <<p, frame>>)
    <3>1. ~deviated /\ ~late
      BY <1>2, <2>1 DEF ClientEnd
    <3>2. QED
      BY <1>1, <1>5, <2>0, <3>1
  <2>4. PICK g : g = client.generation
    OBVIOUS
  <2>5. g \in 1 .. MaxGenerations /\ answered[g] \in Seq(sent \X sent) /\ Len(accepted) \in Nat
    BY <1>2, <2>4 DEF ClientTypes
  <2>6. PICK k \in 1 .. Len(answered[g]) : answered[g][k][2] = frame /\ frame.previous = Digest(answered[g][k][1])
    BY <1>3, <2>1, <2>4 DEF ClientInv, Made
  <2>7. answered[g][k][1] = p
    BY <2>1, <2>2, <2>6 DEF Digest
  <2>8. answered[g][k] = <<p, frame>>
    BY <2>5, <2>6, <2>7
  <2>9. k = Len(accepted) + 1
    <3>1. p.sequence = 2 * k - 1
      BY <2>5, <2>6, <2>7 DEF ClientInv, GateEnd
    <3>2. client.next = 2 * Len(accepted) + 1
      BY <1>2 DEF ClientEnd
    <3>3. k \in Nat
      BY <2>5
    <3>4. 2 * k - 1 = 2 * Len(accepted) + 1
      BY <2>2, <3>1, <3>2
    <3>5. QED
      BY <2>5, <3>3, <3>4
  <2>10. /\ accepted' \in Seq(sent \X sent) /\ Len(accepted') = Len(accepted) + 1
         /\ \A j \in 1 .. Len(accepted) : accepted'[j] = accepted[j]
         /\ accepted'[Len(accepted) + 1] = <<p, frame>>
    BY <1>2, <1>3, <2>2, <2>3 DEF ClientTypes
  <2>11. client'.next = 2 * Len(accepted') + 1 /\ client'.generation = g /\ client'.challenge = client.challenge
         /\ client'.next \in Nat /\ client'.next = client.next + 2
    <3>1. client'.next = frame.sequence + 1 /\ client'.generation = g /\ client'.challenge = client.challenge
      BY <1>2, <2>1, <2>4 DEF ClientTypes
    <3>2. client.next = 2 * Len(accepted) + 1
      BY <1>2 DEF ClientEnd
    <3>3. QED
      BY <2>1, <2>2, <2>5, <2>10, <3>1, <3>2
  <2>12. ClientTypes'
    <3>1. Digest(frame) \in Digests
      BY <1>3 DEF Digests
    <3>2. Digests' = Digests
      BY <1>2 DEF Digests
    <3>3. client' \in [generation : 1 .. MaxGenerations, challenge : Nat, next : Nat, last : Digests,
                 pending : {NoRequest} \cup sent, opened : BOOLEAN, over : BOOLEAN]
      <4>1. frame.sequence + 1 \in Nat
        BY <1>2, <2>1, <2>11 DEF ClientTypes
      <4>2. QED
        BY <1>2, <2>1, <3>1, <4>1 DEF ClientTypes
    <3>4. QED
      BY <1>2, <1>3, <2>10, <3>2, <3>3 DEF ClientTypes
  <2>13. ASSUME NEW f \in sent' PROVE (Sound(f) /\ Made(f))'
    <3>1. Sound(f) /\ Made(f) /\ client.next \in Nat
      BY <1>2, <2>13 DEF ClientInv, ClientTypes
    <3>2. Sound(f)'
      BY <2>11, <3>1 DEF Sound
    <3>3. Made(f)'
      BY <1>2, <3>1 DEF Made
    <3>4. QED
      BY <3>2, <3>3
  <2>14. ClientEnd'
    <3>1. client'.pending = NoRequest
      BY <1>2, <2>1 DEF ClientTypes
    <3>2. QED
      BY <2>3, <2>11, <3>1 DEF ClientEnd
  <2>15. GateEnd'
    BY <1>2 DEF ClientInv, GateEnd
  <2>16. Agreed'
    <3>1. /\ Len(accepted) <= Len(answered[g])
          /\ \A j \in 1 .. Len(accepted) : accepted[j] = answered[g][j]
          /\ gateSide.generation = g /\ gateSide.channel = "OPEN" /\ gateSide.challenge = client.challenge =>
               Len(answered[g]) <= Len(accepted) + 1
      BY <2>4 DEF ClientInv, Agreed
    <3>2. Len(accepted') <= Len(answered[g])
      BY <2>5, <2>6, <2>9, <2>10
    <3>3. ASSUME NEW j \in 1 .. Len(accepted') PROVE accepted'[j] = answered[g][j]
      <4>1. CASE j \in 1 .. Len(accepted)
        BY <2>10, <3>1, <4>1
      <4>2. CASE j = Len(accepted) + 1
        BY <2>8, <2>9, <2>10, <4>2
      <4>3. QED
        BY <2>5, <2>10, <4>1, <4>2
    <3>4. gateSide.generation = g /\ gateSide.channel = "OPEN" /\ gateSide.challenge = client.challenge =>
            Len(answered[g]) <= Len(accepted') + 1
      BY <2>5, <2>10, <3>1
    <3>5. QED
      BY <1>2, <2>11, <3>2, <3>3, <3>4 DEF Agreed
  <2>17. QED
    BY <2>12, <2>13, <2>14, <2>15, <2>16 DEF ClientInv
<1>6. QED
  BY <1>4, <1>5


\* A gate that closes its channel answers nothing more in this generation.
LEMMA FatalKeeps ==
  ASSUME ClientInv, NEW challenge \in Nat,
         gateSide' = [gateSide EXCEPT !.channel = "CLOSED", !.challenge = challenge],
         client' = client, sent' = sent, toGate' \in Seq(sent), toClient' \in Seq(sent), answered' = answered,
         accepted' = accepted, deviated' = deviated, late' = late
  PROVE  ClientInv'
<1>1. ClientTypes'
  BY DEF ClientInv, ClientTypes, Digests
<1>2. \A frame \in sent' : (Sound(frame) /\ Made(frame))'
  BY DEF ClientInv, Sound, Made
<1>3. ClientEnd'
  BY DEF ClientInv, ClientEnd
<1>4. gateSide'.channel = "CLOSED" /\ gateSide'.generation = gateSide.generation /\ gateSide'.next = gateSide.next
  BY DEF ClientInv, ClientTypes
<1>5. GateEnd' /\ Agreed'
  BY <1>4 DEF ClientInv, GateEnd, Agreed
<1>6. QED
  BY <1>1, <1>2, <1>3, <1>5 DEF ClientInv

\* The gate answers its next request.  A request of the present client is not
\* past the client's next, so the gate is then one answer ahead at the most.
LEMMA AnswerKeeps ==
  ASSUME ClientInv, NEW frame \in sent, IsNext(gateSide, frame), NEW result \in {"OK", "REFUSED"},
         NEW response, response = Reply(gateSide, frame, result),
         gateSide' = [[gateSide EXCEPT !.channel = "OPEN", !.challenge = frame.challenge]
                        EXCEPT !.next = frame.sequence + 2, !.last = Digest(response)],
         toClient' = Append(toClient, response), sent' = sent \cup {response},
         answered' = [answered EXCEPT ![gateSide.generation] = Append(@, <<frame, response>>)],
         toGate' \in Seq(sent), client' = client, accepted' = accepted, deviated' = deviated, late' = late
  PROVE  ClientInv'
<1>0. PICK g : g = gateSide.generation
  OBVIOUS
<1>1. /\ ClientTypes /\ g \in 1 .. MaxGenerations /\ answered[g] \in Seq(sent \X sent)
      /\ DOMAIN answered = 1 .. MaxGenerations
  BY <1>0 DEF ClientInv, ClientTypes
<1>2. Sound(frame) /\ Made(frame) /\ frame.sequence = gateSide.next /\ frame.direction = "BROKER_TO_GATE"
      /\ frame.generation = g
  BY <1>0 DEF ClientInv, IsNext
<1>3. /\ response.generation = g /\ response.challenge = frame.challenge
      /\ response.sequence = frame.sequence + 1 /\ response.previous = Digest(frame)
      /\ response.direction = "GATE_TO_BROKER"
  BY <1>0 DEF Reply, Envelope
<1>4. frame.sequence = 2 * Len(answered[g]) + 1 /\ frame.sequence \in Nat /\ frame.challenge \in Nat
  BY <1>0, <1>2 DEF ClientInv, GateEnd, Sound
<1>5. /\ answered'[g] = Append(answered[g], <<frame, response>>)
      /\ \A h \in 1 .. MaxGenerations : h # g => answered'[h] = answered[h]
      /\ DOMAIN answered' = 1 .. MaxGenerations
  BY <1>0, <1>1
<1>6. /\ Len(answered'[g]) = Len(answered[g]) + 1 /\ Len(answered[g]) \in Nat
      /\ \A k \in 1 .. Len(answered[g]) : answered'[g][k] = answered[g][k]
      /\ answered'[g][Len(answered[g]) + 1] = <<frame, response>>
  BY <1>1, <1>5
<1>7. /\ gateSide'.generation = g /\ gateSide'.channel = "OPEN" /\ gateSide'.challenge = frame.challenge
      /\ gateSide'.next = frame.sequence + 2
  BY <1>0, <1>1 DEF ClientTypes
<1>8. ClientTypes'
  <2>1. /\ toGate \in Seq(sent') /\ toClient \in Seq(sent') /\ accepted \in Seq(sent' \X sent')
        /\ answered \in [1 .. MaxGenerations -> Seq(sent' \X sent')]
        /\ \A d \in Digests : d \in Digests'
        /\ Digest(response) \in Digests' /\ response \in sent'
    BY <1>1, SentGrows
  <2>2. client' \in [generation : 1 .. MaxGenerations, challenge : Nat, next : Nat, last : Digests',
                 pending : {NoRequest} \cup sent', opened : BOOLEAN, over : BOOLEAN]
    BY <1>1, <2>1 DEF ClientTypes
  <2>3. gateSide' \in [generation : 1 .. MaxGenerations, channel : {"UNOPENED", "OPEN", "CLOSED"}, challenge : Nat,
                   next : Nat, last : Digests']
    <3>1. frame.sequence + 2 \in Nat
      BY <1>4
    <3>2. PICK opened : opened = [gateSide EXCEPT !.channel = "OPEN", !.challenge = frame.challenge]
      OBVIOUS
    <3>3. opened \in [generation : 1 .. MaxGenerations, channel : {"UNOPENED", "OPEN", "CLOSED"}, challenge : Nat,
                   next : Nat, last : Digests]
      BY <1>1, <1>4, <3>2 DEF ClientTypes
    <3>4. gateSide' = [opened EXCEPT !.next = frame.sequence + 2, !.last = Digest(response)]
      BY <3>2
    <3>5. QED
      BY <2>1, <3>1, <3>3, <3>4
  <2>4. toGate' \in Seq(sent') /\ toClient' \in Seq(sent')
    BY <2>1, SeqGrows
  <2>5. answered' \in [1 .. MaxGenerations -> Seq(sent' \X sent')]
    <3>1. <<frame, response>> \in sent' \X sent'
      BY <2>1
    <3>2. Append(answered[g], <<frame, response>>) \in Seq(sent' \X sent')
      BY <1>1, <2>1, <3>1
    <3>3. QED
      BY <1>0, <1>1, <2>1, <3>2
  <2>6. QED
    BY <2>1, <2>2, <2>3, <2>4, <2>5 DEF ClientTypes
<1>9. ASSUME NEW f \in sent' PROVE (Sound(f) /\ Made(f))'
  <2>1. CASE f \in sent
    <3>1. Sound(f) /\ Made(f)
      BY <2>1 DEF ClientInv
    <3>2. Sound(f)'
      BY <3>1 DEF Sound
    <3>3. ASSUME f.direction = "GATE_TO_BROKER"
          PROVE  \E k \in 1 .. Len(answered'[f.generation]) :
                    /\ answered'[f.generation][k][2] = f
                    /\ f.previous = Digest(answered'[f.generation][k][1])
      <4>1. PICK k \in 1 .. Len(answered[f.generation]) :
                    /\ answered[f.generation][k][2] = f
                    /\ f.previous = Digest(answered[f.generation][k][1])
        BY <3>1, <3>3 DEF Made
      <4>2. f.generation \in 1 .. MaxGenerations
        BY <3>1 DEF Sound
      <4>3. CASE f.generation = g
        <5>1. k \in 1 .. Len(answered'[g]) /\ answered'[g][k] = answered[g][k]
          BY <1>6, <4>1, <4>3
        <5>2. QED
          BY <4>1, <4>3, <5>1
      <4>4. CASE f.generation # g
        BY <1>5, <4>1, <4>2, <4>4
      <4>5. QED
        BY <4>3, <4>4
    <3>4. QED
      BY <3>2, <3>3 DEF Made
  <2>2. CASE f = response
    <3>1. Sound(f)'
      BY <1>1, <1>2, <1>3, <1>4, <2>2 DEF Sound
    <3>2. Len(answered[g]) + 1 \in 1 .. Len(answered'[g])
      BY <1>6
    <3>3. answered'[g][Len(answered[g]) + 1][2] = f /\ f.previous = Digest(answered'[g][Len(answered[g]) + 1][1])
      BY <1>3, <1>6, <2>2
    <3>4. Made(f)'
      BY <1>3, <2>2, <3>2, <3>3 DEF Made
    <3>5. QED
      BY <3>1, <3>4
  <2>3. QED
    BY <2>1, <2>2
<1>10. ClientEnd'
  BY DEF ClientInv, ClientEnd
<1>11. GateEnd'
  <2>1. gateSide'.next = 2 * Len(answered'[g]) + 1
    <3>1. PICK n \in Nat : n = Len(answered[g])
      BY <1>6
    <3>2. gateSide'.next = (2 * n + 1) + 2 /\ Len(answered'[g]) = n + 1
      BY <1>4, <1>6, <1>7, <3>1
    <3>3. (2 * n + 1) + 2 = 2 * (n + 1) + 1
      OBVIOUS
    <3>4. QED
      BY <3>2, <3>3
  <2>2. ASSUME NEW h \in 1 .. MaxGenerations, NEW k \in 1 .. Len(answered'[h])
        PROVE  answered'[h][k][1].sequence = 2 * k - 1
    <3>1. \A j \in 1 .. Len(answered[h]) : answered[h][j][1].sequence = 2 * j - 1
      BY DEF ClientInv, GateEnd
    <3>2. CASE h # g
      BY <1>5, <3>1, <3>2
    <3>3. CASE h = g /\ k \in 1 .. Len(answered[g])
      BY <1>6, <3>1, <3>3
    <3>4. CASE h = g /\ k = Len(answered[g]) + 1
      BY <1>4, <1>6, <3>4
    <3>5. QED
      BY <1>6, <3>2, <3>3, <3>4
  <2>3. \A h \in 1 .. MaxGenerations : h > g => Len(answered'[h]) = 0
    BY <1>0, <1>1, <1>5 DEF ClientInv, GateEnd
  <2>4. QED
    BY <1>7, <2>1, <2>2, <2>3 DEF GateEnd
<1>12. Agreed'
  <2>0. PICK c : c = client.generation
    OBVIOUS
  <2>1. /\ Len(accepted) <= Len(answered[c]) /\ \A k \in 1 .. Len(accepted) : accepted[k] = answered[c][k]
        /\ c \in 1 .. MaxGenerations /\ Len(accepted) \in Nat /\ client.next = 2 * Len(accepted) + 1
    BY <1>1, <2>0 DEF ClientInv, ClientTypes, ClientEnd, Agreed
  <2>2. Len(accepted) <= Len(answered'[c]) /\ \A k \in 1 .. Len(accepted) : accepted[k] = answered'[c][k]
    <3>1. CASE c = g
      BY <1>6, <2>1, <3>1
    <3>2. CASE c # g
      BY <1>5, <2>1, <3>2
    <3>3. QED
      BY <3>1, <3>2
  <2>3. ASSUME g = c, frame.challenge = client.challenge PROVE Len(answered'[c]) <= Len(accepted) + 1
    <3>1. frame.sequence <= client.next
      BY <1>2, <2>3 DEF Sound
    <3>2. 2 * Len(answered[g]) + 1 <= 2 * Len(accepted) + 1
      BY <1>4, <2>1, <3>1
    <3>3. QED
      BY <1>6, <2>1, <2>3, <3>2
  <2>4. QED
    BY <1>7, <2>0, <2>2, <2>3 DEF Agreed
<1>13. QED
  BY <1>8, <1>9, <1>10, <1>11, <1>12 DEF ClientInv


\* The gate takes a frame: it answers it, or the channel ends.
LEMMA GateFrameKeeps == ClientInv /\ GateFrame => ClientInv'
<1> SUFFICES ASSUME ClientInv, GateFrame PROVE ClientInv'
  OBVIOUS
<1>0. PICK frame : frame = Head(toGate)
  OBVIOUS
<1>1. frame \in sent /\ toGate' \in Seq(sent) /\ toClient \in Seq(sent) /\ gateSide.challenge \in Nat
  BY <1>0 DEF GateFrame, ClientInv, ClientTypes
<1>2. frame.challenge \in Nat
  BY <1>1 DEF ClientInv, Sound
<1>3. client' = client /\ accepted' = accepted /\ deviated' = deviated /\ late' = late
  BY DEF GateFrame
<1> DEFINE Opened == [gateSide EXCEPT !.channel = "OPEN", !.challenge = frame.challenge]
           Answers2(result) ==
             /\ gateSide' = [Opened EXCEPT !.next = frame.sequence + 2, !.last = Digest(Reply(gateSide, frame, result))]
             /\ toClient' = Append(toClient, Reply(gateSide, frame, result))
             /\ sent' = sent \cup {Reply(gateSide, frame, result)}
             /\ answered' = [answered EXCEPT ![gateSide.generation] =
                               Append(@, <<frame, Reply(gateSide, frame, result)>>)]
<1>4. \/ IsNext(gateSide, frame) /\ \E result \in {"OK", "REFUSED"} : Answers2(result)
      \/ gateSide' = Fatal(Opened) /\ UNCHANGED <<toClient, sent, answered>>
      \/ gateSide' = Fatal(gateSide) /\ UNCHANGED <<toClient, sent, answered>>
  BY <1>0 DEF GateFrame
<1>5. ASSUME NEW result \in {"OK", "REFUSED"}, IsNext(gateSide, frame), Answers2(result) PROVE ClientInv'
  <2>1. PICK response : response = Reply(gateSide, frame, result)
    OBVIOUS
  <2>2. QED
    BY <1>1, <1>3, <1>5, <2>1, AnswerKeeps
<1>6. CASE gateSide' = Fatal(Opened) /\ UNCHANGED <<toClient, sent, answered>>
  <2>1. gateSide' = [gateSide EXCEPT !.channel = "CLOSED", !.challenge = frame.challenge]
    BY <1>6 DEF Fatal, ClientInv, ClientTypes
  <2>2. QED
    BY <1>1, <1>2, <1>3, <1>6, <2>1, FatalKeeps
<1>7. CASE gateSide' = Fatal(gateSide) /\ UNCHANGED <<toClient, sent, answered>>
  <2>1. gateSide' = [gateSide EXCEPT !.channel = "CLOSED", !.challenge = gateSide.challenge]
    BY <1>7 DEF Fatal, ClientInv, ClientTypes
  <2>2. QED
    BY <1>1, <1>3, <1>7, <2>1, FatalKeeps
<1>8. QED
  BY <1>4, <1>5, <1>6, <1>7

\* A frame sent before is delivered again, to either end.
LEMMA ReplayKeeps == ClientInv /\ Replay => ClientInv'
<1> SUFFICES ASSUME ClientInv, Replay PROVE ClientInv'
  OBVIOUS
<1>1. PICK frame \in sent :
        \/ toGate' = <<frame>> \o toGate /\ UNCHANGED toClient
        \/ toClient' = <<frame>> \o toClient /\ UNCHANGED toGate
  BY DEF Replay
<1>2. <<frame>> \in Seq(sent) /\ toGate \in Seq(sent) /\ toClient \in Seq(sent)
  BY DEF ClientInv, ClientTypes
<1>3. toGate' \in Seq(sent) /\ toClient' \in Seq(sent)
  <2>1. <<frame>> \o toGate \in Seq(sent) /\ <<frame>> \o toClient \in Seq(sent)
    BY <1>2, SequenceConcat
  <2>2. QED
    BY <1>1, <1>2, <2>1
<1>4. UNCHANGED <<client, gateSide, sent, answered, accepted, deviated, late>>
  BY DEF Replay
<1>5. QED
  BY <1>3, <1>4 DEF ClientInv, ClientTypes, Digests, Sound, Made, ClientEnd, GateEnd, Agreed

\* A new client has a challenge no frame carries yet, and the gate's channel is not open.
LEMMA ReopenKeeps == ClientInv /\ Reopen => ClientInv'
<1> SUFFICES ASSUME ClientInv, Reopen PROVE ClientInv'
  OBVIOUS
<1>0. ClientTypes /\ client' = Open(gateSide.generation, client.challenge + 1) /\ sent' = sent /\ answered' = answered
      /\ accepted' = <<>> /\ ~deviated' /\ toGate' = <<>> /\ toClient' = <<>> /\ late' = late
  BY DEF ClientInv, Reopen
<1>1. /\ gateSide'.channel # "OPEN" /\ gateSide'.generation = gateSide.generation /\ gateSide'.next = gateSide.next
      /\ gateSide' \in [generation : 1 .. MaxGenerations, channel : {"UNOPENED", "OPEN", "CLOSED"}, challenge : Nat,
                   next : Nat, last : Digests]
  <2>1. gateSide' = IF gateSide.channel = "OPEN" THEN Fatal(gateSide) ELSE gateSide
    BY DEF Reopen
  <2>2. QED
    BY <1>0, <2>1 DEF ClientTypes, Fatal
<1>2. /\ client'.generation = gateSide.generation /\ client'.challenge = client.challenge + 1 /\ client'.next = 1
      /\ client'.pending = NoRequest
  BY <1>0 DEF Open
<1>3. ClientTypes'
  BY <1>0, <1>1 DEF ClientTypes, Digests, Open
<1>4. ASSUME NEW f \in sent' PROVE (Sound(f) /\ Made(f))'
  <2>1. Sound(f) /\ Made(f) /\ client.challenge \in Nat
    BY <1>0, <1>4 DEF ClientInv, ClientTypes
  <2>2. Sound(f)'
    BY <1>2, <2>1 DEF Sound
  <2>3. QED
    BY <1>0, <2>1, <2>2 DEF Made
<1>5. ClientEnd'
  BY <1>0, <1>2 DEF ClientInv, ClientEnd
<1>6. GateEnd'
  BY <1>0, <1>1 DEF ClientInv, GateEnd
<1>7. Agreed'
  <2>1. Len(accepted') = 0 /\ Len(answered[gateSide.generation]) \in Nat
    BY <1>0 DEF ClientTypes
  <2>2. QED
    BY <1>0, <1>1, <1>2, <2>1 DEF Agreed
<1>8. QED
  BY <1>3, <1>4, <1>5, <1>6, <1>7 DEF ClientInv

\* A new generation of the gate has answered nothing.
LEMMA RegenerateKeeps == ClientInv /\ Regenerate => ClientInv'
<1> SUFFICES ASSUME ClientInv, Regenerate PROVE ClientInv'
  OBVIOUS
<1>0. /\ ClientTypes /\ gateSide' = Serve(gateSide.generation + 1) /\ toGate' = <<>> /\ toClient' = <<>>
      /\ UNCHANGED <<client, sent, answered, accepted, deviated, late>>
      /\ gateSide.generation < MaxGenerations
  BY DEF ClientInv, Regenerate
<1>1. gateSide.generation + 1 \in 1 .. MaxGenerations /\ gateSide.generation \in Nat
  BY <1>0, GenerationsAssumption DEF ClientTypes
<1>2. /\ gateSide'.generation = gateSide.generation + 1 /\ gateSide'.next = 1 /\ gateSide'.channel = "UNOPENED"
  BY <1>0 DEF Serve
<1>3. ClientTypes'
  BY <1>0, <1>1 DEF ClientTypes, Digests, Serve
<1>4. \A f \in sent' : (Sound(f) /\ Made(f))'
  BY <1>0 DEF ClientInv, Sound, Made
<1>5. ClientEnd'
  BY <1>0 DEF ClientInv, ClientEnd
<1>6. GateEnd'
  <2>1. Len(answered[gateSide.generation + 1]) = 0
    BY <1>1 DEF ClientInv, GateEnd
  <2>2. \A g \in 1 .. MaxGenerations : g > gateSide.generation + 1 => g > gateSide.generation
    BY <1>1
  <2>3. QED
    BY <1>0, <1>2, <2>1, <2>2 DEF ClientInv, GateEnd
<1>7. Agreed'
  BY <1>0, <1>2 DEF ClientInv, Agreed
<1>8. QED
  BY <1>3, <1>4, <1>5, <1>6, <1>7 DEF ClientInv

\* The two ends of the channel keep count alike, whatever frames come again and
\* whichever of them starts again.
THEOREM ClientSafe == ClientSpec => []ClientInv
<1>1. ClientInv /\ UNCHANGED clientVars => ClientInv'
  BY DEF clientVars, ClientInv, ClientTypes, Digests, Sound, Made, ClientEnd, GateEnd, Agreed
<1>2. ClientInv /\ [ClientNext]_clientVars => ClientInv'
  BY <1>1, AskKeeps, TakeKeeps, GateFrameKeeps, ReplayKeeps, ReopenKeeps, RegenerateKeeps DEF ClientNext
<1>3. QED
  BY ClientStarts, <1>2, PTL DEF ClientSpec

\* What the broker accepts is what the gate of its generation answered to its
\* own requests, in order, and nothing follows an error (InLockstep).
THEOREM ChannelInLockstep == ClientSpec => []InLockstep
BY ClientSafe, LockstepFollows, PTL

=============================================================================
