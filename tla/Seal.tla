-------------------------------- MODULE Seal --------------------------------
(* The process seal of the three host roles: what a role's process does to   *)
(* itself, in two stages, before it may open a socket.  The gate has a seal  *)
(* of its own (effect-gate/src/seal.rs), which drops every capability; the   *)
(* broker and the observer share role-seal/src/lib.rs, which keeps a named   *)
(* set and drops nothing.  A stage is the sequence of its SealSteps; a step  *)
(* is one kernel call, a write or a read that must return what the plan      *)
(* says.  The kernel's side of a call is external.                           *)
EXTENDS Naturals, Sequences

CONSTANTS Caps,      \* the capabilities that are told apart
          SetPcap,   \* CAP_SETPCAP
          KeptBy     \* the set the role's specification keeps (KEPT), per role

Roles == {"gate", "broker", "observer"}

ASSUME SealAssumption ==
  /\ SetPcap \in Caps
  /\ KeptBy \in [Roles -> SUBSET Caps]
  /\ KeptBy["gate"] = {}

-----------------------------------------------------------------------------
(* The process as the kernel keeps it (external).                            *)

\* The identities a start check may find not to be root's.
Identities == {"uid", "gid", "fsuid", "fsgid", "groups"}

Kernels ==
  [effective : SUBSET Caps, permitted : SUBSET Caps, inheritable : SUBSET Caps,
   bounding : SUBSET Caps, ambient : SUBSET Caps, nnp : BOOLEAN, core : BOOLEAN,
   filtered : BOOLEAN, threads : {1, 2}, foreign : SUBSET Identities]

\* The sets a process can have: effective within permitted, ambient within
\* permitted and inheritable.
Consistent(k) == k.effective \subseteq k.permitted /\ k.ambient \subseteq k.permitted \cap k.inheritable

CapabilitySets(k) == [effective |-> k.effective, permitted |-> k.permitted, inheritable |-> k.inheritable]

\* capset only lowers the permitted set, and the ambient set with it.
MayCapset(k, target) == target \subseteq k.permitted
Capset(k, target) ==
  [k EXCEPT !.effective = target, !.permitted = target, !.inheritable = {}, !.ambient = {}]

\* PR_CAPBSET_DROP needs CAP_SETPCAP in the effective set.
MayDrop(k, drops) == drops = {} \/ SetPcap \in k.effective

\* A filter needs no_new_privs (or CAP_SYS_ADMIN, which no plan keeps).
MayFilter(k) == k.nnp

\* The kernel does what a call asks.
Permits(call, k) ==
  CASE call.op = "drop" -> MayDrop(k, call.set)
    [] call.op = "capset" -> MayCapset(k, call.set)
    [] call.op = "seccomp" -> MayFilter(k)
    [] OTHER -> TRUE

After(call, k) ==
  CASE call.op = "core" -> [k EXCEPT !.core = FALSE]
    [] call.op = "ambient" -> [k EXCEPT !.ambient = {}]
    [] call.op = "drop" -> [k EXCEPT !.bounding = @ \ call.set]
    [] call.op = "capset" -> Capset(k, call.set)
    [] call.op = "nnp" -> [k EXCEPT !.nnp = TRUE]
    [] call.op = "seccomp" -> [k EXCEPT !.filtered = TRUE]

-----------------------------------------------------------------------------
(* The specifications and the plans.                                         *)

Call(op, set) == [op |-> op, set |-> set]

\* permitted = effective = the set, inheritable empty.
Sets(set) == [effective |-> set, permitted |-> set, inheritable |-> {}]

BrokerSpec == [bounding |-> KeptBy["broker"], kept |-> KeptBy["broker"]]
ObserverSpec == [bounding |-> KeptBy["observer"], kept |-> KeptBy["observer"]]
RoleSpec(role) == IF role = "broker" THEN BrokerSpec ELSE ObserverSpec

\* The gate's plan, from the sets the process starts with: the first stage
\* keeps CAP_SETPCAP alone, where it is there, and the second drops it too.
GatePlan(k) ==
  [drops1 |-> k.bounding \ {SetPcap}, bounding1 |-> k.bounding \cap {SetPcap},
   set1 |-> k.permitted \cap {SetPcap}, drops2 |-> k.bounding \cap {SetPcap}]

\* Mutant: the ambient set is not looked at.
AcceptStartAmbient(spec, k) ==
  k.bounding = spec.bounding /\ spec.kept \subseteq k.permitted

\* accept_start: the start sets a role that keeps a set accepts, before any write.
AcceptStart(spec, k) ==
  /\ k.bounding = spec.bounding
  /\ spec.kept \subseteq k.permitted
  /\ k.ambient = {}

-----------------------------------------------------------------------------
(* The gate's stages.                                                        *)

GateStage1 ==
  <<"Threads", "UserIds", "GroupIds", "StartCapabilities", "StartBounding", "Program",
    "CoreLimit", "CoreLimitReadBack", "AmbientClear", "AmbientReadBack",
    "BoundingDrop1", "BoundingReadBack1", "Capabilities1", "CapabilitiesReadBack1",
    "NoNewPrivs", "NoNewPrivsReadBack">>

GateStage2 ==
  <<"Threads", "BoundingDrop2", "BoundingReadBack2", "Capabilities2", "CapabilitiesReadBack2",
    "FinalCapabilities", "FinalBounding", "FinalAmbient", "FinalNoNewPrivs", "FinalCoreLimit",
    "Filter">>

GateCall(step, plan) ==
  CASE step = "CoreLimit" -> Call("core", {})
    [] step = "AmbientClear" -> Call("ambient", {})
    [] step = "BoundingDrop1" -> Call("drop", plan.drops1)
    [] step = "BoundingDrop2" -> Call("drop", plan.drops2)
    [] step = "Capabilities1" -> Call("capset", plan.set1)
    [] step = "Capabilities2" -> Call("capset", {})
    [] step = "NoNewPrivs" -> Call("nnp", {})
    [] step = "Filter" -> Call("seccomp", {})

\* What a read of the gate's seal must return.
GateExpects(step, plan, k) ==
  CASE step = "Threads" -> k.threads = 1
    [] step = "UserIds" -> "uid" \notin k.foreign
    [] step = "GroupIds" -> "gid" \notin k.foreign
    [] step \in {"StartCapabilities", "StartBounding", "Program"} -> TRUE
    [] step \in {"CoreLimitReadBack", "FinalCoreLimit"} -> ~k.core
    [] step \in {"AmbientReadBack", "FinalAmbient"} -> k.ambient = {}
    [] step = "BoundingReadBack1" -> k.bounding = plan.bounding1
    [] step \in {"BoundingReadBack2", "FinalBounding"} -> k.bounding = {}
    [] step = "CapabilitiesReadBack1" -> CapabilitySets(k) = Sets(plan.set1)
    [] step \in {"CapabilitiesReadBack2", "FinalCapabilities"} -> CapabilitySets(k) = Sets({})
    [] step \in {"NoNewPrivsReadBack", "FinalNoNewPrivs"} -> k.nnp

-----------------------------------------------------------------------------
(* The stages of the roles that keep a set.                                  *)

RoleStage1 ==
  <<"Threads", "UserIds", "GroupIds", "StartCapabilities", "StartBounding", "StartAmbient",
    "StartState", "Program", "CoreLimit", "CoreLimitReadBack", "Ambient",
    "Capabilities1", "CapabilitiesReadBack1", "NoNewPrivs", "NoNewPrivsReadBack">>

\* Mutant: the thread count is what the first stage found.
RoleStage2Unthreaded ==
  <<"FinalCapabilities", "FinalBounding", "FinalAmbient", "FinalNoNewPrivs", "FinalCoreLimit", "Filter">>

RoleStage2 ==
  <<"Threads", "FinalCapabilities", "FinalBounding", "FinalAmbient", "FinalNoNewPrivs",
    "FinalCoreLimit", "Filter">>

RoleCall(step, spec) ==
  CASE step = "CoreLimit" -> Call("core", {})
    [] step = "Capabilities1" -> Call("capset", spec.kept)
    [] step = "NoNewPrivs" -> Call("nnp", {})
    [] step = "Filter" -> Call("seccomp", {})

\* What a read of role-seal must return.
RoleExpects(step, spec, k) ==
  CASE step = "Threads" -> k.threads = 1
    [] step = "UserIds" -> "uid" \notin k.foreign
    [] step = "GroupIds" -> "gid" \notin k.foreign
    [] step \in {"StartCapabilities", "StartBounding", "StartAmbient", "Program"} -> TRUE
    [] step = "StartState" -> AcceptStart(spec, k)
    [] step \in {"CoreLimitReadBack", "FinalCoreLimit"} -> ~k.core
    [] step \in {"Ambient", "FinalAmbient"} -> k.ambient = {}
    [] step \in {"CapabilitiesReadBack1", "FinalCapabilities"} -> CapabilitySets(k) = Sets(spec.kept)
    [] step = "FinalBounding" -> k.bounding = spec.bounding
    [] step \in {"NoNewPrivsReadBack", "FinalNoNewPrivs"} -> k.nnp

\* The broker's pre-check, over one read of its own status.
PreCheckSteps == <<"StartStatus", "FsUid", "FsGid", "StartGroups">>

PreCheck(step, k) ==
  CASE step = "StartStatus" -> TRUE
    [] step = "FsUid" -> "fsuid" \notin k.foreign
    [] step = "FsGid" -> "fsgid" \notin k.foreign
    [] step = "StartGroups" -> "groups" \notin k.foreign

-----------------------------------------------------------------------------
(* A role's seal: its steps with the exit status of each.  The statuses run  *)
(* in the order of the steps: the pre-check's from 36, stage 1's from 40 and *)
(* stage 2's from 60.                                                        *)

Numbered(steps, first) == [i \in 1 .. Len(steps) |-> [step |-> steps[i], status |-> first + i - 1]]

GateSteps == [first |-> Numbered(GateStage1, 40), second |-> Numbered(GateStage2, 60)]
BrokerSteps == [first |-> Numbered(PreCheckSteps, 36) \o Numbered(RoleStage1, 40),
                second |-> Numbered(RoleStage2, 60)]
ObserverSteps == [first |-> Numbered(RoleStage1, 40), second |-> Numbered(RoleStage2, 60)]

Writes == {"CoreLimit", "AmbientClear", "BoundingDrop1", "BoundingDrop2",
           "Capabilities1", "Capabilities2", "NoNewPrivs", "Filter"}

WriteOf(role, step, plan) ==
  IF role = "gate" THEN GateCall(step, plan) ELSE RoleCall(step, RoleSpec(role))

ReadHolds(role, step, plan, k) ==
  CASE role = "gate" -> GateExpects(step, plan, k)
    [] step \in {"StartStatus", "FsUid", "FsGid", "StartGroups"} -> PreCheck(step, k)
    [] OTHER -> RoleExpects(step, RoleSpec(role), k)

-----------------------------------------------------------------------------
(* What the seal promises.                                                   *)

\* Stage1: one thread of root's, no core file, no ambient capability,
\* no_new_privs, and no capability beyond what the role keeps or CAP_SETPCAP.
Stage1Closed(role, k) ==
  /\ ~k.core /\ k.nnp /\ k.ambient = {} /\ k.inheritable = {}
  /\ k.effective = k.permitted
  /\ IF role = "gate" THEN k.permitted \cup k.bounding \subseteq {SetPcap}
     ELSE k.permitted = KeptBy[role]

\* Sealed: all of it, exactly the kept set everywhere, one thread and the filter.
SealedClosed(role, k) ==
  /\ Stage1Closed(role, k)
  /\ k.permitted = KeptBy[role] /\ k.bounding = KeptBy[role]
  /\ k.threads = 1 /\ k.filtered /\ k.foreign \cap {"uid", "gid"} = {}

\* The starts a role's process can be sealed from.
Acceptable(role, k) ==
  /\ k.threads = 1
  /\ k.foreign \cap {"uid", "gid"} = {}
  /\ role = "broker" => k.foreign = {}
  /\ IF role = "gate"
     THEN /\ k.bounding \subseteq {SetPcap} \/ SetPcap \in k.effective
          /\ SetPcap \in k.bounding => SetPcap \in k.permitted
     ELSE AcceptStart(RoleSpec(role), k)
=============================================================================
