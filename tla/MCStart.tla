------------------------------- MODULE MCStart -------------------------------
(* Two parts of a host process's start on small instances: how a process of  *)
(* each role comes up, and how gate processes open and share the store files *)
(* they find.  They share nothing; `job' names the one that moves.           *)
EXTENDS RoleStart, FileStore, TLC

VARIABLE job

\* One kept set for both roles that keep one, and another capability.
MCKeptBy == [r \in Roles |-> IF r = "gate" THEN {} ELSE {"kept"}]

Symmetry == Permutations(Procs) \cup Permutations(Docs) \cup Permutations(Execs) \cup Permutations(Gens)

IdleKernel == CHOOSE k \in StartKernels({}) : k.threads = 2 /\ k.foreign = {}

MCInit ==
  /\ job \in {"start", "store"}
  /\ StartInit
  /\ job = "store" => role = "gate" /\ begin = IdleKernel
  /\ Init

MCNext ==
  \/ job = "start" /\ StartNext /\ UNCHANGED <<job, vars>>
  \/ job = "store" /\ Next /\ UNCHANGED <<job, startVars>>

MCSpec == MCInit /\ [][MCNext]_<<job, startVars, vars>>
=============================================================================
