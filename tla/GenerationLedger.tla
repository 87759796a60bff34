-------------------------- MODULE GenerationLedger --------------------------
(***************************************************************************)
(* What the foundation reconciliation promises for one generation, with    *)
(* no store, no workers and no failures: the generation is bound once to a *)
(* plan; the plan's resources are brought up in plan order, each recorded  *)
(* once it is live and never more than one live beyond the recorded ones;  *)
(* the outcome is announced when all are recorded, and only then is the    *)
(* generation complete, for good.                                          *)
(***************************************************************************)
EXTENDS Naturals, Sequences

CONSTANTS
    Plans,       \* the plans a generation may be bound to
    Order,       \* Order[p]: the identities of plan p, in plan order
    Unbound      \* not a plan

VARIABLES
    bound,       \* the plan of the generation, or Unbound
    done,        \* how many resources are recorded
    live,        \* the identities that exist
    announced,   \* the outcome has been published
    complete     \* the generation is complete

vars == <<bound, done, live, announced, complete>>

Init ==
    /\ bound = Unbound
    /\ done = 0
    /\ live = {}
    /\ announced = FALSE
    /\ complete = FALSE

Bind ==
    /\ bound = Unbound
    /\ bound' \in Plans
    /\ UNCHANGED <<done, live, announced, complete>>

Raise ==
    /\ bound \in Plans
    /\ done < Len(Order[bound])
    /\ live' = live \cup {Order[bound][done + 1]}
    /\ UNCHANGED <<bound, done, announced, complete>>

Record ==
    /\ bound \in Plans
    /\ done < Len(Order[bound])
    /\ Order[bound][done + 1] \in live
    /\ done' = done + 1
    /\ UNCHANGED <<bound, live, announced, complete>>

Announce ==
    /\ bound \in Plans
    /\ done = Len(Order[bound])
    /\ announced' = TRUE
    /\ UNCHANGED <<bound, done, live, complete>>

Finish ==
    /\ announced
    /\ complete' = TRUE
    /\ UNCHANGED <<bound, done, live, announced>>

Next == Bind \/ Raise \/ Record \/ Announce \/ Finish

Spec == Init /\ [][Next]_vars
=============================================================================
