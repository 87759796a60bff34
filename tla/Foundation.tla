----------------------------- MODULE Foundation -----------------------------
(***************************************************************************)
(* The foundation reconciliation engine of the Harness operator            *)
(* (internal/controller/foundation/engine.go) over its three backends: the *)
(* compare-and-swap inventory store, the server-side-apply port and the    *)
(* status sink.                                                            *)
(*                                                                         *)
(* Several calls of Engine.Reconcile may run at once (a restarted operator *)
(* beside a slow predecessor), each for any plan that has the same         *)
(* inventory key (organization/installation/generation).  Every call of a  *)
(* backend is one step; the local work between two calls belongs to the    *)
(* step before it.  Digests, UIDs and names are opaque values.             *)
(***************************************************************************)
EXTENDS Naturals, Sequences, FiniteSets

CONSTANTS
    Workers,     \* calls of Reconcile that may be in progress at once
    Plans,       \* valid plans whose inventory key is this one
    Identities,  \* resource identities (apiVersion/kind/namespace/name)
    Digests,     \* manifest digests
    Stamps,      \* what one apply answers beside the digest: UID, version, time
    Times,       \* the StartedAt and CompletedAt a caller fixes for its call
    Resources,   \* Resources[p]: flatten(p), the planned resources in order
    WaveCount,   \* WaveCount[p]: len(p.Waves)
    None         \* no identity, no inventory, no receipt

Planned == [wave: Nat, resource: Nat, id: Identities, digest: Digests]

(* What ValidatePlan and flatten guarantee of the flattened plan: it is    *)
(* not empty, it starts at position 0/0 and no identity occurs twice.      *)
ASSUME PlanAssumption ==
    /\ Resources \in [Plans -> Seq(Planned)]
    /\ WaveCount \in [Plans -> Nat]
    /\ \A p \in Plans :
         /\ Len(Resources[p]) > 0
         /\ Resources[p][1].wave = 0 /\ Resources[p][1].resource = 0
         /\ \A i, j \in 1..Len(Resources[p]) :
              Resources[p][i].id = Resources[p][j].id => i = j

ASSUME NoneAssumption == None \notin Identities /\ None \notin Digests

VARIABLES
    inventory,   \* the stored GenerationInventory, or None
    revision,    \* its revision in the store; 0 while there is none
    cluster,     \* cluster[id]: the digest of the live object, or None
    published,   \* the outcomes handed to the status sink
    returned,    \* the outcomes Reconcile has returned to its callers
    last,        \* "failure" after a failure from outside, else "step"
    pc,          \* pc[w]: the backend call worker w makes next
    input,       \* input[w]: the plan w reconciles
    times,       \* times[w]: the times its caller fixed
    current,     \* current[w]: w's local copy of the inventory
    base,        \* base[w]: the revision that copy was read or written at
    receipt      \* receipt[w]: a validated receipt not yet recorded

vars == <<inventory, revision, cluster, published, returned, last, pc, input,
          times, current, base, receipt>>

States == {"APPLYING", "WAVE_APPLYING", "STATUS_PENDING", "COMPLETE"}

ResourceRecord == [wave: Nat, id: Identities, desired: Digests,
                   observed: Digests, stamp: Stamps]

GenerationInventory ==
    [binding: Plans, state: States, nextWave: Nat, nextResource: Nat,
     nextIdentity: Identities \cup {None}, records: Seq(ResourceRecord)]

Receipt == [id: Identities, observed: Digests, stamp: Stamps]

Outcome == [plan: Plans, times: Times, records: Seq(ResourceRecord)]

(***************************************************************************)
(* The position of plan p's loop in a copy `inv' of the inventory.         *)
(***************************************************************************)
Remaining(p, inv) == Len(inv.records) < Len(Resources[p])

NextPlanned(p, inv) == Resources[p][Len(inv.records) + 1]

(* The inventory a first reconcile creates.                                *)
Fresh(p) ==
    [binding |-> p, state |-> "APPLYING", nextWave |-> 0, nextResource |-> 0,
     nextIdentity |-> None, records |-> <<>>]

(* Mutant: an inventory that is APPLYING needs no write before an apply.   *)
PreparedIfApplying(p, inv) ==
    IF Remaining(p, inv)
    THEN inv.state \in {"APPLYING", "WAVE_APPLYING"}
    ELSE inv.state = "STATUS_PENDING"

(* The cursor is already the one the next backend call needs.              *)
Prepared(p, inv) ==
    IF Remaining(p, inv)
    THEN /\ inv.state = "WAVE_APPLYING"
         /\ inv.nextIdentity = NextPlanned(p, inv).id
    ELSE inv.state = "STATUS_PENDING"

(* The write that precedes an apply, or the status when none is left.      *)
Prepare(p, inv) ==
    IF Remaining(p, inv)
    THEN [inv EXCEPT !.state = "WAVE_APPLYING",
                     !.nextWave = NextPlanned(p, inv).wave,
                     !.nextResource = NextPlanned(p, inv).resource,
                     !.nextIdentity = NextPlanned(p, inv).id]
    ELSE [inv EXCEPT !.state = "STATUS_PENDING",
                     !.nextWave = WaveCount[p],
                     !.nextResource = 0,
                     !.nextIdentity = None]

(* Mutant: completion is written without publishing the status.            *)
ContinueUnpublished(p, inv) ==
    IF ~Prepared(p, inv) THEN "prepare"
    ELSE IF Remaining(p, inv) THEN "apply" ELSE "complete"

(* Mutant: a reconcile that has nothing left to apply returns.             *)
ContinueDone(p, inv) ==
    IF ~Prepared(p, inv) THEN "prepare"
    ELSE IF Remaining(p, inv) THEN "apply" ELSE "idle"

(* Where the loop goes from `inv'.                                         *)
Continue(p, inv) ==
    IF ~Prepared(p, inv) THEN "prepare"
    ELSE IF Remaining(p, inv) THEN "apply" ELSE "publish"

(* Mutant: the receipt is appended and the cursor is left where it was.    *)
RecordedStaleCursor(p, inv, r) ==
    [inv EXCEPT
       !.records = Append(@,
          [wave |-> NextPlanned(p, inv).wave, id |-> r.id,
           desired |-> NextPlanned(p, inv).digest,
           observed |-> r.observed, stamp |-> r.stamp]),
       !.nextIdentity = None,
       !.state = IF Len(inv.records) + 1 < Len(Resources[p])
                 THEN "APPLYING" ELSE "STATUS_PENDING"]

(* The receipt r appended as a record, with the cursor moved on.           *)
Recorded(p, inv, r) ==
    LET grown == [inv EXCEPT
                    !.records = Append(@,
                       [wave |-> NextPlanned(p, inv).wave, id |-> r.id,
                        desired |-> NextPlanned(p, inv).digest,
                        observed |-> r.observed, stamp |-> r.stamp]),
                    !.nextIdentity = None]
    IN IF Remaining(p, grown)
       THEN [grown EXCEPT !.state = "APPLYING",
                          !.nextWave = NextPlanned(p, grown).wave,
                          !.nextResource = NextPlanned(p, grown).resource]
       ELSE [grown EXCEPT !.state = "STATUS_PENDING",
                          !.nextWave = WaveCount[p],
                          !.nextResource = 0]

(* inventory.Validate: the binding; records that are sound and distinct.   *)
Validate(inv, p) ==
    /\ inv.binding = p
    /\ inv.state \in States
    /\ \A i \in 1..Len(inv.records) :
         inv.records[i].desired = inv.records[i].observed
    /\ \A i, j \in 1..Len(inv.records) :
         inv.records[i].id = inv.records[j].id => i = j

(* The stored cursor is one the loop can go on from.                       *)
CursorValid(inv, p) ==
    /\ inv.state = "WAVE_APPLYING" =>
         /\ Remaining(p, inv)
         /\ inv.nextWave = NextPlanned(p, inv).wave
         /\ inv.nextResource = NextPlanned(p, inv).resource
         /\ inv.nextIdentity = NextPlanned(p, inv).id
    /\ inv.state = "APPLYING" =>
         /\ inv.nextIdentity = None
         /\ Remaining(p, inv) =>
              /\ inv.nextWave = NextPlanned(p, inv).wave
              /\ inv.nextResource = NextPlanned(p, inv).resource
    /\ inv.state \in {"STATUS_PENDING", "COMPLETE"} =>
         /\ Len(inv.records) = Len(Resources[p])
         /\ inv.nextWave = WaveCount[p]
         /\ inv.nextResource = 0
         /\ inv.nextIdentity = None

(* validateResume: may a reconcile of plan p go on from the stored `inv'?  *)
ValidateResume(inv, p) ==
    /\ Validate(inv, p)
    /\ Len(inv.records) <= Len(Resources[p])
    /\ \A i \in 1..Len(inv.records) :
         /\ inv.records[i].wave = Resources[p][i].wave
         /\ inv.records[i].id = Resources[p][i].id
         /\ inv.records[i].desired = Resources[p][i].digest
         /\ inv.records[i].observed = Resources[p][i].digest
    /\ CursorValid(inv, p)

(* buildOutcome: the evidence and its digest are over the plan, the         *)
(* projection of the inventory (its records) and the times of the call.    *)
BuildOutcome(p, t, inv) == [plan |-> p, times |-> t, records |-> inv.records]

(***************************************************************************)
(* The initial state and the steps of a reconcile.                         *)
(***************************************************************************)
Init ==
    /\ inventory = None
    /\ revision = 0
    /\ cluster = [i \in Identities |-> None]
    /\ published = {}
    /\ returned = {}
    /\ last = "step"
    /\ pc = [w \in Workers |-> "idle"]
    /\ input = [w \in Workers |-> None]
    /\ times = [w \in Workers |-> None]
    /\ current = [w \in Workers |-> None]
    /\ base = [w \in Workers |-> 0]
    /\ receipt = [w \in Workers |-> None]

(* Worker w returns: its local state is gone.                              *)
Return(w) ==
    /\ pc' = [pc EXCEPT ![w] = "idle"]
    /\ input' = [input EXCEPT ![w] = None]
    /\ times' = [times EXCEPT ![w] = None]
    /\ current' = [current EXCEPT ![w] = None]
    /\ base' = [base EXCEPT ![w] = 0]
    /\ receipt' = [receipt EXCEPT ![w] = None]

(* Worker w goes on to `call' for plan p and times t with copy `inv' at    *)
(* revision r.                                                             *)
Proceed(w, call, p, t, inv, r) ==
    /\ pc' = [pc EXCEPT ![w] = call]
    /\ input' = [input EXCEPT ![w] = p]
    /\ times' = [times EXCEPT ![w] = t]
    /\ current' = [current EXCEPT ![w] = inv]
    /\ base' = [base EXCEPT ![w] = r]
    /\ receipt' = [receipt EXCEPT ![w] = None]

(* Mutant: the store is overwritten whatever its revision.                 *)
OverwriteStore(w, value, call) ==
    /\ inventory' = value
    /\ revision' = revision + 1
    /\ IF call = "idle"
       THEN Return(w)
       ELSE Proceed(w, call, input[w], times[w], value, revision + 1)

(* Store.CompareAndSwap of `value' at the revision w holds: it is stored   *)
(* and w goes on to `call', or another writer was first and w is refused.  *)
CompareAndSwap(w, value, call) ==
    \/ /\ revision = base[w]
       /\ inventory' = value
       /\ revision' = revision + 1
       /\ IF call = "idle"
          THEN Return(w)
          ELSE Proceed(w, call, input[w], times[w], value, revision + 1)
    \/ /\ revision # base[w]
       /\ Return(w)
       /\ UNCHANGED <<inventory, revision>>

(* A reconcile of plan p starts and loads the inventory: there is none, or *)
(* it can be resumed, or it is complete and the outcome is built anew, or  *)
(* it is refused.                                                          *)
Load(w, p) ==
    /\ pc[w] = "idle"
    /\ \E t \in Times :
       \/ /\ revision = 0
          /\ Proceed(w, "create", p, t, Fresh(p), 0)
          /\ UNCHANGED returned
       \/ /\ revision > 0
          /\ ValidateResume(inventory, p)
          /\ inventory.state # "COMPLETE"
          /\ Proceed(w, Continue(p, inventory), p, t, inventory, revision)
          /\ UNCHANGED returned
       \/ /\ revision > 0
          /\ ValidateResume(inventory, p)
          /\ inventory.state = "COMPLETE"
          /\ returned' = returned \cup {BuildOutcome(p, t, inventory)}
          /\ UNCHANGED <<pc, input, times, current, base, receipt>>
       \/ /\ revision > 0
          /\ ~ValidateResume(inventory, p)
          /\ UNCHANGED <<returned, pc, input, times, current, base, receipt>>
    /\ last' = "step"
    /\ UNCHANGED <<inventory, revision, cluster, published>>

Create(w) ==
    /\ pc[w] = "create"
    /\ CompareAndSwap(w, current[w], Continue(input[w], current[w]))
    /\ last' = "step"
    /\ UNCHANGED <<cluster, published, returned>>

PrepareNext(w) ==
    /\ pc[w] = "prepare"
    /\ LET value == Prepare(input[w], current[w])
       IN CompareAndSwap(w, value, Continue(input[w], value))
    /\ last' = "step"
    /\ UNCHANGED <<cluster, published, returned>>

(* Applier.Apply answers a receipt that apply.ValidateReceipt accepts.     *)
Apply(w) ==
    /\ pc[w] = "apply"
    /\ \E s \in Stamps :
         receipt' = [receipt EXCEPT ![w] =
                       [id |-> NextPlanned(input[w], current[w]).id,
                        observed |-> NextPlanned(input[w], current[w]).digest,
                        stamp |-> s]]
    /\ cluster' = [cluster EXCEPT ![NextPlanned(input[w], current[w]).id] =
                     NextPlanned(input[w], current[w]).digest]
    /\ pc' = [pc EXCEPT ![w] = "record"]
    /\ last' = "step"
    /\ UNCHANGED <<inventory, revision, published, returned, input, times,
                   current, base>>

(* The apply leaves another digest than the one asked for: the receipt is  *)
(* refused (APPLY_RESPONSE_DRIFT).                                         *)
ApplyDrift(w) ==
    /\ pc[w] = "apply"
    /\ \E d \in Digests \ {NextPlanned(input[w], current[w]).digest} :
         cluster' = [cluster EXCEPT ![NextPlanned(input[w], current[w]).id] = d]
    /\ Return(w)
    /\ last' = "failure"
    /\ UNCHANGED <<inventory, revision, published, returned>>

Record(w) ==
    /\ pc[w] = "record"
    /\ LET value == Recorded(input[w], current[w], receipt[w])
       IN CompareAndSwap(w, value, Continue(input[w], value))
    /\ last' = "step"
    /\ UNCHANGED <<cluster, published, returned>>

(* The outcome of w's call.                                                *)
OutcomeOf(w) == BuildOutcome(input[w], times[w], current[w])

(* StatusSink.Publish of the outcome built from the local copy.            *)
Publish(w) ==
    /\ pc[w] = "publish"
    /\ published' = published \cup {OutcomeOf(w)}
    /\ pc' = [pc EXCEPT ![w] = "complete"]
    /\ last' = "step"
    /\ UNCHANGED <<inventory, revision, cluster, returned, input, times, current,
                   base, receipt>>

(* The last write; once it is stored Reconcile returns the outcome.        *)
Complete(w) ==
    /\ pc[w] = "complete"
    /\ CompareAndSwap(w, [current[w] EXCEPT !.state = "COMPLETE"], "idle")
    /\ returned' = IF revision = base[w] THEN returned \cup {OutcomeOf(w)}
                                         ELSE returned
    /\ last' = "step"
    /\ UNCHANGED <<cluster, published>>

(* A crash, or any backend error.  A call that took effect and whose       *)
(* answer was lost is the step of that call followed by this one.          *)
Abandon(w) ==
    /\ pc[w] # "idle"
    /\ Return(w)
    /\ last' = "failure"
    /\ UNCHANGED <<inventory, revision, cluster, published, returned>>

Work(w) ==
    \/ Create(w) \/ PrepareNext(w) \/ Apply(w)
    \/ Record(w) \/ Publish(w) \/ Complete(w)

Next ==
    \E w \in Workers :
       \/ \E p \in Plans : Load(w, p)
       \/ Work(w)
       \/ ApplyDrift(w)
       \/ Abandon(w)

Spec == Init /\ [][Next]_vars

(* A reconcile that has begun goes on, and one that returned an error is   *)
(* called again: the reconcile loop requeues a failed request.             *)
Fairness ==
    \A w \in Workers :
       /\ WF_vars(Work(w))
       /\ \A p \in Plans : WF_vars(Load(w, p))

FairSpec == Spec /\ Fairness

(***************************************************************************)
(* Correctness.                                                            *)
(***************************************************************************)
Calls == {"idle", "create", "prepare", "apply", "record", "publish", "complete"}

TypeOK ==
    /\ inventory \in GenerationInventory \cup {None}
    /\ revision \in Nat
    /\ cluster \in [Identities -> Digests \cup {None}]
    /\ published \in SUBSET Outcome
    /\ returned \in SUBSET Outcome
    /\ last \in {"step", "failure"}
    /\ pc \in [Workers -> Calls]
    /\ input \in [Workers -> Plans \cup {None}]
    /\ times \in [Workers -> Times \cup {None}]
    /\ current \in [Workers -> GenerationInventory \cup {None}]
    /\ base \in [Workers -> Nat]
    /\ receipt \in [Workers -> Receipt \cup {None}]

(* Whatever is stored can be resumed under the plan it is bound to: no     *)
(* crash between two writes, and no race of two reconciles, leaves an      *)
(* inventory that validateResume refuses as drifted or with a bad cursor.  *)
StoreResumable ==
    revision > 0 => ValidateResume(inventory, inventory.binding)

(* Every live object is recorded, or is the one resource that the stored   *)
(* cursor names: "Before each apply, a compare-and-swap inventory records  *)
(* the exact next resource" (docs/reconciliation.md), so an interrupted    *)
(* apply is always found again.                                            *)
LiveIsKnown ==
    \A id \in Identities : cluster[id] # None =>
       /\ revision > 0
       /\ \/ \E i \in 1..Len(inventory.records) : inventory.records[i].id = id
          \/ inventory.state = "WAVE_APPLYING" /\ inventory.nextIdentity = id

(* A recorded resource was applied: the inventory never runs ahead of the  *)
(* cluster.                                                                *)
RecordedIsLive ==
    revision > 0 =>
       \A i \in 1..Len(inventory.records) :
          cluster[inventory.records[i].id] # None

(* Two outcomes that reconciles publish or return, the one of a crashed    *)
(* call and of its successor included, differ in nothing but the times     *)
(* their callers fixed: each is of the plan the generation is bound to and *)
(* of the records the COMPLETE inventory has or will have.  None is        *)
(* returned before the inventory is COMPLETE, nor is that before one was   *)
(* published.                                                              *)
OutcomesAgree ==
    /\ \A o \in published \cup returned :
         /\ revision > 0
         /\ inventory.state \in {"STATUS_PENDING", "COMPLETE"}
         /\ o = BuildOutcome(inventory.binding, o.times, inventory)
    /\ returned # {} => inventory.state = "COMPLETE"
    /\ revision > 0 /\ inventory.state = "COMPLETE" => published # {}

(* A worker whose copy is not stale holds exactly what is stored, and any  *)
(* other worker that passed its first write holds a shorter or equal       *)
(* history of the same plan: a stale worker can only repeat applies.       *)
IsHistory(w) ==
    /\ base[w] = revision => current[w] = inventory
    /\ base[w] <= revision
    /\ input[w] = inventory.binding
    /\ current[w].binding = inventory.binding
    /\ Len(current[w].records) <= Len(inventory.records)
    /\ \A i \in 1..Len(current[w].records) :
         current[w].records[i] = inventory.records[i]

CopiesAreHistory ==
    \A w \in Workers : pc[w] \notin {"idle", "create"} => IsHistory(w)

(* No write of the store loses, changes or reorders a record or rebinds    *)
(* the generation, and nothing is written once it is COMPLETE.             *)
StoreStep ==
    revision > 0 /\ revision' # revision =>
       /\ inventory.state # "COMPLETE"
       /\ inventory'.binding = inventory.binding
       /\ Len(inventory'.records) >= Len(inventory.records)
       /\ \A i \in 1..Len(inventory.records) :
            inventory'.records[i] = inventory.records[i]

AppendOnly == [][StoreStep]_vars

(* Once crashes, backend errors and drift cease the generation becomes     *)
(* COMPLETE.  Refused writes are not failures here: however often two      *)
(* reconciles conflict, one of them gets on.                               *)
Converges ==
    <>[](last = "step") => <>(revision > 0 /\ inventory.state = "COMPLETE")

(***************************************************************************)
(* The engine implements the ledger of the generation.                     *)
(***************************************************************************)
Ledger == INSTANCE GenerationLedger WITH
    Plans <- Plans,
    Order <- [p \in Plans |-> [i \in 1..Len(Resources[p]) |-> Resources[p][i].id]],
    Unbound <- None,
    bound <- IF revision = 0 THEN None ELSE inventory.binding,
    done <- IF revision = 0 THEN 0 ELSE Len(inventory.records),
    live <- {id \in Identities : cluster[id] # None},
    announced <- published # {},
    complete <- revision > 0 /\ inventory.state = "COMPLETE"

(* Every behaviour of the engine, crashes and races included, is one of    *)
(* the ledger: plan order, one live resource ahead at most, announcement   *)
(* before completion, completion for good.                                 *)
ImplementsLedger == Ledger!Spec
=============================================================================
