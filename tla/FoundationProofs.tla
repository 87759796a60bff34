-------------------------- MODULE FoundationProofs --------------------------
(***************************************************************************)
(* Proofs about the foundation reconciliation engine, for every set of     *)
(* workers and every family of valid plans: the inductive invariant, what  *)
(* the operators of the loop return and how a write of the store acts on   *)
(* the invariant; one lemma per action; the theorems; and the refinement   *)
(* of GenerationLedger.                                                    *)
(***************************************************************************)
EXTENDS Foundation, FoundationPlan, TLAPS

(* A copy of the inventory that a reconcile of plan p can go on from.      *)
Good(inv, p) ==
    /\ inv \in GenerationInventory
    /\ ValidateResume(inv, p)
    /\ inv.state \in {"APPLYING", "WAVE_APPLYING"} <=> Remaining(p, inv)

StoreInv ==
    revision > 0 => Good(inventory, inventory.binding)

(* The local state of worker w at its next call.                           *)
LocalInv(w) ==
    /\ pc[w] # "idle" => input[w] \in Plans /\ times[w] \in Times
    /\ pc[w] = "create" => current[w] = Fresh(input[w]) /\ base[w] = 0
    /\ pc[w] \notin {"idle", "create"} =>
         /\ base[w] > 0
         /\ Good(current[w], input[w])
         /\ current[w].state # "COMPLETE"
    /\ pc[w] = "prepare" => ~Prepared(input[w], current[w])
    /\ pc[w] \in {"apply", "record"} =>
         /\ Remaining(input[w], current[w])
         /\ Prepared(input[w], current[w])
    /\ pc[w] \in {"publish", "complete"} =>
         /\ ~Remaining(input[w], current[w])
         /\ Prepared(input[w], current[w])
    /\ pc[w] = "record" =>
         /\ receipt[w] \in Receipt
         /\ receipt[w].id = NextPlanned(input[w], current[w]).id
         /\ receipt[w].observed = NextPlanned(input[w], current[w]).digest
         /\ cluster[receipt[w].id] # None
    /\ pc[w] = "complete" =>
         BuildOutcome(input[w], times[w], current[w]) \in published

(* A worker that is about to apply, or has applied, and is stale, was      *)
(* overtaken by one that recorded the same resource.                       *)
Overtaken(w) ==
    pc[w] \in {"apply", "record"} /\ base[w] # revision =>
       Len(current[w].records) < Len(inventory.records)

IInv ==
    /\ TypeOK
    /\ StoreInv
    /\ \A w \in Workers : LocalInv(w) /\ Overtaken(w)
    /\ CopiesAreHistory
    /\ LiveIsKnown
    /\ RecordedIsLive
    /\ OutcomesAgree

(***************************************************************************)
(* The operators of the loop.                                              *)
(***************************************************************************)

(* The next planned resource of a copy that has one left is a resource of  *)
(* the plan, whose identity no record of the copy has.                     *)
LEMMA NextPlannedType ==
    ASSUME NEW p \in Plans, NEW inv \in GenerationInventory, Remaining(p, inv)
    PROVE  NextPlanned(p, inv) \in Planned
  BY PlanAssumption DEF Remaining, NextPlanned, GenerationInventory

(* The inventory a first reconcile creates can be resumed.                 *)
LEMMA FreshGood ==
    ASSUME NEW p \in Plans
    PROVE  /\ Good(Fresh(p), p)
           /\ Fresh(p).state # "COMPLETE"
           /\ Fresh(p).binding = p
           /\ Len(Fresh(p).records) = 0
           /\ Continue(p, Fresh(p)) = "prepare"
  <1>1. Fresh(p) \in GenerationInventory
    BY DEF Fresh, GenerationInventory, States
  <1>2. Remaining(p, Fresh(p))
    BY PlanAssumption DEF Remaining, Fresh
  <1>3. NextPlanned(p, Fresh(p)) = Resources[p][1]
    BY DEF NextPlanned, Fresh
  <1>4. CursorValid(Fresh(p), p)
    BY <1>2, <1>3, PlanAssumption DEF CursorValid, Fresh
  <1>5. ValidateResume(Fresh(p), p)
    BY <1>1, <1>4, PlanAssumption DEF ValidateResume, Validate, Fresh, States
  <1> QED
    BY <1>1, <1>2, <1>5 DEF Good, Fresh, Continue, Prepared

(* The write before an apply, or before the status, keeps the records and  *)
(* leaves the cursor the next call needs.                                  *)
LEMMA PrepareGood ==
    ASSUME NEW p \in Plans, NEW inv, Good(inv, p), inv.state # "COMPLETE"
    PROVE  /\ Good(Prepare(p, inv), p)
           /\ Prepare(p, inv).state # "COMPLETE"
           /\ Prepare(p, inv).binding = inv.binding
           /\ Prepare(p, inv).records = inv.records
           /\ Prepared(p, Prepare(p, inv))
           /\ Remaining(p, Prepare(p, inv)) <=> Remaining(p, inv)
  <1> DEFINE new == Prepare(p, inv)
  <1>0. inv \in GenerationInventory
    BY DEF Good
  <1>1. Len(inv.records) \in Nat /\ Len(Resources[p]) \in Nat
    BY <1>0, PlanAssumption DEF GenerationInventory
  <1>2. CASE Remaining(p, inv)
    <2>1. NextPlanned(p, inv) \in Planned
      BY <1>0, <1>2, NextPlannedType
    <2>2. /\ new \in GenerationInventory
          /\ new.records = inv.records
          /\ new.binding = inv.binding
          /\ new.state = "WAVE_APPLYING"
          /\ new.nextWave = NextPlanned(p, inv).wave
          /\ new.nextResource = NextPlanned(p, inv).resource
          /\ new.nextIdentity = NextPlanned(p, inv).id
      BY <1>0, <1>2, <2>1, Zenon DEF Prepare, GenerationInventory, Planned, States
    <2>3. Remaining(p, new) /\ NextPlanned(p, new) = NextPlanned(p, inv)
      BY <1>2, <2>2 DEF Remaining, NextPlanned
    <2>4. CursorValid(new, p)
      BY <2>2, <2>3 DEF CursorValid
    <2>5. ValidateResume(new, p)
      BY <2>2, <2>4 DEF ValidateResume, Validate, Good, States
    <2> QED
      BY <1>2, <2>2, <2>3, <2>5 DEF Good, Prepared
  <1>3. CASE ~Remaining(p, inv)
    <2>1. /\ new \in GenerationInventory
          /\ new.records = inv.records
          /\ new.binding = inv.binding
          /\ new.state = "STATUS_PENDING"
          /\ new.nextWave = WaveCount[p]
          /\ new.nextResource = 0
          /\ new.nextIdentity = None
      BY <1>0, <1>3, PlanAssumption, Zenon DEF Prepare, GenerationInventory, States
    <2>2. ~Remaining(p, new)
      BY <1>3, <2>1 DEF Remaining
    <2>3. Len(inv.records) = Len(Resources[p])
      BY <1>1, <1>3 DEF Good, ValidateResume, Remaining
    <2>4. CursorValid(new, p)
      BY <2>1, <2>3 DEF CursorValid
    <2>5. ValidateResume(new, p)
      BY <2>1, <2>4 DEF ValidateResume, Validate, Good, States
    <2> QED
      BY <1>3, <2>1, <2>2, <2>5 DEF Good, Prepared
  <1> QED
    BY <1>2, <1>3

(* Recording the receipt of the prepared resource keeps every record,      *)
(* adds one at the end and leaves a cursor that can be resumed.            *)
LEMMA RecordedGood ==
    ASSUME NEW p \in Plans, NEW inv, Good(inv, p), Remaining(p, inv),
           NEW r \in Receipt,
           r.id = NextPlanned(p, inv).id,
           r.observed = NextPlanned(p, inv).digest
    PROVE  LET new == Recorded(p, inv, r)
           IN /\ Good(new, p)
              /\ new.state # "COMPLETE"
              /\ new.binding = inv.binding
              /\ Len(new.records) = Len(inv.records) + 1
              /\ \A i \in 1..Len(inv.records) : new.records[i] = inv.records[i]
              /\ new.records[Len(inv.records) + 1].id = r.id
              /\ Remaining(p, new) => new.state = "APPLYING"
              /\ ~Remaining(p, new) => new.state = "STATUS_PENDING"
  <1> DEFINE n == Len(inv.records)
             rec == [wave |-> NextPlanned(p, inv).wave, id |-> r.id,
                     desired |-> NextPlanned(p, inv).digest,
                     observed |-> r.observed, stamp |-> r.stamp]
             new == Recorded(p, inv, r)
             grown == [inv EXCEPT !.records = Append(@, rec),
                                  !.nextIdentity = None]
  <1>0. inv \in GenerationInventory
    BY DEF Good
  <1>1. n \in Nat /\ Len(Resources[p]) \in Nat /\ n < Len(Resources[p])
    BY <1>0, PlanAssumption DEF GenerationInventory, Remaining
  <1>2. NextPlanned(p, inv) \in Planned
    BY <1>0, NextPlannedType
  <1>3. rec \in ResourceRecord
    BY <1>2 DEF Planned, ResourceRecord, Receipt
  <1>4. /\ Append(inv.records, rec) \in Seq(ResourceRecord)
        /\ Len(Append(inv.records, rec)) = n + 1
        /\ \A i \in 1..n : Append(inv.records, rec)[i] = inv.records[i]
        /\ Append(inv.records, rec)[n + 1] = rec
    BY <1>0, <1>3 DEF GenerationInventory
  <1>5. /\ grown \in GenerationInventory
        /\ grown.records = Append(inv.records, rec)
        /\ grown.binding = inv.binding
        /\ grown.nextIdentity = None
    BY <1>0, <1>4, Zenon DEF GenerationInventory
  <1>6. /\ Remaining(p, grown) <=> n + 1 < Len(Resources[p])
        /\ Remaining(p, grown) => NextPlanned(p, grown) \in Planned
    BY <1>4, <1>5, NextPlannedType, Zenon DEF Remaining
  <1>7. new = IF Remaining(p, grown)
              THEN [grown EXCEPT !.state = "APPLYING",
                                 !.nextWave = NextPlanned(p, grown).wave,
                                 !.nextResource = NextPlanned(p, grown).resource]
              ELSE [grown EXCEPT !.state = "STATUS_PENDING",
                                 !.nextWave = WaveCount[p],
                                 !.nextResource = 0]
    BY DEF Recorded
  <1> HIDE DEF new, grown
  <1>8. /\ new \in GenerationInventory
        /\ new.records = grown.records
        /\ new.binding = grown.binding
        /\ new.nextIdentity = None
        /\ Remaining(p, grown) =>
             /\ new.state = "APPLYING"
             /\ new.nextWave = NextPlanned(p, grown).wave
             /\ new.nextResource = NextPlanned(p, grown).resource
        /\ ~Remaining(p, grown) =>
             /\ new.state = "STATUS_PENDING"
             /\ new.nextWave = WaveCount[p]
             /\ new.nextResource = 0
    BY <1>5, <1>6, <1>7, PlanAssumption, Zenon DEF GenerationInventory, Planned, States
  <1>9. /\ Remaining(p, new) <=> Remaining(p, grown)
        /\ NextPlanned(p, new) = NextPlanned(p, grown)
    BY <1>8 DEF Remaining, NextPlanned
  <1>10. CursorValid(new, p)
    BY <1>1, <1>4, <1>5, <1>6, <1>8, <1>9 DEF CursorValid
  <1>11. \A i \in 1..(n + 1) :
           /\ new.records[i].wave = Resources[p][i].wave
           /\ new.records[i].id = Resources[p][i].id
           /\ new.records[i].desired = Resources[p][i].digest
           /\ new.records[i].observed = Resources[p][i].digest
    <2>1. TAKE i \in 1..(n + 1)
    <2>2. CASE i \in 1..n
      BY <1>4, <1>5, <1>8, <2>2 DEF Good, ValidateResume
    <2>3. CASE i = n + 1
      BY <1>4, <1>5, <1>8, <2>3 DEF NextPlanned
    <2> QED
      BY <1>1, <2>2, <2>3
  <1>12. Validate(new, p)
    <2>1. new.binding = p
      BY <1>5, <1>8 DEF Good, ValidateResume, Validate
    <2>2. \A i, j \in 1..(n + 1) :
            new.records[i].id = new.records[j].id => i = j
      BY <1>1, <1>11, PlanAssumption
    <2> QED
      BY <1>4, <1>5, <1>8, <1>11, <2>1, <2>2
      DEF Validate, GenerationInventory
  <1>13. ValidateResume(new, p)
    BY <1>1, <1>4, <1>5, <1>8, <1>10, <1>11, <1>12 DEF ValidateResume
  <1> QED
    BY <1>1, <1>4, <1>5, <1>8, <1>9, <1>13 DEF Good, new

(***************************************************************************)
(* Preservation of the inductive invariant.                                *)
(***************************************************************************)
SameLocals(x) ==
    /\ pc'[x] = pc[x] /\ input'[x] = input[x] /\ times'[x] = times[x]
    /\ current'[x] = current[x] /\ base'[x] = base[x] /\ receipt'[x] = receipt[x]

AboutToApply(p, inv) == Remaining(p, inv) /\ Prepared(p, inv)

Extends(new, old) ==
    /\ new.binding = old.binding
    /\ Len(old.records) <= Len(new.records)
    /\ \A i \in 1..Len(old.records) : new.records[i] = old.records[i]

(* A step of another worker, which never removes a live object or an       *)
(* outcome, keeps what holds of worker x.                                  *)
LEMMA OthersKeep ==
    ASSUME NEW x \in Workers, LocalInv(x), SameLocals(x),
           published \subseteq published',
           \A id \in Identities : cluster[id] # None => cluster'[id] # None
    PROVE  LocalInv(x)'
  BY DEF LocalInv, Receipt, SameLocals

(* A worker that goes on with exactly what is stored is well placed.       *)
LEMMA ProceedKeeps ==
    ASSUME NEW w \in Workers, NEW p \in Plans, NEW t \in Times, NEW v,
           Good(v, p), v.state # "COMPLETE",
           pc'[w] = Continue(p, v), input'[w] = p, times'[w] = t, current'[w] = v,
           base'[w] = revision', inventory' = v,
           revision' \in Nat, revision' > 0
    PROVE  /\ Continue(p, v) \in {"prepare", "apply", "publish"}
           /\ LocalInv(w)' /\ Overtaken(w)' /\ IsHistory(w)'
  <1>1. Len(v.records) \in Nat
    BY DEF Good, GenerationInventory
  <1>2. /\ Continue(p, v) \in {"prepare", "apply", "publish"}
        /\ Continue(p, v) = "prepare" => ~Prepared(p, v)
        /\ Continue(p, v) = "apply" => Prepared(p, v) /\ Remaining(p, v)
        /\ Continue(p, v) = "publish" => Prepared(p, v) /\ ~Remaining(p, v)
    BY DEF Continue
  <1>3. LocalInv(w)'
    BY <1>2 DEF LocalInv
  <1>4. Overtaken(w)'
    BY DEF Overtaken
  <1>5. v.binding = p
    BY DEF Good, ValidateResume, Validate
  <1>6. IsHistory(w)'
    BY <1>1, <1>5 DEF IsHistory
  <1> QED
    BY <1>2, <1>3, <1>4, <1>6

(* A write of the store that extends what is stored keeps what holds of    *)
(* the workers that did not write.                                         *)
LEMMA WriteKeepsOthers ==
    ASSUME IInv, NEW w \in Workers, NEW v,
           Good(v, v.binding),
           inventory' = v, revision' = revision + 1,
           UNCHANGED <<cluster, published>>,
           revision > 0 => Extends(v, inventory),
           revision > 0 /\ AboutToApply(inventory.binding, inventory)
              => Len(inventory.records) < Len(v.records),
           NEW x \in Workers, SameLocals(x)
    PROVE  /\ LocalInv(x)' /\ Overtaken(x)'
           /\ pc'[x] \notin {"idle", "create"} => IsHistory(x)'
  <1>1. revision \in Nat /\ base[x] \in Nat
    BY DEF IInv, TypeOK
  <1>2. LocalInv(x)'
    BY OthersKeep DEF IInv
  <1>3. ASSUME pc[x] \notin {"idle", "create"}
        PROVE  Overtaken(x)' /\ IsHistory(x)'
    <2>1. /\ IsHistory(x) /\ base[x] > 0 /\ revision > 0
          /\ Good(current[x], input[x])
          /\ Good(inventory, inventory.binding)
          /\ Extends(v, inventory)
      BY <1>1, <1>3 DEF IInv, CopiesAreHistory, IsHistory, LocalInv, StoreInv
    <2>2. /\ Len(current[x].records) \in Nat
          /\ Len(inventory.records) \in Nat
          /\ Len(v.records) \in Nat
      BY <2>1 DEF Good, GenerationInventory
    <2>3. IsHistory(x)'
      BY <1>1, <2>1, <2>2 DEF IsHistory, Extends, SameLocals
    <2>4. Overtaken(x)'
      <3> SUFFICES ASSUME pc[x] \in {"apply", "record"}
                   PROVE  Len(current[x].records) < Len(v.records)
        BY DEF Overtaken, SameLocals
      <3>1. CASE base[x] = revision
        BY <2>1, <2>2, <3>1 DEF IInv, LocalInv, IsHistory, AboutToApply
      <3>2. CASE base[x] # revision
        BY <2>1, <2>2, <3>2 DEF IInv, Overtaken, Extends
      <3> QED
        BY <3>1, <3>2
    <2> QED
      BY <2>3, <2>4
  <1> QED
    BY <1>2, <1>3 DEF SameLocals, Overtaken

(* A worker that returns, the rest unchanged, keeps the invariant.         *)
LEMMA ReturnKeeps ==
    ASSUME IInv, NEW w \in Workers, Return(w),
           last' \in {"step", "failure"},
           UNCHANGED <<inventory, revision, cluster, published, returned>>
    PROVE  IInv'
  <1>1. TypeOK'
    BY DEF IInv, TypeOK, Return, Calls
  <1>2. pc'[w] = "idle" /\ \A x \in Workers \ {w} : SameLocals(x)
    BY DEF IInv, TypeOK, Return, SameLocals
  <1>3. ASSUME NEW x \in Workers
        PROVE  /\ LocalInv(x)' /\ Overtaken(x)'
               /\ pc'[x] \notin {"idle", "create"} => IsHistory(x)'
    <2>1. CASE x = w
      BY <1>2, <2>1 DEF LocalInv, Overtaken
    <2>2. CASE x # w
      <3>1. SameLocals(x) /\ LocalInv(x) /\ Overtaken(x)
        BY <1>2, <2>2 DEF IInv
      <3>2. LocalInv(x)'
        BY <3>1, OthersKeep
      <3> QED
        BY <3>1, <3>2 DEF IInv, CopiesAreHistory, SameLocals, Overtaken, IsHistory
    <2> QED
      BY <2>1, <2>2
  <1>4. /\ StoreInv' /\ LiveIsKnown' /\ RecordedIsLive' /\ OutcomesAgree'
    BY DEF IInv, StoreInv, LiveIsKnown, RecordedIsLive, OutcomesAgree
  <1> QED
    BY <1>1, <1>3, <1>4 DEF IInv, CopiesAreHistory

(* The load of a reconcile that returns at once, refused or with the       *)
(* outcome of the complete inventory.                                      *)
LEMMA LoadReturns ==
    ASSUME IInv, UNCHANGED <<pc, input, times, current, base, receipt>>,
           last' \in {"step", "failure"},
           UNCHANGED <<inventory, revision, cluster, published>>,
           \/ returned' = returned
           \/ /\ revision > 0 /\ inventory.state = "COMPLETE"
              /\ \E t \in Times : returned' = returned \cup
                                    {BuildOutcome(inventory.binding, t, inventory)}
    PROVE  IInv'
  <1>1. returned' \in SUBSET Outcome /\ OutcomesAgree'
    <2>1. CASE returned' = returned
      BY <2>1 DEF IInv, TypeOK, OutcomesAgree
    <2>2. ASSUME revision > 0, inventory.state = "COMPLETE", NEW t \in Times,
                 returned' = returned \cup {BuildOutcome(inventory.binding, t, inventory)}
          PROVE  returned' \in SUBSET Outcome /\ OutcomesAgree'
      <3> DEFINE o == BuildOutcome(inventory.binding, t, inventory)
      <3>1. inventory.binding \in Plans /\ inventory.records \in Seq(ResourceRecord)
        BY <2>2 DEF IInv, StoreInv, Good, GenerationInventory
      <3>2. o \in Outcome /\ o.times = t
        BY <2>2, <3>1 DEF BuildOutcome, Outcome
      <3> HIDE DEF o
      <3>3. o = BuildOutcome(inventory.binding, o.times, inventory)
        BY <3>2 DEF o
      <3>4. returned' = returned \cup {o}
        BY <2>2 DEF o
      <3> QED
        BY <2>2, <3>2, <3>3, <3>4 DEF IInv, TypeOK, OutcomesAgree
    <2> QED
      BY <2>1, <2>2
  <1>2. TypeOK'
    BY <1>1 DEF IInv, TypeOK
  <1> QED
    BY <1>1, <1>2 DEF IInv, StoreInv, CopiesAreHistory, LiveIsKnown,
                RecordedIsLive, LocalInv, Overtaken, IsHistory

(* The load of a reconcile that goes on.                                   *)
LEMMA LoadGoesOn ==
    ASSUME IInv, NEW w \in Workers, NEW p \in Plans, NEW t \in Times,
           NEW call \in Calls, NEW inv \in GenerationInventory, NEW r \in Nat,
           Proceed(w, call, p, t, inv, r),
           LocalInv(w)', Overtaken(w)', call # "create" => IsHistory(w)',
           last' \in {"step", "failure"},
           UNCHANGED <<inventory, revision, cluster, published, returned>>
    PROVE  IInv'
  <1>1. TypeOK'
    BY DEF IInv, TypeOK, Proceed
  <1>2. pc'[w] = call /\ \A x \in Workers \ {w} : SameLocals(x)
    BY DEF IInv, TypeOK, Proceed, SameLocals
  <1>3. ASSUME NEW x \in Workers
        PROVE  /\ LocalInv(x)' /\ Overtaken(x)'
               /\ pc'[x] \notin {"idle", "create"} => IsHistory(x)'
    <2>1. CASE x = w
      BY <1>2, <2>1
    <2>2. CASE x # w
      <3>1. SameLocals(x) /\ LocalInv(x) /\ Overtaken(x)
        BY <1>2, <2>2 DEF IInv
      <3>2. LocalInv(x)'
        BY <3>1, OthersKeep
      <3> QED
        BY <3>1, <3>2 DEF IInv, CopiesAreHistory, SameLocals, Overtaken, IsHistory
    <2> QED
      BY <2>1, <2>2
  <1>4. StoreInv' /\ LiveIsKnown' /\ RecordedIsLive' /\ OutcomesAgree'
    BY DEF IInv, StoreInv, LiveIsKnown, RecordedIsLive, OutcomesAgree
  <1> QED
    BY <1>1, <1>3, <1>4 DEF IInv, CopiesAreHistory

(* The load of a reconcile.                                                *)
LEMMA LoadKeeps ==
    ASSUME IInv, NEW w \in Workers, NEW p \in Plans, Load(w, p)
    PROVE  IInv'
  <1>1. /\ last' \in {"step", "failure"}
        /\ UNCHANGED <<inventory, revision, cluster, published>>
    BY DEF Load
  <1>2. ASSUME NEW t \in Times, revision = 0, UNCHANGED returned,
               Proceed(w, "create", p, t, Fresh(p), 0)
        PROVE  IInv'
    <2>1. Fresh(p) \in GenerationInventory
      BY FreshGood DEF Good
    <2>2. LocalInv(w)' /\ Overtaken(w)'
      BY <1>2 DEF Proceed, IInv, TypeOK, LocalInv, Overtaken
    <2> QED
      BY <1>1, <1>2, <2>1, <2>2, LoadGoesOn DEF Calls
  <1>3. ASSUME NEW t \in Times, revision > 0, UNCHANGED returned,
               ValidateResume(inventory, p), inventory.state # "COMPLETE",
               Proceed(w, Continue(p, inventory), p, t, inventory, revision)
        PROVE  IInv'
    <2>1. Good(inventory, p)
      BY <1>3 DEF IInv, StoreInv, Good, ValidateResume, Validate
    <2>2. /\ Continue(p, inventory) \in {"prepare", "apply", "publish"}
          /\ LocalInv(w)' /\ Overtaken(w)' /\ IsHistory(w)'
      BY <1>1, <1>3, <2>1, ProceedKeeps DEF Proceed, IInv, TypeOK
    <2>3. inventory \in GenerationInventory /\ revision \in Nat
      BY <2>1 DEF Good, IInv, TypeOK
    <2> QED
      BY <1>1, <1>3, <2>2, <2>3, LoadGoesOn DEF Calls
  <1>4. ASSUME NEW t \in Times, revision > 0, ValidateResume(inventory, p),
               inventory.state = "COMPLETE",
               returned' = returned \cup {BuildOutcome(p, t, inventory)},
               UNCHANGED <<pc, input, times, current, base, receipt>>
        PROVE  IInv'
    <2>1. inventory.binding = p
      BY <1>4 DEF ValidateResume, Validate
    <2> QED
      BY <1>1, <1>4, <2>1, LoadReturns
  <1>5. ASSUME UNCHANGED <<returned, pc, input, times, current, base, receipt>>
        PROVE  IInv'
    BY <1>1, <1>5, LoadReturns
  <1> QED
    BY <1>2, <1>3, <1>4, <1>5, Zenon DEF Load

(* What a successful write must satisfy to keep the invariant.             *)
LEMMA WriteKeeps ==
    ASSUME IInv, NEW w \in Workers, NEW v, NEW call,
           input[w] \in Plans, times[w] \in Times, Good(v, input[w]),
           inventory' = v, revision' = revision + 1,
           UNCHANGED <<cluster, published>>,
           returned' \in SUBSET Outcome, last' \in {"step", "failure"},
           \/ Return(w)
           \/ /\ Proceed(w, call, input[w], times[w], v, revision + 1)
              /\ call = Continue(input[w], v)
              /\ v.state # "COMPLETE",
           revision > 0 => Extends(v, inventory),
           revision > 0 /\ AboutToApply(inventory.binding, inventory)
              => Len(inventory.records) < Len(v.records),
           LiveIsKnown', RecordedIsLive', OutcomesAgree'
    PROVE  IInv'
  <1>1. v.binding = input[w] /\ v \in GenerationInventory
    BY DEF Good, ValidateResume, Validate
  <1>2. revision \in Nat /\ revision' > 0
    BY DEF IInv, TypeOK
  <1>3. StoreInv'
    BY <1>1, <1>2 DEF StoreInv
  <1>4. CASE Return(w)
    <2>1. TypeOK'
      BY <1>1, <1>2, <1>4 DEF IInv, TypeOK, Return, Calls
    <2>2. pc'[w] = "idle" /\ \A x \in Workers \ {w} : SameLocals(x)
      BY <1>4 DEF IInv, TypeOK, Return, SameLocals
    <2>3. LocalInv(w)' /\ Overtaken(w)'
      BY <2>2 DEF LocalInv, Overtaken
    <2>4. \A x \in Workers \ {w} :
            /\ LocalInv(x)' /\ Overtaken(x)'
            /\ pc'[x] \notin {"idle", "create"} => IsHistory(x)'
      BY <1>1, <2>2, WriteKeepsOthers
    <2> QED
      BY <1>3, <2>1, <2>2, <2>3, <2>4 DEF IInv, CopiesAreHistory
  <1>5. CASE /\ Proceed(w, call, input[w], times[w], v, revision + 1)
             /\ call = Continue(input[w], v)
             /\ v.state # "COMPLETE"
    <2>1. /\ pc'[w] = call /\ input'[w] = input[w] /\ times'[w] = times[w]
          /\ current'[w] = v
          /\ base'[w] = revision + 1
          /\ \A x \in Workers \ {w} : SameLocals(x)
      BY <1>5 DEF IInv, TypeOK, Proceed, SameLocals
    <2>2. /\ call \in {"prepare", "apply", "publish"}
          /\ LocalInv(w)' /\ Overtaken(w)' /\ IsHistory(w)'
      BY <1>2, <1>5, <2>1, ProceedKeeps
    <2>3. TypeOK'
      BY <1>1, <1>2, <1>5, <2>2 DEF IInv, TypeOK, Proceed, Calls
    <2>4. \A x \in Workers \ {w} :
            /\ LocalInv(x)' /\ Overtaken(x)'
            /\ pc'[x] \notin {"idle", "create"} => IsHistory(x)'
      BY <1>1, <2>1, WriteKeepsOthers
    <2> QED
      BY <1>3, <2>2, <2>3, <2>4 DEF IInv, CopiesAreHistory
  <1> QED
    BY <1>4, <1>5

-----------------------------------------------------------------------------
(* The actions.                                                            *)

(* The write that creates the inventory.                                   *)
LEMMA CreateKeeps ==
    ASSUME IInv, NEW w \in Workers, Create(w)
    PROVE  IInv'
  <1> DEFINE v == Fresh(input[w])
  <1>1. /\ input[w] \in Plans /\ times[w] \in Times /\ current[w] = v /\ base[w] = 0
        /\ UNCHANGED <<cluster, published, returned>>
        /\ returned' \in SUBSET Outcome /\ last' \in {"step", "failure"}
    BY DEF IInv, TypeOK, LocalInv, Create
  <1>2. /\ Good(v, input[w]) /\ v.state # "COMPLETE" /\ v.binding = input[w]
        /\ Len(v.records) = 0 /\ v.state = "APPLYING"
        /\ Continue(input[w], v) = "prepare"
    BY <1>1, FreshGood DEF Fresh
  <1> HIDE DEF v
  <1>3. CASE revision # base[w]
    BY <1>1, <1>3, ReturnKeeps DEF Create, CompareAndSwap
  <1>4. CASE revision = base[w]
    <2>1. /\ inventory' = v /\ revision' = revision + 1
          /\ Proceed(w, Continue(input[w], v), input[w], times[w], v, revision + 1)
      BY <1>1, <1>2, <1>4 DEF Create, CompareAndSwap
    <2>2. revision = 0 /\ published = {} /\ returned = {} /\ \A id \in Identities : cluster[id] = None
      BY <1>1, <1>4 DEF IInv, LiveIsKnown, OutcomesAgree
    <2>3. LiveIsKnown' /\ RecordedIsLive' /\ OutcomesAgree'
      BY <1>1, <1>2, <2>1, <2>2 DEF LiveIsKnown, RecordedIsLive, OutcomesAgree
    <2>4. ~(revision > 0)
      BY <2>2
    <2> QED
      BY <1>1, <1>2, <2>1, <2>3, <2>4, WriteKeeps
  <1> QED
    BY <1>3, <1>4

(* A worker whose base is the store's revision holds what is stored.       *)
LEMMA CurrentIsStored ==
    ASSUME IInv, NEW w \in Workers, pc[w] \notin {"idle", "create"},
           revision = base[w]
    PROVE  /\ revision > 0 /\ current[w] = inventory
           /\ input[w] = inventory.binding
           /\ input[w] \in Plans
           /\ Good(inventory, inventory.binding)
           /\ inventory.state # "COMPLETE"
           /\ inventory \in GenerationInventory
           /\ Len(inventory.records) \in Nat
           /\ Len(Resources[inventory.binding]) \in Nat
  <1>1. /\ revision > 0 /\ current[w] = inventory
        /\ input[w] = inventory.binding
        /\ input[w] \in Plans
        /\ Good(inventory, inventory.binding)
        /\ inventory.state # "COMPLETE"
    BY DEF IInv, LocalInv, CopiesAreHistory, IsHistory
  <1> QED
    BY <1>1, PlanAssumption DEF Good, GenerationInventory

(* The write that names the next resource, or asks for the status.         *)
LEMMA PrepareNextKeeps ==
    ASSUME IInv, NEW w \in Workers, PrepareNext(w)
    PROVE  IInv'
  <1> DEFINE v == Prepare(input[w], current[w])
  <1>0. /\ pc[w] = "prepare" /\ input[w] \in Plans /\ times[w] \in Times
        /\ UNCHANGED <<cluster, published, returned>>
        /\ returned' \in SUBSET Outcome /\ last' \in {"step", "failure"}
        /\ Good(current[w], input[w]) /\ current[w].state # "COMPLETE"
        /\ ~Prepared(input[w], current[w])
    BY DEF IInv, TypeOK, LocalInv, PrepareNext
  <1>1. /\ Good(v, input[w]) /\ v.state # "COMPLETE"
        /\ v.records = current[w].records
        /\ v.binding = current[w].binding
        /\ Prepared(input[w], v)
    BY <1>0, PrepareGood
  <1>2. Continue(input[w], v) # "idle"
    BY DEF Continue
  <1> HIDE DEF v
  <1>3. CASE revision # base[w]
    BY <1>0, <1>3, ReturnKeeps DEF PrepareNext, CompareAndSwap
  <1>4. CASE revision = base[w]
    <2>1. /\ inventory' = v /\ revision' = revision + 1
          /\ Proceed(w, Continue(input[w], v), input[w], times[w], v, revision + 1)
      BY <1>2, <1>4 DEF PrepareNext, CompareAndSwap, v
    <2>2. /\ revision > 0 /\ current[w] = inventory
          /\ input[w] = inventory.binding
          /\ Good(inventory, inventory.binding)
          /\ inventory.state # "COMPLETE"
          /\ Len(inventory.records) \in Nat
      BY <1>0, <1>4, CurrentIsStored
    <2>3. inventory.state # "WAVE_APPLYING" /\ inventory.state # "STATUS_PENDING"
      BY <1>0, <2>2 DEF Good, ValidateResume, CursorValid, Prepared
    <2>4. Extends(v, inventory)
      BY <1>1, <2>2 DEF Extends
    <2>5. revision \in Nat
      BY DEF IInv, TypeOK
    <2>6. LiveIsKnown'
      BY <1>0, <1>1, <2>1, <2>2, <2>3, <2>5 DEF IInv, LiveIsKnown
    <2>7. RecordedIsLive'
      BY <1>0, <1>1, <2>1, <2>2, <2>5 DEF IInv, RecordedIsLive
    <2>8. OutcomesAgree'
      BY <1>0, <1>1, <2>1, <2>2, <2>3, <2>5 DEF IInv, OutcomesAgree
    <2>9. ~AboutToApply(inventory.binding, inventory)
      BY <1>0, <2>2 DEF AboutToApply
    <2> QED
      BY <1>0, <1>1, <2>1, <2>4, <2>6, <2>7, <2>8, <2>9, WriteKeeps
  <1> QED
    BY <1>3, <1>4

(* The write that records a receipt.                                       *)
LEMMA RecordKeeps ==
    ASSUME IInv, NEW w \in Workers, Record(w)
    PROVE  IInv'
  <1> DEFINE v == Recorded(input[w], current[w], receipt[w])
  <1>0. /\ pc[w] = "record" /\ input[w] \in Plans /\ times[w] \in Times
        /\ UNCHANGED <<cluster, published, returned>>
        /\ returned' \in SUBSET Outcome /\ last' \in {"step", "failure"}
        /\ Good(current[w], input[w]) /\ current[w].state # "COMPLETE"
        /\ Remaining(input[w], current[w])
        /\ Prepared(input[w], current[w])
        /\ receipt[w] \in Receipt
        /\ receipt[w].id = NextPlanned(input[w], current[w]).id
        /\ receipt[w].observed = NextPlanned(input[w], current[w]).digest
        /\ cluster[receipt[w].id] # None
    BY DEF IInv, TypeOK, LocalInv, Record
  <1>1. /\ Good(v, input[w]) /\ v.state # "COMPLETE"
        /\ v.binding = current[w].binding
        /\ Len(v.records) = Len(current[w].records) + 1
        /\ \A i \in 1..Len(current[w].records) :
             v.records[i] = current[w].records[i]
        /\ v.records[Len(current[w].records) + 1].id = receipt[w].id
    BY <1>0, RecordedGood
  <1>2. Continue(input[w], v) # "idle"
    BY DEF Continue
  <1> HIDE DEF v
  <1>3. CASE revision # base[w]
    BY <1>0, <1>3, ReturnKeeps DEF Record, CompareAndSwap
  <1>4. CASE revision = base[w]
    <2>1. /\ inventory' = v /\ revision' = revision + 1
          /\ Proceed(w, Continue(input[w], v), input[w], times[w], v, revision + 1)
      BY <1>2, <1>4 DEF Record, CompareAndSwap, v
    <2>2. /\ revision > 0 /\ current[w] = inventory
          /\ input[w] = inventory.binding
          /\ Good(inventory, inventory.binding)
          /\ Len(inventory.records) \in Nat
      BY <1>0, <1>4, CurrentIsStored
    <2>3. revision \in Nat
      BY DEF IInv, TypeOK
    <2>4. Extends(v, inventory) /\ Len(inventory.records) < Len(v.records)
      BY <1>1, <2>2 DEF Extends
    <2>5. /\ inventory.state = "WAVE_APPLYING"
          /\ inventory.nextIdentity = receipt[w].id
      BY <1>0, <2>2 DEF Prepared
    <2>6. LiveIsKnown'
      <3> SUFFICES ASSUME NEW id \in Identities, cluster[id] # None
                   PROVE  \E i \in 1..Len(v.records) : v.records[i].id = id
        BY <1>0, <2>1, <2>3 DEF LiveIsKnown
      <3>1. CASE inventory.nextIdentity = id
        BY <1>1, <2>2, <2>5, <3>1
      <3>2. CASE \E i \in 1..Len(inventory.records) :
                   inventory.records[i].id = id
        BY <1>1, <2>2, <3>2
      <3> QED
        BY <3>1, <3>2 DEF IInv, LiveIsKnown
    <2>7. RecordedIsLive'
      <3> SUFFICES ASSUME NEW i \in 1..Len(v.records)
                   PROVE  cluster[v.records[i].id] # None
        BY <1>0, <2>1 DEF RecordedIsLive
      <3>1. CASE i \in 1..Len(inventory.records)
        BY <1>1, <2>2, <3>1 DEF IInv, RecordedIsLive
      <3>2. CASE i = Len(inventory.records) + 1
        BY <1>0, <1>1, <2>2, <3>2
      <3> QED
        BY <1>1, <2>2, <3>1, <3>2
    <2>8. OutcomesAgree'
      BY <1>0, <1>1, <2>1, <2>2, <2>3, <2>5 DEF IInv, OutcomesAgree
    <2> QED
      BY <1>0, <1>1, <2>1, <2>2, <2>4, <2>6, <2>7, <2>8, WriteKeeps
  <1> QED
    BY <1>3, <1>4

(* The completing write.                                                   *)
LEMMA CompleteKeeps ==
    ASSUME IInv, NEW w \in Workers, Complete(w)
    PROVE  IInv'
  <1> DEFINE v == [current[w] EXCEPT !.state = "COMPLETE"]
  <1>0. /\ pc[w] = "complete" /\ input[w] \in Plans
        /\ times[w] \in Times /\ UNCHANGED <<cluster, published>>
        /\ last' \in {"step", "failure"}
        /\ Good(current[w], input[w])
        /\ ~Remaining(input[w], current[w])
        /\ Prepared(input[w], current[w])
        /\ OutcomeOf(w) \in published
    BY DEF IInv, LocalInv, Complete, OutcomeOf
  <1>1. /\ v \in GenerationInventory /\ v.state = "COMPLETE"
        /\ v.records = current[w].records
        /\ v.binding = current[w].binding
        /\ v.nextWave = current[w].nextWave
        /\ v.nextResource = current[w].nextResource
        /\ v.nextIdentity = current[w].nextIdentity
    BY <1>0 DEF Good, GenerationInventory, States
  <1> HIDE DEF v
  <1>2. current[w].state = "STATUS_PENDING"
    BY <1>0 DEF Prepared
  <1>3. Good(v, input[w])
    BY <1>0, <1>1, <1>2
    DEF Good, ValidateResume, Validate, CursorValid, Remaining, States
  <1>4. CASE revision # base[w]
    BY <1>0, <1>4, ReturnKeeps DEF Complete, CompareAndSwap
  <1>5. CASE revision = base[w]
    <2>1. /\ inventory' = v /\ revision' = revision + 1 /\ Return(w)
          /\ returned' = returned \cup {OutcomeOf(w)}
      BY <1>5 DEF Complete, CompareAndSwap, v
    <2>2. /\ revision > 0 /\ current[w] = inventory
          /\ input[w] = inventory.binding
          /\ Len(inventory.records) \in Nat
      BY <1>0, <1>5, CurrentIsStored
    <2>3. revision \in Nat
      BY DEF IInv, TypeOK
    <2>4. Extends(v, inventory)
      BY <1>1, <2>2 DEF Extends
    <2>5. LiveIsKnown'
      <3> SUFFICES ASSUME NEW id \in Identities, cluster[id] # None
                   PROVE  \E i \in 1..Len(v.records) : v.records[i].id = id
        BY <1>0, <2>1, <2>3 DEF LiveIsKnown
      <3>1. \E i \in 1..Len(inventory.records) : inventory.records[i].id = id
        BY <1>2, <2>2 DEF IInv, LiveIsKnown
      <3> QED
        BY <1>1, <2>2, <3>1
    <2>6. RecordedIsLive'
      BY <1>0, <1>1, <2>1, <2>2, <2>3 DEF IInv, RecordedIsLive
    <2>7. OutcomesAgree'
      <3>1. \A o : BuildOutcome(inventory.binding, o, v) = BuildOutcome(inventory.binding, o, inventory)
        BY <1>1, <2>2 DEF BuildOutcome
      <3>2. published' \cup returned' = published \cup returned
        BY <1>0, <2>1
      <3>3. v.binding = inventory.binding
        BY <1>1, <2>2
      <3> QED
        BY <1>0, <1>1, <2>1, <2>2, <2>3, <3>1, <3>2, <3>3 DEF IInv, OutcomesAgree
    <2>9. returned' \in SUBSET Outcome
      BY <1>0, <2>1 DEF IInv, TypeOK
    <2>8. ~AboutToApply(inventory.binding, inventory)
      BY <1>0, <2>2 DEF AboutToApply
    <2> QED
      BY <1>0, <1>3, <2>1, <2>4, <2>5, <2>6, <2>7, <2>8, <2>9, WriteKeeps
  <1> QED
    BY <1>4, <1>5

(* The object worker w applies is recorded already, or the stored cursor   *)
(* names it: a worker that is not stale applies what is named, a stale one *)
(* was overtaken.                                                          *)
LEMMA AppliedIsKnown ==
    ASSUME IInv, NEW w \in Workers, pc[w] = "apply"
    PROVE  LET id == NextPlanned(input[w], current[w]).id
           IN /\ id \in Identities
              /\ NextPlanned(input[w], current[w]).digest \in Digests
              /\ revision > 0
              /\ \/ \E i \in 1..Len(inventory.records) :
                      inventory.records[i].id = id
                 \/ /\ inventory.state = "WAVE_APPLYING"
                    /\ inventory.nextIdentity = id
  <1> DEFINE id == NextPlanned(input[w], current[w]).id
  <1>1. /\ input[w] \in Plans /\ Good(current[w], input[w])
        /\ base[w] > 0 /\ base[w] \in Nat /\ revision \in Nat
        /\ Remaining(input[w], current[w]) /\ Prepared(input[w], current[w])
        /\ IsHistory(w) /\ Overtaken(w)
    BY DEF IInv, LocalInv, CopiesAreHistory, TypeOK
  <1>2. revision > 0
    BY <1>1 DEF IsHistory
  <1>3. Good(inventory, inventory.binding) /\ input[w] = inventory.binding
    BY <1>1, <1>2 DEF IInv, StoreInv, IsHistory
  <1>4. /\ Len(current[w].records) \in Nat /\ Len(inventory.records) \in Nat
        /\ current[w] \in GenerationInventory
    BY <1>1, <1>3 DEF Good, GenerationInventory
  <1>5. NextPlanned(input[w], current[w]) \in Planned
    BY <1>1, <1>4, NextPlannedType
  <1>6. CASE base[w] = revision
    BY <1>1, <1>2, <1>5, <1>6 DEF IsHistory, Prepared, Planned
  <1>7. CASE base[w] # revision
    <2>1. Len(current[w].records) + 1 \in 1..Len(inventory.records)
      BY <1>1, <1>4, <1>7 DEF Overtaken
    <2>2. inventory.records[Len(current[w].records) + 1].id = id
      BY <1>3, <2>1 DEF Good, ValidateResume, NextPlanned
    <2> QED
      BY <1>2, <1>5, <2>1, <2>2 DEF Planned
  <1> QED
    BY <1>6, <1>7

(* The applies of a worker, and a call that only changes the cluster.      *)
LEMMA ApplyKeeps ==
    ASSUME IInv, NEW w \in Workers, Apply(w)
    PROVE  IInv'
  <1> DEFINE planned == NextPlanned(input[w], current[w])
  <1>1. /\ pc[w] = "apply" /\ planned.id \in Identities
        /\ planned.digest \in Digests /\ revision > 0
        /\ \/ \E i \in 1..Len(inventory.records) :
                inventory.records[i].id = planned.id
           \/ /\ inventory.state = "WAVE_APPLYING"
              /\ inventory.nextIdentity = planned.id
    BY AppliedIsKnown DEF Apply
  <1> HIDE DEF planned
  <1>2. PICK s \in Stamps :
          receipt' = [receipt EXCEPT ![w] =
                        [id |-> planned.id, observed |-> planned.digest,
                         stamp |-> s]]
    BY Zenon DEF Apply, planned
  <1>3. /\ cluster' = [cluster EXCEPT ![planned.id] = planned.digest]
        /\ pc' = [pc EXCEPT ![w] = "record"]
        /\ last' \in {"step", "failure"}
        /\ UNCHANGED <<inventory, revision, published, returned, input, times,
                       current, base>>
    BY DEF Apply, planned
  <1>4. TypeOK'
    BY <1>1, <1>2, <1>3 DEF IInv, TypeOK, Calls, Receipt
  <1>5. /\ cluster'[planned.id] = planned.digest
        /\ \A id \in Identities :
             cluster'[id] # None => id = planned.id \/ cluster[id] # None
        /\ \A id \in Identities : cluster[id] # None => cluster'[id] # None
    BY <1>1, <1>3, NoneAssumption DEF IInv, TypeOK
  <1>6. ASSUME NEW x \in Workers
        PROVE  /\ LocalInv(x)' /\ Overtaken(x)'
               /\ pc'[x] \notin {"idle", "create"} => IsHistory(x)'
    <2>1. CASE x = w
      <3>1. /\ pc'[w] = "record" /\ receipt'[w].id = planned.id
            /\ receipt'[w].observed = planned.digest
            /\ receipt'[w] \in Receipt
        BY <1>1, <1>2, <1>3 DEF IInv, TypeOK, Receipt
      <3>2. LocalInv(w)'
        BY <1>1, <1>3, <1>5, <3>1, NoneAssumption DEF IInv, LocalInv, planned
      <3> QED
        BY <1>1, <1>3, <2>1, <3>1, <3>2
        DEF IInv, Overtaken, CopiesAreHistory, IsHistory
    <2>2. CASE x # w
      <3>1. SameLocals(x) /\ LocalInv(x) /\ Overtaken(x)
        BY <1>2, <1>3, <2>2 DEF IInv, TypeOK, SameLocals
      <3>2. LocalInv(x)'
        BY <1>3, <1>5, <3>1, OthersKeep
      <3> QED
        BY <1>3, <3>1, <3>2
        DEF IInv, Overtaken, CopiesAreHistory, IsHistory, SameLocals
    <2> QED
      BY <2>1, <2>2
  <1>7. LiveIsKnown'
    BY <1>1, <1>3, <1>5 DEF IInv, LiveIsKnown
  <1>8. RecordedIsLive'
    <2> SUFFICES ASSUME NEW i \in 1..Len(inventory.records)
                 PROVE  cluster'[inventory.records[i].id] # None
      BY <1>3 DEF RecordedIsLive
    <2>1. inventory.records[i].id \in Identities
      <3>1. inventory.records \in Seq(ResourceRecord)
        BY <1>1 DEF IInv, StoreInv, Good, GenerationInventory
      <3>2. inventory.records[i] \in ResourceRecord
        BY <3>1
      <3> QED
        BY <3>2 DEF ResourceRecord
    <2> QED
      BY <1>1, <1>5, <2>1 DEF IInv, RecordedIsLive
  <1>9. StoreInv' /\ OutcomesAgree'
    BY <1>3 DEF IInv, StoreInv, OutcomesAgree
  <1> QED
    BY <1>4, <1>6, <1>7, <1>8, <1>9 DEF IInv, CopiesAreHistory

(* A drifting apply: the object changes and the worker is refused.         *)
LEMMA ApplyDriftKeeps ==
    ASSUME IInv, NEW w \in Workers, ApplyDrift(w)
    PROVE  IInv'
  <1> DEFINE planned == NextPlanned(input[w], current[w])
  <1>1. /\ pc[w] = "apply" /\ planned.id \in Identities /\ revision > 0
        /\ \/ \E i \in 1..Len(inventory.records) :
                inventory.records[i].id = planned.id
           \/ /\ inventory.state = "WAVE_APPLYING"
              /\ inventory.nextIdentity = planned.id
    BY AppliedIsKnown DEF ApplyDrift
  <1>2. PICK d \in Digests : cluster' = [cluster EXCEPT ![planned.id] = d]
    BY Zenon DEF ApplyDrift
  <1> HIDE DEF planned
  <1>3. /\ Return(w) /\ last' \in {"step", "failure"}
        /\ UNCHANGED <<inventory, revision, published, returned>>
    BY DEF ApplyDrift
  <1>4. TypeOK'
    BY <1>1, <1>2, <1>3 DEF IInv, TypeOK, Calls, Return
  <1>5. /\ \A id \in Identities :
             cluster'[id] # None => id = planned.id \/ cluster[id] # None
        /\ \A id \in Identities : cluster[id] # None => cluster'[id] # None
    BY <1>1, <1>2, NoneAssumption DEF IInv, TypeOK
  <1>6. ASSUME NEW x \in Workers
        PROVE  /\ LocalInv(x)' /\ Overtaken(x)'
               /\ pc'[x] \notin {"idle", "create"} => IsHistory(x)'
    <2>1. CASE x = w
      BY <1>3, <2>1 DEF IInv, TypeOK, Return, LocalInv, Overtaken
    <2>2. CASE x # w
      <3>1. SameLocals(x) /\ LocalInv(x) /\ Overtaken(x)
        BY <1>3, <2>2 DEF IInv, TypeOK, Return, SameLocals
      <3>2. LocalInv(x)'
        BY <1>3, <1>5, <3>1, OthersKeep
      <3> QED
        BY <1>3, <3>1, <3>2
        DEF IInv, Overtaken, CopiesAreHistory, IsHistory, SameLocals
    <2> QED
      BY <2>1, <2>2
  <1>7. LiveIsKnown'
    BY <1>1, <1>3, <1>5 DEF IInv, LiveIsKnown
  <1>8. RecordedIsLive'
    <2> SUFFICES ASSUME NEW i \in 1..Len(inventory.records)
                 PROVE  cluster'[inventory.records[i].id] # None
      BY <1>3 DEF RecordedIsLive
    <2>1. inventory.records[i].id \in Identities
      <3>1. inventory.records \in Seq(ResourceRecord)
        BY <1>1 DEF IInv, StoreInv, Good, GenerationInventory
      <3>2. inventory.records[i] \in ResourceRecord
        BY <3>1
      <3> QED
        BY <3>2 DEF ResourceRecord
    <2> QED
      BY <1>1, <1>5, <2>1 DEF IInv, RecordedIsLive
  <1>9. StoreInv' /\ OutcomesAgree'
    BY <1>3 DEF IInv, StoreInv, OutcomesAgree
  <1> QED
    BY <1>4, <1>6, <1>7, <1>8, <1>9 DEF IInv, CopiesAreHistory

(* A worker that has recorded everything holds the records that are stored *)
(* however stale it is, and the store asks for the status or is complete.  *)
LEMMA PublishedIsStored ==
    ASSUME IInv, NEW w \in Workers, pc[w] = "publish"
    PROVE  /\ revision > 0
           /\ inventory.state \in {"STATUS_PENDING", "COMPLETE"}
           /\ OutcomeOf(w) = BuildOutcome(inventory.binding, OutcomeOf(w).times, inventory)
           /\ OutcomeOf(w) \in Outcome
  <1>1. /\ input[w] \in Plans /\ times[w] \in Times /\ Good(current[w], input[w])
        /\ base[w] > 0 /\ base[w] \in Nat /\ revision \in Nat
        /\ ~Remaining(input[w], current[w]) /\ IsHistory(w)
    BY DEF IInv, LocalInv, CopiesAreHistory, TypeOK
  <1>2. revision > 0 /\ Good(inventory, inventory.binding)
    BY <1>1 DEF IInv, StoreInv, IsHistory
  <1>3. /\ current[w].records \in Seq(ResourceRecord)
        /\ inventory.records \in Seq(ResourceRecord)
        /\ inventory.state \in States
    BY <1>1, <1>2 DEF Good, GenerationInventory
  <1>4. /\ Len(current[w].records) \in Nat /\ Len(inventory.records) \in Nat
        /\ Len(Resources[input[w]]) \in Nat
    BY <1>1, <1>3, PlanAssumption
  <1>5. Len(current[w].records) = Len(inventory.records)
    BY <1>1, <1>2, <1>4 DEF Good, ValidateResume, IsHistory, Remaining
  <1>6. current[w].records = inventory.records
    BY <1>1, <1>3, <1>4, <1>5 DEF IsHistory
  <1>7. ~Remaining(inventory.binding, inventory)
    BY <1>1, <1>5 DEF Remaining, IsHistory
  <1> QED
    BY <1>1, <1>2, <1>3, <1>6, <1>7
    DEF Good, OutcomeOf, BuildOutcome, Outcome, IsHistory, States

(* The publication of an outcome.                                          *)
LEMMA PublishKeeps ==
    ASSUME IInv, NEW w \in Workers, Publish(w)
    PROVE  IInv'
  <1> DEFINE o == OutcomeOf(w)
  <1>1. /\ pc[w] = "publish" /\ published' = published \cup {o}
        /\ pc' = [pc EXCEPT ![w] = "complete"]
        /\ last' \in {"step", "failure"}
        /\ UNCHANGED <<inventory, revision, cluster, returned, input, times,
                       current, base, receipt>>
    BY DEF Publish
  <1>2. /\ revision > 0 /\ o \in Outcome
        /\ inventory.state \in {"STATUS_PENDING", "COMPLETE"}
        /\ o = BuildOutcome(inventory.binding, o.times, inventory)
    BY <1>1, PublishedIsStored
  <1>3. TypeOK'
    BY <1>1, <1>2 DEF IInv, TypeOK, Calls
  <1>4. ASSUME NEW x \in Workers
        PROVE  /\ LocalInv(x)' /\ Overtaken(x)'
               /\ pc'[x] \notin {"idle", "create"} => IsHistory(x)'
    <2>1. CASE x = w
      <3>1. pc'[w] = "complete"
        BY <1>1 DEF IInv, TypeOK
      <3>2. LocalInv(w)'
        BY <1>1, <3>1 DEF IInv, LocalInv, OutcomeOf
      <3> QED
        BY <1>1, <2>1, <3>1, <3>2
        DEF IInv, Overtaken, CopiesAreHistory, IsHistory
    <2>2. CASE x # w
      <3>1. SameLocals(x) /\ LocalInv(x) /\ Overtaken(x)
        BY <1>1, <2>2 DEF IInv, TypeOK, SameLocals
      <3>2. LocalInv(x)'
        BY <1>1, <3>1, OthersKeep
      <3> QED
        BY <1>1, <3>1, <3>2
        DEF IInv, Overtaken, CopiesAreHistory, IsHistory, SameLocals
    <2> QED
      BY <2>1, <2>2
  <1>5. OutcomesAgree'
    BY <1>1, <1>2 DEF IInv, OutcomesAgree
  <1>6. StoreInv' /\ LiveIsKnown' /\ RecordedIsLive'
    BY <1>1 DEF IInv, StoreInv, LiveIsKnown, RecordedIsLive
  <1> QED
    BY <1>3, <1>4, <1>5, <1>6 DEF IInv, CopiesAreHistory

(***************************************************************************)
(* The theorems.                                                           *)
(***************************************************************************)

(* The invariant holds before the first reconcile.                         *)
LEMMA InitInv == Init => IInv
  <1> SUFFICES ASSUME Init PROVE IInv
    OBVIOUS
  <1>1. TypeOK
    BY DEF Init, TypeOK, Calls
  <1> QED
    BY <1>1 DEF Init, IInv, StoreInv, LocalInv, Overtaken, CopiesAreHistory,
                LiveIsKnown, RecordedIsLive, OutcomesAgree

(* Every step of every reconcile keeps the invariant.                      *)
LEMMA NextInv == IInv /\ [Next]_vars => IInv'
  <1> SUFFICES ASSUME IInv, [Next]_vars PROVE IInv'
    OBVIOUS
  <1>1. CASE UNCHANGED vars
    BY <1>1 DEF vars, IInv, TypeOK, StoreInv, LocalInv, Overtaken, IsHistory,
                CopiesAreHistory, LiveIsKnown, RecordedIsLive, OutcomesAgree
  <1>2. ASSUME NEW w \in Workers, NEW p \in Plans, Load(w, p) PROVE IInv'
    BY <1>2, LoadKeeps
  <1>3. ASSUME NEW w \in Workers, Create(w) PROVE IInv'
    BY <1>3, CreateKeeps
  <1>4. ASSUME NEW w \in Workers, PrepareNext(w) PROVE IInv'
    BY <1>4, PrepareNextKeeps
  <1>5. ASSUME NEW w \in Workers, Apply(w) PROVE IInv'
    BY <1>5, ApplyKeeps
  <1>6. ASSUME NEW w \in Workers, ApplyDrift(w) PROVE IInv'
    BY <1>6, ApplyDriftKeeps
  <1>7. ASSUME NEW w \in Workers, Record(w) PROVE IInv'
    BY <1>7, RecordKeeps
  <1>8. ASSUME NEW w \in Workers, Publish(w) PROVE IInv'
    BY <1>8, PublishKeeps
  <1>9. ASSUME NEW w \in Workers, Complete(w) PROVE IInv'
    BY <1>9, CompleteKeeps
  <1>10. ASSUME NEW w \in Workers, Abandon(w) PROVE IInv'
    BY <1>10, ReturnKeeps DEF Abandon
  <1> QED
    BY <1>1, <1>2, <1>3, <1>4, <1>5, <1>6, <1>7, <1>8, <1>9, <1>10
    DEF Next, Work

(* The inductive invariant holds throughout.                               *)
THEOREM Invariance == Spec => []IInv
  BY InitInv, NextInv, PTL DEF Spec

(* The variables keep their types.                                         *)
THEOREM TypeCorrect == Spec => []TypeOK
  <1>1. IInv => TypeOK
    BY DEF IInv
  <1> QED
    BY Invariance, <1>1, PTL

(* The stored inventory can always be resumed under its own plan.          *)
THEOREM AlwaysResumable == Spec => []StoreResumable
  <1>1. IInv => StoreResumable
    BY DEF IInv, StoreInv, Good, StoreResumable
  <1> QED
    BY Invariance, <1>1, PTL

(* Nothing is live that the inventory does not record or name.             *)
THEOREM NothingUnknownLive == Spec => []LiveIsKnown
  <1>1. IInv => LiveIsKnown
    BY DEF IInv
  <1> QED
    BY Invariance, <1>1, PTL

(* Nothing is recorded that is not live.                                   *)
THEOREM NothingAheadOfCluster == Spec => []RecordedIsLive
  <1>1. IInv => RecordedIsLive
    BY DEF IInv
  <1> QED
    BY Invariance, <1>1, PTL

(* The outcomes of all reconciles, published or returned, are of the plan  *)
(* and the records of the inventory that completes, and differ only in the *)
(* times of their calls (buildOutcome, Reconcile's last write).            *)
THEOREM OutcomesDifferInTimes == Spec => []OutcomesAgree
  <1>1. IInv => OutcomesAgree
    BY DEF IInv
  <1> QED
    BY Invariance, <1>1, PTL

(* A stale worker holds an earlier part of the same history.               *)
THEOREM StaleIsEarlier == Spec => []CopiesAreHistory
  <1>1. IInv => CopiesAreHistory
    BY DEF IInv
  <1> QED
    BY Invariance, <1>1, PTL

(* What a successful write leaves, by the action that made it.             *)
Bound(v) ==
    /\ revision = 0 /\ v.binding \in Plans /\ v.state # "COMPLETE"
    /\ Len(v.records) = 0

Renamed(v) ==
    /\ revision > 0 /\ inventory.state # "COMPLETE" /\ v.state # "COMPLETE"
    /\ v.binding = inventory.binding /\ v.records = inventory.records

Grown(v) ==
    /\ revision > 0 /\ inventory.state # "COMPLETE" /\ v.state # "COMPLETE"
    /\ v.binding = inventory.binding
    /\ Len(v.records) = Len(inventory.records) + 1
    /\ \A i \in 1..Len(inventory.records) : v.records[i] = inventory.records[i]
    /\ Remaining(inventory.binding, inventory)
    /\ NextPlanned(inventory.binding, inventory).id \in Identities
    /\ cluster[NextPlanned(inventory.binding, inventory).id] # None

Completed(v) ==
    /\ revision > 0 /\ inventory.state # "COMPLETE" /\ v.state = "COMPLETE"
    /\ v.binding = inventory.binding /\ v.records = inventory.records
    /\ published # {}

(* Every write of the store is one of the four.                            *)
LEMMA Writes ==
    ASSUME IInv, Next
    PROVE  \/ UNCHANGED <<inventory, revision>>
           \/ /\ revision' = revision + 1 /\ UNCHANGED <<cluster, published>>
              /\ \/ Bound(inventory') \/ Renamed(inventory')
                 \/ Grown(inventory') \/ Completed(inventory')
  <1> DEFINE Goal == \/ UNCHANGED <<inventory, revision>>
                     \/ /\ revision' = revision + 1
                        /\ UNCHANGED <<cluster, published>>
                        /\ \/ Bound(inventory') \/ Renamed(inventory')
                           \/ Grown(inventory') \/ Completed(inventory')
  <1>1. ASSUME NEW w \in Workers, Create(w) PROVE Goal
    <2>1. input[w] \in Plans /\ current[w] = Fresh(input[w]) /\ base[w] = 0
      BY <1>1 DEF IInv, LocalInv, Create
    <2>2. CASE revision = base[w]
      <3>1. inventory' = Fresh(input[w]) /\ revision' = revision + 1
        BY <1>1, <2>1, <2>2 DEF Create, CompareAndSwap
      <3>2. Bound(inventory')
        BY <2>1, <2>2, <3>1, FreshGood DEF Bound
      <3> QED
        BY <1>1, <3>1, <3>2 DEF Create
    <2>3. CASE revision # base[w]
      BY <1>1, <2>3 DEF Create, CompareAndSwap
    <2> QED
      BY <2>2, <2>3
  <1>2. ASSUME NEW w \in Workers, PrepareNext(w) PROVE Goal
    <2>1. CASE revision = base[w]
      <3>1. /\ inventory' = Prepare(input[w], current[w])
            /\ revision' = revision + 1
        BY <1>2, <2>1 DEF PrepareNext, CompareAndSwap
      <3>2. /\ revision > 0 /\ current[w] = inventory
            /\ input[w] = inventory.binding /\ input[w] \in Plans
            /\ Good(inventory, inventory.binding)
            /\ inventory.state # "COMPLETE"
        BY <1>2, <2>1, CurrentIsStored DEF PrepareNext
      <3>3. Renamed(inventory')
        BY <3>1, <3>2, PrepareGood DEF Renamed
      <3> QED
        BY <1>2, <3>1, <3>3 DEF PrepareNext
    <2>2. CASE revision # base[w]
      BY <1>2, <2>2 DEF PrepareNext, CompareAndSwap
    <2> QED
      BY <2>1, <2>2
  <1>3. ASSUME NEW w \in Workers, Record(w) PROVE Goal
    <2>1. CASE revision = base[w]
      <3>1. /\ inventory' = Recorded(input[w], current[w], receipt[w])
            /\ revision' = revision + 1
        BY <1>3, <2>1 DEF Record, CompareAndSwap
      <3>2. /\ revision > 0 /\ current[w] = inventory
            /\ input[w] = inventory.binding /\ input[w] \in Plans
            /\ Good(inventory, inventory.binding)
            /\ inventory.state # "COMPLETE"
        BY <1>3, <2>1, CurrentIsStored DEF Record
      <3>3. /\ Remaining(input[w], inventory)
            /\ receipt[w] \in Receipt
            /\ receipt[w].id = NextPlanned(input[w], inventory).id
            /\ receipt[w].observed = NextPlanned(input[w], inventory).digest
            /\ cluster[receipt[w].id] # None
        BY <1>3, <3>2 DEF IInv, LocalInv, Record
      <3>4. LET v == Recorded(input[w], inventory, receipt[w])
            IN /\ v.state # "COMPLETE"
               /\ v.binding = inventory.binding
               /\ Len(v.records) = Len(inventory.records) + 1
               /\ \A i \in 1..Len(inventory.records) :
                    v.records[i] = inventory.records[i]
        BY <3>2, <3>3, RecordedGood
      <3>5. Grown(inventory')
        BY <3>1, <3>2, <3>3, <3>4 DEF Grown, Receipt
      <3> QED
        BY <1>3, <3>1, <3>5 DEF Record
    <2>2. CASE revision # base[w]
      BY <1>3, <2>2 DEF Record, CompareAndSwap
    <2> QED
      BY <2>1, <2>2
  <1>4. ASSUME NEW w \in Workers, Complete(w) PROVE Goal
    <2>1. CASE revision = base[w]
      <3>1. /\ inventory' = [current[w] EXCEPT !.state = "COMPLETE"]
            /\ revision' = revision + 1
        BY <1>4, <2>1 DEF Complete, CompareAndSwap
      <3>2. /\ revision > 0 /\ current[w] = inventory
            /\ inventory \in GenerationInventory
            /\ inventory.state # "COMPLETE"
        BY <1>4, <2>1, CurrentIsStored DEF Complete
      <3>3. published # {}
        BY <1>4 DEF IInv, LocalInv, Complete
      <3>4. Completed(inventory')
        BY <3>1, <3>2, <3>3 DEF Completed, GenerationInventory
      <3> QED
        BY <1>4, <3>1, <3>4 DEF Complete
    <2>2. CASE revision # base[w]
      BY <1>4, <2>2 DEF Complete, CompareAndSwap
    <2> QED
      BY <2>1, <2>2
  <1> QED
    BY <1>1, <1>2, <1>3, <1>4
    DEF Next, Work, Load, Apply, ApplyDrift, Publish, Abandon

(* The store only ever grows by records, under one plan, until COMPLETE.   *)
THEOREM NeverLosesARecord == Spec => AppendOnly
  <1>1. IInv /\ [Next]_vars => [StoreStep]_vars
    <2> SUFFICES ASSUME IInv, Next, revision > 0, revision' # revision
                 PROVE  StoreStep
      BY DEF StoreStep
    <2>1. Renamed(inventory') \/ Grown(inventory') \/ Completed(inventory')
      BY Writes DEF Bound
    <2>2. Len(inventory.records) \in Nat
      BY DEF IInv, StoreInv, Good, GenerationInventory
    <2> QED
      BY <2>1, <2>2 DEF Renamed, Grown, Completed, StoreStep
  <1> QED
    BY Invariance, <1>1, PTL DEF Spec, AppendOnly

-----------------------------------------------------------------------------
(***************************************************************************)
(* The refinement of GenerationLedger.                                     *)
(***************************************************************************)
Order == [p \in Plans |-> [i \in 1..Len(Resources[p]) |-> Resources[p][i].id]]
bound == IF revision = 0 THEN None ELSE inventory.binding
done == IF revision = 0 THEN 0 ELSE Len(inventory.records)
live == {id \in Identities : cluster[id] # None}
announced == published # {}
complete == revision > 0 /\ inventory.state = "COMPLETE"

(* The mapped plan, position and next identity of a stored inventory.      *)
LEMMA Mapped ==
    ASSUME IInv, revision > 0
    PROVE  /\ bound = inventory.binding /\ bound \in Plans
           /\ done = Len(inventory.records) /\ done \in Nat
           /\ Len(Order[bound]) = Len(Resources[inventory.binding])
           /\ Len(Order[bound]) \in Nat
           /\ Remaining(inventory.binding, inventory) =>
                /\ done < Len(Order[bound])
                /\ Order[bound][done + 1]
                     = NextPlanned(inventory.binding, inventory).id
  <1>1. /\ inventory.binding \in Plans /\ Len(inventory.records) \in Nat
        /\ revision # 0
    BY DEF IInv, StoreInv, Good, GenerationInventory
  <1>2. Len(Resources[inventory.binding]) \in Nat
    BY <1>1, PlanAssumption
  <1>3. bound = inventory.binding /\ done = Len(inventory.records)
    BY <1>1 DEF bound, done
  <1>4. /\ Order[bound] = [i \in 1..Len(Resources[bound]) |-> Resources[bound][i].id]
        /\ Order[bound] \in Seq({Resources[bound][i].id : i \in 1..Len(Resources[bound])})
        /\ Len(Order[bound]) = Len(Resources[bound])
    BY <1>1, <1>2, <1>3 DEF Order
  <1> QED
    BY <1>1, <1>2, <1>3, <1>4 DEF Remaining, NextPlanned

(* Bringing up an object that is recorded or named is a Raise or nothing.  *)
LEMMA ApplyRaises ==
    ASSUME IInv, NEW w \in Workers, pc[w] = "apply", NEW d \in Digests,
           cluster' = [cluster EXCEPT
                         ![NextPlanned(input[w], current[w]).id] = d],
           UNCHANGED <<inventory, revision, published>>
    PROVE  Ledger!Raise \/ UNCHANGED Ledger!vars
  <1> DEFINE id == NextPlanned(input[w], current[w]).id
  <1>1. /\ id \in Identities /\ revision > 0
        /\ \/ \E i \in 1..Len(inventory.records) : inventory.records[i].id = id
           \/ /\ inventory.state = "WAVE_APPLYING"
              /\ inventory.nextIdentity = id
    BY AppliedIsKnown
  <1> HIDE DEF id
  <1>2. live' = live \cup {id}
    BY <1>1, NoneAssumption DEF IInv, TypeOK, live, id
  <1>3. UNCHANGED <<bound, done, announced, complete>>
    BY DEF bound, done, announced, complete
  <1>4. CASE \E i \in 1..Len(inventory.records) : inventory.records[i].id = id
    <2>1. id \in live
      BY <1>1, <1>4 DEF IInv, RecordedIsLive, live
    <2> QED
      BY <1>2, <1>3, <2>1 DEF Ledger!vars, live, bound, done, announced, complete
  <1>5. CASE inventory.state = "WAVE_APPLYING" /\ inventory.nextIdentity = id
    <2>1. /\ Remaining(inventory.binding, inventory)
          /\ id = NextPlanned(inventory.binding, inventory).id
      BY <1>1, <1>5 DEF IInv, StoreInv, Good, ValidateResume, CursorValid
    <2>2. /\ bound \in Plans /\ done < Len(Order[bound])
          /\ Order[bound][done + 1] = id
      BY <1>1, <2>1, Mapped
    <2> QED
      BY <1>2, <1>3, <2>2
      DEF Ledger!Raise, live, bound, done, announced, complete, Order
  <1> QED
    BY <1>1, <1>4, <1>5

(* Every step of the engine is a step of the ledger, or none.              *)
LEMMA StepRefines ==
    ASSUME IInv, [Next]_vars
    PROVE  [Ledger!Next]_(Ledger!vars)
  <1> USE DEF live, bound, done, announced, complete, Order
  <1> DEFINE Goal == Ledger!Next \/ UNCHANGED Ledger!vars
  <1>1. CASE UNCHANGED <<inventory, revision, cluster, published>>
    BY <1>1 DEF Ledger!vars
  <1>2. ASSUME NEW w \in Workers, Apply(w) PROVE Goal
    <2>1. NextPlanned(input[w], current[w]).digest \in Digests
      BY <1>2, AppliedIsKnown DEF Apply
    <2> QED
      BY <1>2, <2>1, ApplyRaises, Zenon DEF Apply, Ledger!Next
  <1>3. ASSUME NEW w \in Workers, ApplyDrift(w) PROVE Goal
    BY <1>3, ApplyRaises, Zenon DEF ApplyDrift, Ledger!Next
  <1>4. ASSUME NEW w \in Workers, Publish(w) PROVE Goal
    <2>1. /\ revision > 0
          /\ inventory.state \in {"STATUS_PENDING", "COMPLETE"}
      BY <1>4, PublishedIsStored DEF Publish
    <2>2. Len(inventory.records) = Len(Resources[inventory.binding])
      BY <2>1 DEF IInv, StoreInv, Good, ValidateResume, CursorValid
    <2>3. bound \in Plans /\ done = Len(Order[bound])
      BY <2>1, <2>2, Mapped
    <2>4. announced' = TRUE /\ UNCHANGED <<bound, done, live, complete>>
      BY <1>4 DEF Publish
    <2> QED
      BY <2>3, <2>4 DEF Ledger!Announce, Ledger!Next
  <1>5. ASSUME revision' = revision + 1, UNCHANGED <<cluster, published>>,
               \/ Bound(inventory') \/ Renamed(inventory')
               \/ Grown(inventory') \/ Completed(inventory')
        PROVE  Goal
    <2>1. revision \in Nat /\ live' = live /\ announced' = announced
      BY <1>5 DEF IInv, TypeOK
    <2>2. CASE Bound(inventory')
      <3>1. /\ bound = None /\ done = 0 /\ complete = FALSE
            /\ bound' \in Plans /\ done' = 0 /\ complete' = FALSE
        BY <1>5, <2>1, <2>2 DEF Bound
      <3> QED
        BY <2>1, <3>1 DEF Ledger!Bind, Ledger!Next
    <2>3. CASE Renamed(inventory')
      BY <1>5, <2>1, <2>3 DEF Renamed, Ledger!vars
    <2>4. CASE Grown(inventory')
      <3>1. /\ bound \in Plans /\ done < Len(Order[bound])
            /\ Order[bound][done + 1] \in live
        BY <2>4, Mapped DEF Grown
      <3>2. done' = done + 1 /\ bound' = bound /\ complete' = complete
        BY <1>5, <2>1, <2>4 DEF Grown
      <3> QED
        BY <2>1, <3>1, <3>2 DEF Ledger!Record, Ledger!Next
    <2>5. CASE Completed(inventory')
      <3>1. /\ announced /\ complete' = TRUE
            /\ done' = done /\ bound' = bound
        BY <1>5, <2>1, <2>5 DEF Completed
      <3> QED
        BY <2>1, <3>1 DEF Ledger!Finish, Ledger!Next
    <2> QED
      BY <1>5, <2>2, <2>3, <2>4, <2>5
  <1>6. CASE UNCHANGED vars
    BY <1>1, <1>6 DEF vars
  <1>7. CASE Next
    <2>1. CASE UNCHANGED <<inventory, revision>>
      BY <1>1, <1>2, <1>3, <1>4, <1>7, <2>1
      DEF Next, Work, Load, Create, PrepareNext, Record, Complete, Abandon
    <2> QED
      BY <1>5, <1>7, <2>1, Writes
  <1> QED
    BY <1>6, <1>7

(* The engine implements the ledger.                                       *)
THEOREM Refinement == Spec => ImplementsLedger
  <1>1. Init => Ledger!Init
    BY DEF Init, Ledger!Init
  <1>2. IInv /\ [Next]_vars => [Ledger!Next]_(Ledger!vars)
    BY StepRefines
  <1> QED
    BY Invariance, <1>1, <1>2, PTL DEF Spec, ImplementsLedger, Ledger!Spec

-----------------------------------------------------------------------------
(* An accepted foundation plan is sound, for every plan.                   *)

PlanType ==
  /\ plan \in PlansGiven
  /\ at \in {"plan", "wave", "resource", "accepted", "refused"}
  /\ wave \in Nat \ {0} /\ resource \in Nat \ {0}
  /\ previousWave \in Nat /\ previousResource \in Nat
  /\ baseline \in [required -> Nat]

\* The resources the loop has been through.
Scanned(w, r) ==
  /\ w \in 1 .. Len(plan.waves) /\ r \in 1 .. Len(plan.waves[w].resources)
  /\ w < wave \/ (w = wave /\ at = "resource" /\ r < resource)

\* Where the loop is; only the first wave has the baseline's id.
Ordered ==
  /\ at = "plan" => wave = 1
  /\ at # "plan" => Len(plan.waves) > 0 /\ plan.waves[1].id = Baseline
  /\ at = "wave" /\ wave > 1 => previousWave >= Baseline
  /\ at = "resource" => /\ wave <= Len(plan.waves) /\ previousWave = plan.waves[wave].id
                        /\ Len(plan.waves[wave].resources) > 0
                        /\ wave > 1 => plan.waves[wave].id > Baseline
  /\ \A w \in 1 .. Len(plan.waves) : w < wave => Len(plan.waves[w].resources) > 0
  /\ at = "accepted" => /\ wave > Len(plan.waves)
                        /\ Len(plan.waves[1].resources) = 6
                        /\ \A kind \in required : baseline[kind] = 1

\* The map of identities covers what was scanned.
Listed ==
  /\ \A w, r : Scanned(w, r) => /\ At(w, r).key \in identities
                                /\ At(w, r).namespace = plan.namespace
  /\ \A v, r, w, s : Scanned(v, r) /\ Scanned(w, s) /\ At(v, r).key = At(w, s).key
                       => v = w /\ r = s

\* The counts of the baseline's kinds.
Counted ==
  \A kind \in required :
    /\ baseline[kind] = 0 => \A r : Scanned(1, r) => At(1, r).kind # kind
    /\ baseline[kind] = 1 =>
         /\ \E r : Scanned(1, r) /\ At(1, r).kind = kind
         /\ \A r, s : Scanned(1, r) /\ Scanned(1, s) /\ At(1, r).kind = kind /\ At(1, s).kind = kind
                        => r = s

PlanInv == PlanType /\ (at # "refused" => Ordered /\ Listed /\ Counted)

\* What an action that reads no resource leaves as it is.
LEMMA SameScanned ==
  ASSUME PlanInv, plan' = plan, identities' = identities, baseline' = baseline,
         at # "refused",
         \A w, r : Scanned(w, r)' => Scanned(w, r),
         \A w, r : Scanned(w, r) => Scanned(w, r)'
  PROVE  Listed' /\ Counted'
<1>1. Listed /\ Counted
  BY DEF PlanInv
<1>2. \A w, r : At(w, r)' = At(w, r)
  BY DEF At
<1>3. Listed'
  BY <1>1, <1>2 DEF Listed
<1>4. Counted'
  BY <1>1, <1>2 DEF Counted
<1> QED
  BY <1>3, <1>4

\* A refused plan is looked at no further.
LEMMA RefusedKeeps == PlanInv /\ Refused => PlanInv'
BY DEF PlanInv, PlanType, Refused

\* Before the first check nothing has been scanned.
LEMMA InitPlanInv == PlanInit => PlanInv
<1> SUFFICES ASSUME PlanInit PROVE PlanInv
  OBVIOUS
<1>1. PlanType
  BY DEF PlanInit, PlanType, required
<1>2. \A w, r : ~Scanned(w, r)
  BY PlansAssumption DEF PlanInit, Scanned
<1>3. Ordered
  BY PlansAssumption DEF PlanInit, Ordered
<1>4. Listed /\ Counted
  BY <1>2 DEF PlanInit, Listed, Counted
<1> QED
  BY <1>1, <1>3, <1>4 DEF PlanInv

\* The checks of the plan as a whole: it has a wave, and the first is the baseline.
LEMMA CheckPlanKeeps == PlanInv /\ CheckPlan => PlanInv'
<1> SUFFICES ASSUME PlanInv, CheckPlan PROVE PlanInv'
  OBVIOUS
<1>1. CASE Refused
  BY <1>1, RefusedKeeps
<1>2. CASE ~Refused
  <2>1. /\ at = "plan" /\ at' = "wave" /\ Len(plan.waves) > 0 /\ plan.waves[1].id = Baseline
        /\ UNCHANGED <<plan, wave, resource, previousWave, previousResource, identities, baseline>>
    BY <1>2 DEF CheckPlan
  <2>2. wave = 1
    BY <2>1 DEF PlanInv, Ordered
  <2>3. PlanType'
    BY <2>1 DEF PlanInv, PlanType
  <2>4. Ordered'
    BY <2>1, <2>2 DEF PlanInv, Ordered
  <2>5. \A w, r : (Scanned(w, r)' => Scanned(w, r)) /\ (Scanned(w, r) => Scanned(w, r)')
    BY <2>1 DEF Scanned
  <2>6. Listed' /\ Counted'
    BY <2>1, <2>5, SameScanned
  <2> QED
    BY <2>3, <2>4, <2>6 DEF PlanInv
<1> QED
  BY <1>1, <1>2

\* The checks at the head of a wave.
LEMMA EnterWaveKeeps == PlanInv /\ EnterWave => PlanInv'
<1> SUFFICES ASSUME PlanInv, EnterWave PROVE PlanInv'
  OBVIOUS
<1>1. CASE Refused
  BY <1>1, RefusedKeeps
<1>2. CASE ~Refused
  <2>1. /\ at = "wave" /\ at' = "resource" /\ wave <= Len(plan.waves) /\ resource' = 1
        /\ plan.waves[wave].id > previousWave /\ Len(plan.waves[wave].resources) > 0
        /\ previousWave' = plan.waves[wave].id /\ previousResource' = 0
        /\ UNCHANGED <<plan, wave, identities, baseline>>
    BY <1>2 DEF EnterWave, Wave
  <2>2. wave \in 1 .. Len(plan.waves) /\ plan.waves[wave].id \in Nat
    BY <2>1, PlansAssumption DEF PlanInv, PlanType
  <2>3. PlanType'
    BY <2>1, <2>2 DEF PlanInv, PlanType
  <2>4. wave > 1 => plan.waves[wave].id > Baseline
    BY <2>1, <2>2, PlansAssumption DEF PlanInv, PlanType, Ordered
  <2>5. Ordered'
    BY <2>1, <2>2, <2>4 DEF PlanInv, Ordered
  <2>6. \A w, r : (Scanned(w, r)' => Scanned(w, r)) /\ (Scanned(w, r) => Scanned(w, r)')
    <3>1. \A w \in 1 .. Len(plan.waves) : Len(plan.waves[w].resources) \in Nat
      BY PlansAssumption DEF PlanInv, PlanType
    <3> QED
      BY <2>1, <3>1 DEF Scanned
  <2>7. Listed' /\ Counted'
    BY <2>1, <2>6, SameScanned
  <2> QED
    BY <2>3, <2>5, <2>7 DEF PlanInv
<1> QED
  BY <1>1, <1>2

\* The wave's last resource has been checked.
LEMMA LeaveWaveKeeps == PlanInv /\ LeaveWave => PlanInv'
<1> SUFFICES ASSUME PlanInv, LeaveWave PROVE PlanInv'
  OBVIOUS
<1>1. /\ at = "resource" /\ at' = "wave" /\ resource > Len(plan.waves[wave].resources)
      /\ wave' = wave + 1
      /\ UNCHANGED <<plan, resource, previousWave, previousResource, identities, baseline>>
  BY DEF LeaveWave, Wave
<1>2. /\ wave \in 1 .. Len(plan.waves) /\ Len(plan.waves[wave].resources) > 0
      /\ previousWave = plan.waves[wave].id /\ Ordered
      /\ wave \in Nat \ {0} /\ resource \in Nat \ {0}
  BY <1>1, PlansAssumption DEF PlanInv, PlanType, Ordered
<1>3. PlanType'
  BY <1>1, <1>2 DEF PlanInv, PlanType
<1>4. previousWave >= Baseline
  <2>1. CASE wave = 1
    BY <1>1, <1>2, <2>1, PlansAssumption DEF Ordered
  <2>2. CASE wave > 1
    BY <1>1, <1>2, <2>2, PlansAssumption DEF PlanInv, PlanType, Ordered
  <2> QED
    BY <1>2, <2>1, <2>2
<1>5. Ordered'
  BY <1>1, <1>2, <1>4 DEF Ordered
<1>6. \A w, r : (Scanned(w, r)' => Scanned(w, r)) /\ (Scanned(w, r) => Scanned(w, r)')
  <2>1. \A w \in 1 .. Len(plan.waves) : Len(plan.waves[w].resources) \in Nat
    BY PlansAssumption DEF PlanInv, PlanType
  <2> QED
    BY <1>1, <1>2, <2>1, PlansAssumption DEF Scanned
<1>7. Listed' /\ Counted'
  BY <1>1, <1>6, SameScanned
<1> QED
  BY <1>3, <1>5, <1>7 DEF PlanInv

\* The baseline's resources are counted.
LEMMA CheckBaselineKeeps == PlanInv /\ CheckBaseline => PlanInv'
<1> SUFFICES ASSUME PlanInv, CheckBaseline PROVE PlanInv'
  OBVIOUS
<1>1. CASE Refused
  BY <1>1, RefusedKeeps
<1>2. CASE ~Refused
  <2>1. /\ at = "wave" /\ at' = "accepted" /\ wave > Len(plan.waves)
        /\ Len(plan.waves[1].resources) = 6 /\ \A kind \in required : baseline[kind] = 1
        /\ UNCHANGED <<plan, wave, resource, previousWave, previousResource, identities, baseline>>
    BY <1>2 DEF CheckBaseline
  <2>2. PlanType'
    BY <2>1 DEF PlanInv, PlanType
  <2>3. Ordered'
    BY <2>1 DEF PlanInv, Ordered
  <2>4. \A w, r : (Scanned(w, r)' => Scanned(w, r)) /\ (Scanned(w, r) => Scanned(w, r)')
    BY <2>1 DEF Scanned
  <2>5. Listed' /\ Counted'
    BY <2>1, <2>4, SameScanned
  <2> QED
    BY <2>2, <2>3, <2>5 DEF PlanInv
<1> QED
  BY <1>1, <1>2

\* One more resource is checked against those before it.
LEMMA CheckResourceKeeps == PlanInv /\ CheckResource => PlanInv'
<1> SUFFICES ASSUME PlanInv, CheckResource PROVE PlanInv'
  OBVIOUS
<1>1. CASE Refused
  BY <1>1, RefusedKeeps
<1>2. CASE ~Refused
  <2> DEFINE here == At(wave, resource)
  <2>1. /\ at = "resource" /\ resource <= Len(plan.waves[wave].resources)
        /\ here.key \notin identities /\ here.namespace = plan.namespace
        /\ previousResource' = here.key
        /\ identities' = identities \cup {here.key}
        /\ baseline' = IF plan.waves[wave].id = Baseline /\ here.kind \in required
                       THEN [baseline EXCEPT ![here.kind] = @ + 1] ELSE baseline
        /\ resource' = resource + 1
        /\ UNCHANGED <<plan, at, wave, previousWave>>
    BY <1>2 DEF CheckResource, Wave, Resource, At
  <2>2. /\ wave \in 1 .. Len(plan.waves) /\ wave \in Nat \ {0} /\ resource \in Nat \ {0}
        /\ resource \in 1 .. Len(plan.waves[wave].resources)
        /\ Ordered /\ Listed /\ Counted /\ PlanType
    BY <2>1, PlansAssumption DEF PlanInv, PlanType, Ordered
  <2>3. PlanType'
    <3>1. here.key \in Nat
      BY <2>2, PlansAssumption DEF At, PlanType
    <3>2. baseline' \in [required -> Nat]
      BY <2>1, <2>2 DEF PlanType
    <3> QED
      BY <2>1, <2>2, <3>1, <3>2 DEF PlanType
  <2>4. Ordered'
    BY <2>1, <2>2 DEF Ordered
  <2>5. \A w, r : At(w, r)' = At(w, r)
    BY <2>1 DEF At
  <2>6. \A w, r : Scanned(w, r)' <=> Scanned(w, r) \/ (w = wave /\ r = resource)
    BY <2>1, <2>2, PlansAssumption DEF Scanned, PlanType
  <2>7. Listed'
    BY <2>1, <2>2, <2>5, <2>6 DEF Listed
  <2>8. plan.waves[wave].id = Baseline <=> wave = 1
    BY <2>1, <2>2, PlansAssumption DEF Ordered, PlanType
  <2>9. Counted'
    <3> SUFFICES ASSUME NEW kind \in required
                 PROVE  /\ baseline'[kind] = 0 => \A r : Scanned(1, r)' => At(1, r).kind # kind
                        /\ baseline'[kind] = 1 =>
                             /\ \E r : Scanned(1, r)' /\ At(1, r).kind = kind
                             /\ \A r, s : Scanned(1, r)' /\ Scanned(1, s)' /\ At(1, r).kind = kind
                                            /\ At(1, s).kind = kind => r = s
      BY <2>5 DEF Counted
    <3>1. CASE wave = 1 /\ here.kind = kind
      <4>1. baseline'[kind] = baseline[kind] + 1 /\ baseline[kind] \in Nat
        BY <2>1, <2>2, <2>8, <3>1 DEF PlanType
      <4>2. baseline'[kind] # 0 /\ (baseline'[kind] = 1 => baseline[kind] = 0)
        BY <4>1
      <4> PICK n : n = resource
        OBVIOUS
      <4>3. Scanned(1, n)' /\ At(1, n).kind = kind
        BY <2>6, <3>1
      <4>4. baseline'[kind] = 1 => \A r : Scanned(1, r)' /\ At(1, r).kind = kind => r = n
        BY <2>2, <2>6, <3>1, <4>2 DEF Counted
      <4> QED
        BY <4>2, <4>3, <4>4
    <3>2. CASE ~(wave = 1 /\ here.kind = kind)
      <4>1. baseline'[kind] = baseline[kind]
        BY <2>1, <2>2, <2>8, <3>2 DEF PlanType
      <4>2. \A r : At(1, r).kind = kind => (Scanned(1, r)' <=> Scanned(1, r))
        BY <2>6, <3>2
      <4> QED
        BY <2>2, <4>1, <4>2 DEF Counted
    <3> QED
      BY <3>1, <3>2
  <2> QED
    BY <2>3, <2>4, <2>7, <2>9 DEF PlanInv
<1> QED
  BY <1>1, <1>2

\* Every check of the validation keeps the invariant.
LEMMA PlanInvInductive == PlanInv /\ [PlanNext]_planVars => PlanInv'
<1> SUFFICES ASSUME PlanInv, [PlanNext]_planVars PROVE PlanInv'
  OBVIOUS
<1>1. CASE PlanNext
  BY <1>1, CheckPlanKeeps, EnterWaveKeeps, CheckResourceKeeps, LeaveWaveKeeps, CheckBaselineKeeps
     DEF PlanNext
<1>2. CASE UNCHANGED planVars
  <2>1. PlanType' /\ at' = at /\ (Ordered => Ordered')
    BY <1>2 DEF planVars, PlanInv, PlanType, Ordered
  <2>2. CASE at = "refused"
    BY <2>1, <2>2 DEF PlanInv
  <2>3. CASE at # "refused"
    <3>1. \A w, r : Scanned(w, r)' <=> Scanned(w, r)
      BY <1>2 DEF planVars, Scanned
    <3>2. plan' = plan /\ identities' = identities /\ baseline' = baseline
      BY <1>2 DEF planVars
    <3>3. Listed' /\ Counted'
      BY <2>3, <3>1, <3>2, SameScanned
    <3> QED
      BY <2>1, <2>3, <3>3 DEF PlanInv
  <2> QED
    BY <2>2, <2>3
<1> QED
  BY <1>1, <1>2

\* At the last check the invariant says what an accepted plan promises.
LEMMA InvImpliesSound == PlanInv => AcceptedIsSound
<1> SUFFICES ASSUME PlanInv, at = "accepted" PROVE AcceptedIsSound
  BY DEF AcceptedIsSound
<1>1. /\ wave > Len(plan.waves) /\ Len(plan.waves) \in Nat /\ wave \in Nat
      /\ Len(plan.waves) > 0 /\ Ordered /\ Listed /\ Counted
  BY PlansAssumption DEF PlanInv, PlanType, Ordered
<1>2. \A w \in 1 .. Len(plan.waves) : \A r \in Sizes(w) : Scanned(w, r)
  BY <1>1 DEF Scanned, Sizes
<1>3. Distinct
  BY <1>2, <1>1 DEF Distinct, Listed
<1>4. BaselineComplete
  <2>1. \A r : Scanned(1, r) => r \in Sizes(1)
    BY DEF Scanned, Sizes
  <2>2. 1 \in 1 .. Len(plan.waves)
    BY <1>1
  <2> QED
    BY <1>1, <1>2, <2>1, <2>2 DEF BaselineComplete, Counted, Ordered
<1>5. \A w \in 1 .. Len(plan.waves) :
        Len(plan.waves[w].resources) > 0 /\ \A r \in Sizes(w) : At(w, r).namespace = plan.namespace
  BY <1>1, <1>2 DEF Ordered, Listed
<1> QED
  BY <1>1, <1>3, <1>4, <1>5 DEF AcceptedIsSound

\* ValidatePlan accepts only plans without a repeated identity, with a whole
\* baseline first, without an empty wave and within their namespace: what the
\* reconciler's model assumes of every plan.
THEOREM AcceptedPlansAreSound == PlanSpec => []AcceptedIsSound
<1>1. PlanSpec => []PlanInv
  BY InitPlanInv, PlanInvInductive, PTL DEF PlanSpec
<1> QED
  BY <1>1, InvImpliesSound, PTL

=============================================================================
