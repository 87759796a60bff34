# Verification of the Harness operator and its host enforcement

TLA+ models, TLC configurations and TLAPS proofs kept beside the code of the Harness operator (Go) and of the host
enforcement programs (Rust). Every definition that models code names its source lines in `PROJECT.json` (`map`);
paths below are relative to `src/`, and `crates/` stands for `src/host-enforcement/crates/`.

## The system

Two programs in Go prepare an installation:

* the **bundle verifier** (`cmd/bundle-verifier`, `internal/preflight`, `internal/verify`) checks a release bundle and
  publishes a receipt;
* the **foundation engine** (`internal/controller/foundation`) validates a plan and applies its resources one by one,
  recording each in a compare-and-swap inventory.

Three Rust programs run on the host, each sealed before it opens anything:

* the **effect gate** (`crates/effect-gate`, `gate-tls`, `gate`) stands between the workers and the apiserver. A worker's
  request (channel I04) is forwarded only if the broker has armed exactly that action (I05), once, and a policy writer
  (I07) may write only while the worker side is fenced off. What it decided is in a journal on disk;
* the **broker** (`crates/broker`) starts one worker in a frozen cgroup leaf, binds it at the gate, lets it run, and ends
  it; it talks to the server over I02 and to the gate over I05;
* the **observer** (`crates/observer`) lists and watches the cluster, judges what it reads, captures facts of the host, and
  answers a requester on I01 from its latest views.

They share the frame library `crates/i05-protocol` (JSON, schemas, patterns, frames, outcome mapping).

## Modules

| Part | Module | State and actions |
|---|---|---|
| foundation engine | `Foundation`, abstract `GenerationLedger` | `inventory` and `revision` of the store, `cluster`, `published`, and per reconcile `pc` and its local copy; one action per backend call of `Engine.Reconcile` (`Load`, `Create`, `PrepareNext`, `Apply`, `Record`, `Publish`, `Complete`), plus drift and abandonment |
| plan validation | `FoundationPlan` | the scan of `ValidatePlan` with the identities and kinds seen so far |
| bundle verifier | `BundleVerifier` | every read of the bundle directory a step, a refresh of it between any two, cosign's reads, the exclusive link of the receipt |
| effect gate, I05 | `EffectGate` | the gate record and its two stores; one action per event of `Gate::handle`, the storage-failure path inside the handler |
| policy writer, I07 | `PolicyGate` (extends `EffectGate`) | sessions, maintenance, writes around the same journal |
| gate ports | `GateWire` (composes `PolicyGate`) | connection tables of I04 and upstream, the exchange board, the order in which the loop feeds events |
| gate channels | `ChannelPeers` | processes, pids, sockets; every call about a peer its own step |
| worker observation | `WorkerObservation` | the five reads of `KernelObserver`, the log, the processes beside them |
| file stores | `FileStore` | page cache and medium of index, journals, documents and markers; openings, appends, kills, power loss |
| journal frames | `FrameScanner` | the streaming scanner fed block by block |
| broker run | `BrokerLifecycle` | the leaf, the child, the run's program counter; the kernel and the worker move in between |
| I02 | `I02Transcript` | both directions of the socket and both transcripts |
| I05 client, gate peer | `GateClient`, `GatePeer` | both ends of the channel; the reads of the peer's process |
| frame library | `JsonText`, `Pattern`, `FrameSchema`, `FrameCodec`, `OutcomeMapping` | pure functions, against reference definitions |
| start | `Seal`, `RoleStart` | the seal step by step, configuration and pinned files, exit statuses |
| observer epoch, I01 service | `ObserverEpoch`, `I01Service` | streams, cycles, drains, request rounds; the session and its views |
| HTTP readers | `AnswerReader` | one link, its framer and what was taken from it |
| admission check (ADM-4) | `ManifestCheck` | two scrapes of `/metrics`, read as they arrive, the restart marker, the verdict |
| I01 answers | `I01Answer` | the chain of a session's answers, both clocks, the self-check |
| RBAC, quotas | `RbacSnapshot`, `QuotaHeadroom` | the judgement of one read, and the cluster's controllers after it |
| captures | `Captures` | the capture set in progress, the content memo, the files |

The `MC*` modules hold the instances. Machines that share nothing are put in one run: a variable `job` names the one
that moves and the others stay in one initial state, so nothing is multiplied and every state of every machine is
reached. `FoundationProofs`, `GateLemmas`, `GateProofs`, `PolicyProofs`, `ChannelPeersProofs`, `ObservationProofs`,
`BrokerProofs` and `CapturesProofs` hold the proofs; where one of them is about two components, these share nothing and
their theorems are independent.

Throughout, a handler that the code runs to its end is one action, and a sequence of system calls about something that
may change meanwhile is one action per call. Data is reduced to what is told apart: a digest is an injective function of
what it covers, a document is its facts and a flag for its form, a text is a sequence of symbols. A definition whose
comment begins with "Mutant" is a plausible bug of the definition below it, used to show that a property can fail.

## Runs

| Run | Properties | What it shows |
|---|---|---|
| `foundation` | `StoreResumable` `LiveIsKnown` `OutcomesAgree` `ImplementsLedger` `Converges` | two reconciles of two plans with one key, interleaved at every backend call and abandoned anywhere; their outcomes differ in the callers' times alone |
| | `ReceiptNamesItsRelease` `QuietVerdictExact` | what a receipt quotes, and every read compared with a digest, is of one release though the directory is refreshed under two verifiers (the second read of the payloads, compared with none, is left out); undisturbed, the verdict is exactly the rules' |
| | `AcceptedIsSound` | an accepted plan repeats no identity, starts with its baseline and stays in its namespace |
| `gate_forwarding` | `ForwardingGuarded` `SealedFrozen` | nothing is forwarded twice, without its arm, or on a stale stamp; a sealed outcome never changes |
| | `ObservedIsWorker` | what was observed is one process, the one the BIND names |
| | `ScanExact` | a torn journal read in any blocks yields exactly its committed frames |
| `policy_gate` | `UnknownHolds` `NeverReopens` `WriterNotStuck` | a write of unknown fate holds the generation over every restart and store failure; no write is sent under an id sent before, or after the maintenance ended; nothing waits for ever |
| `gate_wire` | `PortsAgree` `DrainedBeforeFrame` | ports and model never disagree; no frame overtakes a waiting connection |
| `channel_peers` | `PeerIsOpener` `InStep` `ExitCloses` | a frame is never taken for another process's; the connection of an exited process is dropped |
| `broker_run` | `LeafContained` `BracketLeavesW6` `RunEnds` | only a bound worker runs, an end that is no hold leaves the leaf clean, every run ends |
| | `InLockstep` `TokenIsOpener` | accepted answers are the gate's, in order; a token describes the opener |
| | `VerdictExact` `TextExact` `AgreementSettles` | schemas, patterns, frames and agreements against reference definitions |
| `start` | `EachInItsTime` `OneHolder` `DurableKept` | nothing is opened before its seal, files of one release only; generations never overlap, a record, document or marker answered durable is still there and committed after a power loss |
| `observer_epoch` | `FreshMarkHolds` | the freshness stamp vouches for no change the snapshot misses |
| `observer_service` | `AnswersAreCurrent` | no answer misses a change committed before its request |
| `captures` | `TakenIsEnrolled` `FillCompletes` | a published capture is true of the files it names; the fill answers for every file |
| `captures_partial` | `PartialKept` (refuted) | see the finding |
| `inputs` | `AcceptsExactlyLegal` | the transcript accepts exactly the legal frames, also in crossings |
| | `ReadAsSent` | an answer is decoded as sent however it is cut; the ADM-4 verdict is that of two whole expositions |
| | `AnswersVerify` | a session's answers form a chain inside all windows, and the self-check never refuses one |
| | `PassedIsConfined` | RBAC objects that pass give no one more than the closure allows; a later aggregation changes nothing of this at cluster scope and in the qualification namespace, and gives the observer nothing; the snapshot is within the expansion guard |
| | `HeadroomFits` | the recorded headroom exceeds no quota and is at most one unit too small |

Each property of a passing run has at least one mutant of the code that violates it under the same configuration.

## Bounds, and why they are enough

Every bound is a constant of its module, named in the `.cfg`.

* *Racing parties.* Two of each (reconciles, verifiers, executions, connections, gate processes, watched resources in
  `observer_epoch`): the hazards are between one party and another that moves in between. `observer_service` has room for one
  watched resource and one phase beside the session's states: that a request round waits for every stream, and not for
  one of several, it does not tell apart (with two resources, one unit of time and bounds of one, TLC finds no violation
  either, and finds one when the round waits for one stream only; that instance does not reach a stale exit). The I04
  table of `gate_wire` holds two connections and two are offered, so both may be taken in one readiness and both may fall
  due at once, but none is turned away at the table's limit. Three processes share one pid in the observation, so
  that the first can be followed twice. Broker restarts go up to two, so that a run meets what another left.
* *Faults.* Three failing store writes in `policy_gate` (the failure path's own writes fail too), one in `gate_wire` and
  `start`, none in `gate_forwarding`, where two executions of two actions take the room; one power loss; one kernel call
  of a start that fails or does nothing. The key built into the programs is usable there (`KeyUsable`).
* *Times and limits* are two or three units, chosen so that each limit is reached, met exactly and exceeded: a line, a
  payload, a frame and a sequence number of the last allowed size and one more, a quantity just inside and outside.
* *Inputs* of parsers and judges are a few inputs in form, with every cut and with one thing wrong at a time, or all short
  sequences over a small alphabet. The quota and RBAC tables have a row of every kind.

Symmetry is used only in runs that check safety, over connections, resources or processes that are named nowhere.
Deadlock is not checked: each of these machines may really stop (a run ends, a generation is sealed, a bound is used
up), and where it must go on a liveness property says so.

## Fairness

* `Converges`: weak fairness of each reconcile's next call and of loading again; the reconcile loop requeues a failed
  request. Crashes, backend errors and drift must cease, which the property's premise says; a write the store refuses
  because another reconcile came first is no failure, and may happen again and again.
* `WriterNotStuck`: weak fairness of the two timeouts (the 900-second bound of an I05 exchange and the bound of an I07
  write) and of nothing else: neither the apiserver, the worker nor the broker has to answer.
* `RunEnds`: weak fairness of the broker's own step and of the clock; the kernel and the worker may never act.
* `ExitCloses`: the loop goes on, and strong fairness of serving a descriptor, since a wake serves every one that is
  ready and readiness may come and go while the loop is in another step.
* `FillCompletes`: sets are started, a set's next step is taken, and the expiry wakes. The premise is that the files are
  there to stay.

## Proofs

All are checked by TLAPS, for every value of the constants that satisfies the named `ASSUME`s.

**Foundation engine** (`FoundationProofs`), for any number of reconciles and any family of valid plans: `TypeCorrect`, `AlwaysResumable` (`StoreResumable`), `NothingUnknownLive` (`LiveIsKnown`),
`NothingAheadOfCluster`, `OutcomesDifferInTimes` (`OutcomesAgree`), `StaleIsEarlier`, `NeverLosesARecord`, and `Refinement`: the engine
implements `GenerationLedger`. None of these is inductive alone: what a reconcile does depends on a copy of the inventory
that may be stale. The invariant `IInv` therefore adds that every local copy is an earlier part of the stored history of
the same plan (`CopiesAreHistory`), what a copy that was overtaken can still do (`Overtaken`), and where a reconcile is in
its loop (`LocalInv`). One lemma per action, then the theorems. Assumed: a plan is non-empty, starts at position 0/0 and
repeats no identity, which is what `AcceptedPlansAreSound` shows `ValidatePlan` to establish.

**Plan validation** (`FoundationProofs`): `AcceptedPlansAreSound` (`AcceptedIsSound`), by an invariant about the part of the plan
that was scanned and the map of identities seen.

**Effect gate** (`GateLemmas`, `GateProofs`), for any executions, runs, manifests and connections, any number of actions
and any number of failing writes: `GateSafe`, `ForwardingIsGuarded` (`ForwardingGuarded`), `UnsettledIsHeld` and
`SealsAreFrozen` (`SealedFrozen`). That a restart holds a generation with an unsettled request is not inductive: it
depends on what the journal shows of the request, which a failed append leaves behind what memory says. The invariant
`GateInv` therefore relates the two. Memory and journal have the same actions of the same execution and agree on what is
sealed (`JournalAgrees`); an armed action is armed in both, one in flight is unclean in the journal (`StatusLogged`); a
forwarded request without its answer is unclean in both (`Unsettled`). It also ties every usable stamp to the armed
action, the keys in memory to the forwarded mutations and the manifests to the runs that own them, from which no mutation
is forwarded twice. `HoldKept` says what a restart will read of a hold. A handler is an operator from a gate to a set of
gates, so the proof follows the calls of `gate.rs`: each helper is shown to be `Tame` (it keeps the execution, ends
actions at most, keeps what is sealed and leaves memory and journal in agreement), tame steps compose, and `TameKeeps`
says that they keep the invariant. Only BIND, ARM, the consumption of a request and the restart are not tame, and argue
from the invariant. Assumed: no two runs own one manifest (`CaseAssumption`), which is what the contract's case table
gives, and that the "no value" constant is no value.

**Policy writer** (`PolicyProofs`), on top of the gate's lemmas, for any number of writes: `PolicySafe`,
`UnknownIsAlwaysHeld` (`UnknownHolds`) and `NothingReopens` (`NeverReopens`). The I07 path holds the generation by setting
the state, without an `INVALIDATED` record, so the hold must be derivable from the writes: the invariant `PolicyInv` adds
that a write sent and not confirmed has no result in the journal and is outstanding or holds the generation, that while
the maintenance is open or a write is outstanding nothing of the worker's is in flight or unanswered (`Quiesced`), and
that every hold is one that a restart reads, from the gate's journal (`HoldKept`) or from the writes'. The steps of the maintenance and those of the
gate underneath are then shown to keep it, each with the handler that runs after it.

**Gate channels** (`ChannelPeersProofs`), for any number of processes, pids and connections: `PeersInvariant`,
`PeersAreOpeners` (`PeerIsOpener`), `ChannelsInStep` (`InStep`). The argument is about the last look at the pidfd: a
process that still runs ran at every earlier step, so nobody else had its pid, and the directory opened under it and
every datagram that carries it are its own.

**Worker observation** (`ObservationProofs`), for any processes, pids and number of BINDs: `ObserveInvariant`,
`ObservedAlwaysWorker` (`ObservedIsWorker`). The invariant ties the reads by pid to the pidfd: the held process had the
pid when the pidfd was opened and keeps it until it is reaped, so if it is alive at the poll, the start time and the
second listing in between were its own.

**Quota headroom** (`ObservationProofs`): `QuotaInvariant` and `HeadroomAlwaysFits`: a run that asks for the recorded headroom exceeds no
quota, now or after any number of the quota controller's steps (the conjunct `RoomFits` of `HeadroomFits`). It rests on
lemmas about rounding up and down.

**Broker run** (`BrokerProofs`), for any processes, times and number of restarts: `BrokerSafe`, `LeafIsContained`
(`LeafContained`) and `BracketIsShort` (`BracketLeavesW6`). `BrokerInv` says what each point of the run has established of
the leaf (`LeafAt`): at the spawn it is empty and told to freeze, from there to the BIND the stopped child is all that
lives in it, from the BIND to W6 every live worker is bound, and when W6 reaps it is empty; and (`LeafKnown`) that an
empty leaf that is to be frozen shows it. The kernel's late effects and the worker's forks are one kind of step
(`Drifted`), in which nothing stopped or gone runs again. The bracket needs the
invariant `Bracketed`, which counts the remaining hold and the freeze wait against the time left. Assumed: the reserve is
W6's bound and the freeze wait, as `np9.rs` has it.

**I05 client** (`BrokerProofs`), for any number of channel generations and frames: `ClientSafe` and `ChannelInLockstep`
(`InLockstep`). `ClientInv` says that a frame made by an end is sound (its number, challenge and digest are those of its
place), that the broker's sequence number counts what it accepted and the gate's what it answered, and that in one
generation the gate is at most one answer ahead. A replayed or reordered frame then has a number that is not the next.

**Captures** (`CapturesProofs`), for any files, roles, budgets and times: `CapturesSafe`, `CapturesTellTheTruth`
(`TakenIsEnrolled`) and `MemoIsSound`. A digest may be computed over several sets on one descriptor while the path is
replaced and the file written to. `CapturesInv` says what a key (inode, size, ctime) is worth: a key that was seen names
one version of a file for ever, since every write moves the ctime; a partial hash covers a beginning of that version; a
finished digest, in the memo, in the open window or in a published view, is of it. Assumed: the fill's order and the
lists of files are sequences of enrolled paths and a role has a slot of its own (`CapturesAssumption`).

**Only model-checked**, and why:

* all liveness (`Converges`, `WriterNotStuck`, `RunEnds`, `ExitCloses`, `FillCompletes`): fairness is out of TLAPS's
  reach;
* `VerdictExact`, `TextExact`, `AgreementSettles`, `ReadAsSent`, `ScanExact`, `TokenIsOpener`: what a reader or a
  recursive definition computes for every input needs induction over data;
* `QuietVerdictExact` compares a run of the verifier with the rules in a fold over the bundle, and `PassedIsConfined` an
  expansion with a closure: induction again. Of `HeadroomFits` only the conjunct `RoomFits` is proved: that the
  published pair gives the headroom, that it is at most one unit too small and that no text is read as another value are
  checked on the instance's tables;
* `PortsAgree`, `DrainedBeforeFrame`, `ReceiptNamesItsRelease`, `EachInItsTime`, `OneHolder`, `DurableKept`, `FreshMarkHolds`, `AnswersAreCurrent`,
  `AcceptsExactlyLegal` and `AnswersVerify` are safety properties whose inductive invariants are still to be found.

## Finding

`captures_partial` refutes a comment. `crates/observer/src/capture.rs:31` says that a file the budget cuts keeps its
partial hash and that "the next set checks the key with `fstat` and reads on (no seek), or restarts from byte 0 through a
fresh open if the key changed". `fill` takes the held partial for the first path of its order without a memo entry, and
drops it when that is another path: when an earlier path cannot be opened or has lost its entry, the cut file restarts
from byte 0 with its key unchanged. `FillCompletes` shows that the fill ends all the same once the files are there to stay.

## Not modelled

`PROJECT.json` lists every part with its status. Partly modelled, and what is left out:

* the I04, upstream and channel ports: TLS records and socket control messages, which are what a read may come to;
* the observer's epoch and service: the classification of a watch line's object, and the content of a verdict, which is
  `RbacSnapshot`'s, `QuotaHeadroom`'s, `ManifestCheck`'s and `I01Answer`'s;
* the capture engine: the process, cgroup and program facts of a window, a verdict each;
* the frame library: base64, SHA-256, the embedded contract texts, and the notation of very large and very small floats;
* ADM-4: the calendar arithmetic and the record's encoding; journal frames: the fields of a payload.

Not modelled at all: the `HarnessInstallation` types and their reconciler, which reads and validates and changes nothing
(the phase table of `api/v1alpha1/lifecycle.go` is applied nowhere); the wrappers of single system calls; the driving of sockets and
of the TLS library; the field forms of configuration documents and of the observer's records, predicates without state;
the rendering of I01's documents and their digests; the qualification composition, which the observer's service does not
reach; the START frame's builder; scaffolds, test doubles and build scripts. They are pure functions of one document, or
hand on what the operating system returns: there is no order of events in them for a model to explore.
