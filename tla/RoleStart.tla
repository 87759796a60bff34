------------------------------ MODULE RoleStart ------------------------------
(* How a process of a host role comes up (the main and serve functions of    *)
(* gate, broker and observer): the two stages of its seal, the signed        *)
(* configuration, the files the configuration pins, and what it then opens,  *)
(* in the order of the code, each failure with its exit status.  Around it:  *)
(* the start state the service manager gave it, kernel calls that fail or    *)
(* report a success without effect (a filter installed outside may answer    *)
(* them), a library's thread, and an installer that replaces the files of a  *)
(* release by those of the next, one at a time, at any moment.               *)
EXTENDS Seal, SequencesExt

CONSTANTS MaxWrong,    \* kernel calls that go wrong in one start
          KeyUsable    \* the key compiled in has 32 bytes and is not of small order

VARIABLES role,      \* whose main this is
          begin,     \* the process as it was started
          kernel,    \* the process as the kernel has it now
          gatePlan,  \* the gate's Plan, made at the step "Program"
          pc,        \* the next step of the role's main
          status,    \* the exit status; 0 while it runs
          disk,      \* the release each installed file is of
          used,      \* the release of each file the process read; 0 for none
          acquired,    \* what it has opened or made
          wrong     \* kernel calls that went wrong

startVars == <<role, begin, kernel, gatePlan, pc, status, disk, used, acquired, wrong>>

Installed == {"document", "signature", "credentials", "record"}
Releases == 1 .. 2

-----------------------------------------------------------------------------
(* The steps after the seal, each with the statuses it can end the process   *)
(* with; none for a step that cannot fail.                                   *)

Step(name, exits) == [step |-> name, exits |-> exits]

SealSteps(numbered) == [i \in 1 .. Len(numbered) |-> Step(numbered[i].step, {numbered[i].status})]

\* signed_config::load of each role, then the parse.
Load == <<Step("Document", {11}), Step("Signature", {11}), Step("Verify", {12}), Step("Parse", {13})>>
BrokerLoad == <<Step("Document", {11}), Step("Signature", {11}), Step("Verify", {12}), Step("Parse", {13})>>
ObserverLoad == <<Step("Document", {11}), Step("Signature", {11}), Step("Verify", {12}), Step("Parse", {13})>>

GateServe ==
  <<Step("Credentials", {20}), Step("Tls", {21}), Step("Listener", {24}), Step("Os", {24}),
    Step("Roots", {26}), Step("Stores", {22}), Step("Gate", {23}), Step("Substrate", {25}),
    Step("Loop", 30 .. 35)>>

BrokerServe == <<Step("Leaf", {}), Step("Startup", {}), Step("Listener", {24}), Step("Loop", {24})>>

ObserverServe ==
  <<Step("Lifetime", {14, 97}), Step("Binding", {13}), Step("Credentials", {20}), Step("Tls", {21}),
    Step("Schema", {25}), Step("Record", {26}), Step("Enrolled", {27, 28, 29, 97}),
    Step("Server", {27}), Step("Listener", {24} \cup 31 .. 34), Step("Roots", {30}),
    Step("Closure", {22}), Step("Loop", {35} \cup 80 .. 99)>>

GateMain == SealSteps(GateSteps.first) \o Load \o SealSteps(GateSteps.second) \o GateServe
BrokerMain == SealSteps(BrokerSteps.first) \o BrokerLoad \o SealSteps(BrokerSteps.second) \o BrokerServe
ObserverMain == SealSteps(ObserverSteps.first) \o SealSteps(ObserverSteps.second) \o ObserverLoad \o ObserverServe

Main == [gate |-> GateMain, broker |-> BrokerMain, observer |-> ObserverMain]

Here == Main[role][pc]
Running == status = 0 /\ pc <= Len(Main[role])

Past(step) == \E i \in 1 .. pc - 1 : Main[role][i].step = step

-----------------------------------------------------------------------------
(* The start.                                                                *)

\* One identity at most is not root's.
StartKernels(caps) ==
  {k \in [effective : SUBSET caps, permitted : SUBSET caps, inheritable : SUBSET caps,
          bounding : SUBSET caps, ambient : SUBSET caps, nnp : {FALSE}, core : {TRUE},
          filtered : {FALSE}, threads : {1, 2}, foreign : {{}} \cup {{i} : i \in Identities}] :
     Consistent(k)}

NoPlan == [drops1 |-> {}, bounding1 |-> {}, set1 |-> {}, drops2 |-> {}]

\* The capabilities a role's seal tells apart: one it names and another one.
StartInit ==
  /\ role \in Roles
  /\ begin \in StartKernels(IF role = "gate" THEN Caps \ UNION {KeptBy[r] : r \in Roles}
                            ELSE Caps \ {SetPcap})
  /\ kernel = begin /\ gatePlan = NoPlan /\ pc = 1 /\ status = 0
  /\ disk = [f \in Installed |-> 1] /\ used = [f \in Installed |-> 0]
  /\ acquired = {} /\ wrong = 0

-----------------------------------------------------------------------------
(* Steps of main.                                                            *)

Advance == pc' = pc + 1 /\ UNCHANGED status
Quit == status' \in Here.exits /\ UNCHANGED pc

\* A write of the seal: the kernel does it or refuses it.
SealWrite ==
  /\ Running /\ Here.step \in Writes
  /\ LET call == WriteOf(role, Here.step, gatePlan) IN
     IF Permits(call, kernel) THEN kernel' = After(call, kernel) /\ Advance
     ELSE UNCHANGED kernel /\ Quit
  /\ UNCHANGED <<role, begin, gatePlan, disk, used, acquired, wrong>>

\* A write that reports a success and does nothing.  Not the last one: the
\* filter stops every read that could tell.
SealWriteIgnored ==
  /\ Running /\ Here.step \in Writes \ {"Filter"} /\ wrong < MaxWrong
  /\ wrong' = wrong + 1 /\ Advance
  /\ UNCHANGED <<role, begin, kernel, gatePlan, disk, used, acquired>>

SealReads == UNION {{x.step : x \in ToSet(SealSteps(s.first) \o SealSteps(s.second))} :
                      s \in {GateSteps, BrokerSteps, ObserverSteps}} \ Writes

\* A read of the seal: what it must return, or the exit.
SealRead ==
  /\ Running /\ Here.step \in SealReads
  /\ gatePlan' = IF role = "gate" /\ Here.step = "Program" THEN GatePlan(kernel) ELSE gatePlan
  /\ IF ReadHolds(role, Here.step, gatePlan, kernel) THEN Advance ELSE Quit
  /\ UNCHANGED <<role, begin, kernel, disk, used, acquired, wrong>>

\* A call of the seal fails with an error of the kernel's.
SealCallFails ==
  /\ Running /\ Here.step \in SealReads \cup Writes /\ wrong < MaxWrong
  /\ wrong' = wrong + 1 /\ Quit
  /\ UNCHANGED <<role, begin, kernel, gatePlan, disk, used, acquired>>

\* read_file: one file is read whole, or fails (one that changes its size
\* under the read included).
ReadConfig ==
  /\ Running
  /\ \E f \in {"document", "signature"} :
       /\ Here.step = (IF f = "document" THEN "Document" ELSE "Signature")
       /\ \/ used' = [used EXCEPT ![f] = disk[f]] /\ Advance
          \/ UNCHANGED used /\ Quit
  /\ UNCHANGED <<role, begin, kernel, gatePlan, disk, acquired, wrong>>

\* Mutant: any signature of the key's is one over this document.
VerifyUnboundSignature == Advance

\* verify: check_key, then the signature is one over these bytes.  A build whose
\* key is not set ends every start here.
VerifySignature == IF KeyUsable /\ used["signature"] = used["document"] THEN Advance ELSE Quit

Verify ==
  /\ Running /\ Here.step = "Verify" /\ VerifySignature
  /\ UNCHANGED <<role, begin, kernel, gatePlan, disk, used, acquired, wrong>>

PinHolds(f) == disk[f] = used["document"]

\* A pinned file is read whole and its digest compared with the pin of the
\* document that was read.
ReadPinned ==
  /\ Running /\ Here.step \in {"Credentials", "Record"}
  /\ \E f \in {"credentials", "record"} :
       /\ Here.step = (IF f = "credentials" THEN "Credentials" ELSE "Record")
       /\ used' = [used EXCEPT ![f] = disk[f]]
       /\ IF PinHolds(f) THEN Advance \/ Quit ELSE Quit
  /\ UNCHANGED <<role, begin, kernel, gatePlan, disk, acquired, wrong>>

\* The sockets and roots take the seal's token; the gate's stores are the
\* first durable thing; the broker's startup run may leave a child.
Acquires == [Listener |-> "socket", Os |-> "socket", Roots |-> "roots", Stores |-> "durable", Startup |-> "child"]

Setup ==
  /\ Running
  /\ Here.step \in {"Parse", "Tls", "Listener", "Os", "Roots", "Stores", "Gate", "Substrate", "Leaf", "Startup",
                  "Lifetime", "Binding", "Schema", "Enrolled", "Server", "Closure"}
  /\ \/ acquired' = acquired \cup (IF Here.step \in DOMAIN Acquires THEN {Acquires[Here.step]} ELSE {}) /\ Advance
     \/ UNCHANGED acquired /\ Quit
  /\ UNCHANGED <<role, begin, kernel, gatePlan, disk, used, wrong>>

\* The loop has no normal end.
LoopExit ==
  /\ Running /\ Here.step = "Loop" /\ Quit
  /\ UNCHANGED <<role, begin, kernel, gatePlan, disk, used, acquired, wrong>>

-----------------------------------------------------------------------------
(* Around the process.                                                       *)

\* A thread of a library the configuration is read with.
Spawn ==
  /\ Running /\ Here.step \in {"Document", "Signature", "Verify", "Parse"} /\ role # "observer"
  /\ kernel.threads = 1 /\ kernel' = [kernel EXCEPT !.threads = 2]
  /\ UNCHANGED <<role, begin, gatePlan, pc, status, disk, used, acquired, wrong>>

\* The installer replaces a file by the next release's, while the process
\* reads its input.
Install(f) ==
  /\ Running /\ disk[f] = 1
  /\ Here.step \in {"Document", "Signature", "Credentials", "Record"}
  /\ disk' = [disk EXCEPT ![f] = 2]
  /\ UNCHANGED <<role, begin, kernel, gatePlan, pc, status, used, acquired, wrong>>

StartNext ==
  \/ SealWrite \/ SealWriteIgnored \/ SealRead \/ SealCallFails
  \/ ReadConfig \/ Verify \/ ReadPinned \/ Setup \/ LoopExit
  \/ Spawn \/ \E f \in Installed : Install(f)

StartSpec == StartInit /\ [][StartNext]_startVars

-----------------------------------------------------------------------------
(* Properties.                                                               *)

\* A seal that completes began in an acceptable start; one that was refused,
\* with no call gone wrong and no thread appeared, did not; and a start state
\* that is refused for what it is was not changed.
SealDecides ==
  /\ Past("Filter") => Acceptable(role, begin)
  /\ status \in 36 .. 79 /\ wrong = 0 /\ kernel.threads = begin.threads => ~Acceptable(role, begin)
  /\ status \in 36 .. (IF role = "gate" THEN 45 ELSE 47) => kernel = begin

\* The seal decides on the start state exactly, and whatever a kernel call did
\* or did not do, and whatever thread appeared: no
\* file is read before stage 1 is in force (the observer: before the whole
\* seal is), nothing is opened before the whole seal is in force, and nothing
\* durable is made before the sockets are there, so that a start that fails
\* on a socket leaves its generation fresh.  And though a release is installed
\* file by file meanwhile, what opens a socket runs on the files of one
\* release, that of the signed document.
EachInItsTime ==
  /\ SealDecides
  /\ (\E f \in Installed : used[f] # 0) => Stage1Closed(role, kernel)
  /\ role = "observer" /\ (\E f \in Installed : used[f] # 0) => SealedClosed(role, kernel)
  /\ acquired # {} => SealedClosed(role, kernel)
  /\ "durable" \in acquired => {"socket", "roots"} \subseteq acquired
  /\ acquired # {} =>
       /\ used["signature"] = used["document"]
       /\ role # "broker" => used["credentials"] = used["document"]
       /\ role = "observer" => used["record"] = used["document"]
=============================================================================
