--------------------------- MODULE I02Transcript ---------------------------
(***************************************************************************)
(* The frames after one DISPATCH on the broker's server channel            *)
(* (broker/src/i02.rs): the broker's Transcript, which takes the frames of *)
(* both directions and builds the broker's own through the same checks,    *)
(* and the two directions of the socket.  The server is not part of the    *)
(* repository: it keeps a transcript of its own by the same rules, and,    *)
(* while MaxForged allows it, also sends frames it should not.             *)
(*                                                                         *)
(* A frame's SHA-256 covers its previous digest, so the digest of the last *)
(* frame stands for the whole transcript: it is modelled by the sequence   *)
(* of the frames taken so far.  A receipt's digest is its bytes.           *)
(***************************************************************************)
EXTENDS Integers, Sequences, SequencesExt

CONSTANTS ActionIds, Manifests,
          CaseResources,    \* the bound case's manifests
          Chunks,           \* decoded chunk data the worker's receipt is made of
          Cleanups,         \* cleanup digests
          MaxSequence,      \* the schema's last sequence (2048)
          MaxChunks, MaxChunkBytes, MaxReceiptBytes,
          MaxForged,        \* frames the server may send against its transcript
          None

ASSUME TranscriptAssumption ==
    /\ MaxSequence \in Nat /\ MaxChunks \in Nat \ {0} /\ MaxChunkBytes \in Nat /\ MaxReceiptBytes \in Nat
    /\ MaxForged \in Nat
    /\ CaseResources \subseteq Manifests
    /\ None \notin ActionIds \cup Cleanups
    /\ \A c \in Chunks : c \in Seq({0, 1}) /\ Len(c) > 0

VARIABLES broker, server,       \* the two transcripts
          toServer, toBroker,   \* datagrams on their way
          forged

vars == <<broker, server, toServer, toBroker, forged>>

-----------------------------------------------------------------------------
(* Frames *)

\* The direction by kind.
BrokerKinds == {"STARTED", "RESOURCE_ACTION", "RECEIPT_CHUNK", "TERMINAL", "REFUSED"}
ServerKinds == {"RESOURCE_RESULT", "CLEANUP_RECORDED", "ABORT"}
Sender(kind) == IF kind \in BrokerKinds THEN "broker" ELSE "server"

\* What a frame says beside its envelope; the members a kind has not are None.
Empty == [id |-> None, manifest |-> None, index |-> None, data |-> None, size |-> None, cleanup |-> None]
Item(kind, payload) == [kind |-> kind, payload |-> payload]
Action(id, m) == Item("RESOURCE_ACTION", [Empty EXCEPT !.id = id, !.manifest = m])
Result(id) == Item("RESOURCE_RESULT", [Empty EXCEPT !.id = id])
Chunk(i, data) == Item("RECEIPT_CHUNK", [Empty EXCEPT !.index = i, !.data = data])
Cleanup(c) == Item("CLEANUP_RECORDED", [Empty EXCEPT !.cleanup = c])
Terminal(receipt, size, c) == Item("TERMINAL", [Empty EXCEPT !.data = receipt, !.size = size, !.cleanup = c])
Plain(kind) == Item(kind, Empty)

\* A datagram: its item, its place in the chain, and whether it carries the
\* DISPATCH's eight fields and the execution id.
Frame(item, sequence, previous, ours) ==
    [item |-> item, sequence |-> sequence, previous |-> previous, ours |-> ours]

-----------------------------------------------------------------------------
(* The transcript *)

\* first: no frame yet; refuse: only REFUSED may come.
Phases == {"first", "refuse", "running", "cleaned", "over"}

Begin(phase) ==
    [phase |-> phase, log |-> <<>>, outstanding |-> None, aborted |-> FALSE, index |-> 0, receipt |-> <<>>, cleanup |-> None]

Next1(t) == Len(t.log) + 1

\* check's envelope: direction, sequence, chain, echo and execution.
InChain(t, f, from) ==
    /\ Sender(f.item.kind) = from
    /\ f.sequence = Next1(t) /\ f.sequence <= MaxSequence
    /\ f.previous = t.log
    /\ f.ours

\* Mutant: an action after the server's ABORT.
MayActAborted(t, p) == t.phase = "running" /\ t.outstanding = None /\ p.manifest \in CaseResources

MayAct(t, p) ==
    t.phase = "running" /\ ~t.aborted /\ t.outstanding = None /\ p.manifest \in CaseResources
MayAnswer(t, p) == t.outstanding # None /\ t.outstanding = p.id
MayChunk(t, p) ==
    /\ t.phase = "running" /\ t.outstanding = None
    /\ p.index = t.index /\ p.index < MaxChunks
    /\ Len(p.data) <= MaxChunkBytes /\ Len(t.receipt) + Len(p.data) <= MaxReceiptBytes
MayClean(t) == t.phase = "running" /\ t.outstanding = None /\ t.index >= 1
MayEnd(t, p) ==
    /\ t.phase = "cleaned" /\ t.outstanding = None
    /\ p.size = Len(t.receipt) /\ p.data = t.receipt /\ p.cleanup = t.cleanup

\* order and running: whether an item may come next.
InOrder(t, item) ==
    LET p == item.payload IN
    CASE item.kind = "STARTED" -> t.phase = "first"
      [] item.kind = "REFUSED" -> t.phase \in {"first", "refuse"}
      [] item.kind = "RESOURCE_ACTION" -> MayAct(t, p)
      [] item.kind = "RESOURCE_RESULT" -> t.phase \in {"running", "cleaned"} /\ MayAnswer(t, p)
      [] item.kind = "RECEIPT_CHUNK" -> MayChunk(t, p)
      [] item.kind = "CLEANUP_RECORDED" -> MayClean(t)
      [] item.kind = "TERMINAL" -> MayEnd(t, p)
      [] OTHER -> t.phase \in {"running", "cleaned"} /\ ~t.aborted

Taken(t, item) ==
    LET p == item.payload
        u == [t EXCEPT !.log = Append(@, item)]
    IN
    CASE item.kind = "STARTED" -> [u EXCEPT !.phase = "running"]
      [] item.kind \in {"REFUSED", "TERMINAL"} -> [u EXCEPT !.phase = "over"]
      [] item.kind = "RESOURCE_ACTION" -> [u EXCEPT !.outstanding = p.id]
      [] item.kind = "RESOURCE_RESULT" -> [u EXCEPT !.outstanding = None]
      [] item.kind = "RECEIPT_CHUNK" -> [u EXCEPT !.receipt = @ \o p.data, !.index = @ + 1]
      [] item.kind = "CLEANUP_RECORDED" -> [u EXCEPT !.phase = "cleaned", !.cleanup = p.cleanup]
      [] OTHER -> [u EXCEPT !.aborted = TRUE]

\* accept: a breach is the transcript's end.
Accept(t, f, from) ==
    IF t.phase # "over" /\ InChain(t, f, from) /\ InOrder(t, f.item)
      THEN Taken(t, f.item)
      ELSE [t EXCEPT !.phase = "over"]

-----------------------------------------------------------------------------
(* The two peers *)

Init ==
    /\ \E phase \in {"first", "refuse"} : broker = Begin(phase)
    /\ server = Begin("first")
    /\ toServer = <<>> /\ toBroker = <<>> /\ forged = 0

Built(t, item) == Frame(item, Next1(t), t.log, TRUE)

\* The builders' frames: any action and chunk the caller asks for; TERMINAL
\* binds the receipt and the cleanup so far (without a cleanup it is a breach).
BrokerItems ==
    {Plain("STARTED"), Plain("REFUSED"), Terminal(broker.receipt, Len(broker.receipt), broker.cleanup)}
    \cup {Action(id, m) : id \in ActionIds, m \in Manifests}
    \cup {Chunk(broker.index, data) : data \in Chunks}
ServerItems == {Result(id) : id \in ActionIds} \cup {Cleanup(c) : c \in Cleanups} \cup {Plain("ABORT")}

\* build: the frame is taken through accept before it is sent.
BrokerSend ==
    /\ broker.phase # "over"
    /\ \E item \in BrokerItems :
         /\ broker' = Accept(broker, Built(broker, item), "broker")
         /\ toServer' = IF broker'.log # broker.log THEN Append(toServer, Built(broker, item)) ELSE toServer
    /\ UNCHANGED <<server, toBroker, forged>>

BrokerReceive ==
    /\ toBroker # <<>>
    /\ broker' = Accept(broker, Head(toBroker), "server")
    /\ toBroker' = Tail(toBroker)
    /\ UNCHANGED <<server, toServer, forged>>

ServerSend ==
    /\ \E item \in ServerItems :
         /\ InOrder(server, item) /\ InChain(server, Built(server, item), "server")
         /\ server' = Taken(server, item)
         /\ toBroker' = Append(toBroker, Built(server, item))
    /\ UNCHANGED <<broker, toServer, forged>>

ServerReceive ==
    /\ toServer # <<>>
    /\ server' = Accept(server, Head(toServer), "broker")
    /\ toServer' = Tail(toServer)
    /\ UNCHANGED <<broker, toBroker, forged>>

\* A frame against the server's own transcript: another place in the chain,
\* another dispatch, the broker's direction, or simply out of order.
Forge ==
    /\ forged < MaxForged /\ forged' = forged + 1
    /\ \E item \in ServerItems \cup {Plain("STARTED")}, n \in {Next1(server), Next1(server) + 1},
          previous \in {server.log, <<>>}, ours \in BOOLEAN :
         toBroker' = Append(toBroker, Frame(item, n, previous, ours))
    /\ UNCHANGED <<broker, server, toServer>>

Next == BrokerSend \/ BrokerReceive \/ ServerSend \/ ServerReceive \/ Forge

Spec == Init /\ [][Next]_vars

-----------------------------------------------------------------------------
(* What the transcript promises, stated over the frames alone *)

KindAt(log, i) == log[i].kind
Places(log, kind) == {i \in 1..Len(log) : KindAt(log, i) = kind}
Answered(log, j, i) == \E k \in j + 1..i - 1 : KindAt(log, k) = "RESOURCE_RESULT"
ChunksBefore(log, i) == {j \in Places(log, "RECEIPT_CHUNK") : j < i}
ReceiptOf(log) ==
    LET isChunk(item) == item.kind = "RECEIPT_CHUNK"
        chunks == SelectSeq(log, isChunk)
    IN  FlattenSeq([k \in 1..Len(chunks) |-> chunks[k].payload.data])

FirstLegal(log) ==
    /\ Len(log) <= MaxSequence
    /\ \A i \in 1..Len(log) : (i = 1) <=> KindAt(log, i) \in {"STARTED", "REFUSED"}
    /\ Places(log, "REFUSED") # {} => Len(log) = 1

ActionsLegal(log) ==
    /\ \A i \in Places(log, "RESOURCE_RESULT") :
         \E j \in Places(log, "RESOURCE_ACTION") :
            /\ j < i /\ ~Answered(log, j, i)
            /\ log[j].payload.id = log[i].payload.id
    /\ \A i \in 1..Len(log) :
         KindAt(log, i) \in {"RESOURCE_ACTION", "RECEIPT_CHUNK", "CLEANUP_RECORDED", "TERMINAL"} =>
            \A j \in Places(log, "RESOURCE_ACTION") : j < i => Answered(log, j, i)
    /\ \A i \in Places(log, "RESOURCE_ACTION") : log[i].payload.manifest \in CaseResources
    /\ \A i, j \in Places(log, "ABORT") : i = j
    /\ \A i \in Places(log, "RESOURCE_ACTION"), j \in Places(log, "ABORT") \cup Places(log, "CLEANUP_RECORDED") : i < j

ReceiptLegal(log) ==
    /\ \A i \in Places(log, "RECEIPT_CHUNK") :
         /\ log[i].payload.index = Cardinality(ChunksBefore(log, i)) /\ log[i].payload.index < MaxChunks
         /\ Len(log[i].payload.data) <= MaxChunkBytes
         /\ \A j \in Places(log, "CLEANUP_RECORDED") : i < j
    /\ Len(ReceiptOf(log)) <= MaxReceiptBytes
    /\ \A i, j \in Places(log, "CLEANUP_RECORDED") : i = j
    /\ \A i \in Places(log, "CLEANUP_RECORDED") : ChunksBefore(log, i) # {}
    /\ \A i \in Places(log, "TERMINAL") :
         /\ i = Len(log)
         /\ log[i].payload.data = ReceiptOf(log) /\ log[i].payload.size = Len(ReceiptOf(log))
         /\ \E j \in Places(log, "CLEANUP_RECORDED") : j < i /\ log[j].payload.cleanup = log[i].payload.cleanup

Legal(log) == FirstLegal(log) /\ ActionsLegal(log) /\ ReceiptLegal(log)

-----------------------------------------------------------------------------
(* Properties *)

\* The checks are the rules of O12, O20 and O21 as the Transcript's comment
\* states them: what either transcript has taken obeys them whatever the peer
\* sends, and a frame that would keep a live transcript legal is no breach.
\* And the server takes a TERMINAL only of a broker with the same transcript,
\* the crossing of an ABORT with the broker's frames included.
AcceptsExactlyLegal ==
    /\ Legal(broker.log) /\ Legal(server.log)
    /\ broker.phase \notin {"over", "refuse"} =>
         \A item \in BrokerItems \cup ServerItems : Legal(Append(broker.log, item)) => InOrder(broker, item)
    /\ Places(server.log, "TERMINAL") # {} => broker.log = server.log
=============================================================================
