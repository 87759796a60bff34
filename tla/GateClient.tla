----------------------------- MODULE GateClient -----------------------------
(* The I05 channel from both ends: the broker's client                        *)
(* (broker/src/i05_client.rs) and the gate's handling of a frame's envelope   *)
(* (effect-gate/src/gate.rs frame).  What an operation does at the gate is    *)
(* EffectGate's; here the gate answers OK or REFUSED.                         *)
(*                                                                            *)
(* A digest is collision-free: the digest of a frame is the frame.  The       *)
(* socket keeps the order of what one process sends, but any frame that was   *)
(* ever sent may come again, and either side may be restarted at any time.    *)
EXTENDS Integers, Sequences, FiniteSets

CONSTANTS Ids,            \* execution and action ids
          Asked,          \* the operations the broker asks for
          MAX_SEQUENCE,   \* the schema's bound on a sequence
          MaxGenerations, MaxChallenges, MaxReplays

VARIABLES client,    \* the broker's I05Client
          gateSide,    \* the gate's side of the channel
          toGate, toClient,
          sent,      \* history: every frame that was sent
          answered,  \* history: per generation, the gate's <<request, response>> pairs
          accepted,  \* history: this client's accepted <<request, response>> pairs
          deviated,  \* history: this client has returned an error
          late,      \* history: it sent or accepted a frame after one
          replays

clientVars == <<client, gateSide, toGate, toClient, sent, answered, accepted, deviated, late, replays>>

NoDigest == <<"zero">>
NoRequest == <<>>
Operations == {"GENERATION_STATUS", "BIND_EXECUTION", "ARM_ACTION", "ACTION_OUTCOME", "CLOSE_GENERATION"}
ASSUME AskedAssumption == Asked \subseteq Operations
ASSUME GenerationsAssumption == MaxGenerations \in Nat \ {0}
CarriesId == {"BIND_EXECUTION", "ARM_ACTION", "ACTION_OUTCOME"}

Digest(frame) == <<"digest", frame>>

Envelope(generation, challenge, sequence, previous, direction, operation, result, id) ==
  [generation |-> generation, challenge |-> challenge, sequence |-> sequence, previous |-> previous,
   direction |-> direction, operation |-> operation, result |-> result, id |-> id]

\* decode_frame's schema: of the envelope only the sequence's bound can fail.
Decodes(frame) == frame.sequence <= MAX_SEQUENCE

-----------------------------------------------------------------------------
(* I05Client.  A call gives the client after it and its answer, <<"Ok", v>>   *)
(* or <<an end>>.                                                             *)

Open(generation, challenge) ==
  [generation |-> generation, challenge |-> challenge, next |-> 1, last |-> NoDigest,
   pending |-> NoRequest, opened |-> FALSE, over |-> FALSE]

End(c, end) == [client |-> [c EXCEPT !.over = TRUE], answer |-> <<end>>]

Request(c, operation, id) ==
  LET frame == Envelope(c.generation, c.challenge, c.next, c.last, "BROKER_TO_GATE", operation, "", id)
  IN IF c.over THEN [client |-> c, answer |-> <<"Ended">>]
     ELSE IF c.pending # NoRequest THEN End(c, "Outstanding")
     ELSE IF ~c.opened /\ operation # "GENERATION_STATUS" THEN End(c, "Opening")
     ELSE IF ~Decodes(frame) THEN End(c, "Request")
     ELSE [client |-> [c EXCEPT !.last = Digest(frame), !.pending = frame, !.opened = TRUE],
           answer |-> <<"Ok", frame>>]

\* Whether an OK answer repeats its request's id where it carries one.
Answers(pending, frame) ==
  frame.result = "OK" /\ pending.operation \in CarriesId => frame.id = pending.id

\* The first check a received frame fails, or "".
Check(c, frame) ==
  CASE c.pending = NoRequest -> "Unsolicited"
    [] c.pending # NoRequest /\ ~Decodes(frame) -> "Frame"
    [] OTHER ->
         IF frame.direction # "GATE_TO_BROKER" THEN "Direction"
         ELSE IF frame.sequence # c.pending.sequence + 1 THEN "Sequence"
         ELSE IF frame.previous # c.last THEN "Chain"
         ELSE IF frame.generation # c.generation THEN "Generation"
         ELSE IF frame.challenge # c.challenge THEN "Challenge"
         ELSE IF frame.operation # c.pending.operation THEN "Operation"
         ELSE IF ~Answers(c.pending, frame) THEN "Answer"
         ELSE ""

\* Mutant of Receive: a frame that fails a check is dropped and the channel goes on.
ReceiveDropping(c, frame) ==
  LET end == Check(c, frame)
  IN IF c.over THEN [client |-> c, answer |-> <<"Ended">>]
     ELSE IF end # "" THEN [client |-> c, answer |-> <<end>>]
     ELSE [client |-> [c EXCEPT !.last = Digest(frame), !.next = frame.sequence + 1, !.pending = NoRequest],
           answer |-> <<"Ok", frame>>]

Receive(c, frame) ==
  LET end == Check(c, frame)
  IN IF c.over THEN [client |-> c, answer |-> <<"Ended">>]
     ELSE IF end # "" THEN End(c, end)
     ELSE [client |-> [c EXCEPT !.last = Digest(frame), !.next = frame.sequence + 1, !.pending = NoRequest],
           answer |-> <<"Ok", frame>>]

-----------------------------------------------------------------------------
(* The gate's side: Gate::frame.                                              *)

Serve(generation) ==
  [generation |-> generation, channel |-> "UNOPENED", challenge |-> 0, next |-> 1, last |-> NoDigest]

Fatal(g) == [g EXCEPT !.channel = "CLOSED"]

\* Whether a frame is the next request of this channel.
IsNext(g, frame) ==
  /\ Decodes(frame) /\ frame.direction = "BROKER_TO_GATE" /\ frame.sequence % 2 = 1
  /\ frame.sequence = g.next /\ frame.previous = g.last
  /\ frame.generation = g.generation
  /\ IF g.channel = "UNOPENED" THEN frame.operation = "GENERATION_STATUS" ELSE frame.challenge = g.challenge

Reply(g, frame, result) ==
  Envelope(g.generation, frame.challenge, frame.sequence + 1, Digest(frame), "GATE_TO_BROKER",
           frame.operation, result, IF result = "OK" /\ frame.operation \in CarriesId THEN frame.id ELSE 0)

-----------------------------------------------------------------------------
ClientInit ==
  /\ client = Open(1, 1) /\ gateSide = Serve(1)
  /\ toGate = <<>> /\ toClient = <<>> /\ sent = {}
  /\ answered = [n \in 1 .. MaxGenerations |-> <<>>] /\ accepted = <<>>
  /\ deviated = FALSE /\ late = FALSE /\ replays = 0

\* The broker calls one of the request builders.
Ask ==
  /\ \E operation \in Asked : \E id \in IF operation \in CarriesId THEN Ids ELSE {0} :
       LET done == Request(client, operation, id)
           ok == done.answer[1] = "Ok"
       IN /\ client' = done.client
          /\ toGate' = IF ok THEN Append(toGate, done.answer[2]) ELSE toGate
          /\ sent' = IF ok THEN sent \cup {done.answer[2]} ELSE sent
          /\ deviated' = (deviated \/ ~ok) /\ late' = (late \/ (deviated /\ ok))
  /\ UNCHANGED <<gateSide, toClient, answered, accepted, replays>>

\* The broker receives a datagram.
Take ==
  /\ toClient # <<>>
  /\ LET done == Receive(client, Head(toClient))
         ok == done.answer[1] = "Ok"
     IN /\ client' = done.client
        /\ accepted' = IF ok THEN Append(accepted, <<client.pending, Head(toClient)>>) ELSE accepted
        /\ deviated' = (deviated \/ ~ok) /\ late' = (late \/ (deviated /\ ok))
  /\ toClient' = Tail(toClient)
  /\ UNCHANGED <<gateSide, toGate, sent, answered, replays>>

\* The gate answers a frame, or closes its channel for good.
GateFrame ==
  /\ toGate # <<>> /\ gateSide.channel # "CLOSED"
  /\ LET frame == Head(toGate)
     IN \/ /\ IsNext(gateSide, frame)
           /\ \E result \in {"OK", "REFUSED"} :
                LET response == Reply(gateSide, frame, result)
                    opened == [gateSide EXCEPT !.channel = "OPEN", !.challenge = frame.challenge]
                IN IF Decodes(response)
                   THEN /\ gateSide' = [opened EXCEPT !.next = frame.sequence + 2, !.last = Digest(response)]
                        /\ toClient' = Append(toClient, response) /\ sent' = sent \cup {response}
                        /\ answered' = [answered EXCEPT ![gateSide.generation] = Append(@, <<frame, response>>)]
                   ELSE gateSide' = Fatal(opened) /\ UNCHANGED <<toClient, sent, answered>>
        \/ /\ ~IsNext(gateSide, frame)
           /\ gateSide' = Fatal(gateSide) /\ UNCHANGED <<toClient, sent, answered>>
  /\ toGate' = Tail(toGate)
  /\ UNCHANGED <<client, accepted, deviated, late, replays>>

\* A frame of before comes again, on either way.
Replay ==
  /\ replays < MaxReplays /\ replays' = replays + 1
  /\ \E frame \in sent :
       \/ toGate' = <<frame>> \o toGate /\ UNCHANGED toClient
       \/ toClient' = <<frame>> \o toClient /\ UNCHANGED toGate
  /\ UNCHANGED <<client, gateSide, sent, answered, accepted, deviated, late>>

\* The broker starts a new client on a new connection; the gate sees the old one lost.
Reopen ==
  /\ client.challenge < MaxChallenges
  /\ client' = Open(gateSide.generation, client.challenge + 1)
  /\ gateSide' = IF gateSide.channel = "OPEN" THEN Fatal(gateSide) ELSE gateSide
  /\ toGate' = <<>> /\ toClient' = <<>>
  /\ accepted' = <<>> /\ deviated' = FALSE
  /\ UNCHANGED <<sent, answered, late, replays>>

\* The gate starts again, with a new generation; the connection is gone.
Regenerate ==
  /\ gateSide.generation < MaxGenerations
  /\ gateSide' = Serve(gateSide.generation + 1)
  /\ toGate' = <<>> /\ toClient' = <<>>
  /\ UNCHANGED <<client, sent, answered, accepted, deviated, late, replays>>

ClientNext == Ask \/ Take \/ GateFrame \/ Replay \/ Reopen \/ Regenerate

ClientSpec == ClientInit /\ [][ClientNext]_clientVars

-----------------------------------------------------------------------------
\* What the broker accepts is what the gate of its generation answered to its own
\* requests, each response for the request it was made for, none left out, none
\* twice and in order, whatever frames come again and whichever side restarts;
\* the gate is at most one answer ahead.  And once a call of the client has
\* returned an error it neither sends nor accepts anything more.
\* (i05_client.rs request and check, gate.rs frame)
InLockstep ==
  /\ \E n \in 0 .. Len(answered[client.generation]) : accepted = SubSeq(answered[client.generation], 1, n)
  /\ gateSide.generation = client.generation /\ gateSide.channel = "OPEN" /\ gateSide.challenge = client.challenge =>
       Len(answered[client.generation]) <= Len(accepted) + 1
  /\ ~late
=============================================================================
