---------------------------- MODULE FrameScanner ----------------------------
(* The streaming scanner of store frames (effect-gate/src/frame.rs): a file  *)
(* of append attempts, some of them torn, read in blocks that end anywhere.  *)
(*                                                                           *)
(* A byte is a symbol.  A header is HeaderBytes symbols: the 0xFF that only  *)
(* starts a frame, the length, and the payload's digest; a header whose own  *)
(* digest does not match is one whose length is malformed.                   *)
EXTENDS Integers, Sequences, SequencesExt

CONSTANTS FilesRead,        \* the files' bytes
          Lengths,          \* a length symbol -> the length it announces
          DigestOf,           \* a payload -> its digest's symbol
          MaxPayload,       \* MAX_PAYLOAD_BYTES
          MaxBlock          \* the most bytes one read returns

VARIABLES file, fed,        \* the bytes, and how many were read
          attempt, found,   \* Scanner
          scan              \* "open", "finished" or "aborted"

scanVars == <<file, fed, attempt, found, scan>>

HeaderBytes == 3
Scanned == [torn : BOOLEAN, payload : DOMAIN DigestOf \cup {<<>>}]
Torn == [torn |-> TRUE, payload |-> <<>>]
FrameOf(payload) == [torn |-> FALSE, payload |-> payload]

Collecting(bytes, total) == [is |-> "Collecting", bytes |-> bytes, total |-> total]
Decided(is) == [is |-> is, bytes |-> <<>>, total |-> 0]

\* 0 for a header that announces nothing.
announced_length(header) ==
  IF header[2] \in DOMAIN Lengths /\ Lengths[header[2]] \in 1 .. MaxPayload
  THEN Lengths[header[2]] ELSE 0

committed(frame) ==
  LET payload == SubSeq(frame, HeaderBytes + 1, Len(frame) - 2) IN
    /\ SubSeq(frame, Len(frame) - 1, Len(frame)) = <<"C", "LF">>
    /\ payload \in DOMAIN DigestOf /\ frame[3] = DigestOf[payload]

-----------------------------------------------------------------------------
(* Scanner: a scanner is [attempt, found] *)

end_attempt(s) ==
  [attempt |-> Decided("Nothing"),
   found |-> IF s.attempt.is \in {"Nothing", "Committed"} THEN s.found
             ELSE Append(s.found, Torn)]

\* The whole frame is there: what it is, and what follows it.
Judged(s, frame, rest) ==
  IF committed(frame)
  THEN [attempt |-> Decided(IF rest = <<>> THEN "Committed" ELSE "Trailing"),
        found |-> Append(s.found, FrameOf(SubSeq(frame, HeaderBytes + 1, Len(frame) - 2)))]
  ELSE [s EXCEPT !.attempt = Decided("Torn")]

\* Bytes for an undecided attempt, until it has `target' of them.
Gather(collected, bytes, target) ==
  LET wanted == IF target - Len(collected) < Len(bytes)
                THEN target - Len(collected) ELSE Len(bytes) IN
    [collected |-> collected \o SubSeq(bytes, 1, wanted),
     rest |-> SubSeq(bytes, wanted + 1, Len(bytes))]

CollectFrame(s, collected, bytes, total) ==
  LET g == Gather(collected, bytes, total) IN
    IF Len(g.collected) < total
    THEN [s EXCEPT !.attempt = Collecting(g.collected, total)]
    ELSE Judged(s, g.collected, g.rest)

\* A header that ends with its block is decided at once, its frame later.
\* What forgetting the bytes collected before this block would do.
collectAnew(s, bytes) ==
  LET g == Gather(<<"FF">>, bytes, HeaderBytes)
      length == announced_length(g.collected) IN
    IF s.attempt.total # 0 THEN CollectFrame(s, s.attempt.bytes, bytes, s.attempt.total)
    ELSE IF Len(g.collected) < HeaderBytes
         THEN [s EXCEPT !.attempt = Collecting(g.collected, 0)]
         ELSE IF length = 0 THEN [s EXCEPT !.attempt = Decided("Torn")]
              ELSE CollectFrame(s, g.collected, g.rest, length + HeaderBytes + 2)

collect(s, bytes) ==
  LET g == Gather(s.attempt.bytes, bytes, HeaderBytes)
      length == announced_length(g.collected) IN
    IF s.attempt.total # 0 THEN CollectFrame(s, s.attempt.bytes, bytes, s.attempt.total)
    ELSE IF Len(g.collected) < HeaderBytes
         THEN [s EXCEPT !.attempt = Collecting(g.collected, 0)]
         ELSE IF length = 0 THEN [s EXCEPT !.attempt = Decided("Torn")]
              ELSE CollectFrame(s, g.collected, g.rest, length + HeaderBytes + 2)

extend(s, bytes) ==
  CASE bytes = <<>> -> s
    [] s.attempt.is \in {"Nothing", "Leading"} -> [s EXCEPT !.attempt = Decided("Leading")]
    [] s.attempt.is = "Torn" -> s
    [] s.attempt.is \in {"Committed", "Trailing"} -> [s EXCEPT !.attempt = Decided("Trailing")]
    [] OTHER -> collect(s, bytes)

\* A block, piece by piece: the first may go on with an attempt, every other
\* begins with the 0xFF that ends the attempt before it.
feed(s, block) ==
  LET starts == {i \in 1 .. Len(block) : block[i] = "FF"}
      begins == SetToSortSeq({1} \cup starts, <)
      piece(k) == SubSeq(block, begins[k],
                         IF k = Len(begins) THEN Len(block) ELSE begins[k + 1] - 1)
      Step(p, t) == IF p[1] = "FF"
                    THEN extend([end_attempt(t) EXCEPT !.attempt = Collecting(<<"FF">>, 0)],
                                Tail(p))
                    ELSE extend(t, p)
  IN  FoldLeft(LAMBDA t, p : Step(p, t), s, [k \in 1 .. Len(begins) |-> piece(k)])

-----------------------------------------------------------------------------
(* Reading a file *)

ScanInit ==
  /\ file \in FilesRead /\ fed = 0
  /\ attempt = Decided("Nothing") /\ found = <<>> /\ scan = "open"

Feed ==
  /\ scan = "open"
  /\ \E n \in 1 .. MaxBlock :
       /\ fed + n <= Len(file)
       /\ LET s == feed([attempt |-> attempt, found |-> found],
                        SubSeq(file, fed + 1, fed + n)) IN
            attempt' = s.attempt /\ found' = s.found
       /\ fed' = fed + n
  /\ UNCHANGED <<file, scan>>

Finish ==
  /\ scan = "open" /\ fed = Len(file)
  /\ found' = end_attempt([attempt |-> attempt, found |-> found]).found
  /\ attempt' = Decided("Nothing")
  /\ scan' = "finished"
  /\ UNCHANGED <<file, fed>>

\* The rest cannot be read, or lies beyond the bound.
Abort ==
  /\ scan = "open"
  /\ found' = Append(found, Torn)
  /\ attempt' = Decided("Nothing")
  /\ scan' = "aborted"
  /\ UNCHANGED <<file, fed>>

ScanNext == Feed \/ Finish \/ Abort

ScanSpec == ScanInit /\ [][ScanNext]_scanVars

-----------------------------------------------------------------------------
(* Properties *)

\* One attempt, read whole: a frame is there exactly if its 0xFF is followed
\* by the length, the digest, so many bytes and the committed status.
ReadAttempt(bytes) ==
  LET Holds(payload) ==
        \E l \in DOMAIN Lengths :
          /\ Lengths[l] = Len(payload)
          /\ IsPrefix(<<"FF", l, DigestOf[payload]>> \o payload \o <<"C", "LF">>, bytes)
      there == {payload \in DOMAIN DigestOf : Holds(payload)}
  IN  IF there = {} THEN <<Torn>>
      ELSE LET payload == CHOOSE payload \in there : TRUE IN
             IF Len(bytes) = Len(payload) + HeaderBytes + 2
             THEN <<FrameOf(payload)>> ELSE <<FrameOf(payload), Torn>>

\* A file, split at each 0xFF.
ReadFile(bytes) ==
  LET starts == SetToSortSeq({i \in 1 .. Len(bytes) : bytes[i] = "FF"}, <)
      to(k) == IF k = Len(starts) THEN Len(bytes) ELSE starts[k + 1] - 1
      leading == bytes # <<>> /\ bytes[1] # "FF"
  IN  (IF leading THEN <<Torn>> ELSE <<>>)
        \o FlattenSeq([k \in 1 .. Len(starts) |->
                          ReadAttempt(SubSeq(bytes, starts[k], to(k)))])

Frames(items) == SelectSeq(items, LAMBDA i : ~i.torn)

\* However a file falls into reads, a finished scan finds what the file holds,
\* in order: each committed frame once, and one TORN for each attempt, region
\* or rest that is none.  An aborted scan has every frame it was fed, and ends
\* with a TORN for what it could not read.
ScanExact ==
  /\ scan = "finished" => found = ReadFile(file)
  /\ scan = "aborted" => /\ Frames(found) = Frames(ReadFile(SubSeq(file, 1, fed)))
                         /\ Last(found) = Torn
=============================================================================
