---------------------------- MODULE AnswerReader ----------------------------
(* The incremental reading of one HTTP answer (observer/src/http.rs, Framer, *)
(* and gate-tls/src/http1.rs, ResponseReader, the machine it was copied      *)
(* from) and what a link makes of it (observer/src/client.rs, feed, consume  *)
(* and settle; observer/src/watch.rs, Lines).  The server sends what it      *)
(* likes; reads end anywhere.                                                *)
(*                                                                           *)
(* A byte is a symbol.  A head is the symbols up to one that Heads describes *)
(* (in a body such a symbol is a byte like any other).                       *)
EXTENDS Integers, Sequences, SequencesExt

CONSTANTS Heads,          \* a head's symbol -> what it says
          Digits,         \* a hex digit's symbol -> its value
          Streams,        \* what a server may send
          HEAD_LIMIT, INTERIM_LIMIT, CHUNK_SIZE_DIGITS, LINE_LIMIT,
          AnswerLimit,    \* the decoded bound of an answer
          RAW_SLACK,
          ScrapeLimit,    \* METRICS_RAW_LIMIT, decoded and raw
          MaxRead,        \* the most bytes one read returns
          NoBound

VARIABLES stream, got,    \* what the server sends, and how much was read
          link,           \* Reading, and the event that ended the link
          reader,         \* Framer
          taken           \* the decoded bytes: a body, an exposition or lines

readVars == <<stream, got, link, reader, taken>>

CR == "CR"
LF == "LF"
Least(a, b) == IF a < b THEN a ELSE b
Within(n, bound) == bound = NoBound \/ n <= bound

-----------------------------------------------------------------------------
(* Framer *)

Stage(at, left, digits) == [at |-> at, left |-> left, digits |-> digits]
Head1 == Stage("Head", 0, 0)
Size0 == Stage("Size", 0, 0)
Done == Stage("Done", 0, 0)
RefusedStage == Stage("Refused", 0, 0)

BoundsOf(kind) ==
  CASE kind \in {"Answer", "Upstream"} -> [body |-> AnswerLimit, raw |-> AnswerLimit + RAW_SLACK]
    [] kind = "Scrape" -> [body |-> ScrapeLimit, raw |-> ScrapeLimit]
    [] OTHER -> [body |-> NoBound, raw |-> NoBound]

NewReader(kind) ==
  [stage |-> Head1, heads |-> 0, interim |-> 0, status |-> 0, media |-> "none",
   decoded |-> 0, raw |-> 0, bounds |-> BoundsOf(kind)]

Progress(f) == CASE f.stage = Done -> "Complete" [] f.stage = RefusedStage -> "Refused"
                 [] OTHER -> "NeedMore"

refuse(f) == [f EXCEPT !.stage = RefusedStage]

\* The framing a final head picks.
Framing(f, h) ==
  LET lengths == h.lengths
      chunked == h.codings # <<>> IN
    IF \/ Len(lengths) > 1 \/ \E i \in DOMAIN lengths : ~Within(lengths[i], f.bounds.body)
       \/ Len(h.codings) > 1 \/ ~ToSet(h.codings) \subseteq {"chunked"}
       \/ h.encoding \notin {"none", "identity"}
       \/ chunked /\ lengths # <<>>
    THEN RefusedStage
    ELSE IF h.status \in {204, 304}
         THEN IF ~chunked /\ lengths \in {<<>>, <<0>>} THEN Done ELSE RefusedStage
         ELSE IF chunked THEN Size0
              ELSE IF lengths = <<>> THEN RefusedStage
                   ELSE IF lengths[1] = 0 THEN Done ELSE Stage("Length", lengths[1], 0)

end_of_head(f, h) ==
  CASE ~h.form -> refuse(f)
    [] h.status \in {100, 102, 103} ->
         IF f.interim + 1 > INTERIM_LIMIT THEN refuse(f) ELSE [f EXCEPT !.interim = @ + 1]
    [] h.status \in 101 .. 199 -> refuse(f)
    [] OTHER -> [f EXCEPT !.stage = Framing(f, h), !.status = h.status, !.media = h.media]

\* A byte of a head.
HeadByte(f, byte) ==
  LET g == [f EXCEPT !.heads = @ + 1] IN
    IF g.heads > HEAD_LIMIT THEN refuse(g)
    ELSE IF byte \in DOMAIN Heads THEN end_of_head(g, Heads[byte]) ELSE g

\* The decoder's states that take one byte.
ChunkByte(f, byte) ==
  LET s == f.stage IN
  CASE s.at = "Size" /\ byte = CR /\ s.digits > 0 -> Stage("SizeLf", s.left, 0)
    [] s.at = "Size" /\ byte \in DOMAIN Digits /\ s.digits < CHUNK_SIZE_DIGITS ->
         Stage("Size", s.left * 16 + Digits[byte], s.digits + 1)
    [] s.at = "SizeLf" /\ byte = LF ->
         IF s.left = 0 THEN Stage("EndCr", 0, 0)
         ELSE IF Within(f.decoded + s.left, f.bounds.body) THEN Stage("Data", s.left, 0)
              ELSE RefusedStage
    [] s.at = "DataCr" /\ byte = CR -> Stage("DataLf", 0, 0)
    [] s.at = "DataLf" /\ byte = LF -> Size0
    [] s.at = "EndCr" /\ byte = CR -> Stage("EndLf", 0, 0)
    [] s.at = "EndLf" /\ byte = LF -> Done
    [] OTHER -> RefusedStage

\* One step of push: what the reader becomes, the bytes it took and decoded.
Stepped(f, n, out) == [f |-> f, n |-> n, out |-> out]

\* `n' bytes of data, `next' once they were the last.
Data(f, rest, next) ==
  LET n == Least(f.stage.left, Len(rest)) IN
    Stepped([f EXCEPT !.decoded = @ + n,
                      !.stage = IF n = f.stage.left THEN next
                                ELSE Stage(f.stage.at, f.stage.left - n, 0)],
            n, SubSeq(rest, 1, n))

\* The raw bound of a chunked body.
Counted(s) ==
  LET g == [s.f EXCEPT !.raw = @ + s.n] IN
    [s EXCEPT !.f = IF s.f.stage # RefusedStage /\ ~Within(g.raw, g.bounds.raw)
                    THEN refuse(g) ELSE g]

Step(f, rest) ==
  CASE f.stage = Done -> Stepped(refuse(f), 1, <<>>)
    [] f.stage = Head1 -> Stepped(HeadByte(f, rest[1]), 1, <<>>)
    [] f.stage.at = "Length" -> Data(f, rest, Done)
    [] f.stage.at = "Data" -> Counted(Data(f, rest, Stage("DataCr", 0, 0)))
    [] OTHER -> Counted(Stepped([f EXCEPT !.stage = ChunkByte(f, rest[1])], 1, <<>>))

RECURSIVE PushFrom(_, _, _)
PushFrom(f, rest, out) ==
  IF rest = <<>> \/ f.stage = RefusedStage THEN [f |-> f, out |-> out]
  ELSE LET s == Step(f, rest) IN
         PushFrom(s.f, SubSeq(rest, s.n + 1, Len(rest)), out \o s.out)

push(f, bytes) == PushFrom(f, bytes, <<>>)

\* The gate's reader of an upstream answer is the same machine, with its own
\* constants for bounds.
ResponsePush(f, bytes) == push(f, bytes)

-----------------------------------------------------------------------------
(* Lines *)

\* The complete lines of the held bytes and new ones, and the bytes then held;
\* long once a line grows past the bound, the lines before it kept.
LinesPush(held, bytes) ==
  LET all == held \o bytes
      ends == SetToSortSeq({i \in 1 .. Len(all) : all[i] = LF}, <)
      from(k) == IF k = 1 THEN 1 ELSE ends[k - 1] + 1
      line(k) == SubSeq(all, from(k), IF k > Len(ends) THEN Len(all) ELSE ends[k] - 1)
      long == {k \in 1 .. Len(ends) + 1 : Len(line(k)) > LINE_LIMIT}
      good == IF long = {} THEN Len(ends) ELSE Min(long) - 1
  IN  [lines |-> [k \in 1 .. good |-> line(k)],
       held |-> IF long = {} THEN line(Len(ends) + 1) ELSE <<>>, long |-> long # {}]

-----------------------------------------------------------------------------
(* A link: consume and settle *)

Status(f) == IF f.stage \in {Head1, RefusedStage} THEN 0 ELSE f.status
EndLink(event) == link' = [link EXCEPT !.event = event]

ConsumeAnswer(p) ==
  /\ reader' = p.f
  /\ IF Progress(p.f) = "Refused"
     THEN EndLink("Framing") /\ taken' = [taken EXCEPT !.body = <<>>]
     ELSE taken' = [taken EXCEPT !.body = @ \o p.out] /\ UNCHANGED link

ConsumeScrape(p) ==
  /\ reader' = p.f
  /\ LET first == ~link.headed /\ Status(p.f) # 0
         end == CASE Progress(p.f) = "Refused" -> "Framing"
                  [] first /\ Status(p.f) # 200 -> "Status"
                  [] first /\ p.f.media # "exposition" -> "Media"
                  [] OTHER -> "none"
     IN /\ link' = [link EXCEPT !.event = end, !.headed = @ \/ first]
        /\ taken' = [taken EXCEPT !.body = IF end = "none" THEN @ \o p.out ELSE @]

\* What handing on only the reads after the head's would do.
ConsumeWatchAfterHead(p) ==
  /\ reader' = p.f
  /\ LET first == ~link.headed /\ Status(p.f) # 0
         new == LinesPush(taken.held, IF first THEN <<>> ELSE p.out)
         end == CASE Progress(p.f) = "Refused" -> "Framing"
                  [] first /\ Status(p.f) # 200 -> "Status"
                  [] first /\ p.f.media # "json" -> "Media"
                  [] new.long -> "LongLine"
                  [] OTHER -> "none"
     IN /\ link' = [link EXCEPT !.event = end, !.headed = @ \/ (first /\ end \in {"none", "LongLine"})]
        /\ taken' = IF end \in {"none", "LongLine"}
                    THEN [taken EXCEPT !.lines = @ \o new.lines, !.held = new.held]
                    ELSE taken

ConsumeWatch(p) ==
  /\ reader' = p.f
  /\ LET first == ~link.headed /\ Status(p.f) # 0
         new == LinesPush(taken.held, p.out)
         end == CASE Progress(p.f) = "Refused" -> "Framing"
                  [] first /\ Status(p.f) # 200 -> "Status"
                  [] first /\ p.f.media # "json" -> "Media"
                  [] new.long -> "LongLine"
                  [] OTHER -> "none"
     IN /\ link' = [link EXCEPT !.event = end, !.headed = @ \/ (first /\ end \in {"none", "LongLine"})]
        /\ taken' = IF end \in {"none", "LongLine"}
                    THEN [taken EXCEPT !.lines = @ \o new.lines, !.held = new.held]
                    ELSE taken

consume(bytes) ==
  CASE link.kind = "Answer" -> ConsumeAnswer(push(reader, bytes))
    [] link.kind = "Upstream" -> ConsumeAnswer(ResponsePush(reader, bytes))
    [] link.kind = "Scrape" -> ConsumeScrape(push(reader, bytes))
    [] OTHER -> ConsumeWatch(push(reader, bytes))

ReadInit ==
  /\ stream \in Streams /\ got = 0
  /\ \E kind \in {"Answer", "Upstream", "Scrape", "Watch"} :
       /\ link = [kind |-> kind, headed |-> FALSE, event |-> "none"]
       /\ reader = NewReader(kind)
  /\ taken = [body |-> <<>>, lines |-> <<>>, held |-> <<>>]

\* One read of the plaintext, of as many bytes as are there.
ReadMore ==
  /\ link.event = "none"
  /\ \E n \in 1 .. Least(MaxRead, Len(stream) - got) :
       /\ got' = got + n
       /\ consume(SubSeq(stream, got + 1, got + n))
  /\ UNCHANGED stream

\* Nothing more to read for now, or for good.
settle(ended) ==
  /\ link.event = "none"
  /\ ended \/ Progress(reader) = "Complete"
  /\ EndLink(IF Progress(reader) # "Complete" THEN "Transport"
           ELSE IF link.kind = "Watch" THEN "Final" ELSE "Answer")
  /\ UNCHANGED <<stream, got, reader, taken>>

ReadNext == ReadMore \/ \E ended \in BOOLEAN : settle(ended)

ReadSpec == ReadInit /\ [][ReadNext]_readVars

-----------------------------------------------------------------------------
(* Properties: an answer read whole, by its grammar *)

\* A chunk size's forms, and the number one stands for.
SizeForms == UNION {[1 .. k -> DOMAIN Digits] : k \in 1 .. CHUNK_SIZE_DIGITS}
SizeOf(form) == FoldLeft(LAMBDA v, d : v * 16 + Digits[d], 0, form)

\* The bodies that `bytes' is the chunked form of: at most one.
RECURSIVE Unchunked(_)
Unchunked(bytes) ==
  LET begin(s) == Len(s) + 3
      end(s) == Len(s) + 2 + SizeOf(s)
      chunks == {s \in SizeForms :
                   /\ IsPrefix(s \o <<CR, LF>>, bytes) /\ SizeOf(s) > 0
                   /\ end(s) + 2 <= Len(bytes)
                   /\ SubSeq(bytes, end(s) + 1, end(s) + 2) = <<CR, LF>>}
  IN  {<<>> : s \in {t \in SizeForms : SizeOf(t) = 0 /\ bytes = t \o <<CR, LF, CR, LF>>}}
      \cup UNION {{SubSeq(bytes, begin(s), end(s)) \o body :
                     body \in Unchunked(SubSeq(bytes, end(s) + 3, Len(bytes)))} : s \in chunks}

\* The bodies of the final head h followed by `bytes'.
Bodies(h, bytes) ==
  CASE h.status \in {204, 304} ->
         IF bytes = <<>> /\ h.lengths \in {<<>>, <<0>>} /\ h.codings = <<>> THEN {<<>>} ELSE {}
    [] h.lengths = <<>> /\ h.codings = <<"chunked">> -> Unchunked(bytes)
    [] h.lengths = <<Len(bytes)>> /\ h.codings = <<>> -> {bytes}
    [] OTHER -> {}

InBounds(body, bytes, h) ==
  /\ Within(Len(body), reader.bounds.body)
  /\ h.codings # <<>> => Within(Len(bytes), reader.bounds.raw)

\* The whole answers that `bytes' is: interim heads, one final head, a body.
Wholes(bytes) ==
  LET HeadAt(i) == Heads[bytes[i]]
      ends == {i \in 1 .. Len(bytes) : bytes[i] \in DOMAIN Heads}
      Final(i) == /\ HeadAt(i).form /\ HeadAt(i).status >= 200 /\ i <= HEAD_LIMIT
                  /\ HeadAt(i).encoding \in {"none", "identity"}
                  /\ \A j \in ends : j < i => HeadAt(j).form /\ HeadAt(j).status \in {100, 102, 103}
                  /\ Cardinality({j \in ends : j < i}) <= INTERIM_LIMIT
      rest(i) == SubSeq(bytes, i + 1, Len(bytes))
  IN  UNION {{[head |-> HeadAt(i), body |-> b] :
                b \in {c \in Bodies(HeadAt(i), rest(i)) : InBounds(c, rest(i), HeadAt(i))}} :
             i \in {j \in ends : Final(j)}}

LinesOf(body) == LinesPush(<<>>, body).lines

\* However an answer falls into reads, a link that ends well was sent exactly
\* one whole answer, within its bounds, and hands on its body, byte for byte,
\* or, of a watch, all of its complete lines; and a whole answer that a link
\* has read to its end is never refused as badly framed.
DecodedIsSent ==
  LET sent == SubSeq(stream, 1, got) IN
    /\ link.event \in {"Answer", "Final"} =>
         \E a \in Wholes(sent) :
           /\ reader.status = a.head.status
           /\ IF link.kind = "Watch" THEN taken.lines = LinesOf(a.body)
              ELSE taken.body = a.body
    /\ Wholes(sent) # {} =>
         link.event \notin {"Framing", "Transport"} /\ Progress(reader) = "Complete"
=============================================================================
