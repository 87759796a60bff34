----------------------------- MODULE FrameCodec -----------------------------
(* The frame pipeline (i05-protocol/src/frame.rs): a datagram as received is  *)
(* parsed, encoded again and compared, and its structure checked against the  *)
(* closed schema.                                                             *)
EXTENDS FrameSchema

CONSTANTS Datagrams,          \* what may be received
          Alphabet,           \* the symbols a datagram is made of
          FrameDocument,      \* the schema of the frames
          MAX_FRAME_BYTES, MAX_DEPTH

VARIABLES datagram, frame

frameVars == <<datagram, frame>>

NotBytes == <<"not bytes">>
Refuse(code) == <<code>>

\* The schema is loaded once, before any frame is read.
TheSchema == LoadSchema(FrameDocument)

\* "" for a structure that is accepted.
CheckStructure(v) ==
  CASE Depth(v) > MAX_DEPTH -> "F01"
    [] Depth(v) <= MAX_DEPTH /\ ContainsFloat(v) -> "F03"
    [] Depth(v) <= MAX_DEPTH /\ ~ContainsFloat(v) /\ ContainsControl(v) -> "F04"
    [] OTHER -> IF IsValid(TheSchema, v) THEN "" ELSE "F00"

\* A frame goes on only if nothing was wrong with its structure.
Structured(code, then) == IF code # "" THEN Refuse(code) ELSE then

ParseCode(error) == CASE error = "Constant" -> "F03" [] error = "Duplicate" -> "F05" [] OTHER -> "F06"

CheckParsed(parsed, raw) ==
  IF IsError(parsed) THEN Refuse(ParseCode(parsed[1]))
  ELSE IF Canonical(parsed[2]) # <<"Ok", raw>> THEN Refuse("F06")
  ELSE Structured(CheckStructure(parsed[2]), parsed)

DecodeFrame(raw) ==
  IF raw = NotBytes THEN Refuse("F07")
  ELSE IF Len(raw) > MAX_FRAME_BYTES THEN Refuse("F02")
  ELSE CheckParsed(Parse(raw), raw)

CheckEncoded(encoded) ==
  IF encoded = EncodeError THEN Refuse("F06")
  ELSE IF Len(encoded[2]) > MAX_FRAME_BYTES THEN Refuse("F02")
  ELSE encoded

\* check_frame_encoded: what the sender of a frame checks before it sends.
CheckFrameEncoded(v) == Structured(CheckStructure(v), CheckEncoded(Canonical(v)))

-----------------------------------------------------------------------------
FrameStart(d) == datagram = d /\ frame = <<>>
FrameInit == \E d \in Datagrams : FrameStart(d)

ReceiveFrame ==
  /\ frame = <<>>
  /\ frame' = DecodeFrame(datagram)
  /\ UNCHANGED datagram

FrameNext == ReceiveFrame

-----------------------------------------------------------------------------
(* The reference: the values a text denotes, by splitting it at every place,  *)
(* whatever repeats a key; and how few symbols can write a value.             *)

Blank(i, j) == \A k \in i .. j : datagram[k] = " "
Trimmed(i, j) == <<Min({k \in i .. j : datagram[k] # " "}), Max({k \in i .. j : datagram[k] # " "})>>

\* A part that a reader of its own reads to exactly its end.
Exactly(part, length) == IF ~IsError(part) /\ part[2] = length + 1 THEN {part[1]} ELSE {}

RECURSIVE ValuesIn(_, _), ItemsIn(_, _), PairsIn(_, _)
ValuesIn(i, j) ==
  IF Blank(i, j) THEN {}
  ELSE LET a == Trimmed(i, j)[1]
           b == Trimmed(i, j)[2]
           text == SubSeq(datagram, a, b)
       IN CASE datagram[a] = "[" -> IF datagram[b] # "]" \/ a = b THEN {}
                                    ELSE IF Blank(a + 1, b - 1) THEN {<<"Array", <<>>>>}
                                    ELSE {<<"Array", s>> : s \in ItemsIn(a + 1, b - 1)}
            [] datagram[a] = "{" -> IF datagram[b] # "}" \/ a = b THEN {}
                                    ELSE IF Blank(a + 1, b - 1) THEN {<<"Object", <<>>>>}
                                    ELSE {<<"Object", s>> : s \in PairsIn(a + 1, b - 1)}
            [] datagram[a] = "\"" -> {Str(s) : s \in Exactly(StringAt(text, 1), Len(text))}
            [] OTHER -> Exactly(Scalar(text, 1), Len(text))

Commas(i, j) == {k \in i .. j : datagram[k] = ","}

ItemsIn(i, j) ==
  {<<v>> : v \in ValuesIn(i, j)}
  \cup UNION {{<<v>> \o s : v \in ValuesIn(i, k - 1), s \in ItemsIn(k + 1, j)} : k \in Commas(i, j)}

\* One pair, or a pair, a comma and more of them.
PairsIn(i, j) ==
  LET pair(l) == UNION {{<<key[2], v>> : key \in {x \in ValuesIn(i, c - 1) : IsStr(x)}, v \in ValuesIn(c + 1, l)} :
                          c \in {c \in i .. l : datagram[c] = ":"}}
  IN {<<p>> : p \in pair(j)}
     \cup UNION {{<<p>> \o s : p \in pair(k - 1), s \in PairsIn(k + 1, j)} : k \in Commas(i, j)}

RECURSIVE Unrepeated(_), Sorted(_), LeastLength(_)
Unrepeated(v) ==
  /\ Kind(v) = "Object" => Cardinality(Members(v)) = Len(v[2])
  /\ \A c \in Children(v) : Unrepeated(c)

Sorted(v) ==
  /\ Kind(v) = "Object" => \A i \in 1 .. Len(v[2]) - 1 : KeyOrder(v[2][i][1], v[2][i + 1][1]) = -1
  /\ \A c \in Children(v) : Sorted(c)

LengthOf(c) == IF c \in {"\"", "\\", "nl"} THEN 2 ELSE IF c = "ctl" THEN 3 ELSE 1
SumOf(s) == FoldLeft(LAMBDA n, x : n + x, 0, s)
StrLength(s) == 2 + SumOf([i \in 1 .. Len(s) |-> LengthOf(s[i])])

LeastLength(v) ==
  LET separators == IF v[2] = <<>> THEN 2 ELSE Len(v[2]) + 1
  IN CASE Kind(v) \in {"Null", "Bool"} -> 1
       [] Kind(v) = "Int" -> Len(v[3]) + (IF v[2] THEN 1 ELSE 0)
       [] Kind(v) = "Str" -> StrLength(v[2])
       [] Kind(v) = "Array" -> separators + SumOf([i \in 1 .. Len(v[2]) |-> LeastLength(v[2][i])])
       [] Kind(v) = "Object" ->
            separators + SumOf([i \in 1 .. Len(v[2]) |-> StrLength(v[2][i][1]) + 1 + LeastLength(v[2][i][2])])

RECURSIVE Surrogates(_)
Surrogates(v) ==
  \/ Kind(v) = "Str" /\ HasLoneSurrogate(v[2])
  \/ Kind(v) = "Object" /\ \E p \in Range(v[2]) : HasLoneSurrogate(p[1])
  \/ \E c \in Children(v) : Surrogates(c)

\* What the one text of a frame looks like: sorted keys, nothing twice and not
\* a symbol more than its value needs.
IsFrameText(v) ==
  /\ Unrepeated(v) /\ ~Surrogates(v) /\ CheckStructure(v) = ""
  /\ Sorted(v) /\ Len(datagram) = LeastLength(v) /\ Len(datagram) <= MAX_FRAME_BYTES

\* A datagram is decoded exactly when it is the one text of a value the schema
\* accepts, and into that value; the sender's check passes exactly the values
\* whose text is then decoded; and an error other than bad syntax is settled
\* where it is met, whatever follows it.
TextExact ==
  LET values == ValuesIn(1, Len(datagram))
      parsed == Parse(datagram)
  IN (frame # <<>> /\ datagram # NotBytes) =>
       /\ {v \in values : IsFrameText(v)} = (IF Len(frame) = 2 THEN {frame[2]} ELSE {})
       /\ \A v \in values : Unrepeated(v) =>
            \A sent \in {CheckFrameEncoded(v)} : Len(sent) = 2 => (sent[2] = datagram) = (Len(frame) = 2)
       /\ frame = Refuse("F05") => \A v \in values : ~Unrepeated(v)
       /\ (IsError(parsed) /\ parsed # Failed("Syntax")) =>
            \A x \in Alphabet : Parse(Append(datagram, x)) = parsed
       /\ (parsed = Failed("Constant") \/ parsed = Failed("Syntax")) => values = {}
=============================================================================
