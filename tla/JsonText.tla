----------------------------- MODULE JsonText -----------------------------
(* The JSON values of the wire (i05-protocol/src/json.rs): the strict parser, *)
(* the canonical encoder, the walks over a value and its three equalities.    *)
(*                                                                            *)
(* A text is a sequence of symbols.  A symbol is a character, but for the     *)
(* words (null, true, ...) and the four hexadecimal digits of an escape,      *)
(* which are one symbol each.  A character's symbol in a text is also its     *)
(* name in a decoded string.                                                  *)
(*                                                                            *)
(* A value is a tuple whose first element is its kind:                        *)
(*   <<"Null">>, <<"Bool", b>>, <<"Str", s>>, <<"Array", items>>,             *)
(*   <<"Int", negative, digits>>, no leading zero, zero never negative,       *)
(*   <<"Float", negative, n>>, the double n / Unit, or an infinity,           *)
(*   <<"Object", pairs>>, the <<key, value>> pairs in document order.         *)
EXTENDS Integers, Sequences, SequencesExt, FiniteSetsExt

CONSTANTS CodePoint,        \* a character -> its code point
          Hex,              \* four hexadecimal digits -> the character they name
          MAX_INT_DIGITS,
          MaxExponent       \* decimal exponents past it overflow, or underflow

\* The characters that have a part in the grammar or a rule of their own.
DecimalDigits == {"0", "1", "2"}
DigitValue == [d \in DecimalDigits |-> CHOOSE n \in 0 .. 2 : d = <<"0", "1", "2">>[n + 1]]
DigitOf(n) == IF n <= 2 THEN <<"0", "1", "2">>[n + 1] ELSE "9"
Controls == {"ctl", "nl"}            \* C0 characters
High == "high"                       \* a lone high surrogate, a lone low one,
Low == "low"                         \* and the character the two of them name
Pair == "pair"
Escapes == [c \in {"\"", "\\", "/", "n"} |-> IF c = "n" THEN "nl" ELSE c]

Null == <<"Null">>
Str(s) == <<"Str", s>>
Kind(v) == v[1]

-----------------------------------------------------------------------------
(* Integers and floats *)

Zero == <<"Int", FALSE, <<0>>>>

ParseDecimal(negative, digits) ==
  LET from == {i \in 1 .. Len(digits) : digits[i] # 0}
  IN IF from = {} THEN Zero ELSE <<"Int", negative, SubSeq(digits, Min(from), Len(digits))>>

RECURSIVE Decimal(_)
Decimal(n) == IF n < 10 THEN <<n>> ELSE Append(Decimal(n \div 10), n % 10)

FromI64(n) == <<"Int", n < 0, Decimal(IF n < 0 THEN -n ELSE n)>>

\* The sign of a comparison: -1, 0 or 1.
Sign(a, b) == IF a < b THEN -1 ELSE IF a > b THEN 1 ELSE 0

RECURSIVE LexOrder(_, _)
LexOrder(s, t) ==
  IF s = <<>> \/ t = <<>> THEN Sign(Len(s), Len(t))
  ELSE IF Head(s) # Head(t) THEN Sign(Head(s), Head(t)) ELSE LexOrder(Tail(s), Tail(t))

IntCmp(a, b) ==
  LET magnitude == IF Len(a[3]) # Len(b[3]) THEN Sign(Len(a[3]), Len(b[3])) ELSE LexOrder(a[3], b[3])
  IN IF a[2] # b[2] THEN IF a[2] THEN -1 ELSE 1
     ELSE IF a[2] THEN -magnitude ELSE magnitude

Unit == 10000
Infinite == 2000000000               \* the magnitude of an infinity

IsFinite(x) == x[3] # Infinite

\* Int::cmp_f64: the integer part is compared exactly, and the fraction decides a tie.
CmpF64(a, x) ==
  LET sign == IF x[2] THEN -1 ELSE 1
      whole == IntCmp(a, ParseDecimal(x[2], Decimal(x[3] \div Unit)))
  IN IF ~IsFinite(x) THEN -sign
     ELSE IF whole # 0 THEN whole
     ELSE IF x[3] % Unit # 0 THEN -sign ELSE 0

FloatCmp(x, y) == Sign(IF x[2] THEN -x[3] ELSE x[3], IF y[2] THEN -y[3] ELSE y[3])

\* A comparison of two numbers; a boolean is one of them where bool_is_int says so.
NumberCmp(a, b) ==
  LET int(v) == IF Kind(v) = "Bool" THEN FromI64(IF v[2] THEN 1 ELSE 0) ELSE v
  IN CASE Kind(a) = "Float" /\ Kind(b) = "Float" -> FloatCmp(a, b)
       [] Kind(a) = "Float" /\ Kind(b) # "Float" -> -CmpF64(int(b), a)
       [] Kind(a) # "Float" /\ Kind(b) = "Float" -> CmpF64(int(a), b)
       [] OTHER -> IntCmp(int(a), int(b))

-----------------------------------------------------------------------------
(* Parsing.  A parser of a part returns <<part, next position>>; an error is  *)
(* <<"Constant">>, <<"Duplicate">> or <<"Syntax">>.                           *)

Failed(e) == <<e>>
IsError(r) == Len(r) = 1
OnOk(r, f(_)) == IF IsError(r) THEN r ELSE f(r)
At(t, i) == IF i <= Len(t) THEN t[i] ELSE ""
First(t, i, S) == Min({j \in i .. Len(t) + 1 : At(t, j) \notin S})
\* Tab, newline and carriage return are one symbol.
Whitespace == {" ", "nl"}
SkipWs(t, i) == First(t, i, Whitespace)

Scaled(digits, exponent) ==
  LET n == FoldLeft(LAMBDA v, d : 10 * v + DigitValue[d], 0, digits)
  IN IF exponent >= 0 THEN n * 10^exponent ELSE n \div 10^(-exponent)

\* A number's whole digits lie from first up to whole, and its fraction ends before fraction.
NumberIn(t, negative, first, whole, fraction) ==
  LET sign == IF At(t, fraction + 1) \in {"+", "-"} THEN fraction + 2 ELSE fraction + 1
      end == First(t, sign, DecimalDigits)
      isExponent == At(t, fraction) = "e" /\ end > sign
      digits == SubSeq(t, first, whole - 1)
      exponent == FoldLeft(LAMBDA v, d : 10 * v + DigitValue[d], 0, SubSeq(t, sign, end - 1))
      all == digits \o SubSeq(t, whole + 1, fraction - 1)
      magnitude(signed) ==
        IF \A k \in 1 .. Len(all) : all[k] = "0" THEN 0
        ELSE IF signed > MaxExponent THEN Infinite
        ELSE IF signed < -MaxExponent THEN 0
        ELSE Scaled(all, 4 + signed - (IF fraction > whole THEN fraction - whole - 1 ELSE 0))
  IN IF At(t, first) \notin DecimalDigits THEN Failed("Syntax")
     ELSE IF isExponent
     THEN <<<<"Float", negative, magnitude(IF At(t, fraction + 1) = "-" THEN -exponent ELSE exponent)>>, end>>
     ELSE IF fraction > whole THEN <<<<"Float", negative, magnitude(0)>>, fraction>>
     ELSE IF Len(digits) > MAX_INT_DIGITS THEN Failed("Syntax")
     ELSE <<ParseDecimal(negative, [k \in 1 .. Len(digits) |-> DigitValue[digits[k]]]), whole>>

NumberAt(t, start) ==
  LET negative == At(t, start) = "-"
      fractionFrom(first, whole) ==
        NumberIn(t, negative, first, whole, IF At(t, whole) = "." /\ At(t, whole + 1) \in DecimalDigits
                                            THEN First(t, whole + 2, DecimalDigits) ELSE whole)
      digitsFrom(first) == fractionFrom(first, IF At(t, first) = "0" THEN first + 1 ELSE First(t, first, DecimalDigits))
  IN digitsFrom(IF negative THEN start + 1 ELSE start)

Scalar(t, i) ==
  LET c == At(t, i)
  IN CASE c = "null" -> <<Null, i + 1>>
       [] c \in {"true", "false"} -> <<<<"Bool", c = "true">>, i + 1>>
       [] c \in {"NaN", "Infinity"} -> Failed("Constant")
       [] c = "-" /\ At(t, i + 1) = "Infinity" -> Failed("Constant")
       [] OTHER -> NumberAt(t, i)

RECURSIVE StringFrom(_, _, _)
StringFrom(t, i, out) ==
  LET c == At(t, i)
      escape == At(t, i + 1)
      high == Hex[At(t, i + 2)]
      paired == high = High /\ At(t, i + 3) = "\\" /\ At(t, i + 4) = "u"
      low == At(t, i + 5)
  IN CASE c = "" \/ c \in Controls -> Failed("Syntax")
       [] c = "\"" -> <<out, i + 1>>
       [] c = "\\" /\ escape \in DOMAIN Escapes -> StringFrom(t, i + 2, Append(out, Escapes[escape]))
       [] c = "\\" /\ escape = "u" /\ At(t, i + 2) \in DOMAIN Hex ->
            IF ~paired THEN StringFrom(t, i + 3, Append(out, high))
            ELSE IF low \notin DOMAIN Hex THEN Failed("Syntax")
            ELSE IF Hex[low] = Low THEN StringFrom(t, i + 6, Append(out, Pair))
            ELSE StringFrom(t, i + 3, Append(out, high))
       [] c = "\\" /\ escape \notin DOMAIN Escapes /\ ~(escape = "u" /\ At(t, i + 2) \in DOMAIN Hex) ->
            Failed("Syntax")
       [] OTHER -> StringFrom(t, i + 1, Append(out, c))

StringAt(t, i) == StringFrom(t, i + 1, <<>>)

\* A member name and its colon.
KeyAt(t, i) ==
  LET named(key, colon) == IF At(t, colon) # ":" THEN Failed("Syntax") ELSE <<key, SkipWs(t, colon + 1)>>
  IN IF At(t, i) # "\"" THEN Failed("Syntax")
     ELSE OnOk(StringAt(t, i), LAMBDA key : named(key[1], SkipWs(t, key[2])))

\* Mutant of UniqueObject: as a map built pair by pair keeps the last of two.
UniqueObjectLast(pairs) ==
  <<"Object", SelectSeq(pairs, LAMBDA p : \A i \in 1 .. Len(pairs) :
                          pairs[i][1] = p[1] /\ pairs[i] # p => \E j \in i + 1 .. Len(pairs) : pairs[j] = p)>>

UniqueObject(pairs) ==
  IF \E i, j \in 1 .. Len(pairs) : i # j /\ pairs[i][1] = pairs[j][1]
  THEN Failed("Duplicate") ELSE <<"Object", pairs>>

\* One value starts at i; the stack holds the containers that are open around
\* it: <<"Array", items>> or <<"Object", pairs, the key its value is for>>.
RECURSIVE ValueFrom(_, _, _), Attach(_, _, _, _)
ValueFrom(t, i, stack) ==
  LET c == At(t, i)
      inside == SkipWs(t, i + 1)
  IN CASE c = "{" /\ At(t, inside) = "}" -> Attach(t, inside + 1, stack, <<"Object", <<>>>>)
       [] c = "{" /\ At(t, inside) # "}" ->
            OnOk(KeyAt(t, inside), LAMBDA key : ValueFrom(t, key[2], Append(stack, <<"Object", <<>>, key[1]>>)))
       [] c = "[" /\ At(t, inside) = "]" -> Attach(t, inside + 1, stack, <<"Array", <<>>>>)
       [] c = "[" /\ At(t, inside) # "]" -> ValueFrom(t, inside, Append(stack, <<"Array", <<>>>>))
       [] c = "\"" -> OnOk(StringAt(t, i), LAMBDA part : Attach(t, part[2], stack, Str(part[1])))
       [] OTHER -> OnOk(Scalar(t, i), LAMBDA part : Attach(t, part[2], stack, part[1]))

\* A finished value goes to the container around it, which may end with it.
Attach(t, at, stack, value) ==
  LET i == SkipWs(t, at)
      c == At(t, i)
      next == SkipWs(t, i + 1)
      open == Last(stack)
      items == Append(open[2], value)
      pairs == Append(open[2], <<open[3], value>>)
  IN IF stack = <<>> THEN IF i = Len(t) + 1 THEN <<"Ok", value>> ELSE Failed("Syntax")
     ELSE CASE open[1] = "Array" /\ c = "," -> ValueFrom(t, next, Append(Front(stack), <<"Array", items>>))
            [] open[1] = "Array" /\ c = "]" -> Attach(t, i + 1, Front(stack), <<"Array", items>>)
            [] open[1] = "Object" /\ c = "," ->
                 OnOk(KeyAt(t, next), LAMBDA key :
                   ValueFrom(t, key[2], Append(Front(stack), <<"Object", pairs, key[1]>>)))
            [] open[1] = "Object" /\ c = "}" ->
                 OnOk(UniqueObject(pairs), LAMBDA closed : Attach(t, i + 1, Front(stack), closed))
            [] OTHER -> Failed("Syntax")

Parse(t) == ValueFrom(t, SkipWs(t, 1), <<>>)

-----------------------------------------------------------------------------
(* The canonical encoding: <<"Ok", text>>, or an error. *)

EncodeError == <<"EncodeError">>

Escaped(c) ==
  CASE c \in {"\"", "\\"} -> <<"\\", c>>
    [] c = "nl" -> <<"\\", "n">>
    [] c \in Controls \ {"nl"} -> <<"\\", "u", CHOOSE h \in DOMAIN Hex : Hex[h] = c>>
    [] OTHER -> <<c>>

HasLoneSurrogate(s) == \E i \in 1 .. Len(s) : s[i] \in {High, Low}
WriteStr(s) ==
  IF HasLoneSurrogate(s) THEN EncodeError
  ELSE <<"Ok", <<"\"">> \o FlattenSeq([i \in 1 .. Len(s) |-> Escaped(s[i])]) \o <<"\"">>>>

ToDecimal(v) ==
  (IF v[2] THEN <<"-">> ELSE <<>>) \o [i \in 1 .. Len(v[3]) |-> DigitOf(v[3][i])]

\* The shortest digits of a float, in fixed notation with a fraction.
PyFloatRepr(x) ==
  LET places == [k \in 1 .. 4 |-> (x[3] \div 10^(4 - k)) % 10]
      shown == Max({1} \cup {k \in 1 .. 4 : places[k] # 0})
  IN ToDecimal(<<"Int", x[2], Decimal(x[3] \div Unit)>>) \o <<".">>
     \o [k \in 1 .. shown |-> DigitOf(places[k])]

KeyOrder(s, t) == LexOrder([i \in 1 .. Len(s) |-> CodePoint[s[i]]], [i \in 1 .. Len(t) |-> CodePoint[t[i]]])

\* Parts joined by commas inside brackets, unless one of them is an error.
Joined(open, parts, close) ==
  LET comma(out, k) == IF k = 1 THEN out \o parts[k][2] ELSE Append(out, ",") \o parts[k][2]
  IN IF \E k \in 1 .. Len(parts) : parts[k] = EncodeError THEN EncodeError
     ELSE <<"Ok", Append(FoldLeft(comma, <<open>>, [k \in 1 .. Len(parts) |-> k]), close)>>

RECURSIVE Canonical(_)
Canonical(v) ==
  CASE Kind(v) = "Null" -> <<"Ok", <<"null">>>>
    [] Kind(v) = "Bool" -> <<"Ok", <<IF v[2] THEN "true" ELSE "false">>>>
    [] Kind(v) = "Int" -> IF Len(v[3]) > MAX_INT_DIGITS THEN EncodeError ELSE <<"Ok", ToDecimal(v)>>
    [] Kind(v) = "Float" -> IF IsFinite(v) THEN <<"Ok", PyFloatRepr(v)>> ELSE EncodeError
    [] Kind(v) = "Str" -> WriteStr(v[2])
    [] Kind(v) = "Array" -> Joined("[", [i \in 1 .. Len(v[2]) |-> Canonical(v[2][i])], "]")
    [] Kind(v) = "Object" ->
         LET members == SortSeq(v[2], LAMBDA p, q : KeyOrder(p[1], q[1]) = -1)
             member(p) == LET key == WriteStr(p[1])
                              value == Canonical(p[2])
                          IN IF EncodeError \in {key, value} THEN EncodeError
                             ELSE <<"Ok", Append(key[2], ":") \o value[2]>>
         IN Joined("{", [i \in 1 .. Len(members) |-> member(members[i])], "}")

-----------------------------------------------------------------------------
(* Walks *)

Children(v) ==
  CASE Kind(v) = "Array" -> Range(v[2])
    [] Kind(v) = "Object" -> {p[2] : p \in Range(v[2])}
    [] OTHER -> {}

RECURSIVE Depth(_), ContainsFloat(_), ContainsControl(_)
Depth(v) == IF Kind(v) \in {"Array", "Object"} THEN 1 + Max({0} \cup {Depth(c) : c \in Children(v)}) ELSE 0

ContainsFloat(v) == Kind(v) = "Float" \/ \E c \in Children(v) : ContainsFloat(c)

IsControl(s) == \E i \in 1 .. Len(s) : s[i] \in Controls \cup {"del"}
ContainsControl(v) ==
  \/ Kind(v) = "Str" /\ IsControl(v[2])
  \/ Kind(v) = "Object" /\ \E p \in Range(v[2]) : IsControl(p[1])
  \/ \E c \in Children(v) : ContainsControl(c)

\* Object::get, and Python's get: a missing member reads as null.
Members(v) == {p[1] : p \in Range(v[2])}
Get(v, key) == (CHOOSE p \in Range(v[2]) : p[1] = key)[2]
Read(v, key) == IF key \in Members(v) THEN Get(v, key) ELSE Null

-----------------------------------------------------------------------------
(* Equalities: "py" is Python's, "schema" tells a boolean from a number.      *)

Numbers(eq) == IF eq = "py" THEN {"Bool", "Int", "Float"} ELSE {"Int", "Float"}

RECURSIVE StructuralEq(_, _, _)
StructuralEq(eq, a, b) ==
  CASE Kind(a) \in Numbers(eq) /\ Kind(b) \in Numbers(eq) -> NumberCmp(a, b) = 0
    [] Kind(a) = "Array" /\ Kind(b) = "Array" ->
         /\ Len(a[2]) = Len(b[2])
         /\ \A i \in 1 .. Len(a[2]) : StructuralEq(eq, a[2][i], b[2][i])
    [] Kind(a) = "Object" /\ Kind(b) = "Object" ->
         /\ Len(a[2]) = Len(b[2])
         /\ \A p \in Range(a[2]) : p[1] \in Members(b) /\ StructuralEq(eq, p[2], Get(b, p[1]))
    [] OTHER -> Kind(a) = Kind(b) /\ a = b

PyEq(a, b) == StructuralEq("py", a, b)
SchemaEq(a, b) == StructuralEq("schema", a, b)
=============================================================================
