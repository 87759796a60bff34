------------------------------ MODULE Pattern ------------------------------
(* The pattern subset of the frame schemas (i05-protocol/src/regex.rs): a     *)
(* pattern is parsed by recursive descent, compiled to a Thompson automaton   *)
(* and searched for by simulating the automaton over the text.                *)
(*                                                                            *)
(* A pattern and a text are sequences of characters; Code gives a character's *)
(* code point, which only the order of a class range depends on.              *)
EXTENDS Integers, Sequences, SequencesExt, FiniteSetsExt

CONSTANTS Patterns, Texts,     \* what is compiled, and searched
          Code,                \* a character -> its code point
          Digits10,            \* the characters that are digits -> their value
          MAX_STATES, MAX_REPEAT, MAX_NESTING,
          Unbounded            \* the maximum of `*' and `+'

VARIABLES pattern, regex, searched

patternVars == <<pattern, regex, searched>>

-----------------------------------------------------------------------------
(* Parsing.  A parser returns <<node, pos>>, or Refused.                      *)

Refused == <<>>

\* One step after another, until one refuses.
Then(b, f(_)) == IF b = Refused THEN Refused ELSE f(b)

EmptyNode == <<"Concat", <<>>>>
ClassNode(ranges) == <<"Class", ranges>>
StartNode == <<"Start", <<>>>>
EndNode == <<"End", <<>>>>
Repeat(node, min, max) == <<"Repeat", node, min, max>>

\* The character at a position, or "" at the end.
Peek(p, i) == IF i <= Len(p) THEN p[i] ELSE ""

RECURSIVE Number(_, _, _, _)
Number(p, i, value, digits) ==
  IF Peek(p, i) \in DOMAIN Digits10
  THEN Number(p, i + 1, 10 * value + Digits10[p[i]], digits + 1)
  ELSE IF digits = 0 THEN Refused ELSE <<value, i>>

\* The bounds a quantifier at i gives and where it ends; none for no quantifier.
Bounds(p, i) ==
  CASE Peek(p, i) = "?" -> <<0, 1, i + 1>>
    [] Peek(p, i) = "*" -> <<0, Unbounded, i + 1>>
    [] Peek(p, i) = "+" -> <<1, Unbounded, i + 1>>
    [] Peek(p, i) = "{" ->
         Then(Number(p, i + 1, 0, 0), LAMBDA low :
           Then(IF Peek(p, low[2]) = "," THEN Number(p, low[2] + 1, 0, 0) ELSE low, LAMBDA high :
             IF Peek(p, high[2]) # "}" \/ high[1] < low[1] \/ high[1] > MAX_REPEAT THEN Refused
             ELSE <<low[1], high[1], high[2] + 1>>))
    [] OTHER -> <<1, 1, i>>

Quantified(p, atom) ==
  Then(Bounds(p, atom[2]), LAMBDA bounds :
    IF bounds[3] = atom[2] THEN atom
    ELSE IF Peek(p, bounds[3]) \in {"?", "*", "+", "{"} \/ atom[1] \in {StartNode, EndNode} THEN Refused
    ELSE <<Repeat(atom[1], bounds[1], bounds[2]), bounds[3]>>)

RECURSIVE ClassItems(_, _, _, _)
ClassItems(p, i, ranges, first) ==
  LET c == Peek(p, i)
      literalDash == c = "-" /\ (first \/ Peek(p, i + 1) = "]")
      isRange == Peek(p, i + 1) = "-" /\ Peek(p, i + 2) # "]" /\ ~literalDash
      high == Peek(p, i + 2)
  IN IF c \in {"", "\\", "["} THEN Refused
     ELSE IF c = "]" THEN <<ClassNode(ranges), i + 1>>
     ELSE IF c = "-" /\ ~literalDash THEN Refused
     ELSE IF isRange
     THEN IF high \in {"", "\\", "[", "]"} THEN Refused
          ELSE IF Code[high] < Code[c] THEN Refused
          ELSE ClassItems(p, i + 3, Append(ranges, <<Code[c], Code[high]>>), FALSE)
     ELSE ClassItems(p, i + 1, Append(ranges, <<Code[c], Code[c]>>), FALSE)

Class(p, i) == IF Peek(p, i) \in {"^", "]"} THEN Refused ELSE ClassItems(p, i, <<>>, TRUE)

RECURSIVE Alternation(_, _, _), Branches(_, _, _, _), Concatenation(_, _, _, _), Atom(_, _, _)
Alternation(p, i, nesting) == IF nesting > MAX_NESTING THEN Refused ELSE Branches(p, i, nesting, <<>>)

Branches(p, i, nesting, branches) ==
  Then(Concatenation(p, i, nesting, <<>>), LAMBDA branch :
    IF Peek(p, branch[2]) = "|" THEN Branches(p, branch[2] + 1, nesting, Append(branches, branch[1]))
    ELSE <<IF branches = <<>> THEN branch[1] ELSE <<"Alternation", Append(branches, branch[1])>>, branch[2]>>)

Concatenation(p, i, nesting, items) ==
  IF Peek(p, i) \in {"", "|", ")"} THEN <<<<"Concat", items>>, i>>
  ELSE Then(Atom(p, i, nesting), LAMBDA atom :
         Then(Quantified(p, atom), LAMBDA item :
           Concatenation(p, item[2], nesting, Append(items, item[1]))))

Atom(p, i, nesting) ==
  LET c == p[i]
  IN CASE c = "(" ->
            IF Peek(p, i + 1) = "?" THEN Refused
            ELSE Then(Alternation(p, i + 1, nesting + 1), LAMBDA inner :
                   IF Peek(p, inner[2]) # ")" THEN Refused ELSE <<inner[1], inner[2] + 1>>)
       [] c = "[" -> Class(p, i + 1)
       [] c = "^" -> <<StartNode, i + 1>>
       [] c = "$" -> <<EndNode, i + 1>>
       [] c \in {"\\", ".", "*", "+", "?", "{", "}", "]", ")", "|"} -> Refused
       [] OTHER -> <<ClassNode(<<<<Code[c], Code[c]>>>>), i + 1>>

-----------------------------------------------------------------------------
(* Compiling.  A builder returns <<states, entry>>; the states are numbered   *)
(* from 1, and more than MAX_STATES of them refuse the pattern.               *)

Push(states, state) ==
  IF Len(states) >= MAX_STATES THEN Refused ELSE <<Append(states, state), Len(states) + 1>>

RECURSIVE Build(_, _, _)
Build(states, node, next) ==
  LET built(b, n) == Then(b, LAMBDA x : Build(x[1], n, x[2]))
      optional(b, n) ==
        Then(b, LAMBDA x : Then(Build(x[1], n, x[2]), LAMBDA y : Push(y[1], <<"Split", y[2], x[2]>>)))
  IN
  CASE node[1] = "Class" -> Push(states, <<"Class", node[2], next>>)
    [] node[1] = "Start" -> Push(states, <<"AssertStart", next>>)
    [] node[1] = "End" -> Push(states, <<"AssertEnd", next>>)
    [] node[1] = "Concat" -> FoldRight(LAMBDA item, b : built(b, item), node[2], <<states, next>>)
    [] node[1] = "Alternation" ->
         LET Branch(b, n) ==
               Then(b, LAMBDA x : Then(Build(x[1], n, next), LAMBDA y : <<y[1], Append(x[2], y[2])>>))
             Join(b, other) == Then(b, LAMBDA x : Push(x[1], <<"Split", other, x[2]>>))
         IN Then(FoldLeft(Branch, <<states, <<>>>>, node[2]),
                 LAMBDA x : FoldRight(LAMBDA e, b : Join(b, e), Front(x[2]), <<x[1], Last(x[2])>>))
    [] node[1] = "Repeat" ->
         LET looped == Then(Push(states, <<"Split", next, next>>), LAMBDA l :
                         Then(Build(l[1], node[2], l[2]), LAMBDA b :
                           <<[b[1] EXCEPT ![l[2]] = <<"Split", b[2], next>>], l[2]>>))
             options == FoldLeft(LAMBDA b, k : optional(b, node[2]), <<states, next>>,
                                 [k \in 1 .. (node[4] - node[3]) |-> k])
         IN FoldLeft(LAMBDA b, k : built(b, node[2]),
                     IF node[4] = Unbounded THEN looped ELSE options, [k \in 1 .. node[3] |-> k])

\* Regex::new
Regex(p) ==
  Then(Alternation(p, 1, 0), LAMBDA tree :
    IF tree[2] # Len(p) + 1 THEN Refused
    ELSE Then(Push(<<>>, <<"Match">>), LAMBDA accept : Build(accept[1], tree[1], accept[2])))

-----------------------------------------------------------------------------
(* Searching *)

RECURSIVE AddState(_, _, _, _, _)
AddState(states, set, index, pos, end) ==
  LET state == states[index]
      with == set \cup {index}
  IN IF index \in set THEN set
     ELSE CASE state[1] = "Split" ->
                 AddState(states, AddState(states, with, state[2], pos, end), state[3], pos, end)
            [] state[1] = "AssertStart" /\ pos = 0 -> AddState(states, with, state[2], pos, end)
            [] state[1] = "AssertEnd" /\ pos = end -> AddState(states, with, state[2], pos, end)
            [] OTHER -> with

InRanges(ranges, c) == \E r \in Range(ranges) : r[1] <= Code[c] /\ Code[c] <= r[2]

\* Mutant of Following: the anchors of what follows are tried where the
\* character was, not after it.
FollowingSamePos(states, current, c, pos, end) ==
  FoldSet(LAMBDA index, set :
            IF states[index][1] = "Class" /\ InRanges(states[index][2], c)
            THEN AddState(states, set, states[index][3], pos, end) ELSE set,
          {}, current)

\* The states after reading one more character.
Following(states, current, c, pos, end) ==
  FoldSet(LAMBDA index, set :
            IF states[index][1] = "Class" /\ InRanges(states[index][2], c)
            THEN AddState(states, set, states[index][3], pos + 1, end) ELSE set,
          {}, current)

RECURSIVE MatchFrom(_, _, _, _)
MatchFrom(r, text, current, pos) ==
  LET now == AddState(r[1], current, r[2], pos, Len(text))
  IN IF \E index \in now : r[1][index][1] = "Match" THEN TRUE
     ELSE IF pos = Len(text) THEN FALSE
     ELSE MatchFrom(r, text, Following(r[1], now, text[pos + 1], pos, Len(text)), pos + 1)

IsMatch(r, text) == MatchFrom(r, text, {}, 0)

-----------------------------------------------------------------------------
PatternStart(p) == pattern = p /\ regex = Refused /\ searched = <<>>
PatternInit == \E p \in Patterns : PatternStart(p)

Compile ==
  /\ regex = Refused /\ searched = <<>>
  /\ regex' = Regex(pattern)
  /\ searched' = IF regex' = Refused THEN <<"refused">> ELSE <<>>
  /\ UNCHANGED pattern

\* Every text is searched, each on its own.
Search ==
  /\ regex # Refused /\ searched = <<>>
  /\ searched' = <<"searched", {text \in Texts : IsMatch(regex, text)}>>
  /\ UNCHANGED <<pattern, regex>>

PatternNext == Compile \/ Search

-----------------------------------------------------------------------------
(* The reference: the trees a pattern's grammar derives, by splitting it in   *)
(* every way, and the spans of a text a tree matches.                         *)

Plain == DOMAIN Code \ {"\\", ".", "*", "+", "?", "{", "}", "[", "]", "(", ")", "|", "^", "$"}
ClassChars == DOMAIN Code \ {"\\", "[", "]"}
Segment(i, j) == SubSeq(pattern, i, j)

\* The value of a number, which has at least one digit.
NumberOf(s) == FoldLeft(LAMBDA v, c : 10 * v + Digits10[c], 0, s)
IsNumber(s) == s # <<>> /\ \A k \in 1 .. Len(s) : s[k] \in DOMAIN Digits10

Repeats(s) ==
  CASE s = <<"?">> -> {<<0, 1>>}
    [] s = <<"*">> -> {<<0, Unbounded>>}
    [] s = <<"+">> -> {<<1, Unbounded>>}
    [] s # <<>> /\ s[1] = "{" /\ Last(s) = "}" ->
         LET in == SubSeq(s, 2, Len(s) - 1)
             pairs == (IF IsNumber(in) THEN {<<NumberOf(in), NumberOf(in)>>} ELSE {})
                      \cup {<<NumberOf(SubSeq(in, 1, k - 1)), NumberOf(SubSeq(in, k + 1, Len(in)))>> :
                              k \in {k \in 1 .. Len(in) : /\ in[k] = ","
                                                          /\ IsNumber(SubSeq(in, 1, k - 1))
                                                          /\ IsNumber(SubSeq(in, k + 1, Len(in)))}}
         IN {b \in pairs : b[1] <= b[2] /\ b[2] <= MAX_REPEAT}
    [] OTHER -> {}

\* The code points a class's inside names, one set for each way to read it:
\* characters and ranges, and a dash only at either end.
RECURSIVE ClassSets(_, _, _)
ClassSets(i, j, first) ==
  IF i > j THEN {{}}
  ELSE LET one == IF pattern[i] \in ClassChars \ {"-"} \/ (pattern[i] = "-" /\ (first \/ i = j))
                  THEN {{Code[pattern[i]]} \cup s : s \in ClassSets(i + 1, j, FALSE)} ELSE {}
           range == /\ i + 2 <= j /\ pattern[i + 1] = "-" /\ {pattern[i], pattern[i + 2]} \subseteq ClassChars
                    /\ pattern[i] # "-"
                    /\ Code[pattern[i]] <= Code[pattern[i + 2]]
       IN one \cup IF range THEN {(Code[pattern[i]] .. Code[pattern[i + 2]]) \cup s : s \in ClassSets(i + 3, j, FALSE)}
                   ELSE {}

RECURSIVE AltTrees(_, _, _), ConcatTrees(_, _, _), AtomTrees(_, _, _)
AltTrees(i, j, nesting) ==
  IF nesting > MAX_NESTING THEN {}
  ELSE ConcatTrees(i, j, nesting)
       \cup UNION {{<<"or", l, r>> : l \in ConcatTrees(i, k - 1, nesting), r \in AltTrees(k + 1, j, nesting)} :
                     k \in {k \in i .. j : pattern[k] = "|"}}

ConcatTrees(i, j, nesting) ==
  IF i > j THEN {<<"empty">>}
  ELSE LET ends == {k \in i .. j : (k = i) # (pattern[i] \in {"(", "["})}
           quantifiers(k) == {m \in k + 1 .. j : /\ pattern[k + 1] \in {"?", "*", "+", "{"}
                                                 /\ m = k + 1 \/ (pattern[k + 1] = "{" /\ pattern[m] = "}")}
           items(k) == {<<a, k>> : a \in AtomTrees(i, k, nesting)}
                       \cup {<<<<"repeat", a, b[1], b[2]>>, m>> :
                               a \in AtomTrees(i, k, nesting) \ {<<"start">>, <<"end">>},
                               <<b, m>> \in UNION {Repeats(Segment(k + 1, n)) \X {n} : n \in quantifiers(k)}}
       IN UNION {{<<"then", item[1], r>> : r \in ConcatTrees(item[2] + 1, j, nesting)} :
                   item \in UNION {items(k) : k \in ends}}

AtomTrees(i, j, nesting) ==
  CASE i = j -> (IF pattern[i] \in Plain THEN {<<"in", {Code[pattern[i]]}>>} ELSE {})
                \cup (IF pattern[i] = "^" THEN {<<"start">>} ELSE {})
                \cup (IF pattern[i] = "$" THEN {<<"end">>} ELSE {})
    [] pattern[i] = "(" /\ pattern[j] = ")" -> {<<"group", t>> : t \in AltTrees(i + 1, j - 1, nesting + 1)}
    [] pattern[i] = "[" /\ pattern[j] = "]" /\ j > i + 1 /\ pattern[i + 1] # "^" -> {<<"in", s>> : s \in ClassSets(i + 1, j - 1, TRUE)}
    [] OTHER -> {}

Compose(r, s) == {<<xy[1][1], xy[2][2]>> : xy \in {xy \in r \X s : xy[1][2] = xy[2][1]}}

\* The spans <<from, to>> of a text that a tree matches.
RECURSIVE Spans(_, _), Times(_, _, _)
Spans(t, text) ==
  LET at == 0 .. Len(text)
      id == {<<x, x>> : x \in at}
  IN CASE t[1] = "empty" -> id
       [] t[1] = "start" -> {<<0, 0>>}
       [] t[1] = "end" -> {<<Len(text), Len(text)>>}
       [] t[1] = "in" -> {<<x - 1, x>> : x \in {x \in 1 .. Len(text) : Code[text[x]] \in t[2]}}
       [] t[1] = "group" -> Spans(t[2], text)
       [] t[1] = "or" -> Spans(t[2], text) \cup Spans(t[3], text)
       [] t[1] = "then" -> Compose(Spans(t[2], text), Spans(t[3], text))
       [] t[1] = "repeat" ->
            LET body == Spans(t[2], text)
                most == IF t[4] = Unbounded THEN t[3] + Len(text) + 1 ELSE t[4]
            IN UNION {Times(body, n, id) : n \in t[3] .. most}

Times(body, n, id) == IF n = 0 THEN id ELSE Compose(body, Times(body, n - 1, id))

\* The states a tree needs.
RECURSIVE Size(_)
Size(t) ==
  CASE t[1] = "empty" -> 0
    [] t[1] \in {"start", "end", "in"} -> 1
    [] t[1] = "group" -> Size(t[2])
    [] t[1] = "or" -> 1 + Size(t[2]) + Size(t[3])
    [] t[1] = "then" -> Size(t[2]) + Size(t[3])
    [] t[1] = "repeat" -> IF t[4] = Unbounded THEN 1 + (t[3] + 1) * Size(t[2])
                          ELSE t[4] - t[3] + t[4] * Size(t[2])

\* A pattern is compiled exactly when the subset's grammar derives it (and its
\* automaton fits, Match included), and a
\* search then says exactly whether the pattern matches a part of the text,
\* anchors only at the ends of the text: whatever the automaton's splits, its
\* empty loops and the order in which its states are visited.
SearchExact ==
  LET trees == AltTrees(1, Len(pattern), 0)
      fit == {t \in trees : Size(t) < MAX_STATES}
  IN CASE Len(searched) = 0 -> TRUE
       [] Len(searched) = 1 -> fit = {}
       [] Len(searched) = 2 ->
            \E t \in fit : trees = {t} /\ searched[2] = {text \in Texts : Spans(t, text) # {}}
=============================================================================
