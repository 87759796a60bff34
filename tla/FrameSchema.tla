---------------------------- MODULE FrameSchema ----------------------------
(* The JSON Schema subset of the frame contracts (i05-protocol/src/schema.rs):*)
(* a document is loaded keyword by keyword, or refused, and an instance is    *)
(* then evaluated within a budget of nested evaluations.                      *)
(*                                                                            *)
(* A schema document is a value of JsonText like any other; a keyword is      *)
(* spelled by one symbol, and so is a type, a draft or a local reference.     *)
EXTENDS JsonText, Pattern

CONSTANTS Documents, Instances,    \* what is loaded, and evaluated
          Keyword,                 \* a member's name -> the keyword it spells
          TypeNames,               \* a string's content -> the JSON type it names
          RefTo,                   \* a string's content -> the definition it refers to
          MAX_SCHEMA_DEPTH, MAX_EVALUATION_DEPTH

VARIABLES document, schema, verdicts

schemaVars == <<document, schema, verdicts>>

-----------------------------------------------------------------------------
(* Loading.  A node is <<"Bool", b>> or <<"Keywords", k>>, where k maps each  *)
(* keyword of the document to what it was loaded as.                          *)

NotLoaded == <<"refused">>

Counts == {"minLength", "maxLength", "minItems", "maxItems", "maxProperties"}
Schemas == {"not", "if", "then", "items", "propertyNames"}
SchemaLists == {"oneOf", "anyOf", "allOf"}
DRAFT_2020_12 == <<"draft">>

KeywordOf(p) == IF p[1] \in DOMAIN Keyword THEN Keyword[p[1]] ELSE "unsupported"
IsStr(v) == Kind(v) = "Str"
IsText(v) == IsStr(v) /\ ~HasLoneSurrogate(v[2])
Refs(names, v) == IsText(v) /\ v[2] \in DOMAIN RefTo /\ RefTo[v[2]] \in names

\* The form a keyword's member must have, nested schemas aside.
WellFormed(keyword, v, root, names) ==
  CASE keyword = "$schema" -> root /\ v = Str(DRAFT_2020_12)
    [] keyword = "$id" -> root /\ IsText(v)
    [] keyword = "$defs" -> root /\ Kind(v) = "Object"
    [] keyword = "title" -> IsText(v)
    [] keyword = "type" -> \A n \in (IF Kind(v) = "Array" THEN Range(v[2]) ELSE {v}) :
                              IsStr(n) /\ n[2] \in DOMAIN TypeNames
    [] keyword = "properties" -> Kind(v) = "Object"
    [] keyword = "required" -> Kind(v) = "Array" /\ \A n \in Range(v[2]) : IsStr(n)
    [] keyword = "const" -> Depth(v) <= MAX_SCHEMA_DEPTH
    [] keyword = "enum" -> Kind(v) = "Array" /\ \A c \in Range(v[2]) : Depth(c) <= MAX_SCHEMA_DEPTH
    [] keyword \in {"minimum", "maximum"} -> Kind(v) \in {"Int", "Float"}
    [] keyword \in Counts -> Kind(v) = "Int" /\ ~v[2]
    [] keyword = "pattern" -> IsText(v) /\ Regex(v[2]) # Refused
    [] keyword \in SchemaLists -> Kind(v) = "Array" /\ v[2] # <<>>
    [] keyword = "uniqueItems" -> Kind(v) = "Bool"
    [] keyword = "$ref" -> Refs(names, v)
    [] keyword \in Schemas \cup {"additionalProperties"} -> TRUE
    [] OTHER -> FALSE

RECURSIVE LoadNode(_, _, _, _)
LoadNode(names, v, root, depth) ==
  LET nested(c) == LoadNode(names, c, FALSE, depth + 1)
      loaded(keyword, c) ==
        CASE keyword \in Schemas \cup {"additionalProperties"} -> nested(c)
          [] keyword \in SchemaLists -> [i \in 1 .. Len(c[2]) |-> nested(c[2][i])]
          [] keyword = "properties" -> [i \in 1 .. Len(c[2]) |-> <<c[2][i][1], nested(c[2][i][2])>>]
          [] keyword = "pattern" -> Regex(c[2])
          [] keyword = "$ref" -> RefTo[c[2]]
          [] OTHER -> c
      refusedInside(keyword, l) ==
        CASE keyword \in Schemas \cup {"additionalProperties"} -> l = NotLoaded
          [] keyword \in SchemaLists -> \E i \in 1 .. Len(l) : l[i] = NotLoaded
          [] keyword = "properties" -> \E i \in 1 .. Len(l) : l[i][2] = NotLoaded
          [] OTHER -> FALSE
      keywords == {KeywordOf(p) : p \in Range(v[2])}
      member(keyword) == (CHOOSE p \in Range(v[2]) : KeywordOf(p) = keyword)[2]
  IN IF depth > MAX_SCHEMA_DEPTH THEN NotLoaded
     ELSE IF Kind(v) = "Bool" THEN v
     ELSE IF Kind(v) # "Object" THEN NotLoaded
     ELSE IF \E keyword \in keywords : ~WellFormed(keyword, member(keyword), root, names) THEN NotLoaded
     ELSE IF \E keyword \in keywords : refusedInside(keyword, loaded(keyword, member(keyword))) THEN NotLoaded
     ELSE <<"Keywords", [keyword \in keywords |-> loaded(keyword, member(keyword))]>>

\* Schema::from_value: the definitions first, then the root.
LoadSchema(v) ==
  LET given == Kind(v) = "Object" /\ <<"$defs">> \in Members(v)
      defs == Get(v, <<"$defs">>)
      names == IF given THEN Members(defs) ELSE {}
      definitions == [n \in names |-> LoadNode(names, Get(defs, n), FALSE, 1)]
      root == LoadNode(names, v, TRUE, 0)
  IN IF given /\ Kind(defs) # "Object" THEN NotLoaded
     ELSE IF \E n \in names : HasLoneSurrogate(n) THEN NotLoaded
     ELSE IF root = NotLoaded \/ \E n \in names : definitions[n] = NotLoaded THEN NotLoaded
     ELSE <<"Schema", root, definitions>>

-----------------------------------------------------------------------------
(* Evaluating: "yes", "no", or "exhausted" once the budget is spent; the      *)
(* first answer that is not "yes" ends it.                                    *)

IsType(v, type) ==
  CASE type = "null" -> Kind(v) = "Null"
    [] type = "boolean" -> Kind(v) = "Bool"
    [] type = "integer" -> Kind(v) = "Int" \/ (Kind(v) = "Float" /\ IsFinite(v) /\ v[3] % Unit = 0)
    [] type = "number" -> Kind(v) \in {"Int", "Float"}
    [] type = "string" -> Kind(v) = "Str"
    [] type = "array" -> Kind(v) = "Array"
    [] type = "object" -> Kind(v) = "Object"

CountOf(v) == FoldLeft(LAMBDA n, d : 10 * n + d, 0, v[3])
WithinBound(n, k, least, most) ==
  /\ least \in DOMAIN k => n >= CountOf(k[least])
  /\ most \in DOMAIN k => n <= CountOf(k[most])

\* The keywords that look at the instance alone.
Plainly(k, v) ==
  /\ "type" \in DOMAIN k =>
       \E n \in (IF Kind(k["type"]) = "Array" THEN Range(k["type"][2]) ELSE {k["type"]}) : IsType(v, TypeNames[n[2]])
  /\ "const" \in DOMAIN k => SchemaEq(v, k["const"])
  /\ "enum" \in DOMAIN k => \E c \in Range(k["enum"][2]) : SchemaEq(v, c)
  /\ IsType(v, "number") =>
       /\ "minimum" \in DOMAIN k => NumberCmp(v, k["minimum"]) # -1
       /\ "maximum" \in DOMAIN k => NumberCmp(v, k["maximum"]) # 1
  /\ IsStr(v) =>
       /\ WithinBound(Len(v[2]), k, "minLength", "maxLength")
       /\ "pattern" \in DOMAIN k => IsMatch(k["pattern"], v[2])
  /\ Kind(v) = "Array" =>
       /\ WithinBound(Len(v[2]), k, "minItems", "maxItems")
       /\ ("uniqueItems" \in DOMAIN k /\ k["uniqueItems"][2]) =>
            \A i, j \in 1 .. Len(v[2]) : i < j => ~SchemaEq(v[2][i], v[2][j])
  /\ Kind(v) = "Object" =>
       /\ WithinBound(Len(v[2]), k, "none", "maxProperties")
       /\ "required" \in DOMAIN k => \A n \in Range(k["required"][2]) : n[2] \in Members(v)

AndThen(a, b) == IF a = "yes" THEN b ELSE a
YesIf(b) == IF b THEN "yes" ELSE "no"

\* Mutant of Negated: a spent budget counts as a refusal inside a `not'.
NegatedSpent(answer) == YesIf(answer # "yes")

Negated(answer) == CASE answer = "yes" -> "no" [] answer = "no" -> "yes" [] OTHER -> answer

\* oneOf: how many hold, unless one of them spends the budget.
ExactlyOne(answers) ==
  IF "exhausted" \in Range(answers) THEN "exhausted"
  ELSE YesIf(Len(SelectSeq(answers, LAMBDA a : a = "yes")) = 1)

RECURSIVE Valid(_, _, _, _)
Valid(s, node, v, at) ==
  LET depth == at + 1
      k == node[2]
      has(keyword) == keyword \in DOMAIN k
      holds(n, x) == Valid(s, n, x, depth)
      \* every one of a sequence of <<schema, instance>>, in order
      every(pairs) == FoldLeft(LAMBDA a, p : AndThen(a, holds(p[1], p[2])), "yes", pairs)
      here(keyword) == [i \in 1 .. Len(k[keyword]) |-> <<k[keyword][i], v>>]
      known == {p[1] : p \in Range(k["properties"])}
      isObject == Kind(v) = "Object"
      named == SelectSeq(k["properties"], LAMBDA p : p[1] \in Members(v))
      others == IF has("properties") THEN SelectSeq(v[2], LAMBDA p : p[1] \notin known) ELSE v[2]
      reference == IF ~has("$ref") THEN "yes" ELSE holds(s[3][k["$ref"]], v)
      items == IF ~(has("items") /\ Kind(v) = "Array") THEN "yes"
               ELSE every([i \in 1 .. Len(v[2]) |-> <<k["items"], v[2][i]>>])
      properties == IF ~(has("properties") /\ isObject) THEN "yes"
                    ELSE every([i \in 1 .. Len(named) |-> <<named[i][2], Get(v, named[i][1])>>])
      additional == IF ~(has("additionalProperties") /\ isObject) THEN "yes"
                    ELSE IF Kind(k["additionalProperties"]) = "Bool"
                    THEN YesIf(k["additionalProperties"][2] \/ others = <<>>)
                    ELSE every([i \in 1 .. Len(others) |-> <<k["additionalProperties"], others[i][2]>>])
      names == IF ~(has("propertyNames") /\ isObject) THEN "yes"
               ELSE every([i \in 1 .. Len(v[2]) |-> <<k["propertyNames"], Str(v[2][i][1])>>])
      allOf == IF ~has("allOf") THEN "yes" ELSE every(here("allOf"))
      anyOf == IF ~has("anyOf") THEN "yes"
               ELSE FoldLeft(LAMBDA a, p : IF a = "no" THEN holds(p[1], v) ELSE a, "no", here("anyOf"))
      oneOf == IF ~has("oneOf") THEN "yes"
               ELSE ExactlyOne([i \in 1 .. Len(k["oneOf"]) |-> holds(k["oneOf"][i], v)])
      not == IF ~has("not") THEN "yes" ELSE Negated(holds(k["not"], v))
      condition == IF ~has("if") THEN "no" ELSE holds(k["if"], v)
      consequence == CASE condition = "no" -> "yes"
                       [] condition = "exhausted" -> "exhausted"
                       [] OTHER -> IF has("then") THEN holds(k["then"], v) ELSE "yes"
  IN IF at > MAX_EVALUATION_DEPTH THEN "exhausted"
     ELSE IF Kind(node) = "Bool" THEN YesIf(node[2])
     ELSE AndThen(reference, AndThen(YesIf(Plainly(k, v)), AndThen(items,
          AndThen(properties, AndThen(additional, AndThen(names, AndThen(allOf,
          AndThen(anyOf, AndThen(oneOf, AndThen(not, consequence))))))))))

IsValid(s, v) == Valid(s, s[2], v, 0) = "yes"

-----------------------------------------------------------------------------
SchemaStart(d) == document = d /\ schema = <<>> /\ verdicts = <<>>
SchemaInit == \E d \in Documents : SchemaStart(d)

Load ==
  /\ schema = <<>>
  /\ schema' = LoadSchema(document)
  /\ UNCHANGED <<document, verdicts>>

\* Every instance is evaluated, each on its own.
Evaluate ==
  /\ Len(schema) = 3 /\ verdicts = <<>>
  /\ verdicts' = [v \in Instances |-> Valid(schema, schema[2], v, 0)]
  /\ UNCHANGED <<document, schema>>

SchemaNext == Load \/ Evaluate

-----------------------------------------------------------------------------
(* The reference: what a document's keywords say of an instance, in no order  *)
(* and without a budget.  A definition that refers to itself before a part of *)
(* the instance is entered says nothing: its answer is "unknown".             *)

\* Two values are equal in a schema when their normal forms are.
RECURSIVE Normal(_)
Normal(v) ==
  CASE Kind(v) = "Int" -> <<"number", (IF v[2] THEN -1 ELSE 1) * CountOf(v) * Unit>>
    [] Kind(v) = "Float" -> <<"number", (IF v[2] THEN -1 ELSE 1) * v[3]>>
    [] Kind(v) = "Array" -> <<"Array", [i \in 1 .. Len(v[2]) |-> Normal(v[2][i])]>>
    [] Kind(v) = "Object" -> <<"Object", {<<p[1], Normal(p[2])>> : p \in Range(v[2])}>>
    [] OTHER -> v

IsNumeric(v) == Kind(v) \in {"Int", "Float"}

\* What a keyword that looks at the instance alone says.
Says(keyword, m, v) ==
  LET size == Len(v[2])
      isLength == keyword \in {"minLength", "maxLength"} /\ IsStr(v)
      isItems == keyword \in {"minItems", "maxItems"} /\ Kind(v) = "Array"
      isMembers == keyword = "maxProperties" /\ Kind(v) = "Object"
  IN CASE keyword = "const" -> Normal(v) = Normal(m)
       [] keyword = "enum" -> \E i \in 1 .. Len(m[2]) : Normal(v) = Normal(m[2][i])
       [] keyword = "minimum" -> IsNumeric(v) => Normal(v)[2] >= Normal(m)[2]
       [] keyword = "maximum" -> IsNumeric(v) => Normal(v)[2] <= Normal(m)[2]
       [] isLength \/ isItems \/ isMembers ->
            IF keyword \in {"minLength", "minItems"} THEN size >= CountOf(m) ELSE size <= CountOf(m)
       [] keyword = "uniqueItems" ->
            (m[2] /\ Kind(v) = "Array") => Cardinality({Normal(v[2][i]) : i \in 1 .. size}) = size
       [] keyword = "required" -> Kind(v) = "Object" => {n[2] : n \in Range(m[2])} \subseteq Members(v)
       [] keyword = "pattern" -> IsStr(v) => IsMatch(Regex(m[2]), v[2])
       [] keyword = "type" -> \E n \in (IF Kind(m) = "Array" THEN Range(m[2]) ELSE {m}) : IsType(v, TypeNames[n[2]])
       [] OTHER -> TRUE

\* The <<schema, instance>> pairs a keyword's member m of d leads to.
Under(keyword, m, d, v) ==
  LET isObject == Kind(v) = "Object"
      other == {p \in Range(v[2]) : \A q \in Range(d[2]) :
                  KeywordOf(q) = "properties" => p[1] \notin Members(q[2])}
      pairs ==
        CASE keyword \in SchemaLists -> {<<i, m[2][i], v>> : i \in 1 .. Len(m[2])}
          [] keyword \in {"not", "if", "then"} -> {<<1, m, v>>}
          [] keyword = "$ref" -> {<<1, Get(Get(document, <<"$defs">>), RefTo[m[2]]), v>>}
          [] keyword = "items" /\ Kind(v) = "Array" -> {<<i, m, v[2][i]>> : i \in 1 .. Len(v[2])}
          [] keyword = "properties" /\ isObject ->
               {<<1, p[2], Get(v, p[1])>> : p \in {p \in Range(m[2]) : p[1] \in Members(v)}}
          [] keyword = "additionalProperties" /\ isObject -> {<<1, m, p[2]>> : p \in other}
          [] keyword = "propertyNames" /\ isObject -> {<<1, m, Str(p[1])>> : p \in Range(v[2])}
          [] OTHER -> {}
  IN pairs

Every(answers) == IF "no" \in answers THEN "no" ELSE IF "unknown" \in answers THEN "unknown" ELSE "yes"
Not(answer) == IF answer = "unknown" THEN "unknown" ELSE YesIf(answer = "no")

\* The references taken since a part of the instance was entered.
SeenNext(keyword, m, seen) ==
  CASE keyword = "$ref" -> seen \cup {m[2]}
    [] keyword \in {"items", "properties", "additionalProperties", "propertyNames"} -> {}
    [] OTHER -> seen

RECURSIVE Means(_, _, _), Loops(_, _, _)
Means(d, v, seen) ==
  LET member(keyword) == (CHOOSE p \in Range(d[2]) : KeywordOf(p) = keyword)[2]
      keywords == {KeywordOf(p) : p \in Range(d[2])}
      inner(keyword) == [u \in Under(keyword, member(keyword), d, v) |->
                           Means(u[2], u[3], SeenNext(keyword, member(keyword), seen))]
      answers(keyword) == Range(inner(keyword))
      yes == {u \in DOMAIN inner("oneOf") : inner("oneOf")[u] = "yes"}
      consequence == IF "then" \in keywords THEN Every(answers("then")) ELSE "yes"
      answer(keyword) ==
        CASE keyword = "anyOf" -> Not(Every({Not(a) : a \in answers("anyOf")}))
          [] keyword = "oneOf" -> IF Cardinality(yes) > 1 THEN "no"
                                  ELSE IF "unknown" \in answers("oneOf") THEN "unknown"
                                  ELSE YesIf(Cardinality(yes) = 1)
          [] keyword = "not" -> Not(Every(answers("not")))
          [] keyword = "if" -> Not(Every({Every(answers("if")), Not(consequence)}))
          [] keyword = "then" -> "yes"
          [] keyword = "$ref" /\ member("$ref")[2] \in seen -> "unknown"
          [] OTHER -> Every(answers(keyword) \cup {YesIf(Says(keyword, member(keyword), v))})
  IN IF Kind(d) = "Bool" THEN YesIf(d[2]) ELSE Every({answer(keyword) : keyword \in keywords})

\* Whether some way through the keywords refers to itself without an end.
Loops(d, v, seen) ==
  Kind(d) = "Object" /\ \E p \in Range(d[2]) :
    \/ KeywordOf(p) = "$ref" /\ p[2][2] \in seen
    \/ \E u \in Under(KeywordOf(p), p[2], d, v) : Loops(u[2], u[3], SeenNext(KeywordOf(p), p[2], seen))

\* An instance is found valid only if the schema's keywords say so, and invalid
\* only if they say that; an evaluation runs out of its budget only on a
\* definition that refers to itself without entering the instance, and then
\* accepts nothing, a `not' or an alternative around it included.  The patterns
\* it searches for are decided exactly as well.
VerdictExact ==
  /\ SearchExact
  /\ verdicts # <<>> => \A v \in Instances :
       /\ verdicts[v] \in {"yes", "no"} => Means(document, v, {}) = verdicts[v]
       /\ verdicts[v] = "exhausted" => Loops(document, v, {})
=============================================================================
