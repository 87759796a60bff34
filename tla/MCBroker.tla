------------------------------ MODULE MCBroker ------------------------------
(* The broker's machines and those of the frame library it shares with the   *)
(* gate, each on a small instance: the run of a worker, the broker's side of  *)
(* the gate's channel, the gate's qualification as its peer; patterns,        *)
(* schemas, frames, and the agreement of an outcome with a result.  They      *)
(* share nothing; `job' names the one that moves.                             *)
EXTENDS BrokerLifecycle, GateClient, GatePeer, FrameCodec, OutcomeMapping

VARIABLE job

brokerVars == <<job, vars, clientVars, peerVars, patternVars, schemaVars, frameVars, agreementVars>>

\* The machine that moves starts anywhere, the others from one small input.
IdleProcess == CHOOSE p \in Process : TRUE
Given(name, inputs, idle) == IF job = name THEN inputs ELSE {idle}

BrokerInit ==
  /\ job \in {"run", "client", "peer", "pattern", "schema", "frame", "agreement"}
  /\ Init
  /\ job # "run" => prompt
  /\ ClientInit
  /\ \E p \in Given("peer", Process, IdleProcess) : PeerStart(p)
  /\ \E p \in Given("pattern", Patterns, <<>>) : PatternStart(p)
  /\ \E d \in Given("schema", Documents, Null) : SchemaStart(d)
  /\ \E d \in Given("frame", Datagrams, NotBytes) : FrameStart(d)
  /\ AgreementInit

BrokerNext ==
  \/ /\ job = "run" /\ Next
     /\ UNCHANGED <<job, clientVars, peerVars, patternVars, schemaVars, frameVars, agreementVars>>
  \/ /\ job = "client" /\ ClientNext
     /\ UNCHANGED <<job, vars, peerVars, patternVars, schemaVars, frameVars, agreementVars>>
  \/ /\ job = "peer" /\ PeerNext
     /\ UNCHANGED <<job, vars, clientVars, patternVars, schemaVars, frameVars, agreementVars>>
  \/ /\ job = "pattern" /\ PatternNext
     /\ UNCHANGED <<job, vars, clientVars, peerVars, schemaVars, frameVars, agreementVars>>
  \/ /\ job = "schema" /\ SchemaNext
     /\ UNCHANGED <<job, vars, clientVars, peerVars, patternVars, frameVars, agreementVars>>
  \/ /\ job = "frame" /\ FrameNext
     /\ UNCHANGED <<job, vars, clientVars, peerVars, patternVars, schemaVars, agreementVars>>
  \/ /\ job = "agreement" /\ AgreementNext
     /\ UNCHANGED <<job, vars, clientVars, peerVars, patternVars, schemaVars, frameVars>>

\* The run's fairness speaks only of the run's behaviours.
BrokerSpec ==
  /\ BrokerInit /\ [][BrokerNext]_brokerVars
  /\ WF_vars(Broker /\ UNCHANGED prompt) /\ WF_vars(Tick /\ UNCHANGED prompt)

-----------------------------------------------------------------------------
(* Peers: the gate under names that end its stat line's name early, and       *)
(* processes that are wrong in one place.                                     *)
GateImage == [uid |-> 0, label |-> <<"gate_t", "nul">>, cgroup |-> <<"gate.service", "nl">>,
              exe |-> <<"gate">>, command |-> <<"g">>]
MCImages ==
  {[GateImage EXCEPT !.command = c] : c \in {<<"g">>, <<")", " ", "S", " ", "1">>, <<"(", ")">>,
      <<" ", "(">>}}
  \cup {[GateImage EXCEPT !.uid = 1], [GateImage EXCEPT !.label = <<"gate_t", "nul", "nul">>],
        [GateImage EXCEPT !.exe = <<"gate", " (deleted)">>],
        [GateImage EXCEPT !.cgroup = <<"gate.service", "nl", "other", "nl">>]}
-----------------------------------------------------------------------------
(* Patterns: every short one, and three pieces in every order.                *)
MCCode ==
  ("-" :> 0) @@ ("1" :> 1) @@ ("2" :> 2) @@ ("," :> 3) @@ ("a" :> 4) @@ ("b" :> 5) @@ ("c" :> 6)
  @@ [x \in {"\\", ".", "*", "+", "?", "{", "}", "[", "]", "(", ")", "|", "^", "$"} |-> 9]
MCDigitChars == ("1" :> 1) @@ ("2" :> 2)
Symbols == {"a", "b", "-", "1", "(", ")", "[", "]", "|", "?", "*", "{", "}", "^", "$"}
MCPieces == {<<"a">>, <<"b">>, <<"^">>, <<"$">>, <<"a", "?">>, <<"b", "+">>, <<"|">>, <<"(", ")">>,
  <<"(", "a", "|", "b", ")">>, <<"(", "a", "?", ")", "*">>, <<"(", "^", "a", ")", "*">>,
      <<"[", "a", "-", "b", "]">>, <<"[", "b", "-", "]">>,
  <<"a", "{", "1", ",", "2", "}">>, <<"(", "a", "b", ")", "{", "2", "}">>,
      <<"(", "b", "|", "$", ")", "+">>, <<"(">>, <<")">>, <<"*">>,
  <<"{", "2", ",", "1", "}">>, <<"[", "a", "-">>, <<"b", "]">>}
MCTexts == SeqOf({"a", "b"}, 3) \cup {<<"c">>, <<"a", "c">>, <<"c", "b">>, <<"-">>}
MCPatterns == SeqOf(Symbols, 3) \cup {x \o y \o z : x, y, z \in MCPieces}

-----------------------------------------------------------------------------
(* Schemas: single keywords, and combinations of two over recursive           *)
(* definitions.                                                               *)
Words == {"$schema", "$id", "$defs", "title", "type", "properties", "required",
    "additionalProperties", "const", "enum",
  "minimum", "maximum", "minLength", "maxLength", "pattern", "oneOf", "anyOf", "allOf", "not", "if",
      "then", "items",
  "minItems", "maxItems", "uniqueItems", "maxProperties", "propertyNames", "$ref"}
MCKeyword == [w \in {<<x>> : x \in Words} |-> w[1]]
MCTypes == [w \in {<<x>> : x \in {"null", "boolean", "integer", "number", "string", "array",
    "object"}} |-> w[1]]
MCRefTo == (<<"#a">> :> <<"a">>) @@ (<<"#b">> :> <<"b">>)
S(x) == Str(<<x>>)
I(n) == FromI64(n)
F(n) == <<"Float", n < 0, IF n < 0 THEN -n ELSE n>>
A(s) == <<"Array", s>>
O(s) == <<"Object", s>>
M(k, v) == <<<<k>>, v>>
One(k, v) == O(<<M(k, v)>>)
B(b) == <<"Bool", b>>
MCInstances == {Null, B(TRUE), B(FALSE), I(0), I(1), I(-2), I(12), F(10000), F(15000), F(0),
    <<"Float", FALSE, Infinite>>, Str(<<>>), S("a"), Str(<<"a", "b">>),
   A(<<>>), A(<<I(1)>>), A(<<I(1), F(10000)>>), A(<<I(1), B(TRUE)>>), A(<<S("a"), A(<<S("a")>>)>>),
   O(<<>>), One("a", I(1)), One("b", S("a")), O(<<M("a", I(1)), M("b", S("a"))>>),
       O(<<M("b", S("a")), M("a", F(10000))>>), One("a", One("a", I(1)))}
Leaves == {B(TRUE), B(FALSE), One("type", S("integer")), One("type", A(<<S("string"), S("null")>>)),
    One("const", I(1)), One("$ref", S("#a")), One("required", A(<<S("a")>>))}
Simple == Leaves \cup {One("type", S("object")), One("type", A(<<>>)),
    One("enum", A(<<I(0), O(<<M("a", F(10000)), M("b", S("a"))>>), A(<<F(10000), I(1)>>)>>)),
   One("minimum", F(15000)), One("minimum", I(1)), One("maximum", I(1)), One("maximum", F(-20000)),
       One("minLength", I(1)), One("maxLength", I(1)), One("pattern", S("a")),
           One("pattern", Str(<<"^", "b">>)),
   One("minItems", I(2)), One("maxItems", I(1)), One("uniqueItems", B(TRUE)),
       One("uniqueItems", B(FALSE)), One("maxProperties", I(1)), One("title", S("a")),
   One("$ref", S("#b")), One("$ref", S("#c")), One("title", I(1)), One("minLength", I(-1)),
       One("pattern", S("*")), One("allOf", A(<<>>)), One("$id", S("a")),
           One("$schema", Str(<<"draft">>)), One("format", S("a")),
   One("then", B(FALSE)), S("a"), Null}
Nest(L) == UNION {{One("not", x), One("items", x), One("additionalProperties", x),
    One("propertyNames", x), One("properties", One("a", x)),
     O(<<M("properties", One("a", x)), M("additionalProperties", B(FALSE))>>)} : x \in L}
   \cup UNION {{One(l, A(<<x, y>>)) : l \in {"allOf", "anyOf", "oneOf"}}
       \cup {O(<<M("if", x), M("then", y)>>)} : x, y \in L}
   \cup {O(<<M("properties", One("b", B(TRUE))), M("additionalProperties", x)>>) : x \in L}
Two == Nest(Leaves)
DefsA == {One("allOf", A(<<One("$ref", S("#a"))>>)), One("not", One("$ref", S("#b"))),
    O(<<M("properties", One("a", One("$ref", S("#a"))))>>),
   One("type", S("string")), One("items", One("$ref", S("#a"))),
       One("anyOf", A(<<One("type", S("string")), One("$ref", S("#b"))>>))}
DefsB == {One("$ref", S("#a")), One("const", I(1)), One("not", One("$ref", S("#a")))}
WithDefs(d, a, b) == O(<<M("$defs", O(<<M("a", a), M("b", b)>>))>> \o d[2])
Bodies == {d \in Simple \cup Two : Kind(d) = "Object"}
MCDocuments ==
  Simple \cup {One("$defs", I(1)), One("not", One("$id", S("a")))}
  \cup UNION {{WithDefs(d, a, b) : a \in DefsA, b \in DefsB} : d \in Bodies}

-----------------------------------------------------------------------------
(* Frames: values as a careless sender writes them, with one symbol inserted, *)
(* deleted or replaced anywhere.                                              *)
MCHex == ("0061" :> "a") @@ ("000a" :> "nl") @@ ("0001" :> "ctl") @@ ("d800" :> High)
    @@ ("dc00" :> Low)
MCAlphabet == {"{", "}", "[", "]", ",", ":", " ", "\"", "\\", "/", "u", "n", "a", "b", "0", "1",
    "-", ".", "e",
  "null", "true", "NaN", "Infinity", "nl", "ctl", "del", "pair"} \cup DOMAIN MCHex
MCPoint == [x \in MCAlphabet \cup {"high", "low"} |-> CASE x = "nl" -> 1 [] x = "ctl" -> 0
    [] x = "\"" -> 2 [] x = "a" -> 4 [] x = "b" -> 5 [] x = "pair" -> 9 [] x = "high" -> 7
        [] x = "low" -> 8 [] x = "del" -> 6 [] OTHER -> 3]
MCDocument == One("type", A(<<S("object"), S("array"), S("integer"), S("string"), S("null")>>))
Sent == {Null, I(0), I(-1), I(11), F(11000), F(-20000), S("a"), S("pair"), S("\""), S("/"), S("nl"),
    S("ctl"), S("del"), S("high"), Str(<<"high", "a">>), A(<<>>), A(<<I(1)>>), A(<<Null, I(0)>>),
        O(<<>>),
   One("a", I(1)), O(<<M("a", I(1)), M("b", Null)>>), O(<<M("b", I(1)), M("a", Null)>>),
       O(<<M("a", I(1)), M("a", Null)>>), A(<<One("a", Null)>>), One("a", A(<<I(1)>>)),
           A(<<A(<<A(<<>>)>>)>>), One("\"", I(0)), B(TRUE)}
RECURSIVE Spelled(_)
\* as a careless sender would write it: no sorting, surrogates escaped
Raw(c) == CASE c = "high" -> <<"\\", "u", "d800">> [] c = "low" -> <<"\\", "u", "dc00">>
    [] OTHER -> Escaped(c)
RawStr(s) == <<"\"">> \o FlattenSeq([i \in 1 .. Len(s) |-> Raw(s[i])]) \o <<"\"">>
Listed(parts) == IF parts = <<>> THEN <<>> ELSE FoldLeft(LAMBDA out, p : Append(out, ",")
    \o p, Head(parts), Tail(parts))
Spelled(v) ==
  CASE Kind(v) = "Str" -> RawStr(v[2])
    [] Kind(v) = "Array" -> <<"[">> \o Listed([i \in 1 .. Len(v[2]) |-> Spelled(v[2][i])])
        \o <<"]">>
    [] Kind(v) = "Object" -> <<"{">> \o Listed([i \in 1 .. Len(v[2]) |-> RawStr(v[2][i][1])
        \o <<":">> \o Spelled(v[2][i][2])]) \o <<"}">>
    [] OTHER -> Canonical(v)[2]
Base == {Spelled(v) : v \in Sent} \cup {<<"\"", "\\", "u", "d800", "\\", "u", "dc00", "\"">>,
    <<"1", "e", "1">>, <<"1", ".", "0">>, <<"[", "1", ",", " ", "NaN", "]">>, <<"-", "Infinity">>,
  <<"{", "\"", "a", "\"", ":", "{", "\"", "a", "\"", ":", "1", ",", "\"", "a", "\"", ":", "0", "}",
      "}">>}
Inserted(t) == {SubSeq(t, 1, i) \o <<x>> \o SubSeq(t, i + 1, Len(t)) : i \in 0 .. Len(t),
    x \in MCAlphabet}
Deleted(t) == {SubSeq(t, 1, i - 1) \o SubSeq(t, i + 1, Len(t)) : i \in 1 .. Len(t)}
Replaced(t) == {[t EXCEPT ![i] = x] : i \in 1 .. Len(t), x \in MCAlphabet}
MCDatagrams == UNION {Inserted(t) \cup Deleted(t) \cup Replaced(t) : t \in Base} \cup {NotBytes}

-----------------------------------------------------------------------------
(* Agreement: the table of the contract, every status at a boundary of it and *)
(* every way a reported object may differ.                                    *)
Row(verb, classification, status, exclude, results, object) ==
  O(<<M("verb", Word(verb)), M("classification", Word(classification)), M("httpStatus", status),
      M("excludeStatus", A(exclude)), M("resourceResults", A(results)), M("object", Word(object))>>)
D == "DELIVERED_RESULT"
MCTable == O(<<M("schemaVersion", Word("v2")),
  M("rows", A(<<
   Row("CREATE", D, I(201), <<>>, <<Word("CREATED")>>, "IDENTITY_MATCH"),
   Row("CREATE", D, Word("4xx"), <<I(408)>>, <<Word("DENIED")>>, "ANY"),
   Row("GET", D, I(200), <<>>, <<Word("PRESENT")>>, "IDENTITY_MATCH"),
   Row("GET", D, I(404), <<>>, <<Word("ABSENT")>>, "ANY"),
   Row("GET", D, Word("4xx"), <<>>, <<Word("DENIED")>>, "ANY"),
   Row("GET", D, Word("5xx"), <<>>, <<Word("AMBIGUOUS")>>, "ANY"),
   Row("DELETE", D, I(200), <<>>, <<Word("DELETED")>>, "DELETE_BODY_IF_PRESENT"),
   Row("DELETE", D, I(202), <<>>, <<Word("DELETED")>>, "DELETE_BODY_IF_PRESENT"),
   Row("DELETE", D, I(404), <<>>, <<Word("ABSENT")>>, "ANY"),
   Row("DELETE", D, Word("4xx"), <<I(408)>>, <<Word("DENIED")>>, "ANY"),
   Row("*", "NOT_FORWARDED", Null, <<>>, <<Word("DENIED"), Word("AMBIGUOUS")>>, "NULL"),
   Row("*", "IO_AMBIGUOUS", Null, <<>>, <<Word("AMBIGUOUS")>>, "NULL")>>)),
  M("deleteResponseBody", O(<<M("Pod", Word("OBJECT")), M("ConfigMap", Word("STATUS")),
      M("Service", Word("OBJECT"))>>))>>)
\* texts of reported objects
Quoted(w) == <<"\"", w, "\"">>
Pairs(pairs) == <<"{">> \o FlattenSeq([i \in 1 .. Len(pairs) |-> (IF i = 1 THEN <<>> ELSE <<",">>)
    \o Quoted(pairs[i][1]) \o <<":">> \o pairs[i][2]]) \o <<"}">>
ShownAs(kind, namespace, uid) == Pairs(<<<<"apiVersion", Quoted("v1")>>, <<"kind", Quoted(kind)>>, 
   <<"metadata", Pairs(<<<<"namespace", Quoted(namespace)>>, <<"name", Quoted("it")>>,
       <<"uid", Quoted(uid)>>, <<"resourceVersion", Quoted("rv")>>>>)>>>>)
Ended(plural, uid) == Pairs(<<<<"kind", Quoted("Status")>>, <<"status", Quoted("Success")>>,
    <<"details", Pairs(<<<<"name", Quoted("it")>>, <<"kind", Quoted(plural)>>,
        <<"uid", Quoted(uid)>>>>)>>>>)
MCDecoded == (<<"pod">> :> ShownAs("Pod", "ns", "u"))
    @@ (<<"elsewhere">> :> ShownAs("Pod", "other", "u"))
  @@ (<<"replaced">> :> ShownAs("Pod", "ns", "v")) @@ (<<"map">> :> ShownAs("ConfigMap", "ns", "u"))
  @@ (<<"ended">> :> Ended("configmaps", "u")) @@ (<<"ended2">> :> Ended("pods", "u"))
      @@ (<<"ended3">> :> Ended("configmaps", "v"))
  @@ (<<"list">> :> <<"[", "]">>) @@ (<<"twice">> :> Pairs(<<<<"kind", Quoted("Pod")>>,
      <<"kind", Quoted("Pod")>>>>))
  @@ (<<"deep">> :> Pairs(<<<<"a", Pairs(<<<<"a", <<"[", "]">>>>>>)>>>>))
MCPlural == ("Pod" :> "pods") @@ ("ConfigMap" :> "configmaps") @@ ("Service" :> "services")
Statuses == {Null, Word("200"), <<"Bool", TRUE>>, F(2010000), F(4040000), F(4080000), F(4040001)}
    \cup {I(n) : n \in {100, 200, 201, 202, 302, 399, 400, 404, 408, 409, 499, 500, 599, 600}}
GateOutcome(ok, id, class, status, rv) == O(<<M("result", Word(ok)), M("actionId", id),
    M("classification", Word(class)), M("httpStatus", status), M("observedUid", Word("u")),
        M("observedResourceVersion", rv)>>)
Result(id, result, data) == O(<<M("actionId", id), M("outcome", Word(result)),
    M("objectBase64", data)>>)
Identity(kind) == [apiVersion |-> "v1", kind |-> kind, namespace |-> "ns", name |-> "it"]
Claim(verb, kind, o, result) == [verb |-> verb, identity |-> Identity(kind), outcome |-> o,
    result |-> result]
DataWords == {Str(t) : t \in DOMAIN MCDecoded} \cup {Word("none"), I(1)}
Results == {"CREATED", "DELETED", "PRESENT", "ABSENT", "DENIED", "AMBIGUOUS"}
MCClaims ==
  {Claim(verb, kind, GateOutcome("OK", I(1), class, status, Null), Result(I(1), result, Null)) :
     verb \in Verbs, kind \in {"Pod", "ConfigMap"}, class \in {D, "NOT_FORWARDED", "IO_AMBIGUOUS"},
     status \in Statuses, result \in Results}
  \cup {Claim(verb, kind, GateOutcome("OK", I(1), class, status, rv), Result(I(1), result, data)) :
          verb \in Verbs, kind \in {"Pod", "ConfigMap"}, class \in {D, "NOT_FORWARDED"},
          status \in {Null, I(200), I(201), I(404), I(409)}, rv \in {Null, Word("rv")},
          result \in {"CREATED", "DELETED", "PRESENT", "DENIED"}, data \in DataWords}
  \cup {Claim(Word("DELETE"), "Pod", o, result) :
          o \in {Null, GateOutcome("REFUSED", I(1), D, I(404), Null)}
                \cup {GateOutcome("OK", id, D, I(404), Null) : id \in {I(1), I(2), F(10000),
                <<"Bool", TRUE>>}},
          result \in {Null, Result(I(1), "ABSENT", Null)}}
=============================================================================
