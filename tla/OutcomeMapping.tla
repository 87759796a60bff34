--------------------------- MODULE OutcomeMapping ---------------------------
(* Whether the gate's ACTION_OUTCOME and the worker's RESOURCE_RESULT agree   *)
(* (i05-protocol/src/mapping.rs): the table of rows is loaded from its        *)
(* document and every claim is judged by it, with Python's equality.          *)
(*                                                                            *)
(* A name or a word is a string of one symbol.  What the text of a reported   *)
(* object decodes to under base64 is given by Decoded.                        *)
EXTENDS JsonText, TLC

CONSTANTS Table,             \* the mapping document, a value
          Claims,            \* what is judged: [verb, identity, outcome, result]
          Decoded,           \* a base64 text -> the text it encodes
          Plural,            \* a kind -> its resource
          MAX_OBJECT_DEPTH

VARIABLES claim,             \* the claim, or NoClaim
          agreement          \* the loaded rows, or the answer

agreementVars == <<claim, agreement>>

Word(w) == Str(<<w>>)
IsWord(v) == Kind(v) = "Str"
Object(v) == IF Kind(v) = "Object" THEN v ELSE <<"Object", <<>>>>
Field(v, name) == Read(Object(v), <<name>>)

-----------------------------------------------------------------------------
(* OutcomeMapping::from_value *)

RefusedTable == <<"RefusedTable">>
Verbs == {Word("CREATE"), Word("GET"), Word("DELETE")}
Classes == (<<"4xx">> :> <<400, 499>>) @@ (<<"5xx">> :> <<500, 599>>)
ObjectRules == {Word("IDENTITY_MATCH"), Word("DELETE_BODY_IF_PRESENT"), Word("ANY"), Word("NULL")}
ObjectKinds == {"Pod", "ConfigMap", "Service"}

RowLoads(row) ==
  LET status == Field(row, "httpStatus")
  IN /\ Field(row, "verb") \in Verbs \cup {Word("*")}
     /\ IsWord(Field(row, "classification"))
     /\ <<"httpStatus">> \in Members(Object(row))
     /\ \/ Kind(status) \in {"Null", "Int"}
        \/ Kind(status) = "Str" /\ status[2] \in DOMAIN Classes
     /\ Kind(Field(row, "excludeStatus")) = "Array"
     /\ \A v \in Range(Field(row, "excludeStatus")[2]) : Kind(v) = "Int"
     /\ Field(row, "object") \in ObjectRules
     /\ Kind(Field(row, "resourceResults")) = "Array"
     /\ \A v \in Range(Field(row, "resourceResults")[2]) : IsWord(v)

LoadRow(row) ==
  LET status == Field(row, "httpStatus")
  IN [verb           |-> Field(row, "verb"),
      classification |-> Field(row, "classification"),
      status         |-> CASE Kind(status) = "Null" -> <<"Null">>
                           [] Kind(status) = "Int" -> <<"Exact", status>>
                           [] Kind(status) = "Str" -> <<"Class", Classes[status[2]][1], Classes[status[2]][2]>>,
      exclude        |-> Range(Field(row, "excludeStatus")[2]),
      results        |-> Range(Field(row, "resourceResults")[2]),
      object         |-> Field(row, "object")]

FromValue(table) ==
  LET rows == Field(table, "rows")
      body(kind) == Field(Field(table, "deleteResponseBody"), kind)
  IN IF /\ Field(table, "schemaVersion") = Word("v2")
        /\ Kind(rows) = "Array"
        /\ \A row \in Range(rows[2]) : RowLoads(row)
        /\ \A kind \in ObjectKinds : body(kind) \in {Word("OBJECT"), Word("STATUS")}
     THEN <<"Table", [rows |-> [i \in 1 .. Len(rows[2]) |-> LoadRow(rows[2][i])],
                      bodyKind |-> [kind \in ObjectKinds |-> body(kind)]]>>
     ELSE RefusedTable

-----------------------------------------------------------------------------
(* OutcomeMapping::check_agreement: Agreed, or the first mismatch.            *)

Agreed == <<"Agreed">>
Mismatch(code) == <<code>>

InClass(status, low, high) ==
  /\ Kind(status) \in {"Int", "Bool", "Float"}
  /\ NumberCmp(status, FromI64(low)) >= 0
  /\ NumberCmp(status, FromI64(high)) <= 0

\* Mutant of RowStatus: a status class takes the statuses its row excludes.
RowStatusUnexcluded(row, status, exact) ==
  CASE row.status[1] = "Null" -> status = Null
    [] row.status[1] = "Exact" -> status # Null /\ exact /\ PyEq(row.status[2], status)
    [] row.status[1] = "Class" -> status # Null /\ ~exact /\ InClass(status, row.status[2], row.status[3])

RowStatus(row, status, exact) ==
  CASE row.status[1] = "Null" -> status = Null
    [] row.status[1] = "Exact" -> status # Null /\ exact /\ PyEq(row.status[2], status)
    [] row.status[1] = "Class" ->
         /\ status # Null /\ ~exact /\ InClass(status, row.status[2], row.status[3])
         /\ \A v \in row.exclude : ~PyEq(v, status)

\* The rows a verb and an outcome select: the exact ones, if there are any.
Matched(mapping, verb, outcome) ==
  LET rows == SelectSeq(mapping.rows, LAMBDA row : /\ row.verb \in {Word("*"), verb}
                                                   /\ PyEq(row.classification, Field(outcome, "classification")))
      of(exact) == SelectSeq(rows, LAMBDA row : RowStatus(row, Field(outcome, "httpStatus"), exact))
  IN IF of(TRUE) # <<>> THEN of(TRUE) ELSE of(FALSE)

\* The object a base64 text holds, or Null.
DecodeObject(data) ==
  LET object(parsed) == IF /\ parsed[1] = "Ok" /\ Kind(parsed[2]) = "Object"
                           /\ Depth(parsed[2]) <= MAX_OBJECT_DEPTH
                        THEN parsed[2] ELSE Null
  IN IF Kind(data) = "Str" /\ data[2] \in DOMAIN Decoded THEN object(Parse(Decoded[data[2]])) ELSE Null

\* A completed deletion's v1 Status.
StatusBody(identity, outcome, value) ==
  LET details == Field(value, "details")
  IN CASE Kind(details) # "Object" \/ Field(value, "kind") # Word("Status")
          \/ Field(value, "status") # Word("Success") -> Mismatch("M05")
       [] Field(details, "name") # Word(identity.name)
          \/ Field(details, "kind") # Word(Plural[identity.kind]) -> Mismatch("M06")
       [] ~PyEq(Field(details, "uid"), Field(outcome, "observedUid"))
          \/ Field(outcome, "observedResourceVersion") # Null -> Mismatch("M07")
       [] OTHER -> Agreed

ObjectBody(identity, outcome, value) ==
  LET metadata == Field(value, "metadata")
  IN CASE Kind(value) # "Object" -> Mismatch("M05")
       [] Field(value, "apiVersion") # Word(identity.apiVersion) \/ Field(value, "kind") # Word(identity.kind)
          \/ Field(metadata, "namespace") # Word(identity.namespace)
          \/ Field(metadata, "name") # Word(identity.name) -> Mismatch("M06")
       [] ~PyEq(Field(metadata, "uid"), Field(outcome, "observedUid"))
          \/ ~PyEq(Field(metadata, "resourceVersion"), Field(outcome, "observedResourceVersion")) -> Mismatch("M07")
       [] OTHER -> Agreed

\* The body an outcome's row asks for.
CheckBody(rule, isStatus, identity, outcome, data) ==
  IF rule = Word("DELETE_BODY_IF_PRESENT") /\ data # Null /\ isStatus
  THEN StatusBody(identity, outcome, DecodeObject(data))
  ELSE IF rule = Word("IDENTITY_MATCH") \/ (rule = Word("DELETE_BODY_IF_PRESENT") /\ data # Null)
  THEN ObjectBody(identity, outcome, DecodeObject(data))
  ELSE Agreed

CheckRows(rows, isStatus, identity, outcome, result) ==
  IF Len(rows) # 1 THEN Mismatch("M02")
  ELSE IF \A name \in rows[1].results : ~PyEq(Field(result, "outcome"), name) THEN Mismatch("M03")
  ELSE IF rows[1].object = Word("NULL") /\ Field(result, "objectBase64") # Null THEN Mismatch("M04")
  ELSE CheckBody(rows[1].object, isStatus, identity, outcome, Field(result, "objectBase64"))

CheckAgreement(mapping, verb, identity, outcome, result) ==
  IF Kind(outcome) # "Object" \/ ~PyEq(Field(outcome, "result"), Word("OK")) THEN Mismatch("M00")
  ELSE IF Kind(result) # "Object" \/ ~PyEq(Field(result, "actionId"), Field(outcome, "actionId")) THEN Mismatch("M01")
  ELSE CheckRows(Matched(mapping, verb, outcome), mapping.bodyKind[identity.kind] = Word("STATUS"),
                 identity, outcome, result)

\* render.rs: whether a response settles what the request did.
OutcomeIsFinal(verb, status) ==
  LET rejected == status \in (400 .. 499) \ {408}
  IN CASE verb = Word("GET") -> TRUE
       [] verb = Word("CREATE") -> rejected \/ status = 201
       [] verb = Word("DELETE") -> rejected \/ status \in {200, 202, 404}

-----------------------------------------------------------------------------
NoClaim == <<>>

AgreementInit == claim = NoClaim /\ agreement = <<>>

LoadTable ==
  /\ agreement = <<>>
  /\ agreement' = FromValue(Table)
  /\ UNCHANGED claim

Judge ==
  /\ claim = NoClaim /\ agreement \notin {<<>>, RefusedTable}
  /\ \E c \in Claims :
       /\ claim' = c
       /\ agreement' = CheckAgreement(agreement[2], c.verb, c.identity, c.outcome, c.result)

AgreementNext == LoadTable \/ Judge

-----------------------------------------------------------------------------
(* The rules the contract states of the table, by the numbers themselves.     *)

\* A status as a number of Units; -1 for what is none.
Amount(v) ==
  CASE Kind(v) = "Bool" -> IF v[2] THEN Unit ELSE 0
    [] Kind(v) = "Int" -> Unit * FoldLeft(LAMBDA n, d : 10 * n + d, 0, v[3])
    [] Kind(v) = "Float" -> v[3]
    [] OTHER -> -1

\* The statuses that a row of the document is about.
About(row, status) ==
  LET rule == Field(row, "httpStatus")
      excluded == {Amount(v) : v \in Range(Field(row, "excludeStatus")[2])}
  IN CASE rule = Null -> status = Null
       [] Kind(rule) = "Int" -> Amount(status) = Amount(rule)
       [] Kind(rule) = "Str" -> /\ Amount(status) \in (Unit * Classes[rule[2]][1]) .. (Unit * Classes[rule[2]][2])
                                /\ Amount(status) \notin excluded

\* The row that decides: of the rows about an outcome, the most specific one.
Deciding(verb, outcome) ==
  LET rows == {row \in Range(Field(Table, "rows")[2]) :
                 /\ Field(row, "verb") \in {verb, Word("*")}
                 /\ Field(row, "classification") = Field(outcome, "classification")
                 /\ About(row, Field(outcome, "httpStatus"))}
      specific == {row \in rows : Kind(Field(row, "httpStatus")) = "Int"}
  IN IF specific # {} THEN specific ELSE rows

\* The body names the armed object and carries what the gate observed of it.
Names(identity, outcome, value, details) ==
  IF details
  THEN /\ Field(Field(value, "details"), "name") = Word(identity.name)
       /\ Field(Field(value, "details"), "uid") = Field(outcome, "observedUid")
       /\ Field(outcome, "observedResourceVersion") = Null
  ELSE /\ Field(value, "kind") = Word(identity.kind)
       /\ Field(Field(value, "metadata"), "namespace") = Word(identity.namespace)
       /\ Field(Field(value, "metadata"), "name") = Word(identity.name)
       /\ Field(Field(value, "metadata"), "uid") = Field(outcome, "observedUid")
       /\ Field(Field(value, "metadata"), "resourceVersion") = Field(outcome, "observedResourceVersion")

Definite == {Word("CREATED"), Word("DELETED"), Word("PRESENT"), Word("ABSENT")}

\* A claim is agreed only if the one most specific row about the gate's outcome
\* allows the reported result; a definite result that was agreed on comes from a
\* response that settles the action, and the object it shows is the armed one
\* with the UID and the resourceVersion the gate saw; and a delivered response
\* that settles a CREATE or a DELETE always has its row.
\* (mapping.rs check_agreement with outcome-mapping.json and outcome_is_final)
AgreementSettles ==
  claim # NoClaim =>
    LET outcome == claim.outcome
        result == claim.result
        rows == Deciding(claim.verb, outcome)
        status == Amount(Field(outcome, "httpStatus"))
        delivered == Field(outcome, "classification") = Word("DELIVERED_RESULT")
        final == status % Unit = 0 /\ status >= 0 /\ OutcomeIsFinal(claim.verb, status \div Unit)
        shown == DecodeObject(Field(result, "objectBase64"))
        rule == Field(CHOOSE row \in rows : TRUE, "object")
    IN /\ agreement = Agreed =>
            /\ Cardinality(rows) = 1
            /\ \A row \in rows : Field(result, "outcome") \in Range(Field(row, "resourceResults")[2])
            /\ Field(result, "outcome") \in Definite => delivered /\ final
            /\ rule = Word("IDENTITY_MATCH") => Names(claim.identity, outcome, shown, FALSE)
            /\ rule = Word("DELETE_BODY_IF_PRESENT") /\ Field(result, "objectBase64") # Null =>
                 Names(claim.identity, outcome, shown,
                       Field(Field(Table, "deleteResponseBody"), claim.identity.kind) = Word("STATUS"))
       /\ delivered /\ final /\ claim.verb # Word("GET") => agreement # Mismatch("M02")
=============================================================================
