------------------------------ MODULE MCInputs ------------------------------
(* Six judges of what arrives from outside a process, each on a small         *)
(* instance: the broker's transcript, the reading of an HTTP answer, the      *)
(* observer's I01 session, and its judgement of the cluster's RBAC objects,   *)
(* of its quotas and of the apiserver's admission manifest.  They share       *)
(* nothing; `job' names the one that moves.                                   *)
EXTENDS I02Transcript, AnswerReader, I01Answer, RbacSnapshot, QuotaHeadroom, ManifestCheck, TLC

VARIABLE job

allVars == <<job, vars, readVars, answerVars, rbacVars, quotaVars, manifestVars>>

\* The sessions: windows that begin late or end early, a scope or a host's boot id missing
Window(from, until) == [from |-> from, until |-> until]
FullWindows == [scope |-> Window(0, 9), record |-> Window(0, 9), config |-> Window(0, 9),
                boot |-> "boot", generation |-> "generation"]
MCSignedSets ==
  {FullWindows, [FullWindows EXCEPT !.scope = Window(1, 2)], [FullWindows EXCEPT !.record = Window(1, 3)],
   [FullWindows EXCEPT !.config = Window(1, 2)], [FullWindows EXCEPT !.scope = Absent],
   [FullWindows EXCEPT !.boot = Absent]}

\* The clusters: the contract's own objects and the closure's required account,
\* with one more role and one more binding of every kind, aggregated or not, or
\* with one object altered.
Rule(groups, resources, verbs, names) ==
  [groups |-> groups, resources |-> resources, verbs |-> verbs, names |-> names, urls |-> <<>>]
UrlRule == [Rule(<<>>, <<>>, <<"get">>, <<>>) EXCEPT !.urls = <<"/version">>]
Res(base) == <<base, "">>

MCSpaceOrder == <<"kube-system", "other", "q">>
MCPolicyResources == {<<"rbac", Res("roles")>>, <<"core", <<"namespaces", "finalize">>>>}
MCStatusResources == {<<"core", <<"namespaces", "status">>>>}
MCWorkloadResources == {<<"core", Res("pods")>>}
MCSpecialTargets ==
  (<<"rbac", Res("roles")>> :> {"escalate", "bind"}) @@ (<<"core", <<"pods", "exec">>>> :> {"create"})
  @@ (<<"core", <<"userextras", "*">>>> :> {"impersonate"})

Closed(mustBePresent, named, names, allowed) ==
  [mustBePresent |-> mustBePresent, named |-> named, names |-> names, allowed |-> allowed]
Keeper == [kind |-> "ServiceAccount", name |-> Username("kube-system", "keeper")]
Dormant == [kind |-> "ServiceAccount", name |-> Username("kube-system", "dormant")]
Master == [kind |-> "Group", name |-> Name("system:masters")]
RolesPair == <<"rbac", Res("roles")>>
MCEntries ==
  (Keeper :> Closed(TRUE, TRUE, {"r1"},
                    {Row("POLICY_WRITE", RolesPair, "create", CLUSTER), Row("SPECIAL", RolesPair, "bind", CLUSTER),
                     Row("WORKLOAD", <<"core", Res("pods")>>, "create", "kube-system"),
                     Row("STATUS_WRITE", <<"core", <<"namespaces", "status">>>>, "create", "QUALIFICATION_NAMESPACE")}))
  @@ (Master :> Closed(FALSE, FALSE, {}, {ALL}))
MCAccounts == {Dormant.name}
MCBootstrap == Dormant :> <<[groups |-> <<"core">>, resources |-> <<Res("pods"), <<"namespaces", "status">>>>,
                             verbs |-> <<"create">>, names |-> <<>>, scope |-> CLUSTER]>>
ReadRule == Rule(<<"core">>, <<Res("roles")>>, <<"list">>, <<>>)
MCObserverRules == <<ReadRule, UrlRule>>

NotAggregated == [present |-> FALSE, selectors |-> <<>>]
Aggregation(selectors) == [present |-> TRUE, selectors |-> selectors]
Selector(labels, operators) == [readable |-> TRUE, labels |-> labels, operators |-> operators]
RoleObject(name, space, rules) ==
  [name |-> name, space |-> space, rules |-> rules, aggregation |-> NotAggregated, labelled |-> FALSE, malformed |-> FALSE]
BindingObject(name, space, kind, role, subjects) ==
  [name |-> name, space |-> space, ref |-> [kind |-> kind, name |-> role], subjects |-> subjects,
   extra |-> FALSE, malformed |-> FALSE]
Named(kind, name, space) == [kind |-> kind, name |-> Name(name), space |-> space]

ContractRole == RoleObject(ROLE_NAME, "", MCObserverRules)
ContractBinding == BindingObject(BINDING_NAME, "", "ClusterRole", ROLE_NAME, <<Named("User", ROLE_NAME, "")>>)
KeeperRole == RoleObject("keeper", "", <<Rule(<<"rbac">>, <<Res("roles")>>, <<"create">>, <<>>),
                                         Rule(<<"rbac">>, <<Res("roles")>>, <<"bind">>, <<"r1">>)>>)
KeeperBinding == BindingObject(2, "", "ClusterRole", "keeper", <<Named("ServiceAccount", "keeper", "kube-system")>>)
Base == [clusterRoles |-> <<ContractRole, KeeperRole>>, roles |-> <<>>, clusterBindings |-> <<ContractBinding, KeeperBinding>>,
         roleBindings |-> <<>>, accounts |-> {<<"kube-system", "keeper">>}]

\* One more role with one rule, and one more binding.
MoreRules ==
  {<<Rule(<<"core">>, <<r>>, <<v>>, <<>>)>> :
     r \in {Res("pods"), <<"pods", "exec">>, <<"namespaces", "status">>, <<"*", "exec">>, <<"*", "finalize">>},
     v \in {"create", "*"}}
  \cup {<<Rule(<<"*">>, <<<<"*", "">>>>, <<v>>, <<>>)>> : v \in {"create", "*", "list"}}
  \cup {<<Rule(<<"rbac">>, <<Res("roles")>>, <<v>>, n)>> :
           v \in {"create", "bind", "*"}, n \in {<<>>, <<"r1">>, <<"r2", "r1">>}}
  \cup {<<Rule(<<"core">>, <<<<"userextras", "x">>>>, <<"impersonate:arbitrary">>, <<>>)>>, <<UrlRule>>, <<>>,
        <<[UrlRule EXCEPT !.resources = <<Res("pods")>>]>>, <<ReadRule>>,
        <<[ReadRule EXCEPT !.names = <<"r2", "r1">>]>>}
MoreSubjects ==
  {<<Named("User", "u", "")>>, <<Named("User", " u", "")>>, <<Named("User", "system:apiserver", "")>>,
   <<Named("User", ROLE_NAME, "")>>, <<Named("Group", "system:masters", "")>>,
   <<Named("Group", "system:masters", ""), Named("User", "u", "")>>,
   <<Named("ServiceAccount", "keeper", "kube-system")>>, <<Named("ServiceAccount", "keeper", "")>>,
   <<Named("ServiceAccount", "dormant", "kube-system")>>, <<[Named("User", "", "") EXCEPT !.name = Keeper.name]>>, <<>>}
More(rules, aggregation, space, kind, role, subjects) ==
  [Base EXCEPT !.clusterRoles = Append(@, [RoleObject("more", "", rules) EXCEPT !.aggregation = aggregation]),
               !.roles = IF space = "" THEN <<>> ELSE <<RoleObject("more", space, rules)>>,
               !.clusterBindings = IF space = "" THEN Append(@, BindingObject(3, "", kind, role, subjects)) ELSE @,
               !.roleBindings = IF space = "" THEN <<>> ELSE <<BindingObject(3, space, kind, role, subjects)>>]
MoreBound ==
  {More(rules, NotAggregated, space, kind, "more", subjects) :
     rules \in MoreRules, space \in {"", "kube-system", "other", "q"}, kind \in {"ClusterRole", "Role"}, subjects \in MoreSubjects}
MoreAggregated ==
  {[More(rules, aggregation, space, "ClusterRole", role, subjects) EXCEPT !.clusterRoles[2].labelled = labelled] :
     rules \in {<<>>, <<ReadRule>>, <<Rule(<<"*">>, <<<<"*", "">>>>, <<"*">>, <<>>)>>}, labelled \in BOOLEAN,
     role \in {"more", ROLE_NAME, "missing"}, space \in {"", "q", "other"},
     subjects \in {<<Named("User", "u", "")>>, <<Named("User", ROLE_NAME, "")>>, <<Named("Group", "system:masters", "")>>},
     aggregation \in {Aggregation(<<>>), Aggregation(<<Selector(TRUE, <<>>)>>), Aggregation(<<Selector(FALSE, <<>>)>>),
                      Aggregation(<<Selector(FALSE, <<"In">>)>>), Aggregation(<<Selector(TRUE, <<"NotIn">>)>>),
                      Aggregation(<<Selector(TRUE, <<>>), Selector(FALSE, <<"NotIn", "DoesNotExist">>)>>),
                      Aggregation(<<[Selector(TRUE, <<>>) EXCEPT !.readable = FALSE]>>)}}
Altered ==
  {Base, [Base EXCEPT !.clusterRoles[1].rules = <<UrlRule, ReadRule>>], [Base EXCEPT !.clusterRoles[1].rules = <<ReadRule>>],
   [Base EXCEPT !.clusterRoles[1].labelled = TRUE], [Base EXCEPT !.clusterRoles[1].aggregation = Aggregation(<<>>)],
   [Base EXCEPT !.clusterBindings[1].extra = TRUE], [Base EXCEPT !.clusterBindings[1].ref.name = "keeper"],
   [Base EXCEPT !.clusterBindings[1].subjects = <<>>], [Base EXCEPT !.clusterBindings[2].malformed = TRUE],
   [Base EXCEPT !.clusterBindings[1].subjects = Append(@, Named("User", "u", ""))],
   [Base EXCEPT !.clusterBindings = <<ContractBinding>>], [Base EXCEPT !.accounts = {}],
   [Base EXCEPT !.clusterBindings[1].name = 4]}
NoObjects == [clusterRoles |-> <<>>, roles |-> <<>>, clusterBindings |-> <<>>, roleBindings |-> <<>>, accounts |-> {}]
MCClusters == {NoObjects} \cup MoreBound \cup MoreAggregated \cup Altered

Asking(group, resource, verb, space, name) == [group |-> group, resource |-> resource, verb |-> verb, space |-> space, name |-> name]
MCRequests ==
  {Asking("rbac", Res("roles"), verb, space, name) : verb \in {"create", "bind", "list"}, space \in {CLUSTER, "q"}, name \in {"r1", "r2"}}
  \cup {Asking("core", resource, "create", space, "r1") : resource \in {Res("pods"), <<"pods", "exec">>, <<"namespaces", "status">>,
                                                                         <<"namespaces", "finalize">>},
                                                        space \in {CLUSTER, "q", "kube-system", "other"}}
  \cup {Asking("core", <<"userextras", "x">>, verb, CLUSTER, "r1") : verb \in {"impersonate", "impersonate:arbitrary"}}
  \cup {Asking("core", Res("roles"), "list", space, "r1") : space \in {CLUSTER, "other"}}
  \cup {Asking("URL", Res(""), "get", CLUSTER, url) : url \in {"/version", "/other"}}

\* The scrapes: an exposition with the start, and later ones of any three lines,
\* or of four, whole or with the last line cut, or with one line out of form.
LabelOf(name, value) == [name |-> name, value |-> value, good |-> TRUE]
InfoLine(labels) == [name |-> "info", labels |-> labels, value |-> [spaced |-> TRUE, text |-> "1", trailing |-> FALSE], size |-> 2]
Info(plugin, host, hash) == InfoLine(<<LabelOf("plugin", plugin), LabelOf("apiserver_id_hash", host), LabelOf("hash", hash)>>)
StartLine(text) == [name |-> "start", labels |-> <<>>, value |-> [spaced |-> TRUE, text |-> text, trailing |-> FALSE], size |-> 1]
OtherLine(size) == [StartLine("") EXCEPT !.name = "other", !.size = size]
Loaded == Info("p", "s", "h1")
Turned == InfoLine(Reverse(Loaded.labels))
SomeLines == {StartLine("10"), StartLine("11"), Loaded, Turned, Info("p", "t", "h1"), Info("q", "s", "h1"),
              Info("p", "s", "h2"), Info("p", "s", "short"), OtherLine(0), OtherLine(2), OtherLine(3)}
OutOfForm ==
  {[line EXCEPT !.value = value] : line \in {Loaded, StartLine("10")},
     value \in [spaced : BOOLEAN, text : {"1", "10", "1e", ""}, trailing : BOOLEAN]}
  \cup {InfoLine(<<>>), InfoLine(Tail(Loaded.labels)), InfoLine(Append(Loaded.labels, LabelOf("x", "1"))),
        InfoLine(<<LabelOf("hash", "h1")>> \o Tail(Loaded.labels)), [Loaded EXCEPT !.labels[1].good = FALSE],
        [StartLine("10") EXCEPT !.labels = Loaded.labels]}
Exposition(lines, whole) == [lines |-> lines, ended |-> whole]
FirstScrape == Exposition(<<OtherLine(1), StartLine("10")>>, TRUE)
MCScrapes ==
  {<<FirstScrape, Exposition(lines, whole)>> : lines \in [1 .. 3 -> SomeLines], whole \in BOOLEAN}
  \cup {<<FirstScrape, Exposition(<<StartLine("10"), Loaded, Info("p", "t", "h1"), line>>, TRUE)>> : line \in SomeLines}
  \cup {<<FirstScrape, Exposition(<<one, line>>, TRUE)>> : one \in {StartLine("10"), Loaded}, line \in SomeLines \cup OutOfForm}
  \cup {<<Exposition(lines, whole), Exposition(<<Loaded, StartLine("10")>>, TRUE)>> :
          lines \in [1 .. 2 -> SomeLines], whole \in BOOLEAN}
IdleScrapes == <<FirstScrape, FirstScrape>>
Sane == [pinned |-> "h1", plugin |-> "p", version |-> "v1.37.1", start |-> 1, end |-> 2]
MCGivens ==
  {[Sane EXCEPT !.pinned = pinned, !.version = version] : pinned \in {"h1", "h2"}, version \in {"v1.37.1", "v1.38.0"}}
  \cup {[Sane EXCEPT !.start = start, !.end = end] : start, end \in {NO_WALL, 1, 2, MAX_WALL_SECONDS}}

\* The machine that moves starts anywhere, the others from one small input.
IdleStream == CHOOSE s \in Streams : Len(s) = 1

From(name, inputs, idle) == IF job = name THEN inputs ELSE {idle}

InputsInit ==
  /\ job \in {"transcript", "answer", "session", "rbac", "quota", "manifest"}
  /\ broker \in From("transcript", {Begin("first"), Begin("refuse")}, Begin("refuse")) /\ Init
  /\ stream \in From("answer", Streams, IdleStream) /\ ReadInit
  /\ job # "answer" => link.kind = "Answer"
  /\ signed \in From("session", SignedSets, FullWindows) /\ AnswerInit
  /\ cluster \in From("rbac", Clusters, NoObjects) /\ Unjudged
  /\ quotas \in From("quota", QuotaSets, <<>>) /\ Unmeasured
  /\ scrapes \in From("manifest", Scrapes, IdleScrapes) /\ given \in From("manifest", Givens, Sane) /\ Unscraped
  /\ given # Sane => scrapes \in {<<FirstScrape, Exposition(<<StartLine("10"), line>>, TRUE)>> : line \in SomeLines}

InputsNext ==
  \/ job = "transcript" /\ Next /\ UNCHANGED <<job, readVars, answerVars, rbacVars, quotaVars, manifestVars>>
  \/ job = "answer" /\ ReadNext /\ UNCHANGED <<job, vars, answerVars, rbacVars, quotaVars, manifestVars>>
  \/ job = "session" /\ AnswerNext /\ UNCHANGED <<job, vars, readVars, rbacVars, quotaVars, manifestVars>>
  \/ job = "rbac" /\ RbacNext /\ UNCHANGED <<job, vars, readVars, answerVars, quotaVars, manifestVars>>
  \/ job = "quota" /\ QuotaNext /\ UNCHANGED <<job, vars, readVars, answerVars, rbacVars, manifestVars>>
  \/ job = "manifest" /\ ManifestNext /\ UNCHANGED <<job, vars, readVars, answerVars, rbacVars, quotaVars>>

InputsSpec == InputsInit /\ [][InputsNext]_allVars

\* However an answer of the apiserver falls into reads, what the observer takes
\* from it is what was sent: a link hands on exactly the body of one whole
\* answer, and the verdict on the admission manifest is the one the two whole
\* expositions give.  (http.rs, client.rs consume and settle; exposition.rs, observe.rs adm4)
ReadAsSent == (job = "answer" => DecodedIsSent) /\ (job = "manifest" => MatchIsLoaded)

-----------------------------------------------------------------------------
(* Transcript: chunks of one, two and three bytes *)
MCChunks == {<<0>>, <<0, 1>>, <<0, 1, 0>>}

-----------------------------------------------------------------------------
(* Answers: heads and bodies that are whole, cut short, or wrong in one place *)

MCDigits == ("0" :> 0) @@ ("1" :> 1) @@ ("2" :> 2)

H(status, lengths, codings) ==
  [form |-> TRUE, status |-> status, lengths |-> lengths, codings |-> codings,
   encoding |-> "none", media |-> "json"]

MCHeads ==
  ("100" :> H(100, <<>>, <<>>)) @@ ("101" :> H(101, <<>>, <<>>))
  @@ ("bad" :> [H(200, <<1>>, <<>>) EXCEPT !.form = FALSE])
  @@ ("len0" :> H(200, <<0>>, <<>>)) @@ ("len3" :> H(200, <<3>>, <<>>))
  @@ ("len9" :> H(200, <<9>>, <<>>)) @@ ("twice" :> H(200, <<3, 3>>, <<>>))
  @@ ("none" :> H(200, <<>>, <<>>)) @@ ("both" :> H(200, <<3>>, <<"chunked">>))
  @@ ("gzip" :> [H(200, <<3>>, <<>>) EXCEPT !.encoding = "gzip"])
  @@ ("chunked" :> [H(200, <<>>, <<"chunked">>) EXCEPT !.encoding = "identity"])
  @@ ("metrics" :> [H(200, <<>>, <<"chunked">>) EXCEPT !.media = "exposition"])
  @@ ("deflate" :> H(200, <<>>, <<"deflate">>))
  @@ ("204" :> H(204, <<>>, <<>>)) @@ ("204len0" :> H(204, <<0>>, <<>>))
  @@ ("304len3" :> H(304, <<3>>, <<>>)) @@ ("410" :> H(410, <<3>>, <<>>))

OneByte == {<<b>> : b \in {"x", "1", CR, LF}}
TwoBytes == {<<"x", LF>>, <<LF, "x">>, <<CR, LF>>, <<"0", CR>>, <<LF, LF>>}
ChunkOf(size, data) == size \o <<CR, LF>> \o data \o <<CR, LF>>
GoodChunks == {ChunkOf(<<"1">>, d) : d \in OneByte} \cup {ChunkOf(<<"0", "2">>, d) : d \in TwoBytes}
BadChunks == {<<CR, LF, "x">>, <<"x">>, <<"0", "0", "1", CR, LF, "x", CR, LF>>,
              <<"1", CR, LF, "x", "x">>, <<"1", "0", CR, LF>>, <<"1", LF>>,
              <<"2", CR, LF, "x", CR>>}
Ends == {<<"0", CR, LF, CR, LF>>, <<"0", "0", CR, LF, CR, LF>>, <<"0", CR, LF, "x", CR, LF>>,
         <<"0", CR, LF, CR, LF, "x">>, <<>>}
ChunkedBodies(firsts) ==
  {c \o d \o e : c \in firsts, d \in GoodChunks \cup BadChunks \cup {<<>>}, e \in Ends}
PlainBodies == {<<>>} \cup {<<a, b>> \o c : a, b \in {"x", LF}, c \in {<<>>, <<"x">>, <<LF>>, <<"x", "x">>}}
FirstHeads == {<<>>, <<"x">>, <<"100">>, <<"100", "x", "100">>, <<"100", "100", "100">>,
               <<"x", "x", "x">>, <<"101">>}
MCStreams ==
  {<<"chunked">> \o b : b \in ChunkedBodies(GoodChunks \cup {<<>>})}
  \cup {<<"metrics">> \o b : b \in ChunkedBodies({<<>>, ChunkOf(<<"1">>, <<LF>>)})}
  \cup {i \o <<h>> \o b : i \in FirstHeads, h \in {"len0", "len3", "chunked"},
                          b \in {<<>>, <<"x", LF, "x">>, ChunkOf(<<"1">>, <<"x">>)}}
  \cup {<<h>> \o b : h \in DOMAIN MCHeads, b \in PlainBodies}

-----------------------------------------------------------------------------
(* Sessions: snapshots and capture sets that are whole or wrong in one place *)

MCZeroDigest == <<>>
MCDigestOfAnswer(o) == <<o>>

WholeSnapshot == [named |-> TRUE, values |-> [key \in POLICIES \cup DIGESTS |-> "SIGNED"],
                  namespace |-> "SIGNED", within |-> TRUE, form |-> TRUE]
MCSnapshots ==
  {WholeSnapshot, [WholeSnapshot EXCEPT !.named = FALSE], [WholeSnapshot EXCEPT !.values["rbac"] = "OTHER"],
   [WholeSnapshot EXCEPT !.namespace = "OTHER"], [WholeSnapshot EXCEPT !.form = FALSE]}

AllSlots == RoleSlots \cup {"lifecycle", "backend/NETWORK_POLICY_AGENT"}
WholeSet == [slots |-> {<<s, TRUE>> : s \in AllSlots}, record |-> "SIGNED", after |-> 0]
MCCaptureSets ==
  {WholeSet, [WholeSet EXCEPT !.after = Absent], [WholeSet EXCEPT !.after = 1], [WholeSet EXCEPT !.record = "OTHER"],
   [WholeSet EXCEPT !.slots = {<<s, s # "role/BROKER">> : s \in AllSlots}],
   [WholeSet EXCEPT !.slots = @ \cup {<<"lifecycle", FALSE>>}]}
GoodEnvelope == [faults |-> {}, binding |-> "SIGNED", nonce |-> "SIGNED"]
MCEnvelopes == {GoodEnvelope, [GoodEnvelope EXCEPT !.faults = {"Canonical"}],
                [GoodEnvelope EXCEPT !.binding = "OTHER"], [GoodEnvelope EXCEPT !.nonce = "OTHER"]}

-----------------------------------------------------------------------------
(* Quotas: an ample one, beside one of a single key with texts of every kind *)

Sfx(ten, two) == [ten |-> ten, two |-> two]
MCSuffixes == ("" :> Sfx(0, 0)) @@ ("n" :> Sfx(-3, 0)) @@ ("m" :> Sfx(-2, 0)) @@ ("k" :> Sfx(1, 0)) @@ ("Ki" :> Sfx(0, 3))
MCUnits == ("pods" :> [scale |-> "Count", keys |-> {1, 2}]) @@ ("cpuMillis" :> [scale |-> "Millis", keys |-> {3, 4}])
           @@ ("memoryBytes" :> [scale |-> "Base", keys |-> {5, 6}])

T(mantissa, fraction, suffix) == [mantissa |-> mantissa, fraction |-> fraction, suffix |-> suffix]
MCTexts == {T(0, 0, ""), T(7, 0, ""), T(70, 1, ""), T(25, 1, ""), T(25, 0, "m"), T(7, 0, "Ki"), T(25, 1, "Ki"),
            T(1, 0, "n"), T(12, 2, "n"), T(30, 1, "Ki"), T(30, 0, "k"), T(-1, 0, ""), T(9, 0, ""), T(2, 0, "")}
FirstTexts == {T(9, 0, ""), T(2, 0, "")}
Ample == [key \in {1, 3, 5} |-> T(9, 0, "")]
First == [name |-> 1, spec |-> Ample, hard |-> Ample, used |-> [key \in {1, 3, 5} |-> T(2, 0, "")]]
One(key, text) == key :> text
MCQuotaSets ==
  {<<First>>, <<>>, <<[First EXCEPT !.used = <<>>]>>}
  \cup {<<First, [name |-> 2, spec |-> One(key, spec), hard |-> One(key, hard), used |-> One(key, used)]>> :
          key \in {1, 2, 4, 6, 7}, spec \in {T(7, 0, ""), T(25, 1, "")}, hard \in MCTexts \ FirstTexts, used \in MCTexts \ FirstTexts}
  \cup {<<First, [name |-> 2, spec |-> One(key, hard), hard |-> One(key, hard), used |-> One(key, used)]>> :
          key \in {1, 2, 3, 4, 6}, hard \in MCTexts \ FirstTexts, used \in MCTexts \ FirstTexts}
=============================================================================
