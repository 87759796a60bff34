---------------------------- MODULE MCFoundation ----------------------------
(* The foundation operator's machines, each on a small instance: the engine   *)
(* (two reconciles race over two plans for the same inventory key), the       *)
(* bundle verifier and the plan's validation.  They share nothing; `job'      *)
(* names the one that moves.                                                  *)
EXTENDS Foundation, BundleVerifier, FoundationPlan, SequencesExt

CONSTANTS w1, w2, aPlan, otherPlan, sa, aRole, cm, d1, d2, s1, s2, t1, t2

MCWorkers == {w1, w2}
MCEnginePlans == {aPlan, otherPlan}
MCIdentities == {sa, aRole, cm}
MCDigests == {d1, d2}
MCStamps == {s1, s2}
MCTimes == {t1, t2}

VARIABLE job

operatorVars == <<job, vars, bundleVars, planVars>>

\* The machine that moves starts anywhere, the others from one small input.
IdleCase == CHOOSE c \in Cases : \A n \in Names : c.bundle[n] = Missing
IdlePlan == CHOOSE p \in PlansGiven : p.waves = <<>>

Given(name, inputs, idle) == IF job = name THEN inputs ELSE {idle}

OperatorInit ==
  /\ job \in {"engine", "bundle", "plan"}
  /\ Init
  /\ given \in Given("bundle", Cases, IdleCase) /\ BundleInit
  /\ plan \in Given("plan", PlansGiven, IdlePlan) /\ PlanInit

OperatorNext ==
  \/ job = "engine" /\ Next /\ UNCHANGED <<job, bundleVars, planVars>>
  \/ job = "bundle" /\ BundleNext /\ UNCHANGED <<job, vars, planVars>>
  \/ job = "plan" /\ PlanNext /\ UNCHANGED <<job, vars, bundleVars>>

\* The engine's fairness speaks only of the engine's behaviours.
OperatorSpec == OperatorInit /\ [][OperatorNext]_operatorVars /\ Fairness

-----------------------------------------------------------------------------
(* The waves of a plan, each a sequence of <<identity, digest>>.           *)
Waves ==
    [p \in MCEnginePlans |-> IF p = aPlan THEN << <<<<sa, d1>>, <<aRole, d1>>>>, <<<<cm, d2>>>> >>
                                   ELSE << <<<<sa, d2>>>> >>]

(* flatten(): the planned resources with their zero-based positions.       *)
Flatten(waves) ==
    FlattenSeq([w \in 1..Len(waves) |->
       [r \in 1..Len(waves[w]) |->
          [wave |-> w - 1, resource |-> r - 1,
           id |-> waves[w][r][1], digest |-> waves[w][r][2]]]])

MCResources == [p \in MCEnginePlans |-> Flatten(Waves[p])]
MCWaveCount == [p \in MCEnginePlans |-> Len(Waves[p])]

-----------------------------------------------------------------------------
(* Bundles: a release is built with one flaw, or none; every digest that     *)
(* names a document is computed over the flawed content, so that the check   *)
(* that is meant to find the flaw is the one that is reached.                *)

MCWhen == 5

\* Flaws that are none: each is the last value its check lets pass.
Harmless == {"none", "revokedLater", "opensNow", "closesNext", "retiring",
             "leastSequence", "leastVersion", "mostVersion", "leastCapacity",
             "noSandbox"}

Flaws == {"unknownLicence", "noSubjects", "otherSubject", "unsorted",
          "badReference", "staleSequence", "revokedNow", "revokedTwice",
          "revokesUnknown", "opensLater", "closesNow", "noRole", "badKeyFile",
          "swappedRoles", "noManifestForm", "otherTime", "otherKeySigned",
          "notAuthorized", "approvalClosed", "otherOrganization",
          "twiceListed", "otherSbom", "otherLock", "payloadUnsigned",
          "noComponents", "indexTwice", "indexMore", "indexSize", "blobCut",
          "noBlob", "extraFile", "otherPlatform", "moduleMissing",
          "oldVersion", "newVersion", "minorOnly", "smallNode", "noStorage",
          "sandboxMissing", "otherLocks", "empty"}

Artifact(rel, m) == IF m = 1 THEN <<"artifact", 1>> ELSE <<"artifact", m, rel>>

MCNames ==
  {File(n) : n \in {"approval.json", "approval.sigstore.json",
     "bundle.lock.json", "release-manifest.json",
     "release-manifest.sigstore.json", "signed-release.json",
     "supply-chain.evidence.json", "trust-bundle.json",
     "oci/oci-layout", "oci/index.json", "extra"}}
  \cup {KeyFile(k) : k \in 1..2}
  \cup UNION {{Payload(a), Signature(a), Blob(a)} :
               a \in {Artifact(rel, m) : rel \in 1..2, m \in 1..2}}

\* The file named n of release rel with flaw f.
Document(rel, f, n) ==
  LET d(x) == <<x, rel, f>>
      Is(x) == f = x
      modules == <<1, 2>>
      subject == [kind |-> "image",
                  platform |-> IF Is("otherPlatform") THEN "arm64" ELSE "amd64"]
      order == IF Is("unsorted") THEN <<2, 1>> ELSE modules
      art(m) == Artifact(rel, m)
      blob(m) == [digest |-> art(m), size |-> 7]
      key(k, role) ==
        [id |-> k, role |-> IF Is("noRole") THEN "NONE" ELSE role,
         state |-> IF Is("retiring") THEN "RETIRING" ELSE "ACTIVE",
         notBefore |-> IF Is("opensLater") THEN MCWhen + 1
                       ELSE IF Is("opensNow") THEN MCWhen ELSE 1,
         notAfter |-> IF Is("closesNow") THEN MCWhen
                      ELSE IF Is("closesNext") THEN MCWhen + 1 ELSE 9,
         file |-> IF Is("badKeyFile") THEN NoValue ELSE <<"key", k>>]
      revocation(time) == [id |-> 1, effectiveAt |-> time]
      record(m) == [artifact |-> art(m), payload |-> d(<<"payload", m>>),
                    signature |-> d(<<"signature", m>>)]
      named(x) == n = File(x)
      of(F(_)) == CHOOSE m \in 1..2 : n = F(art(m))
  IN
  CASE named("signed-release.json") ->
         [digest |-> d("signed"), form |-> TRUE, lock |-> d("lock"),
          evidence |-> d("evidence"), manifest |-> d("manifest"),
          rootSignature |-> d("root"), approval |-> d("approval"),
          trust |-> d("trust"), key |-> 1]
    [] named("bundle.lock.json") ->
         [digest |-> d("lock"), form |-> TRUE, profile |-> "profile", profileId |-> "p",
          components |-> [i \in 1..2 |->
             [artifact |-> art(order[i]), module |-> order[i], subject |-> subject,
              reference |-> IF Is("badReference") THEN NoValue ELSE art(order[i])]],
          platforms |-> <<"amd64">>,
          modules |-> IF Is("moduleMissing") THEN <<1>> ELSE modules,
          ociLayout |-> "layout", sourceIndex |-> d("index"),
          blobs |-> IF Is("noBlob") THEN <<blob(1)>> ELSE <<blob(1), blob(2)>>]
    [] named("supply-chain.evidence.json") ->
         [digest |-> d("evidence"), form |-> TRUE,
          lock |-> IF Is("otherLock") THEN NoValue ELSE d("lock"),
          modelsAccepted |-> TRUE,
          components |-> IF Is("noSubjects") THEN <<>> ELSE [i \in 1..2 |->
             [artifact |-> art(order[i]), module |-> order[i], sbom |-> "sbom",
              subject |-> IF Is("otherSubject") THEN NoValue ELSE subject,
              accepted |-> ~Is("unknownLicence")]]]
    [] named("trust-bundle.json") ->
         [digest |-> d("trust"), form |-> TRUE,
          sequence |-> IF Is("staleSequence") THEN 1
                       ELSE IF Is("leastSequence") THEN 2 ELSE 3,
          keys |-> IF Is("swappedRoles")
                   THEN <<key(1, "RELEASE_APPROVAL"), key(2, "BUNDLE_RELEASE")>>
                   ELSE <<key(1, "BUNDLE_RELEASE"), key(2, "RELEASE_APPROVAL")>>,
          revocations |->
            CASE Is("revokedNow") -> <<revocation(MCWhen)>>
              [] Is("revokedLater") -> <<revocation(MCWhen + 1)>>
              [] Is("revokedTwice") -> <<revocation(9), revocation(9)>>
              [] Is("revokesUnknown") -> <<[id |-> 3, effectiveAt |-> 9]>>
              [] OTHER -> <<>>]
    [] named("release-manifest.json") ->
         [digest |-> d("manifest"), form |-> ~Is("noManifestForm"), lock |-> d("lock"),
          evidence |-> d("evidence"), approval |-> d("approval"), key |-> 1,
          trust |-> d("trust"), profileId |-> "p", organization |-> "o",
          verificationTime |-> IF Is("otherTime") THEN MCWhen - 1 ELSE MCWhen,
          components |-> CASE Is("noComponents") -> <<>>
                           [] Is("twiceListed") -> <<record(1), record(1)>>
                           [] OTHER -> <<record(1), record(2)>>]
    [] named("release-manifest.sigstore.json") ->
         [digest |-> d("root"), over |-> d("manifest"),
          by |-> <<"key", IF Is("otherKeySigned") THEN 2 ELSE 1>>]
    [] named("approval.json") ->
         [digest |-> d("approval"), form |-> TRUE, key |-> 2, lock |-> d("lock"),
          evidence |-> d("evidence"), trust |-> d("trust"), profileId |-> "p",
          organization |-> IF Is("otherOrganization") THEN "x" ELSE "o",
          authorizedReleaseKeyIds |-> IF Is("notAuthorized") THEN {2} ELSE {1},
          notBefore |-> 1, notAfter |-> IF Is("approvalClosed") THEN MCWhen ELSE 9]
    [] named("approval.sigstore.json") ->
         [digest |-> d("approvalSig"), over |-> d("approval"), by |-> <<"key", 2>>]
    [] named("oci/oci-layout") -> [digest |-> "layout", form |-> TRUE]
    [] named("oci/index.json") ->
         [digest |-> d("index"), form |-> TRUE,
          manifests |-> CASE Is("indexTwice") -> <<blob(1), blob(1)>>
                          [] Is("indexMore") -> <<blob(1), blob(2), [blob(1) EXCEPT !.digest = <<"artifact", 9>>]>>
                          [] Is("indexSize") -> <<blob(1), [blob(2) EXCEPT !.size = 8]>>
                          [] Is("noBlob") -> <<blob(1)>>
                          [] OTHER -> <<blob(1), blob(2)>>]
    [] \E k \in 1..2 : n = KeyFile(k) -> [digest |-> <<"key", n[2]>>]
    [] \E m \in 1..2 : n = Payload(art(m)) ->
         [digest |-> d(<<"payload", of(Payload)>>), form |-> TRUE,
          artifact |-> n[2], lock |-> d("lock"), module |-> of(Payload),
          subject |-> subject, sbom |-> IF Is("otherSbom") THEN "x" ELSE "sbom"]
    [] \E m \in 1..2 : n = Signature(art(m)) ->
         [digest |-> d(<<"signature", of(Signature)>>),
          over |-> IF Is("payloadUnsigned") THEN NoValue
                   ELSE d(<<"payload", of(Signature)>>),
          by |-> <<"key", 1>>]
    [] \E m \in 1..2 : n = Blob(art(m)) ->
         IF Is("noBlob") /\ n = Blob(art(2)) THEN Missing
         ELSE [digest |-> n[2], size |-> IF Is("blobCut") THEN 6 ELSE 7]
    [] OTHER -> IF named("extra") /\ Is("extraFile") THEN [digest |-> 0] ELSE Missing

Bundle(rel, f) == [n \in MCNames |-> IF f = "empty" THEN Missing ELSE Document(rel, f, n)]

Locks(rel, f) == [profile |-> "profile", bundle |-> <<"lock", rel, f>>,
                  release |-> <<"signed", rel, f>>]

Request(f) ==
  [form |-> TRUE, platform |-> "k3s", architecture |-> "amd64",
   minimum |-> <<1, 29>>, maximum |-> <<2, 3>>,
   capacity |-> [cpu |-> 2, memory |-> 2, ephemeral |-> 2],
   storageClass |-> "fast", connectivity |-> "airgap",
   sandboxRequired |-> f # "noSandbox", modules |-> <<1, 2>>, locks |-> Locks(1, f)]

Observation(f) ==
  [form |-> TRUE, platform |-> "k3s", architecture |-> "amd64",
   version |-> CASE f = "leastVersion" -> <<1, 29>> [] f = "mostVersion" -> <<2, 3>>
                 [] f = "oldVersion" -> <<1, 28>> [] f = "newVersion" -> <<2, 4>>
                 [] f = "minorOnly" -> <<3, 0>> [] OTHER -> <<1, 30>>,
   capacity |-> [cpu |-> IF f = "smallNode" THEN 1 ELSE IF f = "leastCapacity" THEN 2 ELSE 3,
                 memory |-> 3, ephemeral |-> 3],
   storageClasses |-> IF f = "noStorage" THEN {"slow"} ELSE {"fast", "slow"},
   connectivity |-> "airgap",
   sandboxAvailable |-> f \notin {"sandboxMissing", "noSandbox"},
   locks |-> IF f = "otherLocks" THEN Locks(2, f) ELSE Locks(1, f)]

MCCases ==
  {[request |-> Request(f), observation |-> Observation(f), bundle |-> Bundle(1, f),
    intact |-> f \in Harmless, refreshes |-> IF f = "none" THEN 2 ELSE 0] :
      f \in Flaws \cup Harmless}

MCRefresh == Bundle(2, "none")

-----------------------------------------------------------------------------
(* Plans: a whole baseline, with at most one flaw, and further waves *)

MCRule == [groups |-> {""}, resources |-> {"pods"}, verbs |-> {"get", "list"}]
MCSubject == [kind |-> "ServiceAccount", namespace |-> "n"]
MCLimit == [type |-> "Container", default |-> {"cpu", "memory"}, defaultRequest |-> {"cpu", "memory"}]
MCSpec(kind, f) ==
  CASE kind = "Role" ->
         [rules |-> CASE f = "noRules" -> {}
                      [] f = "wildcard" -> {MCRule, [MCRule EXCEPT !.groups = {"*"}]}
                      [] f = "deletes" -> {MCRule, [MCRule EXCEPT !.verbs = {"delete"}]}
                      [] f = "secrets" -> {[MCRule EXCEPT !.resources = {"secrets"}]}
                      [] OTHER -> {MCRule}]
    [] kind = "RoleBinding" ->
         [roleRef |-> IF f = "clusterRole" THEN "ClusterRole" ELSE "Role",
          subjects |-> CASE f = "noSubject" -> <<>>
                         [] f = "otherSubject" -> <<[MCSubject EXCEPT !.namespace = "m"]>>
                         [] OTHER -> <<MCSubject>>]
    [] kind = "NetworkPolicy" ->
         [podSelector |-> IF f = "selects" THEN {"app"} ELSE {},
          ingress |-> IF f = "letsIn" THEN <<"any">> ELSE <<>>, egress |-> <<>>,
          policyTypes |-> IF f = "ingressOnly" THEN <<"Ingress">> ELSE <<"Egress", "Ingress">>]
    [] kind = "ResourceQuota" ->
         [hard |-> {"configmaps", "limits.cpu", "limits.memory", "pods", "requests.cpu", "requests.memory"}
                   \cup (IF f = "noServices" THEN {} ELSE {"services"})]
    [] OTHER ->
         [limits |-> IF f = "noLimits" THEN <<>>
                     ELSE <<[MCLimit EXCEPT !.default = IF f = "noMemory" THEN {"cpu"} ELSE @]>>]

ManifestFlaws == {"noRules", "wildcard", "deletes", "secrets", "clusterRole", "noSubject", "otherSubject",
                  "selects", "letsIn", "ingressOnly", "noServices", "noLimits", "noMemory", "automounts",
                  "digest", "form", "identity", "scope", "name"}

MCResource(key, kind, f) ==
  [key |-> key, kind |-> kind, namespace |-> IF f = "scope" THEN "m" ELSE "n", named |-> f # "name",
   digestMatches |-> f # "digest", form |-> f # "form", identityMatches |-> f # "identity",
   spec |-> IF kind \in {"Role", "RoleBinding", "NetworkPolicy", "ResourceQuota", "LimitRange"}
            THEN MCSpec(kind, f) ELSE <<>>,
   automountServiceAccountToken |-> f = "automounts",
   data |-> IF kind = "ConfigMap" /\ f # "noData" THEN {"bundleDigest"} ELSE {}]

MCKinds == <<"LimitRange", "NetworkPolicy", "ResourceQuota", "Role", "RoleBinding", "ServiceAccount">>

\* A baseline whose resources have keys 1, 3, 5, ...
MCBaseline(kinds, f) ==
  [id |-> 2, form |-> TRUE, resources |-> [i \in 1 .. Len(kinds) |-> MCResource(2 * i - 1, kinds[i], f)]]

MCBaselines ==
  {MCBaseline(MCKinds, f) : f \in ManifestFlaws \cup {"none"}}
  \cup {MCBaseline([MCKinds EXCEPT ![i] = k], "none") : i \in 1 .. 6, k \in {"Role", "ConfigMap", "Secret"}}
  \cup {MCBaseline(Tail(MCKinds), "none"), MCBaseline(<<"ConfigMap">> \o MCKinds, "none")}

MCExtra == {MCResource(k, "ConfigMap", f) : k \in {1, 2, 4, 11}, f \in {"none", "noData", "scope"}}
MCSecond == {[id |-> i, form |-> o, resources |-> r] :
               i \in {1, 2, 3}, o \in BOOLEAN,
               r \in {<<>>} \cup {<<a>> : a \in MCExtra}
                     \cup {<<MCResource(a, "ConfigMap", "none"), MCResource(b, "ConfigMap", "none")>> :
                             a, b \in {2, 4, 5}}}
MCWaves == {<<>>} \cup {<<b>> : b \in MCBaselines}
           \cup {<<MCBaseline(MCKinds, "none"), s>> : s \in MCSecond}
           \cup {<<MCBaseline(MCKinds, "none"), [id |-> 3, form |-> TRUE, resources |-> <<MCResource(2, "ConfigMap", "none")>>], s>> :
                   s \in {t \in MCSecond : t.form}}
           \cup {<<s>> : s \in {t \in MCSecond : t.form}}
MCPlans == {[form |-> o, namespace |-> n, waves |-> w] : o \in BOOLEAN, n \in {"n", "default"}, w \in MCWaves}

=============================================================================
