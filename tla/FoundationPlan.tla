--------------------------- MODULE FoundationPlan ---------------------------
(* The validation of a foundation plan (internal/controller/foundation/      *)
(* plan.go): the loop of ValidatePlan over waves and resources, with the map *)
(* of the identities it has seen and the kinds it has counted, and the rules *)
(* for each kind of manifest.                                                *)
(*                                                                           *)
(* Wave ids and identity keys are naturals, ordered as the strings are; 0 is *)
(* the empty string the loops start from.  A string or digest pattern, the   *)
(* exact keys of an object and its canonical encoding are a "form" that      *)
(* holds or does not.                                                        *)
EXTENDS Naturals, Sequences

CONSTANTS PlansGiven,    \* the plans that may be given
          Baseline       \* the wave id "foundation-baseline"

ASSUME PlansAssumption ==
  /\ Baseline \in Nat \ {0}
  /\ \A p \in PlansGiven :
       /\ Len(p.waves) \in Nat
       /\ \A w \in 1 .. Len(p.waves) :
            /\ p.waves[w].id \in Nat /\ Len(p.waves[w].resources) \in Nat
            /\ \A r \in 1 .. Len(p.waves[w].resources) : p.waves[w].resources[r].key \in Nat

VARIABLES plan, at, wave, resource, previousWave, previousResource,
          identities, baseline

planVars == <<plan, at, wave, resource, previousWave, previousResource,
              identities, baseline>>

required == {"LimitRange", "NetworkPolicy", "ResourceQuota", "Role",
             "RoleBinding", "ServiceAccount"}

-----------------------------------------------------------------------------
(* validateManifest, by kind *)

\* Lists that must be sorted and without duplicates are sets.
validateRole(spec) ==
  /\ spec.rules # {}
  /\ \A rule \in spec.rules :
       /\ "*" \notin rule.groups \cup rule.resources \cup rule.verbs
       /\ rule.verbs \cap {"delete", "deletecollection", "bind", "escalate",
                           "impersonate"} = {}
       /\ rule.resources \cap {"secrets", "serviceaccounts/token", "pods/exec"} = {}

\* One subject, a ServiceAccount of the same namespace.
validateRoleBinding(spec, namespace) ==
  /\ spec.roleRef = "Role"
  /\ Len(spec.subjects) = 1
  /\ spec.subjects[1].kind = "ServiceAccount" /\ spec.subjects[1].namespace = namespace

\* Every pod is selected, and nothing is let in or out.
validateNetworkPolicy(spec) ==
  /\ spec.podSelector = {} /\ spec.ingress = <<>> /\ spec.egress = <<>>
  /\ spec.policyTypes = <<"Egress", "Ingress">>

\* What is given is given a value.
validateResourceQuota(spec) ==
  spec.hard = {"configmaps", "limits.cpu", "limits.memory", "pods", "requests.cpu",
               "requests.memory", "services"}

validateLimitRange(spec) ==
  /\ Len(spec.limits) = 1
  /\ spec.limits[1].type = "Container"
  /\ spec.limits[1].default = {"cpu", "memory"}
  /\ spec.limits[1].defaultRequest = {"cpu", "memory"}

validateConfigMap(data) ==
  data # {} /\ data \subseteq {"bundleDigest", "profileDigest", "releaseDigest"}

\* The kind stands for API version and kind together.
validateManifest(r) ==
  /\ r.digestMatches /\ r.form
  /\ r.identityMatches
  /\ CASE r.kind = "ServiceAccount" -> ~r.automountServiceAccountToken
       [] r.kind = "ConfigMap" -> validateConfigMap(r.data)
       [] r.kind = "NetworkPolicy" -> validateNetworkPolicy(r.spec)
       [] r.kind = "ResourceQuota" -> validateResourceQuota(r.spec)
       [] r.kind = "LimitRange" -> validateLimitRange(r.spec)
       [] r.kind = "Role" -> validateRole(r.spec)
       [] r.kind = "RoleBinding" -> validateRoleBinding(r.spec, r.namespace)
       [] OTHER -> FALSE

-----------------------------------------------------------------------------
(* ValidatePlan *)

Wave == plan.waves[wave]
Resource == Wave.resources[resource]

Refused ==
  /\ at' = "refused"
  /\ UNCHANGED <<plan, wave, resource, previousWave, previousResource,
                 identities, baseline>>

PlanInit ==
  /\ plan \in PlansGiven
  /\ at = "plan"
  /\ wave = 1 /\ resource = 1
  /\ previousWave = 0 /\ previousResource = 0
  /\ identities = {}
  /\ baseline = [kind \in required |-> 0]

\* Identity, namespace, bindings and the first wave.
CheckPlan ==
  /\ at = "plan"
  /\ IF plan.form /\ plan.namespace # "default" /\ Len(plan.waves) > 0
          /\ plan.waves[1].id = Baseline
     THEN at' = "wave" /\ UNCHANGED <<plan, wave, resource, previousWave,
                                      previousResource, identities, baseline>>
     ELSE Refused

EnterWave ==
  /\ at = "wave" /\ wave <= Len(plan.waves)
  /\ IF Wave.form /\ Wave.id > previousWave /\ Len(Wave.resources) > 0
     THEN /\ at' = "resource"
          /\ resource' = 1
          /\ previousWave' = Wave.id
          /\ previousResource' = 0
          /\ UNCHANGED <<plan, wave, identities, baseline>>
     ELSE Refused

\* What keeping the map of identities for one wave only would do.
CheckResourceInWave ==
  /\ at = "resource" /\ resource <= Len(Wave.resources)
  /\ IF /\ Resource.key > previousResource
        /\ Resource.namespace = plan.namespace /\ Resource.named
        /\ validateManifest(Resource)
     THEN /\ previousResource' = Resource.key
          /\ identities' = identities \cup {Resource.key}
          /\ baseline' = IF Wave.id = Baseline /\ Resource.kind \in required
                         THEN [baseline EXCEPT ![Resource.kind] = @ + 1]
                         ELSE baseline
          /\ resource' = resource + 1
          /\ UNCHANGED <<plan, at, wave, previousWave>>
     ELSE Refused

CheckResource ==
  /\ at = "resource" /\ resource <= Len(Wave.resources)
  /\ IF /\ Resource.key > previousResource
        /\ Resource.key \notin identities
        /\ Resource.namespace = plan.namespace /\ Resource.named
        /\ validateManifest(Resource)
     THEN /\ previousResource' = Resource.key
          /\ identities' = identities \cup {Resource.key}
          /\ baseline' = IF Wave.id = Baseline /\ Resource.kind \in required
                         THEN [baseline EXCEPT ![Resource.kind] = @ + 1]
                         ELSE baseline
          /\ resource' = resource + 1
          /\ UNCHANGED <<plan, at, wave, previousWave>>
     ELSE Refused

LeaveWave ==
  /\ at = "resource" /\ resource > Len(Wave.resources)
  /\ at' = "wave"
  /\ wave' = wave + 1
  /\ UNCHANGED <<plan, resource, previousWave, previousResource, identities,
                 baseline>>

CheckBaseline ==
  /\ at = "wave" /\ wave > Len(plan.waves)
  /\ IF /\ Len(plan.waves[1].resources) = 6
        /\ \A kind \in required : baseline[kind] = 1
     THEN at' = "accepted" /\ UNCHANGED <<plan, wave, resource, previousWave,
                                          previousResource, identities, baseline>>
     ELSE Refused

PlanNext == CheckPlan \/ EnterWave \/ CheckResource \/ LeaveWave \/ CheckBaseline

PlanSpec == PlanInit /\ [][PlanNext]_planVars

-----------------------------------------------------------------------------
(* Properties *)

Sizes(w) == 1 .. Len(plan.waves[w].resources)
At(w, r) == plan.waves[w].resources[r]

\* No identity twice, in one wave or in two.
Distinct ==
  \A v, w \in 1 .. Len(plan.waves) : \A r \in Sizes(v), s \in Sizes(w) :
    At(v, r).key = At(w, s).key => v = w /\ r = s

\* The first wave holds each required kind exactly once, and nothing else.
BaselineComplete ==
  /\ Len(plan.waves[1].resources) = 6
  /\ \A kind \in required :
       /\ \E r \in Sizes(1) : At(1, r).kind = kind
       /\ \A r, s \in Sizes(1) : At(1, r).kind = kind /\ At(1, s).kind = kind => r = s

\* What the reconciler rests on when it walks a plan by a cursor and looks its
\* applied identities up again: no identity occurs twice, the baseline comes
\* first and whole, no wave is empty, and nothing leaves the target namespace.
AcceptedIsSound ==
  at = "accepted" =>
    /\ Distinct
    /\ Len(plan.waves) > 0 /\ BaselineComplete
    /\ \A w \in 1 .. Len(plan.waves) :
         Len(plan.waves[w].resources) > 0
           /\ \A r \in Sizes(w) : At(w, r).namespace = plan.namespace
=============================================================================
