---------------------------- MODULE RbacSnapshot ----------------------------
(* The observer's judgement of one read of the cluster's RBAC objects         *)
(* (observe.rs check_snapshot up to the role pin): the lists are complete     *)
(* (inputs.rs), their expansion is bounded, the producer (rbac.rs) turns them *)
(* into a snapshot of each subject's effective rules, the closure             *)
(* (snapshot.rs) admits only the identities and grants it names, and the role *)
(* pin (observer_rbac.rs) holds the observer's own account to its contract.   *)
(* Beside it runs the cluster's aggregation controller, which rewrites the    *)
(* rules of aggregated ClusterRoles at any time.                              *)
(*                                                                            *)
(* A resource is <<base, subresource>>, so `*' is <<"*", "">> and `*/exec'    *)
(* <<"*", "exec">>; a name is <<"", "", name>>, or the username               *)
(* <<PREFIX, namespace, name>> of a service account.  Bindings are named by   *)
(* numbers, the order of their names.  The observer stops alike at each       *)
(* refusal of the producer, the closure and the pin, so which of their rules  *)
(* a read breaks first is left out.                                           *)
EXTENDS Integers, Sequences, SequencesExt, FiniteSets, Functions, FiniteSetsExt, TLC

CONSTANTS Namespace,          \* the signed configuration's qualification namespace
          SpaceOrder,         \* the namespaces, in the order of their names
          SystemNamespaces, ProtectedNamespaces,
          Unstripped,         \* the names with white space at an end
          POLICY_RESOURCES, STATUS_RESOURCES, WORKLOAD_RESOURCES,   \* sets of <<group, resource>>
          SPECIAL_TARGETS,    \* of <<group, resource>>, its verbs
          WRITE_VERBS, WORKLOAD_VERBS,
          ImpersonateModes,   \* the verbs `impersonate:<mode>' and `impersonate-on:<..>'
          Entries,            \* of a subject, its entry of the identity closure
          Accounts,           \* the names of the writer inventory's controller accounts
          Bootstrap,          \* of a subject, its rules of the bootstrap RBAC
          OBSERVER_RULES,     \* the contract role's rules, in order
          EXPANSION_CAP,
          Clusters,           \* the RBAC objects a cluster may hold
          ApiRequests            \* what a subject may ask of the apiserver

VARIABLES cluster,     \* the RBAC objects as they stand
          read,        \* those the observer's read was made of
          verdict

rbacVars == <<cluster, read, verdict>>

CLUSTER == "CLUSTER"
PREFIX == "system:serviceaccount"
Name(name) == <<"", "", name>>
Username(space, name) == <<PREFIX, space, name>>

User(name) == [kind |-> "User", name |-> Name(name)]
LOOPBACK_USER == User("system:apiserver")
OBSERVER_USER == User("planeon:policy-observer")
ROLE_NAME == "planeon:policy-observer"
BINDING_NAME == 1

-----------------------------------------------------------------------------
(* The lists of a read: inputs.rs *)

\* A page of the RoleBindings: the apiserver may answer with the first n of them.
Page(objects, n) == [objects EXCEPT !.roleBindings = SubSeq(@, 1, n)]

NoneTwice(list) ==
  \A i, j \in DOMAIN list : list[i].name = list[j].name /\ list[i].space = list[j].space => i = j

InScope(list, namespaced) == \A i \in DOMAIN list : (list[i].space # "") = namespaced

\* Mutant: a page is taken for the whole list.
ListsCompletePaged(objects, n) ==
  /\ InScope(objects.clusterRoles, FALSE) /\ InScope(objects.roles, TRUE)
  /\ InScope(objects.clusterBindings, FALSE) /\ InScope(objects.roleBindings, TRUE)
  /\ NoneTwice(objects.clusterRoles) /\ NoneTwice(objects.roles)
  /\ NoneTwice(objects.clusterBindings) /\ NoneTwice(objects.roleBindings)

\* Every list is its whole list, its items are of its scope, and none is there
\* twice.  The list's kind and the shape of an item's metadata are data.
ListsComplete(objects, n) ==
  /\ n = Len(objects.roleBindings)
  /\ InScope(objects.clusterRoles, FALSE) /\ InScope(objects.roles, TRUE)
  /\ InScope(objects.clusterBindings, FALSE) /\ InScope(objects.roleBindings, TRUE)
  /\ NoneTwice(objects.clusterRoles) /\ NoneTwice(objects.roles)
  /\ NoneTwice(objects.clusterBindings) /\ NoneTwice(objects.roleBindings)

Bindings(objects) == objects.clusterBindings \o objects.roleBindings

\* The role that a binding refers to, none or one: a Role of its own namespace or a ClusterRole.
Resolve(objects, binding) ==
  IF binding.ref.kind = "Role" /\ binding.space # ""
  THEN SelectSeq(objects.roles, LAMBDA r : r.name = binding.ref.name /\ r.space = binding.space)
  ELSE SelectSeq(objects.clusterRoles, LAMBDA r : r.name = binding.ref.name)

-----------------------------------------------------------------------------
(* observe.rs expansion_weight; each text is taken to have 1 to 64 bytes *)

Total(numbers) == FoldSeq(LAMBDA x, y : x + y, 0, numbers)

RuleWeight(rule) ==
  1 + 2 * (Len(rule.groups) + Len(rule.resources) + Len(rule.verbs) + Len(rule.names) + Len(rule.urls))
RoleWeight(role) == Total([i \in DOMAIN role.rules |-> RuleWeight(role.rules[i])])

\* What a subject of the binding adds: nothing for a role that is not there,
\* and for a Role that a ClusterRoleBinding refers to.
ReferredWeight(objects, b) ==
  LET role == Resolve(objects, b)
  IN IF role = <<>> \/ (b.ref.kind = "Role" /\ b.space = "") THEN 0 ELSE RoleWeight(role[1])

\* Mutant: a role counts once, however many subjects are bound to it.
ExpansionWeightOnce(objects) ==
  LET bindings == Bindings(objects)
  IN Total([i \in DOMAIN bindings |-> Len(bindings[i].subjects) + ReferredWeight(objects, bindings[i])])

ExpansionWeight(objects) ==
  LET bindings == Bindings(objects)
  IN Total([i \in DOMAIN bindings |-> Len(bindings[i].subjects) * (1 + ReferredWeight(objects, bindings[i]))])

-----------------------------------------------------------------------------
(* The producer: rbac.rs produce_snapshot *)

NonResource(rule) == rule.urls # <<>>

\* A rule with non-resource URLs beside resources is malformed.
RoleRulesMalformed(role) ==
  role.malformed \/ \E i \in DOMAIN role.rules : NonResource(role.rules[i]) /\ role.rules[i].resources # <<>>

\* A service account without a namespace is in its binding's namespace.
SubjectSpace(binding, subject) == IF subject.space # "" THEN subject.space ELSE binding.space

SubjectKey(binding, subject) ==
  [kind |-> subject.kind,
   name |-> IF subject.kind = "ServiceAccount" THEN Username(SubjectSpace(binding, subject), subject.name[3])
            ELSE subject.name]

BindingMalformed(binding) ==
  \/ binding.malformed
  \/ binding.ref.kind \notin {"ClusterRole", "Role"} \/ (binding.ref.kind = "Role" /\ binding.space = "")
  \/ \E i \in DOMAIN binding.subjects :
       binding.subjects[i].kind = "ServiceAccount" /\ SubjectSpace(binding, binding.subjects[i]) = ""

\* Mutant: only a RoleBinding in the qualification namespace is taken to reach it.
AggregatedReachesThere(binding, role) == role.aggregation.present /\ binding.space = Namespace

\* OR03: an aggregated ClusterRole reaches the qualification namespace.
AggregatedReaches(binding, role) == role.aggregation.present /\ binding.space \in {"", Namespace}

\* R1-7: a binding that names the loopback user grants a non-resource URL.
LoopbackNonResource(binding, role) ==
  /\ \E i \in DOMAIN binding.subjects : SubjectKey(binding, binding.subjects[i]) = LOOPBACK_USER
  /\ \E i \in DOMAIN role.rules : NonResource(role.rules[i])

ProducerRefuses(objects) ==
  \/ \E list \in {objects.clusterRoles, objects.roles} : \E i \in DOMAIN list : RoleRulesMalformed(list[i])
  \/ \E i \in DOMAIN Bindings(objects) :
       LET binding == Bindings(objects)[i]
           role == Resolve(objects, binding)
       IN \/ BindingMalformed(binding) \/ role = <<>>
          \/ AggregatedReaches(binding, role[1]) \/ LoopbackNonResource(binding, role[1])

\* The ClusterRoleBindings by name, then the RoleBindings by namespace and name.
SpaceRank(space) == IF space = "" THEN 0 ELSE CHOOSE i \in DOMAIN SpaceOrder : SpaceOrder[i] = space
Before(left, right) ==
  \/ SpaceRank(left.space) < SpaceRank(right.space)
  \/ SpaceRank(left.space) = SpaceRank(right.space) /\ left.name < right.name

Exists(objects, key) == key.kind = "ServiceAccount" => <<key.name[2], key.name[3]>> \in objects.accounts

\* What one binding grants: its role's resource rules at its scope, to each of its subjects.
Granted(objects, binding) ==
  LET rules == SelectSeq(Resolve(objects, binding)[1].rules, LAMBDA rule : ~NonResource(rule))
      scope == IF binding.space = "" THEN CLUSTER ELSE binding.space
      scoped == [i \in DOMAIN rules |->
                   [groups |-> rules[i].groups, resources |-> rules[i].resources, verbs |-> rules[i].verbs,
                    names |-> rules[i].names, scope |-> scope]]
  IN [i \in DOMAIN binding.subjects |-> [key |-> SubjectKey(binding, binding.subjects[i]), rules |-> scoped]]

\* One entry per subject, with the union of its bindings' rules in order.
ProduceSnapshot(objects) ==
  LET bindings == SortSeq(Bindings(objects), Before)
      granted == FlattenSeq([i \in DOMAIN bindings |-> Granted(objects, bindings[i])])
      rulesOf(key) == FlattenSeq([i \in DOMAIN granted |-> IF granted[i].key = key THEN granted[i].rules ELSE <<>>])
  IN [key \in {granted[i].key : i \in DOMAIN granted} |-> [exists |-> Exists(objects, key), rules |-> rulesOf(key)]]

-----------------------------------------------------------------------------
(* The closure: snapshot.rs Closure::check *)

Stripped(name) == name[3] \notin Unstripped

\* A dedicated namespace, whose name is a DNS label.
DedicatedNamespace == Namespace \notin SystemNamespaces \cup Unstripped

\* `*' matches everything and `*/sub' every <resource>/sub; a target that ends
\* in `/*' is matched by any of its subresources.
Covers(held, target) ==
  \/ held = <<"*", "">> \/ held = target
  \/ target[2] = "*" /\ held[1] \in {target[1], "*"} /\ held[2] # ""
  \/ target[2] \notin {"", "*"} /\ held = <<"*", target[2]>>

IsSpecial(verb, verbs) == verb = "*" \/ verb \in verbs \/ ("impersonate" \in verbs /\ verb \in ImpersonateModes)

TablePairs == POLICY_RESOURCES \cup STATUS_RESOURCES \cup WORKLOAD_RESOURCES \cup DOMAIN SPECIAL_TARGETS

\* The categories that a verb on a resource of the tables falls in.
Categories(pair, verb, scope) ==
  (IF pair \in DOMAIN SPECIAL_TARGETS /\ IsSpecial(verb, SPECIAL_TARGETS[pair]) THEN {"SPECIAL"} ELSE {})
  \cup (IF verb \notin WRITE_VERBS \cup {"*"} THEN {}
        ELSE IF pair \in POLICY_RESOURCES THEN {"POLICY_WRITE"}
        ELSE IF pair \in STATUS_RESOURCES THEN {"STATUS_WRITE"} ELSE {})
  \cup (IF /\ pair \in WORKLOAD_RESOURCES /\ verb \in WORKLOAD_VERBS \cup {"*"}
           /\ scope \in ProtectedNamespaces \cup {CLUSTER}
        THEN {"WORKLOAD"} ELSE {})

Row(category, pair, verb, scope) == [category |-> category, target |-> pair, verb |-> verb, scope |-> scope]
ALL == Row("ALL", <<"", <<"", "">>>>, "", "")

\* The policy-relevant grants of one rule.
Grants(rule) ==
  LET pairs == {p \in TablePairs : /\ ToSet(rule.groups) \cap {"*", p[1]} # {}
                                   /\ \E held \in ToSet(rule.resources) : Covers(held, p[2])}
  IN UNION {{Row(category, p, verb, rule.scope) : category \in Categories(p, verb, rule.scope)} :
              p \in pairs, verb \in ToSet(rule.verbs)}

Held(rules) == UNION {Grants(rules[i]) : i \in DOMAIN rules}

\* A row at CLUSTER covers every scope; QUALIFICATION_NAMESPACE stands for the namespace.
Allowed(grant, rows) ==
  \/ ALL \in rows
  \/ \E row \in rows :
       LET at == IF row.scope = "QUALIFICATION_NAMESPACE" THEN Namespace ELSE row.scope
       IN [row EXCEPT !.scope = grant.scope] = grant /\ at \in {grant.scope, CLUSTER}

\* A controller's account that is absent may keep what its bootstrap role grants.
DormantWithin(key, held) ==
  LET baseline == IF key \in DOMAIN Bootstrap THEN Held(Bootstrap[key]) ELSE {}
  IN \A grant \in held :
       Allowed(grant, baseline) /\ (key \in DOMAIN Entries => Allowed(grant, Entries[key].allowed))

\* IC04: escalate and bind only on the roles that the entry names.
BeyondNames(entry, rule) ==
  /\ entry.named
  /\ \E grant \in Grants(rule) : grant.category = "SPECIAL" /\ grant.verb \in {"escalate", "bind", "*"}
  /\ rule.names = <<>> \/ ~(ToSet(rule.names) \subseteq entry.names)

SubjectPasses(key, subject) ==
  LET held == Held(subject.rules) IN
    /\ Stripped(key.name) /\ ((key.kind = "ServiceAccount") = (key.name[1] = PREFIX))
    /\ \/ held = {}
       \/ IF key.kind = "ServiceAccount" /\ ~subject.exists /\ key.name \in Accounts THEN DormantWithin(key, held)
          ELSE /\ key \in DOMAIN Entries /\ subject.exists
               /\ \A grant \in held : Allowed(grant, Entries[key].allowed)
               /\ \A i \in DOMAIN subject.rules : ~BeyondNames(Entries[key], subject.rules[i])

\* IC00 to IC05, and I06 v2's rule: the loopback user holds no rule at all.
ClosurePasses(snapshot) ==
  /\ DedicatedNamespace
  /\ \A key \in DOMAIN snapshot : SubjectPasses(key, snapshot[key])
  /\ \A key \in DOMAIN Entries : Entries[key].mustBePresent => key \in DOMAIN snapshot
  /\ LOOPBACK_USER \in DOMAIN snapshot => snapshot[LOOPBACK_USER].rules = <<>>

-----------------------------------------------------------------------------
(* The role pin: observer_rbac.rs check_observer_snapshot *)

\* RB05: the observer's effective rules are the contract's resource rules, in order.
EffectiveRulesExact(snapshot) ==
  LET wanted == SelectSeq(OBSERVER_RULES, LAMBDA rule : rule.resources # <<>>)
  IN /\ OBSERVER_USER \in DOMAIN snapshot
     /\ snapshot[OBSERVER_USER].rules =
          [i \in DOMAIN wanted |-> [groups |-> wanted[i].groups, resources |-> wanted[i].resources,
                                    verbs |-> wanted[i].verbs, names |-> <<>>, scope |-> CLUSTER]]

\* The places in a list of the items of that name.
WithName(list, name) == {i \in DOMAIN list : list[i].name = name}

\* RB01 and RB02: one role of the name, with no member or metadata of its own, and the rules.
RoleIsContract(role) == ~role.aggregation.present /\ ~role.labelled /\ role.rules = OBSERVER_RULES

\* RB03 and RB04: its binding, with one subject.
BindingIsContract(binding) ==
  /\ ~binding.extra /\ binding.ref = [kind |-> "ClusterRole", name |-> ROLE_NAME]
  /\ binding.subjects = <<[kind |-> "User", name |-> OBSERVER_USER.name, space |-> ""]>>

\* RB06 and RB07 on another binding.
BindingApart(binding) ==
  /\ \A i \in DOMAIN binding.subjects :
       ~(binding.subjects[i].kind = "User" /\ binding.subjects[i].name = OBSERVER_USER.name)
  /\ ~(binding.ref.kind = "ClusterRole" /\ binding.ref.name = ROLE_NAME)

\* A selector picks up an object without labels, or cannot be read.
SelectsUnlabeled(selector) ==
  \/ ~selector.readable
  \/ ~selector.labels /\ ToSet(selector.operators) \subseteq {"NotIn", "DoesNotExist"}

RolePinPasses(objects, snapshot) ==
  LET roles == WithName(objects.clusterRoles, ROLE_NAME)
      bindings == WithName(objects.clusterBindings, BINDING_NAME)
  IN /\ EffectiveRulesExact(snapshot)
     /\ Cardinality(roles) = 1 /\ \A i \in roles : RoleIsContract(objects.clusterRoles[i])
     /\ Cardinality(bindings) = 1 /\ \A i \in bindings : BindingIsContract(objects.clusterBindings[i])
     /\ \A i \in DOMAIN objects.clusterBindings \ bindings : BindingApart(objects.clusterBindings[i])
     /\ \A i \in DOMAIN objects.roleBindings : BindingApart(objects.roleBindings[i])
     /\ \A i \in DOMAIN objects.clusterRoles \ roles :
          LET aggregation == objects.clusterRoles[i].aggregation
          IN aggregation.present =>
               \A s \in DOMAIN aggregation.selectors : ~SelectsUnlabeled(aggregation.selectors[s])

-----------------------------------------------------------------------------
(* The steps *)

Unjudged == read = cluster /\ verdict = "none"
RbacInit == cluster \in Clusters /\ Unjudged

\* observe.rs check_snapshot: the exits Inputs, Expansion and Rbac, or a read that passes.
CheckSnapshot(n) ==
  LET lists == Page(cluster, n) IN
    /\ verdict = "none"
    /\ read' = cluster
    /\ verdict' =
         CASE ~ListsComplete(cluster, n) -> "Inputs"
           [] ListsComplete(cluster, n) /\ ExpansionWeight(lists) > EXPANSION_CAP -> "Expansion"
           [] OTHER ->
                IF ProducerRefuses(lists) THEN "Rbac"
                ELSE LET snapshot == ProduceSnapshot(lists)
                     IN IF ClosurePasses(snapshot) /\ RolePinPasses(lists, snapshot) THEN "passed" ELSE "Rbac"
    /\ UNCHANGED cluster

\* The aggregation controller gives an aggregated ClusterRole the rules of
\* every other ClusterRole that a selector of its picks up.
Picks(selector, role) ==
  /\ selector.labels => role.labelled
  /\ \A operator \in ToSet(selector.operators) : role.labelled = (operator \in {"In", "Exists"})

Aggregate(i) ==
  LET roles == cluster.clusterRoles
      picked(j) == j # i /\ \E s \in DOMAIN roles[i].aggregation.selectors : Picks(roles[i].aggregation.selectors[s], roles[j])
  IN /\ roles[i].aggregation.present
     /\ cluster' = [cluster EXCEPT !.clusterRoles[i].rules =
                      FlattenSeq([j \in DOMAIN roles |-> IF picked(j) THEN roles[j].rules ELSE <<>>])]
     /\ UNCHANGED <<read, verdict>>

RbacNext ==
  \/ \E n \in 0 .. Len(cluster.roleBindings) : CheckSnapshot(n)
  \/ \E i \in DOMAIN cluster.clusterRoles : Aggregate(i)

RbacSpec == RbacInit /\ [][RbacNext]_rbacVars

-----------------------------------------------------------------------------
(* What the cluster's authorizer lets a subject do, stated on the objects themselves *)

\* A request is [group, resource, verb, space, name], of a non-resource URL with the group "URL".
RuleCovers(rule, request) ==
  /\ ToSet(rule.verbs) \cap {"*", request.verb} # {}
  /\ IF request.group = "URL" THEN \E url \in ToSet(rule.urls) : url \in {"*", request.name}
     ELSE /\ ToSet(rule.groups) \cap {"*", request.group} # {}
          /\ \E held \in ToSet(rule.resources) :
               \/ held \in {<<"*", "">>, request.resource}
               \/ request.resource[2] # "" /\ held = <<"*", request.resource[2]>>
          /\ rule.names = <<>> \/ request.name \in ToSet(rule.names)

\* A username is matched by a User subject and by a ServiceAccount subject.
Names(binding, subject, who) ==
  IF who.kind = "Group" THEN subject.kind = "Group" /\ subject.name = who.name
  ELSE subject.kind # "Group" /\ SubjectKey(binding, subject).name = who.name

Authorizes(objects, who, request) ==
  \E i \in DOMAIN Bindings(objects) :
    LET binding == Bindings(objects)[i] IN
      /\ binding.space \in {"", request.space} /\ (request.group = "URL" => binding.space = "")
      /\ \E s \in DOMAIN binding.subjects : Names(binding, binding.subjects[s], who)
      /\ \E r \in DOMAIN Resolve(objects, binding) :
           \E k \in DOMAIN Resolve(objects, binding)[r].rules : RuleCovers(Resolve(objects, binding)[r].rules[k], request)

Subjects(objects) ==
  UNION {{SubjectKey(Bindings(objects)[i], Bindings(objects)[i].subjects[s]) : s \in DOMAIN Bindings(objects)[i].subjects} :
           i \in DOMAIN Bindings(objects)}

\* The row of the tables that a request falls in; a user's extra keys have one row.
PairOf(request) ==
  <<request.group, IF <<request.group, <<request.resource[1], "*">>>> \in TablePairs /\ request.resource[2] # ""
                   THEN <<request.resource[1], "*">> ELSE request.resource>>

Permits(rows, category, request) ==
  \/ ALL \in rows
  \/ \E row \in rows : /\ row.category = category /\ row.target = PairOf(request) /\ row.verb \in {"*", request.verb}
                       /\ row.scope \in {CLUSTER, request.space}
                            \cup (IF request.space = Namespace THEN {"QUALIFICATION_NAMESPACE"} ELSE {})

\* What a policy-relevant request may rest on: the closure's entry of the
\* account, with the roles it names, or a dormant controller's bootstrap role.
Rests(objects, who, category, request) ==
  \/ /\ who \in DOMAIN Entries /\ Exists(objects, who) /\ Permits(Entries[who].allowed, category, request)
     /\ Entries[who].named /\ request.verb \in {"escalate", "bind"} => request.name \in Entries[who].names
  \/ /\ who.name \in Accounts /\ ~Exists(objects, who)
     /\ \E i \in DOMAIN Bootstrap[who] :
          /\ RuleCovers([urls |-> <<>>] @@ [Bootstrap[who][i] EXCEPT !.names = <<>>], request)
          /\ Bootstrap[who][i].scope \in {CLUSTER, request.space}

\* A read that passes confines the cluster, though the answer came in pages and
\* roles are aggregated later.  Whatever the authorizer lets a subject do that
\* can change a policy fact, take another identity's authority or run code in a
\* protected namespace rests on the closure; the observer may do what its
\* contract says and no more, then and later; the loopback user may do nothing;
\* no later aggregation changes what reaches the qualification namespace or
\* spreads the contract role's rules; and the snapshot is no larger than the
\* expansion guard allows.
PassedIsConfined ==
  verdict = "passed" =>
    /\ \A who \in Subjects(read), request \in ApiRequests :
         /\ request.group # "URL" /\ Authorizes(read, who, request) =>
              \A category \in Categories(PairOf(request), request.verb, request.space) :
                Rests(read, who, category, request)
         /\ request.space \in {CLUSTER, Namespace} =>
              Authorizes(cluster, who, request) = Authorizes(read, who, request)
    /\ \A request \in ApiRequests :
         /\ ~Authorizes(read, LOOPBACK_USER, request)
         /\ Authorizes(cluster, OBSERVER_USER, request) =
              \E i \in DOMAIN OBSERVER_RULES : RuleCovers(OBSERVER_RULES[i], request)
    /\ \A i \in DOMAIN cluster.clusterRoles :
         \A rule \in ToSet(cluster.clusterRoles[i].rules) \ ToSet(read.clusterRoles[i].rules) :
           \E j \in DOMAIN read.clusterRoles : read.clusterRoles[j].name # ROLE_NAME /\ rule \in ToSet(read.clusterRoles[j].rules)
    /\ LET snapshot == ProduceSnapshot(read)
           size(key) == Total([i \in DOMAIN snapshot[key].rules |-> RuleWeight([urls |-> <<>>] @@ snapshot[key].rules[i])])
       IN MapThenSumSet(LAMBDA key : 1 + size(key), DOMAIN snapshot) <= EXPANSION_CAP
=============================================================================
