------------------------------- MODULE Cluster -------------------------------
(***************************************************************************)
(* What the controller runs against: the API server's nodes and            *)
(* NodeReadinessRules, the informers of the manager's cache, the two work  *)
(* queues, and the people and kubelets that change the objects.            *)
(*                                                                         *)
(* Every write to an object makes a new version of it. An informer         *)
(* receives the versions of an object one by one, in order and after a     *)
(* delay: nodeWatch[n] and ruleWatch[r] hold the versions it has still to  *)
(* receive, nodeStore and ruleStore its present copies, which is all that  *)
(* the client's Get and List see. A resourceVersion is not a number here:  *)
(* a copy read from the store has the current one iff nothing is left to   *)
(* be received (NodeFresh, RuleFresh), and the copy of a rule that the     *)
(* rule reconciler carries has it iff held is that rule, which every write *)
(* to the rule undoes.                                                     *)
(***************************************************************************)
EXTENDS Webhook, Integers

CONSTANTS
    InitNodes,      \* the assignments of nodes (or Null) the cluster may start with
    InitRules,      \* the assignments of rules (or Null) it may start with
    NodeTemplates,  \* what a node may look like when it joins
    ReportedStatus, \* the statuses that reporters give a condition
    LabelUpdates,   \* the label maps that people give a node later
    Quota,          \* how often each kind of event may happen
    MaxLag          \* how many versions of an object an informer may be behind

VARIABLES
    apiNode,    \* the nodes in the API server
    nodeWatch,  \* per node, the versions the informer has not received
    nodeStore,  \* the node informer's copies
    nodeQueue,  \* work queue of the node reconciler
    apiRule,    \* the rules in the API server
    ruleWatch,
    ruleStore,
    ruleQueue,
    held,       \* the rule whose current resourceVersion the rule reconciler carries
    quota       \* how often each kind of event may still happen

clusterVars == <<apiNode, nodeWatch, nodeStore, nodeQueue,
                 apiRule, ruleWatch, ruleStore, ruleQueue, held, quota>>

EventKinds == {"condition", "label", "taint", "join", "leave",
               "create", "edit", "delete", "crash", "fault"}

ASSUME QuotaAssumption == Quota \in [EventKinds -> Nat]
ASSUME MaxLagAssumption == MaxLag \in Nat \ {0}
ASSUME InitAssumption ==
    /\ InitNodes \subseteq [Nodes -> NodeOrNull]
    /\ InitRules \subseteq [Rules -> RuleOrNull]
    /\ \A rules \in InitRules, r \in Rules :
          rules[r] # Null => (rules[r].deleting => rules[r].finalizer)
ASSUME UpdateAssumption ==
    /\ NodeTemplates \subseteq Node
    /\ ReportedStatus \subseteq Status
    /\ LabelUpdates \subseteq LabelMaps

ClusterTypeOK ==
    /\ apiNode \in [Nodes -> NodeOrNull]
    /\ nodeWatch \in [Nodes -> Seq(NodeOrNull)]
    /\ nodeStore \in [Nodes -> NodeOrNull]
    /\ nodeQueue \in SUBSET Nodes
    /\ apiRule \in [Rules -> RuleOrNull]
    /\ ruleWatch \in [Rules -> Seq(RuleOrNull)]
    /\ ruleStore \in [Rules -> RuleOrNull]
    /\ ruleQueue \in SUBSET Rules
    /\ held \in Rules \union {Null}
    /\ quota \in [EventKinds -> Nat]

Existing(objects) == {x \in DOMAIN objects : objects[x] # Null}

\* The informers are synced before the reconcilers start, and every object is
\* an Added event that both predicates let through.
ClusterInit ==
    /\ apiNode \in InitNodes
    /\ nodeWatch = [n \in Nodes |-> <<>>]
    /\ nodeStore = apiNode
    /\ nodeQueue = Existing(apiNode)
    /\ apiRule \in InitRules
    /\ ruleWatch = [r \in Rules |-> <<>>]
    /\ ruleStore = apiRule
    /\ ruleQueue = Existing(apiRule)
    /\ held = Null
    /\ quota = Quota

Spend(kind) ==
    /\ quota[kind] > 0
    /\ quota' = [quota EXCEPT ![kind] = @ - 1]

-----------------------------------------------------------------------------
(* Writes. A write that changes nothing makes no version of a node. What a    *)
(* status write contains is not said here but in RuleStatus, so that it may   *)
(* or may not make a version of the rule.                                     *)
(* MaxLag keeps the watches finite: two rules that take turns to fail and to  *)
(* overwrite each other's taint lists write without bound if nothing is       *)
(* delivered in between.                                                      *)

NodeFresh(n) == nodeWatch[n] = <<>>
RuleFresh(r) == ruleWatch[r] = <<>>

WriteNode(n, node) ==
    /\ Len(nodeWatch[n]) < MaxLag
    /\ apiNode' = [apiNode EXCEPT ![n] = node]
    /\ nodeWatch' = [nodeWatch EXCEPT ![n] = IF node = apiNode[n] THEN @ ELSE Append(@, node)]

WriteRule(r, rule) ==
    /\ Len(ruleWatch[r]) < MaxLag
    /\ apiRule' = [apiRule EXCEPT ![r] = rule]
    /\ ruleWatch' = [ruleWatch EXCEPT ![r] = Append(@, rule)]
    /\ held' = IF held = r THEN Null ELSE held

nodesKept == <<apiNode, nodeWatch>>
rulesKept == <<apiRule, ruleWatch, held>>

-----------------------------------------------------------------------------
(* Informers *)

\* Mutant: forgets the taints.
NodePredicateNoTaints(old, new) ==
    \/ old = Null
    \/ new = Null
    \/ ~conditionsEqual(old.conditions, new.conditions)
    \/ ~labelsEqual(old.labels, new.labels)

\* Mutant: lets no update through.
RulePredicateNoUpdates(old, new) == old = Null \/ new = Null

\* The update predicate of the node controller; creations and deletions pass.
NodePredicate(old, new) ==
    \/ old = Null
    \/ new = Null
    \/ ~conditionsEqual(old.conditions, new.conditions)
    \/ ~taintsEqual(old.taints, new.taints)
    \/ ~labelsEqual(old.labels, new.labels)

\* GenerationChangedPredicate.
RulePredicate(old, new) ==
    \/ old = Null
    \/ new = Null
    \/ old.generation # new.generation

DeliverNode(n) ==
    /\ nodeWatch[n] # <<>>
    /\ nodeWatch' = [nodeWatch EXCEPT ![n] = Tail(@)]
    /\ nodeStore' = [nodeStore EXCEPT ![n] = Head(nodeWatch[n])]
    /\ nodeQueue' = IF NodePredicate(nodeStore[n], Head(nodeWatch[n]))
                    THEN nodeQueue \union {n} ELSE nodeQueue
    /\ UNCHANGED <<apiNode, apiRule, ruleWatch, ruleStore, ruleQueue, held, quota>>

DeliverRule(r) ==
    /\ ruleWatch[r] # <<>>
    /\ ruleWatch' = [ruleWatch EXCEPT ![r] = Tail(@)]
    /\ ruleStore' = [ruleStore EXCEPT ![r] = Head(ruleWatch[r])]
    /\ ruleQueue' = IF RulePredicate(ruleStore[r], Head(ruleWatch[r]))
                    THEN ruleQueue \union {r} ELSE ruleQueue
    /\ UNCHANGED <<apiNode, nodeWatch, nodeStore, nodeQueue, apiRule, held, quota>>

-----------------------------------------------------------------------------
(* Kubelets, condition reporters and people *)

NodeEvent(kind, n, node) ==
    /\ Spend(kind)
    /\ node # apiNode[n]
    /\ WriteNode(n, node)
    /\ UNCHANGED <<nodeStore, nodeQueue, rulesKept, ruleStore, ruleQueue>>

RuleEvent(kind, r, rule) ==
    /\ Spend(kind)
    /\ WriteRule(r, rule)
    /\ UNCHANGED <<nodesKept, nodeStore, nodeQueue, ruleStore, ruleQueue>>

SetCondition(n) ==
    /\ apiNode[n] # Null
    /\ \E type \in CondTypes, status \in ReportedStatus :
          NodeEvent("condition", n, [apiNode[n] EXCEPT !.conditions[type] = status])

SetLabels(n) ==
    /\ apiNode[n] # Null
    /\ \E labels \in LabelUpdates :
          NodeEvent("label", n, [apiNode[n] EXCEPT !.labels = labels])

\* Somebody else adds or removes a taint.
ToggleTaint(n) ==
    /\ apiNode[n] # Null
    /\ \E t \in Taints :
          NodeEvent("taint", n, [apiNode[n] EXCEPT !.taints =
                                    IF t \in @ THEN @ \ {t} ELSE @ \union {t}])

JoinNode(n) ==
    /\ apiNode[n] = Null
    /\ \E node \in NodeTemplates : NodeEvent("join", n, node)

LeaveNode(n) ==
    /\ apiNode[n] # Null
    /\ NodeEvent("leave", n, Null)

CreateRule(r) ==
    /\ apiRule[r] = Null
    /\ \E spec \in Specs :
          /\ MayAdmit(ruleStore, r, spec, FALSE)
          /\ RuleEvent("create", r, [spec |-> spec, generation |-> 1,
                                     finalizer |-> FALSE, deleting |-> FALSE])

EditRule(r) ==
    /\ apiRule[r] # Null
    /\ \E spec \in Specs \ {apiRule[r].spec} :
          /\ MayAdmit(ruleStore, r, spec, TRUE)
          /\ RuleEvent("edit", r, [apiRule[r] EXCEPT !.spec = spec, !.generation = @ + 1])

\* With a finalizer the object stays, marked for deletion.
DeleteRule(r) ==
    /\ apiRule[r] # Null
    /\ ~apiRule[r].deleting
    /\ RuleEvent("delete", r,
                 IF apiRule[r].finalizer
                 THEN [apiRule[r] EXCEPT !.deleting = TRUE, !.generation = @ + 1]
                 ELSE Null)

EnvironmentNext ==
    \/ \E n \in Nodes :
          \/ SetCondition(n)
          \/ SetLabels(n)
          \/ ToggleTaint(n)
          \/ JoinNode(n)
          \/ LeaveNode(n)
    \/ \E r \in Rules :
          \/ CreateRule(r)
          \/ EditRule(r)
          \/ DeleteRule(r)

InformerNext ==
    \/ \E n \in Nodes : DeliverNode(n)
    \/ \E r \in Rules : DeliverRule(r)
=============================================================================
