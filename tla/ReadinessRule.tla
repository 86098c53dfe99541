---------------------------- MODULE ReadinessRule ----------------------------
(***************************************************************************)
(* The data of the node readiness controller and the pure decisions it     *)
(* takes on them: NodeReadinessRule specs (api/v1alpha1), the part of a    *)
(* corev1.Node the controller reads, and the helper functions of           *)
(* internal/controller that have no side effect.                           *)
(*                                                                         *)
(* A Go map[string]string is a function from its keys to strings; a taint  *)
(* is its (key, effect) pair, an opaque value (hasTaintBySpec never looks  *)
(* at the taint's value).                                                  *)
(***************************************************************************)
EXTENDS Naturals, FiniteSets, Sequences, Functions

CONSTANTS
    Nodes,          \* node names
    Rules,          \* NodeReadinessRule names
    Taints,         \* (key, effect) pairs
    CondTypes,      \* node condition types
    LabelMaps,      \* the label maps nodes and nodeSelector.matchLabels take
    Selectors,      \* the nodeSelectors of rules
    BadLabelKeys,   \* label keys that LabelSelectorAsSelector rejects
    Specs,          \* the rule specs users write
    Null            \* no object, nil

Status == {"True", "False", "Unknown"}

\* A condition a node does not report at all.
Missing == "Missing"

\* The field is optional in the CRD: "" is an omitted mode, and enforced like
\* continuous, since the code only ever asks for bootstrap-only.
EnforcementMode == {"bootstrap-only", "continuous", ""}

\* metav1.LabelSelector
Requirement ==
    [key      : STRING,
     operator : {"In", "NotIn", "Exists", "DoesNotExist"},
     values   : Seq(STRING)]

LabelSelector ==
    [matchLabels      : LabelMaps,
     matchExpressions : Seq(Requirement)]

NodeReadinessRuleSpec ==
    [conditions      : UNION {[S -> Status] : S \in SUBSET CondTypes},
     enforcementMode : EnforcementMode,
     taint           : Taints,
     nodeSelector    : Selectors,
     dryRun          : BOOLEAN]

\* What the controller sees of a node. completed holds the rules r for which
\* the node carries the annotation bootstrap-completed-<r>.
Node ==
    [labels     : LabelMaps,
     conditions : [CondTypes -> Status \union {Missing}],
     taints     : SUBSET Taints,
     completed  : SUBSET Rules]

\* A NodeReadinessRule object. Its status is a separate subresource.
Rule ==
    [spec       : Specs,
     generation : Nat \ {0},
     finalizer  : BOOLEAN,   \* cleanup-taints is among metadata.finalizers
     deleting   : BOOLEAN]   \* metadata.deletionTimestamp is set

NodeOrNull == Node \union {Null}
RuleOrNull == Rule \union {Null}
SpecOrNull == Specs \union {Null}

ASSUME SelectorsAssumption == Selectors \subseteq LabelSelector
ASSUME SpecsAssumption == Specs \subseteq NodeReadinessRuleSpec
\* Lists of objects and Go maps are finite.
ASSUME FiniteAssumption == IsFiniteSet(Nodes) /\ IsFiniteSet(CondTypes) /\ IsFiniteSet(Taints)
ASSUME LabelMapsAssumption ==
    \A labels \in LabelMaps :
        labels = [k \in DOMAIN labels |-> labels[k]] /\ IsFiniteSet(DOMAIN labels)
ASSUME NullAssumption == Null \notin Nodes \union Rules \union Specs \union Node \union Rule

-----------------------------------------------------------------------------
(* Conditions and taints of one node *)

getConditionStatus(node, type) ==
    IF node.conditions[type] = Missing THEN "Unknown" ELSE node.conditions[type]

\* ALL logic over the rule's condition requirements.
allConditionsSatisfied(spec, node) ==
    \A type \in DOMAIN spec.conditions :
        getConditionStatus(node, type) = spec.conditions[type]

hasTaintBySpec(node, spec) == spec.taint \in node.taints

\* The switch of evaluateRuleForNode.
TaintAction(spec, node) ==
    CASE  allConditionsSatisfied(spec, node) /\ hasTaintBySpec(node, spec) -> "remove"
      [] ~allConditionsSatisfied(spec, node) /\ ~hasTaintBySpec(node, spec) -> "add"
      [] OTHER -> "none"

addTaintBySpec(node, spec) == node.taints \union {spec.taint}
removeTaintBySpec(node, spec) == node.taints \ {spec.taint}

\* The taint list the controller patches in after evaluating its copy of a node.
TaintsAfter(spec, node) ==
    CASE TaintAction(spec, node) = "add"    -> addTaintBySpec(node, spec)
      [] TaintAction(spec, node) = "remove" -> removeTaintBySpec(node, spec)
      [] OTHER -> node.taints

-----------------------------------------------------------------------------
(* Selectors *)

Expressions(selector) == Range(selector.matchExpressions)

\* LabelSelectorAsSelector succeeds on nodeSelector.
ValidSelector(selector) ==
    /\ DOMAIN selector.matchLabels \intersect BadLabelKeys = {}
    /\ \A e \in Expressions(selector) :
          /\ e.key \notin BadLabelKeys
          /\ e.operator \in {"In", "NotIn"} <=> e.values # <<>>

RequirementMatches(e, labels) ==
    LET has == e.key \in DOMAIN labels
        listed == has /\ labels[e.key] \in Range(e.values)
    IN  CASE e.operator = "In"           -> listed
          [] e.operator = "NotIn"        -> ~listed
          [] e.operator = "Exists"       -> has
          [] e.operator = "DoesNotExist" -> ~has

SelectorMatches(selector, labels) ==
    /\ \A k \in DOMAIN selector.matchLabels :
          k \in DOMAIN labels /\ labels[k] = selector.matchLabels[k]
    /\ \A e \in Expressions(selector) : RequirementMatches(e, labels)

\* A selector that does not parse selects nothing.
ruleAppliesTo(spec, node) ==
    /\ ValidSelector(spec.nodeSelector)
    /\ SelectorMatches(spec.nodeSelector, node.labels)

\* Indexing a Go map with a key it does not have yields "".
MapGet(m, k) == IF k \in DOMAIN m THEN m[k] ELSE ""

stringMapEqual(a, b) ==
    /\ Cardinality(DOMAIN a) = Cardinality(DOMAIN b)
    /\ \A k \in DOMAIN a : MapGet(b, k) = a[k]

\* Expressions are compared as a set of formatted strings, one way only.
nodeSelectorChanged(current, previous) ==
    \/ ~stringMapEqual(current.matchLabels, previous.matchLabels)
    \/ Len(current.matchExpressions) # Len(previous.matchExpressions)
    \/ ~(Expressions(current) \subseteq Expressions(previous))

\* The selector as the controller writes it back. nodeSelector is required by
\* the CRD and has the JSON option omitzero, so that an empty one is left out and
\* the API server refuses the object.
EncodesSelector(selector) ==
    DOMAIN selector.matchLabels # {} \/ selector.matchExpressions # <<>>

-----------------------------------------------------------------------------
(* What the update predicate of the node controller compares *)

Present(conditions) == {t \in CondTypes : conditions[t] # Missing}

conditionsEqual(a, b) ==
    /\ Cardinality(Present(a)) = Cardinality(Present(b))
    /\ \A t \in Present(b) : t \in Present(a) /\ a[t] = b[t]

\* Mutant: compares the lengths only.
taintsEqualLengthOnly(a, b) == Cardinality(a) = Cardinality(b)

taintsEqual(a, b) ==
    /\ Cardinality(a) = Cardinality(b)
    /\ \A t \in b : t \in a

labelsEqual(a, b) ==
    /\ Cardinality(DOMAIN a) = Cardinality(DOMAIN b)
    /\ \A k \in DOMAIN a : MapGet(b, k) = a[k]
=============================================================================
