---------------------------- MODULE WakeupProofs ----------------------------
(***************************************************************************)
(* Neither reconciler polls; still no node that is not as a cached rule    *)
(* wants it is ever forgotten.                                             *)
(***************************************************************************)
EXTENDS NodeWritesProofs, RuleWritesProofs, PredicateProofs

\* labelsEqual takes a label with an empty value for a missing one, so that the
\* predicate can miss such a change.
NoEmptyLabels == \A labels \in LabelMaps : \A k \in DOMAIN labels : labels[k] # ""

\* A failed patch is not tried again, so that a fault can lose a wakeup.
NoFaults == Quota["fault"] = 0

-----------------------------------------------------------------------------
(* The versions of a node, from the informer's copy on *)

Version(n, i) == IF i = 0 THEN nodeStore[n] ELSE nodeWatch[n][i]

\* The informer will put n on the queue when it goes on from version i.
NoticedAfter(n, i) ==
    \E j \in (i + 1)..Len(nodeWatch[n]) : NodePredicate(Version(n, j - 1), Version(n, j))

\* Nothing that a worker decides by has been lost between the versions a and b.
Leads(a, b) ==
    \/ a = Null /\ b = Null
    \/ SameView(a, b) /\ a.completed \subseteq b.completed

\* A version that is out of date will be followed by one that the predicate lets
\* through.
ChangesNoticed ==
    \A n \in Nodes : \A i \in 0..Len(nodeWatch[n]) :
        Leads(Version(n, i), apiNode[n]) \/ NoticedAfter(n, i)

\* An idle node worker has no node.
IdleHasNone == npc = "idle" => nname = Null

WakeupInv ==
    /\ quota["fault"] = 0
    /\ ChangesNoticed
    /\ IdleHasNone
    /\ CarriedIsCached
    /\ NoLostWakeup

-----------------------------------------------------------------------------
(* What the decisions depend on *)

\* Two nodes that look the same are treated the same.
LEMMA ViewDecides ==
    ASSUME NEW a, NEW b, SameView(a, b), NEW spec
    PROVE  /\ ruleAppliesTo(spec, a) <=> ruleAppliesTo(spec, b)
           /\ TaintAction(spec, a) = TaintAction(spec, b)
           /\ TaintsAfter(spec, a) = TaintsAfter(spec, b)
  <1>1. a.conditions = b.conditions /\ a.labels = b.labels /\ a.taints = b.taints
    BY DEF SameView
  <1>2. ruleAppliesTo(spec, a) <=> ruleAppliesTo(spec, b)
    BY <1>1 DEF ruleAppliesTo
  <1>3. /\ allConditionsSatisfied(spec, a) <=> allConditionsSatisfied(spec, b)
        /\ hasTaintBySpec(a, spec) <=> hasTaintBySpec(b, spec)
    BY <1>1, Zenon DEF allConditionsSatisfied, getConditionStatus, hasTaintBySpec
  <1>4. TaintAction(spec, a) = TaintAction(spec, b)
    BY <1>3 DEF TaintAction
  <1>5. TaintsAfter(spec, a) = TaintsAfter(spec, b)
    BY <1>1, <1>4 DEF TaintsAfter, addTaintBySpec, removeTaintBySpec
  <1>6. QED
    BY <1>2, <1>4, <1>5

\* Having the same view is an equivalence.
LEMMA ViewsCompose ==
    /\ \A a, b : SameView(a, b) => SameView(b, a) /\ SameView(a, a)
    /\ \A a, b, c : SameView(a, b) /\ SameView(b, c) => SameView(a, c)
  BY DEF SameView

\* Leading is an order.
LEMMA LeadsCompose ==
    /\ \A a : a \in NodeOrNull => Leads(a, a)
    /\ \A a, b, c : Leads(a, b) /\ Leads(b, c) => Leads(a, c)
  <1>1. \A a : a \in NodeOrNull => Leads(a, a)
    BY DEF Leads, SameView
  <1>2. ASSUME NEW a, NEW b, NEW c, Leads(a, b), Leads(b, c)
        PROVE  Leads(a, c)
    BY <1>2 DEF Leads, SameView
  <1>3. QED
    BY <1>1, <1>2

\* An action changes the taints that it is computed from.
LEMMA ActionChangesTaints ==
    ASSUME NEW spec, NEW node, TaintAction(spec, node) # "none"
    PROVE  TaintsAfter(spec, node) # node.taints
  <1>1. CASE TaintAction(spec, node) = "add" /\ spec.taint \notin node.taints
    BY <1>1 DEF TaintsAfter, addTaintBySpec
  <1>2. CASE TaintAction(spec, node) = "remove" /\ spec.taint \in node.taints
    BY <1>2 DEF TaintsAfter, removeTaintBySpec
  <1>3. QED
    BY <1>1, <1>2 DEF TaintAction, hasTaintBySpec

\* A write that loses something a worker has decided by is one that the predicate
\* lets through.
LEMMA LossIsNoticed ==
    ASSUME NoEmptyLabels, NEW old \in NodeOrNull, NEW new \in NodeOrNull,
           old # Null /\ new # Null => old.completed \subseteq new.completed
    PROVE  Leads(old, new) \/ NodePredicate(old, new)
  <1>1. CASE old = Null \/ new = Null
    BY <1>1 DEF NodePredicate
  <1>2. CASE old # Null /\ new # Null
    <2>1. old \in Node /\ new \in Node
      BY <1>2 DEF NodeOrNull
    <2>2. \A k \in DOMAIN old.labels : old.labels[k] # ""
      BY <2>1 DEF Node, NoEmptyLabels
    <2>3. ~NodePredicate(old, new) => SameView(old, new)
      BY <2>1, <2>2, PredicateSeesChanges
    <2>4. QED
      BY <1>2, <2>3 DEF Leads
  <1>3. QED
    BY <1>1, <1>2

-----------------------------------------------------------------------------
(* The versions on their way *)

\* NoticedAfter(n, 0) is what WakeupOnTheWay says of the watch.
LEMMA WakeupIsNoticed ==
    ASSUME NEW n \in Nodes
    PROVE  WakeupOnTheWay(n) <=> n \in nodeQueue \/ NoticedAfter(n, 0)
  <1>1. ASSUME NEW i \in 1..Len(nodeWatch[n])
        PROVE  /\ Version(n, i) = nodeWatch[n][i]
               /\ Version(n, i - 1) = IF i = 1 THEN nodeStore[n] ELSE nodeWatch[n][i - 1]
    BY DEF Version
  <1>2. 0 + 1 = 1
    OBVIOUS
  <1>3. QED
    BY <1>1, <1>2, Zenon DEF WakeupOnTheWay, NoticedAfter

\* A write of a node.
LEMMA WriteIsNoticed ==
    ASSUME NoEmptyLabels, ClusterTypeOK, NodesCatchUp, ChangesNoticed,
           NEW n \in Nodes, NEW node \in NodeOrNull, WriteNode(n, node), UNCHANGED nodeStore,
           apiNode[n] # Null /\ node # Null => apiNode[n].completed \subseteq node.completed
    PROVE  /\ ChangesNoticed'
           /\ \A m \in Nodes :
                 /\ NoticedAfter(m, 0) => NoticedAfter(m, 0)'
                 /\ Leads(apiNode[m], apiNode'[m]) \/ NoticedAfter(m, 0)'
  <1> DEFINE longer == Append(nodeWatch[n], node)
  <1>1. apiNode[n] \in NodeOrNull /\ nodeWatch[n] \in Seq(NodeOrNull) /\ Len(nodeWatch[n]) \in Nat
    BY DEF ClusterTypeOK
  <1> PICK len \in Nat : len = Len(nodeWatch[n])
    BY <1>1
  <1>2. /\ apiNode'[n] = node
        /\ nodeWatch'[n] = IF node = apiNode[n] THEN nodeWatch[n] ELSE longer
        /\ \A m \in Nodes \ {n} : apiNode'[m] = apiNode[m] /\ nodeWatch'[m] = nodeWatch[m]
    BY DEF WriteNode, ClusterTypeOK
  <1>3. ASSUME NEW m \in Nodes, apiNode'[m] = apiNode[m], nodeWatch'[m] = nodeWatch[m]
        PROVE  /\ \A i : Version(m, i)' = Version(m, i)
               /\ \A i : NoticedAfter(m, i)' <=> NoticedAfter(m, i)
               /\ \A i \in 0..Len(nodeWatch'[m]) :
                     Leads(Version(m, i)', apiNode'[m]) \/ NoticedAfter(m, i)'
               /\ Leads(apiNode[m], apiNode'[m])
    <2>1. \A i : Version(m, i)' = Version(m, i)
      BY <1>3 DEF Version
    <2>2. \A i : NoticedAfter(m, i)' <=> NoticedAfter(m, i)
      BY <1>3, <2>1 DEF NoticedAfter
    <2>3. Leads(apiNode[m], apiNode'[m])
      BY <1>3, LeadsCompose DEF ClusterTypeOK
    <2>4. \A i \in 0..Len(nodeWatch'[m]) :
             Leads(Version(m, i)', apiNode'[m]) \/ NoticedAfter(m, i)'
      BY <1>3, <2>1, <2>2 DEF ChangesNoticed
    <2>5. QED
      BY <2>1, <2>2, <2>3, <2>4
  <1>4. CASE node = apiNode[n]
    <2>1. \A m \in Nodes : apiNode'[m] = apiNode[m] /\ nodeWatch'[m] = nodeWatch[m]
      BY <1>2, <1>4
    <2>2. QED
      BY <1>3, <2>1 DEF ChangesNoticed
  <1>5. CASE node # apiNode[n]
    <2>1. nodeWatch'[n] = longer /\ Len(longer) = len + 1 /\ longer[len + 1] = node
      BY <1>1, <1>2, <1>5
    <2>2. \A i \in 1..len : longer[i] = nodeWatch[n][i]
      BY <1>1
    <2>3. \A i \in 0..len : Version(n, i)' = Version(n, i)
      BY <1>1, <2>1, <2>2 DEF Version
    <2>4. Version(n, len + 1)' = node
      BY <1>1, <2>1 DEF Version
    <2>5. Version(n, len) = apiNode[n]
      <3>1. nodeWatch[n] = <<>> => len = 0
        OBVIOUS
      <3>2. nodeWatch[n] # <<>> => len # 0
        BY <1>1
      <3>3. QED
        BY <3>1, <3>2 DEF Version, NodesCatchUp
    <2> HIDE DEF longer
    <2>6. Len(nodeWatch'[n]) = len + 1 /\ Len(nodeWatch[n]) = len
      BY <2>1
    <2>7. ASSUME NEW i \in 0..len, NoticedAfter(n, i)
          PROVE  NoticedAfter(n, i)'
      <3>1. PICK j \in (i + 1)..len : NodePredicate(Version(n, j - 1), Version(n, j))
        BY <2>6, <2>7 DEF NoticedAfter
      <3>2. j \in (i + 1)..(len + 1) /\ j \in 0..len /\ j - 1 \in 0..len
        BY <1>1, <3>1
      <3>3. NodePredicate(Version(n, j - 1)', Version(n, j)')
        BY <2>3, <3>1, <3>2, Zenon
      <3>4. \E k \in (i + 1)..(len + 1) : NodePredicate(Version(n, k - 1)', Version(n, k)')
        BY <3>2, <3>3, Zenon
      <3>5. QED
        BY <2>6, <3>4 DEF NoticedAfter, Version, NodePredicate
    <2>8. ASSUME NEW i \in 0..len, NodePredicate(apiNode[n], node)
          PROVE  NoticedAfter(n, i)'
      <3>1. len + 1 \in (i + 1)..(len + 1) /\ (len + 1) - 1 = len /\ len \in 0..len
        BY <1>1
      <3>2. NodePredicate(Version(n, (len + 1) - 1)', Version(n, len + 1)')
        BY <2>3, <2>4, <2>5, <2>8, <3>1, Zenon
      <3>3. \E k \in (i + 1)..(len + 1) : NodePredicate(Version(n, k - 1)', Version(n, k)')
        BY <3>1, <3>2, Zenon
      <3>4. QED
        BY <2>6, <3>3 DEF NoticedAfter, Version, NodePredicate
    <2>9. Leads(apiNode[n], node) \/ NodePredicate(apiNode[n], node)
      BY <1>1, LossIsNoticed
    <2>10. ASSUME NEW i \in 0..(len + 1)
           PROVE  Leads(Version(n, i)', apiNode'[n]) \/ NoticedAfter(n, i)'
      <3>1. CASE i = len + 1
        BY <1>2, <2>4, <3>1, LeadsCompose
      <3>2. CASE i # len + 1
        <4>1. i \in 0..len
          BY <1>1, <3>2
        <4>2. Leads(Version(n, i), apiNode[n]) \/ NoticedAfter(n, i)
          BY <2>6, <4>1 DEF ChangesNoticed
        <4>3. Version(n, i)' = Version(n, i)
          BY <2>3, <4>1
        <4>4. QED
          BY <1>2, <2>7, <2>8, <2>9, <4>1, <4>2, <4>3, LeadsCompose
      <3>3. QED
        BY <3>1, <3>2
    <2>11. 0 \in 0..len
      BY <1>1
    <2>12. ChangesNoticed'
      <3> SUFFICES ASSUME NEW m \in Nodes, NEW i \in 0..Len(nodeWatch'[m])
                   PROVE  Leads(Version(m, i)', apiNode'[m]) \/ NoticedAfter(m, i)'
        BY DEF ChangesNoticed, Leads, SameView
      <3>1. CASE m = n
        BY <2>6, <2>10, <3>1
      <3>2. CASE m # n
        BY <1>2, <1>3, <3>2
      <3>3. QED
        BY <3>1, <3>2
    <2>13. ASSUME NEW m \in Nodes
           PROVE  /\ NoticedAfter(m, 0) => NoticedAfter(m, 0)'
                  /\ Leads(apiNode[m], apiNode'[m]) \/ NoticedAfter(m, 0)'
      BY <1>2, <1>3, <2>7, <2>8, <2>9, <2>11
    <2>14. QED
      BY <2>12, <2>13
  <1>6. QED
    BY <1>4, <1>5
\* A delivery: what was still to be noticed is now on the queue or still to be noticed.
LEMMA DeliveryIsNoticed ==
    ASSUME ClusterTypeOK, ChangesNoticed, NEW n \in Nodes, DeliverNode(n)
    PROVE  /\ ChangesNoticed'
           /\ \A m \in Nodes :
                 /\ NoticedAfter(m, 0) => NoticedAfter(m, 0)' \/ m \in nodeQueue'
                 /\ Leads(apiNode[m], apiNode'[m]) \/ NoticedAfter(m, 0)'
  <1> DEFINE rest == Tail(nodeWatch[n])
  <1>1. nodeWatch[n] \in Seq(NodeOrNull) /\ nodeWatch[n] # <<>> /\ Len(nodeWatch[n]) \in Nat \ {0}
    BY DEF ClusterTypeOK, DeliverNode
  <1> PICK len \in Nat \ {0} : len = Len(nodeWatch[n])
    BY <1>1
  <1>2. /\ Len(rest) = len - 1
        /\ \A i \in 1..(len - 1) : rest[i] = nodeWatch[n][i + 1]
        /\ Head(nodeWatch[n]) = nodeWatch[n][1]
    BY <1>1
  <1>3. /\ nodeStore'[n] = nodeWatch[n][1] /\ nodeWatch'[n] = rest /\ UNCHANGED apiNode
        /\ \A m \in Nodes \ {n} : nodeStore'[m] = nodeStore[m] /\ nodeWatch'[m] = nodeWatch[m]
    BY <1>2 DEF DeliverNode, ClusterTypeOK
  <1>4. \A i \in 0..(len - 1) : Version(n, i)' = Version(n, i + 1)
    BY <1>2, <1>3 DEF Version
  <1> HIDE DEF rest
  <1>5. Len(nodeWatch'[n]) = len - 1
    BY <1>2, <1>3
  <1>6. ASSUME NEW i \in 0..(len - 1), NoticedAfter(n, i + 1)
        PROVE  NoticedAfter(n, i)'
    <2>1. PICK j \in ((i + 1) + 1)..len : NodePredicate(Version(n, j - 1), Version(n, j))
      BY <1>6 DEF NoticedAfter
    <2>2. /\ j - 1 \in (i + 1)..(len - 1)
          /\ j - 1 \in 0..(len - 1) /\ (j - 1) - 1 \in 0..(len - 1)
          /\ (j - 1) + 1 = j /\ ((j - 1) - 1) + 1 = j - 1
      BY <2>1
    <2>3. NodePredicate(Version(n, (j - 1) - 1)', Version(n, j - 1)')
      BY <1>4, <2>1, <2>2, Zenon
    <2>4. \E k \in (i + 1)..(len - 1) : NodePredicate(Version(n, k - 1)', Version(n, k)')
      BY <2>2, <2>3, Zenon
    <2>5. QED
      BY <1>5, <2>4 DEF NoticedAfter, Version, NodePredicate
  <1>7. ASSUME NEW m \in Nodes \ {n}
        PROVE  /\ \A i : Version(m, i)' = Version(m, i)
               /\ \A i : NoticedAfter(m, i)' <=> NoticedAfter(m, i)
    <2>1. \A i : Version(m, i)' = Version(m, i)
      BY <1>3 DEF Version
    <2>2. QED
      BY <1>3, <2>1 DEF NoticedAfter
  <1>8. ChangesNoticed'
    <2> SUFFICES ASSUME NEW m \in Nodes, NEW i \in 0..Len(nodeWatch'[m])
                 PROVE  Leads(Version(m, i)', apiNode'[m]) \/ NoticedAfter(m, i)'
      BY DEF ChangesNoticed, Leads, SameView
    <2>1. CASE m = n
      <3>1. i \in 0..(len - 1) /\ i + 1 \in 0..len
        BY <1>5, <2>1
      <3>2. Leads(Version(n, i + 1), apiNode[n]) \/ NoticedAfter(n, i + 1)
        BY <3>1 DEF ChangesNoticed
      <3>3. QED
        BY <1>3, <1>4, <1>6, <2>1, <3>1, <3>2
    <2>2. CASE m # n
      BY <1>3, <1>7, <2>2 DEF ChangesNoticed
    <2>3. QED
      BY <2>1, <2>2
  <1>9. NoticedAfter(n, 0) => NoticedAfter(n, 0)' \/ n \in nodeQueue'
    <2> SUFFICES ASSUME NoticedAfter(n, 0)
                 PROVE  NoticedAfter(n, 0)' \/ n \in nodeQueue'
      OBVIOUS
    <2>1. PICK j \in (0 + 1)..len : NodePredicate(Version(n, j - 1), Version(n, j))
      BY DEF NoticedAfter
    <2>2. CASE j = 1
      <3>1. NodePredicate(nodeStore[n], Head(nodeWatch[n]))
        BY <1>2, <2>1, <2>2 DEF Version
      <3>2. QED
        BY <3>1 DEF DeliverNode
    <2>3. CASE j # 1
      <3>1. j \in ((0 + 1) + 1)..len /\ 0 \in 0..(len - 1)
        BY <2>1, <2>3
      <3>2. NoticedAfter(n, 0 + 1)
        BY <2>1, <3>1, Zenon DEF NoticedAfter
      <3>3. QED
        BY <1>6, <3>1, <3>2
    <2>4. QED
      BY <2>2, <2>3
  <1>10. \A m \in Nodes : Leads(apiNode[m], apiNode'[m])
    BY <1>3, LeadsCompose DEF ClusterTypeOK
  <1>11. QED
    BY <1>7, <1>8, <1>9, <1>10

\* A restart lists the nodes anew.
LEMMA ListingIsCurrent ==
    ASSUME ClusterTypeOK, Crash
    PROVE  ChangesNoticed'
  <1> SUFFICES ASSUME NEW m \in Nodes, NEW i \in 0..Len(nodeWatch'[m])
               PROVE  Leads(Version(m, i)', apiNode'[m])
    BY DEF ChangesNoticed, Leads, SameView
  <1>1. nodeWatch'[m] = <<>> /\ nodeStore'[m] = apiNode[m] /\ apiNode' = apiNode
    BY DEF Crash
  <1>2. i = 0
    BY <1>1
  <1>3. Version(m, i)' = apiNode[m]
    BY <1>1, <1>2 DEF Version
  <1>4. QED
    BY <1>1, <1>3, LeadsCompose DEF ClusterTypeOK

\* Every step that may concern a node.
LEMMA StepIsNoticed ==
    ASSUME NoEmptyLabels, TypeOK, NodesCatchUp, ChangesNoticed, NodeStep
    PROVE  /\ ChangesNoticed'
           /\ Crash \/ \A m \in Nodes :
                 /\ NoticedAfter(m, 0) => NoticedAfter(m, 0)' \/ m \in nodeQueue'
                 /\ Leads(apiNode[m], apiNode'[m]) \/ NoticedAfter(m, 0)'
  <1> DEFINE Goal ==
        /\ ChangesNoticed'
        /\ Crash \/ \A m \in Nodes :
              /\ NoticedAfter(m, 0) => NoticedAfter(m, 0)' \/ m \in nodeQueue'
              /\ Leads(apiNode[m], apiNode'[m]) \/ NoticedAfter(m, 0)'
  <1>1. ClusterTypeOK
    BY DEF TypeOK
  <1>2. CASE UNCHANGED nodeObjects
    <2>1. UNCHANGED <<apiNode, nodeWatch, nodeStore>>
      BY <1>2 DEF nodeObjects
    <2>2. \A m, i : Version(m, i)' = Version(m, i)
      BY <2>1 DEF Version
    <2>3. \A m, i : NoticedAfter(m, i)' <=> NoticedAfter(m, i)
      BY <2>1, <2>2 DEF NoticedAfter
    <2>4. ChangesNoticed'
      BY <2>1, <2>2, <2>3 DEF ChangesNoticed
    <2>5. \A m \in Nodes : Leads(apiNode[m], apiNode'[m])
      BY <1>1, <2>1, LeadsCompose DEF ClusterTypeOK
    <2>6. QED
      BY <2>3, <2>4, <2>5
  <1>3. CASE PlainWrite
    <2>1. PICK n \in Nodes, node \in NodeOrNull :
             /\ WriteNode(n, node)
             /\ UNCHANGED nodeStore
             /\ apiNode[n] # Null /\ node # Null => node.completed = apiNode[n].completed
      BY <1>3 DEF PlainWrite
    <2>2. QED
      BY <1>1, <2>1, WriteIsNoticed
  <1>4. CASE MarkingWrite
    <2>1. PICK n \in Nodes, r \in Rules :
             /\ nodeStore[n] # Null
             /\ nodeWatch[n] = <<>>
             /\ WriteNode(n, [nodeStore[n] EXCEPT !.completed = @ \union {r}])
             /\ UNCHANGED nodeStore
      BY <1>4 DEF MarkingWrite
    <2> DEFINE node == [nodeStore[n] EXCEPT !.completed = @ \union {r}]
    <2>2. nodeStore[n] \in Node /\ apiNode[n] = nodeStore[n]
      BY <1>1, <2>1 DEF ClusterTypeOK, NodeOrNull, NodesCatchUp
    <2>3. node \in NodeOrNull /\ apiNode[n].completed \subseteq node.completed
      BY <2>2 DEF Node, NodeOrNull
    <2> HIDE DEF node
    <2>4. WriteNode(n, node) /\ UNCHANGED nodeStore
      BY <2>1 DEF node
    <2>5. QED
      BY <1>1, <2>3, <2>4, WriteIsNoticed
  <1>5. ASSUME NEW n \in Nodes, DeliverNode(n)
        PROVE  Goal
    BY <1>1, <1>5, DeliveryIsNoticed
  <1>6. CASE Crash
    BY <1>1, <1>6, ListingIsCurrent
  <1>7. QED
    BY <1>2, <1>3, <1>4, <1>5, <1>6 DEF NodeStep

-----------------------------------------------------------------------------
(* The workers *)

\* Every end of Reconcile forgets the node.
LEMMA IdleKeepsNone ==
    ASSUME IdleHasNone, [Next]_vars
    PROVE  IdleHasNone'
  <1>1. CASE NodeReconcilerNext
    BY <1>1 DEF NodeReconcilerNext, NodeGet, getApplicableRulesForNode, NodePickRule, NodeEvaluate,
                NodeMark, NodePersistStatus, NodeContinue, IdleHasNone, nodeReconcilerVars
  <1>2. CASE UNCHANGED nodeReconcilerVars \/ Crash
    BY <1>2 DEF nodeReconcilerVars, Crash, IdleHasNone
  <1>3. QED
    BY <1>1, <1>2 DEF Next, Surroundings, NodeProcess, RuleProcess, Rest, vars

\* Only the node worker takes a node off the queue.
LEMMA QueueKept ==
    ASSUME [Next]_vars, NEW n \in Nodes, n \in nodeQueue, n \notin nodeQueue'
    PROVE  (NodeGet(n) /\ UNCHANGED ruleReconcilerVars) \/ Crash
  <1>1. CASE NodeProcess
    <2>1. ASSUME NEW m \in Nodes, NodeGet(m)
          PROVE  NodeGet(n)
      BY <2>1 DEF NodeGet
    <2>2. QED
      BY <1>1, <2>1 DEF NodeProcess, NodeReconcilerNext, getApplicableRulesForNode, NodePickRule,
                        NodeEvaluate, NodeMark, NodePersistStatus
  <1>2. CASE Surroundings
    BY <1>2 DEF Surroundings, EnvironmentNext, SetCondition, SetLabels, ToggleTaint, JoinNode,
                LeaveNode, CreateRule, EditRule, DeleteRule, NodeEvent, RuleEvent, InformerNext,
                DeliverNode, DeliverRule
  <1>3. CASE RuleProcess
    BY <1>3 DEF RuleProcess, RuleReconcilerNext, RuleGet, cleanupTaintsForRule, CleanupList,
        CleanupStep, CleanupEnd, RuleRemoveFinalizer, RuleUncache, RuleAddFinalizer, RuleRefresh,
        RuleSelector, cleanupNodesAfterSelectorChange, RuleUpdateCache, processDryRun,
        RuleListNodes, RuleEvaluate, RuleMark, RuleEvaluateEnd, updateRuleStatus,
        cleanupDeletedNodes, nodeSideKept
  <1>4. CASE UNCHANGED vars
    BY <1>4 DEF vars, clusterVars
  <1>5. QED
    BY <1>1, <1>2, <1>3, <1>4 DEF Next, Rest

-----------------------------------------------------------------------------
(* A node that needs a worker keeps having one *)

\* Rule r wants n changed.
Due(n, r) ==
    /\ apiNode[n] # Null
    /\ ruleCache[r] # Null
    /\ Enforces(r, ruleCache[r], apiNode[n])
    /\ TaintAction(ruleCache[r], apiNode[n]) # "none"

\* Nothing is on its way to the queue, so that the workers must see to it.
Unannounced(n, r) ==
    /\ Due(n, r)
    /\ n \notin nodeQueue
    /\ ~NoticedAfter(n, 0)

WorkerWill(n, r) == NodeWorkerWill(n, r) \/ RuleWorkerWill(n, r)

\* The node of a step after which the workers must see to it: it looks as before, and
\* so does the informer's copy of it.
LooksAsBefore(n) ==
    /\ SameView(apiNode[n], apiNode'[n]) /\ apiNode[n].completed \subseteq apiNode'[n].completed
    /\ SameView(nodeStore'[n], apiNode'[n])
    /\ nodeStore'[n].completed \subseteq apiNode'[n].completed

\* Such a step announces nothing, and takes nothing that the node's view decides.
LEMMA StillWaiting ==
    ASSUME NoEmptyLabels, TypeOK, RuleInv, NodesCatchUp, WakeupInv, [Next]_vars,
           NEW n \in Nodes, NEW r \in Rules, Unannounced(n, r)'
    PROVE  /\ ~Crash
           /\ LooksAsBefore(n)
           /\ n \in nodeQueue => NodeGet(n) /\ UNCHANGED ruleReconcilerVars
           /\ ruleCache'[r] = ruleCache[r] =>
                 Due(n, r) /\ (n \in nodeQueue \/ WorkerWill(n, r))
  <1>1. Due(n, r)' /\ n \notin nodeQueue' /\ ~NoticedAfter(n, 0)'
    BY DEF Unannounced
  <1>2. ~Crash
    <2>1. ruleCache'[r] # Null
      BY <1>1 DEF Due
    <2>2. QED
      BY <2>1 DEF Crash, NoRules
  <1>3. NodeStep /\ TypeOK /\ ChangesNoticed
    BY NextIsNodeStep DEF WakeupInv
  <1>4. /\ ChangesNoticed'
        /\ ~NoticedAfter(n, 0)
        /\ Leads(apiNode[n], apiNode'[n])
    BY <1>1, <1>2, <1>3, StepIsNoticed
  <1>5. Leads(nodeStore[n], apiNode[n])'
    <2>1. Len(nodeWatch'[n]) \in Nat
      <3>1. ClusterTypeOK'
        BY NextIInv DEF IInv, TypeOK
      <3>2. nodeWatch'[n] \in Seq(NodeOrNull)
        BY <3>1 DEF ClusterTypeOK
      <3>3. QED
        BY <3>2
    <2>2. 0 \in 0..Len(nodeWatch'[n])
      BY <2>1
    <2>3. (Leads(Version(n, 0), apiNode[n]) \/ NoticedAfter(n, 0))'
      BY <1>4, <2>2 DEF ChangesNoticed
    <2>4. QED
      BY <1>1, <2>3 DEF Version
  <1>6. apiNode'[n] # Null
    BY <1>1 DEF Due
  <1>7. LooksAsBefore(n)
    BY <1>4, <1>5, <1>6 DEF LooksAsBefore, Leads, SameView
  <1>8. n \in nodeQueue => NodeGet(n) /\ UNCHANGED ruleReconcilerVars
    BY <1>1, <1>2, QueueKept
  <1>9. ASSUME ruleCache'[r] = ruleCache[r]
        PROVE  Due(n, r) /\ (n \in nodeQueue \/ WorkerWill(n, r))
    <2>1. SameView(apiNode[n], apiNode'[n]) /\ apiNode[n].completed \subseteq apiNode'[n].completed
      BY <1>7 DEF LooksAsBefore
    <2>2. /\ ruleCache[r] # Null
          /\ Enforces(r, ruleCache[r], apiNode'[n])
          /\ TaintAction(ruleCache[r], apiNode'[n]) # "none"
      BY <1>1, <1>9 DEF Due
    <2>3. Enforces(r, ruleCache[r], apiNode[n]) /\ TaintAction(ruleCache[r], apiNode[n]) # "none"
      BY <2>1, <2>2, ViewDecides DEF Enforces
    <2>4. Due(n, r)
      BY <2>1, <2>2, <2>3 DEF Due, SameView
    <2>5. WakeupOnTheWay(n) \/ WorkerWill(n, r)
      BY <2>4 DEF WakeupInv, NoLostWakeup, Due, WorkerWill
    <2>6. QED
      BY <1>4, <2>4, <2>5, WakeupIsNoticed
  <1>10. QED
    BY <1>2, <1>7, <1>8, <1>9

\* A worker that patches the node changes its view.
LEMMA PatchChangesView ==
    ASSUME TypeOK, NEW n \in Nodes, NEW spec, NEW node,
           SameView(node, apiNode[n]), SameView(apiNode[n], apiNode'[n]),
           TaintAction(spec, node) # "none", PatchTaints(n, TaintsAfter(spec, node))
    PROVE  FALSE
  <1>1. apiNode[n] \in Node
    BY DEF TypeOK, ClusterTypeOK, NodeOrNull, SameView
  <1>2. apiNode'[n] = [apiNode[n] EXCEPT !.taints = TaintsAfter(spec, node)]
    BY DEF PatchTaints, WriteNode, TypeOK, ClusterTypeOK
  <1>3. apiNode'[n].taints = TaintsAfter(spec, node)
    BY <1>1, <1>2 DEF Node
  <1>4. QED
    BY <1>3, ActionChangesTaints DEF SameView

\* The step in which the node is taken off the queue.
LEMMA TakenUp ==
    ASSUME NEW n \in Nodes, NEW r \in Rules, LooksAsBefore(n), NodeGet(n)
    PROVE  NodeWorkerWill(n, r)'
  <1>1. SameView(nodeStore'[n], apiNode'[n])
    BY DEF LooksAsBefore
  <1>2. nodeStore' = nodeStore /\ nodeStore[n] # Null
    BY <1>1 DEF NodeGet, SameView
  <1>3. npc' = "rules" /\ nname' = n /\ nnode' = nodeStore'[n]
    BY <1>2 DEF NodeGet
  <1>4. QED
    BY <1>1, <1>3 DEF NodeWorkerWill

\* Steps of others than the rule worker leave the rule worker to its work.
LEMMA RuleWorkerKeepsNode ==
    ASSUME NEW n \in Nodes, NEW r \in Rules, LooksAsBefore(n), RuleWorkerWill(n, r),
           UNCHANGED ruleReconcilerVars
    PROVE  RuleWorkerWill(n, r)'
  <1>1. UNCHANGED <<rpc, rname, rnodes>>
    BY DEF ruleReconcilerVars
  <1>2. SameView(rnodes[n], apiNode[n]) => SameView(rnodes'[n], apiNode'[n])
    BY <1>1, ViewsCompose DEF LooksAsBefore
  <1>3. QED
    BY <1>1, <1>2 DEF RuleWorkerWill, LooksAsBefore

\* Steps of others than the node worker leave the node worker to its work.
LEMMA NodeWorkerKeepsNode ==
    ASSUME NEW n \in Nodes, NEW r \in Rules, LooksAsBefore(n), NodeWorkerWill(n, r),
           UNCHANGED nodeReconcilerVars, ruleCache'[r] = ruleCache[r]
    PROVE  NodeWorkerWill(n, r)'
  <1>1. UNCHANGED <<npc, nname, nnode, nrules>>
    BY DEF nodeReconcilerVars
  <1>2. SameView(nnode', apiNode'[n])
    BY <1>1, ViewsCompose DEF LooksAsBefore, NodeWorkerWill
  <1>3. QED
    BY <1>1, <1>2 DEF NodeWorkerWill

\* The node worker goes on to the rule, through its other rules.
LEMMA NodeWorkerGoesOn ==
    ASSUME TypeOK, WakeupInv, NEW n \in Nodes, NEW r \in Rules, LooksAsBefore(n), Due(n, r),
           NodeWorkerWill(n, r), NodeReconcilerNext, ruleCache'[r] = ruleCache[r]
    PROVE  NodeWorkerWill(n, r)'
  <1>1. nname = n /\ SameView(nnode, apiNode[n]) /\ npc # "idle"
    BY NullAssumption DEF NodeWorkerWill, WakeupInv, IdleHasNone
  <1>2. SameView(nnode, apiNode'[n])
    BY <1>1, ViewsCompose DEF LooksAsBefore
  <1>3. nrules \in [Rules -> SpecOrNull]
    BY DEF TypeOK, NodeReconcilerTypeOK
  <1>4. /\ ruleAppliesTo(ruleCache[r], nnode)
        /\ TaintAction(ruleCache[r], nnode) # "none"
    BY <1>1, ViewDecides DEF Due, Enforces
  <1>5. ruleCache[r] # Null
    BY DEF Due
  <1>6. ASSUME NEW rules, rules[r] = ruleCache[r], NodeContinue(rules)
        PROVE  NodeWorkerWill(n, r)'
    <2>1. rules # NoRules
      BY <1>5, <1>6 DEF NoRules
    <2>2. nrules' = rules /\ nname' = n /\ nnode' = nnode
      BY <1>1, <1>6, <2>1 DEF NodeContinue
    <2>3. QED
      BY <1>2, <1>6, <2>2 DEF NodeWorkerWill
  <1>7. CASE getApplicableRulesForNode
    <2> DEFINE rules == [q \in Rules |->
            IF ruleCache[q] # Null /\ ruleAppliesTo(ruleCache[q], nnode)
            THEN ruleCache[q] ELSE Null]
    <2>1. NodeContinue(rules)
      BY <1>7 DEF getApplicableRulesForNode
    <2>2. rules[r] = ruleCache[r]
      BY <1>4
    <2> HIDE DEF rules
    <2>3. QED
      BY <1>6, <2>1, <2>2
  <1>8. npc # "rules" => nrules[r] = ruleCache[r]
    BY DEF NodeWorkerWill
  <1>9. ASSUME NEW q \in Rules, NodePickRule(q)
        PROVE  NodeWorkerWill(n, r)'
    <2>1. nrules[r] = ruleCache[r] /\ nodeStore' = nodeStore /\ apiNode' = apiNode
      BY <1>8, <1>9 DEF NodePickRule, nodesKept
    <2>2. ~Skips(r)
      <3>1. nodeStore[n].completed \subseteq apiNode[n].completed
        BY <2>1 DEF LooksAsBefore
      <3>2. QED
        BY <1>1, <2>1, <3>1 DEF Skips, isBootstrapCompleted, Due, Enforces
    <2>3. CASE Skips(q) /\ NodeContinue([nrules EXCEPT ![q] = Null])
      <3>1. q # r
        BY <2>2, <2>3
      <3>2. [nrules EXCEPT ![q] = Null][r] = ruleCache[r]
        BY <1>3, <2>1, <3>1
      <3>3. QED
        BY <1>6, <2>3, <3>2
    <2>4. CASE UNCHANGED <<nname, nnode, nrules>>
      BY <1>1, <1>2, <2>1, <2>4 DEF NodeWorkerWill
    <2>5. QED
      BY <1>9, <2>3, <2>4 DEF NodePickRule
  <1>10. CASE NodeEvaluate
    <2>1. nrules[r] = ruleCache[r] /\ ncur \in Rules /\ quota["fault"] = 0 /\ apiNode[n] # Null
      BY <1>1, <1>8, <1>10 DEF NodeEvaluate, TypeOK, NodeReconcilerTypeOK, WakeupInv, SameView
    <2>2. ~PatchFails(n)
      BY <2>1 DEF PatchFails, Spend
    <2>3. TaintAction(nrules[ncur], nnode) # "none" =>
             ~PatchTaints(n, TaintsAfter(nrules[ncur], nnode))
      BY <1>1, PatchChangesView DEF LooksAsBefore
    <2>4. TaintAction(nrules[ncur], nnode) = "none" /\ UNCHANGED <<nname, nnode>>
      BY <1>1, <1>10, <2>2, <2>3 DEF NodeEvaluate
    <2>5. ncur # r
      BY <1>4, <2>1, <2>4
    <2>6. nrules'[r] = nrules[r]
      BY <1>3, <1>10, <2>5 DEF NodeEvaluate
    <2>7. QED
      BY <1>1, <1>2, <2>1, <2>4, <2>6 DEF NodeWorkerWill
  <1>11. CASE NodeMark
    <2>1. nrules[r] = ruleCache[r] /\ UNCHANGED <<nname, nnode, nrules>>
      BY <1>8, <1>11 DEF NodeMark
    <2>2. QED
      BY <1>1, <1>2, <2>1 DEF NodeWorkerWill
  <1>12. CASE NodePersistStatus
    <2>1. nrules[r] = ruleCache[r] /\ NodeContinue(nrules)
      BY <1>8, <1>12 DEF NodePersistStatus
    <2>2. QED
      BY <1>6, <2>1
  <1>13. \A m \in Nodes : ~NodeGet(m)
    BY <1>1 DEF NodeGet
  <1>14. QED
    BY <1>7, <1>9, <1>10, <1>11, <1>12, <1>13 DEF NodeReconcilerNext

\* The rule worker goes on to the node, through its other nodes.
LEMMA RuleWorkerGoesOn ==
    ASSUME TypeOK, WakeupInv, NEW n \in Nodes, NEW r \in Rules, LooksAsBefore(n), Due(n, r),
           RuleWorkerWill(n, r), RuleReconcilerNext
    PROVE  RuleWorkerWill(n, r)'
  <1>1. rname = r /\ rpc \in {"list", "evaluate", "mark"}
    BY DEF RuleWorkerWill
  <1>2. rrule.spec = ruleCache[r]
    BY <1>1 DEF WakeupInv, CarriedIsCached, CachedSteps
  <1>3. rnodes \in [Nodes -> NodeOrNull]
    BY DEF TypeOK, RuleReconcilerTypeOK
  <1>4. \A node : SameView(node, apiNode[n]) =>
           /\ node # Null
           /\ ruleAppliesTo(rrule.spec, node)
           /\ TaintAction(rrule.spec, node) # "none"
           /\ SameView(node, apiNode'[n])
    <2>1. TAKE node
    <2>2. SameView(node, apiNode[n]) => SameView(node, apiNode'[n])
      BY ViewsCompose DEF LooksAsBefore
    <2>3. QED
      BY <1>2, <2>2, ViewDecides DEF Due, Enforces, SameView
  <1>5. CASE RuleListNodes
    <2>1. SameView(nodeStore[n], apiNode[n])
      BY <1>5 DEF RuleListNodes, RuleWorkerWill
    <2>2. rnodes'[n] = nodeStore[n] /\ rpc' = "evaluate" /\ rname' = r
      BY <1>1, <1>4, <1>5, <2>1 DEF RuleListNodes, RuleStepTo
    <2>3. QED
      BY <1>4, <2>1, <2>2 DEF RuleWorkerWill
  <1>6. CASE RuleEvaluate
    <2>1. SameView(rnodes[n], apiNode[n])
      BY <1>6 DEF RuleEvaluate, RuleWorkerWill
    <2>2. PICK m \in Nodes :
             /\ rnodes' = [rnodes EXCEPT ![m] = Null]
             /\ \/ PatchTaints(m, TaintsAfter(rrule.spec, rnodes[m]))
                \/ PatchFails(m)
      BY <1>6 DEF RuleEvaluate
    <2>3. m # n
      <3>1. SUFFICES ASSUME m = n PROVE FALSE
        OBVIOUS
      <3>2. ~PatchFails(n)
        BY DEF PatchFails, Spend, WakeupInv, Due
      <3>3. PatchTaints(n, TaintsAfter(rrule.spec, rnodes[n]))
        BY <2>2, <3>1, <3>2
      <3>4. QED
        BY <1>4, <2>1, <3>3, PatchChangesView DEF LooksAsBefore
    <2>4. rnodes'[n] = rnodes[n] /\ rpc' \in {"evaluate", "mark"} /\ rname' = r
      BY <1>1, <1>3, <1>6, <2>2, <2>3 DEF RuleEvaluate
    <2>5. QED
      BY <1>4, <2>1, <2>4 DEF RuleWorkerWill
  <1>7. CASE RuleMark
    <2>1. SameView(rnodes[n], apiNode[n])
      BY <1>7 DEF RuleMark, RuleWorkerWill
    <2>2. rnodes' = rnodes /\ rpc' = "evaluate" /\ rname' = r
      BY <1>1, <1>7 DEF RuleMark, RuleStepTo
    <2>3. QED
      BY <1>4, <2>1, <2>2 DEF RuleWorkerWill
  <1>8. ~RuleEvaluateEnd
    <2>1. SUFFICES ASSUME RuleEvaluateEnd PROVE FALSE
      OBVIOUS
    <2>2. rnodes[n] = Null
      BY <2>1 DEF RuleEvaluateEnd, NoNodes
    <2>3. SameView(rnodes[n], apiNode[n])
      BY <2>1 DEF RuleEvaluateEnd, RuleWorkerWill
    <2>4. QED
      BY <2>2, <2>3 DEF SameView
  <1>9. QED
    BY <1>1, <1>5, <1>6, <1>7, <1>8
    DEF RuleReconcilerNext, RuleGet, cleanupTaintsForRule, CleanupList, CleanupStep, CleanupEnd,
        RuleRemoveFinalizer, RuleUncache, RuleAddFinalizer, RuleRefresh, RuleSelector,
        cleanupNodesAfterSelectorChange, RuleUpdateCache, processDryRun, updateRuleStatus,
        cleanupDeletedNodes

\* The rule worker puts another spec into the cache, or leaves the rule alone.
LEMMA RuleWorkerTakesOver ==
    ASSUME TypeOK, NEW n \in Nodes, NEW r \in Rules, LooksAsBefore(n), Due(n, r)', RuleWorkerStep,
           ~Crash
    PROVE  ruleCache'[r] = ruleCache[r] \/ RuleWorkerWill(n, r)'
  <1>1. ruleCache'[r] # Null /\ ~ruleCache'[r].dryRun
    BY DEF Due, Enforces
  <1>2. ruleCache \in [Rules -> SpecOrNull]
    BY DEF TypeOK, RuleCacheTypeOK
  <1>3. ASSUME NEW q \in Rules, removeRuleFromCache(q)
        PROVE  ruleCache'[r] = ruleCache[r]
    BY <1>1, <1>2, <1>3 DEF removeRuleFromCache
  <1>4. ASSUME NEW q \in Rules, RuleGet(q)
        PROVE  ruleCache'[r] = ruleCache[r]
    BY <1>3, <1>4 DEF RuleGet
  <1>5. CASE RuleUncache
    <2>1. rname \in Rules
      BY <1>5 DEF RuleUncache, TypeOK, RuleReconcilerTypeOK
    <2>2. QED
      BY <1>3, <1>5, <2>1 DEF RuleUncache
  <1>6. CASE RuleUpdateCache
    <2>1. ruleCache' = [ruleCache EXCEPT ![rname] = rrule.spec]
      BY <1>6 DEF RuleUpdateCache, updateRuleCache
    <2>2. CASE rname # r
      BY <1>2, <2>1, <2>2
    <2>3. CASE rname = r
      <3>1. ~rrule.spec.dryRun
        BY <1>1, <1>2, <2>1, <2>3
      <3>2. rpc' = "list" /\ rname' = r
        BY <1>6, <2>3, <3>1 DEF RuleUpdateCache, RuleStepTo
      <3>3. QED
        BY <3>2 DEF RuleWorkerWill, LooksAsBefore
    <2>4. QED
      BY <2>2, <2>3
  <1>7. QED
    BY <1>4, <1>5, <1>6 DEF RuleWorkerStep, ruleWork, RuleRefresh

\* Every step keeps a worker on a node that needs one.
LEMMA WakeupStep ==
    ASSUME NoEmptyLabels, TypeOK, RuleInv, NodesCatchUp, WakeupInv, [Next]_vars,
           NEW n \in Nodes, NEW r \in Rules, Unannounced(n, r)'
    PROVE  WorkerWill(n, r)'
  <1>1. /\ ~Crash
        /\ LooksAsBefore(n)
        /\ n \in nodeQueue => NodeGet(n)
        /\ ruleCache'[r] = ruleCache[r] =>
              Due(n, r) /\ (n \in nodeQueue \/ WorkerWill(n, r))
    BY StillWaiting
  <1>2. ruleCache'[r] = ruleCache[r] \/ RuleWorkerWill(n, r)'
    BY <1>1, NextIsRuleStep, RuleWorkerTakesOver DEF Unannounced
  <1>3. CASE n \in nodeQueue
    BY <1>1, <1>3, TakenUp DEF WorkerWill
  <1>4. CASE ruleCache'[r] = ruleCache[r] /\ n \notin nodeQueue
    <2>1. Due(n, r) /\ (NodeWorkerWill(n, r) \/ RuleWorkerWill(n, r))
      BY <1>1, <1>4 DEF WorkerWill
    <2>2. CASE NodeProcess
      BY <1>1, <1>4, <2>1, <2>2, NodeWorkerGoesOn, RuleWorkerKeepsNode DEF NodeProcess, WorkerWill
    <2>3. CASE RuleProcess
      BY <1>1, <1>4, <2>1, <2>3, NodeWorkerKeepsNode, RuleWorkerGoesOn DEF RuleProcess, WorkerWill
    <2>4. CASE UNCHANGED <<nodeReconcilerVars, ruleReconcilerVars>>
      BY <1>1, <1>4, <2>1, <2>4, NodeWorkerKeepsNode, RuleWorkerKeepsNode DEF WorkerWill
    <2>5. QED
      BY <1>1, <2>2, <2>3, <2>4 DEF Next, Surroundings, Rest, vars
  <1>5. QED
    BY <1>2, <1>3, <1>4 DEF WorkerWill

\* The inductive step of WakeupInv.
LEMMA WakeupInductive ==
    ASSUME NoEmptyLabels, TypeOK, RuleInv, NodesCatchUp, WakeupInv, [Next]_vars
    PROVE  WakeupInv'
  <1>1. quota'["fault"] = 0
    BY SpentStaysSpent DEF WakeupInv, EventKinds
  <1>2. ChangesNoticed'
    BY NextIsNodeStep, StepIsNoticed DEF WakeupInv
  <1>3. IdleHasNone' /\ CarriedIsCached'
    BY IdleKeepsNone, NextIsRuleStep, CarriedStaysCached DEF WakeupInv
  <1>4. NoLostWakeup'
    <2> SUFFICES ASSUME NEW n \in Nodes, NEW r \in Rules, Due(n, r)'
                 PROVE  WakeupOnTheWay(n)' \/ WorkerWill(n, r)'
      BY DEF NoLostWakeup, Due, WorkerWill
    <2>1. CASE Unannounced(n, r)'
      BY <2>1, WakeupStep
    <2>2. CASE ~Unannounced(n, r)'
      <3>1. (n \in nodeQueue \/ NoticedAfter(n, 0))'
        BY <2>2 DEF Unannounced
      <3>2. (n \in nodeQueue \/ NoticedAfter(n, 0))' => WakeupOnTheWay(n)'
        BY WakeupIsNoticed, PTL
      <3>3. QED
        BY <3>1, <3>2
    <2>3. QED
      BY <2>1, <2>2
  <1>5. QED
    BY <1>1, <1>2, <1>3, <1>4 DEF WakeupInv

\* Neither reconciler polls, and the node reconciler never requeues. Still, as long
\* as no patch fails and no label has an empty value, a node that is not as a cached
\* rule wants it is never forgotten: something that will make a worker look at this
\* very state of the node is queued or under way.
THEOREM WakeupsAreNeverLost ==
    ASSUME NoEmptyLabels, NoFaults
    PROVE  SafeSpec => []NoLostWakeup
  <1>1. Init => WakeupInv
    <2> SUFFICES ASSUME Init PROVE WakeupInv
      OBVIOUS
    <2>1. quota["fault"] = 0
      BY NoFaults DEF Init, ClusterInit, NoFaults
    <2>2. ChangesNoticed
      <3> SUFFICES ASSUME NEW n \in Nodes, NEW i \in 0..Len(nodeWatch[n])
                   PROVE  Leads(Version(n, i), apiNode[n])
        BY DEF ChangesNoticed
      <3>1. nodeWatch[n] = <<>> /\ nodeStore[n] = apiNode[n] /\ apiNode[n] \in NodeOrNull
        BY InitAssumption DEF Init, ClusterInit
      <3>2. i = 0
        BY <3>1
      <3>3. QED
        BY <3>1, <3>2, LeadsCompose DEF Version
    <2>3. IdleHasNone /\ CarriedIsCached
      BY DEF Init, NodeReconcilerInit, RuleReconcilerInit, IdleHasNone, CarriedIsCached, CachedSteps
    <2>4. NoLostWakeup
      BY DEF Init, NoRules, NoLostWakeup
    <2>5. QED
      BY <2>1, <2>2, <2>3, <2>4 DEF WakeupInv
  <1>2. IInv /\ NodesCatchUp /\ WakeupInv /\ [Next]_vars => WakeupInv'
    BY WakeupInductive DEF IInv
  <1>3. WakeupInv => NoLostWakeup
    BY DEF WakeupInv
  <1>4. QED
    BY <1>1, <1>2, <1>3, Inductive, NodeInformerCatchesUp, PTL DEF SafeSpec
=============================================================================
