-------------------------- MODULE NodeWritesProofs --------------------------
(***************************************************************************)
(* What the steps of the system may do to a node object, for every number  *)
(* of nodes, rules, specs and events.                                      *)
(***************************************************************************)
EXTENDS ReadinessSystemProofs

nodeObjects == <<apiNode, nodeWatch, nodeStore>>

\* A write by anyone that leaves the completion marks of an existing node alone; only
\* a node that joins did not exist.
PlainWrite ==
    \E n \in Nodes, node \in NodeOrNull :
        /\ WriteNode(n, node)
        /\ UNCHANGED nodeStore
        /\ apiNode[n] # Null \/ Spend("join")
        /\ apiNode[n] # Null /\ node # Null => node.completed = apiNode[n].completed

\* The Update of markBootstrapCompleted.
MarkingWrite ==
    \E n \in Nodes, r \in Rules :
        /\ nodeStore[n] # Null
        /\ nodeWatch[n] = <<>>
        /\ WriteNode(n, [nodeStore[n] EXCEPT !.completed = @ \union {r}])
        /\ UNCHANGED nodeStore

NodeStep ==
    \/ UNCHANGED nodeObjects
    \/ PlainWrite
    \/ MarkingWrite
    \/ \E n \in Nodes : DeliverNode(n)
    \/ Crash

\* A patch changes a node's taints only.
LEMMA PatchIsPlain ==
    ASSUME ClusterTypeOK, NEW n \in Nodes, NEW taints \in SUBSET Taints, PatchTaints(n, taints),
           UNCHANGED nodeStore
    PROVE  PlainWrite
  <1> DEFINE node == [apiNode[n] EXCEPT !.taints = taints]
  <1>1. apiNode[n] \in Node
    BY DEF ClusterTypeOK, NodeOrNull, PatchTaints
  <1>2. node \in NodeOrNull /\ node.completed = apiNode[n].completed
    BY <1>1 DEF Node, NodeOrNull
  <1>3. WriteNode(n, node) /\ apiNode[n] # Null
    BY DEF PatchTaints
  <1> HIDE DEF node
  <1>4. QED
    BY <1>2, <1>3 DEF PlainWrite

\* A mark is written to a current copy, or not at all.
LEMMA MarkIsMarking ==
    ASSUME NEW n \in Nodes, NEW r \in Rules, markBootstrapCompleted(n, r), UNCHANGED nodeStore
    PROVE  UNCHANGED nodeObjects \/ MarkingWrite
  BY DEF markBootstrapCompleted, nodeObjects, nodesKept, MarkingWrite, NodeFresh

\* The environment leaves the marks of a node that stays alone.
LEMMA EventIsPlain ==
    ASSUME ClusterTypeOK, EnvironmentNext
    PROVE  NodeStep
  <1>1. ASSUME NEW n \in Nodes, NEW kind, NEW node \in NodeOrNull, NodeEvent(kind, n, node),
               apiNode[n] # Null \/ kind = "join",
               apiNode[n] # Null /\ node # Null => node.completed = apiNode[n].completed
        PROVE  NodeStep
    BY <1>1 DEF NodeEvent, NodeStep, PlainWrite
  <1>2. ASSUME NEW n \in Nodes, apiNode[n] # Null
        PROVE  apiNode[n] \in Node
    BY <1>2 DEF ClusterTypeOK, NodeOrNull
  <1>3. ASSUME NEW n \in Nodes, SetCondition(n)
        PROVE  NodeStep
    <2>1. PICK type \in CondTypes, status \in ReportedStatus :
             NodeEvent("condition", n, [apiNode[n] EXCEPT !.conditions[type] = status])
      BY <1>3 DEF SetCondition
    <2> DEFINE node == [apiNode[n] EXCEPT !.conditions[type] = status]
    <2>2. apiNode[n] \in Node
      BY <1>2, <1>3 DEF SetCondition
    <2>3. [apiNode[n].conditions EXCEPT ![type] = status] \in [CondTypes -> Status \union {Missing}]
      BY <2>2, UpdateAssumption DEF Node
    <2>4. node \in NodeOrNull /\ node.completed = apiNode[n].completed
      BY <2>2, <2>3 DEF Node, NodeOrNull
    <2> HIDE DEF node
    <2>5. QED
      BY <1>1, <1>3, <2>1, <2>4 DEF node, SetCondition
  <1>4. ASSUME NEW n \in Nodes, SetLabels(n)
        PROVE  NodeStep
    <2>1. PICK labels \in LabelUpdates :
             NodeEvent("label", n, [apiNode[n] EXCEPT !.labels = labels])
      BY <1>4 DEF SetLabels
    <2> DEFINE node == [apiNode[n] EXCEPT !.labels = labels]
    <2>2. apiNode[n] \in Node
      BY <1>2, <1>4 DEF SetLabels
    <2>3. node \in NodeOrNull /\ node.completed = apiNode[n].completed
      BY <2>2, UpdateAssumption DEF Node, NodeOrNull
    <2>4. QED
      BY <1>1, <1>4, <2>1, <2>3 DEF SetLabels
  <1>5. ASSUME NEW n \in Nodes, ToggleTaint(n)
        PROVE  NodeStep
    <2>1. PICK t \in Taints :
             NodeEvent("taint", n, [apiNode[n] EXCEPT !.taints =
                                       IF t \in @ THEN @ \ {t} ELSE @ \union {t}])
      BY <1>5 DEF ToggleTaint
    <2> DEFINE node == [apiNode[n] EXCEPT !.taints = IF t \in @ THEN @ \ {t} ELSE @ \union {t}]
    <2>2. apiNode[n] \in Node
      BY <1>2, <1>5 DEF ToggleTaint
    <2>3. node \in NodeOrNull /\ node.completed = apiNode[n].completed
      BY <2>2 DEF Node, NodeOrNull
    <2>4. QED
      BY <1>1, <1>5, <2>1, <2>3 DEF ToggleTaint
  <1>6. ASSUME NEW n \in Nodes, JoinNode(n) \/ LeaveNode(n)
        PROVE  NodeStep
    BY <1>1, <1>6, UpdateAssumption DEF JoinNode, LeaveNode, NodeOrNull
  <1>7. ASSUME NEW r \in Rules, CreateRule(r) \/ EditRule(r) \/ DeleteRule(r)
        PROVE  NodeStep
    BY <1>7 DEF CreateRule, EditRule, DeleteRule, RuleEvent, NodeStep, nodeObjects, nodesKept
  <1>8. QED
    BY <1>3, <1>4, <1>5, <1>6, <1>7 DEF EnvironmentNext

\* The node worker writes a node through a patch or a mark.
LEMMA NodeWorkerWrites ==
    ASSUME TypeOK, NodeReconcilerNext
    PROVE  NodeStep
  <1>1. CASE NodeEvaluate
    <2> DEFINE after == TaintsAfter(nrules[ncur], nnode)
    <2>1. nname \in Nodes /\ ncur \in Rules /\ nnode \in Node /\ nrules[ncur] \in Specs
      BY <1>1 DEF NodeEvaluate, TypeOK, NodeReconcilerTypeOK, NodeOrNull, SpecOrNull
    <2>2. after \in SUBSET Taints
      BY <2>1, TaintsType
    <2>3. UNCHANGED nodesKept \/ PatchTaints(nname, after)
      BY <1>1 DEF NodeEvaluate, PatchFails
    <2>4. UNCHANGED nodeStore
      BY <1>1 DEF NodeEvaluate
    <2> HIDE DEF after
    <2>5. QED
      BY <2>1, <2>2, <2>3, <2>4, PatchIsPlain DEF NodeStep, nodeObjects, nodesKept, TypeOK
  <1>2. CASE NodeMark
    <2>1. nname \in Nodes /\ ncur \in Rules
      BY <1>2 DEF NodeMark, TypeOK, NodeReconcilerTypeOK
    <2>2. QED
      BY <1>2, <2>1, MarkIsMarking DEF NodeMark, NodeStep
  <1>3. CASE UNCHANGED <<nodesKept, nodeStore>>
    BY <1>3 DEF NodeStep, nodeObjects, nodesKept
  <1>4. QED
    BY <1>1, <1>2, <1>3
    DEF NodeReconcilerNext, NodeGet, getApplicableRulesForNode, NodePickRule, NodePersistStatus

\* So does the rule worker.
LEMMA RuleWorkerWrites ==
    ASSUME TypeOK, RuleReconcilerNext
    PROVE  NodeStep
  <1>1. ASSUME NEW step, CleanupStep(step), step # "idle"
        PROVE  NodeStep
    <2>1. PICK n \in Nodes :
             /\ rnodes[n] # Null
             /\ PatchTaints(n, removeTaintBySpec(rnodes[n], rrule.spec)) \/ PatchFails(n)
      BY <1>1 DEF CleanupStep
    <2>2. rnodes[n] \in Node /\ rrule \in Rule /\ UNCHANGED nodeStore
      BY <1>1, <2>1 DEF CleanupStep, TypeOK, RuleReconcilerTypeOK, NodeOrNull, RuleOrNull
    <2>3. removeTaintBySpec(rnodes[n], rrule.spec) \in SUBSET Taints
      BY <2>2, TaintsType DEF Rule
    <2>4. QED
      BY <2>1, <2>2, <2>3, PatchIsPlain DEF PatchFails, NodeStep, nodeObjects, nodesKept, TypeOK
  <1>2. CASE RuleEvaluate
    <2>1. PICK n \in Nodes :
             /\ rnodes[n] # Null
             /\ PatchTaints(n, TaintsAfter(rrule.spec, rnodes[n])) \/ PatchFails(n)
      BY <1>2 DEF RuleEvaluate
    <2>2. rnodes[n] \in Node /\ rrule \in Rule /\ UNCHANGED nodeStore
      BY <1>2, <2>1 DEF RuleEvaluate, TypeOK, RuleReconcilerTypeOK, NodeOrNull, RuleOrNull
    <2>3. TaintsAfter(rrule.spec, rnodes[n]) \in SUBSET Taints
      BY <2>2, TaintsType DEF Rule
    <2>4. QED
      BY <2>1, <2>2, <2>3, PatchIsPlain DEF PatchFails, NodeStep, nodeObjects, nodesKept, TypeOK
  <1>3. CASE RuleMark
    <2>1. rcur \in Nodes /\ rname \in Rules
      BY <1>3 DEF RuleMark, TypeOK, RuleReconcilerTypeOK
    <2>2. QED
      BY <1>3, <2>1, MarkIsMarking DEF RuleMark, NodeStep
  <1>4. CASE UNCHANGED nodeSideKept
    BY <1>4 DEF NodeStep, nodeObjects, nodesKept, nodeSideKept
  <1>5. QED
    BY <1>1, <1>2, <1>3, <1>4
    DEF RuleReconcilerNext, RuleGet, cleanupTaintsForRule, CleanupList, CleanupEnd,
        RuleRemoveFinalizer, RuleUncache, RuleAddFinalizer, RuleRefresh, RuleSelector,
        cleanupNodesAfterSelectorChange, RuleUpdateCache, processDryRun, RuleListNodes, RuleEvaluateEnd,
        updateRuleStatus, cleanupDeletedNodes

\* Every step of the system is one of the five kinds.
LEMMA NextIsNodeStep ==
    ASSUME TypeOK, [Next]_vars
    PROVE  NodeStep
  <1>1. CASE UNCHANGED vars
    BY <1>1 DEF vars, clusterVars, NodeStep, nodeObjects
  <1>2. CASE Surroundings
    <2>1. ASSUME NEW r \in Rules, DeliverRule(r)
          PROVE  NodeStep
      BY <2>1 DEF DeliverRule, NodeStep, nodeObjects
    <2>2. QED
      BY <1>2, <2>1, EventIsPlain DEF Surroundings, InformerNext, NodeStep, TypeOK
  <1>3. QED
    BY <1>1, <1>2, NodeWorkerWrites, RuleWorkerWrites DEF Next, NodeProcess, RuleProcess, Rest, NodeStep

-----------------------------------------------------------------------------
(* Bootstrap marks *)

\* A write keeps the informer's last version the current one.
LEMMA WriteNodeCatchesUp ==
    ASSUME ClusterTypeOK, NodesCatchUp, NEW n \in Nodes, NEW node \in NodeOrNull,
           WriteNode(n, node), UNCHANGED nodeStore
    PROVE  NodesCatchUp'
  <1>1. /\ apiNode'[n] = node
        /\ nodeWatch'[n] = IF node = apiNode[n] THEN nodeWatch[n] ELSE Append(nodeWatch[n], node)
        /\ \A m \in Nodes \ {n} : apiNode'[m] = apiNode[m] /\ nodeWatch'[m] = nodeWatch[m]
    BY DEF WriteNode, ClusterTypeOK
  <1>2. nodeWatch[n] \in Seq(NodeOrNull)
    BY DEF ClusterTypeOK
  <1>3. /\ Append(nodeWatch[n], node) # <<>>
        /\ Append(nodeWatch[n], node)[Len(Append(nodeWatch[n], node))] = node
    BY <1>2
  <1>4. CASE node = apiNode[n]
    BY <1>1, <1>4 DEF NodesCatchUp
  <1>5. CASE node # apiNode[n]
    BY <1>1, <1>3, <1>5, Zenon DEF NodesCatchUp
  <1>6. QED
    BY <1>4, <1>5

\* So does every other step.
LEMMA NodesCatchUpStep ==
    ASSUME TypeOK, NodesCatchUp, NodeStep
    PROVE  NodesCatchUp'
  <1>1. CASE UNCHANGED nodeObjects
    BY <1>1 DEF nodeObjects, NodesCatchUp
  <1>2. CASE PlainWrite
    BY <1>2, WriteNodeCatchesUp DEF PlainWrite, TypeOK
  <1>3. CASE MarkingWrite
    <2>1. PICK n \in Nodes, r \in Rules :
             /\ nodeStore[n] # Null
             /\ WriteNode(n, [nodeStore[n] EXCEPT !.completed = @ \union {r}])
             /\ UNCHANGED nodeStore
      BY <1>3 DEF MarkingWrite
    <2>2. nodeStore[n] \in Node
      BY <2>1 DEF TypeOK, ClusterTypeOK, NodeOrNull
    <2>3. [nodeStore[n] EXCEPT !.completed = @ \union {r}] \in NodeOrNull
      BY <2>2 DEF Node, NodeOrNull
    <2>4. QED
      BY <2>1, <2>3, WriteNodeCatchesUp DEF TypeOK
  <1>4. ASSUME NEW n \in Nodes, DeliverNode(n)
        PROVE  NodesCatchUp'
    <2> DEFINE watch == nodeWatch[n]
               rest == Tail(watch)
    <2>1. watch \in Seq(NodeOrNull) /\ watch # <<>>
      BY <1>4 DEF DeliverNode, TypeOK, ClusterTypeOK
    <2>2. /\ nodeWatch'[n] = rest
          /\ nodeStore'[n] = watch[1]
          /\ \A m \in Nodes \ {n} : nodeWatch'[m] = nodeWatch[m] /\ nodeStore'[m] = nodeStore[m]
          /\ UNCHANGED apiNode
      BY <1>4, <2>1 DEF DeliverNode, TypeOK, ClusterTypeOK
    <2>3. watch[Len(watch)] = apiNode[n]
      BY <2>1 DEF NodesCatchUp
    <2>4. rest \in Seq(NodeOrNull) /\ Len(rest) = Len(watch) - 1 /\ Len(watch) \in Nat
      BY <2>1
    <2>5. \A i \in DOMAIN rest : rest[i] = watch[i + 1]
      BY <2>1
    <2> HIDE DEF rest, watch
    <2>6. rest = <<>> => watch[1] = apiNode[n]
      <3>1. rest = <<>> => Len(rest) = 0
        OBVIOUS
      <3>2. Len(rest) = 0 => Len(watch) = 1
        BY <2>4
      <3>3. QED
        BY <2>3, <3>1, <3>2
    <2>7. rest # <<>> => rest[Len(rest)] = apiNode[n]
      <3>1. rest # <<>> => Len(rest) \in DOMAIN rest
        BY <2>4
      <3>2. Len(rest) + 1 = Len(watch)
        BY <2>4
      <3>3. QED
        BY <2>3, <2>5, <3>1, <3>2, Zenon
    <2>8. QED
      BY <2>2, <2>6, <2>7, Zenon DEF NodesCatchUp
  <1>5. CASE Crash
    BY <1>5 DEF Crash, NodesCatchUp
  <1>6. QED
    BY <1>1, <1>2, <1>3, <1>4, <1>5 DEF NodeStep

\* In the states that have both invariants, a step that changes marks only adds them.
LEMMA MarkingStep ==
    ASSUME TypeOK, NodesCatchUp, NodeStep, NEW n \in Nodes,
           apiNode[n] # Null, apiNode'[n] # Null, apiNode'[n].completed # apiNode[n].completed
    PROVE  /\ apiNode[n].completed \subseteq apiNode'[n].completed
           /\ SameView(apiNode[n], apiNode'[n])
  <1>1. apiNode'[n] # apiNode[n]
    OBVIOUS
  <1>2. ~PlainWrite
    <2>1. SUFFICES ASSUME PlainWrite PROVE FALSE
      OBVIOUS
    <2>2. PICK m \in Nodes, node \in NodeOrNull :
             /\ WriteNode(m, node)
             /\ apiNode[m] # Null /\ node # Null => node.completed = apiNode[m].completed
      BY <2>1 DEF PlainWrite
    <2>3. apiNode' = [apiNode EXCEPT ![m] = node]
      BY <2>2 DEF WriteNode
    <2>4. m = n /\ apiNode'[n] = node
      BY <1>1, <2>3 DEF TypeOK, ClusterTypeOK
    <2>5. QED
      BY <2>2, <2>4
  <1>3. MarkingWrite
    BY <1>1, <1>2 DEF NodeStep, nodeObjects, DeliverNode, Crash
  <1>4. PICK m \in Nodes, r \in Rules :
           /\ nodeStore[m] # Null
           /\ nodeWatch[m] = <<>>
           /\ WriteNode(m, [nodeStore[m] EXCEPT !.completed = @ \union {r}])
    BY <1>3 DEF MarkingWrite
  <1>5. nodeStore[m] = apiNode[m]
    BY <1>4 DEF NodesCatchUp
  <1>6. apiNode' = [apiNode EXCEPT ![m] = [apiNode[m] EXCEPT !.completed = @ \union {r}]]
    BY <1>4, <1>5 DEF WriteNode
  <1>7. m = n /\ apiNode'[n] = [apiNode[n] EXCEPT !.completed = @ \union {r}]
    BY <1>1, <1>6 DEF TypeOK, ClusterTypeOK
  <1>8. apiNode[n] \in Node
    BY DEF TypeOK, ClusterTypeOK, NodeOrNull
  <1>9. QED
    BY <1>7, <1>8 DEF Node, SameView

\* The informer's last version of every node is the current one.
THEOREM NodeInformerCatchesUp ==
    SafeSpec => []NodesCatchUp
  <1>1. Init => NodesCatchUp
    BY DEF Init, ClusterInit, NodesCatchUp
  <1>2. TypeOK /\ NodesCatchUp /\ [Next]_vars => NodesCatchUp'
    BY NextIsNodeStep, NodesCatchUpStep
  <1>3. QED
    BY <1>1, <1>2, TypeCorrect, PTL DEF SafeSpec

\* markBootstrapCompleted writes back a whole node object it read from the informer;
\* still no step loses a completion mark of a node that stays, or undoes anybody's
\* change to the node together with a change to the marks.
THEOREM MarkingIsAlwaysIsolated ==
    SafeSpec => MarkingIsIsolated
  <1> DEFINE Isolated ==
        \A n \in Nodes :
          /\ apiNode[n] # Null /\ apiNode'[n] # Null
          /\ apiNode'[n].completed # apiNode[n].completed
          => /\ apiNode[n].completed \subseteq apiNode'[n].completed
             /\ SameView(apiNode[n], apiNode'[n])
  <1>1. TypeOK /\ NodesCatchUp /\ [Next]_vars => [Isolated]_vars
    BY NextIsNodeStep, MarkingStep
  <1>2. QED
    BY <1>1, TypeCorrect, NodeInformerCatchesUp, PTL DEF SafeSpec, MarkingIsIsolated
=============================================================================
