------------------------ MODULE ReadinessSystemProofs ------------------------
(***************************************************************************)
(* For every number of nodes, rules, specs and events: the type invariant, *)
(* and that every enforced rule has its finalizer.                         *)
(***************************************************************************)
EXTENDS ReadinessSystem, TLAPS

(* What the writes of Cluster keep *)

\* Spending an event leaves every quota a natural number.
LEMMA SpendType ==
    ASSUME quota \in [EventKinds -> Nat], NEW kind \in EventKinds, Spend(kind)
    PROVE  quota' \in [EventKinds -> Nat]
  BY DEF Spend

\* A write of a well-formed node keeps the nodes and their versions well-formed.
LEMMA WriteNodeType ==
    ASSUME ClusterTypeOK, NEW n \in Nodes, NEW node \in NodeOrNull, WriteNode(n, node)
    PROVE  /\ apiNode' \in [Nodes -> NodeOrNull]
           /\ nodeWatch' \in [Nodes -> Seq(NodeOrNull)]
  <1>1. Append(nodeWatch[n], node) \in Seq(NodeOrNull)
    BY DEF ClusterTypeOK
  <1>2. QED
    BY <1>1 DEF ClusterTypeOK, WriteNode

\* A write of a well-formed rule keeps the rules, their versions and held well-formed.
LEMMA WriteRuleType ==
    ASSUME ClusterTypeOK, NEW r \in Rules, NEW rule \in RuleOrNull, WriteRule(r, rule)
    PROVE  /\ apiRule' \in [Rules -> RuleOrNull]
           /\ ruleWatch' \in [Rules -> Seq(RuleOrNull)]
           /\ held' \in Rules \union {Null}
  <1>1. Append(ruleWatch[r], rule) \in Seq(RuleOrNull)
    BY DEF ClusterTypeOK
  <1>2. QED
    BY <1>1 DEF ClusterTypeOK, WriteRule

\* Taints computed from a well-formed copy are taints.
LEMMA TaintsType ==
    ASSUME NEW spec \in Specs, NEW node \in Node
    PROVE  /\ addTaintBySpec(node, spec) \in SUBSET Taints
           /\ removeTaintBySpec(node, spec) \in SUBSET Taints
           /\ TaintsAfter(spec, node) \in SUBSET Taints
  <1>1. spec.taint \in Taints
    BY SpecsAssumption DEF NodeReadinessRuleSpec
  <1>2. node.taints \in SUBSET Taints
    BY DEF Node
  <1>3. addTaintBySpec(node, spec) \in SUBSET Taints
    BY <1>1, <1>2 DEF addTaintBySpec
  <1>4. removeTaintBySpec(node, spec) \in SUBSET Taints
    BY <1>2 DEF removeTaintBySpec
  <1>5. TaintsAfter(spec, node) \in {addTaintBySpec(node, spec), removeTaintBySpec(node, spec), node.taints}
    BY DEF TaintsAfter
  <1>6. QED
    BY <1>2, <1>3, <1>4, <1>5

\* A successful patch keeps the nodes well-formed.
LEMMA PatchTaintsType ==
    ASSUME ClusterTypeOK, NEW n \in Nodes, NEW taints \in SUBSET Taints, PatchTaints(n, taints)
    PROVE  /\ apiNode' \in [Nodes -> NodeOrNull]
           /\ apiNode'[n] \in Node
           /\ nodeWatch' \in [Nodes -> Seq(NodeOrNull)]
           /\ quota' \in [EventKinds -> Nat]
  <1> DEFINE node == [apiNode[n] EXCEPT !.taints = taints]
  <1>1. apiNode[n] \in Node
    BY DEF ClusterTypeOK, NodeOrNull, PatchTaints
  <1>2. node \in Node
    BY <1>1 DEF Node
  <1>3. WriteNode(n, node) /\ quota' = quota
    BY DEF PatchTaints
  <1>4. apiNode' \in [Nodes -> NodeOrNull] /\ nodeWatch' \in [Nodes -> Seq(NodeOrNull)]
    BY <1>2, <1>3, WriteNodeType DEF NodeOrNull
  <1>5. apiNode'[n] = node
    BY <1>3 DEF WriteNode, ClusterTypeOK
  <1>6. QED
    BY <1>2, <1>3, <1>4, <1>5 DEF ClusterTypeOK

\* A failed patch keeps them too.
LEMMA PatchFailsType ==
    ASSUME ClusterTypeOK, NEW n \in Nodes, PatchFails(n)
    PROVE  /\ apiNode' \in [Nodes -> NodeOrNull]
           /\ nodeWatch' \in [Nodes -> Seq(NodeOrNull)]
           /\ quota' \in [EventKinds -> Nat]
  <1>1. quota' \in [EventKinds -> Nat]
    BY SpendType DEF PatchFails, ClusterTypeOK, EventKinds
  <1>2. QED
    BY <1>1 DEF PatchFails, nodesKept, ClusterTypeOK

\* So does marking a node, however it ends.
LEMMA MarkType ==
    ASSUME ClusterTypeOK, NEW n \in Nodes, NEW r \in Rules, markBootstrapCompleted(n, r)
    PROVE  /\ apiNode' \in [Nodes -> NodeOrNull]
           /\ nodeWatch' \in [Nodes -> Seq(NodeOrNull)]
           /\ quota' \in [EventKinds -> Nat]
  <1> DEFINE node == [nodeStore[n] EXCEPT !.completed = @ \union {r}]
  <1>1. CASE UNCHANGED <<nodesKept, quota>>
    BY <1>1 DEF ClusterTypeOK, nodesKept
  <1>2. CASE nodeStore[n] # Null /\ WriteNode(n, node) /\ UNCHANGED quota
    <2>1. nodeStore[n] \in Node
      BY <1>2 DEF ClusterTypeOK, NodeOrNull
    <2>2. node \in NodeOrNull
      BY <2>1 DEF Node, NodeOrNull
    <2>3. QED
      BY <1>2, <2>2, WriteNodeType DEF ClusterTypeOK
  <1>3. CASE Spend("fault") /\ UNCHANGED nodesKept
    BY <1>3, SpendType DEF ClusterTypeOK, nodesKept, EventKinds
  <1>4. QED
    BY <1>1, <1>2, <1>3 DEF markBootstrapCompleted, nodesKept

-----------------------------------------------------------------------------
(* Type correctness, process by process *)

\* An event of the environment that writes a node.
LEMMA NodeEventType ==
    ASSUME ClusterTypeOK, NEW kind \in EventKinds, NEW n \in Nodes, NEW node \in NodeOrNull,
           NodeEvent(kind, n, node)
    PROVE  ClusterTypeOK'
  <1>1. quota' \in [EventKinds -> Nat]
    BY SpendType DEF NodeEvent, ClusterTypeOK
  <1>2. apiNode' \in [Nodes -> NodeOrNull] /\ nodeWatch' \in [Nodes -> Seq(NodeOrNull)]
    BY WriteNodeType DEF NodeEvent
  <1>3. QED
    BY <1>1, <1>2 DEF NodeEvent, ClusterTypeOK, rulesKept

\* An event of the environment that writes a rule.
LEMMA RuleEventType ==
    ASSUME ClusterTypeOK, NEW kind \in EventKinds, NEW r \in Rules, NEW rule \in RuleOrNull,
           RuleEvent(kind, r, rule)
    PROVE  ClusterTypeOK'
  <1>1. quota' \in [EventKinds -> Nat]
    BY SpendType DEF RuleEvent, ClusterTypeOK
  <1>2. /\ apiRule' \in [Rules -> RuleOrNull]
        /\ ruleWatch' \in [Rules -> Seq(RuleOrNull)]
        /\ held' \in Rules \union {Null}
    BY WriteRuleType DEF RuleEvent
  <1>3. QED
    BY <1>1, <1>2 DEF RuleEvent, ClusterTypeOK, nodesKept

\* People, kubelets and reporters write well-formed objects.
LEMMA EnvironmentType ==
    ASSUME ClusterTypeOK, EnvironmentNext
    PROVE  ClusterTypeOK'
  <1>1. ASSUME NEW n \in Nodes, SetCondition(n)
        PROVE  ClusterTypeOK'
    <2>1. PICK type \in CondTypes, status \in ReportedStatus :
             NodeEvent("condition", n, [apiNode[n] EXCEPT !.conditions[type] = status])
      BY <1>1 DEF SetCondition
    <2>2. apiNode[n] \in Node
      BY <1>1 DEF SetCondition, ClusterTypeOK, NodeOrNull
    <2>3. status \in Status \union {Missing}
      BY UpdateAssumption
    <2>4. [apiNode[n].conditions EXCEPT ![type] = status] \in [CondTypes -> Status \union {Missing}]
      BY <2>2, <2>3 DEF Node
    <2>5. [apiNode[n] EXCEPT !.conditions[type] = status] \in NodeOrNull
      BY <2>2, <2>4 DEF Node, NodeOrNull
    <2>6. QED
      BY <2>1, <2>5, NodeEventType DEF EventKinds
  <1>2. ASSUME NEW n \in Nodes, SetLabels(n)
        PROVE  ClusterTypeOK'
    <2>1. PICK labels \in LabelUpdates :
             NodeEvent("label", n, [apiNode[n] EXCEPT !.labels = labels])
      BY <1>2 DEF SetLabels
    <2>2. apiNode[n] \in Node
      BY <1>2 DEF SetLabels, ClusterTypeOK, NodeOrNull
    <2>3. [apiNode[n] EXCEPT !.labels = labels] \in NodeOrNull
      BY <2>2, UpdateAssumption DEF Node, NodeOrNull
    <2>4. QED
      BY <2>1, <2>3, NodeEventType DEF EventKinds
  <1>3. ASSUME NEW n \in Nodes, ToggleTaint(n)
        PROVE  ClusterTypeOK'
    <2>1. PICK t \in Taints :
             NodeEvent("taint", n, [apiNode[n] EXCEPT !.taints =
                                       IF t \in @ THEN @ \ {t} ELSE @ \union {t}])
      BY <1>3 DEF ToggleTaint
    <2>2. apiNode[n] \in Node
      BY <1>3 DEF ToggleTaint, ClusterTypeOK, NodeOrNull
    <2>3. [apiNode[n] EXCEPT !.taints = IF t \in @ THEN @ \ {t} ELSE @ \union {t}] \in NodeOrNull
      BY <2>2 DEF Node, NodeOrNull
    <2>4. QED
      BY <2>1, <2>3, NodeEventType DEF EventKinds
  <1>4. ASSUME NEW n \in Nodes, JoinNode(n)
        PROVE  ClusterTypeOK'
    <2>1. PICK node \in NodeTemplates : NodeEvent("join", n, node)
      BY <1>4 DEF JoinNode
    <2>2. node \in NodeOrNull
      BY UpdateAssumption DEF NodeOrNull
    <2>3. QED
      BY <2>1, <2>2, NodeEventType DEF EventKinds
  <1>5. ASSUME NEW n \in Nodes, LeaveNode(n)
        PROVE  ClusterTypeOK'
    BY <1>5, NodeEventType DEF LeaveNode, EventKinds, NodeOrNull
  <1>6. ASSUME NEW r \in Rules, CreateRule(r)
        PROVE  ClusterTypeOK'
    <2>1. PICK spec \in Specs :
             RuleEvent("create", r, [spec |-> spec, generation |-> 1,
                                     finalizer |-> FALSE, deleting |-> FALSE])
      BY <1>6 DEF CreateRule
    <2>2. [spec |-> spec, generation |-> 1, finalizer |-> FALSE, deleting |-> FALSE] \in RuleOrNull
      BY DEF Rule, RuleOrNull
    <2>3. QED
      BY <2>1, <2>2, RuleEventType DEF EventKinds
  <1>7. ASSUME NEW r \in Rules, EditRule(r)
        PROVE  ClusterTypeOK'
    <2>1. PICK spec \in Specs :
             RuleEvent("edit", r, [apiRule[r] EXCEPT !.spec = spec, !.generation = @ + 1])
      BY <1>7 DEF EditRule
    <2>2. apiRule[r] \in Rule
      BY <1>7 DEF EditRule, ClusterTypeOK, RuleOrNull
    <2>3. apiRule[r].generation + 1 \in Nat \ {0}
      BY <2>2 DEF Rule
    <2>4. [apiRule[r] EXCEPT !.spec = spec, !.generation = apiRule[r].generation + 1] \in Rule
      BY <2>2, <2>3, Zenon DEF Rule
    <2>5. QED
      BY <2>1, <2>4, RuleEventType DEF EventKinds, RuleOrNull
  <1>8. ASSUME NEW r \in Rules, DeleteRule(r)
        PROVE  ClusterTypeOK'
    <2> DEFINE rule == IF apiRule[r].finalizer
                       THEN [apiRule[r] EXCEPT !.deleting = TRUE, !.generation = @ + 1]
                       ELSE Null
    <2>1. apiRule[r] \in Rule
      BY <1>8 DEF DeleteRule, ClusterTypeOK, RuleOrNull
    <2>2. apiRule[r].generation + 1 \in Nat \ {0}
      BY <2>1 DEF Rule
    <2>3. [apiRule[r] EXCEPT !.deleting = TRUE, !.generation = apiRule[r].generation + 1] \in Rule
      BY <2>1, <2>2, Zenon DEF Rule
    <2>4. rule \in RuleOrNull
      BY <2>3, Zenon DEF RuleOrNull
    <2>5. RuleEvent("delete", r, rule)
      BY <1>8, Zenon DEF DeleteRule
    <2>6. QED
      BY <2>4, <2>5, RuleEventType DEF EventKinds
  <1>9. QED
    BY <1>1, <1>2, <1>3, <1>4, <1>5, <1>6, <1>7, <1>8 DEF EnvironmentNext

\* The informers pass on what they receive.
LEMMA InformerType ==
    ASSUME ClusterTypeOK, InformerNext
    PROVE  ClusterTypeOK'
  <1>1. ASSUME NEW n \in Nodes, DeliverNode(n)
        PROVE  ClusterTypeOK'
    <2>1. nodeWatch[n] \in Seq(NodeOrNull) /\ nodeWatch[n] # <<>>
      BY <1>1 DEF DeliverNode, ClusterTypeOK
    <2>2. Tail(nodeWatch[n]) \in Seq(NodeOrNull) /\ Head(nodeWatch[n]) \in NodeOrNull
      BY <2>1
    <2>3. nodeQueue' \in SUBSET Nodes
      BY <1>1 DEF DeliverNode, ClusterTypeOK
    <2>4. QED
      BY <1>1, <2>2, <2>3 DEF DeliverNode, ClusterTypeOK
  <1>2. ASSUME NEW r \in Rules, DeliverRule(r)
        PROVE  ClusterTypeOK'
    <2>1. ruleWatch[r] \in Seq(RuleOrNull) /\ ruleWatch[r] # <<>>
      BY <1>2 DEF DeliverRule, ClusterTypeOK
    <2>2. Tail(ruleWatch[r]) \in Seq(RuleOrNull) /\ Head(ruleWatch[r]) \in RuleOrNull
      BY <2>1
    <2>3. ruleQueue' \in SUBSET Rules
      BY <1>2 DEF DeliverRule, ClusterTypeOK
    <2>4. QED
      BY <1>2, <2>2, <2>3 DEF DeliverRule, ClusterTypeOK
  <1>3. QED
    BY <1>1, <1>2 DEF InformerNext

\* The loop of processNodeAgainstAllRules.
LEMMA NodeContinueType ==
    ASSUME NodeReconcilerTypeOK, npc # "idle", NEW rules \in [Rules -> SpecOrNull],
           NodeContinue(rules)
    PROVE  NodeReconcilerTypeOK'
  BY DEF NodeReconcilerTypeOK, NodeContinue, NodeOrNull

\* No step of the node worker leaves the types.
LEMMA NodeProcessType ==
    ASSUME ClusterTypeOK, RuleCacheTypeOK, NodeReconcilerTypeOK, NodeReconcilerNext
    PROVE  ClusterTypeOK' /\ RuleCacheTypeOK' /\ NodeReconcilerTypeOK'
  <1>1. ASSUME NEW n \in Nodes, NodeGet(n)
        PROVE  ClusterTypeOK' /\ RuleCacheTypeOK' /\ NodeReconcilerTypeOK'
    <2>1. ClusterTypeOK' /\ RuleCacheTypeOK'
      BY <1>1 DEF NodeGet, ClusterTypeOK, RuleCacheTypeOK, nodesKept, ruleSideKept, rulesKept
    <2>2. NodeReconcilerTypeOK'
      BY <1>1, NullAssumption
      DEF NodeGet, ClusterTypeOK, NodeReconcilerTypeOK, nodeReconcilerVars
    <2>3. QED
      BY <2>1, <2>2
  <1>2. CASE getApplicableRulesForNode
    <2>1. ClusterTypeOK' /\ RuleCacheTypeOK'
      BY <1>2 DEF getApplicableRulesForNode, ClusterTypeOK, RuleCacheTypeOK, nodesKept,
                  ruleSideKept, rulesKept
    <2>2. [r \in Rules |-> IF ruleCache[r] # Null /\ ruleAppliesTo(ruleCache[r], nnode)
                           THEN ruleCache[r] ELSE Null] \in [Rules -> SpecOrNull]
      BY DEF RuleCacheTypeOK, SpecOrNull
    <2>3. NodeReconcilerTypeOK'
      BY <1>2, <2>2, NodeContinueType DEF getApplicableRulesForNode
    <2>4. QED
      BY <2>1, <2>3
  <1>3. ASSUME NEW r \in Rules, NodePickRule(r)
        PROVE  ClusterTypeOK' /\ RuleCacheTypeOK' /\ NodeReconcilerTypeOK'
    <2>1. ClusterTypeOK' /\ RuleCacheTypeOK'
      BY <1>3 DEF NodePickRule, ClusterTypeOK, RuleCacheTypeOK, nodesKept, ruleSideKept, rulesKept
    <2>2. [nrules EXCEPT ![r] = Null] \in [Rules -> SpecOrNull]
      BY DEF NodeReconcilerTypeOK, SpecOrNull
    <2>3. CASE NodeContinue([nrules EXCEPT ![r] = Null])
      BY <1>3, <2>1, <2>2, <2>3, NodeContinueType DEF NodePickRule
    <2>4. CASE npc' = "evaluate" /\ ncur' = r /\ UNCHANGED <<nname, nnode, nrules>>
      BY <1>3, <2>1, <2>4, NullAssumption DEF NodePickRule, NodeReconcilerTypeOK
    <2>5. QED
      BY <1>3, <2>3, <2>4 DEF NodePickRule
  <1>4. CASE NodeEvaluate
    <2> DEFINE spec == nrules[ncur]
               after == TaintsAfter(spec, nnode)
    <2>1. npc = "evaluate" /\ ncur \in Rules /\ nname \in Nodes /\ nnode \in Node /\ spec \in Specs
      BY <1>4 DEF NodeEvaluate, NodeReconcilerTypeOK, NodeOrNull, SpecOrNull
    <2>2. after \in SUBSET Taints
      BY <2>1, TaintsType
    <2>3. /\ nrules' = [nrules EXCEPT ![ncur] = Null]
          /\ npc' \in {"mark", "persist"}
          /\ UNCHANGED <<nname, ncur, nodeStore, nodeQueue, ruleSideKept>>
      BY <1>4 DEF NodeEvaluate
    <2>4. \/ UNCHANGED <<nnode, nodesKept, quota>>
          \/ PatchTaints(nname, after) /\ nnode' = apiNode'[nname]
          \/ PatchFails(nname) /\ nnode' = [nnode EXCEPT !.taints = after]
      BY <1>4 DEF NodeEvaluate
    <2>5. /\ apiNode' \in [Nodes -> NodeOrNull]
          /\ nodeWatch' \in [Nodes -> Seq(NodeOrNull)]
          /\ quota' \in [EventKinds -> Nat]
          /\ nnode' \in Node
      <3>1. CASE UNCHANGED <<nnode, nodesKept, quota>>
        BY <2>1, <3>1 DEF nodesKept, ClusterTypeOK
      <3>2. CASE PatchTaints(nname, after) /\ nnode' = apiNode'[nname]
        BY <2>1, <2>2, <3>2, PatchTaintsType
      <3>3. CASE PatchFails(nname) /\ nnode' = [nnode EXCEPT !.taints = after]
        <4>1. nnode' \in Node
          BY <2>1, <2>2, <3>3 DEF Node
        <4>2. QED
          BY <2>1, <3>3, <4>1, PatchFailsType
      <3>4. QED
        BY <2>4, <3>1, <3>2, <3>3
    <2>6. ClusterTypeOK' /\ RuleCacheTypeOK'
      BY <2>3, <2>5 DEF ClusterTypeOK, RuleCacheTypeOK, ruleSideKept, rulesKept
    <2>7. nrules' \in [Rules -> SpecOrNull]
      BY <2>3 DEF NodeReconcilerTypeOK, SpecOrNull
    <2>8. nnode' \in NodeOrNull /\ nnode' # Null
      BY <2>5, NullAssumption DEF NodeOrNull
    <2>9. NodeReconcilerTypeOK'
      BY <2>1, <2>3, <2>7, <2>8, NullAssumption DEF NodeReconcilerTypeOK
    <2>10. QED
      BY <2>6, <2>9
  <1>5. CASE NodeMark
    <2>1. nname \in Nodes /\ ncur \in Rules /\ npc' = "persist"
      BY <1>5 DEF NodeMark, NodeReconcilerTypeOK
    <2>2. /\ apiNode' \in [Nodes -> NodeOrNull]
          /\ nodeWatch' \in [Nodes -> Seq(NodeOrNull)]
          /\ quota' \in [EventKinds -> Nat]
      BY <1>5, <2>1, MarkType DEF NodeMark
    <2>3. ClusterTypeOK' /\ RuleCacheTypeOK'
      BY <1>5, <2>2 DEF NodeMark, ClusterTypeOK, RuleCacheTypeOK, ruleSideKept, rulesKept
    <2>4. NodeReconcilerTypeOK'
      BY <1>5 DEF NodeMark, NodeReconcilerTypeOK
    <2>5. QED
      BY <2>3, <2>4
  <1>6. CASE NodePersistStatus
    <2>1. ncur \in Rules /\ nrules \in [Rules -> SpecOrNull] /\ npc # "idle"
      BY <1>6 DEF NodePersistStatus, NodeReconcilerTypeOK
    <2>2. ruleStore[ncur] \in RuleOrNull
      BY <2>1 DEF ClusterTypeOK
    <2>3. /\ apiRule' \in [Rules -> RuleOrNull]
          /\ ruleWatch' \in [Rules -> Seq(RuleOrNull)]
          /\ held' \in Rules \union {Null}
      <3>1. CASE WriteRule(ncur, ruleStore[ncur])
        BY <2>1, <2>2, <3>1, WriteRuleType
      <3>2. CASE UNCHANGED rulesKept
        BY <3>2 DEF rulesKept, ClusterTypeOK
      <3>3. QED
        BY <1>6, <3>1, <3>2 DEF NodePersistStatus
    <2>4. ClusterTypeOK' /\ RuleCacheTypeOK'
      BY <1>6, <2>3 DEF NodePersistStatus, ClusterTypeOK, RuleCacheTypeOK, nodesKept
    <2>5. NodeReconcilerTypeOK'
      BY <1>6, <2>1, NodeContinueType DEF NodePersistStatus
    <2>6. QED
      BY <2>4, <2>5
  <1>7. QED
    BY <1>1, <1>2, <1>3, <1>4, <1>5, <1>6 DEF NodeReconcilerNext

\* Reconcile returns to the idle worker.
LEMMA RuleReturnType ==
    ASSUME RuleReturn
    PROVE  RuleReconcilerTypeOK'
  BY DEF RuleReturn, RuleReconcilerTypeOK, RuleOrNull, NoNodes, NodeOrNull

\* A step of the loops of the rule worker to another of its steps.
LEMMA RuleStepToType ==
    ASSUME RuleReconcilerTypeOK, rpc # "idle",
           NEW step \in (DeletionSteps \union FinalizerSteps \union ProcessSteps) \ {"mark"},
           RuleStepTo(step),
           rnodes' \in [Nodes -> NodeOrNull],
           rcur' \in Nodes \union {Null},
           rfailed' \in BOOLEAN
    PROVE  RuleReconcilerTypeOK'
  BY DEF RuleReconcilerTypeOK, RuleStepTo

\* The loop of removals that both cleanups are made of.
LEMMA CleanupType ==
    ASSUME ClusterTypeOK, RuleCacheTypeOK, RuleReconcilerTypeOK,
           NEW step \in {"cleanup", "selectorCleanup"},
           NEW next \in {"removeFinalizer", "cache"},
           CleanupStep(step) \/ CleanupEnd(step, next)
    PROVE  ClusterTypeOK' /\ RuleCacheTypeOK' /\ RuleReconcilerTypeOK'
  <1>1. CASE CleanupStep(step)
    <2>1. PICK n \in Nodes :
             /\ rnodes[n] # Null
             /\ rnodes' = [rnodes EXCEPT ![n] = Null]
             /\ \/ /\ PatchTaints(n, removeTaintBySpec(rnodes[n], rrule.spec))
                   /\ UNCHANGED rfailed
                \/ /\ PatchFails(n)
                   /\ rfailed' = TRUE
      BY <1>1 DEF CleanupStep
    <2>2. rnodes[n] \in Node /\ rrule \in Rule
      BY <1>1, <2>1 DEF CleanupStep, RuleReconcilerTypeOK, NodeOrNull, RuleOrNull
    <2>3. removeTaintBySpec(rnodes[n], rrule.spec) \in SUBSET Taints
      BY <2>2, TaintsType DEF Rule
    <2>4. /\ apiNode' \in [Nodes -> NodeOrNull]
          /\ nodeWatch' \in [Nodes -> Seq(NodeOrNull)]
          /\ quota' \in [EventKinds -> Nat]
      BY <2>1, <2>3, PatchTaintsType, PatchFailsType
    <2>5. ClusterTypeOK' /\ RuleCacheTypeOK'
      BY <1>1, <2>4 DEF CleanupStep, ClusterTypeOK, RuleCacheTypeOK, rulesKept
    <2>6. rnodes' \in [Nodes -> NodeOrNull] /\ rfailed' \in BOOLEAN
      BY <2>1 DEF RuleReconcilerTypeOK, NodeOrNull
    <2>7. RuleReconcilerTypeOK'
      BY <1>1, <2>6 DEF CleanupStep, RuleReconcilerTypeOK
    <2>8. QED
      BY <2>5, <2>7
  <1>2. CASE CleanupEnd(step, next)
    <2>1. ruleQueue' \in SUBSET Rules
      BY <1>2 DEF CleanupEnd, RuleError, RuleReconcilerTypeOK, ClusterTypeOK
    <2>2. ClusterTypeOK' /\ RuleCacheTypeOK'
      BY <1>2, <2>1 DEF CleanupEnd, ClusterTypeOK, RuleCacheTypeOK, rulesKept, nodesKept, nodeSideKept
    <2>3. RuleReconcilerTypeOK'
      <3>1. CASE RuleError
        BY <3>1, RuleReturnType DEF RuleError
      <3>2. CASE RuleStepTo(next) /\ UNCHANGED RuleLoopKept
        BY <1>2, <3>2, RuleStepToType
        DEF CleanupEnd, RuleLoopKept, RuleReconcilerTypeOK, DeletionSteps, ProcessSteps
      <3>3. QED
        BY <1>2, <3>1, <3>2 DEF CleanupEnd
    <2>4. QED
      BY <2>2, <2>3
  <1>3. QED
    BY <1>1, <1>2

\* A status write, or its failure.
LEMMA StatusType ==
    ASSUME ClusterTypeOK, rname \in Rules,
           (WriteStatusOK /\ UNCHANGED quota) \/ WriteStatusFails
    PROVE  /\ apiRule' \in [Rules -> RuleOrNull]
           /\ ruleWatch' \in [Rules -> Seq(RuleOrNull)]
           /\ held' \in Rules \union {Null}
           /\ quota' \in [EventKinds -> Nat]
  <1>1. CASE WriteRule(rname, ruleStore[rname]) /\ UNCHANGED quota
    <2>1. ruleStore[rname] \in RuleOrNull
      BY DEF ClusterTypeOK
    <2>2. QED
      BY <1>1, <2>1, WriteRuleType DEF ClusterTypeOK
  <1>2. CASE UNCHANGED rulesKept /\ UNCHANGED quota
    BY <1>2 DEF rulesKept, ClusterTypeOK
  <1>3. CASE UNCHANGED rulesKept /\ Spend("fault")
    BY <1>3, SpendType DEF rulesKept, ClusterTypeOK, EventKinds
  <1>4. QED
    BY <1>1, <1>2, <1>3 DEF WriteStatusOK, WriteStatusFails

\* No step of the rule worker leaves the types; that RuleRefresh finds the rule is
\* part of StepsGuarded.
LEMMA RuleProcessType ==
    ASSUME ClusterTypeOK, RuleCacheTypeOK, RuleReconcilerTypeOK, StepsGuarded, RuleReconcilerNext
    PROVE  ClusterTypeOK' /\ RuleCacheTypeOK' /\ RuleReconcilerTypeOK'
  <1> USE DEF DeletionSteps, FinalizerSteps, ProcessSteps
  <1>1. ASSUME NEW r \in Rules, RuleGet(r)
        PROVE  ClusterTypeOK' /\ RuleCacheTypeOK' /\ RuleReconcilerTypeOK'
    <2>1. ClusterTypeOK'
      BY <1>1 DEF RuleGet, ClusterTypeOK, nodeSideKept, nodesKept
    <2>2. RuleCacheTypeOK'
      BY <1>1 DEF RuleGet, RuleCacheTypeOK, removeRuleFromCache, SpecOrNull
    <2>3. CASE UNCHANGED ruleReconcilerVars
      BY <2>1, <2>2, <2>3 DEF ruleReconcilerVars, RuleReconcilerTypeOK
    <2>4. CASE /\ ruleStore[r] # Null
               /\ rpc' = StepAfterGet(ruleStore[r])
               /\ rname' = r
               /\ rrule' = ruleStore[r]
               /\ UNCHANGED RuleLoopKept
      <3>1. rpc' \in {"cleanupList", "selector", "addFinalizer"}
        <4>1. ruleStore[r].deleting \in BOOLEAN /\ ruleStore[r].finalizer \in BOOLEAN
          BY <2>4 DEF ClusterTypeOK, RuleOrNull, Rule
        <4>2. QED
          BY <2>4, <4>1 DEF StepAfterGet
      <3>2. rrule' \in RuleOrNull /\ r # Null
        BY <2>4, NullAssumption DEF ClusterTypeOK
      <3>3. QED
        BY <2>1, <2>2, <2>4, <3>1, <3>2 DEF RuleReconcilerTypeOK, RuleLoopKept
    <2>5. QED
      BY <1>1, <2>3, <2>4 DEF RuleGet
  <1>2. CASE CleanupList
    <2>1. rnodes' \in [Nodes -> NodeOrNull]
      BY <1>2 DEF CleanupList, NodesToCleanUp, ClusterTypeOK, NodeOrNull
    <2>2. RuleReconcilerTypeOK'
      BY <1>2, <2>1, RuleStepToType DEF CleanupList, RuleReconcilerTypeOK
    <2>3. QED
      BY <1>2, <2>2 DEF CleanupList, ClusterTypeOK, RuleCacheTypeOK, nodeSideKept, nodesKept, rulesKept
  <1>3. CASE CleanupStep("cleanup") \/ CleanupEnd("cleanup", "removeFinalizer")
    BY <1>3, CleanupType
  <1>4. CASE cleanupNodesAfterSelectorChange
    BY <1>4, CleanupType DEF cleanupNodesAfterSelectorChange
  <1>5. CASE RuleRemoveFinalizer
    <2>1. rname \in Rules /\ rpc # "idle"
      BY <1>5 DEF RuleRemoveFinalizer, RuleReconcilerTypeOK
    <2>2. UNCHANGED <<nodeSideKept, ruleStore, ruleCache>>
      BY <1>5 DEF RuleRemoveFinalizer
    <2>3. CASE WriteRule(rname, Null) /\ RuleStepTo("uncache") /\ UNCHANGED <<RuleLoopKept, ruleQueue, quota>>
      <3>1. RuleReconcilerTypeOK'
        BY <2>1, <2>3, RuleStepToType DEF RuleReconcilerTypeOK, RuleLoopKept
      <3>2. QED
        BY <2>1, <2>2, <2>3, <3>1, WriteRuleType
        DEF RuleOrNull, ClusterTypeOK, RuleCacheTypeOK, nodeSideKept, nodesKept
    <2>4. CASE (UNCHANGED quota \/ Spend("fault")) /\ RuleError /\ UNCHANGED rulesKept
      <3>1. quota' \in [EventKinds -> Nat]
        BY <2>4, SpendType DEF EventKinds, ClusterTypeOK
      <3>2. RuleReconcilerTypeOK' /\ ruleQueue' = ruleQueue \union {rname}
        BY <2>4, RuleReturnType DEF RuleError
      <3>3. QED
        BY <2>1, <2>2, <2>4, <3>1, <3>2
        DEF ClusterTypeOK, RuleCacheTypeOK, nodeSideKept, nodesKept, rulesKept
    <2>5. QED
      BY <1>5, <2>3, <2>4 DEF RuleRemoveFinalizer, FinalizerUpdateFails
  <1>6. CASE RuleUncache
    <2>1. RuleReconcilerTypeOK'
      BY <1>6, RuleReturnType DEF RuleUncache, RuleDone
    <2>2. RuleCacheTypeOK'
      BY <1>6 DEF RuleUncache, removeRuleFromCache, RuleCacheTypeOK, SpecOrNull
    <2>3. QED
      BY <1>6, <2>1, <2>2 DEF RuleUncache, RuleDone, ClusterTypeOK, nodeSideKept, nodesKept, rulesKept
  <1>7. CASE RuleAddFinalizer
    <2>1. rname \in Rules /\ rrule \in Rule /\ rpc # "idle"
      BY <1>7 DEF RuleAddFinalizer, RuleReconcilerTypeOK, RuleOrNull
    <2>2. UNCHANGED <<nodeSideKept, ruleStore, ruleCache>>
      BY <1>7 DEF RuleAddFinalizer
    <2>3. CASE /\ WriteRule(rname, [rrule EXCEPT !.finalizer = TRUE])
               /\ RuleStepTo("refresh")
               /\ UNCHANGED <<RuleLoopKept, ruleQueue, quota>>
      <3>1. [rrule EXCEPT !.finalizer = TRUE] \in RuleOrNull
        BY <2>1, Zenon DEF Rule, RuleOrNull
      <3>2. RuleReconcilerTypeOK'
        BY <2>1, <2>3, RuleStepToType DEF RuleReconcilerTypeOK, RuleLoopKept
      <3>3. QED
        BY <2>1, <2>2, <2>3, <3>1, <3>2, WriteRuleType
        DEF ClusterTypeOK, RuleCacheTypeOK, nodeSideKept, nodesKept
    <2>4. CASE (UNCHANGED quota \/ Spend("fault")) /\ RuleError /\ UNCHANGED rulesKept
      <3>1. quota' \in [EventKinds -> Nat]
        BY <2>4, SpendType DEF EventKinds, ClusterTypeOK
      <3>2. RuleReconcilerTypeOK' /\ ruleQueue' = ruleQueue \union {rname}
        BY <2>4, RuleReturnType DEF RuleError
      <3>3. QED
        BY <2>1, <2>2, <2>4, <3>1, <3>2
        DEF ClusterTypeOK, RuleCacheTypeOK, nodeSideKept, nodesKept, rulesKept
    <2>5. QED
      BY <1>7, <2>3, <2>4 DEF RuleAddFinalizer, FinalizerUpdateFails
  <1>8. CASE RuleRefresh
    <2>1. rname \in Rules /\ ruleStore[rname] \in RuleOrNull /\ ruleStore[rname] # Null
      BY <1>8 DEF RuleRefresh, RuleReconcilerTypeOK, ClusterTypeOK, StepsGuarded
    <2>2. RuleReconcilerTypeOK'
      BY <1>8, <2>1 DEF RuleRefresh, RuleReconcilerTypeOK, RuleLoopKept
    <2>3. QED
      BY <1>8, <2>2 DEF RuleRefresh, ClusterTypeOK, RuleCacheTypeOK, nodeSideKept, nodesKept, rulesKept
  <1>9. CASE RuleSelector
    <2>1. rname \in Rules /\ rpc # "idle"
      BY <1>9 DEF RuleSelector, RuleReconcilerTypeOK
    <2>2. ruleQueue' \in SUBSET Rules
      BY <1>9, <2>1 DEF RuleSelector, RuleError, ClusterTypeOK
    <2>3. ClusterTypeOK' /\ RuleCacheTypeOK'
      BY <1>9, <2>2 DEF RuleSelector, ClusterTypeOK, RuleCacheTypeOK, nodeSideKept, nodesKept, rulesKept
    <2>4. CASE RuleStepTo("cache") /\ UNCHANGED RuleLoopKept
      BY <2>1, <2>3, <2>4, RuleStepToType DEF RuleReconcilerTypeOK, RuleLoopKept
    <2>5. CASE /\ rnodes' = NodesLeavingScope(ruleCache[rname], rrule.spec)
               /\ RuleStepTo("selectorCleanup")
               /\ UNCHANGED <<rcur, rfailed>>
      <3>1. rnodes' \in [Nodes -> NodeOrNull]
        BY <2>5 DEF NodesLeavingScope, ClusterTypeOK, NodeOrNull
      <3>2. QED
        BY <2>1, <2>3, <2>5, <3>1, RuleStepToType DEF RuleReconcilerTypeOK
    <2>6. CASE RuleError
      BY <2>3, <2>6, RuleReturnType DEF RuleError
    <2>7. QED
      BY <1>9, <2>4, <2>5, <2>6 DEF RuleSelector
  <1>10. CASE RuleUpdateCache
    <2>1. rname \in Rules /\ rrule \in Rule /\ rpc # "idle"
      BY <1>10 DEF RuleUpdateCache, RuleReconcilerTypeOK, RuleOrNull
    <2>2. RuleCacheTypeOK'
      BY <1>10, <2>1 DEF RuleUpdateCache, updateRuleCache, RuleCacheTypeOK, SpecOrNull, Rule
    <2>3. RuleReconcilerTypeOK'
      BY <1>10, <2>1, RuleStepToType DEF RuleUpdateCache, RuleReconcilerTypeOK, RuleLoopKept
    <2>4. QED
      BY <1>10, <2>2, <2>3 DEF RuleUpdateCache, ClusterTypeOK, nodeSideKept, nodesKept, rulesKept
  <1>11. CASE RuleListNodes
    <2>1. rnodes' \in [Nodes -> NodeOrNull]
      BY <1>11 DEF RuleListNodes, ClusterTypeOK, NodeOrNull
    <2>2. RuleReconcilerTypeOK'
      BY <1>11, <2>1, RuleStepToType DEF RuleListNodes, RuleReconcilerTypeOK
    <2>3. QED
      BY <1>11, <2>2 DEF RuleListNodes, ClusterTypeOK, RuleCacheTypeOK, nodeSideKept, nodesKept, rulesKept
  <1>12. CASE RuleEvaluate
    <2>1. PICK n \in Nodes :
             /\ rnodes[n] # Null
             /\ rnodes' = [rnodes EXCEPT ![n] = Null]
             /\ \/ /\ PatchTaints(n, TaintsAfter(rrule.spec, rnodes[n]))
                   /\ IF MarksCompletion(rrule.spec, rnodes[n])
                      THEN rpc' = "mark" /\ rcur' = n
                      ELSE UNCHANGED <<rpc, rcur>>
                \/ /\ PatchFails(n)
                   /\ UNCHANGED <<rpc, rcur>>
      BY <1>12 DEF RuleEvaluate
    <2>2. rnodes[n] \in Node /\ rrule \in Rule
      BY <1>12, <2>1 DEF RuleEvaluate, RuleReconcilerTypeOK, NodeOrNull, RuleOrNull
    <2>3. TaintsAfter(rrule.spec, rnodes[n]) \in SUBSET Taints
      BY <2>2, TaintsType DEF Rule
    <2>4. /\ apiNode' \in [Nodes -> NodeOrNull]
          /\ nodeWatch' \in [Nodes -> Seq(NodeOrNull)]
          /\ quota' \in [EventKinds -> Nat]
      BY <2>1, <2>3, PatchTaintsType, PatchFailsType
    <2>5. ClusterTypeOK' /\ RuleCacheTypeOK'
      BY <1>12, <2>4 DEF RuleEvaluate, ClusterTypeOK, RuleCacheTypeOK, rulesKept
    <2>6. rnodes' \in [Nodes -> NodeOrNull]
      BY <2>1 DEF RuleReconcilerTypeOK, NodeOrNull
    <2>7. (rpc' = "mark" /\ rcur' = n) \/ UNCHANGED <<rpc, rcur>>
      BY <2>1
    <2>8. RuleReconcilerTypeOK'
      BY <1>12, <2>6, <2>7, NullAssumption DEF RuleEvaluate, RuleReconcilerTypeOK
    <2>9. QED
      BY <2>5, <2>8
  <1>13. CASE RuleEvaluateEnd \/ processDryRun
    <2>1. RuleReconcilerTypeOK'
      BY <1>13, RuleStepToType DEF RuleEvaluateEnd, processDryRun, RuleReconcilerTypeOK, RuleLoopKept
    <2>2. QED
      BY <1>13, <2>1
      DEF RuleEvaluateEnd, processDryRun, ClusterTypeOK, RuleCacheTypeOK, nodeSideKept, nodesKept,
          rulesKept
  <1>14. CASE RuleMark
    <2>1. rname \in Rules /\ rcur \in Nodes /\ rpc # "idle"
      BY <1>14 DEF RuleMark, RuleReconcilerTypeOK
    <2>2. /\ apiNode' \in [Nodes -> NodeOrNull]
          /\ nodeWatch' \in [Nodes -> Seq(NodeOrNull)]
          /\ quota' \in [EventKinds -> Nat]
      BY <1>14, <2>1, MarkType DEF RuleMark
    <2>3. RuleReconcilerTypeOK'
      BY <1>14, <2>1, RuleStepToType DEF RuleMark, RuleReconcilerTypeOK
    <2>4. QED
      BY <1>14, <2>2, <2>3 DEF RuleMark, ClusterTypeOK, RuleCacheTypeOK, rulesKept
  <1>15. CASE updateRuleStatus \/ cleanupDeletedNodes
    <2>1. rname \in Rules /\ rpc # "idle"
      BY <1>15 DEF updateRuleStatus, cleanupDeletedNodes, RuleReconcilerTypeOK
    <2>2. UNCHANGED <<nodeSideKept, ruleStore, ruleCache>>
      BY <1>15 DEF updateRuleStatus, cleanupDeletedNodes
    <2>3. \/ UNCHANGED rulesKept /\ UNCHANGED quota
          \/ WriteStatusOK /\ UNCHANGED quota
          \/ WriteStatusFails
      BY <1>15 DEF updateRuleStatus, cleanupDeletedNodes
    <2>4. /\ apiRule' \in [Rules -> RuleOrNull]
          /\ ruleWatch' \in [Rules -> Seq(RuleOrNull)]
          /\ held' \in Rules \union {Null}
          /\ quota' \in [EventKinds -> Nat]
      BY <2>1, <2>3, StatusType DEF rulesKept, ClusterTypeOK
    <2>5. \/ RuleStepTo("prune") /\ UNCHANGED <<RuleLoopKept, ruleQueue>>
          \/ RuleError
          \/ RuleDone
      BY <1>15 DEF updateRuleStatus, cleanupDeletedNodes
    <2>6. RuleReconcilerTypeOK' /\ ruleQueue' \in SUBSET Rules
      <3>1. CASE RuleStepTo("prune") /\ UNCHANGED <<RuleLoopKept, ruleQueue>>
        BY <2>1, <3>1, RuleStepToType DEF RuleReconcilerTypeOK, RuleLoopKept, ClusterTypeOK
      <3>2. CASE RuleError
        BY <2>1, <3>2, RuleReturnType DEF RuleError, ClusterTypeOK
      <3>3. CASE RuleDone
        BY <3>3, RuleReturnType DEF RuleDone, ClusterTypeOK
      <3>4. QED
        BY <2>5, <3>1, <3>2, <3>3
    <2>7. QED
      BY <2>2, <2>4, <2>6 DEF ClusterTypeOK, RuleCacheTypeOK, nodeSideKept, nodesKept
  <1>16. QED
    BY <1>1, <1>2, <1>3, <1>4, <1>5, <1>6, <1>7, <1>8, <1>9, <1>10, <1>11, <1>12, <1>13, <1>14,
       <1>15
    DEF RuleReconcilerNext, cleanupTaintsForRule

-----------------------------------------------------------------------------
(* Every enforced rule has its finalizer: RuleInv is inductive *)

\* Steps that concern only nodes.
LEMMA RulesUntouched ==
    ASSUME RuleInv,
           UNCHANGED <<apiRule, ruleWatch, ruleStore, held, ruleCache, ruleReconcilerVars>>
    PROVE  RuleInv'
  BY DEF RuleInv, InformersCatchUp, VersionsVouched, HeldIsCurrent, StepsGuarded,
         EnforcedRulesGuarded, Guarded, Vouches, ruleReconcilerVars

\* The rule worker returns, without having touched a rule.
LEMMA ReturnKeepsInv ==
    ASSUME RuleInv, RuleReturn, rpc # "uncache",
           UNCHANGED <<apiRule, ruleWatch, ruleStore, ruleCache>>
    PROVE  RuleInv'
  BY DEF RuleInv, InformersCatchUp, VersionsVouched, HeldIsCurrent, StepsGuarded,
         EnforcedRulesGuarded, Guarded, Vouches, RuleReturn, ProcessSteps

\* A step of the rule worker once it has made sure of the finalizer, whatever it
\* does to its own rule's cache entry.
LEMMA ProcessStepKeepsInv ==
    ASSUME RuleInv,
           rpc \in {"refresh"} \union ProcessSteps, rpc' \in ProcessSteps, rname' = rname,
           UNCHANGED <<apiRule, ruleWatch, ruleStore>>,
           \A q \in Rules : q # rname => ruleCache'[q] = ruleCache[q]
    PROVE  RuleInv'
  <1>1. Guarded(rname) /\ rpc # "uncache"
    BY DEF RuleInv, StepsGuarded, ProcessSteps
  <1>2. \A q \in Rules : Guarded(q)' <=> Guarded(q)
    BY DEF Guarded
  <1>3. InformersCatchUp' /\ VersionsVouched'
    BY DEF RuleInv, InformersCatchUp, VersionsVouched, Guarded, Vouches
  <1>4. HeldIsCurrent' /\ StepsGuarded'
    BY <1>1 DEF HeldIsCurrent, StepsGuarded, Guarded, ProcessSteps
  <1>5. EnforcedRulesGuarded'
    BY <1>1 DEF RuleInv, EnforcedRulesGuarded, Guarded
  <1>6. QED
    BY <1>3, <1>4, <1>5 DEF RuleInv

\* A write that leaves a finalizer in place leaves the informer's versions in order.
LEMMA WriteKeepsVersions ==
    ASSUME ClusterTypeOK, RuleInv,
           NEW r \in Rules, NEW rule \in RuleOrNull, WriteRule(r, rule), ruleStore' = ruleStore,
           Guarded(r) => rule # Null /\ rule.finalizer
    PROVE  /\ InformersCatchUp'
           /\ VersionsVouched'
           /\ \A q \in Rules : Guarded(q) => Guarded(q)'
           /\ \A q \in Rules \ {r} : ruleWatch'[q] = ruleWatch[q]
           /\ ruleWatch'[r] = Append(ruleWatch[r], rule)
           /\ held' # r /\ (held' # Null => held' = held)
  <1>1. /\ apiRule' = [apiRule EXCEPT ![r] = rule]
        /\ ruleWatch' = [ruleWatch EXCEPT ![r] = Append(@, rule)]
        /\ held' = IF held = r THEN Null ELSE held
    BY DEF WriteRule
  <1>2. /\ apiRule'[r] = rule
        /\ ruleWatch'[r] = Append(ruleWatch[r], rule)
        /\ \A q \in Rules \ {r} : apiRule'[q] = apiRule[q] /\ ruleWatch'[q] = ruleWatch[q]
    BY <1>1 DEF ClusterTypeOK
  <1>3. held' # r /\ (held' # Null => held' = held)
    BY <1>1, NullAssumption
  <1>4. ruleWatch[r] \in Seq(RuleOrNull)
    BY DEF ClusterTypeOK
  <1>5. /\ ruleWatch'[r] # <<>>
        /\ ruleWatch'[r][Len(ruleWatch'[r])] = rule
        /\ DOMAIN ruleWatch'[r] = DOMAIN ruleWatch[r] \union {Len(ruleWatch[r]) + 1}
        /\ \A i \in DOMAIN ruleWatch[r] : ruleWatch'[r][i] = ruleWatch[r][i]
        /\ ruleWatch'[r][Len(ruleWatch[r]) + 1] = rule
    BY <1>2, <1>4
  <1>6. \A q \in Rules : Guarded(q) => Guarded(q)'
    BY <1>2 DEF Guarded
  <1>7. InformersCatchUp'
    BY <1>2, <1>5 DEF RuleInv, InformersCatchUp
  <1>8. VersionsVouched'
    <2>1. ASSUME NEW q \in Rules, ~Guarded(q)'
          PROVE  /\ ~Vouches(ruleStore'[q])
                 /\ \A i \in DOMAIN ruleWatch'[q] : ~Vouches(ruleWatch'[q][i])
      <3>1. ~Guarded(q)
        BY <1>6, <2>1
      <3>2. ~Vouches(ruleStore[q]) /\ \A i \in DOMAIN ruleWatch[q] : ~Vouches(ruleWatch[q][i])
        BY <3>1 DEF RuleInv, VersionsVouched
      <3>3. CASE q = r
        <4>1. ~Vouches(rule)
          BY <1>2, <2>1, <3>3 DEF Guarded, Vouches
        <4>2. QED
          BY <1>5, <3>2, <3>3, <4>1
      <3>4. CASE q # r
        BY <1>2, <3>2, <3>4
      <3>5. QED
        BY <3>3, <3>4
    <2>2. QED
      BY <2>1 DEF VersionsVouched, Vouches
  <1>9. QED
    BY <1>2, <1>3, <1>6, <1>7, <1>8

\* Such a write keeps RuleInv when it is not the rule worker's.
LEMMA OthersWriteKeepsInv ==
    ASSUME ClusterTypeOK, RuleReconcilerTypeOK, RuleInv,
           NEW r \in Rules, NEW rule \in RuleOrNull, WriteRule(r, rule),
           Guarded(r) => rule # Null /\ rule.finalizer,
           UNCHANGED <<ruleStore, ruleCache, ruleReconcilerVars>>
    PROVE  RuleInv'
  <1>1. /\ InformersCatchUp'
        /\ VersionsVouched'
        /\ \A q \in Rules : Guarded(q) => Guarded(q)'
        /\ \A q \in Rules \ {r} : ruleWatch'[q] = ruleWatch[q]
        /\ ruleWatch'[r] = Append(ruleWatch[r], rule)
        /\ held' # r /\ (held' # Null => held' = held)
    BY WriteKeepsVersions
  <1>2. UNCHANGED <<rpc, rname, rrule, ruleStore, ruleCache>>
    BY DEF ruleReconcilerVars
  <1>3. rpc # "idle" => rname \in Rules
    BY DEF RuleReconcilerTypeOK
  <1>4. HeldIsCurrent'
    BY <1>1, <1>2, <1>3, NullAssumption DEF RuleInv, HeldIsCurrent
  <1>5. StepsGuarded'
    <2>1. rpc \in {"refresh"} \union ProcessSteps => Guarded(rname)'
      BY <1>1, <1>2, <1>3 DEF RuleInv, StepsGuarded, ProcessSteps, Guarded
    <2>2. ASSUME rpc = "refresh"
          PROVE  \A i \in DOMAIN ruleWatch'[rname] : ruleWatch'[rname][i] # Null
      <3>1. \A i \in DOMAIN ruleWatch[rname] : ruleWatch[rname][i] # Null
        BY <2>2 DEF RuleInv, StepsGuarded
      <3>2. CASE rname = r
        <4>1. rule # Null
          BY <2>2, <3>2 DEF RuleInv, StepsGuarded
        <4>2. ruleWatch[r] \in Seq(RuleOrNull)
          BY DEF ClusterTypeOK
        <4>3. QED
          BY <1>1, <3>1, <3>2, <4>1, <4>2
      <3>3. CASE rname # r
        BY <1>1, <1>3, <2>2, <3>1, <3>3
      <3>4. QED
        BY <3>2, <3>3
    <2>3. QED
      BY <1>2, <2>1, <2>2 DEF RuleInv, StepsGuarded, Guarded
  <1>6. EnforcedRulesGuarded'
    BY <1>1, <1>2 DEF RuleInv, EnforcedRulesGuarded, Guarded
  <1>7. QED
    BY <1>1, <1>4, <1>5, <1>6 DEF RuleInv

\* People edit and delete rules, but no one else takes the finalizer away.
LEMMA EnvironmentKeepsInv ==
    ASSUME ClusterTypeOK, RuleReconcilerTypeOK, RuleInv, EnvironmentNext,
           UNCHANGED <<ruleCache, ruleReconcilerVars>>
    PROVE  RuleInv'
  <1>1. ASSUME NEW n \in Nodes, NEW kind, NEW node, NodeEvent(kind, n, node)
        PROVE  RuleInv'
    BY <1>1, RulesUntouched DEF NodeEvent, rulesKept
  <1>2. ASSUME NEW r \in Rules, CreateRule(r)
        PROVE  RuleInv'
    <2>1. PICK spec \in Specs :
             RuleEvent("create", r, [spec |-> spec, generation |-> 1,
                                     finalizer |-> FALSE, deleting |-> FALSE])
      BY <1>2 DEF CreateRule
    <2>2. [spec |-> spec, generation |-> 1, finalizer |-> FALSE, deleting |-> FALSE] \in RuleOrNull
      BY DEF Rule, RuleOrNull
    <2>3. ~Guarded(r)
      BY <1>2 DEF CreateRule, Guarded
    <2>4. QED
      BY <2>1, <2>2, <2>3, OthersWriteKeepsInv DEF RuleEvent
  <1>3. ASSUME NEW r \in Rules, EditRule(r)
        PROVE  RuleInv'
    <2>1. PICK spec \in Specs :
             RuleEvent("edit", r, [apiRule[r] EXCEPT !.spec = spec, !.generation = @ + 1])
      BY <1>3 DEF EditRule
    <2> DEFINE rule == [apiRule[r] EXCEPT !.spec = spec, !.generation = apiRule[r].generation + 1]
    <2>2. apiRule[r] \in Rule
      BY <1>3 DEF EditRule, ClusterTypeOK, RuleOrNull
    <2>3. apiRule[r].generation + 1 \in Nat \ {0}
      BY <2>2 DEF Rule
    <2>4. rule \in Rule /\ (apiRule[r].finalizer => rule.finalizer)
      BY <2>2, <2>3, Zenon DEF Rule
    <2>5. rule \in RuleOrNull /\ rule # Null
      BY <2>4, NullAssumption DEF RuleOrNull
    <2>6. Guarded(r) => rule # Null /\ rule.finalizer
      BY <2>4, <2>5 DEF Guarded
    <2>7. RuleEvent("edit", r, rule)
      BY <2>1
    <2> HIDE DEF rule
    <2>8. WriteRule(r, rule) /\ ruleStore' = ruleStore
      BY <2>7 DEF RuleEvent
    <2>9. QED
      BY <2>5, <2>6, <2>8, OthersWriteKeepsInv
  <1>4. ASSUME NEW r \in Rules, DeleteRule(r)
        PROVE  RuleInv'
    <2> DEFINE marked == [apiRule[r] EXCEPT !.deleting = TRUE, !.generation = apiRule[r].generation + 1]
               rule == IF apiRule[r].finalizer THEN marked ELSE Null
    <2>1. apiRule[r] \in Rule
      BY <1>4 DEF DeleteRule, ClusterTypeOK, RuleOrNull
    <2>2. apiRule[r].generation + 1 \in Nat \ {0}
      BY <2>1 DEF Rule
    <2>3. marked \in Rule /\ (apiRule[r].finalizer => marked.finalizer)
      BY <2>1, <2>2, Zenon DEF Rule
    <2>4. RuleEvent("delete", r, rule)
      BY <1>4, Zenon DEF DeleteRule
    <2> HIDE DEF marked
    <2>5. marked # Null
      BY <2>3, NullAssumption
    <2>6. rule \in RuleOrNull
      BY <2>3, Zenon DEF RuleOrNull
    <2>7. Guarded(r) => rule # Null /\ rule.finalizer
      BY <2>3, <2>5 DEF Guarded
    <2> HIDE DEF rule
    <2>8. WriteRule(r, rule) /\ ruleStore' = ruleStore
      BY <2>4 DEF RuleEvent
    <2>9. QED
      BY <2>6, <2>7, <2>8, OthersWriteKeepsInv
  <1>5. ASSUME NEW n \in Nodes,
               SetCondition(n) \/ SetLabels(n) \/ ToggleTaint(n) \/ JoinNode(n) \/ LeaveNode(n)
        PROVE  RuleInv'
    BY <1>1, <1>5 DEF SetCondition, SetLabels, ToggleTaint, JoinNode, LeaveNode
  <1>6. QED
    BY <1>2, <1>3, <1>4, <1>5 DEF EnvironmentNext

\* A version received leaves the rest of the versions.
LEMMA InformerKeepsInv ==
    ASSUME ClusterTypeOK, RuleReconcilerTypeOK, RuleInv, InformerNext,
           UNCHANGED <<ruleCache, ruleReconcilerVars>>
    PROVE  RuleInv'
  <1>1. ASSUME NEW n \in Nodes, DeliverNode(n)
        PROVE  RuleInv'
    BY <1>1, RulesUntouched DEF DeliverNode
  <1>2. ASSUME NEW r \in Rules, DeliverRule(r)
        PROVE  RuleInv'
    <2>1. /\ ruleWatch[r] \in Seq(RuleOrNull)
          /\ ruleWatch[r] # <<>>
      BY <1>2 DEF DeliverRule, ClusterTypeOK
    <2>2. /\ ruleWatch'[r] = Tail(ruleWatch[r])
          /\ ruleStore'[r] = ruleWatch[r][1]
          /\ \A q \in Rules \ {r} : ruleWatch'[q] = ruleWatch[q] /\ ruleStore'[q] = ruleStore[q]
          /\ UNCHANGED <<apiRule, held, rpc, rname, rrule, ruleCache>>
      BY <1>2, <2>1 DEF DeliverRule, ClusterTypeOK, ruleReconcilerVars
    <2>3. /\ 1 \in DOMAIN ruleWatch[r]
          /\ Len(Tail(ruleWatch[r])) = Len(ruleWatch[r]) - 1
          /\ Len(ruleWatch[r]) \in Nat
          /\ \A i \in DOMAIN Tail(ruleWatch[r]) :
                i + 1 \in DOMAIN ruleWatch[r] /\ Tail(ruleWatch[r])[i] = ruleWatch[r][i + 1]
      BY <2>1
    <2>4. /\ Tail(ruleWatch[r]) = <<>> => Len(ruleWatch[r]) = 1
          /\ Tail(ruleWatch[r]) # <<>> =>
                Tail(ruleWatch[r])[Len(Tail(ruleWatch[r]))] = ruleWatch[r][Len(ruleWatch[r])]
      <3> DEFINE rest == Tail(ruleWatch[r])
      <3>1. rest \in Seq(RuleOrNull)
        BY <2>1
      <3>2. rest = <<>> => Len(rest) = 0
        <4> HIDE DEF rest
        <4>1. QED
          OBVIOUS
      <3>3. rest # <<>> => Len(rest) \in DOMAIN rest
        BY <3>1
      <3>4. rest # <<>> => rest[Len(rest)] = ruleWatch[r][Len(rest) + 1]
        BY <2>3, <3>3, Zenon
      <3>5. Len(rest) + 1 = Len(ruleWatch[r])
        BY <2>3
      <3>6. QED
        BY <3>2, <3>4, <3>5
    <2>5. InformersCatchUp'
      BY <2>1, <2>2, <2>4 DEF RuleInv, InformersCatchUp
    <2>6. VersionsVouched'
      <3>1. ASSUME NEW q \in Rules, ~Guarded(q)
            PROVE  /\ ~Vouches(ruleStore'[q])
                   /\ \A i \in DOMAIN ruleWatch'[q] : ~Vouches(ruleWatch'[q][i])
        <4>1. ~Vouches(ruleStore[q]) /\ \A i \in DOMAIN ruleWatch[q] : ~Vouches(ruleWatch[q][i])
          BY <3>1 DEF RuleInv, VersionsVouched
        <4>2. CASE q = r
          <5>1. ~Vouches(ruleWatch[r][1])
            BY <2>3, <4>1, <4>2, Zenon
          <5>2. \A i \in DOMAIN Tail(ruleWatch[r]) : ~Vouches(Tail(ruleWatch[r])[i])
            BY <2>3, <4>1, <4>2, Zenon
          <5>3. QED
            BY <2>2, <4>2, <5>1, <5>2, Zenon
        <4>3. CASE q # r
          BY <2>2, <4>1, <4>3
        <4>4. QED
          BY <4>2, <4>3
      <3>2. QED
        BY <2>2, <3>1 DEF VersionsVouched, Guarded, Vouches
    <2>7. rpc # "idle" => rname \in Rules
      BY DEF RuleReconcilerTypeOK
    <2>8. HeldIsCurrent'
      BY <2>1, <2>2, <2>7 DEF RuleInv, HeldIsCurrent
    <2>9. ASSUME rpc = "refresh"
          PROVE  /\ ruleStore'[rname] # Null
                 /\ \A i \in DOMAIN ruleWatch'[rname] : ruleWatch'[rname][i] # Null
      <3>1. ruleStore[rname] # Null /\ \A i \in DOMAIN ruleWatch[rname] : ruleWatch[rname][i] # Null
        BY <2>9 DEF RuleInv, StepsGuarded
      <3>2. CASE rname = r
        <4>1. ruleWatch[r][1] # Null
          BY <2>3, <3>1, <3>2, Zenon
        <4>2. \A i \in DOMAIN Tail(ruleWatch[r]) : Tail(ruleWatch[r])[i] # Null
          BY <2>3, <3>1, <3>2, Zenon
        <4>3. QED
          BY <2>2, <3>2, <4>1, <4>2, Zenon
      <3>3. CASE rname # r
        BY <2>2, <2>7, <2>9, <3>1, <3>3
      <3>4. QED
        BY <3>2, <3>3
    <2>10. StepsGuarded'
      BY <2>2, <2>9 DEF RuleInv, StepsGuarded, Guarded
    <2>11. EnforcedRulesGuarded'
      BY <2>2 DEF RuleInv, EnforcedRulesGuarded
    <2>12. QED
      BY <2>5, <2>6, <2>8, <2>10, <2>11 DEF RuleInv
  <1>3. QED
    BY <1>1, <1>2 DEF InformerNext

\* A status write copies the object it finds.
LEMMA FreshIsCurrent ==
    ASSUME RuleInv, NEW r \in Rules, RuleFresh(r)
    PROVE  ruleStore[r] = apiRule[r]
  BY DEF RuleInv, InformersCatchUp, RuleFresh

\* The node worker touches rules only to write their status.
LEMMA NodeProcessKeepsInv ==
    ASSUME TypeOK, RuleInv, NodeReconcilerNext, UNCHANGED ruleReconcilerVars
    PROVE  RuleInv'
  <1>1. CASE UNCHANGED ruleSideKept
    BY <1>1, RulesUntouched DEF ruleSideKept, rulesKept
  <1>2. CASE NodePersistStatus /\ ~UNCHANGED ruleSideKept
    <2>1. ncur \in Rules /\ ruleStore[ncur] \in RuleOrNull
      BY <1>2 DEF NodePersistStatus, TypeOK, NodeReconcilerTypeOK, ClusterTypeOK
    <2>2. RuleFresh(ncur) /\ WriteRule(ncur, ruleStore[ncur]) /\ UNCHANGED <<ruleStore, ruleCache>>
      BY <1>2 DEF NodePersistStatus, ruleSideKept, rulesKept
    <2>3. Guarded(ncur) => ruleStore[ncur] # Null /\ ruleStore[ncur].finalizer
      BY <2>1, <2>2, FreshIsCurrent DEF Guarded
    <2>4. QED
      BY <2>1, <2>2, <2>3, OthersWriteKeepsInv DEF TypeOK
  <1>3. QED
    BY <1>1, <1>2
    DEF NodeReconcilerNext, NodeGet, getApplicableRulesForNode, NodePickRule, NodeEvaluate, NodeMark

\* The worker goes straight to processing only if what it fetched is vouched for.
LEMMA RuleGetKeepsInv ==
    ASSUME TypeOK, RuleInv, NEW r \in Rules, RuleGet(r)
    PROVE  RuleInv'
  <1>1. rpc = "idle" /\ UNCHANGED <<apiRule, ruleWatch, ruleStore>>
    BY DEF RuleGet
  <1>2. InformersCatchUp' /\ VersionsVouched'
    BY <1>1 DEF RuleInv, InformersCatchUp, VersionsVouched, Guarded, Vouches
  <1>3. CASE ruleStore[r] = Null /\ removeRuleFromCache(r) /\ UNCHANGED <<held, ruleReconcilerVars>>
    <2>1. HeldIsCurrent' /\ StepsGuarded'
      BY <1>1, <1>3 DEF HeldIsCurrent, StepsGuarded, ruleReconcilerVars, ProcessSteps
    <2>2. EnforcedRulesGuarded'
      BY <1>1, <1>3
      DEF RuleInv, EnforcedRulesGuarded, removeRuleFromCache, TypeOK, RuleCacheTypeOK, ruleReconcilerVars
    <2>3. QED
      BY <1>2, <2>1, <2>2 DEF RuleInv
  <1>4. CASE /\ ruleStore[r] # Null
             /\ rpc' = StepAfterGet(ruleStore[r])
             /\ rname' = r
             /\ rrule' = ruleStore[r]
             /\ held' = IF RuleFresh(r) THEN r ELSE Null
             /\ UNCHANGED ruleCache
    <2>1. \/ rpc' = "cleanupList" /\ ruleStore[r].deleting
          \/ rpc' = "selector" /\ Vouches(ruleStore[r])
          \/ rpc' = "addFinalizer"
      <3>1. ruleStore[r].deleting \in BOOLEAN /\ ruleStore[r].finalizer \in BOOLEAN
        BY <1>4 DEF TypeOK, ClusterTypeOK, RuleOrNull, Rule
      <3>2. QED
        BY <1>4, <3>1 DEF StepAfterGet, Vouches
    <2>2. Vouches(ruleStore[r]) => Guarded(r)
      BY DEF RuleInv, VersionsVouched
    <2>3. HeldIsCurrent'
      BY <1>1, <1>4, NullAssumption DEF HeldIsCurrent, RuleFresh
    <2>4. StepsGuarded'
      BY <1>1, <1>4, <2>1, <2>2 DEF StepsGuarded, ProcessSteps, Guarded
    <2>5. EnforcedRulesGuarded'
      BY <1>1, <1>4 DEF RuleInv, EnforcedRulesGuarded
    <2>6. QED
      BY <1>2, <2>3, <2>4, <2>5 DEF RuleInv
  <1>5. QED
    BY <1>3, <1>4 DEF RuleGet

\* The cleanup before a deletion leaves the rule alone.
LEMMA DeletionStepKeepsInv ==
    ASSUME RuleInv,
           rpc \in {"cleanupList", "cleanup"},
           rpc' \in {"cleanup", "removeFinalizer"},
           UNCHANGED <<apiRule, ruleWatch, ruleStore, held, ruleCache, rname, rrule>>
    PROVE  RuleInv'
  <1>1. InformersCatchUp' /\ VersionsVouched' /\ EnforcedRulesGuarded'
    BY DEF RuleInv, InformersCatchUp, VersionsVouched, EnforcedRulesGuarded, Guarded, Vouches
  <1>2. HeldIsCurrent' /\ StepsGuarded'
    BY DEF RuleInv, HeldIsCurrent, StepsGuarded, ProcessSteps
  <1>3. QED
    BY <1>1, <1>2 DEF RuleInv

\* The finalizer goes when the informer shows the rule being deleted and nothing newer.
LEMMA RemoveFinalizerKeepsInv ==
    ASSUME TypeOK, RuleInv, RuleRemoveFinalizer
    PROVE  RuleInv'
  <1>1. rpc = "removeFinalizer" /\ rname \in Rules /\ UNCHANGED <<ruleStore, ruleCache>>
    BY DEF RuleRemoveFinalizer, TypeOK, RuleReconcilerTypeOK
  <1>2. CASE RuleError /\ UNCHANGED rulesKept
    BY <1>1, <1>2, ReturnKeepsInv DEF RuleError, rulesKept
  <1>3. CASE held = rname /\ WriteRule(rname, Null) /\ RuleStepTo("uncache")
    <2>1. ruleWatch[rname] = <<>> /\ ruleStore[rname].deleting
      BY <1>1, <1>3 DEF RuleInv, HeldIsCurrent, StepsGuarded
    <2>2. /\ apiRule'[rname] = Null
          /\ ruleWatch'[rname] = <<Null>>
          /\ \A q \in Rules \ {rname} : apiRule'[q] = apiRule[q] /\ ruleWatch'[q] = ruleWatch[q]
      BY <1>1, <1>3, <2>1 DEF WriteRule, TypeOK, ClusterTypeOK
    <2>3. rpc' = "uncache" /\ rname' = rname
      BY <1>3 DEF RuleStepTo
    <2>4. InformersCatchUp'
      <3>1. <<Null>> # <<>> /\ Len(<<Null>>) = 1 /\ <<Null>>[1] = Null
        OBVIOUS
      <3>2. QED
        BY <1>1, <2>2, <3>1, Zenon DEF RuleInv, InformersCatchUp
    <2>5. VersionsVouched'
      <3>1. ASSUME NEW q \in Rules
            PROVE  \/ Guarded(q)'
                   \/ /\ ~Vouches(ruleStore'[q])
                      /\ \A i \in DOMAIN ruleWatch'[q] : ~Vouches(ruleWatch'[q][i])
        <4>1. CASE q = rname
          BY <1>1, <2>1, <2>2, <4>1 DEF Vouches
        <4>2. CASE q # rname
          BY <1>1, <2>2, <4>2 DEF RuleInv, VersionsVouched, Guarded
        <4>3. QED
          BY <4>1, <4>2
      <3>2. QED
        BY <3>1 DEF VersionsVouched, Vouches
    <2>6. HeldIsCurrent' /\ StepsGuarded'
      BY <2>3 DEF HeldIsCurrent, StepsGuarded, ProcessSteps
    <2>7. EnforcedRulesGuarded'
      BY <1>1, <2>2, <2>3 DEF RuleInv, EnforcedRulesGuarded
    <2>8. QED
      BY <2>4, <2>5, <2>6, <2>7 DEF RuleInv
  <1>4. QED
    BY <1>2, <1>3 DEF RuleRemoveFinalizer, FinalizerUpdateOK, FinalizerUpdateFails

\* The finalizer comes before anything else, or the worker starts again.
LEMMA AddFinalizerKeepsInv ==
    ASSUME TypeOK, RuleInv, RuleAddFinalizer
    PROVE  RuleInv'
  <1>1. rpc = "addFinalizer" /\ rname \in Rules /\ rrule \in Rule /\ UNCHANGED <<ruleStore, ruleCache>>
    BY DEF RuleAddFinalizer, TypeOK, RuleReconcilerTypeOK, RuleOrNull
  <1>2. CASE RuleError /\ UNCHANGED rulesKept
    BY <1>1, <1>2, ReturnKeepsInv DEF RuleError, rulesKept
  <1> DEFINE rule == [rrule EXCEPT !.finalizer = TRUE]
  <1>3. CASE held = rname /\ WriteRule(rname, rule) /\ RuleStepTo("refresh")
    <2>1. rule \in Rule /\ rule.finalizer
      BY <1>1, Zenon DEF Rule
    <2> HIDE DEF rule
    <2>2. rule \in RuleOrNull /\ rule # Null /\ rrule # Null
      BY <1>1, <2>1, NullAssumption DEF RuleOrNull
    <2>3. ruleWatch[rname] = <<>> /\ ruleStore[rname] = rrule
      BY <1>1, <1>3 DEF RuleInv, HeldIsCurrent
    <2>4. /\ InformersCatchUp'
          /\ VersionsVouched'
          /\ \A q \in Rules : Guarded(q) => Guarded(q)'
          /\ ruleWatch'[rname] = Append(ruleWatch[rname], rule)
      BY <1>1, <1>3, <2>1, <2>2, WriteKeepsVersions DEF TypeOK
    <2>5. apiRule'[rname] = rule
      BY <1>1, <1>3 DEF WriteRule, TypeOK, ClusterTypeOK
    <2>6. rpc' = "refresh" /\ rname' = rname
      BY <1>3 DEF RuleStepTo
    <2>7. ruleWatch'[rname] = <<rule>>
      BY <2>3, <2>4
    <2>8. HeldIsCurrent'
      BY <2>6 DEF HeldIsCurrent
    <2>9. StepsGuarded'
      BY <1>1, <2>1, <2>2, <2>3, <2>5, <2>6, <2>7 DEF StepsGuarded, Guarded
    <2>10. EnforcedRulesGuarded'
      BY <1>1, <2>4 DEF RuleInv, EnforcedRulesGuarded, Guarded
    <2>11. QED
      BY <2>4, <2>8, <2>9, <2>10 DEF RuleInv
  <1>4. QED
    BY <1>2, <1>3 DEF RuleAddFinalizer, FinalizerUpdateOK, FinalizerUpdateFails

\* A status write of the rule worker copies the object it finds.
LEMMA StatusKeepsInv ==
    ASSUME TypeOK, RuleInv, updateRuleStatus \/ cleanupDeletedNodes
    PROVE  RuleInv'
  <1>1. /\ rpc \in {"status", "prune"}
        /\ rname \in Rules
        /\ UNCHANGED <<ruleStore, ruleCache>>
    BY DEF updateRuleStatus, cleanupDeletedNodes, TypeOK, RuleReconcilerTypeOK
  <1>2. (rpc' = "prune" /\ rname' = rname) \/ RuleReturn
    BY DEF updateRuleStatus, cleanupDeletedNodes, RuleStepTo, RuleDone, RuleError
  <1>3. CASE UNCHANGED rulesKept
    BY <1>1, <1>2, <1>3, ReturnKeepsInv, ProcessStepKeepsInv DEF rulesKept, ProcessSteps
  <1>4. CASE RuleFresh(rname) /\ WriteRule(rname, ruleStore[rname])
    <2>1. ruleStore[rname] \in RuleOrNull
      BY <1>1 DEF TypeOK, ClusterTypeOK
    <2>2. Guarded(rname) => ruleStore[rname] # Null /\ ruleStore[rname].finalizer
      BY <1>1, <1>4, FreshIsCurrent DEF Guarded
    <2>3. /\ InformersCatchUp'
          /\ VersionsVouched'
          /\ \A q \in Rules : Guarded(q) => Guarded(q)'
      BY <1>1, <1>4, <2>1, <2>2, WriteKeepsVersions DEF TypeOK
    <2>4. Guarded(rname) /\ rpc' \in {"idle", "prune"}
      BY <1>1, <1>2 DEF RuleInv, StepsGuarded, ProcessSteps, RuleReturn
    <2>5. HeldIsCurrent'
      BY <2>4 DEF HeldIsCurrent
    <2>6. StepsGuarded'
      BY <1>1, <1>2, <2>3, <2>4 DEF StepsGuarded, ProcessSteps, Guarded, RuleReturn
    <2>7. EnforcedRulesGuarded'
      BY <1>1, <2>3 DEF RuleInv, EnforcedRulesGuarded, Guarded
    <2>8. QED
      BY <2>3, <2>5, <2>6, <2>7 DEF RuleInv
  <1>5. QED
    BY <1>3, <1>4 DEF updateRuleStatus, cleanupDeletedNodes, WriteStatusOK, WriteStatusFails, rulesKept

\* Every step of the rule worker keeps RuleInv.
LEMMA RuleProcessKeepsInv ==
    ASSUME TypeOK, RuleInv, RuleReconcilerNext
    PROVE  RuleInv'
  <1>1. ASSUME NEW r \in Rules, RuleGet(r)
        PROVE  RuleInv'
    BY <1>1, RuleGetKeepsInv
  <1>2. CASE cleanupTaintsForRule
    <2>1. CASE CleanupList \/ CleanupStep("cleanup")
      BY <2>1, DeletionStepKeepsInv DEF CleanupList, CleanupStep, RuleStepTo, rulesKept
    <2>2. CASE CleanupEnd("cleanup", "removeFinalizer")
      BY <2>2, DeletionStepKeepsInv, ReturnKeepsInv DEF CleanupEnd, RuleStepTo, RuleError, rulesKept
    <2>3. QED
      BY <1>2, <2>1, <2>2 DEF cleanupTaintsForRule
  <1>3. CASE RuleRemoveFinalizer
    BY <1>3, RemoveFinalizerKeepsInv
  <1>4. CASE RuleUncache
    <2>1. /\ rpc = "uncache" /\ rpc' = "idle"
          /\ UNCHANGED <<apiRule, ruleWatch, ruleStore>>
          /\ ruleCache' = [ruleCache EXCEPT ![rname] = Null]
      BY <1>4 DEF RuleUncache, RuleDone, RuleReturn, removeRuleFromCache, rulesKept
    <2>2. InformersCatchUp' /\ VersionsVouched' /\ HeldIsCurrent' /\ StepsGuarded'
      BY <2>1 DEF RuleInv, InformersCatchUp, VersionsVouched, HeldIsCurrent, StepsGuarded, Guarded,
                  Vouches, ProcessSteps
    <2>3. EnforcedRulesGuarded'
      BY <2>1 DEF RuleInv, EnforcedRulesGuarded, TypeOK, RuleCacheTypeOK
    <2>4. QED
      BY <2>2, <2>3 DEF RuleInv
  <1>5. CASE RuleAddFinalizer
    BY <1>5, AddFinalizerKeepsInv
  <1>6. CASE RuleRefresh \/ processDryRun \/ RuleListNodes \/ RuleEvaluate \/ RuleEvaluateEnd \/ RuleMark
    <2>1. /\ rpc \in {"refresh"} \union ProcessSteps
          /\ rpc' \in ProcessSteps
          /\ UNCHANGED <<apiRule, ruleWatch, ruleStore, ruleCache, rname>>
      BY <1>6 DEF RuleRefresh, processDryRun, RuleListNodes, RuleEvaluate, RuleEvaluateEnd, RuleMark,
                  RuleStepTo, ProcessSteps, rulesKept
    <2>2. QED
      BY <2>1, ProcessStepKeepsInv
  <1>7. CASE RuleSelector \/ cleanupNodesAfterSelectorChange
    <2>1. /\ rpc \in ProcessSteps /\ rpc # "uncache"
          /\ (rpc' \in ProcessSteps /\ rname' = rname) \/ RuleReturn
          /\ UNCHANGED <<apiRule, ruleWatch, ruleStore, ruleCache>>
      BY <1>7 DEF RuleSelector, cleanupNodesAfterSelectorChange, CleanupStep, CleanupEnd, RuleStepTo,
                  RuleError, ProcessSteps, rulesKept
    <2>2. QED
      BY <2>1, ProcessStepKeepsInv, ReturnKeepsInv
  <1>8. CASE RuleUpdateCache
    <2>1. /\ rpc \in ProcessSteps
          /\ rpc' \in ProcessSteps
          /\ UNCHANGED <<apiRule, ruleWatch, ruleStore, rname>>
          /\ ruleCache' = [ruleCache EXCEPT ![rname] = rrule.spec]
      BY <1>8 DEF RuleUpdateCache, updateRuleCache, RuleStepTo, ProcessSteps, rulesKept
    <2>2. \A q \in Rules : q # rname => ruleCache'[q] = ruleCache[q]
      BY <2>1 DEF TypeOK, RuleCacheTypeOK
    <2>3. QED
      BY <2>1, <2>2, ProcessStepKeepsInv
  <1>9. CASE updateRuleStatus \/ cleanupDeletedNodes
    BY <1>9, StatusKeepsInv
  <1>10. QED
    BY <1>1, <1>2, <1>3, <1>4, <1>5, <1>6, <1>7, <1>8, <1>9 DEF RuleReconcilerNext

-----------------------------------------------------------------------------
(* The theorems *)

IInv == TypeOK /\ RuleInv

\* The state at the start of the process has both.
LEMMA InitIInv ==
    Init => IInv
  <1> SUFFICES ASSUME Init PROVE IInv
    OBVIOUS
  <1>1. apiNode \in [Nodes -> NodeOrNull] /\ apiRule \in [Rules -> RuleOrNull]
    BY InitAssumption DEF Init, ClusterInit
  <1>2. ClusterTypeOK
    BY <1>1, QuotaAssumption DEF Init, ClusterInit, ClusterTypeOK, Existing
  <1>3. RuleCacheTypeOK /\ NodeReconcilerTypeOK /\ RuleReconcilerTypeOK
    BY DEF Init, RuleCacheTypeOK, NodeReconcilerInit, NodeReconcilerTypeOK, RuleReconcilerInit,
           RuleReconcilerTypeOK, NoRules, NoNodes, SpecOrNull, NodeOrNull, RuleOrNull
  <1>4. /\ ruleWatch = [r \in Rules |-> <<>>] /\ ruleStore = apiRule
        /\ ruleCache = [r \in Rules |-> Null]
        /\ rpc = "idle"
    BY DEF Init, ClusterInit, NoRules, RuleReconcilerInit
  <1>5. InformersCatchUp /\ HeldIsCurrent /\ StepsGuarded /\ EnforcedRulesGuarded
    BY <1>4 DEF InformersCatchUp, HeldIsCurrent, StepsGuarded, EnforcedRulesGuarded, ProcessSteps
  <1>6. VersionsVouched
    BY <1>4 DEF VersionsVouched, Guarded, Vouches
  <1>7. QED
    BY <1>2, <1>3, <1>5, <1>6 DEF IInv, TypeOK, RuleInv

\* A restarted process lists everything anew.
LEMMA CrashKeepsIInv ==
    ASSUME IInv, Crash
    PROVE  IInv'
  <1>1. ClusterTypeOK'
    <2>1. quota' \in [EventKinds -> Nat]
      BY SpendType DEF Crash, IInv, TypeOK, ClusterTypeOK, EventKinds
    <2>2. QED
      BY <2>1 DEF Crash, IInv, TypeOK, ClusterTypeOK, Existing
  <1>2. RuleCacheTypeOK' /\ NodeReconcilerTypeOK'
    BY DEF Crash, RuleCacheTypeOK, NodeReconcilerTypeOK, NoRules, SpecOrNull, NodeOrNull
  <1>3. RuleReconcilerTypeOK'
    BY RuleReturnType DEF Crash
  <1>4. /\ ruleWatch' = [r \in Rules |-> <<>>] /\ ruleStore' = apiRule'
        /\ ruleCache' = [r \in Rules |-> Null]
        /\ rpc' = "idle"
    BY DEF Crash, NoRules, RuleReturn
  <1>5. InformersCatchUp' /\ HeldIsCurrent' /\ StepsGuarded' /\ EnforcedRulesGuarded'
    BY <1>4 DEF InformersCatchUp, HeldIsCurrent, StepsGuarded, EnforcedRulesGuarded, ProcessSteps
  <1>6. VersionsVouched'
    BY <1>4 DEF VersionsVouched, Guarded, Vouches
  <1>7. QED
    BY <1>1, <1>2, <1>3, <1>5, <1>6 DEF IInv, TypeOK, RuleInv

\* Every step keeps both.
LEMMA NextIInv ==
    IInv /\ [Next]_vars => IInv'
  <1> SUFFICES ASSUME IInv, [Next]_vars PROVE IInv'
    OBVIOUS
  <1>1. TypeOK /\ RuleInv
    BY DEF IInv
  <1>2. CASE UNCHANGED vars
    <2>1. TypeOK'
      BY <1>1, <1>2 DEF vars, clusterVars, nodeReconcilerVars, ruleReconcilerVars, TypeOK,
                        ClusterTypeOK, RuleCacheTypeOK, NodeReconcilerTypeOK, RuleReconcilerTypeOK
    <2>2. RuleInv'
      BY <1>1, <1>2, RulesUntouched DEF vars, clusterVars
    <2>3. QED
      BY <2>1, <2>2 DEF IInv
  <1>3. CASE Surroundings
    <2>1. ClusterTypeOK'
      BY <1>1, <1>3, EnvironmentType, InformerType DEF Surroundings, TypeOK
    <2>2. RuleCacheTypeOK' /\ NodeReconcilerTypeOK' /\ RuleReconcilerTypeOK'
      BY <1>1, <1>3 DEF Surroundings, nodeReconcilerVars, ruleReconcilerVars, TypeOK,
                        RuleCacheTypeOK, NodeReconcilerTypeOK, RuleReconcilerTypeOK
    <2>3. RuleInv'
      BY <1>1, <1>3, EnvironmentKeepsInv, InformerKeepsInv DEF Surroundings, TypeOK
    <2>4. QED
      BY <2>1, <2>2, <2>3 DEF IInv, TypeOK
  <1>4. CASE NodeProcess
    <2>1. ClusterTypeOK' /\ RuleCacheTypeOK' /\ NodeReconcilerTypeOK'
      BY <1>1, <1>4, NodeProcessType DEF NodeProcess, TypeOK
    <2>2. RuleReconcilerTypeOK'
      BY <1>1, <1>4 DEF NodeProcess, ruleReconcilerVars, TypeOK, RuleReconcilerTypeOK
    <2>3. RuleInv'
      BY <1>1, <1>4, NodeProcessKeepsInv DEF NodeProcess
    <2>4. QED
      BY <2>1, <2>2, <2>3 DEF IInv, TypeOK
  <1>5. CASE RuleProcess
    <2>1. ClusterTypeOK' /\ RuleCacheTypeOK' /\ RuleReconcilerTypeOK'
      BY <1>1, <1>5, RuleProcessType DEF RuleProcess, TypeOK, RuleInv
    <2>2. NodeReconcilerTypeOK'
      BY <1>1, <1>5 DEF RuleProcess, nodeReconcilerVars, TypeOK, NodeReconcilerTypeOK
    <2>3. RuleInv'
      BY <1>1, <1>5, RuleProcessKeepsInv DEF RuleProcess
    <2>4. QED
      BY <2>1, <2>2, <2>3 DEF IInv, TypeOK
  <1>6. CASE Crash
    BY <1>6, CrashKeepsIInv
  <1>7. CASE Rest
    BY <1>2, <1>7 DEF Rest
  <1>8. QED
    BY <1>2, <1>3, <1>4, <1>5, <1>6, <1>7 DEF Next

\* TypeOK and RuleInv hold in every state the system reaches.
THEOREM Inductive ==
    SafeSpec => []IInv
  BY InitIInv, NextIInv, PTL DEF SafeSpec

\* Type correctness. Beyond the shapes of the variables it says that neither worker
\* ever dereferences an object it does not have: the copies the reconcilers carry
\* between the Get and their last use are never nil.
THEOREM TypeCorrect ==
    SafeSpec => []TypeOK
  <1>1. IInv => TypeOK
    BY DEF IInv
  <1>2. QED
    BY <1>1, Inductive, PTL

\* A rule that the node reconciler enforces has the cleanup finalizer in the API
\* server, whatever crashes, conflicts, failed writes and stale informers come in
\* between: the finalizer protocol of RuleReconciler.Reconcile.
THEOREM EnforcedRulesAreGuarded ==
    SafeSpec => []EnforcedRulesGuarded
  <1>1. IInv => EnforcedRulesGuarded
    BY DEF IInv, RuleInv
  <1>2. QED
    BY <1>1, Inductive, PTL
-----------------------------------------------------------------------------
(* Bounds *)

\* A kind of event that may not happen any more does not happen.
LEMMA SpentStaysSpent ==
    ASSUME TypeOK, [Next]_vars, NEW kind \in EventKinds, quota[kind] = 0
    PROVE  quota'[kind] = 0
  <1>1. quota \in [EventKinds -> Nat]
    BY DEF TypeOK, ClusterTypeOK
  <1>2. ASSUME NEW k \in EventKinds, Spend(k)
        PROVE  quota'[kind] = 0
    BY <1>1, <1>2 DEF Spend
  <1>3. ASSUME NEW n, PatchFails(n)
        PROVE  quota'[kind] = 0
    BY <1>2, <1>3 DEF PatchFails, EventKinds
  <1>4. ASSUME NEW n, NEW r, markBootstrapCompleted(n, r)
        PROVE  quota'[kind] = 0
    BY <1>2, <1>4 DEF markBootstrapCompleted, EventKinds
  <1>5. CASE Surroundings
    <2>1. ASSUME NEW k \in EventKinds, NEW n, NEW node, NodeEvent(k, n, node)
          PROVE  quota'[kind] = 0
      BY <1>2, <2>1 DEF NodeEvent
    <2>2. ASSUME NEW k \in EventKinds, NEW r, NEW rule, RuleEvent(k, r, rule)
          PROVE  quota'[kind] = 0
      BY <1>2, <2>2 DEF RuleEvent
    <2>3. CASE EnvironmentNext
      <3>1. {"condition", "label", "taint", "join", "leave", "create", "edit", "delete"}
              \subseteq EventKinds
        BY DEF EventKinds
      <3>2. ASSUME NEW n \in Nodes,
                   SetCondition(n) \/ SetLabels(n) \/ ToggleTaint(n) \/ JoinNode(n) \/ LeaveNode(n)
            PROVE  quota'[kind] = 0
        BY <2>1, <3>1, <3>2, Zenon DEF SetCondition, SetLabels, ToggleTaint, JoinNode, LeaveNode
      <3>3. ASSUME NEW r \in Rules, CreateRule(r) \/ EditRule(r) \/ DeleteRule(r)
            PROVE  quota'[kind] = 0
        BY <2>2, <3>1, <3>3, Zenon DEF CreateRule, EditRule, DeleteRule
      <3>4. QED
        BY <2>3, <3>2, <3>3 DEF EnvironmentNext
    <2>4. CASE InformerNext
      BY <2>4 DEF InformerNext, DeliverNode, DeliverRule
    <2>5. QED
      BY <1>5, <2>3, <2>4 DEF Surroundings
  <1>6. CASE NodeReconcilerNext
    <2>1. \/ UNCHANGED quota
          \/ PatchFails(nname)
          \/ markBootstrapCompleted(nname, ncur)
      BY <1>6, Zenon DEF NodeReconcilerNext, NodeGet, getApplicableRulesForNode, NodePickRule,
                         NodeEvaluate, PatchTaints, NodeMark, NodePersistStatus
    <2>2. QED
      BY <1>3, <1>4, <2>1
  <1>7. CASE RuleReconcilerNext
    <2>1. \/ UNCHANGED quota
          \/ \E n \in Nodes : PatchFails(n)
          \/ markBootstrapCompleted(rcur, rname)
          \/ Spend("fault")
      <3>1. CASE cleanupTaintsForRule \/ cleanupNodesAfterSelectorChange \/ RuleEvaluate \/ RuleMark
        BY <3>1, Zenon DEF cleanupTaintsForRule, cleanupNodesAfterSelectorChange, CleanupList,
                           CleanupStep, CleanupEnd, RuleEvaluate, RuleMark, PatchTaints
      <3>2. CASE \/ RuleRemoveFinalizer \/ RuleAddFinalizer \/ updateRuleStatus \/ cleanupDeletedNodes
        BY <3>2, Zenon DEF RuleRemoveFinalizer, RuleAddFinalizer, FinalizerUpdateFails,
                           updateRuleStatus, cleanupDeletedNodes, WriteStatusFails
      <3>3. CASE UNCHANGED quota
        BY <3>3
      <3>4. QED
        BY <1>7, <3>1, <3>2, <3>3
        DEF RuleReconcilerNext, RuleGet, RuleUncache, RuleRefresh, RuleSelector, RuleUpdateCache,
            processDryRun, RuleListNodes, RuleEvaluateEnd
    <2>2. QED
      BY <1>2, <1>3, <1>4, <2>1 DEF EventKinds
  <1>8. CASE Crash
    BY <1>2, <1>8 DEF Crash, EventKinds
  <1>9. CASE UNCHANGED vars
    BY <1>9 DEF vars, clusterVars
  <1>10. QED
    BY <1>5, <1>6, <1>7, <1>8, <1>9 DEF Next, NodeProcess, RuleProcess, Rest
=============================================================================
