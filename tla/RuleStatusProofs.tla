-------------------------- MODULE RuleStatusProofs --------------------------
(***************************************************************************)
(* What a reader of a rule's status may rely on, for every number of       *)
(* nodes, rules, specs and events.                                         *)
(***************************************************************************)
EXTENDS RuleStatus, RuleWritesProofs, NodeWritesProofs, FiniteSetTheorems

-----------------------------------------------------------------------------
(* What the statuses are made of *)

\* An entry that fits together.
GoodEvaluation ==
    {e \in NodeEvaluation :
        e.taintStatus = "Absent"
        <=> \A type \in DOMAIN e.conditionResults : e.conditionResults[type].satisfied}

GoodStatus ==
    [observedGeneration : Nat,
     appliedNodes       : SUBSET Nodes,
     failedNodes        : SUBSET Nodes,
     nodeEvaluations    : [Nodes -> GoodEvaluation \union {Null}],
     dryRunResults      : DryRunResults \union {Null}]

\* The statuses that the workers hold.
WorkerStatusesGood ==
    /\ cachedStatus \in [Rules -> GoodStatus]
    /\ nstatus \in [Rules -> GoodStatus]
    /\ nshared \subseteq Rules
    /\ rstatus \in GoodStatus
    /\ rgone \subseteq Nodes

\* The statuses in the API server and in the informer are of this kind.
ObjectStatusesIn(S) ==
    /\ apiStatus \in [Rules -> S]
    /\ statusStore \in [Rules -> S]
    /\ statusWatch \in [Rules -> Seq(S)]

ObjectStatusesGood == ObjectStatusesIn(GoodStatus)

\* A status travels with its rule, and the last version is the one in the API server.
StatusesCatchUp ==
    \A r \in Rules :
        /\ Len(statusWatch[r]) = Len(ruleWatch[r])
        /\ statusWatch[r] = <<>> => statusStore[r] = apiStatus[r]
        /\ statusWatch[r] # <<>> => statusWatch[r][Len(statusWatch[r])] = apiStatus[r]
        /\ apiRule[r] = Null => apiStatus[r] = EmptyStatus

StatusInv == WorkerStatusesGood /\ ObjectStatusesGood /\ StatusesCatchUp

-----------------------------------------------------------------------------
(* The operators of RuleStatus *)

\* The status of a new object.
LEMMA EmptyIsGood ==
    EmptyStatus \in GoodStatus
  BY DEF EmptyStatus, GoodStatus

\* evaluateRuleForNode looks at the taint after its action, which is the one that the
\* conditions call for.
LEMMA EvaluationIsGood ==
    ASSUME NEW spec \in Specs, NEW node \in Node
    PROVE  Evaluation(spec, node) \in GoodEvaluation
  <1> DEFINE results == conditionResults(spec, node)
             e == Evaluation(spec, node)
  <1>1. PICK S \in SUBSET CondTypes : spec.conditions \in [S -> Status]
    BY SpecsAssumption DEF NodeReadinessRuleSpec
  <1>2. DOMAIN spec.conditions = S
    BY <1>1
  <1>3. node.conditions \in [CondTypes -> Status \union {Missing}]
    BY DEF Node
  <1>4. ASSUME NEW type \in S
        PROVE  /\ getConditionStatus(node, type) \in Status
               /\ spec.conditions[type] \in Status
    BY <1>1, <1>3 DEF getConditionStatus, Status
  <1>5. results = [type \in S |->
                      [currentStatus  |-> getConditionStatus(node, type),
                       requiredStatus |-> spec.conditions[type],
                       satisfied      |-> getConditionStatus(node, type) = spec.conditions[type],
                       missing        |-> getConditionStatus(node, type) = "Unknown"]]
    BY <1>2 DEF conditionResults
  <1>6. results \in [S -> ConditionEvaluationResult]
    BY <1>4, <1>5 DEF ConditionEvaluationResult
  <1>7. DOMAIN results = S /\ \A type \in S :
           results[type].satisfied <=> getConditionStatus(node, type) = spec.conditions[type]
    <2>1. DOMAIN results = S
      BY <1>5
    <2>2. ASSUME NEW type \in S
          PROVE  results[type].satisfied <=> getConditionStatus(node, type) = spec.conditions[type]
      <3> DEFINE equal == getConditionStatus(node, type) = spec.conditions[type]
      <3>1. results[type] = [currentStatus  |-> getConditionStatus(node, type),
                             requiredStatus |-> spec.conditions[type],
                             satisfied      |-> equal,
                             missing        |-> getConditionStatus(node, type) = "Unknown"]
        BY <1>5, Zenon
      <3> HIDE DEF equal
      <3>2. results[type].satisfied = equal
        BY <3>1
      <3>3. QED
        BY <3>2 DEF equal
    <2>3. QED
      BY <2>1, <2>2
  <1> HIDE DEF results
  <1>8. /\ e.conditionResults = results
        /\ e.taintStatus = IF spec.taint \in TaintsAfter(spec, node) THEN "Present" ELSE "Absent"
        /\ e = [conditionResults |-> results, taintStatus |-> e.taintStatus]
    BY DEF Evaluation, results
  <1>9. results \in UNION {[T -> ConditionEvaluationResult] : T \in SUBSET CondTypes}
    BY <1>6
  <1>10. e \in NodeEvaluation
    BY <1>8, <1>9 DEF NodeEvaluation
  <1>11. (\A type \in DOMAIN results : results[type].satisfied) <=> allConditionsSatisfied(spec, node)
    BY <1>2, <1>7 DEF allConditionsSatisfied
  <1>12. spec.taint \in TaintsAfter(spec, node) <=> ~allConditionsSatisfied(spec, node)
    BY DEF TaintsAfter, TaintAction, hasTaintBySpec, addTaintBySpec, removeTaintBySpec
  <1>13. e.taintStatus = "Absent" <=> \A type \in DOMAIN e.conditionResults :
                                         e.conditionResults[type].satisfied
    BY <1>8, <1>11, <1>12
  <1> HIDE DEF e
  <1>14. e \in GoodEvaluation
    BY <1>10, <1>13 DEF GoodEvaluation
  <1>15. QED
    BY <1>14 DEF e

\* An entry of one node.
LEMMA EntryIsGood ==
    ASSUME NEW status \in GoodStatus, NEW n \in Nodes, NEW evaluation \in GoodEvaluation
    PROVE  /\ updateNodeEvaluationStatus(status, n, evaluation) \in GoodStatus
           /\ recordNodeFailure(status, n) \in GoodStatus
  BY DEF GoodStatus, updateNodeEvaluationStatus, recordNodeFailure

\* How a patch ended.
LEMMA AfterPatchIsGood ==
    ASSUME NEW status \in GoodStatus, NEW n \in Nodes, NEW spec \in Specs, NEW node \in Node
    PROVE  AfterPatch(status, n, spec, node) \in GoodStatus
  BY EntryIsGood, EvaluationIsGood DEF AfterPatch

\* The counts of a dry run: no node counts twice.
LEMMA DryRunIsGood ==
    ASSUME ClusterTypeOK, NEW spec
    PROVE  dryRunResults(spec) \in DryRunResults
  <1> DEFINE affected == {n \in Existing(nodeStore) : ruleAppliesTo(spec, nodeStore[n])}
             Would(action) == {n \in affected : TaintAction(spec, nodeStore[n]) = action}
             risky == {n \in affected :
                         \E type \in DOMAIN spec.conditions :
                             getConditionStatus(nodeStore[n], type) = "Unknown"}
             adds == Would("add")
             removes == Would("remove")
  <1>1. dryRunResults(spec) = [affectedNodes   |-> Cardinality(affected),
                               taintsToAdd     |-> Cardinality(adds),
                               taintsToRemove  |-> Cardinality(removes),
                               riskyOperations |-> Cardinality(risky)]
    BY DEF dryRunResults
  <1>2. affected \in SUBSET Nodes
    BY DEF ClusterTypeOK, Existing
  <1>3. /\ adds \in SUBSET affected /\ removes \in SUBSET affected /\ risky \in SUBSET affected
        /\ adds \union removes \in SUBSET affected
        /\ adds \intersect removes = {}
    OBVIOUS
  <1> HIDE DEF affected, adds, removes, risky
  <1>4. IsFiniteSet(affected)
    BY <1>2, FiniteAssumption, FS_Subset
  <1>5. IsFiniteSet(adds) /\ IsFiniteSet(removes) /\ IsFiniteSet(risky)
    BY <1>3, <1>4, FS_Subset
  <1>6. /\ Cardinality(affected) \in Nat /\ Cardinality(adds) \in Nat
        /\ Cardinality(removes) \in Nat /\ Cardinality(risky) \in Nat
    BY <1>4, <1>5, FS_CardinalityType
  <1>7. Cardinality(adds \union removes) = Cardinality(adds) + Cardinality(removes)
    <2>1. Cardinality(adds \union removes) =
             Cardinality(adds) + Cardinality(removes) - Cardinality(adds \intersect removes)
      BY <1>5, FS_Union
    <2>2. Cardinality(adds \intersect removes) = 0
      BY <1>3, FS_EmptySet
    <2>3. QED
      BY <1>6, <2>1, <2>2
  <1>8. /\ Cardinality(adds \union removes) <= Cardinality(affected)
        /\ Cardinality(risky) <= Cardinality(affected)
    BY <1>3, <1>4, FS_Subset
  <1>9. QED
    BY <1>1, <1>6, <1>7, <1>8 DEF DryRunResults

\* What the node reconciler writes.
LEMMA PersistedIsGood ==
    ASSUME NEW latest \in GoodStatus, NEW mine \in GoodStatus, NEW n \in Nodes
    PROVE  /\ PersistedStatus(latest, mine, n) \in GoodStatus
           /\ PersistedStatus(latest, mine, n).observedGeneration = latest.observedGeneration
           /\ PersistedStatus(latest, mine, n).appliedNodes = latest.appliedNodes
           /\ PersistedStatus(latest, mine, n).dryRunResults = latest.dryRunResults
           /\ PersistedStatus(latest, mine, n).failedNodes =
                 (latest.failedNodes \ {n}) \union (mine.failedNodes \intersect {n})
           /\ PersistedStatus(latest, mine, n).nodeEvaluations =
                 [latest.nodeEvaluations EXCEPT ![n] = mine.nodeEvaluations[n]]
  BY DEF GoodStatus, PersistedStatus

\* What cleanupDeletedNodes writes.
LEMMA PrunedIsGood ==
    ASSUME NEW status \in GoodStatus, NEW gone
    PROVE  /\ Pruned(status, gone) \in GoodStatus
           /\ Pruned(status, gone).observedGeneration = status.observedGeneration
           /\ Pruned(status, gone).appliedNodes = status.appliedNodes
           /\ Pruned(status, gone).dryRunResults = status.dryRunResults
           /\ Pruned(status, gone).failedNodes = status.failedNodes
           /\ Pruned(status, gone).nodeEvaluations =
                 [n \in Nodes |-> IF n \in gone THEN Null ELSE status.nodeEvaluations[n]]
  BY DEF GoodStatus, Pruned

-----------------------------------------------------------------------------
(* What a step may do to the statuses of the objects *)

\* A new version of a rule with this status.
Put(r, rule, status) ==
    /\ WriteRule(r, rule)
    /\ apiStatus' = [apiStatus EXCEPT ![r] = status]
    /\ statusWatch' = [statusWatch EXCEPT ![r] = Append(@, status)]
    /\ UNCHANGED <<ruleStore, statusStore>>

\* What a worker writes.
Reported(r, status) ==
    \/ /\ npc = "persist" /\ ncur = r
       /\ nstatus[r].nodeEvaluations[nname] # Null
       /\ status = PersistedStatus(apiStatus[r], nstatus[r], nname)
       /\ UNCHANGED ruleWork
    \/ rpc = "status" /\ rpc' = "prune" /\ rname = r /\ status = rstatus
    \/ rpc = "prune" /\ rpc' = "idle" /\ rname = r /\ status = Pruned(apiStatus[r], rgone)

KeptStatus(r, rule) == IF apiRule[r] = Null \/ rule = Null THEN EmptyStatus ELSE apiStatus[r]

\* A write of the object, by anyone.
RuleWritten(r, rule) ==
    /\ WriteRule(r, rule)
    /\ \/ (CreateRule(r) \/ EditRule(r) \/ DeleteRule(r)) /\ UNCHANGED ruleWork
       \/ rname = r /\ (FinalizerAdded \/ FinalizerRemoved)

ObjectStatusStep ==
    \/ UNCHANGED <<ruleObjects, apiStatusVars>>
    \/ \E r \in Rules, status \in GoodStatus :
          /\ apiRule[r] # Null /\ RuleFresh(r)
          /\ Put(r, apiRule[r], status)
          /\ Reported(r, status)
    \/ \E r \in Rules, rule \in RuleOrNull :
          Put(r, rule, KeptStatus(r, rule)) /\ RuleWritten(r, rule)
    \/ \E r \in Rules : StatusDeliverRule(r)
    \/ StatusCrash

\* The steps with statuses are steps of the system.
LEMMA StatusNextIsNext ==
    [StatusNext]_allVars => [Next]_vars
  <1>1. StatusNodeProcess => NodeProcess
    BY DEF StatusNodeProcess, NodeProcess, NodeReconcilerNext, NodeTakeRules, NodeSkipOrPick,
           NodeRecord, NodePersist
  <1>2. StatusRuleProcess => RuleProcess
    BY DEF StatusRuleProcess, RuleProcess, RuleReconcilerNext, RuleFetch, RuleUncacheStatus,
           RuleFetchAgain, RuleFinalizerUpdate, RuleOtherStep, RuleCacheStatus, RuleDryRun, RuleList,
           RuleRecord, RuleObserve, RuleWriteStatus, RulePrune
  <1>3. RulePruneList => UNCHANGED vars
    BY DEF RulePruneList
  <1>4. QED
    BY <1>1, <1>2, <1>3 DEF StatusNext, Next, Surroundings, InformerNext, StatusEnvironment,
                      StatusDeliverNode, StatusDeliverRule, StatusCrash, allVars

\* A version is never its predecessor's list.
LEMMA WriteMakesVersion ==
    ASSUME ClusterTypeOK, NEW r \in Rules, NEW rule \in RuleOrNull, WriteRule(r, rule)
    PROVE  /\ ruleWatch'[r] # ruleWatch[r]
           /\ ruleWatch' # ruleWatch
           /\ \A q \in Rules \ {r} : ruleWatch'[q] = ruleWatch[q] /\ apiRule'[q] = apiRule[q]
           /\ apiRule'[r] = rule
  <1>1. ruleWatch[r] \in Seq(RuleOrNull)
    BY DEF ClusterTypeOK
  <1>2. Append(ruleWatch[r], rule) # ruleWatch[r]
    <2>1. Len(Append(ruleWatch[r], rule)) = Len(ruleWatch[r]) + 1 /\ Len(ruleWatch[r]) \in Nat
      BY <1>1
    <2>2. QED
      BY <2>1
  <1>3. /\ ruleWatch'[r] = Append(ruleWatch[r], rule)
        /\ \A q \in Rules \ {r} : ruleWatch'[q] = ruleWatch[q] /\ apiRule'[q] = apiRule[q]
        /\ apiRule'[r] = rule
    BY DEF WriteRule, ClusterTypeOK
  <1>4. QED
    BY <1>2, <1>3

\* A write of the object without its status.
LEMMA KeepsWhenWritten ==
    ASSUME ClusterTypeOK, StatusInv, KeepStatuses, NEW r \in Rules, NEW rule \in RuleOrNull,
           WriteRule(r, rule), UNCHANGED ruleStore
    PROVE  Put(r, rule, KeptStatus(r, rule))
  <1>1. /\ ruleWatch'[r] # ruleWatch[r] /\ apiRule'[r] = rule
        /\ \A q \in Rules \ {r} : ruleWatch'[q] = ruleWatch[q] /\ apiRule'[q] = apiRule[q]
    BY WriteMakesVersion
  <1>2. apiStatus \in [Rules -> GoodStatus] /\ statusWatch \in [Rules -> Seq(GoodStatus)]
    BY DEF StatusInv, ObjectStatusesGood, ObjectStatusesIn
  <1>3. apiStatus'[r] = KeptStatus(r, rule)
    BY <1>1 DEF KeepStatuses, KeptStatus
  <1>4. \A q \in Rules \ {r} : apiStatus'[q] = apiStatus[q]
    BY <1>1 DEF KeepStatuses, StatusInv, StatusesCatchUp
  <1>5. apiStatus' = [apiStatus EXCEPT ![r] = KeptStatus(r, rule)]
    <2>1. apiStatus' = [q \in Rules |-> apiStatus'[q]]
      BY DEF KeepStatuses
    <2>2. QED
      BY <1>2, <1>3, <1>4, <2>1
  <1>6. statusWatch' = [statusWatch EXCEPT ![r] = Append(@, KeptStatus(r, rule))]
    <2>1. /\ statusWatch' = [q \in Rules |-> statusWatch'[q]]
          /\ statusWatch'[r] = Append(statusWatch[r], KeptStatus(r, rule))
          /\ \A q \in Rules \ {r} : statusWatch'[q] = statusWatch[q]
      BY <1>1, <1>3 DEF KeepStatuses
    <2>2. QED
      BY <1>2, <2>1, Zenon
  <1>7. QED
    BY <1>5, <1>6 DEF Put, KeepStatuses

\* No write at all.
LEMMA KeepsWhenUntouched ==
    ASSUME StatusInv, KeepStatuses, UNCHANGED <<apiRule, ruleWatch>>
    PROVE  UNCHANGED apiStatusVars
  <1>1. apiStatus \in [Rules -> GoodStatus] /\ statusWatch \in [Rules -> Seq(GoodStatus)]
    BY DEF StatusInv, ObjectStatusesGood, ObjectStatusesIn
  <1>2. /\ apiStatus' = [q \in Rules |-> apiStatus'[q]]
        /\ \A q \in Rules : apiStatus'[q] = apiStatus[q]
    BY DEF KeepStatuses, StatusInv, StatusesCatchUp
  <1>3. /\ statusWatch' = [q \in Rules |-> statusWatch'[q]]
        /\ \A q \in Rules : statusWatch'[q] = statusWatch[q]
    BY DEF KeepStatuses
  <1>4. apiStatus' = apiStatus /\ statusWatch' = statusWatch
    BY <1>1, <1>2, <1>3, Zenon
  <1>5. QED
    BY <1>4 DEF KeepStatuses, apiStatusVars

\* A write of the status makes a version or changes nothing.
LEMMA StatusWriteIsPut ==
    ASSUME ClusterTypeOK, StatusInv, NEW r \in Rules, NEW status, WriteStatus(r, status),
           apiRule[r] # Null, RuleFresh(r), UNCHANGED ruleStore,
           WriteRule(r, apiRule[r]) \/ UNCHANGED <<apiRule, ruleWatch>>
    PROVE  Put(r, apiRule[r], status) \/ UNCHANGED <<ruleObjects, apiStatusVars>>
  <1>1. CASE WriteRule(r, apiRule[r])
    <2>1. ruleWatch' # ruleWatch
      BY <1>1, WriteMakesVersion DEF ClusterTypeOK
    <2>2. QED
      BY <1>1, <2>1 DEF WriteStatus, Put
  <1>2. CASE UNCHANGED <<apiRule, ruleWatch>>
    <2>1. apiStatus' = [apiStatus EXCEPT ![r] = apiStatus[r]]
      BY <1>2 DEF WriteStatus
    <2>2. apiStatus' = apiStatus
      BY <2>1 DEF StatusInv, ObjectStatusesGood, ObjectStatusesIn
    <2>3. QED
      BY <1>2, <2>2 DEF WriteStatus, ruleObjects, apiStatusVars
  <1>3. QED
    BY <1>1, <1>2

\* The status of a current copy is the current status.
LEMMA FreshStatus ==
    ASSUME StatusInv, NEW r \in Rules, RuleFresh(r)
    PROVE  statusWatch[r] = <<>> /\ statusStore[r] = apiStatus[r]
  <1>1. Len(statusWatch[r]) = Len(ruleWatch[r]) /\ Len(ruleWatch[r]) = 0
    BY DEF StatusInv, StatusesCatchUp, RuleFresh
  <1>2. statusWatch[r] \in Seq(GoodStatus)
    BY DEF StatusInv, ObjectStatusesGood, ObjectStatusesIn
  <1>3. statusWatch[r] = <<>>
    BY <1>1, <1>2
  <1>4. QED
    BY <1>3 DEF StatusInv, StatusesCatchUp

\* People write rules, and none of their writes is a status.
LEMMA EnvironmentStatusStep ==
    ASSUME TypeOK, StatusInv, StatusEnvironment
    PROVE  ObjectStatusStep
  <1>1. ClusterTypeOK /\ KeepStatuses /\ UNCHANGED ruleWork
    BY DEF TypeOK, StatusEnvironment, ruleWork, ruleReconcilerVars
  <1>2. ASSUME UNCHANGED <<rulesKept, ruleStore>>
        PROVE  ObjectStatusStep
    <2>1. UNCHANGED <<apiRule, ruleWatch, ruleStore>>
      BY <1>2 DEF rulesKept
    <2>2. UNCHANGED apiStatusVars
      BY <1>1, <2>1, KeepsWhenUntouched
    <2>3. QED
      BY <2>1, <2>2 DEF ObjectStatusStep, ruleObjects
  <1>3. ASSUME NEW r \in Rules, NEW rule \in RuleOrNull, NEW kind, RuleEvent(kind, r, rule),
               CreateRule(r) \/ EditRule(r) \/ DeleteRule(r)
        PROVE  ObjectStatusStep
    <2>1. WriteRule(r, rule) /\ UNCHANGED ruleStore
      BY <1>3 DEF RuleEvent
    <2>2. Put(r, rule, KeptStatus(r, rule))
      BY <1>1, <2>1, KeepsWhenWritten
    <2>3. RuleWritten(r, rule)
      BY <1>1, <1>3, <2>1 DEF RuleWritten
    <2>4. QED
      BY <2>2, <2>3 DEF ObjectStatusStep
  <1>4. ASSUME NEW r \in Rules, CreateRule(r)
        PROVE  ObjectStatusStep
    <2>1. PICK spec \in Specs : RuleEvent("create", r, [spec |-> spec, generation |-> 1,
                                                       finalizer |-> FALSE, deleting |-> FALSE])
      BY <1>4 DEF CreateRule
    <2>2. [spec |-> spec, generation |-> 1, finalizer |-> FALSE, deleting |-> FALSE] \in RuleOrNull
      BY DEF Rule, RuleOrNull
    <2>3. QED
      BY <1>3, <1>4, <2>1, <2>2
  <1>5. ASSUME NEW r \in Rules, apiRule[r] # Null
        PROVE  apiRule[r] \in Rule /\ apiRule[r].generation + 1 \in Nat \ {0}
    <2>1. apiRule[r] \in Rule
      BY <1>1, <1>5 DEF ClusterTypeOK, RuleOrNull
    <2>2. apiRule[r].generation \in Nat
      BY <2>1 DEF Rule
    <2>3. QED
      BY <2>1, <2>2
  <1>6. ASSUME NEW r \in Rules, EditRule(r)
        PROVE  ObjectStatusStep
    <2>1. PICK spec \in Specs :
             RuleEvent("edit", r, [apiRule[r] EXCEPT !.spec = spec, !.generation = @ + 1])
      BY <1>6 DEF EditRule
    <2>2. apiRule[r] \in Rule /\ apiRule[r].generation + 1 \in Nat \ {0}
      BY <1>5, <1>6 DEF EditRule
    <2>3. [apiRule[r] EXCEPT !.spec = spec, !.generation = @ + 1] \in RuleOrNull
      BY <2>2, Zenon DEF Rule, RuleOrNull
    <2>4. QED
      BY <1>3, <1>6, <2>1, <2>3
  <1>7. ASSUME NEW r \in Rules, DeleteRule(r)
        PROVE  ObjectStatusStep
    <2>1. apiRule[r] \in Rule /\ apiRule[r].generation + 1 \in Nat \ {0}
      BY <1>5, <1>7 DEF DeleteRule
    <2>2. [apiRule[r] EXCEPT !.deleting = TRUE, !.generation = @ + 1] \in RuleOrNull
      BY <2>1, Zenon DEF Rule, RuleOrNull
    <2>3. \E rule \in RuleOrNull : RuleEvent("delete", r, rule)
      <3>1. CASE apiRule[r].finalizer
        BY <1>7, <2>2, <3>1 DEF DeleteRule
      <3>2. CASE ~apiRule[r].finalizer
        BY <1>7, <3>2 DEF DeleteRule, RuleOrNull
      <3>3. QED
        BY <3>1, <3>2
    <2>4. QED
      BY <1>3, <1>7, <2>3
  <1>8. ASSUME NEW n \in Nodes, NEW kind, NEW node, NodeEvent(kind, n, node)
        PROVE  ObjectStatusStep
    BY <1>2, <1>8 DEF NodeEvent
  <1>9. ASSUME NEW n \in Nodes,
               SetCondition(n) \/ SetLabels(n) \/ ToggleTaint(n) \/ JoinNode(n) \/ LeaveNode(n)
        PROVE  ObjectStatusStep
    BY <1>8, <1>9 DEF SetCondition, SetLabels, ToggleTaint, JoinNode, LeaveNode
  <1>10. QED
    BY <1>4, <1>6, <1>7, <1>9 DEF StatusEnvironment, EnvironmentNext

\* The node worker.
LEMMA NodeStatusStep ==
    ASSUME TypeOK, RuleInv, StatusInv, StatusNodeProcess
    PROVE  ObjectStatusStep
  <1>1. UNCHANGED ruleStore /\ UNCHANGED ruleWork
    BY DEF StatusNodeProcess, NodeGet, NodeTakeRules, getApplicableRulesForNode, NodeSkipOrPick,
           NodePickRule, NodeRecord, NodeEvaluate, NodeMark, NodePersist, NodePersistStatus,
           ruleSideKept, ruleReconcilerVars, ruleWork
  <1>2. CASE NodePersist
    <2>1. ncur \in Rules /\ nname \in Nodes /\ npc = "persist"
      BY <1>2 DEF NodePersist, NodePersistStatus, TypeOK, NodeReconcilerTypeOK
    <2> PICK r \in Rules : r = ncur
      BY <2>1
    <2>2. CASE ruleWatch' = ruleWatch /\ UNCHANGED apiStatusVars
      <3>1. UNCHANGED apiRule
        <4>1. apiRule[r] \in RuleOrNull /\ (RuleFresh(r) => ruleStore[r] = apiRule[r])
          BY FreshIsCurrent DEF TypeOK, ClusterTypeOK
        <4>2. ~(RuleFresh(r) /\ WriteRule(r, ruleStore[r]))
          BY <2>2, <4>1, WriteMakesVersion DEF TypeOK
        <4>3. QED
          BY <1>2, <4>2 DEF NodePersist, NodePersistStatus, rulesKept
      <3>2. QED
        BY <1>1, <2>2, <3>1 DEF ObjectStatusStep, ruleObjects
    <2>3. CASE /\ nstatus[r].nodeEvaluations[nname] # Null
               /\ ruleStore[r] # Null /\ RuleFresh(r)
               /\ WriteStatus(r, PersistedStatus(statusStore[r], nstatus[r], nname))
      <3>1. ruleStore[r] = apiRule[r] /\ apiRule[r] \in RuleOrNull
        BY <2>3, FreshIsCurrent DEF TypeOK, ClusterTypeOK
      <3>2. statusStore[r] = apiStatus[r]
        BY <2>3, FreshStatus
      <3> DEFINE status == PersistedStatus(apiStatus[r], nstatus[r], nname)
      <3>3. status \in GoodStatus
        BY <2>1, PersistedIsGood DEF StatusInv, ObjectStatusesGood, ObjectStatusesIn, WorkerStatusesGood
      <3>4. WriteStatus(r, status)
        BY <2>3, <3>2
      <3>5. Reported(r, status)
        BY <1>1, <2>1, <2>3 DEF Reported
      <3> HIDE DEF status
      <3>6. WriteRule(r, apiRule[r]) \/ UNCHANGED <<apiRule, ruleWatch>>
        BY <1>2, <3>1 DEF NodePersist, NodePersistStatus, rulesKept
      <3>7. Put(r, apiRule[r], status) \/ UNCHANGED <<ruleObjects, apiStatusVars>>
        BY <1>1, <2>3, <3>1, <3>4, <3>6, StatusWriteIsPut DEF TypeOK
      <3>8. QED
        BY <2>3, <3>1, <3>3, <3>5, <3>7 DEF ObjectStatusStep
    <2>4. QED
      BY <1>2, <2>2, <2>3 DEF NodePersist
  <1>3. CASE UNCHANGED <<rulesKept, apiStatusVars>>
    BY <1>1, <1>3 DEF ObjectStatusStep, ruleObjects, rulesKept
  <1>4. QED
    BY <1>2, <1>3 DEF StatusNodeProcess, NodeGet, NodeTakeRules, getApplicableRulesForNode,
        NodeSkipOrPick, NodePickRule, NodeRecord, NodeEvaluate, NodeMark, ruleSideKept, statusVars

\* The rule worker.
LEMMA RuleStatusStep ==
    ASSUME TypeOK, RuleInv, StatusInv, StatusRuleProcess
    PROVE  ObjectStatusStep
  <1>1. ClusterTypeOK
    BY DEF TypeOK
  <1>2. CASE UNCHANGED <<apiRule, ruleWatch, ruleStore, apiStatusVars>>
    BY <1>2 DEF ObjectStatusStep, ruleObjects
  <1>3. CASE RuleFinalizerUpdate
    <2>1. rpc \in {"addFinalizer", "removeFinalizer"} /\ UNCHANGED <<ruleStore, ruleCache>> /\ KeepStatuses
      BY <1>3 DEF RuleFinalizerUpdate, RuleAddFinalizer, RuleRemoveFinalizer
    <2>2. rname \in Rules /\ rrule \in Rule
      BY <2>1 DEF TypeOK, RuleReconcilerTypeOK, RuleOrNull
    <2> PICK r \in Rules : r = rname
      BY <2>2
    <2>3. CASE UNCHANGED rulesKept
      <3>1. UNCHANGED <<apiRule, ruleWatch>>
        BY <2>3 DEF rulesKept
      <3>2. QED
        BY <1>2, <2>1, <3>1, KeepsWhenUntouched
    <2>4. CASE /\ rpc = "addFinalizer" /\ FinalizerUpdateOK /\ RuleStepTo("refresh")
               /\ WriteRule(r, [rrule EXCEPT !.finalizer = TRUE])
      <3> DEFINE rule == [rrule EXCEPT !.finalizer = TRUE]
      <3>1. FinalizerAdded
        BY <2>1, <2>4, HeldIsObject DEF FinalizerAdded, FinalizerUpdateOK, RuleStepTo
      <3>2. rule \in RuleOrNull
        BY <2>2 DEF Rule, RuleOrNull
      <3>3. WriteRule(r, rule)
        BY <2>4
      <3> HIDE DEF rule
      <3>4. Put(r, rule, KeptStatus(r, rule))
        BY <1>1, <2>1, <3>2, <3>3, KeepsWhenWritten
      <3>5. QED
        BY <3>1, <3>2, <3>3, <3>4 DEF ObjectStatusStep, RuleWritten
    <2>5. CASE /\ rpc = "removeFinalizer" /\ FinalizerUpdateOK /\ RuleStepTo("uncache")
               /\ WriteRule(r, Null)
      <3>1. rrule.deleting
        BY <2>5 DEF RuleInv, StepsGuarded
      <3>2. FinalizerRemoved
        BY <2>1, <2>5, <3>1, HeldIsObject DEF FinalizerRemoved, FinalizerUpdateOK, RuleStepTo
      <3>3. Null \in RuleOrNull
        BY DEF RuleOrNull
      <3>4. Put(r, Null, KeptStatus(r, Null))
        BY <1>1, <2>1, <2>5, <3>3, KeepsWhenWritten
      <3>5. QED
        BY <2>5, <3>2, <3>3, <3>4 DEF ObjectStatusStep, RuleWritten
    <2>6. QED
      BY <1>3, <2>3, <2>4, <2>5
      DEF RuleFinalizerUpdate, RuleAddFinalizer, RuleRemoveFinalizer, FinalizerUpdateFails
  <1>4. CASE RuleWriteStatus \/ RulePrune
    <2>1. /\ rpc \in {"status", "prune"}
          /\ UNCHANGED ruleStore
          /\ \/ UNCHANGED rulesKept
             \/ RuleFresh(rname) /\ WriteRule(rname, ruleStore[rname])
      BY <1>4 DEF RuleWriteStatus, RulePrune, updateRuleStatus, cleanupDeletedNodes, WriteStatusOK,
                  WriteStatusFails
    <2>2. rname \in Rules /\ apiRule[rname] # Null /\ apiRule[rname] \in RuleOrNull
      <3>1. rname \in Rules
        BY <2>1 DEF TypeOK, RuleReconcilerTypeOK
      <3>2. QED
        BY <1>1, <2>1, <3>1 DEF RuleInv, StepsGuarded, ProcessSteps, Guarded, ClusterTypeOK
    <2> PICK r \in Rules : r = rname
      BY <2>2
    <2>3. UNCHANGED <<apiRule, ruleWatch>> \/ (RuleFresh(r) /\ WriteRule(r, apiRule[r]))
      BY <2>1, FreshIsCurrent DEF rulesKept
    <2>4. CASE ruleWatch' = ruleWatch /\ UNCHANGED apiStatusVars
      BY <1>1, <1>2, <2>1, <2>2, <2>3, <2>4, WriteMakesVersion
    <2>5. ASSUME NEW status \in GoodStatus, RuleFresh(r), WriteStatus(r, status), Reported(r, status)
          PROVE  ObjectStatusStep
      <3>1. WriteRule(r, apiRule[r]) \/ UNCHANGED <<apiRule, ruleWatch>>
        BY <2>3
      <3>2. Put(r, apiRule[r], status) \/ UNCHANGED <<ruleObjects, apiStatusVars>>
        BY <1>1, <2>1, <2>2, <2>5, <3>1, StatusWriteIsPut
      <3>3. QED
        BY <2>2, <2>5, <3>2 DEF ObjectStatusStep
    <2>6. CASE RuleWriteStatus
      <3>1. CASE rpc' = "prune" /\ WriteStatus(r, rstatus)
        <4>1. rpc = "status" /\ RuleFresh(r)
          BY <2>6, <3>1 DEF RuleWriteStatus, updateRuleStatus, WriteStatusOK, RuleError, RuleReturn
        <4>2. Reported(r, rstatus)
          BY <3>1, <4>1 DEF Reported
        <4>3. QED
          BY <2>5, <3>1, <4>1, <4>2 DEF StatusInv, WorkerStatusesGood
      <3>2. CASE rpc' = "idle" /\ UNCHANGED apiStatusVars
        <4>1. UNCHANGED rulesKept
          BY <2>6, <3>2 DEF RuleWriteStatus, updateRuleStatus, WriteStatusFails, RuleStepTo
        <4>2. QED
          BY <2>4, <3>2, <4>1 DEF rulesKept
      <3>3. QED
        BY <2>6, <3>1, <3>2 DEF RuleWriteStatus
    <2>7. CASE RulePrune
      <3>1. rpc = "prune" /\ rpc' = "idle"
        BY <2>7 DEF RulePrune, cleanupDeletedNodes, RuleDone, RuleError, RuleReturn
      <3>2. CASE UNCHANGED <<ruleWatch, apiStatusVars>>
        BY <2>4, <3>2
      <3>3. CASE RuleFresh(r) /\ WriteStatus(r, Pruned(statusStore[r], rgone))
        <4>1. statusStore[r] = apiStatus[r]
          BY <3>3, FreshStatus
        <4>2. Pruned(apiStatus[r], rgone) \in GoodStatus
          BY PrunedIsGood DEF StatusInv, ObjectStatusesGood, ObjectStatusesIn
        <4>3. Reported(r, Pruned(apiStatus[r], rgone))
          BY <3>1 DEF Reported
        <4>4. QED
          BY <2>5, <3>3, <4>1, <4>2, <4>3
      <3>4. CASE rname \in ruleQueue' /\ UNCHANGED apiStatusVars /\ ~(RuleFresh(rname) /\ quota' = quota)
        <4>1. UNCHANGED rulesKept
          BY <2>7, <3>4 DEF RulePrune, cleanupDeletedNodes, WriteStatusOK, WriteStatusFails
        <4>2. QED
          BY <2>4, <3>4, <4>1 DEF rulesKept
      <3>5. QED
        BY <2>7, <3>2, <3>3, <3>4 DEF RulePrune
    <2>8. QED
      BY <1>4, <2>6, <2>7
  <1>5. CASE \/ \E r \in Rules : RuleFetch(r)
             \/ RuleUncacheStatus \/ RuleFetchAgain \/ RuleOtherStep
             \/ RuleCacheStatus \/ RuleDryRun \/ RuleList \/ RuleRecord \/ RuleObserve
    <2>1. UNCHANGED <<apiRule, ruleWatch, ruleStore>>
      BY <1>5 DEF RuleFetch, RuleGet, RuleUncacheStatus, RuleUncache, RuleFetchAgain, RuleRefresh,
          RuleOtherStep, cleanupTaintsForRule, CleanupList, CleanupStep, CleanupEnd, RuleSelector,
          cleanupNodesAfterSelectorChange, RuleMark, RuleCacheStatus, RuleUpdateCache, RuleDryRun,
          processDryRun, RuleList, RuleListNodes, RuleRecord, RuleEvaluate, RuleObserve,
          RuleEvaluateEnd, rulesKept
    <2>2. UNCHANGED apiStatusVars
      BY <1>5 DEF RuleFetch, RuleUncacheStatus, RuleFetchAgain, RuleOtherStep, RuleCacheStatus,
          RuleDryRun, RuleList, RuleRecord, RuleObserve
    <2>3. QED
      BY <1>2, <2>1, <2>2
  <1>6. QED
    BY <1>3, <1>4, <1>5 DEF StatusRuleProcess

\* Every step is one of these.
LEMMA NextIsStatusStep ==
    ASSUME TypeOK, RuleInv, StatusInv, [StatusNext]_allVars
    PROVE  ObjectStatusStep
  <1>1. CASE UNCHANGED allVars \/ (Rest /\ UNCHANGED statusVars)
    BY <1>1 DEF Rest, allVars, vars, clusterVars, statusVars, ObjectStatusStep, ruleObjects
  <1>2. ASSUME NEW n \in Nodes, StatusDeliverNode(n)
        PROVE  ObjectStatusStep
    BY <1>2 DEF StatusDeliverNode, DeliverNode, statusVars, ObjectStatusStep, ruleObjects
  <1>3. CASE RulePruneList
    BY <1>3 DEF RulePruneList, vars, clusterVars, ObjectStatusStep, ruleObjects
  <1>4. QED
    BY <1>1, <1>2, <1>3, EnvironmentStatusStep, NodeStatusStep, RuleStatusStep
    DEF StatusNext, ObjectStatusStep

-----------------------------------------------------------------------------
(* Types, and the verdicts in the entries *)

\* The statuses of the objects come from the workers.
LEMMA ObjectStatusesStay ==
    ASSUME ClusterTypeOK, NEW S, ObjectStatusesIn(S), EmptyStatus \in S, StatusInv, ObjectStatusStep,
           \A r \in Rules, status \in GoodStatus : Reported(r, status) => status \in S
    PROVE  ObjectStatusesIn(S)'
  <1>1. ASSUME NEW r \in Rules, NEW rule, NEW status \in S, Put(r, rule, status)
        PROVE  ObjectStatusesIn(S)'
    <2>1. Append(statusWatch[r], status) \in Seq(S)
      BY DEF ObjectStatusesIn
    <2>2. QED
      BY <1>1, <2>1 DEF Put, ObjectStatusesIn
  <1>2. CASE UNCHANGED apiStatusVars
    BY <1>2 DEF apiStatusVars, ObjectStatusesIn
  <1>3. ASSUME NEW r \in Rules, NEW rule, Put(r, rule, KeptStatus(r, rule))
        PROVE  ObjectStatusesIn(S)'
    <2>1. KeptStatus(r, rule) \in S
      BY DEF KeptStatus, ObjectStatusesIn
    <2>2. QED
      BY <1>1, <1>3, <2>1
  <1>4. ASSUME NEW r \in Rules, StatusDeliverRule(r)
        PROVE  ObjectStatusesIn(S)'
    <2>1. statusWatch[r] \in Seq(S) /\ Len(statusWatch[r]) = Len(ruleWatch[r])
      BY DEF ObjectStatusesIn, StatusInv, StatusesCatchUp
    <2>2. statusWatch[r] # <<>>
      <3>1. SUFFICES ASSUME statusWatch[r] = <<>> PROVE FALSE
        OBVIOUS
      <3>2. Len(ruleWatch[r]) = 0
        BY <2>1, <3>1
      <3>3. ruleWatch[r] # <<>> /\ ruleWatch[r] \in Seq(RuleOrNull)
        BY <1>4 DEF StatusDeliverRule, DeliverRule, ClusterTypeOK
      <3>4. QED
        BY <3>2, <3>3
    <2>3. Head(statusWatch[r]) \in S /\ Tail(statusWatch[r]) \in Seq(S)
      BY <2>1, <2>2
    <2>4. QED
      BY <1>4, <2>3 DEF StatusDeliverRule, ObjectStatusesIn
  <1>5. CASE StatusCrash
    BY <1>5 DEF StatusCrash, ObjectStatusesIn
  <1>6. QED
    BY <1>1, <1>2, <1>3, <1>4, <1>5 DEF ObjectStatusStep

\* The informer receives the statuses with the rules.
LEMMA StatusesStayCurrent ==
    ASSUME TypeOK, StatusInv, ObjectStatusStep
    PROVE  StatusesCatchUp'
  <1>1. ClusterTypeOK /\ ObjectStatusesIn(GoodStatus) /\ StatusesCatchUp
    BY DEF TypeOK, StatusInv, ObjectStatusesGood
  <1>2. ASSUME NEW r \in Rules, NEW rule \in RuleOrNull, NEW status \in GoodStatus,
               Put(r, rule, status), rule = Null => status = EmptyStatus
        PROVE  StatusesCatchUp'
    <2> DEFINE longer == Append(statusWatch[r], status)
    <2>1. /\ apiStatus'[r] = status /\ statusWatch'[r] = longer /\ apiRule'[r] = rule
          /\ ruleWatch'[r] = Append(ruleWatch[r], rule)
          /\ \A q \in Rules \ {r} :
                /\ apiStatus'[q] = apiStatus[q] /\ statusWatch'[q] = statusWatch[q]
                /\ apiRule'[q] = apiRule[q] /\ ruleWatch'[q] = ruleWatch[q]
          /\ statusStore' = statusStore
      <3>1. /\ apiStatus'[r] = status /\ statusWatch'[r] = longer /\ statusStore' = statusStore
            /\ \A q \in Rules \ {r} :
                  apiStatus'[q] = apiStatus[q] /\ statusWatch'[q] = statusWatch[q]
        BY <1>1, <1>2 DEF Put, ObjectStatusesIn
      <3>2. WriteRule(r, rule)
        BY <1>2 DEF Put
      <3>3. /\ apiRule'[r] = rule /\ ruleWatch'[r] = Append(ruleWatch[r], rule)
            /\ \A q \in Rules \ {r} : apiRule'[q] = apiRule[q] /\ ruleWatch'[q] = ruleWatch[q]
        BY <1>1, <3>2 DEF WriteRule, ClusterTypeOK
      <3>4. QED
        BY <3>1, <3>3
    <2>2. statusWatch[r] \in Seq(GoodStatus) /\ ruleWatch[r] \in Seq(RuleOrNull)
      BY <1>1 DEF ObjectStatusesIn, ClusterTypeOK
    <2>3. /\ Len(longer) = Len(statusWatch[r]) + 1 /\ longer # <<>> /\ longer[Len(longer)] = status
          /\ Len(Append(ruleWatch[r], rule)) = Len(ruleWatch[r]) + 1
      BY <2>2
    <2> HIDE DEF longer
    <2>4. Len(statusWatch[r]) = Len(ruleWatch[r])
      BY <1>1 DEF StatusesCatchUp
    <2>5. /\ Len(statusWatch'[r]) = Len(ruleWatch'[r])
          /\ statusWatch'[r] # <<>> /\ statusWatch'[r][Len(statusWatch'[r])] = apiStatus'[r]
          /\ apiRule'[r] = Null => apiStatus'[r] = EmptyStatus
      BY <1>2, <2>1, <2>3, <2>4
    <2> SUFFICES ASSUME NEW q \in Rules
                 PROVE  /\ Len(statusWatch'[q]) = Len(ruleWatch'[q])
                        /\ statusWatch'[q] = <<>> => statusStore'[q] = apiStatus'[q]
                        /\ statusWatch'[q] # <<>> =>
                              statusWatch'[q][Len(statusWatch'[q])] = apiStatus'[q]
                        /\ apiRule'[q] = Null => apiStatus'[q] = EmptyStatus
      BY DEF StatusesCatchUp
    <2>6. CASE q = r
      BY <2>5, <2>6
    <2>7. CASE q # r
      BY <1>1, <2>1, <2>7 DEF StatusesCatchUp
    <2>8. QED
      BY <2>6, <2>7
  <1>3. CASE UNCHANGED <<ruleObjects, apiStatusVars>>
    BY <1>1, <1>3 DEF ruleObjects, apiStatusVars, StatusesCatchUp
  <1>4. ASSUME NEW r \in Rules, apiRule[r] # Null, NEW status \in GoodStatus,
               Put(r, apiRule[r], status)
        PROVE  StatusesCatchUp'
    BY <1>1, <1>2, <1>4 DEF ClusterTypeOK
  <1>5. ASSUME NEW r \in Rules, NEW rule \in RuleOrNull, Put(r, rule, KeptStatus(r, rule))
        PROVE  StatusesCatchUp'
    <2>1. KeptStatus(r, rule) \in GoodStatus
      BY <1>1, EmptyIsGood DEF KeptStatus, ObjectStatusesIn
    <2>2. rule = Null => KeptStatus(r, rule) = EmptyStatus
      BY DEF KeptStatus
    <2>3. QED
      BY <1>2, <1>5, <2>1, <2>2
  <1>6. ASSUME NEW r \in Rules, StatusDeliverRule(r)
        PROVE  StatusesCatchUp'
    <2> DEFINE rest == Tail(statusWatch[r])
    <2>1. /\ statusWatch[r] \in Seq(GoodStatus) /\ ruleWatch[r] \in Seq(RuleOrNull)
          /\ ruleWatch[r] # <<>>
          /\ Len(statusWatch[r]) = Len(ruleWatch[r])
      BY <1>1, <1>6 DEF ObjectStatusesIn, ClusterTypeOK, StatusesCatchUp, StatusDeliverRule, DeliverRule
    <2>2. Len(statusWatch[r]) \in Nat \ {0} /\ statusWatch[r] # <<>>
      BY <2>1
    <2>3. /\ Len(rest) = Len(statusWatch[r]) - 1 /\ Len(Tail(ruleWatch[r])) = Len(ruleWatch[r]) - 1
          /\ Head(statusWatch[r]) = statusWatch[r][1]
          /\ \A i \in 1..Len(rest) : rest[i] = statusWatch[r][i + 1]
          /\ rest \in Seq(GoodStatus)
      BY <2>1, <2>2
    <2>4. /\ statusWatch'[r] = rest /\ statusStore'[r] = Head(statusWatch[r])
          /\ ruleWatch'[r] = Tail(ruleWatch[r])
          /\ apiStatus' = apiStatus /\ apiRule' = apiRule
          /\ \A q \in Rules \ {r} :
                /\ statusWatch'[q] = statusWatch[q] /\ statusStore'[q] = statusStore[q]
                /\ ruleWatch'[q] = ruleWatch[q]
      BY <1>1, <1>6 DEF StatusDeliverRule, DeliverRule, ObjectStatusesIn, ClusterTypeOK
    <2>5. statusWatch[r][Len(statusWatch[r])] = apiStatus[r]
      BY <1>1, <2>2 DEF StatusesCatchUp
    <2> HIDE DEF rest
    <2>6. rest = <<>> => Head(statusWatch[r]) = apiStatus[r]
      <3>1. rest = <<>> => Len(rest) = 0
        OBVIOUS
      <3>2. Len(rest) = 0 => Len(statusWatch[r]) = 1
        BY <2>2, <2>3
      <3>3. QED
        BY <2>3, <2>5, <3>1, <3>2
    <2>7. rest # <<>> => rest[Len(rest)] = apiStatus[r]
      <3>1. rest # <<>> => Len(rest) \in 1..Len(rest)
        BY <2>3
      <3>2. Len(rest) + 1 = Len(statusWatch[r])
        BY <2>2, <2>3
      <3>3. QED
        BY <2>3, <2>5, <3>1, <3>2, Zenon
    <2>8. Len(statusWatch'[r]) = Len(ruleWatch'[r])
      BY <2>1, <2>3, <2>4
    <2> SUFFICES ASSUME NEW q \in Rules
                 PROVE  /\ Len(statusWatch'[q]) = Len(ruleWatch'[q])
                        /\ statusWatch'[q] = <<>> => statusStore'[q] = apiStatus'[q]
                        /\ statusWatch'[q] # <<>> =>
                              statusWatch'[q][Len(statusWatch'[q])] = apiStatus'[q]
                        /\ apiRule'[q] = Null => apiStatus'[q] = EmptyStatus
      BY DEF StatusesCatchUp
    <2>9. CASE q = r
      BY <1>1, <2>4, <2>6, <2>7, <2>8, <2>9 DEF StatusesCatchUp
    <2>10. CASE q # r
      BY <1>1, <2>4, <2>10 DEF StatusesCatchUp
    <2>11. QED
      BY <2>9, <2>10
  <1>7. CASE StatusCrash
    <2>1. /\ apiStatus' = apiStatus /\ apiRule' = apiRule /\ statusStore' = apiStatus
          /\ \A q \in Rules : statusWatch'[q] = <<>> /\ ruleWatch'[q] = <<>>
      BY <1>7 DEF StatusCrash, Crash
    <2>2. QED
      BY <1>1, <2>1 DEF StatusesCatchUp
  <1>8. QED
    BY <1>3, <1>4, <1>5, <1>6, <1>7 DEF ObjectStatusStep

\* What the node worker holds.
LEMMA NodeStatusesStayGood ==
    ASSUME TypeOK, StatusInv, StatusNodeProcess
    PROVE  WorkerStatusesGood'
  <1>1. WorkerStatusesGood
    BY DEF StatusInv
  <1>2. CASE UNCHANGED <<cachedStatus, nodeStatusVars, rstatus, rgone>>
    BY <1>1, <1>2 DEF nodeStatusVars, WorkerStatusesGood
  <1>3. CASE NodeTakeRules
    <2>1. nshared' \subseteq Rules
      BY <1>3 DEF NodeTakeRules, getApplicableRulesForNode, NodeContinue, Existing
    <2>2. nstatus' \in [Rules -> GoodStatus]
      BY <1>1, <1>3, EmptyIsGood DEF NodeTakeRules, WorkerStatusesGood
    <2>3. QED
      BY <1>1, <1>3, <2>1, <2>2 DEF NodeTakeRules, WorkerStatusesGood
  <1>4. ASSUME NEW r \in Rules, NodeDrop(r), UNCHANGED <<cachedStatus, rstatus, rgone>>
        PROVE  WorkerStatusesGood'
    BY <1>1, <1>4, EmptyIsGood DEF NodeDrop, WorkerStatusesGood
  <1>5. CASE NodePersist
    <2>1. ncur \in Rules
      BY <1>5 DEF NodePersist, NodePersistStatus, TypeOK, NodeReconcilerTypeOK
    <2>2. QED
      BY <1>4, <1>5, <2>1 DEF NodePersist
  <1>6. CASE NodeRecord
    <2>1. nname \in Nodes /\ ncur \in Rules /\ nnode \in Node /\ nrules[ncur] \in Specs
      BY <1>6 DEF NodeRecord, NodeEvaluate, TypeOK, NodeReconcilerTypeOK, NodeOrNull, SpecOrNull
    <2>2. nstatus[ncur] \in GoodStatus
      BY <1>1, <2>1 DEF WorkerStatusesGood
    <2>3. /\ updateNodeEvaluationStatus(nstatus[ncur], nname, Evaluation(nrules[ncur], nnode))
                \in GoodStatus
          /\ AfterPatch(nstatus[ncur], nname, nrules[ncur], nnode) \in GoodStatus
      BY <2>1, <2>2, EvaluationIsGood, EntryIsGood, AfterPatchIsGood
    <2>4. nstatus' \in [Rules -> GoodStatus]
      BY <1>1, <1>6, <2>3 DEF NodeRecord, WorkerStatusesGood
    <2>5. cachedStatus' \in [Rules -> GoodStatus]
      BY <1>1, <1>6, <2>1, <2>4 DEF NodeRecord, WorkerStatusesGood
    <2>6. QED
      BY <1>1, <1>6, <2>4, <2>5 DEF NodeRecord, WorkerStatusesGood
  <1>7. ASSUME NEW r \in Rules, NodeSkipOrPick(r)
        PROVE  WorkerStatusesGood'
    BY <1>2, <1>4, <1>7 DEF NodeSkipOrPick
  <1>8. QED
    BY <1>2, <1>3, <1>5, <1>6, <1>7 DEF StatusNodeProcess, statusVars

\* What the rule worker holds.
LEMMA RuleStatusesStayGood ==
    ASSUME TypeOK, StatusInv, StatusRuleProcess
    PROVE  WorkerStatusesGood'
  <1>1. WorkerStatusesGood /\ ObjectStatusesIn(GoodStatus)
    BY DEF StatusInv, ObjectStatusesGood
  <1> rgone' = {}
    BY DEF StatusRuleProcess
  <1>2. ASSUME UNCHANGED <<cachedStatus, nodeStatusVars>>, rstatus' \in GoodStatus
        PROVE  WorkerStatusesGood'
    BY <1>1, <1>2 DEF nodeStatusVars, WorkerStatusesGood
  <1>3. ASSUME NEW r \in Rules, NEW status \in GoodStatus, Recache(r, status), rstatus' \in GoodStatus
        PROVE  WorkerStatusesGood'
    BY <1>1, <1>3 DEF Recache, WorkerStatusesGood
  <1>4. rstatus \in GoodStatus /\ EmptyStatus \in GoodStatus
    BY <1>1, EmptyIsGood DEF WorkerStatusesGood
  <1>5. rpc # "idle" => rname \in Rules /\ rrule \in Rule
    BY DEF TypeOK, RuleReconcilerTypeOK, RuleOrNull
  <1>6. ASSUME NEW r \in Rules, RuleFetch(r)
        PROVE  WorkerStatusesGood'
    BY <1>1, <1>2, <1>3, <1>4, <1>6 DEF RuleFetch, ObjectStatusesIn
  <1>7. CASE RuleUncacheStatus
    BY <1>3, <1>4, <1>5, <1>7 DEF RuleUncacheStatus, RuleUncache
  <1>8. CASE RuleFetchAgain
    BY <1>1, <1>2, <1>5, <1>8 DEF RuleFetchAgain, RuleRefresh, ObjectStatusesIn
  <1>9. CASE RuleFinalizerUpdate \/ RuleOtherStep
    BY <1>2, <1>4, <1>9 DEF RuleFinalizerUpdate, RuleOtherStep
  <1>10. CASE RuleCacheStatus
    <2>1. [rstatus EXCEPT !.dryRunResults = Null] \in GoodStatus
      BY <1>4 DEF GoodStatus
    <2>2. QED
      BY <1>3, <1>4, <1>5, <1>10, <2>1 DEF RuleCacheStatus, RuleUpdateCache
  <1>11. CASE RuleDryRun
    <2>1. dryRunResults(rrule.spec) \in DryRunResults
      BY DryRunIsGood DEF TypeOK
    <2>2. [rstatus EXCEPT !.dryRunResults = dryRunResults(rrule.spec)] \in GoodStatus
      BY <1>4, <2>1 DEF GoodStatus
    <2>3. QED
      BY <1>2, <1>11, <2>2 DEF RuleDryRun
  <1>12. CASE RuleList
    <2> DEFINE applied == {n \in Existing(nodeStore) : ruleAppliesTo(rrule.spec, nodeStore[n])}
               evaluations == [n \in Nodes |->
                    IF n \in applied /\ rnodes'[n] = Null
                    THEN Evaluation(rrule.spec, nodeStore[n]) ELSE rstatus.nodeEvaluations[n]]
    <2>1. rrule.spec \in Specs
      BY <1>5, <1>12 DEF RuleList, RuleListNodes, Rule
    <2>2. applied \in SUBSET Nodes /\ \A n \in applied : nodeStore[n] \in Node
      BY DEF TypeOK, ClusterTypeOK, Existing, NodeOrNull
    <2>3. rstatus' = [rstatus EXCEPT !.appliedNodes = applied, !.nodeEvaluations = evaluations]
      BY <1>12 DEF RuleList
    <2> HIDE DEF applied
    <2>4. \A n \in Nodes : rstatus.nodeEvaluations[n] \in GoodEvaluation \union {Null}
      BY <1>4 DEF GoodStatus
    <2>5. \A n \in applied : Evaluation(rrule.spec, nodeStore[n]) \in GoodEvaluation
      BY <2>1, <2>2, EvaluationIsGood
    <2>6. evaluations \in [Nodes -> GoodEvaluation \union {Null}]
      BY <2>4, <2>5
    <2> HIDE DEF evaluations
    <2>7. rstatus' \in GoodStatus
      BY <1>4, <2>2, <2>3, <2>6 DEF GoodStatus
    <2>8. QED
      BY <1>2, <1>12, <2>7 DEF RuleList
  <1>13. CASE RuleRecord
    <2>1. PICK n \in Nodes :
             /\ rnodes'[n] # rnodes[n]
             /\ rstatus' = AfterPatch(rstatus, n, rrule.spec, rnodes[n])
      BY <1>13 DEF RuleRecord
    <2>2. rnodes[n] \in Node
      <3>1. rnodes \in [Nodes -> NodeOrNull]
        BY DEF TypeOK, RuleReconcilerTypeOK
      <3>2. PICK m \in Nodes : rnodes[m] # Null /\ rnodes' = [rnodes EXCEPT ![m] = Null]
        BY <1>13 DEF RuleRecord, RuleEvaluate
      <3>3. m = n
        BY <2>1, <3>1, <3>2
      <3>4. QED
        BY <3>1, <3>2, <3>3 DEF NodeOrNull
    <2>3. rrule.spec \in Specs
      BY <1>5, <1>13 DEF RuleRecord, RuleEvaluate, Rule
    <2>4. rstatus' \in GoodStatus
      BY <1>4, <2>1, <2>2, <2>3, AfterPatchIsGood
    <2>5. QED
      BY <1>2, <1>13, <2>4 DEF RuleRecord
  <1>14. CASE RuleObserve
    <2>1. rrule.generation \in Nat
      BY <1>5, <1>14 DEF RuleObserve, RuleEvaluateEnd, Rule
    <2>2. [rstatus EXCEPT !.observedGeneration = rrule.generation] \in GoodStatus
      BY <1>4, <2>1 DEF GoodStatus
    <2>3. QED
      BY <1>2, <1>14, <2>2 DEF RuleObserve
  <1>15. CASE RuleWriteStatus \/ RulePrune
    BY <1>2, <1>4, <1>15 DEF RuleWriteStatus, RulePrune
  <1>16. QED
    BY <1>6, <1>7, <1>8, <1>9, <1>10, <1>11, <1>12, <1>13, <1>14, <1>15 DEF StatusRuleProcess

\* The inductive step.
LEMMA StatusInductive ==
    ASSUME TypeOK, RuleInv, StatusInv, [StatusNext]_allVars
    PROVE  StatusInv'
  <1>1. ObjectStatusStep
    BY NextIsStatusStep
  <1>2. StatusesCatchUp'
    BY <1>1, StatusesStayCurrent
  <1>3. ObjectStatusesGood'
    <2>1. ClusterTypeOK /\ ObjectStatusesIn(GoodStatus)
      BY DEF TypeOK, StatusInv, ObjectStatusesGood
    <2>2. ObjectStatusesIn(GoodStatus)'
      BY <1>1, <2>1, EmptyIsGood, ObjectStatusesStay
    <2>3. QED
      BY <2>2 DEF ObjectStatusesGood, ObjectStatusesIn, GoodStatus
  <1>4. WorkerStatusesGood'
    <2>1. CASE UNCHANGED <<cachedStatus, nodeStatusVars, rstatus, rgone>>
      BY <2>1 DEF StatusInv, WorkerStatusesGood, nodeStatusVars
    <2>2. CASE StatusCrash
      BY <2>2, EmptyIsGood DEF StatusCrash, WorkerStatusesGood, EmptyStatuses
    <2>3. CASE RulePruneList
      BY <2>3 DEF StatusInv, WorkerStatusesGood, nodeStatusVars, RulePruneList
    <2>4. QED
      BY <2>1, <2>2, <2>3, NodeStatusesStayGood, RuleStatusesStayGood
      DEF StatusNext, StatusEnvironment, StatusDeliverNode, StatusDeliverRule, allVars, statusVars
  <1>5. QED
    BY <1>2, <1>3, <1>4 DEF StatusInv

\* A behaviour with statuses is a behaviour of the system.
THEOREM StatusesImplementSystem ==
    StatusSpec => SafeSpec
  <1>1. StatusInit => Init
    BY DEF StatusInit
  <1>2. QED
    BY <1>1, StatusNextIsNext, PTL DEF StatusSpec, SafeSpec

\* The invariants of the system, and StatusInv.
THEOREM StatusInvariant ==
    StatusSpec => [](IInv /\ NodesCatchUp /\ StatusInv)
  <1>1. StatusInit => StatusInv
    <2> SUFFICES ASSUME StatusInit PROVE StatusInv
      OBVIOUS
    <2>1. WorkerStatusesGood
      BY EmptyIsGood DEF StatusInit, WorkerStatusesGood, EmptyStatuses
    <2>2. ObjectStatusesGood
      BY EmptyIsGood DEF StatusInit, ObjectStatusesGood, ObjectStatusesIn, EmptyStatuses
    <2>3. StatusesCatchUp
      BY DEF StatusInit, StatusesCatchUp, EmptyStatuses, Init, ClusterInit
    <2>4. QED
      BY <2>1, <2>2, <2>3 DEF StatusInv
  <1>2. IInv /\ StatusInv /\ [StatusNext]_allVars => StatusInv'
    BY StatusInductive DEF IInv
  <1>3. QED
    BY <1>1, <1>2, StatusesImplementSystem, Inductive, NodeInformerCatchesUp, PTL DEF StatusSpec

\* Whatever the two workers do with their copies, every status in the API server, the
\* informer, the cache and the workers is a status, its dry-run counts included, and
\* the status of a rule goes when the rule goes.
THEOREM StatusTypeCorrect ==
    StatusSpec => []StatusTypeOK
  <1>1. GoodStatus \subseteq NodeReadinessRuleStatus
    <2>1. GoodEvaluation \subseteq NodeEvaluation
      BY DEF GoodEvaluation
    <2>2. QED
      BY <2>1 DEF GoodStatus, NodeReadinessRuleStatus
  <1>2. StatusInv => StatusTypeOK
    <2> SUFFICES ASSUME StatusInv PROVE StatusTypeOK
      OBVIOUS
    <2>1. \A f : f \in [Rules -> GoodStatus] => f \in [Rules -> NodeReadinessRuleStatus]
      BY <1>1
    <2>2. \A f : f \in [Rules -> Seq(GoodStatus)] => f \in [Rules -> Seq(NodeReadinessRuleStatus)]
      <3>1. Seq(GoodStatus) \subseteq Seq(NodeReadinessRuleStatus)
        BY <1>1
      <3>2. QED
        BY <3>1
    <2>3. QED
      BY <1>1, <2>1, <2>2 DEF StatusInv, WorkerStatusesGood, ObjectStatusesGood, ObjectStatusesIn,
                              StatusesCatchUp, StatusTypeOK
  <1>3. QED
    BY <1>2, StatusInvariant, PTL

\* An entry of a status fits together, however old it is and whoever wrote it last:
\* the taint is reported as what the reported conditions call for.
THEOREM VerdictsMatchTaints ==
    StatusSpec => []VerdictMatchesTaint
  <1>1. StatusInv => VerdictMatchesTaint
    <2> SUFFICES ASSUME StatusInv, NEW r \in Rules, NEW n \in Nodes,
                        apiStatus[r].nodeEvaluations[n] # Null
                 PROVE  apiStatus[r].nodeEvaluations[n] \in GoodEvaluation
      BY DEF VerdictMatchesTaint, GoodEvaluation
    <2>1. apiStatus[r] \in GoodStatus
      BY DEF StatusInv, ObjectStatusesGood, ObjectStatusesIn
    <2>2. QED
      BY <2>1 DEF GoodStatus
  <1>2. QED
    BY <1>1, StatusInvariant, PTL

\* The node reconciler writes a status from the cache's copy of the rule, of any age;
\* still it changes nothing but the entries of its own node.
THEOREM NodeStatusIsAlwaysIsolated ==
    StatusSpec => NodeStatusIsIsolated
  <1> DEFINE Isolated(r) ==
        npc = "persist" /\ npc' # "persist" /\ apiStatus'[r] # apiStatus[r] =>
            /\ ncur = r
            /\ \A n \in Nodes \ {nname} :
                  /\ apiStatus'[r].nodeEvaluations[n] = apiStatus[r].nodeEvaluations[n]
                  /\ n \in apiStatus'[r].failedNodes <=> n \in apiStatus[r].failedNodes
            /\ \A field \in {"observedGeneration", "appliedNodes", "dryRunResults"} :
                  apiStatus'[r][field] = apiStatus[r][field]
  <1>1. ASSUME TypeOK, StatusInv, [StatusNext]_allVars, NEW r \in Rules
        PROVE  Isolated(r)
    <2> SUFFICES ASSUME npc = "persist", npc' # "persist", apiStatus'[r] # apiStatus[r]
                 PROVE  Isolated(r)
      OBVIOUS
    <2>1. NodePersist
      <3>1. ~UNCHANGED nodeReconcilerVars
        BY DEF nodeReconcilerVars
      <3>2. ~StatusCrash
        BY DEF StatusCrash
      <3>3. StatusNodeProcess
        BY <1>1, <3>1, <3>2 DEF StatusNext, StatusEnvironment, StatusDeliverNode, StatusDeliverRule,
            StatusRuleProcess, RulePruneList, Rest, allVars, vars
      <3>4. QED
        BY <3>3 DEF StatusNodeProcess, NodeGet, NodeTakeRules, getApplicableRulesForNode,
            NodeSkipOrPick, NodePickRule, NodeRecord, NodeEvaluate, NodeMark
    <2>2. /\ RuleFresh(ncur) /\ ncur \in Rules /\ nname \in Nodes
          /\ WriteStatus(ncur, PersistedStatus(statusStore[ncur], nstatus[ncur], nname))
      BY <1>1, <2>1 DEF NodePersist, NodePersistStatus, apiStatusVars, TypeOK, NodeReconcilerTypeOK
    <2>3. /\ statusStore[ncur] = apiStatus[ncur]
          /\ apiStatus[ncur] \in GoodStatus /\ nstatus[ncur] \in GoodStatus
      BY <1>1, <2>2, FreshStatus DEF StatusInv, ObjectStatusesGood, ObjectStatusesIn, WorkerStatusesGood
    <2>4. apiStatus' = [apiStatus EXCEPT ![ncur] = PersistedStatus(apiStatus[ncur], nstatus[ncur], nname)]
      BY <2>2, <2>3 DEF WriteStatus
    <2>5. ncur = r
      BY <2>4
    <2>6. apiStatus'[r] = PersistedStatus(apiStatus[r], nstatus[r], nname)
      BY <1>1, <2>4, <2>5 DEF StatusInv, ObjectStatusesGood, ObjectStatusesIn
    <2> DEFINE status == PersistedStatus(apiStatus[r], nstatus[r], nname)
    <2>7. /\ status.observedGeneration = apiStatus[r].observedGeneration
          /\ status.appliedNodes = apiStatus[r].appliedNodes
          /\ status.dryRunResults = apiStatus[r].dryRunResults
          /\ status.failedNodes =
                (apiStatus[r].failedNodes \ {nname}) \union (nstatus[r].failedNodes \intersect {nname})
          /\ status.nodeEvaluations =
                [apiStatus[r].nodeEvaluations EXCEPT ![nname] = nstatus[r].nodeEvaluations[nname]]
      <3>1. apiStatus[r] \in GoodStatus /\ nstatus[r] \in GoodStatus /\ nname \in Nodes
        BY <2>2, <2>3, <2>5
      <3>2. QED
        BY <3>1 DEF PersistedStatus, GoodStatus
    <2> HIDE DEF status
    <2>8. apiStatus'[r] = status
      BY <2>6 DEF status
    <2>9. ASSUME NEW n \in Nodes \ {nname}
          PROVE  /\ status.nodeEvaluations[n] = apiStatus[r].nodeEvaluations[n]
                 /\ n \in status.failedNodes <=> n \in apiStatus[r].failedNodes
      <3>1. apiStatus[r].nodeEvaluations \in [Nodes -> GoodEvaluation \union {Null}]
        BY <2>3, <2>5 DEF GoodStatus
      <3>2. QED
        BY <2>7, <3>1
    <2>10. QED
      BY <2>5, <2>7, <2>8, <2>9
  <1>2. IInv /\ StatusInv /\ [StatusNext]_allVars => \A r \in Rules : Isolated(r)
    BY <1>1 DEF IInv
  <1> HIDE DEF Isolated
  <1>3. IInv /\ StatusInv /\ [StatusNext]_allVars => [\A r \in Rules : Isolated(r)]_<<npc, apiStatus>>
    BY <1>2
  <1>4. StatusSpec => [][\A r \in Rules : Isolated(r)]_<<npc, apiStatus>>
    BY <1>3, StatusInvariant, PTL DEF StatusSpec
  <1>5. QED
    BY <1>4 DEF NodeStatusIsIsolated, Isolated
=============================================================================
