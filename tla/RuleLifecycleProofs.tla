------------------------ MODULE RuleLifecycleProofs ------------------------
(***************************************************************************)
(* The life of a rule. ReadinessSystem implements RuleLifecycle: the       *)
(* mapping takes a rule's object to its phase and the rule cache to the    *)
(* set of its rules; RuleInv (ReadinessSystemProofs) and LifecycleInv show *)
(* what the steps that write a rule or the cache do to them, and every     *)
(* other step stutters. And where the nodes meet their rules, a deleted    *)
(* rule goes only when its taint has gone from them.                       *)
(***************************************************************************)
EXTENDS NodeWritesProofs, RuleWritesProofs

Objects == [r \in Rules |-> Phase(apiRule[r])]
Enforced == {r \in Rules : ruleCache[r] # Null}

\* The step is one of RuleLifecycle or a stutter.
LifecycleStep == [Lifecycle!Next]_(Lifecycle!lifecycleVars)

\* The rules and the cache are left alone.
LEMMA StutterStep ==
    ASSUME apiRule' = apiRule, ruleCache' = ruleCache
    PROVE  LifecycleStep
  BY DEF LifecycleStep, Lifecycle!lifecycleVars

\* What a write of a rule does to the phases.
LEMMA WritePhase ==
    ASSUME apiRule \in [Rules -> RuleOrNull], NEW r \in Rules, NEW rule,
           apiRule' = [apiRule EXCEPT ![r] = rule]
    PROVE  Objects' = [Objects EXCEPT ![r] = Phase(rule)]
  <1>1. \A q \in Rules : apiRule'[q] = IF q = r THEN rule ELSE apiRule[q]
    OBVIOUS
  <1>2. Objects' = [q \in Rules |-> Phase(apiRule'[q])]
    BY DEF Objects, Phase
  <1>3. QED
    BY <1>1, <1>2 DEF Objects

\* A status write does not change what the mapping looks at.
LEMMA StatusWriteStep ==
    ASSUME TypeOK, RuleInv, NEW r \in Rules, RuleFresh(r), WriteRule(r, ruleStore[r])
    PROVE  apiRule' = apiRule
  <1>1. ruleStore[r] = apiRule[r]
    BY FreshIsCurrent
  <1>2. QED
    BY <1>1 DEF WriteRule, TypeOK, ClusterTypeOK

-----------------------------------------------------------------------------
(* The steps that do something *)

\* Creating, editing and deleting a rule.
LEMMA EnvironmentStep ==
    ASSUME TypeOK, RuleInv, LifecycleInv, EnvironmentNext,
           UNCHANGED <<ruleCache, ruleReconcilerVars>>
    PROVE  LifecycleStep /\ LifecycleInv'
  <1> USE DEF ruleReconcilerVars
  <1>1. apiRule \in [Rules -> RuleOrNull] /\ Enforced' = Enforced
    BY DEF TypeOK, ClusterTypeOK, Enforced
  <1>2. ASSUME NEW kind, NEW n, NEW node, NodeEvent(kind, n, node)
        PROVE  LifecycleStep /\ LifecycleInv'
    <2>1. apiRule' = apiRule
      BY <1>2 DEF NodeEvent, rulesKept
    <2>2. QED
      BY <2>1, StutterStep DEF LifecycleInv
  <1>3. ASSUME NEW r \in Rules, CreateRule(r)
        PROVE  LifecycleStep /\ LifecycleInv'
    <2>1. PICK spec \in Specs :
             RuleEvent("create", r, [spec |-> spec, generation |-> 1,
                                     finalizer |-> FALSE, deleting |-> FALSE])
      BY <1>3 DEF CreateRule
    <2> DEFINE rule == [spec |-> spec, generation |-> 1, finalizer |-> FALSE, deleting |-> FALSE]
    <2>2. rule \in Rule
      BY DEF Rule
    <2>3. rule # Null /\ ~rule.finalizer /\ ~rule.deleting
      BY <2>2, NullAssumption
    <2>4. apiRule' = [apiRule EXCEPT ![r] = rule]
      BY <2>1 DEF RuleEvent, WriteRule
    <2> HIDE DEF rule
    <2>5. Phase(rule) = "new" /\ Phase(apiRule[r]) = "absent"
      BY <1>3, <2>3 DEF Phase, CreateRule
    <2>6. Lifecycle!Create(r)
      BY <1>1, <2>4, <2>5, WritePhase DEF Lifecycle!Create, Objects, Enforced
    <2>7. LifecycleInv'
      BY <1>1, <2>3, <2>4 DEF LifecycleInv
    <2>8. QED
      BY <2>6, <2>7 DEF LifecycleStep, Lifecycle!Next
  <1>4. ASSUME NEW r \in Rules, EditRule(r)
        PROVE  LifecycleStep /\ LifecycleInv'
    <2>1. PICK spec \in Specs :
             RuleEvent("edit", r, [apiRule[r] EXCEPT !.spec = spec, !.generation = @ + 1])
      BY <1>4 DEF EditRule
    <2> DEFINE rule == [apiRule[r] EXCEPT !.spec = spec, !.generation = @ + 1]
    <2>2. apiRule[r] \in Rule
      BY <1>1, <1>4 DEF EditRule, RuleOrNull
    <2>3. rule \in Rule
      <3>1. apiRule[r].generation + 1 \in Nat \ {0}
        BY <2>2, SMT DEF Rule
      <3>2. QED
        BY <2>2, <3>1, Zenon DEF Rule
    <2>4. rule.finalizer = apiRule[r].finalizer /\ rule.deleting = apiRule[r].deleting
      BY <2>2 DEF Rule
    <2>5. rule # Null /\ apiRule[r] # Null
      BY <2>2, <2>3, NullAssumption
    <2>6. apiRule' = [apiRule EXCEPT ![r] = rule]
      BY <2>1 DEF RuleEvent, WriteRule
    <2> HIDE DEF rule
    <2>7. Phase(rule) = Phase(apiRule[r])
      BY <2>4, <2>5 DEF Phase
    <2>8. Objects' = Objects
      BY <1>1, <2>6, <2>7, WritePhase DEF Objects
    <2>9. LifecycleInv'
      BY <1>1, <2>4, <2>5, <2>6 DEF LifecycleInv
    <2>10. QED
      BY <1>1, <2>8, <2>9 DEF LifecycleStep, Lifecycle!lifecycleVars, Objects, Enforced
  <1>5. ASSUME NEW r \in Rules, DeleteRule(r)
        PROVE  LifecycleStep /\ LifecycleInv'
    <2> DEFINE marked == [apiRule[r] EXCEPT !.deleting = TRUE, !.generation = @ + 1]
               rule == IF apiRule[r].finalizer THEN marked ELSE Null
    <2>1. apiRule[r] \in Rule /\ apiRule[r] # Null /\ ~apiRule[r].deleting
      BY <1>1, <1>5 DEF DeleteRule, RuleOrNull
    <2>2. marked \in Rule
      <3>1. apiRule[r].generation + 1 \in Nat \ {0}
        BY <2>1, SMT DEF Rule
      <3>2. QED
        BY <2>1, <3>1, Zenon DEF Rule
    <2>3. marked.finalizer = apiRule[r].finalizer /\ marked.deleting /\ marked # Null
      BY <2>1, <2>2, NullAssumption DEF Rule
    <2>4. apiRule' = [apiRule EXCEPT ![r] = rule]
      BY <1>5 DEF DeleteRule, RuleEvent, WriteRule
    <2> HIDE DEF marked
    <2>5. \/ apiRule[r].finalizer /\ Phase(apiRule[r]) = "guarded" /\ Phase(rule) = "terminating"
          \/ ~apiRule[r].finalizer /\ Phase(apiRule[r]) = "new" /\ Phase(rule) = "absent"
      BY <2>1, <2>3 DEF Phase, Rule
    <2>6. rule # Null => rule.finalizer
      BY <2>3
    <2> HIDE DEF rule
    <2>7. Lifecycle!Delete(r)
      BY <1>1, <2>4, <2>5, WritePhase DEF Lifecycle!Delete, Objects, Enforced
    <2>8. LifecycleInv'
      BY <1>1, <2>4, <2>6 DEF LifecycleInv
    <2>9. QED
      BY <2>7, <2>8 DEF LifecycleStep, Lifecycle!Next
  <1>6. QED
    BY <1>2, <1>3, <1>4, <1>5
    DEF EnvironmentNext, SetCondition, SetLabels, ToggleTaint, JoinNode, LeaveNode

\* A step of the rule worker that writes no rule and no cache entry.
LEMMA QuietStep ==
    ASSUME LifecycleInv, UNCHANGED <<apiRule, ruleCache>>,
           rpc' # "addFinalizer" \/ UNCHANGED <<rpc, rrule>>
    PROVE  LifecycleStep /\ LifecycleInv'
  BY StutterStep DEF LifecycleInv

\* A cache entry goes.
LEMMA ForgetStep ==
    ASSUME TypeOK, NEW r \in Rules, removeRuleFromCache(r), apiRule' = apiRule
    PROVE  LifecycleStep
  <1>1. CASE ruleCache[r] = Null
    <2>1. ruleCache' = ruleCache
      BY <1>1 DEF removeRuleFromCache, TypeOK, RuleCacheTypeOK
    <2>2. QED
      BY <2>1, StutterStep
  <1>2. CASE ruleCache[r] # Null
    <2>1. Enforced' = Enforced \ {r} /\ r \in Enforced
      BY <1>2 DEF removeRuleFromCache, TypeOK, RuleCacheTypeOK, Enforced
    <2>2. Lifecycle!Forget(r)
      BY <2>1 DEF Lifecycle!Forget, Enforced
    <2>3. QED
      BY <2>2 DEF LifecycleStep, Lifecycle!Next
  <1>3. QED
    BY <1>1, <1>2

\* Fetching a rule: the finalizer is to be added if there is none.
LEMMA GetStep ==
    ASSUME TypeOK, LifecycleInv, NEW r \in Rules, RuleGet(r)
    PROVE  LifecycleStep /\ LifecycleInv'
  <1>1. apiRule' = apiRule
    BY DEF RuleGet
  <1>2. CASE ruleStore[r] = Null
    <2>1. removeRuleFromCache(r) /\ UNCHANGED <<rpc, rrule>>
      BY <1>2 DEF RuleGet, ruleReconcilerVars
    <2>2. QED
      BY <1>1, <2>1, ForgetStep DEF LifecycleInv
  <1>3. CASE ruleStore[r] # Null
    <2>1. rpc' = StepAfterGet(ruleStore[r]) /\ rrule' = ruleStore[r] /\ ruleCache' = ruleCache
      BY <1>3 DEF RuleGet
    <2>2. ruleStore[r] \in Rule
      BY <1>3 DEF TypeOK, ClusterTypeOK, RuleOrNull
    <2>3. StepAfterGet(ruleStore[r]) = "addFinalizer"
            => ~ruleStore[r].deleting /\ ~ruleStore[r].finalizer
      BY <2>2 DEF StepAfterGet, Rule
    <2>4. QED
      BY <1>1, <2>1, <2>3, StutterStep DEF LifecycleInv
  <1>4. QED
    BY <1>2, <1>3

\* The finalizer is added to a rule that has none and is not enforced, or the
\* Update fails.
LEMMA AddFinalizerStep ==
    ASSUME TypeOK, RuleInv, LifecycleInv, RuleAddFinalizer
    PROVE  LifecycleStep /\ LifecycleInv'
  <1>1. rpc = "addFinalizer" /\ ruleCache' = ruleCache
    BY DEF RuleAddFinalizer
  <1>2. CASE FinalizerUpdateFails
    BY <1>1, <1>2, QuietStep DEF FinalizerUpdateFails, RuleError, RuleReturn, rulesKept
  <1>3. CASE FinalizerUpdateOK /\ WriteRule(rname, [rrule EXCEPT !.finalizer = TRUE])
             /\ RuleStepTo("refresh")
    <2> DEFINE rule == [rrule EXCEPT !.finalizer = TRUE]
    <2>1. rname \in Rules /\ rrule \in Rule /\ rrule # Null /\ apiRule[rname] = rrule
      BY <1>1, <1>3, HeldIsObject DEF FinalizerUpdateOK
    <2>2. rule \in Rule /\ rule.finalizer /\ rule.deleting = rrule.deleting
      BY <2>1 DEF Rule
    <2>3. rule # Null
      BY <2>2, NullAssumption
    <2>4. apiRule' = [apiRule EXCEPT ![rname] = rule]
      BY <1>3 DEF WriteRule
    <2> HIDE DEF rule
    <2>5. ~rrule.deleting /\ ~rrule.finalizer
      BY <1>1 DEF LifecycleInv
    <2>6. Phase(apiRule[rname]) = "new" /\ Phase(rule) = "guarded"
      BY <2>1, <2>2, <2>3, <2>5 DEF Phase
    <2>7. rname \notin Enforced /\ Enforced' = Enforced
      BY <1>1, <2>1, <2>5 DEF RuleInv, EnforcedRulesGuarded, Enforced
    <2>8. apiRule \in [Rules -> RuleOrNull]
      BY DEF TypeOK, ClusterTypeOK
    <2>9. Lifecycle!Guard(rname)
      BY <2>1, <2>4, <2>6, <2>7, <2>8, WritePhase DEF Lifecycle!Guard, Objects, Enforced
    <2>10. LifecycleInv'
      BY <1>3, <2>1, <2>2, <2>4, <2>8 DEF LifecycleInv, RuleStepTo
    <2>11. QED
      BY <2>1, <2>9, <2>10 DEF LifecycleStep, Lifecycle!Next
  <1>4. QED
    BY <1>2, <1>3 DEF RuleAddFinalizer

\* The finalizer is removed from a rule that is being deleted, or the Update fails.
LEMMA RemoveFinalizerStep ==
    ASSUME TypeOK, RuleInv, LifecycleInv, RuleRemoveFinalizer
    PROVE  LifecycleStep /\ LifecycleInv'
  <1>1. rpc = "removeFinalizer" /\ ruleCache' = ruleCache
    BY DEF RuleRemoveFinalizer
  <1>2. CASE FinalizerUpdateFails
    BY <1>1, <1>2, QuietStep DEF FinalizerUpdateFails, RuleError, RuleReturn, rulesKept
  <1>3. CASE FinalizerUpdateOK /\ WriteRule(rname, Null) /\ RuleStepTo("uncache")
    <2>1. rname \in Rules /\ rrule # Null /\ apiRule[rname] = rrule
      BY <1>1, <1>3, HeldIsObject DEF FinalizerUpdateOK
    <2>2. rrule.deleting /\ rrule.finalizer
      BY <1>1, <2>1 DEF RuleInv, StepsGuarded, LifecycleInv
    <2>3. Phase(apiRule[rname]) = "terminating" /\ Phase(Null) = "absent"
      BY <2>1, <2>2 DEF Phase
    <2>4. apiRule' = [apiRule EXCEPT ![rname] = Null]
      BY <1>3 DEF WriteRule
    <2>5. apiRule \in [Rules -> RuleOrNull] /\ Enforced' = Enforced
      BY <1>1 DEF TypeOK, ClusterTypeOK, Enforced
    <2>6. Lifecycle!Release(rname)
      BY <2>1, <2>3, <2>4, <2>5, WritePhase DEF Lifecycle!Release, Objects, Enforced
    <2>7. LifecycleInv'
      BY <1>3, <2>1, <2>4, <2>5 DEF LifecycleInv, RuleStepTo
    <2>8. QED
      BY <2>1, <2>6, <2>7 DEF LifecycleStep, Lifecycle!Next
  <1>4. QED
    BY <1>2, <1>3 DEF RuleRemoveFinalizer

\* Caching a rule: it has the finalizer.
LEMMA CacheStep ==
    ASSUME TypeOK, RuleInv, LifecycleInv, RuleUpdateCache
    PROVE  LifecycleStep /\ LifecycleInv'
  <1>1. rpc = "cache" /\ rpc' \in {"dryRun", "list"} /\ apiRule' = apiRule
    BY DEF RuleUpdateCache, RuleStepTo, rulesKept
  <1>2. rname \in Rules /\ rrule \in Rule
    BY <1>1 DEF TypeOK, RuleReconcilerTypeOK, RuleOrNull
  <1>3. rrule.spec # Null
    BY <1>2, NullAssumption DEF Rule
  <1>4. Enforced' = Enforced \union {rname}
    BY <1>2, <1>3 DEF RuleUpdateCache, updateRuleCache, TypeOK, RuleCacheTypeOK, Enforced
  <1>5. apiRule[rname] # Null /\ apiRule[rname].finalizer
    BY <1>1, <1>2 DEF RuleInv, StepsGuarded, Guarded, ProcessSteps
  <1>6. apiRule[rname].deleting \in BOOLEAN
    BY <1>2, <1>5 DEF TypeOK, ClusterTypeOK, RuleOrNull, Rule
  <1>7. Phase(apiRule[rname]) \in {"guarded", "terminating"}
    BY <1>5, <1>6 DEF Phase
  <1>8. Lifecycle!Enforce(rname)
    BY <1>1, <1>2, <1>4, <1>7 DEF Lifecycle!Enforce, Enforced
  <1>9. LifecycleInv'
    BY <1>1 DEF LifecycleInv
  <1>10. Lifecycle!Next
    BY <1>2, <1>8 DEF Lifecycle!Next, Lifecycle!Enforce
  <1>11. QED
    BY <1>9, <1>10 DEF LifecycleStep

\* The two status writes of the rule worker.
LEMMA RuleStatusStep ==
    ASSUME TypeOK, RuleInv, LifecycleInv, updateRuleStatus \/ cleanupDeletedNodes
    PROVE  LifecycleStep /\ LifecycleInv'
  <1>1. rpc \in {"status", "prune"} /\ rpc' \in {"idle", "prune"} /\ ruleCache' = ruleCache
    BY DEF updateRuleStatus, cleanupDeletedNodes, RuleStepTo, RuleDone, RuleError, RuleReturn
  <1>2. rname \in Rules
    BY <1>1 DEF TypeOK, RuleReconcilerTypeOK
  <1>3. apiRule' = apiRule
    BY <1>2, StatusWriteStep
    DEF updateRuleStatus, cleanupDeletedNodes, WriteStatusOK, WriteStatusFails, rulesKept
  <1>4. QED
    BY <1>1, <1>3, QuietStep

\* Every step of the rule worker.
LEMMA RuleProcessStep ==
    ASSUME TypeOK, RuleInv, LifecycleInv, RuleReconcilerNext
    PROVE  LifecycleStep /\ LifecycleInv'
  <1>1. CASE \E r \in Rules : RuleGet(r)
    BY <1>1, GetStep
  <1>2. CASE RuleRemoveFinalizer
    BY <1>2, RemoveFinalizerStep
  <1>3. CASE RuleAddFinalizer
    BY <1>3, AddFinalizerStep
  <1>4. CASE RuleUpdateCache
    BY <1>4, CacheStep
  <1>5. CASE updateRuleStatus \/ cleanupDeletedNodes
    BY <1>5, RuleStatusStep
  <1>6. CASE RuleUncache
    <2>1. rname \in Rules /\ apiRule' = apiRule /\ rpc' = "idle" /\ removeRuleFromCache(rname)
      BY <1>6 DEF RuleUncache, RuleDone, RuleReturn, rulesKept, TypeOK, RuleReconcilerTypeOK
    <2>2. QED
      BY <2>1, ForgetStep DEF LifecycleInv
  <1>7. CASE cleanupTaintsForRule \/ cleanupNodesAfterSelectorChange
    <2>1. UNCHANGED <<apiRule, ruleCache>> /\ rpc' # "addFinalizer"
      BY <1>7
      DEF cleanupTaintsForRule, cleanupNodesAfterSelectorChange, CleanupList, CleanupStep, CleanupEnd,
          RuleStepTo, RuleError, RuleReturn, rulesKept
    <2>2. QED
      BY <2>1, QuietStep
  <1>8. CASE RuleRefresh \/ RuleSelector \/ processDryRun
    <2>1. UNCHANGED <<apiRule, ruleCache>> /\ rpc' # "addFinalizer"
      BY <1>8 DEF RuleRefresh, RuleSelector, processDryRun, RuleStepTo, RuleError, RuleReturn, rulesKept
    <2>2. QED
      BY <2>1, QuietStep
  <1>9. CASE RuleListNodes \/ RuleEvaluate \/ RuleEvaluateEnd \/ RuleMark
    <2>1. UNCHANGED <<apiRule, ruleCache>> /\ rpc' # "addFinalizer"
      BY <1>9 DEF RuleListNodes, RuleEvaluate, RuleEvaluateEnd, RuleMark, RuleStepTo, rulesKept
    <2>2. QED
      BY <2>1, QuietStep
  <1>10. QED
    BY <1>1, <1>2, <1>3, <1>4, <1>5, <1>6, <1>7, <1>8, <1>9 DEF RuleReconcilerNext

\* The node worker writes no more of a rule than its status.
LEMMA NodeProcessStep ==
    ASSUME TypeOK, RuleInv, LifecycleInv, NodeReconcilerNext, UNCHANGED ruleReconcilerVars
    PROVE  LifecycleStep /\ LifecycleInv'
  <1>1. CASE NodePersistStatus
    <2>1. ncur \in Rules /\ ruleCache' = ruleCache
      BY <1>1 DEF NodePersistStatus, TypeOK, NodeReconcilerTypeOK
    <2>2. apiRule' = apiRule
      BY <1>1, <2>1, StatusWriteStep DEF NodePersistStatus, rulesKept
    <2>3. QED
      BY <2>1, <2>2, QuietStep DEF ruleReconcilerVars
  <1>2. CASE UNCHANGED ruleSideKept
    BY <1>2, QuietStep DEF ruleSideKept, rulesKept, ruleReconcilerVars
  <1>3. QED
    BY <1>1, <1>2
    DEF NodeReconcilerNext, NodeGet, getApplicableRulesForNode, NodePickRule, NodeEvaluate, NodeMark

-----------------------------------------------------------------------------
(* The refinement *)

\* The system starts as RuleLifecycle does.
LEMMA LifecycleInit ==
    ASSUME Init
    PROVE  Lifecycle!Init /\ LifecycleInv
  <1>1. apiRule \in [Rules -> RuleOrNull]
    BY InitIInv DEF IInv, TypeOK, ClusterTypeOK
  <1>2. \A r \in Rules : apiRule[r] # Null => /\ apiRule[r].finalizer \in BOOLEAN
                                               /\ apiRule[r].deleting \in BOOLEAN
    BY <1>1 DEF RuleOrNull, Rule
  <1>3. \A r \in Rules : Phase(apiRule[r]) \in {"absent", "new", "guarded", "terminating"}
    BY <1>2 DEF Phase
  <1>4. ruleCache = [r \in Rules |-> Null]
    BY DEF Init, NoRules
  <1>5. Lifecycle!Init
    BY <1>3, <1>4 DEF Lifecycle!Init, Lifecycle!Phases
  <1>6. LifecycleInv
    BY InitAssumption DEF Init, ClusterInit, RuleReconcilerInit, LifecycleInv
  <1>7. QED
    BY <1>5, <1>6

\* Every step of the system is a step of RuleLifecycle or a stutter.
LEMMA LifecycleNext ==
    ASSUME IInv, LifecycleInv, [Next]_vars
    PROVE  LifecycleStep /\ LifecycleInv'
  <1>1. TypeOK /\ RuleInv
    BY DEF IInv
  <1>2. CASE UNCHANGED vars
    BY <1>2, QuietStep DEF vars, clusterVars, ruleReconcilerVars
  <1>3. CASE Surroundings
    <2>1. CASE EnvironmentNext
      BY <1>1, <1>3, <2>1, EnvironmentStep DEF Surroundings
    <2>2. CASE InformerNext
      BY <1>3, <2>2, QuietStep
      DEF Surroundings, InformerNext, DeliverNode, DeliverRule, ruleReconcilerVars
    <2>3. QED
      BY <1>3, <2>1, <2>2 DEF Surroundings
  <1>4. CASE NodeProcess
    BY <1>1, <1>4, NodeProcessStep DEF NodeProcess
  <1>5. CASE RuleProcess
    BY <1>1, <1>5, RuleProcessStep DEF RuleProcess
  <1>6. CASE Crash
    <2>1. apiRule' = apiRule /\ Enforced' = {} /\ rpc' = "idle"
      BY <1>6 DEF Crash, RuleReturn, NoRules, Enforced
    <2>2. Lifecycle!Restart
      BY <2>1 DEF Lifecycle!Restart, Enforced
    <2>3. QED
      BY <2>1, <2>2 DEF LifecycleStep, Lifecycle!Next, LifecycleInv
  <1>7. CASE Rest
    BY <1>2, <1>7 DEF Rest
  <1>8. QED
    BY <1>2, <1>3, <1>4, <1>5, <1>6, <1>7 DEF Next

\* The finalizer protocol of RuleReconciler.Reconcile implements RuleLifecycle: for
\* any rules, nodes, specs and budgets, with or without the webhook, and through
\* crashes, conflicts and failed writes, a rule comes to be enforced only while
\* its object has the finalizer, the finalizer is given to a rule of a name that
\* is not enforced any more, and only a rule that is being deleted loses it.
THEOREM ImplementsLifecycle ==
    SafeSpec => FollowsLifecycle
  <1>1. Init => Lifecycle!Init /\ LifecycleInv
    BY LifecycleInit
  <1>2. IInv /\ LifecycleInv /\ [Next]_vars => LifecycleInv' /\ LifecycleStep
    BY LifecycleNext
  <1>3. QED
    BY <1>1, <1>2, Inductive, PTL DEF SafeSpec, FollowsLifecycle, Lifecycle!Safe, LifecycleStep

-----------------------------------------------------------------------------
(* The cleanup of a deletion *)

\* The node meets every rule.
Meets(node) == \A spec \in Specs : allConditionsSatisfied(spec, node)

Carries(node) == \E spec \in Specs : hasTaintBySpec(node, spec)

\* Nobody wants the nodes tainted: all nodes meet all rules, the rules share one taint
\* (a patch for another taint may bring it back from an old taint list), new nodes do
\* not have it, and nobody adds it or moves a node that has it.
NobodyTaints ==
    /\ \A a, b \in Specs : a.taint = b.taint
    /\ \A nodes \in InitNodes : \A n \in Nodes : nodes[n] # Null => Meets(nodes[n])
    /\ \/ Quota["join"] = 0
       \/ \A node \in NodeTemplates : Meets(node) /\ ~Carries(node)
    /\ Quota["condition"] = 0 /\ Quota["label"] = 0 /\ Quota["taint"] = 0

\* A node that has the taint had it before.
StillCarries(old, new) ==
    new # Null /\ Carries(new) => old # Null /\ Carries(old) /\ old.labels = new.labels

NodeVersions(n) ==
    {apiNode[n], nodeStore[n]} \union {nodeWatch[n][i] : i \in DOMAIN nodeWatch[n]}

VersionsMeet ==
    \A n \in Nodes : \A node \in NodeVersions(n) :
        (node # Null => Meets(node)) /\ StillCarries(node, apiNode[n])

CopiesMeet ==
    /\ nnode # Null => Meets(nnode)
    /\ \A n \in Nodes : rnodes[n] # Null => Meets(rnodes[n])

\* The rule worker's rule applies to n, which has its taint.
ToClean(n) ==
    apiNode[n] # Null /\ ruleAppliesTo(rrule.spec, apiNode[n]) /\ Carries(apiNode[n])

CleanedUp ==
    /\ rpc = "cleanup" /\ ~rfailed => \A n \in Nodes : ToClean(n) => rnodes[n] # Null
    /\ rpc = "removeFinalizer" => \A n \in Nodes : ~ToClean(n)

EventsOver ==
    /\ quota["join"] = 0 \/ \A node \in NodeTemplates : Meets(node) /\ ~Carries(node)
    /\ quota["condition"] = 0 /\ quota["label"] = 0 /\ quota["taint"] = 0

CleanInv == EventsOver /\ VersionsMeet /\ CopiesMeet /\ CleanedUp

\* A patch that takes the taint away leaves a node that meets the rules and is clean.
LEMMA UntaintedNode ==
    ASSUME NobodyTaints, NEW node \in Node, NEW spec \in Specs, NEW taints \in SUBSET Taints,
           spec.taint \notin taints
    PROVE  /\ Meets([node EXCEPT !.taints = taints]) <=> Meets(node)
           /\ ~Carries([node EXCEPT !.taints = taints])
  <1> DEFINE new == [node EXCEPT !.taints = taints]
  <1>1. new.conditions = node.conditions /\ new.taints = taints
    BY DEF Node
  <1>2. \A other \in Specs : other.taint = spec.taint
    BY DEF NobodyTaints
  <1> HIDE DEF new
  <1>3. Meets(new) <=> Meets(node)
    BY <1>1 DEF Meets, allConditionsSatisfied, getConditionStatus
  <1>4. ~Carries(new)
    BY <1>1, <1>2 DEF Carries, hasTaintBySpec
  <1>5. QED
    BY <1>3, <1>4 DEF new

\* No worker adds the taint to a node that meets the rule.
LEMMA EvaluationUntaints ==
    ASSUME NEW node, Meets(node), NEW spec \in Specs
    PROVE  spec.taint \notin TaintsAfter(spec, node)
  BY DEF Meets, TaintsAfter, TaintAction, hasTaintBySpec, removeTaintBySpec

\* A write of a node that is clean, or as it was.
CleanWrite(n, node) ==
    /\ WriteNode(n, node)
    /\ UNCHANGED nodeStore
    /\ node # Null => Meets(node)
    /\ StillCarries(apiNode[n], node)

CleanStep ==
    \/ UNCHANGED nodeObjects
    \/ \E n \in Nodes, node \in NodeOrNull : CleanWrite(n, node)
    \/ \E n \in Nodes : DeliverNode(n)
    \/ Crash

\* A patch without the taint.
LEMMA PatchIsClean ==
    ASSUME NobodyTaints, ClusterTypeOK, VersionsMeet, NEW n \in Nodes, NEW spec \in Specs,
           NEW taints \in SUBSET Taints, spec.taint \notin taints,
           PatchTaints(n, taints), UNCHANGED nodeStore
    PROVE  /\ \E node \in NodeOrNull : CleanWrite(n, node)
           /\ apiNode'[n] # Null /\ ~Carries(apiNode'[n])
  <1> DEFINE node == [apiNode[n] EXCEPT !.taints = taints]
  <1>1. apiNode[n] \in Node
    BY DEF ClusterTypeOK, NodeOrNull, PatchTaints
  <1>2. node \in NodeOrNull /\ node # Null
    BY <1>1, NullAssumption DEF Node, NodeOrNull
  <1>3. Meets(node) /\ ~Carries(node)
    <2>1. Meets(apiNode[n])
      BY <1>1, NullAssumption DEF VersionsMeet, NodeVersions
    <2>2. QED
      BY <1>1, <2>1, UntaintedNode
  <1>4. WriteNode(n, node) /\ apiNode'[n] = node
    BY DEF PatchTaints, WriteNode, ClusterTypeOK
  <1> HIDE DEF node
  <1>5. CleanWrite(n, node)
    BY <1>3, <1>4 DEF CleanWrite, StillCarries
  <1>6. QED
    BY <1>2, <1>3, <1>4, <1>5

\* A mark changes neither conditions nor taints.
LEMMA MarkIsClean ==
    ASSUME ClusterTypeOK, NodesCatchUp, VersionsMeet, MarkingWrite
    PROVE  CleanStep
  <1>1. PICK n \in Nodes, r \in Rules :
           /\ nodeStore[n] # Null
           /\ nodeWatch[n] = <<>>
           /\ WriteNode(n, [nodeStore[n] EXCEPT !.completed = @ \union {r}])
           /\ UNCHANGED nodeStore
    BY DEF MarkingWrite
  <1> DEFINE node == [apiNode[n] EXCEPT !.completed = @ \union {r}]
  <1>2. nodeStore[n] = apiNode[n] /\ apiNode[n] \in Node
    BY <1>1 DEF NodesCatchUp, ClusterTypeOK, NodeOrNull
  <1>3. /\ node \in NodeOrNull
        /\ node.conditions = apiNode[n].conditions /\ node.taints = apiNode[n].taints
        /\ node.labels = apiNode[n].labels
    BY <1>2 DEF Node, NodeOrNull
  <1>4. WriteNode(n, node)
    BY <1>1, <1>2
  <1> HIDE DEF node
  <1>5. Meets(apiNode[n]) /\ apiNode[n] # Null
    BY <1>1, <1>2 DEF VersionsMeet, NodeVersions
  <1>6. Meets(node)
    BY <1>3, <1>5 DEF Meets, allConditionsSatisfied, getConditionStatus
  <1>7. StillCarries(apiNode[n], node)
    BY <1>3, <1>5 DEF StillCarries, Carries, hasTaintBySpec
  <1>8. QED
    BY <1>1, <1>3, <1>4, <1>6, <1>7 DEF CleanWrite, CleanStep

\* Nodes only leave, or join without the taint.
LEMMA EventIsClean ==
    ASSUME ClusterTypeOK, EventsOver, EnvironmentNext
    PROVE  CleanStep
  <1>1. ~Spend("condition") /\ ~Spend("label") /\ ~Spend("taint")
    BY DEF EventsOver, Spend
  <1>2. ASSUME NEW n \in Nodes, SetCondition(n) \/ SetLabels(n) \/ ToggleTaint(n)
        PROVE  CleanStep
    BY <1>1, <1>2 DEF SetCondition, SetLabels, ToggleTaint, NodeEvent
  <1>3. ASSUME NEW n \in Nodes, JoinNode(n)
        PROVE  CleanStep
    <2>1. PICK node \in NodeTemplates : NodeEvent("join", n, node)
      BY <1>3 DEF JoinNode
    <2>2. Meets(node) /\ ~Carries(node)
      BY <2>1 DEF NodeEvent, Spend, EventsOver
    <2>3. node \in NodeOrNull
      BY UpdateAssumption DEF NodeOrNull
    <2>4. CleanWrite(n, node)
      BY <2>1, <2>2 DEF NodeEvent, CleanWrite, StillCarries
    <2>5. QED
      BY <2>3, <2>4 DEF CleanStep
  <1>4. ASSUME NEW n \in Nodes, LeaveNode(n)
        PROVE  CleanStep
    <2>1. CleanWrite(n, Null)
      BY <1>4 DEF LeaveNode, NodeEvent, CleanWrite, StillCarries
    <2>2. QED
      BY <2>1 DEF CleanStep, NodeOrNull
  <1>5. ASSUME NEW r \in Rules, CreateRule(r) \/ EditRule(r) \/ DeleteRule(r)
        PROVE  CleanStep
    BY <1>5 DEF CreateRule, EditRule, DeleteRule, RuleEvent, CleanStep, nodeObjects, nodesKept
  <1>6. QED
    BY <1>2, <1>3, <1>4, <1>5 DEF EnvironmentNext

\* What a step does to the node objects.
LEMMA NextIsClean ==
    ASSUME NobodyTaints, TypeOK, NodesCatchUp, EventsOver, VersionsMeet, CopiesMeet, [Next]_vars
    PROVE  CleanStep
  <1>1. ClusterTypeOK
    BY DEF TypeOK
  <1>2. CASE UNCHANGED nodeObjects
    BY <1>2 DEF CleanStep
  <1>3. ASSUME NEW n \in Nodes, NEW r \in Rules, markBootstrapCompleted(n, r), UNCHANGED nodeStore
        PROVE  CleanStep
    BY <1>1, <1>2, <1>3, MarkIsMarking, MarkIsClean
  <1>4. ASSUME NEW n \in Nodes, PatchFails(n), UNCHANGED nodeStore
        PROVE  CleanStep
    BY <1>2, <1>4 DEF PatchFails, nodesKept, nodeObjects
  <1>5. CASE NodeReconcilerNext
    <2>1. CASE NodeEvaluate
      <3>1. nname \in Nodes /\ ncur \in Rules /\ nnode \in Node /\ nrules[ncur] \in Specs /\ nnode # Null
        BY <2>1 DEF NodeEvaluate, TypeOK, NodeReconcilerTypeOK, NodeOrNull, SpecOrNull
      <3>2. /\ TaintsAfter(nrules[ncur], nnode) \in SUBSET Taints
            /\ nrules[ncur].taint \notin TaintsAfter(nrules[ncur], nnode)
        BY <3>1, TaintsType, EvaluationUntaints DEF CopiesMeet
      <3>3. UNCHANGED nodeStore
        BY <2>1 DEF NodeEvaluate
      <3>4. CASE PatchTaints(nname, TaintsAfter(nrules[ncur], nnode))
        BY <1>1, <3>1, <3>2, <3>3, <3>4, PatchIsClean DEF CleanStep
      <3>5. CASE PatchFails(nname)
        BY <1>4, <3>1, <3>3, <3>5
      <3>6. CASE UNCHANGED nodesKept
        BY <1>2, <3>3, <3>6 DEF nodesKept, nodeObjects
      <3>7. QED
        BY <2>1, <3>4, <3>5, <3>6 DEF NodeEvaluate
    <2>2. CASE NodeMark
      <3>1. nname \in Nodes /\ ncur \in Rules
        BY <2>2 DEF NodeMark, TypeOK, NodeReconcilerTypeOK
      <3>2. QED
        BY <1>3, <2>2, <3>1 DEF NodeMark
    <2>3. CASE UNCHANGED <<nodesKept, nodeStore>>
      BY <1>2, <2>3 DEF nodesKept, nodeObjects
    <2>4. QED
      BY <1>5, <2>1, <2>2, <2>3
      DEF NodeReconcilerNext, NodeGet, getApplicableRulesForNode, NodePickRule, NodePersistStatus
  <1>6. CASE RuleReconcilerNext
    <2>1. ASSUME NEW step, CleanupStep(step), step # "idle"
          PROVE  CleanStep
      <3>1. PICK n \in Nodes :
               /\ rnodes[n] # Null
               /\ PatchTaints(n, removeTaintBySpec(rnodes[n], rrule.spec)) \/ PatchFails(n)
        BY <2>1 DEF CleanupStep
      <3>2. rnodes[n] \in Node /\ rrule.spec \in Specs /\ UNCHANGED nodeStore
        BY <2>1, <3>1 DEF CleanupStep, TypeOK, RuleReconcilerTypeOK, NodeOrNull, RuleOrNull, Rule
      <3>3. /\ removeTaintBySpec(rnodes[n], rrule.spec) \in SUBSET Taints
            /\ rrule.spec.taint \notin removeTaintBySpec(rnodes[n], rrule.spec)
        BY <3>2, TaintsType DEF removeTaintBySpec
      <3>4. QED
        BY <1>1, <1>4, <3>1, <3>2, <3>3, PatchIsClean DEF CleanStep
    <2>2. CASE RuleEvaluate
      <3>1. PICK n \in Nodes :
               /\ rnodes[n] # Null
               /\ PatchTaints(n, TaintsAfter(rrule.spec, rnodes[n])) \/ PatchFails(n)
        BY <2>2 DEF RuleEvaluate
      <3>2. rnodes[n] \in Node /\ rrule.spec \in Specs /\ UNCHANGED nodeStore
        BY <2>2, <3>1 DEF RuleEvaluate, TypeOK, RuleReconcilerTypeOK, NodeOrNull, RuleOrNull, Rule
      <3>3. /\ TaintsAfter(rrule.spec, rnodes[n]) \in SUBSET Taints
            /\ rrule.spec.taint \notin TaintsAfter(rrule.spec, rnodes[n])
        BY <3>1, <3>2, TaintsType, EvaluationUntaints DEF CopiesMeet
      <3>4. QED
        BY <1>1, <1>4, <3>1, <3>2, <3>3, PatchIsClean DEF CleanStep
    <2>3. CASE RuleMark
      <3>1. rcur \in Nodes /\ rname \in Rules
        BY <2>3 DEF RuleMark, TypeOK, RuleReconcilerTypeOK
      <3>2. QED
        BY <1>3, <2>3, <3>1 DEF RuleMark
    <2>4. CASE UNCHANGED nodeSideKept
      BY <1>2, <2>4 DEF nodesKept, nodeSideKept, nodeObjects
    <2>5. QED
      BY <1>6, <2>1, <2>2, <2>3, <2>4
      DEF RuleReconcilerNext, RuleGet, cleanupTaintsForRule, CleanupList, CleanupEnd,
          RuleRemoveFinalizer, RuleUncache, RuleAddFinalizer, RuleRefresh, RuleSelector,
          cleanupNodesAfterSelectorChange, RuleUpdateCache, processDryRun, RuleListNodes,
          RuleEvaluateEnd, updateRuleStatus, cleanupDeletedNodes
  <1>7. CASE Surroundings
    <2>1. ASSUME NEW r \in Rules, DeliverRule(r)
          PROVE  CleanStep
      BY <2>1 DEF DeliverRule, CleanStep, nodeObjects
    <2>2. QED
      BY <1>1, <1>7, <2>1, EventIsClean DEF Surroundings, InformerNext, CleanStep
  <1>8. CASE UNCHANGED vars
    BY <1>2, <1>8 DEF vars, clusterVars, nodeObjects
  <1>9. QED
    BY <1>5, <1>6, <1>7, <1>8 DEF Next, NodeProcess, RuleProcess, Rest, CleanStep

\* The versions of a node after a step.
LEMMA NodeVersionsStep ==
    ASSUME ClusterTypeOK, CleanStep, NEW n \in Nodes
    PROVE  \/ NodeVersions(n)' \subseteq NodeVersions(n) /\ apiNode'[n] = apiNode[n]
           \/ \E node \in NodeOrNull :
                 /\ node # Null => Meets(node)
                 /\ StillCarries(apiNode[n], node)
                 /\ apiNode'[n] = node
                 /\ NodeVersions(n)' \subseteq NodeVersions(n) \union {node}
  <1>1. /\ apiNode \in [Nodes -> NodeOrNull] /\ nodeStore \in [Nodes -> NodeOrNull]
        /\ nodeWatch \in [Nodes -> Seq(NodeOrNull)]
    BY DEF ClusterTypeOK
  <1>2. CASE UNCHANGED nodeObjects
    BY <1>2 DEF nodeObjects, NodeVersions
  <1>3. ASSUME NEW m \in Nodes, NEW node \in NodeOrNull, CleanWrite(m, node), m = n
        PROVE  \E new \in NodeOrNull :
                  /\ new # Null => Meets(new)
                  /\ StillCarries(apiNode[n], new)
                  /\ apiNode'[n] = new
                  /\ NodeVersions(n)' \subseteq NodeVersions(n) \union {new}
    <2>1. /\ apiNode'[n] = node /\ nodeStore'[n] = nodeStore[n]
          /\ nodeWatch'[n] = nodeWatch[n] \/ nodeWatch'[n] = Append(nodeWatch[n], node)
      BY <1>1, <1>3 DEF CleanWrite, WriteNode
    <2>2. nodeWatch[n] \in Seq(NodeOrNull)
      BY <1>1
    <2>3. \A i \in DOMAIN Append(nodeWatch[n], node) :
             \/ Append(nodeWatch[n], node)[i] = node
             \/ i \in DOMAIN nodeWatch[n] /\ Append(nodeWatch[n], node)[i] = nodeWatch[n][i]
      BY <2>2
    <2>4. NodeVersions(n)' \subseteq NodeVersions(n) \union {node}
      <3>1. CASE nodeWatch'[n] = nodeWatch[n]
        BY <2>1, <3>1 DEF NodeVersions
      <3>2. CASE nodeWatch'[n] = Append(nodeWatch[n], node)
        BY <2>1, <2>3, <3>2, Zenon DEF NodeVersions
      <3>3. QED
        BY <2>1, <3>1, <3>2
    <2>5. QED
      BY <1>3, <2>1, <2>4 DEF CleanWrite
  <1>4. ASSUME NEW m \in Nodes, NEW node \in NodeOrNull, CleanWrite(m, node), m # n
        PROVE  NodeVersions(n)' = NodeVersions(n) /\ apiNode'[n] = apiNode[n]
    <2>1. apiNode'[n] = apiNode[n] /\ nodeStore'[n] = nodeStore[n] /\ nodeWatch'[n] = nodeWatch[n]
      BY <1>1, <1>4 DEF CleanWrite, WriteNode
    <2>2. QED
      BY <2>1 DEF NodeVersions
  <1>5. ASSUME NEW m \in Nodes, DeliverNode(m)
        PROVE  NodeVersions(n)' \subseteq NodeVersions(n) /\ apiNode'[n] = apiNode[n]
    <2>1. CASE m = n
      <3>1. /\ apiNode'[n] = apiNode[n]
            /\ nodeStore'[n] = Head(nodeWatch[n]) /\ nodeWatch'[n] = Tail(nodeWatch[n])
        BY <1>1, <1>5, <2>1 DEF DeliverNode
      <3>2. nodeWatch[n] \in Seq(NodeOrNull) /\ nodeWatch[n] # <<>>
        BY <1>1, <1>5, <2>1 DEF DeliverNode
      <3>3. /\ 1 \in DOMAIN nodeWatch[n] /\ Head(nodeWatch[n]) = nodeWatch[n][1]
            /\ \A i \in DOMAIN Tail(nodeWatch[n]) :
                  i + 1 \in DOMAIN nodeWatch[n] /\ Tail(nodeWatch[n])[i] = nodeWatch[n][i + 1]
        BY <3>2
      <3>4. QED
        BY <3>1, <3>3, Zenon DEF NodeVersions
    <2>2. CASE m # n
      <3>1. apiNode'[n] = apiNode[n] /\ nodeStore'[n] = nodeStore[n] /\ nodeWatch'[n] = nodeWatch[n]
        BY <1>1, <1>5, <2>2 DEF DeliverNode
      <3>2. QED
        BY <3>1 DEF NodeVersions
    <2>3. QED
      BY <2>1, <2>2
  <1>6. CASE Crash
    <2>1. apiNode'[n] = apiNode[n] /\ nodeStore'[n] = apiNode[n] /\ nodeWatch'[n] = <<>>
      BY <1>6 DEF Crash
    <2>2. QED
      BY <2>1 DEF NodeVersions
  <1>7. QED
    BY <1>2, <1>3, <1>4, <1>5, <1>6 DEF CleanStep

\* Every version stays one of a node that meets the rules and, if the node has the
\* taint, had it too.
LEMMA VersionsStayMet ==
    ASSUME ClusterTypeOK, VersionsMeet, CleanStep
    PROVE  VersionsMeet' /\ \A n \in Nodes : StillCarries(apiNode[n], apiNode'[n])
  <1>1. ASSUME NEW n \in Nodes
        PROVE  /\ StillCarries(apiNode[n], apiNode'[n])
               /\ \A node \in NodeVersions(n)' :
                     (node # Null => Meets(node)) /\ StillCarries(node, apiNode'[n])
    <2>1. CASE NodeVersions(n)' \subseteq NodeVersions(n) /\ apiNode'[n] = apiNode[n]
      BY <2>1 DEF VersionsMeet, StillCarries
    <2>2. ASSUME NEW node \in NodeOrNull, node # Null => Meets(node), StillCarries(apiNode[n], node),
                 apiNode'[n] = node, NodeVersions(n)' \subseteq NodeVersions(n) \union {node}
          PROVE  /\ StillCarries(apiNode[n], apiNode'[n])
                 /\ \A old \in NodeVersions(n)' :
                       (old # Null => Meets(old)) /\ StillCarries(old, apiNode'[n])
      <3>1. ASSUME NEW old \in NodeVersions(n)
            PROVE  (old # Null => Meets(old)) /\ StillCarries(old, node)
        BY <2>2 DEF VersionsMeet, StillCarries
      <3>2. StillCarries(node, node)
        BY DEF StillCarries
      <3>3. QED
        BY <2>2, <3>1, <3>2
    <2>3. QED
      BY <2>1, <2>2, NodeVersionsStep
  <1>2. VersionsMeet'
    BY <1>1 DEF VersionsMeet, Meets, StillCarries, Carries
  <1>3. QED
    BY <1>1, <1>2

\* So do the copies of the workers.
LEMMA CopiesStayMet ==
    ASSUME NobodyTaints, TypeOK, VersionsMeet, CopiesMeet, VersionsMeet', [Next]_vars
    PROVE  CopiesMeet'
  <1>1. ASSUME NEW n \in Nodes
        PROVE  /\ nodeStore[n] # Null => Meets(nodeStore[n])
               /\ apiNode'[n] # Null => Meets(apiNode'[n])
    BY DEF VersionsMeet, NodeVersions, Meets
  <1>2. CopiesMeet' <=> /\ nnode' # Null => Meets(nnode')
                        /\ \A n \in Nodes : rnodes'[n] # Null => Meets(rnodes'[n])
    BY DEF CopiesMeet, Meets
  <1>3. /\ nnode # Null => Meets(nnode)
        /\ \A n \in Nodes : rnodes[n] # Null => Meets(rnodes[n])
    BY DEF CopiesMeet
  <1>4. UNCHANGED nodeReconcilerVars => nnode' = nnode
    BY DEF nodeReconcilerVars
  <1>5. UNCHANGED ruleReconcilerVars => rnodes' = rnodes
    BY DEF ruleReconcilerVars
  <1>6. ASSUME NodeReconcilerNext
        PROVE  nnode' # Null => Meets(nnode')
    <2>1. CASE NodeEvaluate
      <3>1. nname \in Nodes /\ nnode \in Node /\ nnode # Null /\ nrules[ncur] \in Specs
        BY <2>1 DEF NodeEvaluate, TypeOK, NodeReconcilerTypeOK, NodeOrNull, SpecOrNull
      <3>2. CASE nnode' = [nnode EXCEPT !.taints = TaintsAfter(nrules[ncur], nnode)]
        <4>1. /\ TaintsAfter(nrules[ncur], nnode) \in SUBSET Taints
              /\ nrules[ncur].taint \notin TaintsAfter(nrules[ncur], nnode)
          BY <1>3, <3>1, TaintsType, EvaluationUntaints
        <4>2. QED
          BY <1>3, <3>1, <3>2, <4>1, UntaintedNode
      <3>3. QED
        BY <1>1, <1>3, <2>1, <3>1, <3>2 DEF NodeEvaluate
    <2>2. ASSUME NEW n \in Nodes, NodeGet(n)
          PROVE  nnode' # Null => Meets(nnode')
      BY <1>1, <1>3, <1>4, <2>2 DEF NodeGet
    <2>3. CASE nnode' = nnode \/ nnode' = Null
      BY <1>3, <2>3
    <2>4. QED
      BY <1>6, <2>1, <2>2, <2>3
      DEF NodeReconcilerNext, getApplicableRulesForNode, NodePickRule, NodeMark, NodePersistStatus,
          NodeContinue
  <1>7. ASSUME RuleReconcilerNext
        PROVE  \A n \in Nodes : rnodes'[n] # Null => Meets(rnodes'[n])
    <2>1. CASE \A n \in Nodes : rnodes'[n] \in {rnodes[n], nodeStore[n], Null}
      BY <1>1, <1>3, <2>1
    <2>2. CASE rnodes' = rnodes \/ rnodes' = NoNodes
      BY <2>1, <2>2 DEF NoNodes
    <2>3. ASSUME NEW n \in Nodes, rnodes' = [rnodes EXCEPT ![n] = Null]
          PROVE  \A m \in Nodes : rnodes'[m] # Null => Meets(rnodes'[m])
      BY <2>1, <2>3 DEF TypeOK, RuleReconcilerTypeOK
    <2>4. CASE CleanupList \/ RuleListNodes \/ RuleSelector
      BY <2>1, <2>2, <2>4 DEF CleanupList, NodesToCleanUp, RuleListNodes, RuleSelector,
                              NodesLeavingScope, RuleLoopKept, RuleError, RuleReturn
    <2>5. ASSUME NEW step, CleanupStep(step) \/ RuleEvaluate
          PROVE  \A n \in Nodes : rnodes'[n] # Null => Meets(rnodes'[n])
      BY <2>3, <2>5 DEF CleanupStep, RuleEvaluate
    <2>6. ASSUME NEW step, NEW next, CleanupEnd(step, next)
          PROVE  \A n \in Nodes : rnodes'[n] # Null => Meets(rnodes'[n])
      BY <2>2, <2>6 DEF CleanupEnd, RuleLoopKept, RuleError, RuleReturn
    <2>7. ASSUME NEW r \in Rules, RuleGet(r)
          PROVE  \A n \in Nodes : rnodes'[n] # Null => Meets(rnodes'[n])
      BY <1>5, <2>2, <2>7 DEF RuleGet, RuleLoopKept
    <2>8. QED
      BY <1>7, <2>2, <2>4, <2>5, <2>6, <2>7
      DEF RuleReconcilerNext, cleanupTaintsForRule, RuleRemoveFinalizer, RuleUncache, RuleAddFinalizer,
          RuleRefresh, cleanupNodesAfterSelectorChange, RuleUpdateCache, processDryRun,
          RuleEvaluateEnd, RuleMark, updateRuleStatus, cleanupDeletedNodes, FinalizerUpdateFails,
          RuleLoopKept, RuleError, RuleDone, RuleReturn
  <1>8. CASE Crash
    BY <1>2, <1>8 DEF Crash, RuleReturn, NoNodes
  <1>9. CASE UNCHANGED <<nodeReconcilerVars, ruleReconcilerVars>>
    BY <1>2, <1>3, <1>4, <1>5, <1>9
  <1>10. CASE NodeProcess
    BY <1>2, <1>3, <1>5, <1>6, <1>10 DEF NodeProcess
  <1>11. CASE RuleProcess
    BY <1>2, <1>3, <1>4, <1>7, <1>11 DEF RuleProcess
  <1>12. QED
    BY <1>8, <1>9, <1>10, <1>11 DEF Next, Surroundings, Rest, vars

\* No step gives the taint to a node the cleanup is to take it from, or moves one there.
LEMMA ToCleanWas ==
    ASSUME NEW n \in Nodes, StillCarries(apiNode[n], apiNode'[n]), UNCHANGED rrule, ToClean(n)'
    PROVE  ToClean(n)
  <1>1. /\ apiNode'[n] # Null
        /\ ruleAppliesTo(rrule.spec, apiNode'[n])
        /\ Carries(apiNode'[n])
    BY DEF ToClean, ruleAppliesTo, Carries, hasTaintBySpec
  <1>2. /\ apiNode[n] # Null
        /\ Carries(apiNode[n])
        /\ apiNode[n].labels = apiNode'[n].labels
    BY <1>1 DEF StillCarries
  <1>3. ruleAppliesTo(rrule.spec, apiNode[n])
    BY <1>1, <1>2 DEF ruleAppliesTo
  <1>4. QED
    BY <1>2, <1>3 DEF ToClean

\* What the rule worker lists, however old, has every node to clean in it.
LEMMA ListIsComplete ==
    ASSUME NobodyTaints, VersionsMeet, NEW n \in Nodes, ToClean(n), rrule.spec \in Specs
    PROVE  NodesToCleanUp(rrule.spec)[n] # Null
  <1>1. /\ nodeStore[n] # Null
        /\ Carries(nodeStore[n])
        /\ nodeStore[n].labels = apiNode[n].labels
    BY DEF VersionsMeet, NodeVersions, StillCarries, ToClean
  <1>2. hasTaintBySpec(nodeStore[n], rrule.spec)
    BY <1>1 DEF NobodyTaints, Carries, hasTaintBySpec
  <1>3. ruleAppliesTo(rrule.spec, nodeStore[n])
    BY <1>1 DEF ToClean, ruleAppliesTo
  <1>4. QED
    BY <1>1, <1>2, <1>3 DEF NodesToCleanUp

\* The nodes to clean are listed until they are cleaned, and a deletion goes on only
\* if that succeeded on each of them.
LEMMA CleanedUpStays ==
    ASSUME NobodyTaints, TypeOK, VersionsMeet, CleanedUp, [Next]_vars,
           \A n \in Nodes : StillCarries(apiNode[n], apiNode'[n])
    PROVE  CleanedUp'
  <1>1. CASE UNCHANGED <<rpc, rrule, rnodes, rfailed>>
    <2>1. \A n \in Nodes : ToClean(n)' => ToClean(n)
      BY <1>1, ToCleanWas
    <2>2. QED
      BY <1>1, <2>1 DEF CleanedUp
  <1>2. CASE rpc' \notin {"cleanup", "removeFinalizer"}
    BY <1>2 DEF CleanedUp
  <1>3. CASE CleanupList
    <2>1. /\ rpc' = "cleanup" /\ UNCHANGED rrule
          /\ rnodes' = NodesToCleanUp(rrule.spec)
          /\ rrule.spec \in Specs
      BY <1>3 DEF CleanupList, RuleStepTo, TypeOK, RuleReconcilerTypeOK, RuleOrNull, Rule
    <2>2. \A n \in Nodes : ToClean(n)' => rnodes'[n] # Null
      BY <2>1, ToCleanWas, ListIsComplete
    <2>3. QED
      BY <2>1, <2>2 DEF CleanedUp
  <1>4. CASE CleanupStep("cleanup")
    <2>1. /\ rpc = "cleanup" /\ UNCHANGED <<rpc, rrule, nodeStore>>
          /\ rrule.spec \in Specs
      BY <1>4 DEF CleanupStep, TypeOK, RuleReconcilerTypeOK, RuleOrNull, Rule
    <2>2. PICK m \in Nodes :
             /\ rnodes[m] # Null
             /\ rnodes' = [rnodes EXCEPT ![m] = Null]
             /\ \/ /\ PatchTaints(m, removeTaintBySpec(rnodes[m], rrule.spec))
                   /\ UNCHANGED rfailed
                \/ rfailed' = TRUE
      BY <1>4 DEF CleanupStep
    <2>3. CASE rfailed' = TRUE
      BY <2>1, <2>3 DEF CleanedUp
    <2>4. CASE PatchTaints(m, removeTaintBySpec(rnodes[m], rrule.spec)) /\ UNCHANGED rfailed
      <3>1. /\ rnodes[m] \in Node
            /\ removeTaintBySpec(rnodes[m], rrule.spec) \in SUBSET Taints
            /\ rrule.spec.taint \notin removeTaintBySpec(rnodes[m], rrule.spec)
        BY <2>1, <2>2, TaintsType DEF removeTaintBySpec, TypeOK, RuleReconcilerTypeOK, NodeOrNull
      <3>2. ~Carries(apiNode'[m])
        BY <2>1, <2>4, <3>1, PatchIsClean DEF TypeOK
      <3>3. ~ToClean(m)'
        BY <3>2 DEF ToClean, Carries, hasTaintBySpec
      <3>4. ASSUME NEW n \in Nodes, ToClean(n)', ~rfailed'
            PROVE  rnodes'[n] # Null
        <4>1. n # m /\ ToClean(n)
          BY <2>1, <3>3, <3>4, ToCleanWas
        <4>2. rnodes[n] # Null
          BY <2>1, <2>4, <3>4, <4>1 DEF CleanedUp
        <4>3. QED
          BY <2>2, <4>1, <4>2 DEF TypeOK, RuleReconcilerTypeOK
      <3>5. QED
        BY <2>1, <3>4 DEF CleanedUp
    <2>5. QED
      BY <2>2, <2>3, <2>4
  <1>5. CASE CleanupEnd("cleanup", "removeFinalizer")
    <2>1. CASE RuleError
      BY <1>2, <2>1 DEF RuleError, RuleReturn
    <2>2. CASE ~rfailed /\ RuleStepTo("removeFinalizer")
      <3>1. rpc = "cleanup" /\ rnodes = NoNodes /\ rpc' = "removeFinalizer" /\ UNCHANGED rrule
        BY <1>5, <2>2 DEF CleanupEnd, RuleStepTo
      <3>2. \A n \in Nodes : ~ToClean(n)
        BY <2>2, <3>1 DEF CleanedUp, NoNodes
      <3>3. \A n \in Nodes : ~ToClean(n)'
        BY <3>1, <3>2, ToCleanWas
      <3>4. QED
        BY <3>1, <3>3 DEF CleanedUp
    <2>3. QED
      BY <1>5, <2>1, <2>2 DEF CleanupEnd
  <1>6. CASE RuleReconcilerNext
    <2>1. ASSUME NEW r \in Rules, RuleGet(r)
          PROVE  CleanedUp'
      BY <1>1, <1>2, <2>1 DEF RuleGet, StepAfterGet, ruleReconcilerVars
    <2>2. CASE RuleRemoveFinalizer \/ RuleUncache \/ RuleAddFinalizer \/ RuleRefresh \/ RuleSelector
      BY <1>2, <2>2 DEF RuleRemoveFinalizer, RuleUncache, RuleAddFinalizer, RuleRefresh, RuleSelector,
                        FinalizerUpdateFails, RuleDone, RuleError, RuleReturn, RuleStepTo
    <2>3. CASE cleanupNodesAfterSelectorChange
      BY <1>2, <2>3 DEF cleanupNodesAfterSelectorChange, CleanupStep, CleanupEnd, RuleError,
                        RuleReturn, RuleStepTo
    <2>4. CASE \/ RuleUpdateCache \/ processDryRun \/ RuleListNodes \/ RuleEvaluate
               \/ RuleEvaluateEnd \/ RuleMark \/ updateRuleStatus \/ cleanupDeletedNodes
      BY <1>2, <2>4 DEF RuleUpdateCache, processDryRun, RuleListNodes, RuleEvaluate, RuleEvaluateEnd,
                        RuleMark, updateRuleStatus, cleanupDeletedNodes, RuleDone, RuleError,
                        RuleReturn, RuleStepTo
    <2>5. QED
      BY <1>3, <1>4, <1>5, <1>6, <2>1, <2>2, <2>3, <2>4 DEF RuleReconcilerNext, cleanupTaintsForRule
  <1>7. CASE Crash
    BY <1>2, <1>7 DEF Crash, RuleReturn
  <1>8. CASE UNCHANGED ruleReconcilerVars
    BY <1>1, <1>8 DEF ruleReconcilerVars
  <1>9. QED
    BY <1>6, <1>7, <1>8 DEF Next, Surroundings, NodeProcess, RuleProcess, Rest, vars

\* Only the Update that drops the finalizer makes a rule that has it vanish.
LEMMA VanishesByRemoval ==
    ASSUME TypeOK, RuleObjectStep, NEW r \in Rules,
           apiRule[r] # Null, apiRule[r].finalizer, apiRule'[r] = Null
    PROVE  FinalizerRemoved /\ rname = r
  <1>1. apiRule \in [Rules -> RuleOrNull] /\ apiRule[r] \in Rule
    BY DEF TypeOK, ClusterTypeOK, RuleOrNull
  <1>2. Null \notin Rule /\ apiRule[r].generation + 1 \in Nat \ {0}
    BY <1>1, NullAssumption DEF Rule
  <1>3. ASSUME NEW q \in Rules, NEW rule, WriteRule(q, rule)
        PROVE  q = r /\ rule = Null
    BY <1>1, <1>3 DEF WriteRule
  <1>4. CASE UNCHANGED apiRule
    BY <1>4
  <1>5. ASSUME NEW q \in Rules, StatusWrite(q)
        PROVE  FALSE
    BY <1>3, <1>5 DEF StatusWrite
  <1>6. ASSUME NEW q \in Rules, CreateRule(q)
        PROVE  FALSE
    BY <1>3, <1>6 DEF CreateRule, RuleEvent
  <1>7. ASSUME NEW q \in Rules, EditRule(q)
        PROVE  FALSE
    <2>1. PICK spec \in Specs :
             WriteRule(q, [apiRule[q] EXCEPT !.spec = spec, !.generation = @ + 1])
      BY <1>7 DEF EditRule, RuleEvent
    <2>2. q = r
      BY <1>3, <2>1
    <2>3. [apiRule[r] EXCEPT !.spec = spec, !.generation = @ + 1] \in Rule
      BY <1>1, <1>2 DEF Rule
    <2>4. QED
      BY <1>2, <1>3, <2>1, <2>2, <2>3
  <1>8. ASSUME NEW q \in Rules, DeleteRule(q)
        PROVE  FALSE
    <2>1. WriteRule(q, IF apiRule[q].finalizer
                       THEN [apiRule[q] EXCEPT !.deleting = TRUE, !.generation = @ + 1] ELSE Null)
      BY <1>8 DEF DeleteRule, RuleEvent
    <2>2. q = r
      BY <1>3, <2>1
    <2>3. [apiRule[r] EXCEPT !.deleting = TRUE, !.generation = @ + 1] \in Rule
      BY <1>1, <1>2 DEF Rule
    <2>4. QED
      BY <1>2, <1>3, <2>1, <2>2, <2>3
  <1>9. CASE FinalizerAdded
    <2>1. /\ rname \in Rules /\ rrule \in Rule
          /\ WriteRule(rname, [rrule EXCEPT !.finalizer = TRUE])
      BY <1>9 DEF FinalizerAdded, TypeOK, RuleReconcilerTypeOK, RuleOrNull
    <2>2. [rrule EXCEPT !.finalizer = TRUE] \in Rule
      BY <2>1 DEF Rule
    <2>3. QED
      BY <1>2, <1>3, <2>1, <2>2
  <1>10. CASE FinalizerRemoved
    <2>1. rname \in Rules /\ WriteRule(rname, Null)
      BY <1>10 DEF FinalizerRemoved, TypeOK, RuleReconcilerTypeOK
    <2>2. QED
      BY <1>3, <1>10, <2>1
  <1>11. QED
    BY <1>4, <1>5, <1>6, <1>7, <1>8, <1>9, <1>10
    DEF RuleObjectStep, ruleObjects, DeliverRule, Crash

\* The invariant is inductive.
LEMMA CleanInvStep ==
    ASSUME NobodyTaints, IInv, NodesCatchUp, CleanInv, [Next]_vars
    PROVE  CleanInv'
  <1>1. TypeOK /\ ClusterTypeOK
    BY DEF IInv, TypeOK
  <1>2. EventsOver'
    BY <1>1, SpentStaysSpent DEF CleanInv, EventsOver, EventKinds
  <1>3. VersionsMeet' /\ \A n \in Nodes : StillCarries(apiNode[n], apiNode'[n])
    BY <1>1, NextIsClean, VersionsStayMet DEF CleanInv
  <1>4. CopiesMeet' /\ CleanedUp'
    BY <1>1, <1>3, CopiesStayMet, CleanedUpStays DEF CleanInv
  <1>5. QED
    BY <1>2, <1>3, <1>4 DEF CleanInv

\* The two reconcilers take taints off the same nodes with patches of whole lists, from
\* copies of different ages, and some of the patches fail; still, where the nodes meet
\* their rules, the rule worker drops the finalizer of a rule that is being deleted only
\* when no node in the rule's scope has its taint any more.
THEOREM DeletedRulesLeaveNoTaint ==
    ASSUME NobodyTaints
    PROVE  SafeSpec => CleanBeforeGone
  <1>1. Init => CleanInv
    <2> SUFFICES ASSUME Init
                 PROVE  CleanInv
      OBVIOUS
    <2>1. EventsOver
      BY DEF Init, ClusterInit, NobodyTaints, EventsOver
    <2>2. VersionsMeet
      <3>1. ASSUME NEW n \in Nodes
            PROVE  NodeVersions(n) = {apiNode[n]}
        BY DEF Init, ClusterInit, NodeVersions
      <3>2. QED
        BY <3>1 DEF Init, ClusterInit, NobodyTaints, VersionsMeet, StillCarries
    <2>3. CopiesMeet /\ CleanedUp
      BY DEF Init, NodeReconcilerInit, RuleReconcilerInit, NoNodes, CopiesMeet, CleanedUp
    <2>4. QED
      BY <2>1, <2>2, <2>3 DEF CleanInv
  <1>2. IInv /\ NodesCatchUp /\ CleanInv /\ [Next]_vars => CleanInv'
    BY CleanInvStep
  <1> DEFINE Clean == \A r \in Rules, n \in Nodes :
                         /\ apiRule[r] # Null /\ apiRule[r].finalizer /\ apiRule'[r] = Null
                         /\ apiNode[n] # Null
                         /\ ruleAppliesTo(apiRule[r].spec, apiNode[n])
                         => ~hasTaintBySpec(apiNode[n], apiRule[r].spec)
  <1>3. IInv /\ CleanInv /\ [Next]_vars => Clean
    <2> SUFFICES ASSUME IInv, CleanInv, [Next]_vars, NEW r \in Rules, NEW n \in Nodes,
                        apiRule[r] # Null, apiRule[r].finalizer, apiRule'[r] = Null,
                        apiNode[n] # Null,
                        ruleAppliesTo(apiRule[r].spec, apiNode[n])
                 PROVE  ~hasTaintBySpec(apiNode[n], apiRule[r].spec)
      OBVIOUS
    <2>1. FinalizerRemoved /\ rname = r
      BY NextIsRuleStep, VanishesByRemoval DEF IInv
    <2>2. rpc = "removeFinalizer" /\ apiRule[r] = rrule /\ rrule.spec \in Specs
      BY <2>1 DEF FinalizerRemoved, IInv, TypeOK, RuleReconcilerTypeOK, RuleOrNull, Rule
    <2>3. ~ToClean(n)
      BY <2>2 DEF CleanInv, CleanedUp
    <2>4. QED
      BY <2>2, <2>3 DEF ToClean, Carries
  <1>4. IInv /\ CleanInv /\ [Next]_vars => [Clean]_vars
    BY <1>3
  <1>5. QED
    BY <1>1, <1>2, <1>4, Inductive, NodeInformerCatchesUp, PTL DEF SafeSpec, CleanBeforeGone
=============================================================================
