-------------------------- MODULE RuleWritesProofs --------------------------
(***************************************************************************)
(* What the steps of the system may do to a rule object, to the informer's *)
(* copies of it and to the rule worker's copy; and from that, that the     *)
(* webhook keeps conflicting rules from being enforced together.           *)
(***************************************************************************)
EXTENDS ReadinessSystemProofs

ruleObjects == <<apiRule, ruleWatch, ruleStore>>
ruleWork == <<ruleCache, rpc, rname, rrule>>

\* Either worker writes the status: a new version of the object as it is.
StatusWrite(r) ==
    /\ apiRule[r] # Null
    /\ RuleFresh(r)
    /\ WriteRule(r, apiRule[r])
    /\ UNCHANGED ruleStore

\* The webhook has seen the rule against the copies of the store.
FinalizerAdded ==
    /\ rpc = "addFinalizer" /\ rpc' = "refresh"
    /\ UNCHANGED <<rname, rrule, ruleCache, ruleStore>>
    /\ RuleFresh(rname) /\ ruleStore[rname] = rrule /\ apiRule[rname] = rrule
    /\ MayAdmit(ruleStore, rname, rrule.spec, TRUE)
    /\ WriteRule(rname, [rrule EXCEPT !.finalizer = TRUE])

FinalizerRemoved ==
    /\ rpc = "removeFinalizer" /\ rpc' = "uncache"
    /\ UNCHANGED <<rname, rrule, ruleCache, ruleStore>>
    /\ RuleFresh(rname) /\ ruleStore[rname] = rrule /\ apiRule[rname] = rrule
    /\ rrule.deleting
    /\ WriteRule(rname, Null)

RuleObjectStep ==
    \/ UNCHANGED ruleObjects
    \/ \E r \in Rules : StatusWrite(r)
    \/ \E r \in Rules :
          /\ CreateRule(r) \/ EditRule(r) \/ DeleteRule(r)
          /\ UNCHANGED ruleWork
    \/ FinalizerAdded
    \/ FinalizerRemoved
    \/ \E r \in Rules : DeliverRule(r) /\ UNCHANGED ruleWork
    \/ Crash

\* The steps on the way through Reconcile that leave the worker's copy of the rule
\* and the cache alone.
Moves ==
    {<<"cleanupList", "cleanup">>, <<"cleanup", "removeFinalizer">>,
     <<"removeFinalizer", "uncache">>, <<"addFinalizer", "refresh">>,
     <<"selector", "selectorCleanup">>, <<"selector", "cache">>, <<"selectorCleanup", "cache">>,
     <<"dryRun", "status">>, <<"list", "evaluate">>, <<"evaluate", "mark">>,
     <<"mark", "evaluate">>, <<"evaluate", "status">>, <<"status", "prune">>}

RuleWorkerStep ==
    \/ UNCHANGED ruleWork
    \/ \E r \in Rules : RuleGet(r)
    \/ RuleReturn /\ rpc # "uncache" /\ UNCHANGED ruleCache
    \/ RuleUncache
    \/ RuleRefresh
    \/ RuleUpdateCache
    \/ <<rpc, rpc'>> \in Moves /\ UNCHANGED <<rname, rrule, ruleCache>>
    \/ Crash

-----------------------------------------------------------------------------
(* Every step is one of these *)

\* A copy of the rule with a current resourceVersion is the object.
LEMMA HeldIsObject ==
    ASSUME TypeOK, RuleInv, held = rname, rpc \in {"addFinalizer", "removeFinalizer"}
    PROVE  /\ rname \in Rules /\ RuleFresh(rname)
           /\ rrule \in Rule /\ rrule # Null
           /\ ruleStore[rname] = rrule /\ apiRule[rname] = rrule
  <1>1. rname \in Rules /\ rrule \in Rule /\ rrule # Null
    BY DEF TypeOK, RuleReconcilerTypeOK, RuleOrNull
  <1>2. ruleWatch[rname] = <<>> /\ ruleStore[rname] = rrule
    BY DEF RuleInv, HeldIsCurrent
  <1>3. QED
    BY <1>1, <1>2, FreshIsCurrent DEF RuleFresh

\* The rule worker.
LEMMA RuleProcessWrites ==
    ASSUME TypeOK, RuleInv, RuleReconcilerNext
    PROVE  RuleObjectStep /\ RuleWorkerStep
  <1> USE DEF rulesKept, ruleObjects, ruleWork
  <1>1. ASSUME NEW r \in Rules, RuleGet(r)
        PROVE  RuleObjectStep /\ RuleWorkerStep
    BY <1>1 DEF RuleGet, RuleObjectStep, RuleWorkerStep
  <1>2. CASE RuleRemoveFinalizer
    <2>1. CASE RuleError /\ UNCHANGED rulesKept
      BY <1>2, <2>1 DEF RuleRemoveFinalizer, RuleError, RuleObjectStep, RuleWorkerStep
    <2>2. CASE FinalizerUpdateOK /\ WriteRule(rname, Null) /\ RuleStepTo("uncache")
      <3>1. rpc = "removeFinalizer" /\ UNCHANGED <<ruleStore, ruleCache>> /\ held = rname
        BY <1>2, <2>2 DEF RuleRemoveFinalizer, FinalizerUpdateOK
      <3>2. rrule.deleting
        BY <3>1 DEF RuleInv, StepsGuarded
      <3>3. FinalizerRemoved
        BY <2>2, <3>1, <3>2, HeldIsObject DEF FinalizerRemoved, RuleStepTo
      <3>4. <<rpc, rpc'>> \in Moves /\ UNCHANGED <<rname, rrule, ruleCache>>
        BY <2>2, <3>1 DEF Moves, RuleStepTo
      <3>5. QED
        BY <3>3, <3>4 DEF RuleObjectStep, RuleWorkerStep
    <2>3. QED
      BY <1>2, <2>1, <2>2 DEF RuleRemoveFinalizer, FinalizerUpdateFails
  <1>3. CASE RuleAddFinalizer
    <2>1. CASE RuleError /\ UNCHANGED rulesKept
      BY <1>3, <2>1 DEF RuleAddFinalizer, RuleError, RuleObjectStep, RuleWorkerStep
    <2>2. CASE /\ FinalizerUpdateOK
               /\ WriteRule(rname, [rrule EXCEPT !.finalizer = TRUE])
               /\ RuleStepTo("refresh")
      <3>1. rpc = "addFinalizer" /\ UNCHANGED <<ruleStore, ruleCache>> /\ held = rname
        BY <1>3, <2>2 DEF RuleAddFinalizer, FinalizerUpdateOK
      <3>2. FinalizerAdded
        BY <2>2, <3>1, HeldIsObject DEF FinalizerAdded, RuleStepTo, FinalizerUpdateOK
      <3>3. <<rpc, rpc'>> \in Moves /\ UNCHANGED <<rname, rrule, ruleCache>>
        BY <2>2, <3>1 DEF Moves, RuleStepTo
      <3>4. QED
        BY <3>2, <3>3 DEF RuleObjectStep, RuleWorkerStep
    <2>3. QED
      BY <1>3, <2>1, <2>2 DEF RuleAddFinalizer, FinalizerUpdateFails
  <1>4. CASE RuleUncache \/ RuleRefresh \/ RuleUpdateCache
    BY <1>4 DEF RuleUncache, RuleRefresh, RuleUpdateCache, RuleObjectStep, RuleWorkerStep
  <1>5. CASE updateRuleStatus \/ cleanupDeletedNodes
    <2>1. /\ rpc \in {"status", "prune"}
          /\ rname \in Rules
          /\ UNCHANGED <<ruleStore, ruleCache>>
      BY <1>5 DEF updateRuleStatus, cleanupDeletedNodes, TypeOK, RuleReconcilerTypeOK
    <2>2. apiRule[rname] # Null
      BY <2>1 DEF RuleInv, StepsGuarded, Guarded, ProcessSteps
    <2>3. UNCHANGED rulesKept \/ (RuleFresh(rname) /\ WriteRule(rname, ruleStore[rname]))
      BY <1>5 DEF updateRuleStatus, cleanupDeletedNodes, WriteStatusOK, WriteStatusFails
    <2>4. RuleObjectStep
      BY <2>1, <2>2, <2>3, FreshIsCurrent DEF RuleObjectStep, StatusWrite
    <2>5. RuleReturn \/ (rpc = "status" /\ RuleStepTo("prune"))
      BY <1>5 DEF updateRuleStatus, cleanupDeletedNodes, RuleDone, RuleError
    <2>6. QED
      BY <2>1, <2>4, <2>5 DEF RuleWorkerStep, Moves, RuleStepTo
  <1>6. CASE cleanupTaintsForRule \/ RuleSelector \/ cleanupNodesAfterSelectorChange
    <2>1. UNCHANGED ruleObjects /\ UNCHANGED ruleCache /\ rpc # "uncache"
      BY <1>6 DEF cleanupTaintsForRule, CleanupList, CleanupStep, CleanupEnd, RuleSelector,
                  cleanupNodesAfterSelectorChange
    <2>2. \/ UNCHANGED <<rpc, rname, rrule>>
          \/ RuleReturn
          \/ <<rpc, rpc'>> \in Moves /\ UNCHANGED <<rname, rrule>>
      BY <1>6 DEF cleanupTaintsForRule, CleanupList, CleanupStep, CleanupEnd, RuleSelector,
                  cleanupNodesAfterSelectorChange, RuleError, RuleStepTo, Moves
    <2>3. QED
      BY <2>1, <2>2 DEF RuleObjectStep, RuleWorkerStep
  <1>7. CASE processDryRun \/ RuleListNodes \/ RuleEvaluate \/ RuleEvaluateEnd \/ RuleMark
    <2>1. UNCHANGED ruleObjects /\ UNCHANGED <<ruleCache, rname, rrule>>
      BY <1>7 DEF processDryRun, RuleListNodes, RuleEvaluate, RuleEvaluateEnd, RuleMark, RuleStepTo
    <2>2. UNCHANGED rpc \/ <<rpc, rpc'>> \in Moves
      BY <1>7 DEF processDryRun, RuleListNodes, RuleEvaluate, RuleEvaluateEnd, RuleMark, RuleStepTo,
                  Moves
    <2>3. QED
      BY <2>1, <2>2 DEF RuleObjectStep, RuleWorkerStep
  <1>8. QED
    BY <1>1, <1>2, <1>3, <1>4, <1>5, <1>6, <1>7 DEF RuleReconcilerNext

\* Every step of the system.
LEMMA NextIsRuleStep ==
    ASSUME TypeOK, RuleInv, [Next]_vars
    PROVE  RuleObjectStep /\ RuleWorkerStep
  <1> USE DEF rulesKept, ruleObjects, ruleWork, ruleReconcilerVars
  <1>1. CASE UNCHANGED vars
    BY <1>1 DEF vars, clusterVars, RuleObjectStep, RuleWorkerStep
  <1>2. CASE Surroundings
    <2>1. UNCHANGED ruleWork
      BY <1>2 DEF Surroundings
    <2>2. ASSUME NEW n \in Nodes, NEW kind, NEW node, NodeEvent(kind, n, node)
          PROVE  RuleObjectStep
      BY <2>2 DEF NodeEvent, RuleObjectStep
    <2>3. ASSUME NEW n \in Nodes,
                 SetCondition(n) \/ SetLabels(n) \/ ToggleTaint(n) \/ JoinNode(n) \/ LeaveNode(n)
          PROVE  RuleObjectStep
      BY <2>2, <2>3 DEF SetCondition, SetLabels, ToggleTaint, JoinNode, LeaveNode
    <2>4. ASSUME NEW n \in Nodes, DeliverNode(n)
          PROVE  RuleObjectStep
      BY <2>4 DEF DeliverNode, RuleObjectStep
    <2>5. QED
      BY <1>2, <2>1, <2>3, <2>4
      DEF Surroundings, EnvironmentNext, InformerNext, RuleObjectStep, RuleWorkerStep
  <1>3. CASE NodeProcess
    <2>1. UNCHANGED ruleWork /\ UNCHANGED ruleStore
      BY <1>3 DEF NodeProcess, NodeReconcilerNext, NodeGet, getApplicableRulesForNode, NodePickRule,
                  NodeEvaluate, NodeMark, NodePersistStatus, ruleSideKept
    <2>2. CASE UNCHANGED rulesKept
      BY <2>1, <2>2 DEF RuleObjectStep, RuleWorkerStep
    <2>3. CASE /\ NodePersistStatus
               /\ ruleStore[ncur] # Null /\ RuleFresh(ncur) /\ WriteRule(ncur, ruleStore[ncur])
      <3>1. ncur \in Rules
        BY <2>3 DEF NodePersistStatus, TypeOK, NodeReconcilerTypeOK
      <3>2. StatusWrite(ncur)
        BY <2>1, <2>3, <3>1, FreshIsCurrent DEF StatusWrite
      <3>3. QED
        BY <2>1, <3>1, <3>2 DEF RuleObjectStep, RuleWorkerStep
    <2>4. QED
      BY <1>3, <2>2, <2>3
      DEF NodeProcess, NodeReconcilerNext, NodeGet, getApplicableRulesForNode, NodePickRule,
          NodeEvaluate, NodeMark, NodePersistStatus, ruleSideKept
  <1>4. CASE RuleProcess
    BY <1>4, RuleProcessWrites DEF RuleProcess
  <1>5. CASE Crash
    BY <1>5 DEF RuleObjectStep, RuleWorkerStep
  <1>6. QED
    BY <1>1, <1>2, <1>3, <1>4, <1>5 DEF Next, Rest
-----------------------------------------------------------------------------
(* The worker's copy and the cache *)

CachedSteps == {"dryRun", "list", "evaluate", "mark", "status", "prune"}

\* What the rule worker evaluates nodes with is what the node worker uses.
CarriedIsCached == rpc \in CachedSteps => ruleCache[rname] = rrule.spec

\* Nobody but the rule worker changes the cache.
LEMMA CarriedStaysCached ==
    ASSUME TypeOK, CarriedIsCached, RuleWorkerStep
    PROVE  CarriedIsCached'
  <1>1. CASE \/ UNCHANGED ruleWork
             \/ <<rpc, rpc'>> \in Moves /\ UNCHANGED <<rname, rrule, ruleCache>>
    BY <1>1 DEF ruleWork, Moves, CarriedIsCached, CachedSteps
  <1>2. ASSUME NEW r \in Rules, RuleGet(r)
        PROVE  CarriedIsCached'
    BY <1>2 DEF RuleGet, StepAfterGet, ruleReconcilerVars, CarriedIsCached, CachedSteps
  <1>3. CASE RuleReturn \/ RuleUncache \/ RuleRefresh \/ Crash
    BY <1>3 DEF RuleUncache, RuleDone, RuleReturn, RuleRefresh, Crash, CarriedIsCached, CachedSteps
  <1>4. CASE RuleUpdateCache
    <2>1. rname \in Rules
      BY <1>4 DEF RuleUpdateCache, TypeOK, RuleReconcilerTypeOK
    <2>2. QED
      BY <1>4, <2>1 DEF RuleUpdateCache, updateRuleCache, RuleStepTo, CarriedIsCached, TypeOK,
                        RuleCacheTypeOK
  <1>5. QED
    BY <1>1, <1>2, <1>3, <1>4 DEF RuleWorkerStep

-----------------------------------------------------------------------------
(* The versions of a rule that the informer has or will have *)

Versions(r) == {ruleStore[r]} \union {ruleWatch[r][i] : i \in DOMAIN ruleWatch[r]}

\* A write adds one.
LEMMA VersionsWritten ==
    ASSUME ClusterTypeOK, NEW r \in Rules, NEW rule \in RuleOrNull, WriteRule(r, rule),
           UNCHANGED ruleStore
    PROVE  /\ apiRule'[r] = rule
           /\ Versions(r)' = Versions(r) \union {rule}
           /\ \A q \in Rules \ {r} : apiRule'[q] = apiRule[q] /\ Versions(q)' = Versions(q)
  <1> DEFINE watch == ruleWatch[r]
             longer == Append(watch, rule)
  <1>1. /\ apiRule'[r] = rule /\ ruleWatch'[r] = longer
        /\ \A q \in Rules \ {r} : apiRule'[q] = apiRule[q] /\ ruleWatch'[q] = ruleWatch[q]
    BY DEF ClusterTypeOK, WriteRule
  <1>2. watch \in Seq(RuleOrNull)
    BY DEF ClusterTypeOK
  <1>3. /\ DOMAIN longer = DOMAIN watch \union {Len(watch) + 1}
        /\ longer[Len(watch) + 1] = rule
        /\ \A i \in DOMAIN watch : longer[i] = watch[i]
    BY <1>2
  <1> HIDE DEF longer
  <1>4. {longer[i] : i \in DOMAIN longer} = {watch[i] : i \in DOMAIN watch} \union {rule}
    BY <1>3, Zenon
  <1>5. Versions(r)' = Versions(r) \union {rule}
    <2>1. Versions(r)' = {ruleStore[r]} \union {longer[i] : i \in DOMAIN longer}
      BY <1>1 DEF Versions
    <2>2. QED
      BY <1>4, <2>1 DEF Versions
  <1>6. ASSUME NEW q \in Rules \ {r}
        PROVE  Versions(q)' = Versions(q)
    BY <1>1 DEF Versions
  <1>7. QED
    BY <1>1, <1>5, <1>6

\* A delivery adds none.
LEMMA VersionsDelivered ==
    ASSUME ClusterTypeOK, NEW r \in Rules, DeliverRule(r)
    PROVE  /\ apiRule' = apiRule
           /\ \A q \in Rules : Versions(q)' \subseteq Versions(q)
  <1> DEFINE watch == ruleWatch[r]
             rest == Tail(watch)
  <1>1. watch \in Seq(RuleOrNull) /\ watch # <<>>
    BY DEF ClusterTypeOK, DeliverRule
  <1>2. /\ 1 \in DOMAIN watch
        /\ Head(watch) = watch[1]
        /\ \A i \in DOMAIN rest : i + 1 \in DOMAIN watch /\ rest[i] = watch[i + 1]
    BY <1>1
  <1>3. /\ ruleStore'[r] = Head(watch) /\ ruleWatch'[r] = rest
        /\ \A q \in Rules \ {r} : ruleStore'[q] = ruleStore[q] /\ ruleWatch'[q] = ruleWatch[q]
    BY DEF ClusterTypeOK, DeliverRule
  <1> HIDE DEF rest
  <1>4. {rest[i] : i \in DOMAIN rest} \subseteq {watch[i] : i \in DOMAIN watch}
    BY <1>2
  <1>5. Versions(r)' = {watch[1]} \union {rest[i] : i \in DOMAIN rest}
    BY <1>2, <1>3 DEF Versions
  <1>6. Versions(r)' \subseteq Versions(r)
    BY <1>2, <1>4, <1>5 DEF Versions
  <1>7. ASSUME NEW q \in Rules \ {r}
        PROVE  Versions(q)' = Versions(q)
    BY <1>3 DEF Versions
  <1>8. QED
    BY <1>6, <1>7 DEF DeliverRule

\* After a restart there is only the object.
LEMMA VersionsListed ==
    ASSUME Crash, NEW r \in Rules
    PROVE  apiRule' = apiRule /\ Versions(r)' = {apiRule[r]}
  <1>1. ruleStore' = apiRule /\ ruleWatch'[r] = <<>> /\ apiRule' = apiRule
    BY DEF Crash
  <1>2. {<<>>[i] : i \in DOMAIN <<>>} = {}
    OBVIOUS
  <1>3. Versions(r)' = {apiRule[r]} \union {<<>>[i] : i \in DOMAIN <<>>}
    BY <1>1 DEF Versions
  <1>4. QED
    BY <1>1, <1>2, <1>3

\* Also when the informer has caught up.
LEMMA VersionsFresh ==
    ASSUME RuleInv, NEW r \in Rules, RuleFresh(r)
    PROVE  Versions(r) = {apiRule[r]}
  <1>1. ruleStore[r] = apiRule[r] /\ ruleWatch[r] = <<>>
    BY FreshIsCurrent DEF RuleFresh
  <1>2. {<<>>[i] : i \in DOMAIN <<>>} = {}
    OBVIOUS
  <1>3. QED
    BY <1>1, <1>2 DEF Versions

-----------------------------------------------------------------------------
(* Conflicting rules *)

Conflicting(a, b) ==
    a.taint = b.taint /\ nodSelectorsOverlap(a.nodeSelector, b.nodeSelector)

\* What the webhook can guarantee rests on this: its List works, nobody edits a
\* rule, and no two rules that the process starts with and that already have the
\* finalizer conflict.
ConflictsChecked ==
    /\ WebhookEnabled
    /\ ~ListMayFail
    /\ Quota["edit"] = 0
    /\ \A rules \in InitRules : \A r, q \in Rules :
          /\ r # q /\ rules[r] # Null /\ rules[q] # Null
          /\ rules[r].finalizer /\ rules[q].finalizer
          => ~Conflicting(rules[r].spec, rules[q].spec)

\* Once a rule has the finalizer, the List of the webhook shows its spec.
GuardedShown ==
    \A r \in Rules :
        Guarded(r) => \A version \in Versions(r) :
                         version # Null /\ version.spec = apiRule[r].spec

GuardedDisjoint ==
    \A r, q \in Rules :
        r # q /\ Guarded(r) /\ Guarded(q) => ~Conflicting(apiRule[r].spec, apiRule[q].spec)

\* The copies that are enforced, or about to be, are of the rules as they are.
CopiesCurrent ==
    /\ \A r \in Rules :
          ruleCache[r] # Null => (rpc = "uncache" /\ rname = r) \/ ruleCache[r] = apiRule[r].spec
    /\ rpc \in ProcessSteps => rrule.spec = apiRule[rname].spec

ConflictInv ==
    /\ quota["edit"] = 0
    /\ GuardedShown
    /\ GuardedDisjoint
    /\ CopiesCurrent
    /\ NoConflictEnforced

\* What a step does to the rules that have the finalizer.
LEMMA ConflictObjects ==
    ASSUME ConflictsChecked, TypeOK, RuleInv, ConflictInv, RuleObjectStep
    PROVE  /\ GuardedShown'
           /\ GuardedDisjoint'
           /\ \A r \in Rules :
                 Guarded(r) => \/ apiRule'[r] # Null /\ apiRule'[r].spec = apiRule[r].spec
                               \/ FinalizerRemoved /\ r = rname
  <1> DEFINE Goal ==
        /\ GuardedShown'
        /\ GuardedDisjoint'
        /\ \A r \in Rules :
              Guarded(r) => \/ apiRule'[r] # Null /\ apiRule'[r].spec = apiRule[r].spec
                            \/ FinalizerRemoved /\ r = rname
  <1>1. ClusterTypeOK /\ GuardedShown /\ GuardedDisjoint
    BY DEF TypeOK, ConflictInv
  <1>2. ASSUME NEW r \in Rules, NEW rule \in RuleOrNull, WriteRule(r, rule), UNCHANGED ruleStore,
               \/ rule = Null
               \/ rule # Null /\ ~rule.finalizer
               \/ Guarded(r) /\ rule # Null /\ rule.spec = apiRule[r].spec,
               Guarded(r) => \/ rule # Null /\ rule.spec = apiRule[r].spec
                             \/ FinalizerRemoved /\ r = rname
        PROVE  Goal
    <2>1. /\ apiRule'[r] = rule
          /\ Versions(r)' = Versions(r) \union {rule}
          /\ \A q \in Rules \ {r} : apiRule'[q] = apiRule[q] /\ Versions(q)' = Versions(q)
      BY <1>1, <1>2, VersionsWritten
    <2>2. \A q \in Rules : Guarded(q)' =>
             Guarded(q) /\ apiRule'[q].spec = apiRule[q].spec
      BY <1>2, <2>1 DEF Guarded
    <2>3. GuardedShown'
      BY <1>1, <1>2, <2>1, <2>2 DEF GuardedShown, Guarded
    <2>4. GuardedDisjoint'
      <3> SUFFICES ASSUME NEW a \in Rules, NEW b \in Rules, a # b, Guarded(a)', Guarded(b)'
                   PROVE  ~Conflicting(apiRule'[a].spec, apiRule'[b].spec)
        BY DEF GuardedDisjoint, Conflicting
      <3>1. QED
        BY <1>1, <2>2 DEF GuardedDisjoint
    <2>5. \A q \in Rules \ {r} : Guarded(q) => apiRule'[q] # Null /\ apiRule'[q].spec = apiRule[q].spec
      BY <2>1 DEF Guarded
    <2>6. QED
      BY <1>2, <2>1, <2>3, <2>4, <2>5
  <1>3. ASSUME UNCHANGED apiRule, \A q \in Rules : Versions(q)' \subseteq Versions(q) \union {apiRule[q]}
        PROVE  Goal
    <2>1. \A q \in Rules : Guarded(q)' <=> Guarded(q)
      BY <1>3 DEF Guarded
    <2>2. \A q \in Rules : Guarded(q) => apiRule[q] # Null
      BY DEF Guarded
    <2>3. GuardedShown'
      BY <1>1, <1>3, <2>1, <2>2 DEF GuardedShown
    <2>4. GuardedDisjoint'
      BY <1>1, <1>3, <2>1 DEF GuardedDisjoint, Conflicting
    <2>5. QED
      BY <1>3, <2>2, <2>3, <2>4
  <1>4. CASE UNCHANGED ruleObjects
    BY <1>3, <1>4 DEF ruleObjects, Versions
  <1>5. ASSUME NEW r \in Rules, StatusWrite(r)
        PROVE  Goal
    <2>1. apiRule[r] \in RuleOrNull
      BY <1>1 DEF ClusterTypeOK
    <2>2. /\ apiRule'[r] = apiRule[r]
          /\ Versions(r)' = Versions(r) \union {apiRule[r]}
          /\ \A q \in Rules \ {r} : apiRule'[q] = apiRule[q] /\ Versions(q)' = Versions(q)
      BY <1>1, <1>5, <2>1, VersionsWritten DEF StatusWrite
    <2>3. apiRule' = apiRule
      BY <1>1, <1>5 DEF StatusWrite, WriteRule, ClusterTypeOK
    <2>4. QED
      BY <1>3, <2>2, <2>3
  <1>6. ASSUME NEW r \in Rules, CreateRule(r)
        PROVE  Goal
    <2>1. PICK spec \in Specs :
             RuleEvent("create", r, [spec |-> spec, generation |-> 1,
                                     finalizer |-> FALSE, deleting |-> FALSE])
      BY <1>6 DEF CreateRule
    <2> DEFINE rule == [spec |-> spec, generation |-> 1, finalizer |-> FALSE, deleting |-> FALSE]
    <2>2. rule \in Rule /\ ~rule.finalizer
      BY DEF Rule
    <2>3. rule \in RuleOrNull /\ rule # Null /\ ~rule.finalizer
      BY <2>2, NullAssumption DEF RuleOrNull
    <2>4. WriteRule(r, rule) /\ UNCHANGED ruleStore
      BY <2>1 DEF RuleEvent
    <2>5. ~Guarded(r)
      BY <1>6 DEF CreateRule, Guarded
    <2> HIDE DEF rule
    <2>6. QED
      BY <1>2, <2>3, <2>4, <2>5
  <1>7. ASSUME NEW r \in Rules, EditRule(r)
        PROVE  FALSE
    BY <1>7 DEF EditRule, RuleEvent, Spend, ConflictInv
  <1>8. ASSUME NEW r \in Rules, DeleteRule(r)
        PROVE  Goal
    <2>1. apiRule[r] \in Rule
      BY <1>1, <1>8 DEF DeleteRule, ClusterTypeOK, RuleOrNull
    <2>2. CASE apiRule[r].finalizer
      <3> DEFINE rule == [apiRule[r] EXCEPT !.deleting = TRUE, !.generation = apiRule[r].generation + 1]
      <3>1. apiRule[r].generation + 1 \in Nat \ {0}
        BY <2>1 DEF Rule
      <3>2. rule \in Rule
        BY <2>1, <3>1, Zenon DEF Rule
      <3>3. rule.spec = apiRule[r].spec
        BY <2>1 DEF Rule
      <3>4. WriteRule(r, rule) /\ UNCHANGED ruleStore
        BY <1>8, <2>2, Zenon DEF DeleteRule, RuleEvent
      <3>5. rule \in RuleOrNull /\ rule # Null
        BY <3>2, NullAssumption DEF RuleOrNull
      <3>6. Guarded(r)
        BY <1>8, <2>2 DEF DeleteRule, Guarded
      <3> HIDE DEF rule
      <3>7. QED
        BY <1>2, <3>3, <3>4, <3>5, <3>6
    <2>3. CASE ~apiRule[r].finalizer
      <3>1. WriteRule(r, Null) /\ UNCHANGED ruleStore
        BY <1>8, <2>3, Zenon DEF DeleteRule, RuleEvent
      <3>2. ~Guarded(r)
        BY <2>3 DEF Guarded
      <3>3. QED
        BY <1>2, <3>1, <3>2 DEF RuleOrNull
    <2>4. QED
      BY <2>2, <2>3
  <1>9. CASE FinalizerRemoved
    <2>1. rname \in Rules
      BY <1>9 DEF FinalizerRemoved, TypeOK, RuleReconcilerTypeOK
    <2>2. QED
      BY <1>2, <1>9, <2>1 DEF FinalizerRemoved, RuleOrNull
  <1>10. CASE FinalizerAdded
    <2> PICK r \in Rules : r = rname
      BY <1>10 DEF FinalizerAdded, TypeOK, RuleReconcilerTypeOK
    <2> DEFINE rule == [rrule EXCEPT !.finalizer = TRUE]
    <2>1. rrule \in Rule
      BY <1>10 DEF FinalizerAdded, TypeOK, RuleReconcilerTypeOK, RuleOrNull
    <2>2. rule \in Rule /\ rule.spec = rrule.spec
      BY <2>1 DEF Rule
    <2>3. rule \in RuleOrNull /\ rule # Null
      BY <2>2, NullAssumption DEF RuleOrNull
    <2>4. WriteRule(r, rule) /\ UNCHANGED ruleStore
      BY <1>10 DEF FinalizerAdded
    <2>5. apiRule[r] = rrule /\ RuleFresh(r)
      BY <1>10 DEF FinalizerAdded
    <2> HIDE DEF rule
    <2>6. /\ apiRule'[r] = rule
          /\ Versions(r)' = Versions(r) \union {rule}
          /\ \A q \in Rules \ {r} : apiRule'[q] = apiRule[q] /\ Versions(q)' = Versions(q)
      BY <1>1, <2>1, <2>3, <2>4, VersionsWritten
    <2>7. Versions(r) = {rrule} /\ rrule # Null
      BY <2>1, <2>5, VersionsFresh, NullAssumption
    <2>8. \A q \in Rules \ {r} : Guarded(q)' <=> Guarded(q)
      BY <2>6 DEF Guarded
    <2>9. GuardedShown'
      BY <1>1, <2>1, <2>2, <2>3, <2>6, <2>7, <2>8 DEF GuardedShown
    <2>10. ASSUME NEW q \in Rules \ {r}, Guarded(q)
           PROVE  /\ ~Conflicting(rrule.spec, apiRule[q].spec)
                  /\ ~Conflicting(apiRule[q].spec, rrule.spec)
      <3>1. TaintConflicts(ruleStore, r, rrule.spec, TRUE) = {}
        BY <1>10 DEF FinalizerAdded, MayAdmit, ConflictsChecked, validateNodeReadinessRule,
                     validateTaintConflicts
      <3>2. ruleStore[q] # Null /\ ruleStore[q].spec = apiRule[q].spec
        BY <1>1, <2>10 DEF GuardedShown, Versions
      <3>3. ~(/\ ruleStore[q].spec.taint = rrule.spec.taint
              /\ nodSelectorsOverlap(rrule.spec.nodeSelector, ruleStore[q].spec.nodeSelector))
        BY <2>10, <3>1, <3>2, Zenon DEF TaintConflicts
      <3>4. ASSUME NEW a, NEW b
            PROVE  nodSelectorsOverlap(a, b) <=> nodSelectorsOverlap(b, a)
        BY DEF nodSelectorsOverlap
      <3>5. QED
        BY <3>2, <3>3, <3>4 DEF Conflicting
    <2>11. GuardedDisjoint'
      <3> SUFFICES ASSUME NEW a \in Rules, NEW b \in Rules, a # b, Guarded(a)', Guarded(b)'
                   PROVE  ~Conflicting(apiRule'[a].spec, apiRule'[b].spec)
        BY DEF GuardedDisjoint, Conflicting
      <3>1. CASE a # r /\ b # r
        BY <1>1, <2>6, <2>8, <3>1 DEF GuardedDisjoint
      <3>2. CASE a = r
        BY <2>2, <2>6, <2>8, <2>10, <3>2
      <3>3. CASE b = r
        BY <2>2, <2>6, <2>8, <2>10, <3>3
      <3>4. QED
        BY <3>1, <3>2, <3>3
    <2>12. \A q \in Rules : Guarded(q) => apiRule'[q] # Null /\ apiRule'[q].spec = apiRule[q].spec
      BY <2>1, <2>2, <2>3, <2>5, <2>6 DEF Guarded
    <2>13. QED
      BY <2>9, <2>11, <2>12
  <1>11. ASSUME NEW r \in Rules, DeliverRule(r)
         PROVE  Goal
    BY <1>1, <1>3, <1>11, VersionsDelivered
  <1>12. CASE Crash
    <2>1. \A q \in Rules : apiRule' = apiRule /\ Versions(q)' = {apiRule[q]}
      BY <1>12, VersionsListed
    <2>2. UNCHANGED apiRule
      BY <1>12 DEF Crash
    <2>3. QED
      BY <1>3, <2>1, <2>2
  <1>13. QED
    BY <1>4, <1>5, <1>6, <1>7, <1>8, <1>9, <1>10, <1>11, <1>12 DEF RuleObjectStep
\* The copies stay current.
LEMMA ConflictCopies ==
    ASSUME ConflictsChecked, TypeOK, RuleInv, ConflictInv, RuleObjectStep, RuleWorkerStep
    PROVE  CopiesCurrent'
  <1>1. \A r \in Rules :
           Guarded(r) => \/ apiRule'[r] # Null /\ apiRule'[r].spec = apiRule[r].spec
                         \/ FinalizerRemoved /\ r = rname
    BY ConflictObjects
  <1>2. \A r \in Rules : ruleCache[r] # Null => Guarded(r) \/ (rpc = "uncache" /\ rname = r)
    BY DEF RuleInv, EnforcedRulesGuarded, Guarded
  <1>3. rpc \in {"refresh"} \union ProcessSteps => rname \in Rules /\ Guarded(rname)
    BY NullAssumption DEF RuleInv, StepsGuarded, TypeOK, RuleReconcilerTypeOK, ProcessSteps
  <1>4. CopiesCurrent
    BY DEF ConflictInv
  <1>5. ASSUME NEW r \in Rules, Guarded(r), NEW version \in Versions(r)
        PROVE  version # Null /\ version.spec = apiRule[r].spec
    BY <1>5 DEF ConflictInv, GuardedShown
  <1>6. CASE FinalizerRemoved
    <2>1. /\ rpc = "removeFinalizer" /\ rpc' = "uncache" /\ rname' = rname
          /\ UNCHANGED ruleCache
      BY <1>6 DEF FinalizerRemoved
    <2>2. QED
      BY <1>1, <1>2, <1>4, <2>1 DEF CopiesCurrent, ProcessSteps
  <1>7. CASE ~FinalizerRemoved /\ UNCHANGED ruleCache
    <2>1. ASSUME NEW r \in Rules, ruleCache[r] # Null, ~(rpc = "uncache" /\ rname = r)
          PROVE  ruleCache'[r] = apiRule'[r].spec
      BY <1>1, <1>2, <1>4, <1>7, <2>1 DEF CopiesCurrent
    <2>2. (rpc = "uncache" => rpc' = "uncache" /\ rname' = rname) \/ RuleUncache \/ Crash
      BY DEF RuleWorkerStep, RuleGet, RuleRefresh, RuleUpdateCache, Moves, ruleWork
    <2>3. ~Crash \/ \A r \in Rules : ruleCache'[r] = Null
      BY DEF Crash, NoRules
    <2>4. RuleUncache => ruleCache'[rname] = Null
      BY DEF RuleUncache, removeRuleFromCache, TypeOK, RuleCacheTypeOK, RuleReconcilerTypeOK
    <2>5. \A r \in Rules :
             ruleCache'[r] # Null => (rpc' = "uncache" /\ rname' = r) \/ ruleCache'[r] = apiRule'[r].spec
      BY <1>7, <2>1, <2>2, <2>3, <2>4
    <2>6. rpc' \in ProcessSteps => rrule'.spec = apiRule'[rname'].spec
      <3>1. CASE UNCHANGED ruleWork \/ (<<rpc, rpc'>> \in Moves /\ UNCHANGED <<rname, rrule, ruleCache>>)
        <4>1. rpc' \in ProcessSteps => rpc \in ProcessSteps
          BY <3>1 DEF ruleWork, Moves, ProcessSteps
        <4>2. UNCHANGED <<rname, rrule>>
          BY <3>1 DEF ruleWork
        <4>3. QED
          BY <1>1, <1>3, <1>4, <1>7, <4>1, <4>2 DEF CopiesCurrent
      <3>2. ASSUME NEW r \in Rules, RuleGet(r), rpc' \in ProcessSteps
            PROVE  rrule'.spec = apiRule'[rname'].spec
        <4>1. rname' = r /\ rrule' = ruleStore[r] /\ UNCHANGED apiRule
          BY <3>2 DEF RuleGet, ProcessSteps, ruleReconcilerVars
        <4>2. Guarded(r)
          <5>1. rpc' = StepAfterGet(ruleStore[r]) /\ ruleStore[r] # Null
            BY <3>2 DEF RuleGet, ProcessSteps, ruleReconcilerVars
          <5>2. ruleStore[r] \in Rule
            BY <5>1 DEF TypeOK, ClusterTypeOK, RuleOrNull
          <5>3. Vouches(ruleStore[r])
            BY <3>2, <5>1, <5>2 DEF StepAfterGet, ProcessSteps, Vouches, Rule
          <5>4. QED
            BY <5>3 DEF RuleInv, VersionsVouched
        <4>3. QED
          BY <1>5, <4>1, <4>2 DEF Versions
      <3>3. CASE RuleReturn \/ RuleUncache \/ Crash
        BY <3>3 DEF RuleUncache, RuleDone, RuleReturn, Crash, ProcessSteps
      <3>4. CASE RuleRefresh
        <4>1. rpc = "refresh" /\ rname' = rname /\ rrule' = ruleStore[rname] /\ UNCHANGED apiRule
          BY <3>4 DEF RuleRefresh, rulesKept
        <4>2. QED
          BY <1>3, <1>5, <4>1 DEF Versions
      <3>5. CASE RuleUpdateCache
        BY <1>1, <1>3, <1>4, <1>7, <3>5 DEF RuleUpdateCache, RuleStepTo, CopiesCurrent, ProcessSteps
      <3>6. QED
        BY <3>1, <3>2, <3>3, <3>4, <3>5 DEF RuleWorkerStep
    <2>7. QED
      BY <2>5, <2>6 DEF CopiesCurrent
  <1>8. CASE ~FinalizerRemoved /\ ~UNCHANGED ruleCache
    <2>1. \/ \E r \in Rules : RuleGet(r) /\ removeRuleFromCache(r) /\ UNCHANGED ruleReconcilerVars
          \/ RuleUncache
          \/ RuleUpdateCache
          \/ Crash
      BY <1>8 DEF RuleWorkerStep, RuleGet, RuleRefresh, ruleWork
    <2>2. ASSUME NEW r \in Rules, RuleGet(r), removeRuleFromCache(r), UNCHANGED ruleReconcilerVars
          PROVE  CopiesCurrent'
      <3>1. /\ rpc = "idle" /\ UNCHANGED <<apiRule, rpc, rname, rrule>>
            /\ \A q \in Rules : ruleCache'[q] = IF q = r THEN Null ELSE ruleCache[q]
        BY <2>2 DEF RuleGet, removeRuleFromCache, ruleReconcilerVars, TypeOK, RuleCacheTypeOK
      <3>2. QED
        BY <1>4, <3>1 DEF CopiesCurrent, ProcessSteps
    <2>3. CASE RuleUncache
      <3>1. /\ rpc = "uncache" /\ rpc' = "idle" /\ UNCHANGED apiRule
            /\ \A q \in Rules : ruleCache'[q] = IF q = rname THEN Null ELSE ruleCache[q]
        BY <2>3 DEF RuleUncache, RuleDone, RuleReturn, removeRuleFromCache, rulesKept, TypeOK,
                    RuleCacheTypeOK
      <3>2. QED
        BY <1>4, <3>1 DEF CopiesCurrent, ProcessSteps
    <2>4. CASE RuleUpdateCache
      <3>1. /\ rpc = "cache" /\ UNCHANGED <<apiRule, rname, rrule>>
            /\ \A q \in Rules : ruleCache'[q] = IF q = rname THEN rrule.spec ELSE ruleCache[q]
        BY <2>4 DEF RuleUpdateCache, RuleStepTo, updateRuleCache, rulesKept, TypeOK, RuleCacheTypeOK
      <3>2. QED
        BY <1>4, <3>1 DEF CopiesCurrent, ProcessSteps
    <2>5. CASE Crash
      BY <2>5 DEF Crash, RuleReturn, NoRules, CopiesCurrent, ProcessSteps
    <2>6. QED
      BY <2>1, <2>2, <2>3, <2>4, <2>5
  <1>9. QED
    BY <1>6, <1>7, <1>8

\* A rule that comes into the cache conflicts with none that is there.
LEMMA ConflictCache ==
    ASSUME ConflictsChecked, TypeOK, RuleInv, ConflictInv, RuleWorkerStep
    PROVE  NoConflictEnforced'
  <1> DEFINE Apart(a, b) == a.taint # b.taint \/ a.nodeSelector # b.nodeSelector
  <1>1. ASSUME NEW r \in Rules, NEW q \in Rules, r # q, ruleCache[r] # Null, ruleCache[q] # Null
        PROVE  Apart(ruleCache[r], ruleCache[q])
    BY <1>1 DEF ConflictInv, ConflictsChecked, NoConflictEnforced
  <1>2. ASSUME \A r \in Rules : ruleCache'[r] \in {ruleCache[r], Null}
        PROVE  NoConflictEnforced'
    <2> SUFFICES ASSUME NEW r \in Rules, NEW q \in Rules, r # q,
                        ruleCache'[r] # Null, ruleCache'[q] # Null
                 PROVE  Apart(ruleCache'[r], ruleCache'[q])
      BY DEF NoConflictEnforced
    <2>1. ruleCache'[r] = ruleCache[r] /\ ruleCache'[q] = ruleCache[q]
      BY <1>2
    <2>2. QED
      BY <1>1, <2>1
  <1>3. ruleCache \in [Rules -> SpecOrNull]
    BY DEF TypeOK, RuleCacheTypeOK
  <1>4. CASE RuleUpdateCache
    <2>1. /\ rpc = "cache"
          /\ \A q \in Rules : ruleCache'[q] = IF q = rname THEN rrule.spec ELSE ruleCache[q]
      BY <1>3, <1>4 DEF RuleUpdateCache, updateRuleCache
    <2>2. Guarded(rname) /\ rname \in Rules /\ rrule.spec = apiRule[rname].spec
      BY <2>1 DEF RuleInv, StepsGuarded, ConflictInv, CopiesCurrent, ProcessSteps, TypeOK,
                  RuleReconcilerTypeOK
    <2>3. ASSUME NEW a, NEW b, ~Conflicting(a, b)
          PROVE  Apart(a, b) /\ Apart(b, a)
      BY <2>3 DEF Conflicting, nodSelectorsOverlap
    <2>4. ASSUME NEW q \in Rules \ {rname}, ruleCache[q] # Null
          PROVE  Apart(rrule.spec, ruleCache[q]) /\ Apart(ruleCache[q], rrule.spec)
      <3>1. Guarded(q) /\ ruleCache[q] = apiRule[q].spec
        BY <2>1, <2>4 DEF RuleInv, EnforcedRulesGuarded, Guarded, ConflictInv, CopiesCurrent
      <3>2. ~Conflicting(rrule.spec, ruleCache[q])
        BY <2>2, <2>4, <3>1 DEF ConflictInv, GuardedDisjoint
      <3>3. QED
        BY <2>3, <3>2
    <2> SUFFICES ASSUME NEW r \in Rules, NEW q \in Rules, r # q,
                        ruleCache'[r] # Null, ruleCache'[q] # Null
                 PROVE  Apart(ruleCache'[r], ruleCache'[q])
      BY DEF NoConflictEnforced
    <2> HIDE DEF Apart
    <2>5. CASE r = rname
      BY <2>1, <2>4, <2>5
    <2>6. CASE q = rname
      BY <2>1, <2>4, <2>6
    <2>7. CASE r # rname /\ q # rname
      BY <1>1, <2>1, <2>7
    <2>8. QED
      BY <2>5, <2>6, <2>7
  <1>5. CASE ~RuleUpdateCache
    <2>1. \/ UNCHANGED ruleCache
          \/ \E r \in Rules : removeRuleFromCache(r)
          \/ rname \in Rules /\ removeRuleFromCache(rname)
          \/ Crash
      BY <1>5 DEF RuleWorkerStep, ruleWork, RuleGet, RuleUncache, RuleRefresh, TypeOK,
                  RuleReconcilerTypeOK
    <2>2. \A r \in Rules : ruleCache'[r] \in {ruleCache[r], Null}
      BY <1>3, <2>1 DEF removeRuleFromCache, Crash, NoRules
    <2>3. QED
      BY <1>2, <2>2
  <1>6. QED
    BY <1>4, <1>5

\* With a working webhook and without edits, conflicting rules that were created at
\* the same time, each before the informer showed the other, are still never
\* enforced together: adding the finalizer is a second check, against the very
\* copies that the rule reconciler acts on.
THEOREM ConflictsNeverEnforced ==
    ASSUME ConflictsChecked
    PROVE  SafeSpec => []NoConflictEnforced
  <1>1. Init => ConflictInv
    <2> SUFFICES ASSUME Init
                 PROVE  ConflictInv
      OBVIOUS
    <2>1. apiRule \in InitRules /\ ruleStore = apiRule /\ rpc = "idle" /\ quota = Quota
      BY DEF Init, ClusterInit, RuleReconcilerInit
    <2>2. \A r \in Rules : ruleWatch[r] = <<>> /\ ruleCache[r] = Null
      BY DEF Init, ClusterInit, NoRules
    <2>3. \A r \in Rules : Versions(r) = {apiRule[r]}
      <3>1. {<<>>[i] : i \in DOMAIN <<>>} = {}
        OBVIOUS
      <3>2. QED
        BY <2>1, <2>2, <3>1 DEF Versions
    <2>4. GuardedShown
      BY <2>3 DEF GuardedShown, Guarded
    <2>5. GuardedDisjoint
      BY <2>1 DEF GuardedDisjoint, Guarded, ConflictsChecked
    <2>6. CopiesCurrent /\ NoConflictEnforced
      BY <2>1, <2>2 DEF CopiesCurrent, NoConflictEnforced, ProcessSteps
    <2>7. QED
      BY <2>1, <2>4, <2>5, <2>6 DEF ConflictInv, ConflictsChecked
  <1>2. IInv /\ ConflictInv /\ [Next]_vars => ConflictInv'
    <2> SUFFICES ASSUME IInv, ConflictInv, [Next]_vars
                 PROVE  ConflictInv'
      OBVIOUS
    <2>1. TypeOK /\ RuleInv
      BY DEF IInv
    <2>2. RuleObjectStep /\ RuleWorkerStep
      BY <2>1, NextIsRuleStep
    <2>3. quota'["edit"] = 0
      BY <2>1, SpentStaysSpent DEF ConflictInv, EventKinds
    <2>4. QED
      BY <2>1, <2>2, <2>3, ConflictObjects, ConflictCopies, ConflictCache DEF ConflictInv
  <1>3. ConflictInv => NoConflictEnforced
    BY DEF ConflictInv
  <1>4. QED
    BY <1>1, <1>2, <1>3, Inductive, PTL DEF SafeSpec
=============================================================================
