----------------------------- MODULE RuleStatus -----------------------------
(***************************************************************************)
(* The content of NodeReadinessRule.status. Both reconcilers change it in  *)
(* memory and write it back, each from its own copy: every step of         *)
(* ReadinessSystem is taken over here, together with what it does to the   *)
(* statuses.                                                               *)
(*                                                                         *)
(* The lists of a status are keyed by node name, so that they are sets and *)
(* functions here; times, reasons and messages are left out. statusWatch   *)
(* and statusStore are the status parts of the versions in ruleWatch and   *)
(* ruleStore.                                                              *)
(***************************************************************************)
EXTENDS ReadinessSystem

VARIABLES
    apiStatus,      \* the statuses in the API server
    statusWatch,
    statusStore,
    cachedStatus,   \* in the objects of the rule cache
    nstatus,        \* in the objects the node worker took from the cache
    nshared,        \* those of them that the cache still has
    rstatus,        \* in the rule worker's copy of its rule
    rgone           \* the nodes that the list of a pruning did not have

apiStatusVars == <<apiStatus, statusWatch, statusStore>>
nodeStatusVars == <<nstatus, nshared>>
statusVars == <<apiStatusVars, cachedStatus, nodeStatusVars, rstatus, rgone>>
allVars == <<vars, statusVars>>

ConditionEvaluationResult ==
    [currentStatus  : Status,
     requiredStatus : Status,
     satisfied      : BOOLEAN,
     missing        : BOOLEAN]

NodeEvaluation ==
    [conditionResults : UNION {[S -> ConditionEvaluationResult] : S \in SUBSET CondTypes},
     taintStatus      : {"Present", "Absent"}]

\* Every count is of nodes the rule applies to, and no node counts as both an
\* addition and a removal.
DryRunResults ==
    {d \in [affectedNodes : Nat, taintsToAdd : Nat, taintsToRemove : Nat, riskyOperations : Nat] :
        /\ d.taintsToAdd + d.taintsToRemove <= d.affectedNodes
        /\ d.riskyOperations <= d.affectedNodes}

ASSUME EntriesAssumption == Null \notin NodeEvaluation /\ Null \notin DryRunResults

NodeReadinessRuleStatus ==
    [observedGeneration : Nat,
     appliedNodes       : SUBSET Nodes,
     failedNodes        : SUBSET Nodes,
     nodeEvaluations    : [Nodes -> NodeEvaluation \union {Null}],
     dryRunResults      : DryRunResults \union {Null}]

EmptyStatus ==
    [observedGeneration |-> 0, appliedNodes |-> {}, failedNodes |-> {},
     nodeEvaluations |-> [n \in Nodes |-> Null], dryRunResults |-> Null]

EmptyStatuses == [r \in Rules |-> EmptyStatus]

\* Whatever the steps of the two workers, a version has a status, and only a rule
\* that exists has one that says something.
StatusTypeOK ==
    /\ \A f \in {apiStatus, statusStore, cachedStatus, nstatus} :
          f \in [Rules -> NodeReadinessRuleStatus]
    /\ statusWatch \in [Rules -> Seq(NodeReadinessRuleStatus)]
    /\ nshared \subseteq Rules
    /\ rstatus \in NodeReadinessRuleStatus
    /\ rgone \subseteq Nodes
    /\ \A r \in Rules :
          /\ Len(statusWatch[r]) = Len(ruleWatch[r])
          /\ apiRule[r] = Null => apiStatus[r] = EmptyStatus

\* The rules have not been reconciled yet.
StatusInit ==
    /\ Init
    /\ apiStatus = EmptyStatuses
    /\ statusWatch = [r \in Rules |-> <<>>]
    /\ statusStore = EmptyStatuses
    /\ cachedStatus = EmptyStatuses
    /\ nstatus = EmptyStatuses
    /\ nshared = {}
    /\ rstatus = EmptyStatus
    /\ rgone = {}

-----------------------------------------------------------------------------
(* Entries *)

conditionResults(spec, node) ==
    [type \in DOMAIN spec.conditions |->
        LET currentStatus == getConditionStatus(node, type)
        IN  [currentStatus  |-> currentStatus,
             requiredStatus |-> spec.conditions[type],
             satisfied      |-> currentStatus = spec.conditions[type],
             missing        |-> currentStatus = "Unknown"]]

\* Mutant: looks at the taint before the action.
EvaluationBeforeAction(spec, node) ==
    [conditionResults |-> conditionResults(spec, node),
     taintStatus      |-> IF hasTaintBySpec(node, spec) THEN "Present" ELSE "Absent"]

\* What evaluateRuleForNode records of a copy of a node once its action, if any,
\* has succeeded.
Evaluation(spec, node) ==
    [conditionResults |-> conditionResults(spec, node),
     taintStatus      |-> IF spec.taint \in TaintsAfter(spec, node) THEN "Present" ELSE "Absent"]

updateNodeEvaluationStatus(status, n, evaluation) ==
    [status EXCEPT !.nodeEvaluations[n] = evaluation]

\* Mutant: a failure is not recorded.
recordNodeFailureForgotten(status, n) == status

\* Nothing but this replaces a failure; a later success does not clear it.
recordNodeFailure(status, n) == [status EXCEPT !.failedNodes = @ \union {n}]

\* What a status says after a patch of the evaluation of node n has ended.
AfterPatch(status, n, spec, node) ==
    IF apiNode[n] = Null \/ quota' # quota
    THEN recordNodeFailure(status, n)
    ELSE updateNodeEvaluationStatus(status, n, Evaluation(spec, node))

\* Mutant: counts what would happen to the nodes the rule does not apply to.
dryRunResultsOfAll(spec) ==
    LET nodes == Existing(nodeStore)
        Would(action) == {n \in nodes : TaintAction(spec, nodeStore[n]) = action}
    IN  [affectedNodes   |-> Cardinality({n \in nodes : ruleAppliesTo(spec, nodeStore[n])}),
         taintsToAdd     |-> Cardinality(Would("add")),
         taintsToRemove  |-> Cardinality(Would("remove")),
         riskyOperations |-> 0]

dryRunResults(spec) ==
    LET affected == {n \in Existing(nodeStore) : ruleAppliesTo(spec, nodeStore[n])}
        Would(action) == {n \in affected : TaintAction(spec, nodeStore[n]) = action}
        risky == {n \in affected :
                    \E type \in DOMAIN spec.conditions :
                        getConditionStatus(nodeStore[n], type) = "Unknown"}
    IN  [affectedNodes   |-> Cardinality(affected),
         taintsToAdd     |-> Cardinality(Would("add")),
         taintsToRemove  |-> Cardinality(Would("remove")),
         riskyOperations |-> Cardinality(risky)]

-----------------------------------------------------------------------------
(* The API server *)

\* The status subresource: a write of status, which makes a version of the rule
\* unless it changes nothing.
WriteStatus(r, status) ==
    /\ ruleWatch' = ruleWatch => status = apiStatus[r]
    /\ apiStatus' = [apiStatus EXCEPT ![r] = status]
    /\ statusWatch' = IF ruleWatch' = ruleWatch THEN statusWatch
                      ELSE [statusWatch EXCEPT ![r] = Append(@, status)]
    /\ UNCHANGED statusStore

\* Any other write leaves the status alone; a new object has none.
KeepStatuses ==
    /\ apiStatus' = [r \in Rules |-> IF apiRule[r] = Null \/ apiRule'[r] = Null
                                     THEN EmptyStatus ELSE apiStatus[r]]
    /\ statusWatch' = [r \in Rules |-> IF ruleWatch'[r] = ruleWatch[r] THEN statusWatch[r]
                                       ELSE Append(statusWatch[r], apiStatus'[r])]
    /\ UNCHANGED statusStore

StatusEnvironment ==
    /\ EnvironmentNext
    /\ UNCHANGED <<ruleCache, nodeReconcilerVars, ruleReconcilerVars>>
    /\ KeepStatuses
    /\ UNCHANGED <<cachedStatus, nodeStatusVars, rstatus, rgone>>

StatusDeliverNode(n) ==
    /\ DeliverNode(n)
    /\ UNCHANGED <<ruleCache, nodeReconcilerVars, ruleReconcilerVars, statusVars>>

StatusDeliverRule(r) ==
    /\ DeliverRule(r)
    /\ UNCHANGED <<ruleCache, nodeReconcilerVars, ruleReconcilerVars>>
    /\ statusWatch' = [statusWatch EXCEPT ![r] = Tail(@)]
    /\ statusStore' = [statusStore EXCEPT ![r] = Head(statusWatch[r])]
    /\ UNCHANGED <<apiStatus, cachedStatus, nodeStatusVars, rstatus, rgone>>

StatusCrash ==
    /\ Crash
    /\ statusWatch' = [r \in Rules |-> <<>>]
    /\ statusStore' = apiStatus
    /\ cachedStatus' = EmptyStatuses
    /\ nstatus' = EmptyStatuses
    /\ nshared' = {}
    /\ rstatus' = EmptyStatus
    /\ rgone' = {}
    /\ UNCHANGED apiStatus

-----------------------------------------------------------------------------
(* The node reconciler *)

\* It works on the very objects of the cache.
NodeTakeRules ==
    /\ getApplicableRulesForNode
    /\ nshared' = Existing(nrules')
    /\ nstatus' = [r \in Rules |-> IF r \in nshared' THEN cachedStatus[r] ELSE EmptyStatus]
    /\ UNCHANGED <<apiStatusVars, cachedStatus, rstatus, rgone>>

\* It is done with rule r.
NodeDrop(r) ==
    /\ nshared' = nshared \ {r}
    /\ nstatus' = [nstatus EXCEPT ![r] = EmptyStatus]

NodeSkipOrPick(r) ==
    /\ NodePickRule(r)
    /\ IF nrules'[r] = Null THEN NodeDrop(r) ELSE UNCHANGED nodeStatusVars
    /\ UNCHANGED <<apiStatusVars, cachedStatus, rstatus, rgone>>

NodeRecord ==
    /\ NodeEvaluate
    /\ nstatus' = [nstatus EXCEPT ![ncur] =
            IF TaintAction(nrules[ncur], nnode) = "none"
            THEN updateNodeEvaluationStatus(@, nname, Evaluation(nrules[ncur], nnode))
            ELSE AfterPatch(@, nname, nrules[ncur], nnode)]
    /\ cachedStatus' = IF ncur \in nshared
                       THEN [cachedStatus EXCEPT ![ncur] = nstatus'[ncur]] ELSE cachedStatus
    /\ UNCHANGED <<apiStatusVars, nshared, rstatus, rgone>>

\* Mutant: all evaluations are taken from the cached rule, whichever node is at hand.
PersistedStatusOfAll(latest, mine, n) ==
    [latest EXCEPT !.nodeEvaluations = mine.nodeEvaluations,
                   !.failedNodes = (@ \ {n}) \union (mine.failedNodes \intersect {n})]

\* The latest status with the entries of this one node replaced.
PersistedStatus(latest, mine, n) ==
    [latest EXCEPT !.nodeEvaluations[n] = mine.nodeEvaluations[n],
                   !.failedNodes = (@ \ {n}) \union (mine.failedNodes \intersect {n})]

\* A node without an entry in the latest status gets none, and the schema refuses
\* the empty entry of a node that has never been evaluated successfully.
NodePersist ==
    LET latest == statusStore[ncur]
        mine == nstatus[ncur]
    IN  /\ NodePersistStatus
        /\ NodeDrop(ncur)
        /\ \/ /\ latest.nodeEvaluations[nname] # Null
              /\ mine.nodeEvaluations[nname] # Null
              /\ ruleStore[ncur] # Null /\ RuleFresh(ncur)
              /\ WriteStatus(ncur, PersistedStatus(latest, mine, nname))
           \/ ruleWatch' = ruleWatch /\ UNCHANGED apiStatusVars
        /\ UNCHANGED <<cachedStatus, rstatus, rgone>>

StatusNodeProcess ==
    /\ UNCHANGED ruleReconcilerVars
    /\ \/ \E n \in Nodes : NodeGet(n) /\ UNCHANGED statusVars
       \/ NodeTakeRules
       \/ \E r \in Rules : NodeSkipOrPick(r)
       \/ NodeRecord
       \/ NodeMark /\ UNCHANGED statusVars
       \/ NodePersist

-----------------------------------------------------------------------------
(* The rule reconciler *)

\* A new object, or none, takes the place of the one in the cache.
Recache(r, status) ==
    /\ cachedStatus' = [cachedStatus EXCEPT ![r] = status]
    /\ nshared' = nshared \ {r}
    /\ UNCHANGED nstatus

RuleFetch(r) ==
    /\ RuleGet(r)
    /\ IF ruleStore[r] = Null
       THEN Recache(r, EmptyStatus) /\ UNCHANGED rstatus
       ELSE rstatus' = statusStore[r] /\ UNCHANGED <<cachedStatus, nodeStatusVars>>
    /\ UNCHANGED apiStatusVars

RuleUncacheStatus ==
    /\ RuleUncache
    /\ Recache(rname, EmptyStatus)
    /\ rstatus' = EmptyStatus
    /\ UNCHANGED apiStatusVars

RuleFetchAgain ==
    /\ RuleRefresh
    /\ rstatus' = statusStore[rname]
    /\ UNCHANGED <<apiStatusVars, cachedStatus, nodeStatusVars>>

RuleFinalizerUpdate ==
    /\ RuleAddFinalizer \/ RuleRemoveFinalizer
    /\ KeepStatuses
    /\ rstatus' = IF rpc' = "idle" THEN EmptyStatus ELSE rstatus
    /\ UNCHANGED <<cachedStatus, nodeStatusVars>>

\* The steps that read and write no status, except that Reconcile may return.
RuleOtherStep ==
    /\ cleanupTaintsForRule \/ RuleSelector \/ cleanupNodesAfterSelectorChange \/ RuleMark
    /\ rstatus' = IF rpc' = "idle" THEN EmptyStatus ELSE rstatus
    /\ UNCHANGED <<apiStatusVars, cachedStatus, nodeStatusVars>>

\* Earlier dry-run results are cleared after the rule has been cached.
RuleCacheStatus ==
    /\ RuleUpdateCache
    /\ Recache(rname, rstatus)
    /\ rstatus' = IF rrule.spec.dryRun THEN rstatus
                  ELSE [rstatus EXCEPT !.dryRunResults = Null]
    /\ UNCHANGED apiStatusVars

RuleDryRun ==
    /\ processDryRun
    /\ rstatus' = [rstatus EXCEPT !.dryRunResults = dryRunResults(rrule.spec)]
    /\ UNCHANGED <<apiStatusVars, cachedStatus, nodeStatusVars>>

\* The nodes the rule applies to; those that are as they should be are recorded
\* without a patch. (AppliedNodes is assigned after the loop, from this list.)
RuleList ==
    LET applied == {n \in Existing(nodeStore) : ruleAppliesTo(rrule.spec, nodeStore[n])}
    IN  /\ RuleListNodes
        /\ rstatus' = [rstatus EXCEPT
                !.appliedNodes = applied,
                !.nodeEvaluations = [n \in Nodes |->
                    IF n \in applied /\ rnodes'[n] = Null
                    THEN Evaluation(rrule.spec, nodeStore[n]) ELSE @[n]]]
        /\ UNCHANGED <<apiStatusVars, cachedStatus, nodeStatusVars>>

RuleRecord ==
    /\ RuleEvaluate
    /\ \E n \in Nodes :
          /\ rnodes'[n] # rnodes[n]
          /\ rstatus' = AfterPatch(rstatus, n, rrule.spec, rnodes[n])
    /\ UNCHANGED <<apiStatusVars, cachedStatus, nodeStatusVars>>

\* Mutant: takes the generation of the latest version of the rule.
RuleObserveLatest ==
    /\ RuleEvaluateEnd
    /\ rstatus' = [rstatus EXCEPT !.observedGeneration = ruleStore[rname].generation]
    /\ UNCHANGED <<apiStatusVars, cachedStatus, nodeStatusVars>>

RuleObserve ==
    /\ RuleEvaluateEnd
    /\ rstatus' = [rstatus EXCEPT !.observedGeneration = rrule.generation]
    /\ UNCHANGED <<apiStatusVars, cachedStatus, nodeStatusVars>>

\* updateRuleStatus replaces every field of the latest status.
RuleWriteStatus ==
    /\ updateRuleStatus
    /\ \/ rpc' = "prune" /\ WriteStatus(rname, rstatus) /\ UNCHANGED rstatus
       \/ rpc' = "idle" /\ UNCHANGED apiStatusVars /\ rstatus' = EmptyStatus
    /\ UNCHANGED <<cachedStatus, nodeStatusVars>>

Departed(status, gone) == {n \in gone : status.nodeEvaluations[n] # Null}

Pruned(status, gone) ==
    [status EXCEPT !.nodeEvaluations =
        [n \in Nodes |-> IF n \in gone THEN Null ELSE @[n]]]

\* cleanupDeletedNodes lists the nodes; the worker's copy decides whether there is
\* something to prune.
RulePruneList ==
    LET gone == Nodes \ Existing(nodeStore)
    IN  /\ rpc = "prune"
        /\ rgone = {}
        /\ Departed(rstatus, gone) # {}
        /\ rgone' = gone
        /\ UNCHANGED <<vars, apiStatusVars, cachedStatus, nodeStatusVars, rstatus>>

\* It prunes the latest status, by the list of before.
RulePrune ==
    LET fresh == statusStore[rname]
        prunes == Departed(fresh, rgone) # {}
        accepted == RuleFresh(rname) /\ quota' = quota
    IN  /\ cleanupDeletedNodes
        /\ rgone = {} => Departed(rstatus, Nodes \ Existing(nodeStore)) = {}
        /\ \/ /\ ~prunes
              /\ UNCHANGED <<ruleQueue, ruleWatch, quota, apiStatusVars>>
           \/ prunes /\ accepted /\ WriteStatus(rname, Pruned(fresh, rgone))
           \/ prunes /\ ~accepted /\ rname \in ruleQueue' /\ UNCHANGED apiStatusVars
        /\ rstatus' = EmptyStatus
        /\ UNCHANGED <<cachedStatus, nodeStatusVars>>

\* Only RulePrune has a list to forget.
StatusRuleProcess ==
    /\ UNCHANGED nodeReconcilerVars
    /\ rgone' = {}
    /\ \/ \E r \in Rules : RuleFetch(r)
       \/ RuleUncacheStatus
       \/ RuleFetchAgain
       \/ RuleFinalizerUpdate
       \/ RuleOtherStep
       \/ RuleCacheStatus
       \/ RuleDryRun
       \/ RuleList
       \/ RuleRecord
       \/ RuleObserve
       \/ RuleWriteStatus
       \/ RulePrune

-----------------------------------------------------------------------------
StatusNext ==
    \/ StatusEnvironment
    \/ \E n \in Nodes : StatusDeliverNode(n)
    \/ \E r \in Rules : StatusDeliverRule(r)
    \/ StatusNodeProcess
    \/ StatusRuleProcess
    \/ RulePruneList
    \/ StatusCrash
    \/ Rest /\ UNCHANGED statusVars

StatusSpec == StatusInit /\ [][StatusNext]_allVars

-----------------------------------------------------------------------------
(* What a reader of the status may rely on *)

\* The two workers overwrite each other's entries from copies of different age,
\* patches and status writes fail, and entries of departed nodes are pruned.
\* Still, a node that the rule is said to be applied to has an evaluation or is
\* listed as failed until the informer knows that the node has left.
AppliedNodesAccounted ==
    \A r \in Rules : \A n \in apiStatus[r].appliedNodes :
        \/ apiStatus[r].nodeEvaluations[n] # Null
        \/ n \in apiStatus[r].failedNodes
        \/ nodeStore[n] = Null

\* However old an entry, what it says of the conditions and of the taint fits
\* together: the taint is reported as what the conditions call for.
VerdictMatchesTaint ==
    \A r \in Rules, n \in Nodes :
        LET evaluation == apiStatus[r].nodeEvaluations[n]
        IN  evaluation # Null =>
                (evaluation.taintStatus = "Absent"
                 <=> \A type \in DOMAIN evaluation.conditionResults :
                        evaluation.conditionResults[type].satisfied)

\* observedGeneration never runs ahead: if it is the rule's generation, then the
\* node reconciler works with the rule's spec (or knows no rule after a restart),
\* also if the rule was edited while its nodes were processed.
ObservedIsEnforced ==
    \A r \in Rules :
        apiRule[r] # Null /\ apiStatus[r].observedGeneration = apiRule[r].generation
        => ruleCache[r] \in {apiRule[r].spec, Null}

\* "update only this specific node evaluation status": when the node reconciler
\* writes a status, from a cached rule of any age, nothing but the entries of its
\* node changes.
NodeStatusIsIsolated ==
    [][\A r \in Rules :
          npc = "persist" /\ npc' # "persist" /\ apiStatus'[r] # apiStatus[r] =>
            /\ ncur = r
            /\ \A n \in Nodes \ {nname} :
                  /\ apiStatus'[r].nodeEvaluations[n] = apiStatus[r].nodeEvaluations[n]
                  /\ n \in apiStatus'[r].failedNodes <=> n \in apiStatus[r].failedNodes
            /\ \A field \in {"observedGeneration", "appliedNodes", "dryRunResults"} :
                  apiStatus'[r][field] = apiStatus[r][field]]_<<npc, apiStatus>>

\* The status catches up with the spec although the two workers' writes conflict:
\* when there is nothing left to do, and nobody will look at the rule again, a rule
\* that is enforced has its generation observed and no dry-run results. A dry-run
\* rule has results, but never its own generation as the observed one, although
\* "observedGeneration reflects the generation of the most recently observed
\* NodeReadinessRule by the controller": processDryRun does not set it. A reader that waits for the observed generation
\* of a dry-run rule waits for ever.
StatusSettled ==
    Quiescent =>
        \A r \in Rules :
            apiRule[r] # Null =>
                IF apiRule[r].spec.dryRun
                THEN /\ apiStatus[r].dryRunResults # Null
                     /\ apiStatus[r].observedGeneration # apiRule[r].generation
                ELSE /\ apiStatus[r].dryRunResults = Null
                     /\ apiStatus[r].observedGeneration = apiRule[r].generation

-----------------------------------------------------------------------------
(* What the documentation says and the code does not do *)

\* "Comprehensive status tracking per rule and per node": when there is nothing
\* left to do, every node that a rule is enforced on has an evaluation in the
\* rule's status. processNodeAgainstAllRules appends the first evaluation of a node
\* to a copy of the rule that it then does not write.
EveryNodeEvaluated ==
    Quiescent =>
        \A n \in Nodes, r \in Rules :
            /\ apiNode[n] # Null
            /\ ruleCache[r] # Null
            /\ Enforces(r, ruleCache[r], apiNode[n])
            => apiStatus[r].nodeEvaluations[n] # Null
=============================================================================
