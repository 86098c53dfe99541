--------------------------- MODULE RuleReconciler ---------------------------
(***************************************************************************)
(* RuleReconciler.Reconcile, run by one worker (MaxConcurrentReconciles is *)
(* 1). Each read of an informer and each call to the API server is a step. *)
(* An error puts the rule back on the queue.                               *)
(***************************************************************************)
EXTENDS GateController

VARIABLES
    rpc,        \* where the worker is
    rname,      \* the rule it reconciles
    rrule,      \* its copy of the rule
    rnodes,     \* of the nodes it listed, the copies it has still to act on
    rcur,       \* the node whose completion it is marking
    rfailed     \* a removal of this cleanup failed

ruleReconcilerVars == <<rpc, rname, rrule, rnodes, rcur, rfailed>>

NoNodes == [n \in Nodes |-> Null]

DeletionSteps == {"cleanupList", "cleanup", "removeFinalizer", "uncache"}
FinalizerSteps == {"addFinalizer", "refresh"}
ProcessSteps == {"selector", "selectorCleanup", "cache", "dryRun", "list", "evaluate", "mark",
                 "status", "prune"}

RuleReconcilerTypeOK ==
    /\ rpc \in {"idle"} \union DeletionSteps \union FinalizerSteps \union ProcessSteps
    /\ rname \in Rules \union {Null}
    /\ rrule \in RuleOrNull
    /\ rnodes \in [Nodes -> NodeOrNull]
    /\ rcur \in Nodes \union {Null}
    /\ rfailed \in BOOLEAN
    /\ rpc # "idle" => rname # Null /\ rrule # Null
    /\ rpc = "mark" => rcur # Null

RuleReconcilerInit ==
    /\ rpc = "idle"
    /\ rname = Null
    /\ rrule = Null
    /\ rnodes = NoNodes
    /\ rcur = Null
    /\ rfailed = FALSE

nodeSideKept == <<nodesKept, nodeStore, nodeQueue>>

RuleStepTo(step) == rpc' = step /\ UNCHANGED <<rname, rrule>>
RuleLoopKept == <<rnodes, rcur, rfailed>>

\* Reconcile returns.
RuleReturn ==
    /\ rpc' = "idle"
    /\ rname' = Null
    /\ rrule' = Null
    /\ rnodes' = NoNodes
    /\ rcur' = Null
    /\ rfailed' = FALSE

\* Reconcile returns nil: nothing is requeued.
RuleDone == RuleReturn /\ UNCHANGED ruleQueue

\* Mutant: an error is swallowed.
RuleErrorSwallowed == RuleDone

\* Reconcile returns an error.
RuleError == RuleReturn /\ ruleQueue' = ruleQueue \union {rname}

-----------------------------------------------------------------------------
(* Fetching the rule *)

StepAfterGet(rule) ==
    CASE rule.deleting                       -> "cleanupList"
      [] ~rule.deleting /\ rule.finalizer   -> "selector"
      [] ~rule.deleting /\ ~rule.finalizer  -> "addFinalizer"

\* A rule that is gone leaves the cache. (A rule that is being deleted has the
\* finalizer, or the API server would have dropped it: no other finalizer is
\* modelled.)
RuleGet(r) ==
    /\ rpc = "idle"
    /\ r \in ruleQueue
    /\ ruleQueue' = ruleQueue \ {r}
    /\ LET rule == ruleStore[r]
       IN  \/ /\ rule = Null
              /\ removeRuleFromCache(r)
              /\ UNCHANGED <<held, ruleReconcilerVars>>
           \/ /\ rule # Null
              /\ rpc' = StepAfterGet(rule)
              /\ rname' = r
              /\ rrule' = rule
              /\ held' = IF RuleFresh(r) THEN r ELSE Null
              /\ UNCHANGED <<ruleCache, RuleLoopKept>>
    /\ UNCHANGED <<nodeSideKept, apiRule, ruleWatch, ruleStore, quota>>

-----------------------------------------------------------------------------
(* The loop of removeTaintBySpec calls that both cleanups are made of *)

\* Mutant: remembers only how the last removal ended.
CleanupStepLastOutcome(step) ==
    /\ rpc = step
    /\ \E n \in Nodes :
          /\ rnodes[n] # Null
          /\ rnodes' = [rnodes EXCEPT ![n] = Null]
          /\ \/ /\ PatchTaints(n, removeTaintBySpec(rnodes[n], rrule.spec))
                /\ rfailed' = FALSE
             \/ /\ PatchFails(n)
                /\ rfailed' = TRUE
    /\ UNCHANGED <<rpc, rname, rrule, rcur, nodeStore, nodeQueue, rulesKept, ruleStore,
                   ruleQueue, ruleCache>>

CleanupStep(step) ==
    /\ rpc = step
    /\ \E n \in Nodes :
          /\ rnodes[n] # Null
          /\ rnodes' = [rnodes EXCEPT ![n] = Null]
          /\ \/ /\ PatchTaints(n, removeTaintBySpec(rnodes[n], rrule.spec))
                /\ UNCHANGED rfailed
             \/ /\ PatchFails(n)
                /\ rfailed' = TRUE
    /\ UNCHANGED <<rpc, rname, rrule, rcur, nodeStore, nodeQueue, rulesKept, ruleStore,
                   ruleQueue, ruleCache>>

\* When the loop is over, any failure is an error of the whole cleanup.
CleanupEnd(step, next) ==
    /\ rpc = step
    /\ rnodes = NoNodes
    /\ \/ /\ rfailed
          /\ RuleError
       \/ /\ ~rfailed
          /\ RuleStepTo(next)
          /\ UNCHANGED <<RuleLoopKept, ruleQueue>>
    /\ UNCHANGED <<nodeSideKept, rulesKept, ruleStore, quota, ruleCache>>

-----------------------------------------------------------------------------
(* The Updates of the finalizer: they write the whole rule, through the CRD's *)
(* schema and the webhook, and a rule that changed since the Get is a conflict. *)

FinalizerUpdateOK ==
    /\ held = rname
    /\ EncodesSelector(rrule.spec.nodeSelector)
    /\ MayAdmit(ruleStore, rname, rrule.spec, TRUE)

FinalizerUpdateFails ==
    /\ \/ /\ \/ held # rname
             \/ ~EncodesSelector(rrule.spec.nodeSelector)
             \/ MayReject(ruleStore, rname, rrule.spec, TRUE)
          /\ UNCHANGED quota
       \/ Spend("fault")
    /\ RuleError
    /\ UNCHANGED rulesKept

-----------------------------------------------------------------------------
(* Deletion *)

\* The nodes cleanupTaintsForRule removes the rule's taint from.
NodesToCleanUp(spec) ==
    [n \in Nodes |->
        IF /\ nodeStore[n] # Null
           /\ ruleAppliesTo(spec, nodeStore[n])
           /\ hasTaintBySpec(nodeStore[n], spec)
        THEN nodeStore[n] ELSE Null]

CleanupList ==
    /\ rpc = "cleanupList"
    /\ rnodes' = NodesToCleanUp(rrule.spec)
    /\ RuleStepTo("cleanup")
    /\ UNCHANGED <<rcur, rfailed, nodeSideKept, rulesKept, ruleStore, ruleQueue, quota, ruleCache>>

cleanupTaintsForRule ==
    \/ CleanupList
    \/ CleanupStep("cleanup")
    \/ CleanupEnd("cleanup", "removeFinalizer")

\* The Update without the finalizer lets the API server drop the object.
RuleRemoveFinalizer ==
    /\ rpc = "removeFinalizer"
    /\ \/ /\ FinalizerUpdateOK
          /\ WriteRule(rname, Null)
          /\ RuleStepTo("uncache")
          /\ UNCHANGED <<RuleLoopKept, ruleQueue, quota>>
       \/ FinalizerUpdateFails
    /\ UNCHANGED <<nodeSideKept, ruleStore, ruleCache>>

\* Mutant: the cache entry is left to the Get that finds the rule gone.
RuleUncacheLater ==
    /\ rpc = "uncache"
    /\ RuleDone
    /\ UNCHANGED <<ruleCache, nodeSideKept, rulesKept, ruleStore, quota>>

RuleUncache ==
    /\ rpc = "uncache"
    /\ removeRuleFromCache(rname)
    /\ RuleDone
    /\ UNCHANGED <<nodeSideKept, rulesKept, ruleStore, quota>>

-----------------------------------------------------------------------------
(* The finalizer of a new rule *)

\* Mutant: goes on after a failed Update.
RuleAddFinalizerRegardless ==
    /\ rpc = "addFinalizer"
    /\ IF held = rname
       THEN WriteRule(rname, [rrule EXCEPT !.finalizer = TRUE])
       ELSE UNCHANGED rulesKept
    /\ RuleStepTo("selector")
    /\ UNCHANGED <<RuleLoopKept, ruleQueue, quota, nodeSideKept, ruleStore, ruleCache>>

RuleAddFinalizer ==
    /\ rpc = "addFinalizer"
    /\ \/ /\ FinalizerUpdateOK
          /\ WriteRule(rname, [rrule EXCEPT !.finalizer = TRUE])
          /\ RuleStepTo("refresh")
          /\ UNCHANGED <<RuleLoopKept, ruleQueue, quota>>
       \/ FinalizerUpdateFails
    /\ UNCHANGED <<nodeSideKept, ruleStore, ruleCache>>

\* Get again. The informer may not have received the update yet, or may have
\* received more; but not the rule's end, which now needs this worker.
RuleRefresh ==
    /\ rpc = "refresh"
    /\ rrule' = ruleStore[rname]
    /\ rpc' = "selector"
    /\ UNCHANGED <<rname, RuleLoopKept, nodeSideKept, rulesKept, ruleStore, ruleQueue, quota,
                   ruleCache>>

-----------------------------------------------------------------------------
(* Selector changes and the cache *)

\* cleanupNodesAfterSelectorChange looks for the new spec's taint on the nodes
\* of the old selector.
NodesLeavingScope(old, new) ==
    [n \in Nodes |->
        IF /\ nodeStore[n] # Null
           /\ SelectorMatches(old.nodeSelector, nodeStore[n].labels)
           /\ ~ruleAppliesTo(new, nodeStore[n])
           /\ hasTaintBySpec(nodeStore[n], new)
        THEN nodeStore[n] ELSE Null]

SelectorChanged ==
    /\ ruleCache[rname] # Null
    /\ nodeSelectorChanged(rrule.spec.nodeSelector, ruleCache[rname].nodeSelector)

RuleSelector ==
    /\ rpc = "selector"
    /\ \/ /\ ~SelectorChanged
          /\ RuleStepTo("cache")
          /\ UNCHANGED <<RuleLoopKept, ruleQueue>>
       \/ /\ SelectorChanged
          /\ ValidSelector(ruleCache[rname].nodeSelector)
          /\ rnodes' = NodesLeavingScope(ruleCache[rname], rrule.spec)
          /\ RuleStepTo("selectorCleanup")
          /\ UNCHANGED <<rcur, rfailed, ruleQueue>>
       \/ /\ SelectorChanged
          /\ ~ValidSelector(ruleCache[rname].nodeSelector)
          /\ RuleError
    /\ UNCHANGED <<nodeSideKept, rulesKept, ruleStore, quota, ruleCache>>

cleanupNodesAfterSelectorChange ==
    \/ CleanupStep("selectorCleanup")
    \/ CleanupEnd("selectorCleanup", "cache")

RuleUpdateCache ==
    /\ rpc = "cache"
    /\ updateRuleCache(rname, rrule.spec)
    /\ RuleStepTo(IF rrule.spec.dryRun THEN "dryRun" ELSE "list")
    /\ UNCHANGED <<RuleLoopKept, nodeSideKept, rulesKept, ruleStore, ruleQueue, quota>>

\* It only computes the status.
processDryRun ==
    /\ rpc = "dryRun"
    /\ RuleStepTo("status")
    /\ UNCHANGED <<RuleLoopKept, nodeSideKept, rulesKept, ruleStore, ruleQueue, quota, ruleCache>>

-----------------------------------------------------------------------------
(* processAllNodesForRule *)

\* The listed nodes on which evaluateRuleForNode will do something.
RuleListNodes ==
    /\ rpc = "list"
    /\ rnodes' = [n \in Nodes |->
            IF /\ nodeStore[n] # Null
               /\ ruleAppliesTo(rrule.spec, nodeStore[n])
               /\ TaintAction(rrule.spec, nodeStore[n]) # "none"
            THEN nodeStore[n] ELSE Null]
    /\ RuleStepTo("evaluate")
    /\ UNCHANGED <<rcur, rfailed, nodeSideKept, rulesKept, ruleStore, ruleQueue, quota, ruleCache>>

\* evaluateRuleForNode; the loop goes on after a failure.
RuleEvaluate ==
    /\ rpc = "evaluate"
    /\ \E n \in Nodes :
          /\ rnodes[n] # Null
          /\ rnodes' = [rnodes EXCEPT ![n] = Null]
          /\ \/ /\ PatchTaints(n, TaintsAfter(rrule.spec, rnodes[n]))
                /\ IF MarksCompletion(rrule.spec, rnodes[n])
                   THEN rpc' = "mark" /\ rcur' = n
                   ELSE UNCHANGED <<rpc, rcur>>
             \/ /\ PatchFails(n)
                /\ UNCHANGED <<rpc, rcur>>
    /\ UNCHANGED <<rname, rrule, rfailed, nodeStore, nodeQueue, rulesKept, ruleStore, ruleQueue,
                   ruleCache>>

RuleMark ==
    /\ rpc = "mark"
    /\ markBootstrapCompleted(rcur, rname)
    /\ RuleStepTo("evaluate")
    /\ rcur' = Null
    /\ UNCHANGED <<rnodes, rfailed, nodeStore, nodeQueue, rulesKept, ruleStore, ruleQueue, ruleCache>>

RuleEvaluateEnd ==
    /\ rpc = "evaluate"
    /\ rnodes = NoNodes
    /\ RuleStepTo("status")
    /\ UNCHANGED <<RuleLoopKept, nodeSideKept, rulesKept, ruleStore, ruleQueue, quota, ruleCache>>

-----------------------------------------------------------------------------
(* Status *)

\* Get, then Status().Update under RetryOnConflict. The rule has the finalizer
\* by now, so Get finds it.
WriteStatusOK ==
    /\ RuleFresh(rname)
    /\ WriteRule(rname, ruleStore[rname]) \/ UNCHANGED rulesKept

WriteStatusFails ==
    /\ \/ ~RuleFresh(rname) /\ UNCHANGED quota
       \/ Spend("fault")
    /\ UNCHANGED rulesKept

updateRuleStatus ==
    /\ rpc = "status"
    /\ \/ /\ WriteStatusOK
          /\ RuleStepTo("prune")
          /\ UNCHANGED <<RuleLoopKept, ruleQueue, quota>>
       \/ WriteStatusFails /\ RuleError
    /\ UNCHANGED <<nodeSideKept, ruleStore, ruleCache>>

\* cleanupDeletedNodes writes only if some listed evaluation is of a deleted node.
cleanupDeletedNodes ==
    /\ rpc = "prune"
    /\ \/ UNCHANGED <<rulesKept, quota>> /\ RuleDone
       \/ WriteStatusOK /\ RuleDone /\ UNCHANGED quota
       \/ WriteStatusFails /\ RuleError
    /\ UNCHANGED <<nodeSideKept, ruleStore, ruleCache>>

RuleReconcilerNext ==
    \/ \E r \in Rules : RuleGet(r)
    \/ cleanupTaintsForRule
    \/ RuleRemoveFinalizer
    \/ RuleUncache
    \/ RuleAddFinalizer
    \/ RuleRefresh
    \/ RuleSelector
    \/ cleanupNodesAfterSelectorChange
    \/ RuleUpdateCache
    \/ processDryRun
    \/ RuleListNodes
    \/ RuleEvaluate
    \/ RuleEvaluateEnd
    \/ RuleMark
    \/ updateRuleStatus
    \/ cleanupDeletedNodes
=============================================================================
