--------------------------- MODULE NodeReconciler ---------------------------
(***************************************************************************)
(* NodeReconciler.Reconcile and processNodeAgainstAllRules, run by one     *)
(* worker. Each read of an informer, each call to the API server and the   *)
(* read of the rule cache is a step. Nothing is ever requeued: Reconcile   *)
(* returns nil whatever happened to the rules.                             *)
(***************************************************************************)
EXTENDS GateController

VARIABLES
    npc,        \* where the worker is
    nname,      \* the node it reconciles
    nnode,      \* its copy of the node, changed in place by the patches
    nrules,     \* the applicable rules it has still to process
    ncur        \* the rule it is processing

nodeReconcilerVars == <<npc, nname, nnode, nrules, ncur>>

NoRules == [r \in Rules |-> Null]

NodeReconcilerTypeOK ==
    /\ npc \in {"idle", "rules", "pick", "evaluate", "mark", "persist"}
    /\ nname \in Nodes \union {Null}
    /\ nnode \in NodeOrNull
    /\ nrules \in [Rules -> SpecOrNull]
    /\ ncur \in Rules \union {Null}
    /\ npc # "idle" => nname # Null /\ nnode # Null
    /\ npc \in {"evaluate", "mark", "persist"} => ncur # Null
    /\ npc = "evaluate" => nrules[ncur] # Null

NodeReconcilerInit ==
    /\ npc = "idle"
    /\ nname = Null
    /\ nnode = Null
    /\ nrules = NoRules
    /\ ncur = Null

\* On to the next of the rules, or out of the loop.
NodeContinue(rules) ==
    /\ ncur' = Null
    /\ nrules' = rules
    /\ IF rules = NoRules
       THEN npc' = "idle" /\ nname' = Null /\ nnode' = Null
       ELSE npc' = "pick" /\ UNCHANGED <<nname, nnode>>

ruleSideKept == <<rulesKept, ruleStore, ruleQueue, ruleCache>>

\* Mutant: goes on with an empty node after NotFound.
NodeGetUnchecked(n) ==
    /\ npc = "idle"
    /\ n \in nodeQueue
    /\ nodeQueue' = nodeQueue \ {n}
    /\ npc' = "rules"
    /\ nname' = n
    /\ nnode' = nodeStore[n]
    /\ UNCHANGED <<nrules, ncur, nodesKept, nodeStore, quota, ruleSideKept>>

\* Reconcile takes a node off the queue and fetches it; NotFound is ignored.
NodeGet(n) ==
    /\ npc = "idle"
    /\ n \in nodeQueue
    /\ nodeQueue' = nodeQueue \ {n}
    /\ \/ /\ nodeStore[n] = Null
          /\ UNCHANGED nodeReconcilerVars
       \/ /\ nodeStore[n] # Null
          /\ npc' = "rules"
          /\ nname' = n
          /\ nnode' = nodeStore[n]
          /\ UNCHANGED <<nrules, ncur>>
    /\ UNCHANGED <<nodesKept, nodeStore, quota, ruleSideKept>>

\* getApplicableRulesForNode, under the read lock of the cache.
getApplicableRulesForNode ==
    /\ npc = "rules"
    /\ NodeContinue([r \in Rules |->
            IF ruleCache[r] # Null /\ ruleAppliesTo(ruleCache[r], nnode)
            THEN ruleCache[r] ELSE Null])
    /\ UNCHANGED <<nodesKept, nodeStore, nodeQueue, quota, ruleSideKept>>

\* Mutant: leaves every bootstrap-only rule to the rule reconciler.
SkipsEveryBootstrap(r) == nrules[r].enforcementMode = "bootstrap-only" \/ nrules[r].dryRun

Skips(r) ==
    \/ isBootstrapCompleted(nname, r) /\ nrules[r].enforcementMode = "bootstrap-only"
    \/ nrules[r].dryRun

\* The cache is a Go map, so the rules come in any order.
NodePickRule(r) ==
    /\ npc = "pick"
    /\ nrules[r] # Null
    /\ \/ /\ Skips(r)
          /\ NodeContinue([nrules EXCEPT ![r] = Null])
       \/ /\ ~Skips(r)
          /\ npc' = "evaluate"
          /\ ncur' = r
          /\ UNCHANGED <<nname, nnode, nrules>>
    /\ UNCHANGED <<nodesKept, nodeStore, nodeQueue, quota, ruleSideKept>>

\* evaluateRuleForNode. A failed patch leaves the changed taints in the copy
\* that the next rules are evaluated on, and counts only as a status entry.
NodeEvaluate ==
    /\ npc = "evaluate"
    /\ LET spec == nrules[ncur]
       IN  \/ /\ TaintAction(spec, nnode) = "none"
              /\ npc' = "persist"
              /\ UNCHANGED <<nnode, nodesKept, quota>>
           \/ /\ TaintAction(spec, nnode) # "none"
              /\ PatchTaints(nname, TaintsAfter(spec, nnode))
              /\ nnode' = apiNode'[nname]
              /\ npc' = IF MarksCompletion(spec, nnode) THEN "mark" ELSE "persist"
           \/ /\ TaintAction(spec, nnode) # "none"
              /\ PatchFails(nname)
              /\ nnode' = [nnode EXCEPT !.taints = TaintsAfter(spec, nnode)]
              /\ npc' = "persist"
    /\ nrules' = [nrules EXCEPT ![ncur] = Null]
    /\ UNCHANGED <<nname, ncur, nodeStore, nodeQueue, ruleSideKept>>

NodeMark ==
    /\ npc = "mark"
    /\ markBootstrapCompleted(nname, ncur)
    /\ npc' = "persist"
    /\ UNCHANGED <<nname, nnode, nrules, ncur, nodeStore, nodeQueue, ruleSideKept>>

\* The status update of the rule: it writes only if the store's copy already
\* has an entry for the node, and its errors are only logged.
NodePersistStatus ==
    /\ npc = "persist"
    /\ NodeContinue(nrules)
    /\ \/ ruleStore[ncur] # Null /\ RuleFresh(ncur) /\ WriteRule(ncur, ruleStore[ncur])
       \/ UNCHANGED rulesKept
    /\ UNCHANGED <<nodesKept, nodeStore, nodeQueue, quota, ruleStore, ruleQueue, ruleCache>>

NodeReconcilerNext ==
    \/ \E n \in Nodes : NodeGet(n)
    \/ getApplicableRulesForNode
    \/ \E r \in Rules : NodePickRule(r)
    \/ NodeEvaluate
    \/ NodeMark
    \/ NodePersistStatus
=============================================================================
