--------------------------- MODULE GateController ---------------------------
(***************************************************************************)
(* ReadinessGateController: the in-memory rule cache and the operations    *)
(* that both reconcilers perform through it. SetGlobalDryRun has no        *)
(* caller, so globalDryRun is always false and is not a variable.          *)
(*                                                                         *)
(* A taint patch is computed from the caller's copy of the node and        *)
(* replaces the node's whole taint list: NodeSpec.Taints is an atomic      *)
(* list and the patch carries no resourceVersion.                          *)
(***************************************************************************)
EXTENDS Cluster

VARIABLE ruleCache      \* spec of the cached rule, or Null

RuleCacheTypeOK == ruleCache \in [Rules -> SpecOrNull]

updateRuleCache(r, spec) == ruleCache' = [ruleCache EXCEPT ![r] = spec]
removeRuleFromCache(r) == ruleCache' = [ruleCache EXCEPT ![r] = Null]

-----------------------------------------------------------------------------
(* Taint patches *)

\* r.Patch succeeds; the caller's copy becomes the object the server returns.
PatchTaints(n, taints) ==
    /\ apiNode[n] # Null
    /\ WriteNode(n, [apiNode[n] EXCEPT !.taints = taints])
    /\ UNCHANGED quota

\* r.Patch fails: the node is gone, or the API server is unavailable.
PatchFails(n) ==
    /\ \/ apiNode[n] = Null /\ UNCHANGED quota
       \/ Spend("fault")
    /\ UNCHANGED nodesKept

-----------------------------------------------------------------------------
(* Bootstrap completion *)

isBootstrapCompleted(n, r) == nodeStore[n] # Null /\ r \in nodeStore[n].completed

\* Mutant: the update goes through without a check of the resourceVersion.
markBootstrapCompletedUnchecked(n, r) ==
    IF nodeStore[n] # Null /\ ~isBootstrapCompleted(n, r)
    THEN WriteNode(n, [nodeStore[n] EXCEPT !.completed = @ \union {r}]) /\ UNCHANGED quota
    ELSE UNCHANGED <<nodesKept, quota>>

\* Get, then Update under RetryOnConflict. The Update of a stale copy is a
\* conflict; when the attempts are used up, or on any other error, the error is
\* logged and nothing is retried.
markBootstrapCompleted(n, r) ==
    \/ isBootstrapCompleted(n, r) /\ UNCHANGED <<nodesKept, quota>>
    \/ /\ nodeStore[n] # Null
       /\ ~isBootstrapCompleted(n, r)
       /\ NodeFresh(n)
       /\ WriteNode(n, [nodeStore[n] EXCEPT !.completed = @ \union {r}])
       /\ UNCHANGED quota
    \/ /\ ~isBootstrapCompleted(n, r)
       /\ \/ (nodeStore[n] = Null \/ ~NodeFresh(n)) /\ UNCHANGED quota
          \/ Spend("fault")
       /\ UNCHANGED nodesKept

\* evaluateRuleForNode removes the taint of a bootstrap-only rule, and so marks.
MarksCompletion(spec, node) ==
    TaintAction(spec, node) = "remove" /\ spec.enforcementMode = "bootstrap-only"
=============================================================================
