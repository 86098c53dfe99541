--------------------------- MODULE ReadinessSystem ---------------------------
(***************************************************************************)
(* The controller process: both reconcilers, each with its worker, sharing *)
(* the rule cache, the informers and the API server; the cluster around    *)
(* them; and crashes of the process.                                       *)
(***************************************************************************)
EXTENDS NodeReconciler, RuleReconciler

vars == <<clusterVars, ruleCache, nodeReconcilerVars, ruleReconcilerVars>>

TypeOK ==
    /\ ClusterTypeOK
    /\ RuleCacheTypeOK
    /\ NodeReconcilerTypeOK
    /\ RuleReconcilerTypeOK

Init ==
    /\ ClusterInit
    /\ ruleCache = NoRules
    /\ NodeReconcilerInit
    /\ RuleReconcilerInit

\* The process dies, or loses the leader lease and exits, and starts again: the
\* cache and the workers are gone, the informers list everything anew.
Crash ==
    /\ Spend("crash")
    /\ nodeWatch' = [n \in Nodes |-> <<>>]
    /\ nodeStore' = apiNode
    /\ nodeQueue' = Existing(apiNode)
    /\ ruleWatch' = [r \in Rules |-> <<>>]
    /\ ruleStore' = apiRule
    /\ ruleQueue' = Existing(apiRule)
    /\ held' = Null
    /\ ruleCache' = NoRules
    /\ npc' = "idle" /\ nname' = Null /\ nnode' = Null /\ nrules' = NoRules /\ ncur' = Null
    /\ RuleReturn
    /\ UNCHANGED <<apiNode, apiRule>>

\* Both workers wait for work, and there is none on its way.
Quiescent ==
    /\ npc = "idle" /\ nodeQueue = {}
    /\ rpc = "idle" /\ ruleQueue = {}
    /\ \A n \in Nodes : nodeWatch[n] = <<>>
    /\ \A r \in Rules : ruleWatch[r] = <<>>

Rest == Quiescent /\ UNCHANGED vars

NodeProcess == NodeReconcilerNext /\ UNCHANGED ruleReconcilerVars
RuleProcess == RuleReconcilerNext /\ UNCHANGED nodeReconcilerVars
Surroundings ==
    /\ EnvironmentNext \/ InformerNext
    /\ UNCHANGED <<ruleCache, nodeReconcilerVars, ruleReconcilerVars>>

Next ==
    \/ Surroundings
    \/ NodeProcess
    \/ RuleProcess
    \/ Crash
    \/ Rest

\* Workers never stop and take up queued work; a watch delivers in the end.
Fairness ==
    /\ WF_vars(NodeProcess)
    /\ WF_vars(RuleProcess)
    /\ \A n \in Nodes : WF_vars(DeliverNode(n) /\ UNCHANGED <<ruleCache, nodeReconcilerVars,
                                                             ruleReconcilerVars>>)
    /\ \A r \in Rules : WF_vars(DeliverRule(r) /\ UNCHANGED <<ruleCache, nodeReconcilerVars,
                                                             ruleReconcilerVars>>)

SafeSpec == Init /\ [][Next]_vars

Spec == SafeSpec /\ Fairness

\* With several rules: the queue is first in first out, and a rule whose reconcile
\* failed lines up again, so that no rule waits for ever.
FifoSpec ==
    /\ Spec
    /\ \A r \in Rules : SF_vars(RuleGet(r) /\ UNCHANGED nodeReconcilerVars)

-----------------------------------------------------------------------------
(* Safety *)

\* The node reconciler enforces the cached rules. A rule it enforces has the
\* cleanup finalizer in the API server, so that it cannot vanish without the
\* cleanup of RuleReconciler.Reconcile; the one exception is the moment between
\* the Update that drops the finalizer and removeRuleFromCache.
EnforcedRulesGuarded ==
    \A r \in Rules :
        ruleCache[r] # Null =>
            \/ apiRule[r] # Null /\ apiRule[r].finalizer
            \/ rpc = "uncache" /\ rname = r

\* What evaluating a node depends on.
SameView(a, b) ==
    a # Null /\ b # Null /\ a.conditions = b.conditions /\ a.labels = b.labels /\ a.taints = b.taints

\* The informer will put n on the queue.
WakeupOnTheWay(n) ==
    \/ n \in nodeQueue
    \/ \E i \in 1..Len(nodeWatch[n]) :
          NodePredicate(IF i = 1 THEN nodeStore[n] ELSE nodeWatch[n][i - 1], nodeWatch[n][i])

\* The node worker is about to evaluate r on what n is now.
NodeWorkerWill(n, r) ==
    /\ nname = n
    /\ SameView(nnode, apiNode[n])
    /\ npc = "rules" \/ nrules[r] = ruleCache[r]

\* The rule worker is about to evaluate r on what n is now.
RuleWorkerWill(n, r) ==
    /\ rname = r
    /\ \/ rpc = "list" /\ SameView(nodeStore[n], apiNode[n])
       \/ rpc \in {"evaluate", "mark"} /\ SameView(rnodes[n], apiNode[n])

\* Rule r, with this spec, is still to be enforced on the node: a bootstrap-only
\* rule is until the node has its completion mark, and so also if marking failed.
Enforces(r, spec, node) ==
    /\ spec.enforcementMode = "bootstrap-only" => r \notin node.completed
    /\ ~spec.dryRun
    /\ ruleAppliesTo(spec, node)

\* Neither reconciler polls. So whenever a node is not as a cached rule wants it,
\* something that will make a worker look at this very state of the node is
\* queued or under way, however the snapshots of the two workers, the informer
\* and the cache are interleaved, whether or not a bootstrapped node got its mark,
\* and also if the node was replaced in the meantime.
NoLostWakeup ==
    \A n \in Nodes, r \in Rules :
        /\ apiNode[n] # Null
        /\ ruleCache[r] # Null
        /\ Enforces(r, ruleCache[r], apiNode[n])
        /\ TaintAction(ruleCache[r], apiNode[n]) # "none"
        => WakeupOnTheWay(n) \/ NodeWorkerWill(n, r) \/ RuleWorkerWill(n, r)

\* Two rules with the same taint for the same nodes are created at the same time,
\* each validated against a List that does not have the other yet. Both exist
\* then, but as long as no spec is edited and the rules can be listed only one of
\* them comes to be enforced: the Update that adds the finalizer of the other is
\* validated too, against the very copies the rule reconciler works from.
NoConflictEnforced ==
    WebhookEnabled =>
        \A r, q \in Rules :
            r # q /\ ruleCache[r] # Null /\ ruleCache[q] # Null
            => \/ ruleCache[r].taint # ruleCache[q].taint
               \/ ruleCache[r].nodeSelector # ruleCache[q].nodeSelector

\* markBootstrapCompleted updates the whole node object, from a copy that the
\* informer may have outlived. Still, a step that changes a node's completion
\* marks only adds to them, and undoes nobody else's change to the node.
MarkingIsIsolated ==
    [][\A n \in Nodes :
          /\ apiNode[n] # Null /\ apiNode'[n] # Null
          /\ apiNode'[n].completed # apiNode[n].completed
          => /\ apiNode[n].completed \subseteq apiNode'[n].completed
             /\ SameView(apiNode[n], apiNode'[n])]_vars

\* When the last step of a deletion drops a rule, no node that the rule applies
\* to still has its taint: a removal that failed keeps the finalizer in place.
CleanBeforeGone ==
    [][\A r \in Rules, n \in Nodes :
          /\ apiRule[r] # Null /\ apiRule[r].finalizer /\ apiRule'[r] = Null
          /\ apiNode[n] # Null
          /\ ruleAppliesTo(apiRule[r].spec, apiNode[n])
          => ~hasTaintBySpec(apiNode[n], apiRule[r].spec)]_vars

-----------------------------------------------------------------------------
(* Why EnforcedRulesGuarded holds: an inductive strengthening of it *)

Guarded(r) == apiRule[r] # Null /\ apiRule[r].finalizer

\* A version of a rule that makes RuleGet go straight to processing it.
Vouches(version) == version # Null /\ version.finalizer /\ ~version.deleting

\* The last version an informer has or will receive is the one in the API server.
InformersCatchUp ==
    \A r \in Rules :
        /\ ruleWatch[r] = <<>> => ruleStore[r] = apiRule[r]
        /\ ruleWatch[r] # <<>> => ruleWatch[r][Len(ruleWatch[r])] = apiRule[r]

\* However stale, such a version is never of an object that has lost its finalizer:
\* a rule loses it only when the informer shows nothing but the deleted rule.
VersionsVouched ==
    \A r \in Rules :
        \/ Guarded(r)
        \/ /\ ~Vouches(ruleStore[r])
           /\ \A i \in DOMAIN ruleWatch[r] : ~Vouches(ruleWatch[r][i])

\* The resourceVersion check of the finalizer Updates: it passes only if the
\* worker's copy is the informer's copy, and that the newest.
HeldIsCurrent ==
    rpc \in {"addFinalizer", "cleanupList", "cleanup", "removeFinalizer"} /\ held = rname =>
        /\ ruleWatch[rname] = <<>>
        /\ ruleStore[rname] = rrule

\* What the rule worker has made sure of at each of its steps.
StepsGuarded ==
    /\ rpc \in {"refresh"} \union ProcessSteps => Guarded(rname)
    /\ rpc \in {"cleanupList", "cleanup", "removeFinalizer"} => rrule.deleting
    /\ rpc = "refresh" =>
          /\ ruleStore[rname] # Null
          /\ \A i \in DOMAIN ruleWatch[rname] : ruleWatch[rname][i] # Null

RuleInv ==
    /\ InformersCatchUp
    /\ VersionsVouched
    /\ HeldIsCurrent
    /\ StepsGuarded
    /\ EnforcedRulesGuarded

-----------------------------------------------------------------------------
(* Why MarkingIsIsolated holds *)

\* The same for nodes: a copy with nothing newer on its way is the current object,
\* which is what the resourceVersion check of an Update establishes.
NodesCatchUp ==
    \A n \in Nodes :
        /\ nodeWatch[n] = <<>> => nodeStore[n] = apiNode[n]
        /\ nodeWatch[n] # <<>> => nodeWatch[n][Len(nodeWatch[n])] = apiNode[n]

-----------------------------------------------------------------------------
(* The finalizer protocol, as an implementation of RuleLifecycle *)

Phase(rule) ==
    CASE rule = Null -> "absent"
      [] rule # Null /\ ~rule.finalizer -> "new"
      [] rule # Null /\ rule.finalizer /\ ~rule.deleting -> "guarded"
      [] rule # Null /\ rule.finalizer /\ rule.deleting -> "terminating"

Lifecycle == INSTANCE RuleLifecycle WITH
    object   <- [r \in Rules |-> Phase(apiRule[r])],
    enforced <- {r \in Rules : ruleCache[r] # Null}

\* Every step of the system, crashes and failed writes included, is a step of
\* RuleLifecycle or leaves the rules' phases and the set of enforced rules alone.
FollowsLifecycle == Lifecycle!Safe

\* What the steps of RuleLifecycle need besides RuleInv: only a rule with the
\* finalizer stays when it is deleted, and the finalizer is added to a rule that
\* has none.
LifecycleInv ==
    /\ \A r \in Rules : apiRule[r] # Null => (apiRule[r].deleting => apiRule[r].finalizer)
    /\ rpc = "addFinalizer" => ~rrule.deleting /\ ~rrule.finalizer

\* With working processes and without the webhook it also ends every deletion it
\* is asked for.
CompletesLifecycle == Lifecycle!Fair

-----------------------------------------------------------------------------
(* Liveness *)

\* A continuous rule, and a bootstrap-only rule until the node is marked, ends up
\* enforced on every node it applies to.
EnforcementConverges ==
    \A n \in Nodes, r \in Rules :
        <>[](/\ apiNode[n] # Null
             /\ apiRule[r] # Null
             /\ ~apiRule[r].deleting
             /\ Enforces(r, apiRule[r].spec, apiNode[n])
             => TaintAction(apiRule[r].spec, apiNode[n]) = "none")

\* The finalizer does not block the deletion of a rule for ever.
DeletionCompletes ==
    \A r \in Rules :
        apiRule[r] # Null /\ apiRule[r].deleting ~> apiRule[r] = Null

\* A rule whose finalizer the webhook keeps out because another rule conflicts
\* with it is tried again: once the other one is gone, it ends up enforced.
ConflictsResolve ==
    \A r \in Rules :
        <>[](/\ apiRule[r] # Null
             /\ ~apiRule[r].deleting
             /\ validateSpec(apiRule[r].spec)
             /\ TaintConflicts(apiRule, r, apiRule[r].spec, TRUE) = {}
             => ruleCache[r] = apiRule[r].spec)

\* The rule cache ends up with the rules and specs of the API server.
CacheTracksRules ==
    \A r \in Rules :
        <>[](ruleCache[r] = IF apiRule[r] = Null THEN Null ELSE apiRule[r].spec)
=============================================================================
