-------------------------- MODULE DocumentedClaims --------------------------
(***************************************************************************)
(* What the repository's documentation and comments say of the controller  *)
(* and the code does not do. Each claim is refuted by a run; PROJECT.json  *)
(* lists the findings.                                                     *)
(***************************************************************************)
EXTENDS ReadinessSystem

\* "Removes bootstrap taint when conditions are first satisfied": once there is
\* nothing left to do, a node that meets a bootstrap-only rule is not tainted.
\* processAllNodesForRule patches from the snapshot it listed, without looking
\* at the completion mark, and processNodeAgainstAllRules then skips the node.
BootstrapReleases ==
    Quiescent =>
        \A n \in Nodes, r \in Rules :
            /\ apiNode[n] # Null /\ apiRule[r] # Null
            /\ apiRule[r].spec.enforcementMode = "bootstrap-only"
            /\ ruleAppliesTo(apiRule[r].spec, apiNode[n])
            /\ allConditionsSatisfied(apiRule[r].spec, apiNode[n])
            => ~hasTaintBySpec(apiNode[n], apiRule[r].spec)

\* "Detect nodeSelector changes and cleanup old nodes": once there is nothing
\* left to do, a node outside the scope of every rule has no rule's taint. The
\* old selector is remembered in memory only.
NoTaintOutOfScope ==
    Quiescent =>
        \A n \in Nodes :
            apiNode[n] # Null =>
                \A t \in apiNode[n].taints :
                    \E r \in Rules :
                        /\ apiRule[r] # Null
                        /\ apiRule[r].spec.taint = t
                        /\ ruleAppliesTo(apiRule[r].spec, apiNode[n])
=============================================================================
