---------------------------- MODULE RuleLifecycle ----------------------------
(***************************************************************************)
(* What the cleanup finalizer is for, without informers, queues, workers   *)
(* or failures: a rule is enforced only while it cannot vanish unnoticed,  *)
(* and a rule that is being deleted goes in the end.                       *)
(***************************************************************************)
CONSTANT Rules

VARIABLES
    object,     \* the phase of each rule's API object
    enforced    \* the rules the node reconciler enforces

lifecycleVars == <<object, enforced>>

Phases == {"absent", "new", "guarded", "terminating"}

Init ==
    /\ object \in [Rules -> Phases]
    /\ enforced = {}

Create(r) ==
    /\ object[r] = "absent"
    /\ object' = [object EXCEPT ![r] = "new"]
    /\ UNCHANGED enforced

\* The finalizer is added; an earlier rule of that name is no longer enforced.
Guard(r) ==
    /\ object[r] = "new"
    /\ r \notin enforced
    /\ object' = [object EXCEPT ![r] = "guarded"]
    /\ UNCHANGED enforced

\* Only a rule with its finalizer comes to be enforced.
Enforce(r) ==
    /\ object[r] \in {"guarded", "terminating"}
    /\ enforced' = enforced \union {r}
    /\ UNCHANGED object

Delete(r) ==
    /\ \/ object[r] = "new" /\ object' = [object EXCEPT ![r] = "absent"]
       \/ object[r] = "guarded" /\ object' = [object EXCEPT ![r] = "terminating"]
    /\ UNCHANGED enforced

\* The finalizer is removed.
Release(r) ==
    /\ object[r] = "terminating"
    /\ object' = [object EXCEPT ![r] = "absent"]
    /\ UNCHANGED enforced

Forget(r) ==
    /\ r \in enforced
    /\ enforced' = enforced \ {r}
    /\ UNCHANGED object

Restart == enforced' = {} /\ UNCHANGED object

Next ==
    \/ \E r \in Rules :
          Create(r) \/ Guard(r) \/ Enforce(r) \/ Delete(r) \/ Release(r) \/ Forget(r)
    \/ Restart

Safe == Init /\ [][Next]_lifecycleVars

Fair == Safe /\ \A r \in Rules : WF_lifecycleVars(Release(r))
=============================================================================
