---------------------------- MODULE MCRuleStatus ----------------------------
(* A small instance of RuleStatus. *)
EXTENDS RuleStatus, MCReadinessSystem

DryDev == SpecOf("True", "continuous", t1, Labels(Dev), TRUE)
StatusSpecs == {ContinuousAll, DryDev, ContinuousBad}

\* A new rule, one whose selector does not parse, or one that was deleted before the
\* process started.
StartNewBadOrDeleted ==
    {[r \in Rules |-> rule] :
        rule \in {NewRule(ContinuousAll), NewRule(ContinuousBad),
                  [NewRule(ContinuousAll) EXCEPT !.finalizer = TRUE, !.deleting = TRUE]}}

\* One unready node; or two ready ones, one of them still tainted, so that a write for
\* the one finds the other's entry in the status.
StartOneOrTwo ==
    {[n \in Nodes |-> IF n = n1 THEN Unready ELSE Null],
     [n \in Nodes |-> IF n = n1 THEN Gated ELSE NodeOf(Prod, "True", {})]}

StartWithoutNodes == {[n \in Nodes |-> Null]}
OneJoin == Events([join |-> 1])

StatusQuota == Events([condition |-> 1, edit |-> 1, leave |-> 1, crash |-> 1])
=============================================================================
