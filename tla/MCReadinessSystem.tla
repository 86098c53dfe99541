-------------------------- MODULE MCReadinessSystem --------------------------
(* Small instances of ReadinessSystem. *)
EXTENDS DocumentedClaims

CONSTANTS n1, n2, r1, r2, t1, t2

NoLabels == [k \in {} |-> ""]
Prod == [env |-> "prod"]
Dev == [env |-> "dev"]
Bad == [bad |-> "x"]
AllLabelMaps == {NoLabels, Prod, Dev, Bad}
ProdOrDev == {Prod, Dev}

Labels(labels) == [matchLabels |-> labels, matchExpressions |-> <<>>]
HasEnv == [key |-> "env", operator |-> "Exists", values |-> <<>>]
AnyEnv == [matchLabels |-> NoLabels, matchExpressions |-> <<HasEnv>>]
AllSelectors == {Labels(labels) : labels \in AllLabelMaps} \union {AnyEnv}

-----------------------------------------------------------------------------
(* Rules: gates on the condition c *)

SpecOf(required, mode, taint, selector, dryRun) ==
    [conditions |-> [c |-> required], enforcementMode |-> mode, taint |-> taint,
     nodeSelector |-> selector, dryRun |-> dryRun]

ContinuousAll == SpecOf("True", "continuous", t1, AnyEnv, FALSE)
ContinuousProd == SpecOf("True", "continuous", t1, Labels(Prod), FALSE)
ContinuousDev == SpecOf("True", "continuous", t1, Labels(Dev), FALSE)
ContinuousBad == SpecOf("True", "continuous", t1, Labels(Bad), FALSE)
OmittedFalse == SpecOf("False", "", t1, AnyEnv, FALSE)
ContinuousDry == SpecOf("True", "continuous", t1, AnyEnv, TRUE)
ContinuousOther == SpecOf("True", "continuous", t2, AnyEnv, FALSE)
BootstrapAll == SpecOf("True", "bootstrap-only", t1, AnyEnv, FALSE)
BootstrapEmpty == SpecOf("True", "bootstrap-only", t1, Labels(NoLabels), FALSE)

NewRule(spec) == [spec |-> spec, generation |-> 1, finalizer |-> FALSE, deleting |-> FALSE]

StartWith(spec) == {[r \in Rules |-> NewRule(spec)]}
StartContinuous == StartWith(ContinuousAll)
StartProd == StartWith(ContinuousProd)
StartBootstrap == StartWith(BootstrapAll)
\* Or a rule that was given an empty selector and deleted before the process started.
StartBootstrapOrDeleted ==
    StartBootstrap \union
    {[r \in Rules |-> [NewRule(BootstrapEmpty) EXCEPT !.finalizer = TRUE, !.deleting = TRUE]]}
StartAgainWith(spec) == {[r \in Rules |-> [NewRule(spec) EXCEPT !.finalizer = TRUE]]}
StartProdNewOrAgain == StartProd \union StartAgainWith(ContinuousProd)
StartWithoutRules == {[r \in Rules |-> Null]}
StartTwoContinuous ==
    {[r \in Rules |-> NewRule(IF r = r1 THEN ContinuousAll ELSE ContinuousOther)]}

SelectorSpecs == {ContinuousProd, ContinuousDev}
GateSpecs == {ContinuousProd, OmittedFalse, ContinuousDry}
LifecycleSpecs == {ContinuousAll, ContinuousOther}
BootstrapSpecs == {BootstrapAll, BootstrapEmpty}
BothContinuousSpecs == {ContinuousAll, ContinuousOther}
ContinuousSpecs == {ContinuousAll}

-----------------------------------------------------------------------------
(* Nodes *)

NodeOf(labels, status, taints) ==
    [labels |-> labels, conditions |-> [c |-> status], taints |-> taints, completed |-> {}]

Unready == NodeOf(Prod, Missing, {})
Gated == NodeOf(Prod, "True", {t1})

StartReady == {[n \in Nodes |-> NodeOf(Prod, "True", {})]}
StartUnready == {[n \in Nodes |-> Unready]}
StartGated == {[n \in Nodes |-> Gated]}
UnreadyTemplates == {Unready}

-----------------------------------------------------------------------------
(* Bounds *)

Events(few) == [k \in EventKinds |-> IF k \in DOMAIN few THEN few[k] ELSE 0]

WakeupQuota == Events([condition |-> 1, taint |-> 1, edit |-> 1, label |-> 1])
TwoRulesQuota == Events([condition |-> 1])
DeletionQuota == Events([delete |-> 1, edit |-> 1, crash |-> 1, fault |-> 1])
BootstrapQuota == Events([condition |-> 1, leave |-> 1, join |-> 1])

LifecycleQuota == Events([create |-> 2, delete |-> 1, crash |-> 1, fault |-> 1])

CreateTwoDeleteOne == Events([create |-> 2, delete |-> 1])
OneCondition == Events([condition |-> 1])
OneFault == Events([fault |-> 1])
OneDelete == Events([delete |-> 1])
EditAndCrash == Events([edit |-> 1, crash |-> 1])
=============================================================================
