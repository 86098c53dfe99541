------------------------- MODULE StatusReportProofs -------------------------
(***************************************************************************)
(* What a status says of its rule, for every number of nodes, rules, specs *)
(* and events: that its generation was observed, that its nodes are        *)
(* accounted for, and that it is settled in the end.                       *)
(***************************************************************************)
EXTENDS RuleStatusProofs

-----------------------------------------------------------------------------
(* Generations *)

\* A later version of the same object.
Follows(old, new) ==
    /\ new # Null
    /\ old.generation <= new.generation
    /\ old.generation = new.generation => old.spec = new.spec

\* What a status may say of a version: its generation or an earlier one was observed,
\* and only an earlier one if the version is a dry run.
Observes(rule, status) ==
    /\ status.observedGeneration <= rule.generation
    /\ status.observedGeneration = rule.generation => ~rule.spec.dryRun

\* The status of a rule may be that of every version of the rule that is on its way,
ObservedBounded ==
    \A r \in Rules : \A version \in Versions(r) :
        version # Null => Observes(version, apiStatus[r])

\* and every version comes with such a status.
VersionsBounded ==
    \A r \in Rules :
        /\ ruleStore[r] # Null => Observes(ruleStore[r], statusStore[r])
        /\ \A i \in DOMAIN ruleWatch[r] :
              ruleWatch[r][i] # Null => Observes(ruleWatch[r][i], statusWatch[r][i])

\* What the rule worker is about to process is a version of the present object,
VersionsFollowed ==
    \A r \in Rules : \A version \in Versions(r) :
        version # Null /\ (Vouches(version) \/ (rpc = "refresh" /\ rname = r))
        => Follows(version, apiRule[r])

\* and so is what it processes.
CarriedFollowed ==
    /\ rpc \in ProcessSteps =>
          /\ Follows(rrule, apiRule[rname])
          /\ apiStatus[rname].observedGeneration <= rrule.generation
    /\ rpc # "idle" => Observes(rrule, rstatus)

\* The nodes of a dry run are not processed.
DryRunApart ==
    /\ rpc \in {"list", "evaluate", "mark"} => ~rrule.spec.dryRun
    /\ rpc = "dryRun" => rrule.spec.dryRun

ObservedInv ==
    /\ ObservedBounded
    /\ VersionsBounded
    /\ VersionsFollowed
    /\ CarriedFollowed
    /\ DryRunApart
    /\ CarriedIsCached
    /\ ObservedIsEnforced

\* The order of versions.
LEMMA FollowsItself ==
    ASSUME NEW rule \in Rule
    PROVE  Follows(rule, rule)
  <1>1. rule.generation \in Nat
    BY DEF Rule
  <1>2. rule # Null
    BY NullAssumption
  <1>3. QED
    BY <1>1, <1>2 DEF Follows

\* The object is a version.
LEMMA CurrentIsVersion ==
    ASSUME ClusterTypeOK, RuleInv, NEW r \in Rules
    PROVE  apiRule[r] \in Versions(r)
  <1>1. ruleWatch[r] \in Seq(RuleOrNull)
    BY DEF ClusterTypeOK
  <1>2. CASE ruleWatch[r] = <<>>
    BY <1>2 DEF RuleInv, InformersCatchUp, Versions
  <1>3. CASE ruleWatch[r] # <<>>
    <2>1. Len(ruleWatch[r]) \in DOMAIN ruleWatch[r]
      BY <1>1, <1>3
    <2>2. ruleWatch[r][Len(ruleWatch[r])] = apiRule[r]
      BY <1>3 DEF RuleInv, InformersCatchUp
    <2>3. QED
      BY <2>1, <2>2, Zenon DEF Versions
  <1>4. QED
    BY <1>2, <1>3

\* Every version is a rule, or says that there is none.
LEMMA VersionsType ==
    ASSUME ClusterTypeOK, NEW r \in Rules, NEW version \in Versions(r)
    PROVE  version \in RuleOrNull
  <1>1. ruleStore[r] \in RuleOrNull /\ ruleWatch[r] \in Seq(RuleOrNull)
    BY DEF ClusterTypeOK
  <1>2. \A i \in DOMAIN ruleWatch[r] : ruleWatch[r][i] \in RuleOrNull
    BY <1>1
  <1>3. QED
    BY <1>1, <1>2, Zenon DEF Versions

\* What a write makes of the object.
LEMMA WrittenRule ==
    ASSUME TypeOK, NEW r \in Rules, NEW rule \in RuleOrNull, RuleWritten(r, rule)
    PROVE  \/ /\ CreateRule(r) /\ UNCHANGED ruleWork
              /\ apiRule[r] = Null /\ rule \in Rule /\ rule.generation = 1 /\ ~rule.finalizer
           \/ /\ EditRule(r) \/ DeleteRule(r)
              /\ UNCHANGED ruleWork
              /\ apiRule[r] \in Rule /\ rule \in Rule
              /\ rule.generation = apiRule[r].generation + 1
           \/ DeleteRule(r) /\ UNCHANGED ruleWork /\ ~apiRule[r].finalizer /\ rule = Null
           \/ /\ FinalizerAdded /\ rname = r
              /\ apiRule[r] \in Rule /\ rule \in Rule
              /\ rule.generation = apiRule[r].generation /\ rule.spec = apiRule[r].spec
              /\ rule.deleting = apiRule[r].deleting
           \/ FinalizerRemoved /\ rname = r /\ rule = Null
  <1>1. apiRule'[r] = rule
    BY WriteMakesVersion DEF RuleWritten, TypeOK
  <1>2. ASSUME NEW new, WriteRule(r, new)
        PROVE  new = rule
    BY <1>1, <1>2 DEF WriteRule, TypeOK, ClusterTypeOK
  <1>3. apiRule[r] # Null => apiRule[r] \in Rule /\ apiRule[r].generation + 1 \in Nat \ {0}
    BY DEF TypeOK, ClusterTypeOK, RuleOrNull, Rule
  <1>4. CASE CreateRule(r) /\ UNCHANGED ruleWork
    <2>1. PICK spec \in Specs : rule = [spec |-> spec, generation |-> 1,
                                        finalizer |-> FALSE, deleting |-> FALSE]
      BY <1>2, <1>4 DEF CreateRule, RuleEvent
    <2>2. rule \in Rule /\ rule.generation = 1 /\ ~rule.finalizer
      BY <2>1 DEF Rule
    <2>3. QED
      BY <1>4, <2>2 DEF CreateRule
  <1>5. CASE EditRule(r) /\ UNCHANGED ruleWork
    <2>1. PICK spec \in Specs : rule = [apiRule[r] EXCEPT !.spec = spec, !.generation = @ + 1]
      BY <1>2, <1>5 DEF EditRule, RuleEvent
    <2>2. apiRule[r] \in Rule /\ apiRule[r].generation + 1 \in Nat \ {0}
      BY <1>3, <1>5 DEF EditRule
    <2>3. rule \in Rule /\ rule.generation = apiRule[r].generation + 1
      BY <2>1, <2>2, Zenon DEF Rule
    <2>4. QED
      BY <1>5, <2>2, <2>3
  <1>6. CASE DeleteRule(r) /\ UNCHANGED ruleWork
    <2>1. apiRule[r] \in Rule /\ apiRule[r].generation + 1 \in Nat \ {0}
      BY <1>3, <1>6 DEF DeleteRule
    <2>2. rule = IF apiRule[r].finalizer
                 THEN [apiRule[r] EXCEPT !.deleting = TRUE, !.generation = @ + 1]
                 ELSE Null
      BY <1>2, <1>6 DEF DeleteRule, RuleEvent
    <2>3. CASE apiRule[r].finalizer
      <3>1. rule = [apiRule[r] EXCEPT !.deleting = TRUE, !.generation = @ + 1]
        BY <2>2, <2>3
      <3>2. rule \in Rule /\ rule.generation = apiRule[r].generation + 1
        BY <2>1, <3>1, Zenon DEF Rule
      <3>3. QED
        BY <1>6, <2>1, <3>2
    <2>4. CASE ~apiRule[r].finalizer
      BY <1>6, <2>2, <2>4
    <2>5. QED
      BY <2>3, <2>4
  <1>7. CASE FinalizerAdded /\ rname = r
    <2>1. rule = [apiRule[r] EXCEPT !.finalizer = TRUE] /\ apiRule[r] = rrule
      BY <1>2, <1>7 DEF FinalizerAdded
    <2>2. apiRule[r] \in Rule
      BY <1>7, <2>1 DEF FinalizerAdded, TypeOK, RuleReconcilerTypeOK, RuleOrNull
    <2>3. QED
      BY <1>7, <2>1, <2>2 DEF Rule
  <1>8. CASE FinalizerRemoved /\ rname = r
    BY <1>2, <1>8 DEF FinalizerRemoved
  <1>9. QED
    BY <1>4, <1>5, <1>6, <1>7, <1>8 DEF RuleWritten

\* From one version to the next.
LEMMA RuleAdvances ==
    ASSUME TypeOK, NEW r \in Rules, NEW rule \in RuleOrNull, RuleWritten(r, rule),
           apiRule[r] # Null, rule # Null
    PROVE  apiRule[r] \in Rule /\ rule \in Rule /\ Follows(apiRule[r], rule)
  <1>1. \/ /\ apiRule[r] \in Rule /\ rule \in Rule
           /\ rule.generation = apiRule[r].generation + 1
        \/ /\ apiRule[r] \in Rule /\ rule \in Rule
           /\ rule.generation = apiRule[r].generation /\ rule.spec = apiRule[r].spec
    BY WrittenRule
  <1>2. apiRule[r].generation \in Nat
    BY <1>1 DEF Rule
  <1>3. QED
    BY <1>1, <1>2 DEF Follows

\* Versions follow each other.
LEMMA FollowsOn ==
    ASSUME NEW a \in Rule, NEW b \in Rule, NEW c \in Rule, Follows(a, b), Follows(b, c)
    PROVE  Follows(a, c)
  <1>1. a.generation \in Nat /\ b.generation \in Nat /\ c.generation \in Nat
    BY DEF Rule
  <1>2. QED
    BY <1>1 DEF Follows

\* What the workers hold of a generation.
LEMMA ObservedType ==
    ASSUME StatusInv, NEW r \in Rules
    PROVE  /\ apiStatus[r].observedGeneration \in Nat
           /\ statusStore[r].observedGeneration \in Nat
           /\ rstatus.observedGeneration \in Nat
           /\ EmptyStatus.observedGeneration = 0
  <1>1. apiStatus[r] \in GoodStatus /\ statusStore[r] \in GoodStatus /\ rstatus \in GoodStatus
    BY DEF StatusInv, ObjectStatusesGood, ObjectStatusesIn, WorkerStatusesGood
  <1>2. QED
    BY <1>1 DEF GoodStatus, EmptyStatus

\* Only the rule worker writes another generation than the one that is there.
LEMMA ReportedGeneration ==
    ASSUME TypeOK, StatusInv, NEW r \in Rules, NEW status \in GoodStatus, Reported(r, status)
    PROVE  \/ status.observedGeneration = apiStatus[r].observedGeneration
           \/ rpc = "status" /\ rpc' = "prune" /\ rname = r /\ status = rstatus
  <1>1. apiStatus[r] \in GoodStatus /\ nstatus[r] \in GoodStatus
    BY DEF StatusInv, ObjectStatusesGood, ObjectStatusesIn, WorkerStatusesGood
  <1>2. npc = "persist" => nname \in Nodes
    BY DEF TypeOK, NodeReconcilerTypeOK
  <1>3. CASE npc = "persist" /\ status = PersistedStatus(apiStatus[r], nstatus[r], nname)
    BY <1>1, <1>2, <1>3 DEF PersistedStatus, GoodStatus
  <1>4. CASE status = Pruned(apiStatus[r], rgone)
    BY <1>1, <1>4 DEF Pruned, GoodStatus
  <1>5. QED
    BY <1>3, <1>4 DEF Reported

\* A status that is written is not ahead of any version, old or new.
LEMMA PutIsBounded ==
    ASSUME TypeOK, StatusInv, ObservedBounded, VersionsBounded,
           NEW r \in Rules, NEW rule \in RuleOrNull, NEW status \in GoodStatus,
           Put(r, rule, status),
           \A version \in Versions(r) \union {rule} :
              version # Null => Observes(version, status)
    PROVE  ObservedBounded' /\ VersionsBounded'
  <1>1. ClusterTypeOK /\ WriteRule(r, rule) /\ UNCHANGED ruleStore
    BY DEF TypeOK, Put
  <1>2. /\ Versions(r)' = Versions(r) \union {rule}
        /\ \A q \in Rules \ {r} : Versions(q)' = Versions(q)
    BY <1>1, VersionsWritten
  <1>3. apiStatus \in [Rules -> GoodStatus] /\ statusWatch \in [Rules -> Seq(GoodStatus)]
    BY DEF StatusInv, ObjectStatusesGood, ObjectStatusesIn
  <1>4. /\ apiStatus'[r] = status /\ statusWatch'[r] = Append(statusWatch[r], status)
        /\ \A q \in Rules \ {r} : apiStatus'[q] = apiStatus[q] /\ statusWatch'[q] = statusWatch[q]
        /\ UNCHANGED statusStore
    BY <1>3 DEF Put
  <1>5. /\ ruleWatch'[r] = Append(ruleWatch[r], rule)
        /\ \A q \in Rules \ {r} : ruleWatch'[q] = ruleWatch[q]
    BY <1>1 DEF WriteRule, ClusterTypeOK
  <1>6. ObservedBounded'
    <2> SUFFICES ASSUME NEW q \in Rules, NEW version \in Versions(q)', version # Null
                 PROVE  Observes(version, apiStatus'[q])
      BY DEF ObservedBounded, Observes
    <2>1. CASE q = r
      BY <1>2, <1>4, <2>1
    <2>2. CASE q # r
      BY <1>2, <1>4, <2>2 DEF ObservedBounded
    <2>3. QED
      BY <2>1, <2>2
  <1>7. VersionsBounded'
    <2> SUFFICES ASSUME NEW q \in Rules, NEW i \in DOMAIN ruleWatch'[q], ruleWatch'[q][i] # Null
                 PROVE  Observes(ruleWatch'[q][i], statusWatch'[q][i])
      BY <1>1, <1>4 DEF VersionsBounded, Observes
    <2>1. CASE q = r
      <3>1. /\ ruleWatch[r] \in Seq(RuleOrNull) /\ statusWatch[r] \in Seq(GoodStatus)
            /\ Len(statusWatch[r]) = Len(ruleWatch[r])
        BY <1>1, <1>3 DEF ClusterTypeOK, StatusInv, StatusesCatchUp
      <3>2. \/ /\ i \in DOMAIN ruleWatch[r]
               /\ Append(ruleWatch[r], rule)[i] = ruleWatch[r][i]
               /\ Append(statusWatch[r], status)[i] = statusWatch[r][i]
            \/ /\ Append(ruleWatch[r], rule)[i] = rule
               /\ Append(statusWatch[r], status)[i] = status
        BY <1>5, <2>1, <3>1
      <3>3. QED
        BY <1>4, <1>5, <2>1, <3>2, Zenon DEF VersionsBounded
    <2>2. CASE q # r
      BY <1>4, <1>5, <2>2 DEF VersionsBounded
    <2>3. QED
      BY <2>1, <2>2
  <1>8. QED
    BY <1>6, <1>7

\* The bounds on what was observed.
LEMMA BoundsStay ==
    ASSUME TypeOK, RuleInv, StatusInv, ObservedInv, ObjectStatusStep
    PROVE  ObservedBounded' /\ VersionsBounded'
  <1>1. ObservedBounded /\ VersionsBounded /\ CarriedFollowed /\ ClusterTypeOK
    BY DEF ObservedInv, TypeOK
  <1>2. ASSUME NEW r \in Rules, apiRule[r] # Null
        PROVE  /\ apiRule[r] \in Rule
               /\ apiRule[r].generation \in Nat
               /\ Observes(apiRule[r], apiStatus[r])
    <2>1. apiRule[r] \in Rule
      BY <1>1, <1>2 DEF ClusterTypeOK, RuleOrNull
    <2>2. QED
      BY <1>1, <1>2, <2>1, CurrentIsVersion DEF ObservedBounded, Rule
  <1>3. CASE UNCHANGED <<ruleObjects, apiStatusVars>>
    <2>1. \A r \in Rules : Versions(r)' = Versions(r)
      BY <1>3 DEF ruleObjects, Versions
    <2>2. QED
      BY <1>1, <1>3, <2>1 DEF ruleObjects, apiStatusVars, ObservedBounded, VersionsBounded, Observes
  <1>4. ASSUME NEW r \in Rules, NEW status \in GoodStatus, apiRule[r] # Null, RuleFresh(r),
               Put(r, apiRule[r], status), Reported(r, status)
        PROVE  ObservedBounded' /\ VersionsBounded'
    <2>1. Versions(r) = {apiRule[r]} /\ apiRule[r] \in RuleOrNull
      BY <1>1, <1>4, VersionsFresh DEF ClusterTypeOK
    <2>2. Observes(apiRule[r], status)
      <3>1. CASE status.observedGeneration = apiStatus[r].observedGeneration
        BY <1>2, <1>4, <3>1 DEF Observes
      <3>2. CASE rpc = "status" /\ rname = r /\ status = rstatus
        <4>1. Observes(rrule, rstatus) /\ Follows(rrule, apiRule[r])
          BY <1>1, <3>2 DEF CarriedFollowed, ProcessSteps
        <4>2. rrule.generation \in Nat
          BY <3>2 DEF TypeOK, RuleReconcilerTypeOK, RuleOrNull, Rule
        <4>3. QED
          BY <1>2, <1>4, <3>2, <4>1, <4>2, ObservedType DEF Observes, Follows
      <3>3. QED
        BY <1>4, <3>1, <3>2, ReportedGeneration
    <2>3. QED
      BY <1>1, <1>4, <2>1, <2>2, PutIsBounded
  <1>5. ASSUME NEW r \in Rules, NEW rule \in RuleOrNull, Put(r, rule, KeptStatus(r, rule)),
               RuleWritten(r, rule)
        PROVE  ObservedBounded' /\ VersionsBounded'
    <2>1. KeptStatus(r, rule) \in GoodStatus
      BY EmptyIsGood DEF KeptStatus, StatusInv, ObjectStatusesGood, ObjectStatusesIn
    <2>2. ASSUME NEW version \in Versions(r) \union {rule}, version # Null
          PROVE  Observes(version, KeptStatus(r, rule))
      <3>1. version \in Rule
        BY <1>1, <1>5, <2>2, VersionsType DEF RuleOrNull
      <3>2. version.generation \in Nat \ {0}
        BY <3>1 DEF Rule
      <3>3. CASE apiRule[r] = Null \/ rule = Null
        BY <3>2, <3>3, ObservedType DEF KeptStatus, Observes
      <3>4. CASE apiRule[r] # Null /\ rule # Null
        <4>1. KeptStatus(r, rule) = apiStatus[r]
          BY <3>4 DEF KeptStatus
        <4>2. CASE version \in Versions(r)
          BY <1>1, <2>2, <4>1, <4>2 DEF ObservedBounded
        <4>3. CASE version = rule
          <5>1. Observes(apiRule[r], apiStatus[r]) /\ Follows(apiRule[r], rule)
            BY <1>2, <1>5, <3>4, RuleAdvances
          <5>2. apiRule[r].generation \in Nat
            BY <1>2, <3>4
          <5>3. QED
            BY <3>2, <4>1, <4>3, <5>1, <5>2, ObservedType DEF Observes, Follows
        <4>4. QED
          BY <4>2, <4>3
      <3>5. QED
        BY <3>3, <3>4
    <2>3. QED
      BY <1>1, <1>5, <2>1, <2>2, PutIsBounded
  <1>6. ASSUME NEW r \in Rules, StatusDeliverRule(r)
        PROVE  ObservedBounded' /\ VersionsBounded'
    <2>1. DeliverRule(r) /\ UNCHANGED apiStatus
      BY <1>6 DEF StatusDeliverRule
    <2>2. \A q \in Rules : Versions(q)' \subseteq Versions(q)
      BY <1>1, <2>1, VersionsDelivered
    <2>3. ObservedBounded'
      BY <1>1, <2>1, <2>2 DEF ObservedBounded, Observes
    <2>4. /\ ruleWatch[r] \in Seq(RuleOrNull) /\ statusWatch[r] \in Seq(GoodStatus)
          /\ Len(statusWatch[r]) = Len(ruleWatch[r])
          /\ ruleWatch[r] # <<>>
      BY <1>1, <2>1 DEF ClusterTypeOK, StatusInv, StatusesCatchUp, ObjectStatusesGood,
                        ObjectStatusesIn, DeliverRule
    <2>5. /\ 1 \in DOMAIN ruleWatch[r]
          /\ Head(ruleWatch[r]) = ruleWatch[r][1] /\ Head(statusWatch[r]) = statusWatch[r][1]
          /\ \A i \in DOMAIN Tail(ruleWatch[r]) :
                /\ i + 1 \in DOMAIN ruleWatch[r]
                /\ Tail(ruleWatch[r])[i] = ruleWatch[r][i + 1]
                /\ Tail(statusWatch[r])[i] = statusWatch[r][i + 1]
      <3>1. Len(ruleWatch[r]) \in Nat \ {0} /\ statusWatch[r] # <<>>
        BY <2>4
      <3>2. QED
        BY <2>4, <3>1
    <2>6. /\ ruleStore'[r] = Head(ruleWatch[r]) /\ ruleWatch'[r] = Tail(ruleWatch[r])
          /\ statusStore'[r] = Head(statusWatch[r]) /\ statusWatch'[r] = Tail(statusWatch[r])
          /\ \A q \in Rules \ {r} :
                /\ ruleStore'[q] = ruleStore[q] /\ ruleWatch'[q] = ruleWatch[q]
                /\ statusStore'[q] = statusStore[q] /\ statusWatch'[q] = statusWatch[q]
      BY <1>1, <1>6, <2>1 DEF ClusterTypeOK, DeliverRule, StatusDeliverRule, StatusInv,
                              ObjectStatusesGood, ObjectStatusesIn
    <2>7. VersionsBounded'
      <3> SUFFICES ASSUME NEW q \in Rules
                   PROVE  /\ ruleStore'[q] # Null => Observes(ruleStore'[q], statusStore'[q])
                          /\ \A i \in DOMAIN ruleWatch'[q] :
                                ruleWatch'[q][i] # Null => Observes(ruleWatch'[q][i], statusWatch'[q][i])
        BY DEF VersionsBounded, Observes
      <3>1. CASE q = r
        <4>1. \A i \in DOMAIN ruleWatch[r] :
                 ruleWatch[r][i] # Null => Observes(ruleWatch[r][i], statusWatch[r][i])
          BY <1>1 DEF VersionsBounded
        <4>2. ruleStore'[r] # Null => Observes(ruleStore'[r], statusStore'[r])
          BY <2>5, <2>6, <4>1, Zenon
        <4>3. ASSUME NEW i \in DOMAIN ruleWatch'[r], ruleWatch'[r][i] # Null
              PROVE  Observes(ruleWatch'[r][i], statusWatch'[r][i])
          BY <2>5, <2>6, <4>1, <4>3, Zenon
        <4>4. QED
          BY <3>1, <4>2, <4>3
      <3>2. CASE q # r
        BY <1>1, <2>6, <3>2 DEF VersionsBounded
      <3>3. QED
        BY <3>1, <3>2
    <2>8. QED
      BY <2>3, <2>7
  <1>7. CASE StatusCrash
    <2>1. /\ Crash /\ UNCHANGED <<apiRule, apiStatus>>
          /\ ruleStore' = apiRule /\ statusStore' = apiStatus
          /\ \A q \in Rules : ruleWatch'[q] = <<>>
      BY <1>7 DEF StatusCrash, Crash
    <2>2. \A q \in Rules : Versions(q)' = {apiRule[q]}
      BY <2>1, VersionsListed
    <2>3. ObservedBounded'
      BY <1>2, <2>1, <2>2 DEF ObservedBounded, Observes
    <2>4. VersionsBounded'
      BY <1>2, <2>1 DEF VersionsBounded, Observes
    <2>5. QED
      BY <2>3, <2>4
  <1>8. QED
    BY <1>3, <1>4, <1>5, <1>6, <1>7 DEF ObjectStatusStep

\* The worker comes to "refresh" by adding the finalizer.
LEMMA RefreshIsNew ==
    ASSUME TypeOK, RuleInv, [Next]_vars, rpc' = "refresh"
    PROVE  (rpc = "refresh" /\ rname' = rname) \/ FinalizerAdded
  <1>1. RuleWorkerStep
    BY NextIsRuleStep
  <1>2. CASE rpc = "refresh"
    BY <1>1, <1>2 DEF RuleWorkerStep, ruleWork, RuleGet, RuleReturn, RuleUncache, RuleRefresh,
                      RuleUpdateCache, Moves, Crash
  <1>3. CASE rpc # "refresh"
    <2>1. rpc = "addFinalizer"
      BY <1>1, <1>3 DEF RuleWorkerStep, ruleWork, RuleGet, ruleReconcilerVars, StepAfterGet,
             RuleReturn, RuleUncache, RuleDone, RuleRefresh, RuleUpdateCache, RuleStepTo, Moves, Crash
    <2>2. RuleProcess
      BY <1>3 DEF Next, Surroundings, NodeProcess, Crash, RuleReturn, Rest, vars, ruleReconcilerVars
    <2>3. RuleAddFinalizer
      BY <2>1, <2>2 DEF RuleProcess, RuleReconcilerNext, RuleGet, cleanupTaintsForRule, CleanupList,
          CleanupStep, CleanupEnd, RuleRemoveFinalizer, RuleUncache, RuleRefresh, RuleSelector,
          cleanupNodesAfterSelectorChange, RuleUpdateCache, processDryRun, RuleListNodes,
          RuleEvaluate, RuleEvaluateEnd, RuleMark, updateRuleStatus, cleanupDeletedNodes
    <2>4. /\ FinalizerUpdateOK /\ RuleStepTo("refresh") /\ UNCHANGED <<ruleStore, ruleCache>>
          /\ WriteRule(rname, [rrule EXCEPT !.finalizer = TRUE])
      BY <2>3 DEF RuleAddFinalizer, FinalizerUpdateFails, RuleError, RuleReturn
    <2>5. QED
      BY <2>1, <2>4, HeldIsObject DEF FinalizerAdded, RuleStepTo, FinalizerUpdateOK
  <1>4. QED
    BY <1>2, <1>3

\* A version that makes the worker process the rule stays a version of the object.
LEMMA VersionsStayFollowed ==
    ASSUME TypeOK, RuleInv, StatusInv, ObservedInv, ObjectStatusStep,
           rpc' = "refresh" => (rpc = "refresh" /\ rname' = rname) \/ FinalizerAdded
    PROVE  VersionsFollowed'
  <1> DEFINE Counts(q, v) == Vouches(v) \/ (rpc = "refresh" /\ rname = q)
             CountsNext(q, v) == Vouches(v) \/ (rpc' = "refresh" /\ rname' = q)
  <1>1. ClusterTypeOK /\ VersionsFollowed
    BY DEF ObservedInv, TypeOK
  <1>2. SUFFICES ASSUME NEW q \in Rules, NEW version \in Versions(q)', version # Null,
                        CountsNext(q, version)
                 PROVE  Follows(version, apiRule'[q])
    BY DEF VersionsFollowed, Vouches, Follows
  <1>3. ASSUME NEW v \in Versions(q), v # Null, Counts(q, v)
        PROVE  v \in Rule /\ apiRule[q] \in Rule /\ Follows(v, apiRule[q])
    <2>1. Follows(v, apiRule[q])
      BY <1>1, <1>3 DEF VersionsFollowed
    <2>2. apiRule[q] # Null
      BY <2>1 DEF Follows
    <2>3. QED
      BY <1>1, <1>3, <2>1, <2>2, VersionsType DEF ClusterTypeOK, RuleOrNull
  <1>4. ASSUME ~Guarded(q), NEW v \in Versions(q)
        PROVE  ~Counts(q, v)
    BY <1>4 DEF RuleInv, VersionsVouched, StepsGuarded, Versions
  <1>5. CASE FinalizerAdded
    <2>1. rname \in Rules /\ rrule \in Rule
      BY <1>5 DEF FinalizerAdded, TypeOK, RuleReconcilerTypeOK, RuleOrNull
    <2> PICK r \in Rules : r = rname
      BY <2>1
    <2> DEFINE rule == [rrule EXCEPT !.finalizer = TRUE]
    <2>2. WriteRule(r, rule) /\ UNCHANGED <<ruleStore, rname>> /\ RuleFresh(r) /\ apiRule[r] = rrule
      BY <1>5 DEF FinalizerAdded
    <2>3. rule \in Rule /\ rule.generation = rrule.generation /\ rule.spec = rrule.spec
      BY <2>1 DEF Rule
    <2> HIDE DEF rule
    <2>4. rule \in RuleOrNull /\ rule # Null
      BY <2>3, NullAssumption DEF RuleOrNull
    <2>5. /\ apiRule'[r] = rule /\ Versions(r)' = Versions(r) \union {rule}
          /\ \A p \in Rules \ {r} : apiRule'[p] = apiRule[p] /\ Versions(p)' = Versions(p)
      BY <1>1, <2>2, <2>4, VersionsWritten
    <2>6. CASE q = r
      <3>1. version \in {rrule, rule}
        BY <1>2, <2>2, <2>5, <2>6, VersionsFresh
      <3>2. rrule.generation \in Nat
        BY <2>1 DEF Rule
      <3>3. QED
        BY <2>3, <2>4, <2>5, <2>6, <3>1, <3>2 DEF Follows
    <2>7. CASE q # r
      <3>1. Vouches(version) /\ version \in Versions(q) /\ apiRule'[q] = apiRule[q]
        BY <1>2, <2>2, <2>5, <2>7
      <3>2. QED
        BY <1>2, <1>3, <3>1
    <2>8. QED
      BY <2>6, <2>7
  <1>6. CASE ~FinalizerAdded
    <2>1. Counts(q, version)
      BY <1>2, <1>6
    <2>2. ASSUME version \in Versions(q), apiRule'[q] = apiRule[q]
          PROVE  Follows(version, apiRule'[q])
      BY <1>2, <1>3, <2>1, <2>2
    <2>3. ASSUME version = apiRule[q], apiRule'[q] = apiRule[q]
          PROVE  Follows(version, apiRule'[q])
      BY <1>1, <1>2, <2>3, FollowsItself DEF ClusterTypeOK, RuleOrNull
    <2>4. CASE UNCHANGED ruleObjects
      BY <1>2, <2>2, <2>4 DEF ruleObjects, Versions
    <2>5. ASSUME NEW r \in Rules, NEW status, Put(r, apiRule[r], status)
          PROVE  Follows(version, apiRule'[q])
      <3>1. WriteRule(r, apiRule[r]) /\ UNCHANGED ruleStore /\ apiRule[r] \in RuleOrNull
        BY <1>1, <2>5 DEF Put, ClusterTypeOK
      <3>2. /\ apiRule'[r] = apiRule[r] /\ Versions(r)' = Versions(r) \union {apiRule[r]}
            /\ \A p \in Rules \ {r} : apiRule'[p] = apiRule[p] /\ Versions(p)' = Versions(p)
        BY <1>1, <3>1, VersionsWritten
      <3>3. QED
        BY <1>2, <2>2, <2>3, <3>2
    <2>6. ASSUME NEW r \in Rules, NEW rule \in RuleOrNull, NEW status, Put(r, rule, status),
                 RuleWritten(r, rule)
          PROVE  Follows(version, apiRule'[q])
      <3>1. /\ apiRule'[r] = rule /\ Versions(r)' = Versions(r) \union {rule}
            /\ \A p \in Rules \ {r} : apiRule'[p] = apiRule[p] /\ Versions(p)' = Versions(p)
        BY <1>1, <2>6, VersionsWritten DEF Put
      <3>2. CASE q # r
        BY <1>2, <2>2, <3>1, <3>2
      <3>3. CASE q = r /\ version = rule
        BY <1>2, <2>6, <3>1, <3>3, FollowsItself DEF RuleOrNull
      <3>4. CASE q = r /\ version \in Versions(r)
        <4>1. Guarded(r)
          BY <1>4, <2>1, <3>4
        <4>2. apiRule[r] # Null /\ apiRule[r].finalizer
          BY <4>1 DEF Guarded
        <4>3. CASE FinalizerRemoved /\ rname = r
          <5>1. version = rrule /\ rrule.deleting /\ rpc = "removeFinalizer"
            BY <3>4, <4>3, VersionsFresh DEF FinalizerRemoved
          <5>2. QED
            BY <2>1, <5>1 DEF Vouches
        <4>4. CASE ~(FinalizerRemoved /\ rname = r)
          <5>1. rule # Null
            <6>1. rule \in Rule
              BY <1>6, <2>6, <4>2, <4>4, WrittenRule
            <6>2. QED
              BY <6>1, NullAssumption
          <5>2. Follows(apiRule[r], rule) /\ rule \in Rule
            BY <2>6, <4>2, <5>1, RuleAdvances
          <5>3. QED
            BY <1>2, <1>3, <2>1, <3>1, <3>4, <5>2, FollowsOn
        <4>5. QED
          BY <4>3, <4>4
      <3>5. QED
        BY <1>2, <3>1, <3>2, <3>3, <3>4
    <2>7. ASSUME NEW r \in Rules, StatusDeliverRule(r)
          PROVE  Follows(version, apiRule'[q])
      BY <1>1, <1>2, <2>2, <2>7, VersionsDelivered DEF StatusDeliverRule
    <2>8. CASE StatusCrash
      BY <1>2, <2>3, <2>8, VersionsListed DEF StatusCrash
    <2>9. QED
      BY <2>4, <2>5, <2>6, <2>7, <2>8 DEF ObjectStatusStep
  <1>7. QED
    BY <1>5, <1>6

-----------------------------------------------------------------------------
(* The generation in the rule worker's copy of the status *)

\* Where that generation comes from.
LEMMA ObservedSteps ==
    ASSUME TypeOK, StatusInv, [StatusNext]_allVars
    PROVE  \/ rpc' = "idle"
           \/ \E r \in Rules : RuleFetch(r) /\ ruleStore[r] # Null
           \/ RuleFetchAgain
           \/ RuleObserve
           \/ /\ rpc # "idle" /\ UNCHANGED <<rname, rrule>>
              /\ rpc' \in ProcessSteps => rpc \in ProcessSteps
              /\ rstatus'.observedGeneration = rstatus.observedGeneration
  <1> DEFINE Same == rstatus'.observedGeneration = rstatus.observedGeneration
  <1>1. rstatus \in GoodStatus
    BY DEF StatusInv, WorkerStatusesGood
  <1>2. CASE UNCHANGED <<ruleReconcilerVars, rstatus>>
    BY <1>2 DEF ruleReconcilerVars
  <1>3. CASE StatusRuleProcess
    <2>1. CASE RuleUncacheStatus \/ RulePrune
      BY <2>1 DEF RuleUncacheStatus, RuleUncache, RulePrune, cleanupDeletedNodes, RuleDone, RuleError,
                  RuleReturn
    <2>2. CASE RuleFinalizerUpdate
      BY <2>2 DEF RuleFinalizerUpdate, RuleAddFinalizer, RuleRemoveFinalizer, FinalizerUpdateFails,
                  RuleError, RuleReturn, RuleStepTo, ProcessSteps
    <2>3. CASE RuleOtherStep
      <3>1. rpc' = "idle" \/ rstatus' = rstatus
        BY <2>3 DEF RuleOtherStep
      <3>2. rpc' = "idle" \/ (/\ rpc # "idle" /\ UNCHANGED <<rname, rrule>>
                              /\ rpc' \in ProcessSteps => rpc \in ProcessSteps)
        BY <2>3 DEF RuleOtherStep, cleanupTaintsForRule, CleanupList, CleanupStep, CleanupEnd,
            RuleSelector, cleanupNodesAfterSelectorChange, RuleMark, RuleError, RuleReturn, RuleStepTo,
            ProcessSteps
      <3>3. QED
        BY <3>1, <3>2
    <2>4. CASE RuleWriteStatus
      BY <2>4 DEF RuleWriteStatus, updateRuleStatus, RuleError, RuleReturn, RuleStepTo, ProcessSteps
    <2>5. CASE RuleCacheStatus \/ RuleDryRun \/ RuleList \/ RuleRecord
      <3>1. rpc \in ProcessSteps /\ rpc # "idle" /\ UNCHANGED <<rname, rrule>>
        BY <2>5 DEF RuleCacheStatus, RuleUpdateCache, RuleDryRun, processDryRun, RuleList,
            RuleListNodes, RuleRecord, RuleEvaluate, RuleStepTo, ProcessSteps
      <3>2. ASSUME RuleCacheStatus PROVE Same
        BY <1>1, <3>2 DEF RuleCacheStatus, GoodStatus
      <3>3. ASSUME RuleDryRun PROVE Same
        BY <1>1, <3>3 DEF RuleDryRun, GoodStatus
      <3>4. ASSUME RuleList PROVE Same
        BY <1>1, <3>4 DEF RuleList, GoodStatus
      <3>5. ASSUME RuleRecord PROVE Same
        BY <1>1, <3>5 DEF RuleRecord, AfterPatch, recordNodeFailure, updateNodeEvaluationStatus,
                          GoodStatus
      <3>6. Same
        BY <2>5, <3>2, <3>3, <3>4, <3>5
      <3>7. QED
        BY <3>1, <3>6
    <2>6. ASSUME NEW r \in Rules, RuleFetch(r), ruleStore[r] = Null
          PROVE  rpc' = "idle"
      BY <2>6 DEF RuleFetch, RuleGet, ruleReconcilerVars
    <2>7. QED
      BY <1>3, <2>1, <2>2, <2>3, <2>4, <2>5, <2>6 DEF StatusRuleProcess
  <1>4. CASE StatusCrash
    BY <1>4 DEF StatusCrash, Crash, RuleReturn
  <1>5. QED
    BY <1>2, <1>3, <1>4
    DEF StatusNext, StatusEnvironment, StatusDeliverNode, StatusDeliverRule, StatusNodeProcess,
        NodeTakeRules, NodeSkipOrPick, NodeRecord, NodePersist, RulePruneList, Rest, allVars, vars,
        statusVars

\* The rule that the worker processes stays a version of the object, and its status
\* is not ahead of it.
LEMMA CarriedStaysFollowed ==
    ASSUME TypeOK, RuleInv, StatusInv, ObservedInv, ObjectStatusStep, [StatusNext]_allVars
    PROVE  CarriedFollowed'
  <1>1. /\ ObservedBounded /\ VersionsBounded /\ VersionsFollowed /\ CarriedFollowed /\ ClusterTypeOK
    BY DEF ObservedInv, TypeOK
  <1>2. ASSUME NEW r \in Rules, ruleStore[r] # Null, rname' = r, rrule' = ruleStore[r],
               rstatus' = statusStore[r], UNCHANGED <<apiRule, apiStatus>>,
               rpc' \in ProcessSteps => Vouches(ruleStore[r]) \/ (rpc = "refresh" /\ rname = r)
        PROVE  CarriedFollowed'
    <2>1. ruleStore[r] \in Versions(r)
      BY DEF Versions
    <2>2. rpc' \in ProcessSteps => Follows(ruleStore[r], apiRule[r])
      BY <1>1, <1>2, <2>1 DEF VersionsFollowed
    <2>3. apiStatus[r].observedGeneration <= ruleStore[r].generation
      BY <1>1, <1>2, <2>1 DEF ObservedBounded, Observes
    <2>4. Observes(ruleStore[r], statusStore[r])
      BY <1>1, <1>2 DEF VersionsBounded
    <2>5. QED
      BY <1>2, <2>2, <2>3, <2>4 DEF CarriedFollowed, Follows, Observes
  <1>3. ASSUME NEW r \in Rules, RuleFetch(r), ruleStore[r] # Null
        PROVE  CarriedFollowed'
    <2>1. /\ rname' = r /\ rrule' = ruleStore[r] /\ rstatus' = statusStore[r]
          /\ rpc' = StepAfterGet(ruleStore[r]) /\ UNCHANGED <<apiRule, apiStatus>>
      BY <1>3 DEF RuleFetch, RuleGet, apiStatusVars
    <2>2. ruleStore[r] \in Rule
      BY <1>1, <1>3 DEF ClusterTypeOK, RuleOrNull
    <2>3. rpc' \in ProcessSteps => Vouches(ruleStore[r])
      BY <1>3, <2>1, <2>2 DEF StepAfterGet, ProcessSteps, Vouches, Rule
    <2>4. QED
      BY <1>2, <1>3, <2>1, <2>3
  <1>4. CASE RuleFetchAgain
    <2>1. /\ rpc = "refresh" /\ rname' = rname /\ rrule' = ruleStore[rname]
          /\ rstatus' = statusStore[rname] /\ UNCHANGED <<apiRule, apiStatus>>
      BY <1>4 DEF RuleFetchAgain, RuleRefresh, rulesKept, apiStatusVars
    <2>2. rname \in Rules /\ ruleStore[rname] # Null
      BY <2>1 DEF TypeOK, RuleReconcilerTypeOK, RuleInv, StepsGuarded
    <2> PICK r \in Rules : r = rname
      BY <2>2
    <2>3. QED
      BY <1>2, <2>1, <2>2
  <1>5. CASE RuleObserve \/ (/\ rpc # "idle" /\ UNCHANGED <<rname, rrule>>
                             /\ rpc' \in ProcessSteps => rpc \in ProcessSteps
                             /\ rstatus'.observedGeneration = rstatus.observedGeneration)
    <2>1. /\ rpc # "idle" /\ UNCHANGED <<rname, rrule>>
          /\ rpc' \in ProcessSteps => rpc \in ProcessSteps
      BY <1>5 DEF RuleObserve, RuleEvaluateEnd, RuleStepTo, ProcessSteps
    <2>2. rname \in Rules /\ rrule \in Rule /\ rrule.generation \in Nat
      BY <2>1 DEF TypeOK, RuleReconcilerTypeOK, RuleOrNull, Rule
    <2>3. rstatus \in GoodStatus
      BY DEF StatusInv, WorkerStatusesGood
    <2>4. Observes(rrule, rstatus')
      <3>1. CASE RuleObserve
        <4>1. rstatus'.observedGeneration = rrule.generation
          BY <2>3, <3>1 DEF RuleObserve, GoodStatus
        <4>2. ~rrule.spec.dryRun
          BY <3>1 DEF RuleObserve, RuleEvaluateEnd, ObservedInv, DryRunApart
        <4>3. QED
          BY <2>2, <4>1, <4>2 DEF Observes
      <3>2. CASE rstatus'.observedGeneration = rstatus.observedGeneration
        BY <1>1, <2>1, <3>2 DEF CarriedFollowed, Observes
      <3>3. QED
        BY <1>5, <3>1, <3>2
    <2> PICK q \in Rules : q = rname
      BY <2>2
    <2>5. ASSUME rpc' \in ProcessSteps
          PROVE  Follows(rrule, apiRule'[q]) /\ apiStatus'[q].observedGeneration <= rrule.generation
      <3>1. /\ rpc \in ProcessSteps
            /\ Follows(rrule, apiRule[q])
            /\ apiStatus[q].observedGeneration <= rrule.generation
        BY <1>1, <2>1, <2>5 DEF CarriedFollowed
      <3>2. ASSUME apiRule'[q] = apiRule[q], apiStatus'[q] = apiStatus[q]
            PROVE  Follows(rrule, apiRule'[q]) /\ apiStatus'[q].observedGeneration <= rrule.generation
        BY <3>1, <3>2
      <3>3. apiStatus \in [Rules -> GoodStatus]
        BY DEF StatusInv, ObjectStatusesGood, ObjectStatusesIn
      <3>4. ASSUME NEW r \in Rules, NEW status \in GoodStatus, Put(r, apiRule[r], status),
                   Reported(r, status)
            PROVE  Follows(rrule, apiRule'[q]) /\ apiStatus'[q].observedGeneration <= rrule.generation
        <4>1. /\ apiRule'[q] = apiRule[q]
              /\ apiStatus'[q] = IF q = r THEN status ELSE apiStatus[q]
          BY <1>1, <3>3, <3>4 DEF Put, WriteRule, ClusterTypeOK
        <4>2. CASE status.observedGeneration = apiStatus[r].observedGeneration
          BY <3>1, <4>1, <4>2
        <4>3. CASE status = rstatus
          BY <1>1, <2>1, <3>1, <4>1, <4>3 DEF CarriedFollowed, Observes
        <4>4. QED
          BY <3>4, <4>2, <4>3, ReportedGeneration
      <3>5. ASSUME NEW r \in Rules, NEW rule \in RuleOrNull, Put(r, rule, KeptStatus(r, rule)),
                   RuleWritten(r, rule)
            PROVE  Follows(rrule, apiRule'[q]) /\ apiStatus'[q].observedGeneration <= rrule.generation
        <4>1. /\ apiRule'[q] = IF q = r THEN rule ELSE apiRule[q]
              /\ apiStatus'[q] = IF q = r THEN KeptStatus(r, rule) ELSE apiStatus[q]
          BY <1>1, <3>3, <3>5 DEF Put, WriteRule, ClusterTypeOK
        <4>2. CASE q # r
          BY <3>2, <4>1, <4>2
        <4>3. CASE q = r
          <5>1. apiRule[r] # Null /\ apiRule[r].finalizer
            BY <3>1, <4>3 DEF RuleInv, StepsGuarded, Guarded
          <5>2. rule \in Rule
            BY <3>1, <3>5, <5>1, WrittenRule DEF FinalizerAdded, FinalizerRemoved, ProcessSteps
          <5>3. rule # Null
            BY <5>2, NullAssumption
          <5>4. Follows(rrule, rule)
            BY <2>2, <3>1, <3>5, <4>3, <5>1, <5>3, RuleAdvances, FollowsOn
          <5>5. KeptStatus(r, rule) = apiStatus[r]
            BY <5>1, <5>3 DEF KeptStatus
          <5>6. QED
            BY <3>1, <4>1, <4>3, <5>4, <5>5
        <4>4. QED
          BY <4>2, <4>3
      <3>6. CASE UNCHANGED <<ruleObjects, apiStatusVars>> \/ StatusCrash
        BY <3>2, <3>6 DEF ruleObjects, apiStatusVars, StatusCrash, Crash
      <3>7. ASSUME NEW r \in Rules, StatusDeliverRule(r)
            PROVE  Follows(rrule, apiRule'[q]) /\ apiStatus'[q].observedGeneration <= rrule.generation
        BY <3>2, <3>7 DEF StatusDeliverRule, DeliverRule
      <3>8. QED
        BY <3>4, <3>5, <3>6, <3>7 DEF ObjectStatusStep
    <2>6. QED
      BY <2>1, <2>4, <2>5 DEF CarriedFollowed, Follows, Observes
  <1>6. CASE rpc' = "idle"
    BY <1>6 DEF CarriedFollowed, ProcessSteps
  <1>7. QED
    BY <1>3, <1>4, <1>5, <1>6, ObservedSteps

\* The generation that a status says was observed is the one of the cached spec.
LEMMA ObservedStaysEnforced ==
    ASSUME TypeOK, RuleInv, StatusInv, ObservedInv, ObjectStatusStep, RuleWorkerStep
    PROVE  ObservedIsEnforced'
  <1>1. /\ ObservedBounded /\ CarriedFollowed /\ CarriedIsCached /\ ObservedIsEnforced
        /\ ClusterTypeOK /\ ruleCache \in [Rules -> SpecOrNull]
        /\ apiStatus \in [Rules -> GoodStatus]
    BY DEF ObservedInv, TypeOK, RuleCacheTypeOK, StatusInv, ObjectStatusesGood, ObjectStatusesIn
  <1> SUFFICES ASSUME NEW q \in Rules, apiRule'[q] # Null,
                      apiStatus'[q].observedGeneration = apiRule'[q].generation,
                      ruleCache'[q] # Null
               PROVE  ruleCache'[q] = apiRule'[q].spec
    BY DEF ObservedIsEnforced
  <1>2. apiRule[q] # Null => /\ apiRule[q].generation \in Nat
                             /\ apiStatus[q].observedGeneration <= apiRule[q].generation
    BY <1>1, CurrentIsVersion DEF ObservedBounded, Observes, ClusterTypeOK, RuleOrNull, Rule
  <1>3. rpc # "idle" => rrule.generation \in Nat /\ rname \in Rules
    BY DEF TypeOK, RuleReconcilerTypeOK, RuleOrNull, Rule
  <1>4. ASSUME rpc \in ProcessSteps, rname = q, apiRule[q] # Null,
               apiStatus'[q].observedGeneration <= rrule.generation,
               apiRule'[q].generation = apiRule[q].generation,
               apiStatus'[q].observedGeneration \in Nat
        PROVE  rrule.spec = apiRule[q].spec
    <2>1. Follows(rrule, apiRule[q])
      BY <1>1, <1>4 DEF CarriedFollowed
    <2>2. rrule.generation \in Nat
      BY <1>3, <1>4 DEF ProcessSteps
    <2>3. rrule.generation = apiRule[q].generation
      BY <1>2, <1>4, <2>1, <2>2 DEF Follows
    <2>4. QED
      BY <2>1, <2>3 DEF Follows
  <1>5. CASE RuleUpdateCache /\ rname = q
    <2>1. ruleCache'[q] = rrule.spec /\ rpc = "cache" /\ rpc' \in {"dryRun", "list"}
      BY <1>1, <1>5 DEF RuleUpdateCache, updateRuleCache, RuleStepTo
    <2>2. UNCHANGED <<apiRule, apiStatus>>
      BY <2>1 DEF ObjectStatusStep, ruleObjects, apiStatusVars, Reported, RuleWritten, ruleWork,
          FinalizerAdded, FinalizerRemoved, StatusDeliverRule, ruleReconcilerVars, StatusCrash, Crash,
          RuleReturn
    <2>3. apiStatus[q].observedGeneration <= rrule.generation
      BY <1>1, <1>5, <2>1 DEF CarriedFollowed, ProcessSteps
    <2>4. QED
      BY <1>4, <1>5, <2>1, <2>2, <2>3, ObservedType DEF ProcessSteps
  <1>6. CASE ~(RuleUpdateCache /\ rname = q)
    <2>1. ruleCache'[q] = ruleCache[q]
      BY <1>1, <1>3, <1>6 DEF RuleWorkerStep, ruleWork, RuleGet, RuleUncache, RuleRefresh,
          RuleUpdateCache, updateRuleCache, removeRuleFromCache, Crash, NoRules
    <2>2. ASSUME apiRule[q] # Null,
                 apiRule'[q].generation = apiRule[q].generation, apiRule'[q].spec = apiRule[q].spec,
                 apiStatus'[q].observedGeneration = apiStatus[q].observedGeneration
          PROVE  ruleCache'[q] = apiRule'[q].spec
      BY <1>1, <2>1, <2>2 DEF ObservedIsEnforced
    <2>3. CASE UNCHANGED <<ruleObjects, apiStatusVars>> \/ StatusCrash
      BY <2>2, <2>3 DEF ruleObjects, apiStatusVars, StatusCrash, Crash
    <2>4. ASSUME NEW r \in Rules, StatusDeliverRule(r)
          PROVE  ruleCache'[q] = apiRule'[q].spec
      BY <2>2, <2>4 DEF StatusDeliverRule, DeliverRule
    <2>5. ASSUME NEW r \in Rules, NEW status \in GoodStatus, Put(r, apiRule[r], status),
                 Reported(r, status)
          PROVE  ruleCache'[q] = apiRule'[q].spec
      <3>1. /\ apiRule'[q] = apiRule[q]
            /\ apiStatus'[q] = IF q = r THEN status ELSE apiStatus[q]
        BY <1>1, <2>5 DEF Put, WriteRule, ClusterTypeOK
      <3>2. CASE q # r \/ status.observedGeneration = apiStatus[r].observedGeneration
        BY <2>2, <3>1, <3>2
      <3>3. CASE q = r /\ rpc = "status" /\ rname = r /\ status = rstatus
        <4>1. ruleCache[q] = rrule.spec
          BY <1>1, <3>3 DEF CarriedIsCached, CachedSteps
        <4>2. rstatus.observedGeneration <= rrule.generation
          BY <1>1, <3>3 DEF CarriedFollowed, Observes
        <4>3. QED
          BY <1>4, <2>1, <3>1, <3>3, <4>1, <4>2, ObservedType DEF ProcessSteps
      <3>4. QED
        BY <2>5, <3>2, <3>3, ReportedGeneration
    <2>6. ASSUME NEW r \in Rules, NEW rule \in RuleOrNull, Put(r, rule, KeptStatus(r, rule)),
                 RuleWritten(r, rule)
          PROVE  ruleCache'[q] = apiRule'[q].spec
      <3>1. /\ apiRule'[q] = IF q = r THEN rule ELSE apiRule[q]
            /\ apiStatus'[q] = IF q = r THEN KeptStatus(r, rule) ELSE apiStatus[q]
        BY <1>1, <2>6 DEF Put, WriteRule, ClusterTypeOK
      <3>2. CASE q # r
        BY <2>2, <3>1, <3>2
      <3>3. CASE q = r
        <4>1. rule # Null
          BY <3>1, <3>3
        <4>2. ASSUME apiRule[r] = Null, rule.generation = 1
              PROVE  FALSE
          BY <3>1, <3>3, <4>2, ObservedType DEF KeptStatus
        <4>3. apiRule[r] # Null => apiStatus'[q] = apiStatus[q]
          BY <3>1, <3>3, <4>1 DEF KeptStatus
        <4>4. ASSUME apiRule[r] # Null, rule.generation = apiRule[r].generation + 1
              PROVE  FALSE
          BY <1>2, <3>1, <3>3, <4>3, <4>4, ObservedType
        <4>5. /\ apiRule[r] # Null
              /\ rule.generation = apiRule[r].generation /\ rule.spec = apiRule[r].spec
          BY <2>6, <4>1, <4>2, <4>4, WrittenRule, NullAssumption
        <4>6. QED
          BY <2>2, <3>1, <3>3, <4>3, <4>5
      <3>4. QED
        BY <3>2, <3>3
    <2>7. QED
      BY <2>3, <2>4, <2>5, <2>6 DEF ObjectStatusStep
  <1>7. QED
    BY <1>5, <1>6

\* Which rules are processed as dry runs.
LEMMA DryRunStaysApart ==
    ASSUME TypeOK, DryRunApart, RuleWorkerStep
    PROVE  DryRunApart'
  <1>1. ASSUME NEW r \in Rules, RuleGet(r)
        PROVE  DryRunApart'
    <2>1. ruleStore[r] # Null => ruleStore[r] \in Rule
      BY DEF TypeOK, ClusterTypeOK, RuleOrNull
    <2>2. rpc' \in {"idle", "cleanupList", "selector", "addFinalizer"}
      BY <1>1, <2>1 DEF RuleGet, StepAfterGet, ruleReconcilerVars, Rule
    <2>3. QED
      BY <2>2 DEF DryRunApart
  <1>2. CASE UNCHANGED ruleWork \/ RuleReturn \/ RuleUncache \/ RuleRefresh \/ Crash
    BY <1>2 DEF ruleWork, RuleReturn, RuleUncache, RuleDone, RuleRefresh, RuleStepTo, Crash, DryRunApart
  <1>3. CASE RuleUpdateCache
    BY <1>3 DEF RuleUpdateCache, RuleStepTo, DryRunApart
  <1>4. CASE <<rpc, rpc'>> \in Moves /\ UNCHANGED rrule
    BY <1>4 DEF Moves, DryRunApart
  <1>5. QED
    BY <1>1, <1>2, <1>3, <1>4 DEF RuleWorkerStep

\* The observed generations are those of enforced specs.
THEOREM ObservedInvariant ==
    StatusSpec => []ObservedInv
  <1>1. StatusInit => ObservedInv
    <2> SUFFICES ASSUME StatusInit PROVE ObservedInv
      OBVIOUS
    <2>1. /\ apiRule \in [Rules -> RuleOrNull] /\ ruleStore = apiRule /\ rpc = "idle"
          /\ \A r \in Rules : /\ ruleWatch[r] = <<>> /\ ruleCache[r] = Null
                              /\ apiStatus[r] = EmptyStatus /\ statusStore[r] = EmptyStatus
      BY InitAssumption DEF StatusInit, Init, ClusterInit, RuleReconcilerInit, NoRules, EmptyStatuses
    <2>2. \A r \in Rules : Versions(r) = {apiRule[r]}
      <3>1. {<<>>[i] : i \in DOMAIN <<>>} = {}
        OBVIOUS
      <3>2. QED
        BY <2>1, <3>1 DEF Versions
    <2>3. ASSUME NEW r \in Rules, apiRule[r] # Null
          PROVE  /\ apiRule[r] \in Rule
                 /\ Observes(apiRule[r], EmptyStatus)
      BY <2>1, <2>3 DEF RuleOrNull, Rule, EmptyStatus, Observes
    <2>4. ObservedBounded /\ VersionsBounded
      BY <2>1, <2>2, <2>3 DEF ObservedBounded, VersionsBounded
    <2>5. VersionsFollowed
      BY <2>2, <2>3, FollowsItself DEF VersionsFollowed
    <2>6. CarriedFollowed /\ DryRunApart /\ CarriedIsCached /\ ObservedIsEnforced
      BY <2>1 DEF CarriedFollowed, DryRunApart, CarriedIsCached, ObservedIsEnforced, ProcessSteps,
                  CachedSteps
    <2>7. QED
      BY <2>4, <2>5, <2>6 DEF ObservedInv
  <1>2. IInv /\ StatusInv /\ ObservedInv /\ [StatusNext]_allVars => ObservedInv'
    <2> SUFFICES ASSUME IInv, StatusInv, ObservedInv, [StatusNext]_allVars
                 PROVE  ObservedInv'
      OBVIOUS
    <2>1. TypeOK /\ RuleInv /\ [Next]_vars
      BY StatusNextIsNext DEF IInv
    <2>2. ObjectStatusStep /\ RuleWorkerStep
      BY <2>1, NextIsStatusStep, NextIsRuleStep
    <2>3. rpc' = "refresh" => (rpc = "refresh" /\ rname' = rname) \/ FinalizerAdded
      BY <2>1, RefreshIsNew
    <2>4. CarriedIsCached'
      BY <2>1, <2>2, CarriedStaysCached DEF ObservedInv
    <2>5. QED
      BY <2>1, <2>2, <2>3, <2>4, BoundsStay, VersionsStayFollowed, CarriedStaysFollowed,
         ObservedStaysEnforced, DryRunStaysApart DEF ObservedInv
  <1>3. QED
    BY <1>1, <1>2, StatusInvariant, PTL DEF StatusSpec

\* If a status says that the rule's generation was observed, then the node reconciler
\* works with the spec of that generation (or with none after a restart), however the
\* edits of the rule, the workers' writes and the informer's deliveries interleave.
THEOREM ObservedIsAlwaysEnforced ==
    StatusSpec => []ObservedIsEnforced
  <1>1. ObservedInv => ObservedIsEnforced
    BY DEF ObservedInv
  <1>2. QED
    BY <1>1, ObservedInvariant, PTL

-----------------------------------------------------------------------------
(* Settling *)

RuleVersion(r, i) == IF i = 0 THEN ruleStore[r] ELSE ruleWatch[r][i]

\* The informer will put r on the queue when it goes on from version i.
RuleNoticedAfter(r, i) ==
    \E j \in (i + 1)..Len(ruleWatch[r]) : RulePredicate(RuleVersion(r, j - 1), RuleVersion(r, j))

\* The rule worker will look at r again.
Awaited(r) == r \in ruleQueue \/ RuleNoticedAfter(r, 0)

\* Two versions that the rule worker treats alike.
SameRule(a, b) ==
    \/ a = Null /\ b = Null
    \/ /\ a # Null /\ b # Null
       /\ a.generation = b.generation /\ a.spec = b.spec

\* A version that is out of date will be followed by one that the predicate lets
\* through.
RuleChangesNoticed ==
    \A r \in Rules : \A i \in 0..Len(ruleWatch[r]) :
        SameRule(RuleVersion(r, i), apiRule[r]) \/ RuleNoticedAfter(r, i)

\* The rule worker's copy is the rule as it is, or the worker will look again.
CarriedNoticed == rpc # "idle" => SameRule(rrule, apiRule[rname]) \/ Awaited(rname)

Settled(rule, status) ==
    IF rule.spec.dryRun
    THEN status.dryRunResults # Null /\ status.observedGeneration # rule.generation
    ELSE status.dryRunResults = Null /\ status.observedGeneration = rule.generation

\* What the rule worker has computed so far.
StatusComputed ==
    /\ rpc \in {"list", "evaluate", "mark"} => rstatus.dryRunResults = Null
    /\ rpc = "status" => Settled(rrule, rstatus)

EndSteps == {"idle", "uncache", "prune"}

\* Every rule is settled, or the rule worker is about to write its status or will look
\* at it again.
SettledOrAwaited ==
    \A r \in Rules :
        apiRule[r] # Null =>
            \/ Settled(apiRule[r], apiStatus[r])
            \/ Awaited(r)
            \/ rname = r /\ rpc \notin EndSteps

SettleInv ==
    /\ RuleChangesNoticed
    /\ CarriedNoticed
    /\ StatusComputed
    /\ SettledOrAwaited

\* SameRule is an equivalence, and a rule that is settled is so in every such version.
LEMMA SameRuleComposes ==
    /\ \A a : SameRule(a, a)
    /\ \A a, b, c : SameRule(a, b) /\ SameRule(b, c) => SameRule(a, c)
    /\ \A a, b, status : a # Null /\ SameRule(a, b) => (Settled(a, status) <=> Settled(b, status))
  BY DEF SameRule, Settled

\* A write of a rule.
LEMMA RuleWriteIsNoticed ==
    ASSUME ClusterTypeOK, RuleInv, RuleChangesNoticed,
           NEW r \in Rules, NEW rule \in RuleOrNull, WriteRule(r, rule), UNCHANGED ruleStore,
           SameRule(apiRule[r], rule) \/ RulePredicate(apiRule[r], rule)
    PROVE  /\ RuleChangesNoticed'
           /\ \A q \in Rules :
                 /\ RuleNoticedAfter(q, 0) => RuleNoticedAfter(q, 0)'
                 /\ SameRule(apiRule[q], apiRule'[q]) \/ RuleNoticedAfter(q, 0)'
  <1> DEFINE longer == Append(ruleWatch[r], rule)
  <1>1. apiRule[r] \in RuleOrNull /\ ruleWatch[r] \in Seq(RuleOrNull) /\ Len(ruleWatch[r]) \in Nat
    BY DEF ClusterTypeOK
  <1> PICK len \in Nat : len = Len(ruleWatch[r])
    BY <1>1
  <1>2. /\ apiRule'[r] = rule /\ ruleWatch'[r] = longer
        /\ \A q \in Rules \ {r} : apiRule'[q] = apiRule[q] /\ ruleWatch'[q] = ruleWatch[q]
    BY DEF WriteRule, ClusterTypeOK
  <1>3. ASSUME NEW q \in Rules \ {r}
        PROVE  /\ \A i : RuleVersion(q, i)' = RuleVersion(q, i)
               /\ \A i : RuleNoticedAfter(q, i)' <=> RuleNoticedAfter(q, i)
               /\ \A i \in 0..Len(ruleWatch'[q]) :
                     SameRule(RuleVersion(q, i)', apiRule'[q]) \/ RuleNoticedAfter(q, i)'
               /\ SameRule(apiRule[q], apiRule'[q])
    <2>1. \A i : RuleVersion(q, i)' = RuleVersion(q, i)
      BY <1>2 DEF RuleVersion
    <2>2. \A i : RuleNoticedAfter(q, i)' <=> RuleNoticedAfter(q, i)
      BY <1>2, <2>1 DEF RuleNoticedAfter
    <2>3. SameRule(apiRule[q], apiRule'[q])
      BY <1>2, SameRuleComposes
    <2>4. \A i \in 0..Len(ruleWatch'[q]) :
             SameRule(RuleVersion(q, i)', apiRule'[q]) \/ RuleNoticedAfter(q, i)'
      BY <1>2, <2>1, <2>2 DEF RuleChangesNoticed
    <2>5. QED
      BY <2>1, <2>2, <2>3, <2>4
  <1>4. Len(longer) = len + 1 /\ longer[len + 1] = rule /\ \A i \in 1..len : longer[i] = ruleWatch[r][i]
    BY <1>1
  <1>5. \A i \in 0..len : RuleVersion(r, i)' = RuleVersion(r, i)
    BY <1>1, <1>2, <1>4 DEF RuleVersion
  <1>6. RuleVersion(r, len + 1)' = rule
    BY <1>1, <1>2, <1>4 DEF RuleVersion
  <1>7. RuleVersion(r, len) = apiRule[r]
    <2>1. ruleWatch[r] = <<>> => len = 0
      OBVIOUS
    <2>2. ruleWatch[r] # <<>> => len # 0
      BY <1>1
    <2>3. QED
      BY <2>1, <2>2 DEF RuleVersion, RuleInv, InformersCatchUp
  <1> HIDE DEF longer
  <1>8. Len(ruleWatch'[r]) = len + 1 /\ Len(ruleWatch[r]) = len
    BY <1>2, <1>4
  <1>9. ASSUME NEW i \in 0..len, RuleNoticedAfter(r, i)
        PROVE  RuleNoticedAfter(r, i)'
    <2>1. PICK j \in (i + 1)..len : RulePredicate(RuleVersion(r, j - 1), RuleVersion(r, j))
      BY <1>8, <1>9 DEF RuleNoticedAfter
    <2>2. j \in (i + 1)..(len + 1) /\ j \in 0..len /\ j - 1 \in 0..len
      BY <1>1, <2>1
    <2>3. RulePredicate(RuleVersion(r, j - 1)', RuleVersion(r, j)')
      BY <1>5, <2>1, <2>2, Zenon
    <2>4. \E k \in (i + 1)..(len + 1) : RulePredicate(RuleVersion(r, k - 1)', RuleVersion(r, k)')
      BY <2>2, <2>3, Zenon
    <2>5. QED
      BY <1>8, <2>4 DEF RuleNoticedAfter, RuleVersion, RulePredicate
  <1>10. ASSUME NEW i \in 0..len, RulePredicate(apiRule[r], rule)
         PROVE  RuleNoticedAfter(r, i)'
    <2>1. len + 1 \in (i + 1)..(len + 1) /\ (len + 1) - 1 = len /\ len \in 0..len
      BY <1>1
    <2>2. RulePredicate(RuleVersion(r, (len + 1) - 1)', RuleVersion(r, len + 1)')
      BY <1>5, <1>6, <1>7, <1>10, <2>1, Zenon
    <2>3. \E k \in (i + 1)..(len + 1) : RulePredicate(RuleVersion(r, k - 1)', RuleVersion(r, k)')
      BY <2>1, <2>2, Zenon
    <2>4. QED
      BY <1>8, <2>3 DEF RuleNoticedAfter, RuleVersion, RulePredicate
  <1>11. ASSUME NEW i \in 0..(len + 1)
         PROVE  SameRule(RuleVersion(r, i)', apiRule'[r]) \/ RuleNoticedAfter(r, i)'
    <2>1. CASE i = len + 1
      BY <1>2, <1>6, <2>1, SameRuleComposes
    <2>2. CASE i # len + 1
      <3>1. i \in 0..len
        BY <1>1, <2>2
      <3>2. SameRule(RuleVersion(r, i), apiRule[r]) \/ RuleNoticedAfter(r, i)
        BY <1>8, <3>1 DEF RuleChangesNoticed
      <3>3. RuleVersion(r, i)' = RuleVersion(r, i)
        BY <1>5, <3>1
      <3>4. QED
        BY <1>2, <1>9, <1>10, <3>1, <3>2, <3>3, SameRuleComposes
    <2>3. QED
      BY <2>1, <2>2
  <1>12. 0 \in 0..len
    BY <1>1
  <1>13. RuleChangesNoticed'
    <2> SUFFICES ASSUME NEW q \in Rules, NEW i \in 0..Len(ruleWatch'[q])
                 PROVE  SameRule(RuleVersion(q, i)', apiRule'[q]) \/ RuleNoticedAfter(q, i)'
      BY DEF RuleChangesNoticed, SameRule
    <2>1. CASE q = r
      BY <1>8, <1>11, <2>1
    <2>2. CASE q # r
      BY <1>3, <2>2
    <2>3. QED
      BY <2>1, <2>2
  <1>14. ASSUME NEW q \in Rules
         PROVE  /\ RuleNoticedAfter(q, 0) => RuleNoticedAfter(q, 0)'
                /\ SameRule(apiRule[q], apiRule'[q]) \/ RuleNoticedAfter(q, 0)'
    BY <1>2, <1>3, <1>9, <1>10, <1>12
  <1>15. QED
    BY <1>13, <1>14

\* A delivery: what was still to be noticed is now on the queue or still to be noticed.
LEMMA RuleDeliveryIsNoticed ==
    ASSUME ClusterTypeOK, RuleChangesNoticed, NEW r \in Rules, DeliverRule(r)
    PROVE  /\ RuleChangesNoticed'
           /\ \A q \in Rules : RuleNoticedAfter(q, 0) => Awaited(q)'
  <1> DEFINE rest == Tail(ruleWatch[r])
  <1>1. ruleWatch[r] \in Seq(RuleOrNull) /\ ruleWatch[r] # <<>> /\ Len(ruleWatch[r]) \in Nat \ {0}
    BY DEF ClusterTypeOK, DeliverRule
  <1> PICK len \in Nat \ {0} : len = Len(ruleWatch[r])
    BY <1>1
  <1>2. /\ Len(rest) = len - 1
        /\ \A i \in 1..(len - 1) : rest[i] = ruleWatch[r][i + 1]
        /\ Head(ruleWatch[r]) = ruleWatch[r][1]
    BY <1>1
  <1>3. /\ ruleStore'[r] = ruleWatch[r][1] /\ ruleWatch'[r] = rest /\ UNCHANGED apiRule
        /\ \A q \in Rules \ {r} : ruleStore'[q] = ruleStore[q] /\ ruleWatch'[q] = ruleWatch[q]
    BY <1>2 DEF DeliverRule, ClusterTypeOK
  <1>4. \A i \in 0..(len - 1) : RuleVersion(r, i)' = RuleVersion(r, i + 1)
    BY <1>2, <1>3 DEF RuleVersion
  <1> HIDE DEF rest
  <1>5. Len(ruleWatch'[r]) = len - 1
    BY <1>2, <1>3
  <1>6. ASSUME NEW i \in 0..(len - 1), RuleNoticedAfter(r, i + 1)
        PROVE  RuleNoticedAfter(r, i)'
    <2>1. PICK j \in ((i + 1) + 1)..len : RulePredicate(RuleVersion(r, j - 1), RuleVersion(r, j))
      BY <1>6 DEF RuleNoticedAfter
    <2>2. /\ j - 1 \in (i + 1)..(len - 1)
          /\ j - 1 \in 0..(len - 1) /\ (j - 1) - 1 \in 0..(len - 1)
          /\ (j - 1) + 1 = j /\ ((j - 1) - 1) + 1 = j - 1
      BY <2>1
    <2>3. RulePredicate(RuleVersion(r, (j - 1) - 1)', RuleVersion(r, j - 1)')
      BY <1>4, <2>1, <2>2, Zenon
    <2>4. \E k \in (i + 1)..(len - 1) : RulePredicate(RuleVersion(r, k - 1)', RuleVersion(r, k)')
      BY <2>2, <2>3, Zenon
    <2>5. QED
      BY <1>5, <2>4 DEF RuleNoticedAfter, RuleVersion, RulePredicate
  <1>7. ASSUME NEW q \in Rules \ {r}
        PROVE  /\ \A i : RuleVersion(q, i)' = RuleVersion(q, i)
               /\ \A i : RuleNoticedAfter(q, i)' <=> RuleNoticedAfter(q, i)
    <2>1. \A i : RuleVersion(q, i)' = RuleVersion(q, i)
      BY <1>3 DEF RuleVersion
    <2>2. QED
      BY <1>3, <2>1 DEF RuleNoticedAfter
  <1>8. RuleChangesNoticed'
    <2> SUFFICES ASSUME NEW q \in Rules, NEW i \in 0..Len(ruleWatch'[q])
                 PROVE  SameRule(RuleVersion(q, i)', apiRule'[q]) \/ RuleNoticedAfter(q, i)'
      BY DEF RuleChangesNoticed, SameRule
    <2>1. CASE q = r
      <3>1. i \in 0..(len - 1) /\ i + 1 \in 0..len
        BY <1>5, <2>1
      <3>2. SameRule(RuleVersion(r, i + 1), apiRule[r]) \/ RuleNoticedAfter(r, i + 1)
        BY <3>1 DEF RuleChangesNoticed
      <3>3. QED
        BY <1>3, <1>4, <1>6, <2>1, <3>1, <3>2
    <2>2. CASE q # r
      BY <1>3, <1>7, <2>2 DEF RuleChangesNoticed
    <2>3. QED
      BY <2>1, <2>2
  <1>9. RuleNoticedAfter(r, 0) => Awaited(r)'
    <2> SUFFICES ASSUME RuleNoticedAfter(r, 0)
                 PROVE  RuleNoticedAfter(r, 0)' \/ r \in ruleQueue'
      BY DEF Awaited
    <2>1. PICK j \in (0 + 1)..len : RulePredicate(RuleVersion(r, j - 1), RuleVersion(r, j))
      BY DEF RuleNoticedAfter
    <2>2. CASE j = 1
      <3>1. RulePredicate(ruleStore[r], Head(ruleWatch[r]))
        BY <1>2, <2>1, <2>2 DEF RuleVersion
      <3>2. QED
        BY <3>1 DEF DeliverRule
    <2>3. CASE j # 1
      <3>1. j \in ((0 + 1) + 1)..len /\ 0 \in 0..(len - 1)
        BY <2>1, <2>3
      <3>2. RuleNoticedAfter(r, 0 + 1)
        BY <2>1, <3>1, Zenon DEF RuleNoticedAfter
      <3>3. QED
        BY <1>6, <3>1, <3>2
    <2>4. QED
      BY <2>2, <2>3
  <1>10. QED
    BY <1>7, <1>8, <1>9 DEF Awaited

\* A restart lists the rules anew.
LEMMA RuleListingIsCurrent ==
    ASSUME Crash
    PROVE  RuleChangesNoticed'
  <1> SUFFICES ASSUME NEW q \in Rules, NEW i \in 0..Len(ruleWatch'[q])
               PROVE  SameRule(RuleVersion(q, i)', apiRule'[q])
    BY DEF RuleChangesNoticed, SameRule
  <1>1. ruleWatch'[q] = <<>> /\ ruleStore'[q] = apiRule[q] /\ apiRule' = apiRule
    BY DEF Crash
  <1>2. i = 0
    BY <1>1
  <1>3. RuleVersion(q, i)' = apiRule[q]
    BY <1>1, <1>2 DEF RuleVersion
  <1>4. QED
    BY <1>1, <1>3, SameRuleComposes

\* Every step that may concern a rule: GenerationChangedPredicate lets through what
\* the rule worker has to know.
LEMMA RuleStepIsNoticed ==
    ASSUME TypeOK, RuleInv, RuleChangesNoticed, ObjectStatusStep
    PROVE  /\ RuleChangesNoticed'
           /\ Crash \/ \A q \in Rules :
                 /\ RuleNoticedAfter(q, 0) => Awaited(q)'
                 /\ SameRule(apiRule[q], apiRule'[q]) \/ Awaited(q)'
  <1> DEFINE Goal ==
        /\ RuleChangesNoticed'
        /\ Crash \/ \A q \in Rules :
              /\ RuleNoticedAfter(q, 0) => Awaited(q)'
              /\ SameRule(apiRule[q], apiRule'[q]) \/ Awaited(q)'
  <1>1. ClusterTypeOK
    BY DEF TypeOK
  <1>2. CASE UNCHANGED ruleObjects
    <2>1. UNCHANGED <<apiRule, ruleWatch, ruleStore>>
      BY <1>2 DEF ruleObjects
    <2>2. \A q, i : RuleVersion(q, i)' = RuleVersion(q, i)
      BY <2>1 DEF RuleVersion
    <2>3. \A q, i : RuleNoticedAfter(q, i)' <=> RuleNoticedAfter(q, i)
      BY <2>1, <2>2 DEF RuleNoticedAfter
    <2>4. RuleChangesNoticed'
      BY <2>1, <2>2, <2>3 DEF RuleChangesNoticed
    <2>5. \A q \in Rules : SameRule(apiRule[q], apiRule'[q])
      BY <2>1, SameRuleComposes
    <2>6. QED
      BY <2>3, <2>4, <2>5 DEF Awaited
  <1>3. ASSUME NEW r \in Rules, NEW rule \in RuleOrNull, NEW status, Put(r, rule, status),
               SameRule(apiRule[r], rule) \/ RulePredicate(apiRule[r], rule)
        PROVE  Goal
    BY <1>1, <1>3, RuleWriteIsNoticed DEF Put, Awaited
  <1>4. ASSUME NEW r \in Rules, NEW status, Put(r, apiRule[r], status)
        PROVE  Goal
    BY <1>1, <1>3, <1>4, SameRuleComposes DEF ClusterTypeOK
  <1>5. ASSUME NEW r \in Rules, NEW rule \in RuleOrNull, NEW status, Put(r, rule, status),
               RuleWritten(r, rule)
        PROVE  Goal
    <2>1. CASE apiRule[r] = Null \/ rule = Null
      BY <1>3, <1>5, <2>1 DEF RulePredicate
    <2>2. CASE apiRule[r] # Null /\ rule # Null
      <3>1. Follows(apiRule[r], rule)
        BY <1>5, <2>2, RuleAdvances
      <3>2. SameRule(apiRule[r], rule) \/ RulePredicate(apiRule[r], rule)
        BY <2>2, <3>1 DEF Follows, SameRule, RulePredicate
      <3>3. QED
        BY <1>3, <1>5, <3>2
    <2>3. QED
      BY <2>1, <2>2
  <1>6. ASSUME NEW r \in Rules, DeliverRule(r)
        PROVE  Goal
    <2>1. UNCHANGED apiRule
      BY <1>6 DEF DeliverRule
    <2>2. QED
      BY <1>1, <1>6, <2>1, RuleDeliveryIsNoticed, SameRuleComposes
  <1>7. CASE Crash
    BY <1>7, RuleListingIsCurrent
  <1>8. QED
    BY <1>2, <1>4, <1>5, <1>6, <1>7 DEF ObjectStatusStep, StatusDeliverRule, StatusCrash

\* Nothing leaves the queue unseen.
LEMMA RuleQueueKept ==
    ASSUME [Next]_vars, NEW r \in Rules, r \in ruleQueue
    PROVE  r \in ruleQueue' \/ RuleGet(r) \/ Crash
  <1>1. CASE UNCHANGED ruleQueue
    BY <1>1
  <1>2. CASE Surroundings
    <2>1. ASSUME NEW n \in Nodes, NEW kind, NEW node, NodeEvent(kind, n, node)
          PROVE  UNCHANGED ruleQueue
      BY <2>1 DEF NodeEvent
    <2>2. ASSUME NEW q \in Rules, NEW kind, NEW rule, RuleEvent(kind, q, rule)
          PROVE  UNCHANGED ruleQueue
      BY <2>2 DEF RuleEvent
    <2>3. EnvironmentNext => UNCHANGED ruleQueue
      BY <2>1, <2>2 DEF EnvironmentNext, SetCondition, SetLabels, ToggleTaint, JoinNode, LeaveNode,
                        CreateRule, EditRule, DeleteRule
    <2>4. InformerNext => r \in ruleQueue'
      BY DEF InformerNext, DeliverNode, DeliverRule
    <2>5. QED
      BY <1>2, <2>3, <2>4 DEF Surroundings
  <1>3. CASE NodeProcess
    BY <1>3 DEF NodeProcess, NodeReconcilerNext, NodeGet, getApplicableRulesForNode, NodePickRule,
                NodeEvaluate, NodeMark, NodePersistStatus, ruleSideKept
  <1>4. CASE RuleProcess
    <2>1. ASSUME NEW q \in Rules, RuleGet(q)
          PROVE  r \in ruleQueue' \/ RuleGet(r)
      BY <2>1 DEF RuleGet
    <2>2. CASE cleanupTaintsForRule \/ RuleSelector \/ cleanupNodesAfterSelectorChange \/ RuleMark
      BY <2>2 DEF cleanupTaintsForRule, CleanupList, CleanupStep, CleanupEnd, RuleSelector,
                  cleanupNodesAfterSelectorChange, RuleMark, RuleError
    <2>3. CASE RuleRemoveFinalizer \/ RuleAddFinalizer
      BY <2>3 DEF RuleRemoveFinalizer, RuleAddFinalizer, FinalizerUpdateFails, RuleError
    <2>4. CASE RuleUncache \/ RuleRefresh \/ RuleUpdateCache \/ processDryRun \/ RuleListNodes
               \/ RuleEvaluate \/ RuleEvaluateEnd
      BY <2>4 DEF RuleUncache, RuleDone, RuleRefresh, RuleUpdateCache, processDryRun, RuleListNodes,
                  RuleEvaluate, RuleEvaluateEnd
    <2>5. CASE updateRuleStatus \/ cleanupDeletedNodes
      BY <2>5 DEF updateRuleStatus, cleanupDeletedNodes, RuleDone, RuleError
    <2>6. QED
      BY <1>4, <2>1, <2>2, <2>3, <2>4, <2>5 DEF RuleProcess, RuleReconcilerNext
  <1>5. QED
    BY <1>1, <1>2, <1>3, <1>4 DEF Next, Rest, vars, clusterVars

\* A rule that is to be looked at again stays so until it is.
LEMMA StillAwaited ==
    ASSUME TypeOK, RuleInv, RuleChangesNoticed, ObjectStatusStep, [Next]_vars, NEW r \in Rules,
           Awaited(r)
    PROVE  Awaited(r)' \/ RuleGet(r) \/ Crash
  BY RuleQueueKept, RuleStepIsNoticed DEF Awaited

\* How the rule worker ends with a rule.
LEMMA WorkerEnds ==
    ASSUME TypeOK, RuleInv, StatusInv, [StatusNext]_allVars, rpc \notin EndSteps
    PROVE  \/ rpc' \notin EndSteps /\ rname' = rname
           \/ rname \in ruleQueue'
           \/ /\ rpc = "status" /\ UNCHANGED apiRule
              /\ apiStatus'[rname] = rstatus
           \/ rname \in Rules /\ apiRule'[rname] = Null
           \/ Crash
  <1> USE DEF EndSteps
  <1>1. rname \in Rules
    BY DEF TypeOK, RuleReconcilerTypeOK
  <1>2. CASE UNCHANGED ruleReconcilerVars
    BY <1>2 DEF ruleReconcilerVars
  <1>3. CASE StatusRuleProcess
    <2>1. CASE RuleFetchAgain \/ RuleCacheStatus \/ RuleDryRun \/ RuleList \/ RuleRecord \/ RuleObserve
      BY <2>1 DEF RuleFetchAgain, RuleRefresh, RuleCacheStatus, RuleUpdateCache, RuleDryRun,
          processDryRun, RuleList, RuleListNodes, RuleRecord, RuleEvaluate, RuleObserve,
          RuleEvaluateEnd, RuleStepTo
    <2>2. CASE RuleOtherStep
      BY <2>2 DEF RuleOtherStep, cleanupTaintsForRule, CleanupList, CleanupStep, CleanupEnd,
            RuleSelector, cleanupNodesAfterSelectorChange, RuleMark, RuleError, RuleStepTo
    <2>3. CASE RuleAddFinalizer
      BY <2>3 DEF RuleAddFinalizer, FinalizerUpdateFails, RuleError, RuleStepTo
    <2>4. CASE RuleRemoveFinalizer
      <3>1. CASE WriteRule(rname, Null)
        BY <1>1, <3>1 DEF WriteRule, TypeOK, ClusterTypeOK
      <3>2. QED
        BY <2>4, <3>1 DEF RuleRemoveFinalizer, FinalizerUpdateFails, RuleError
    <2>5. CASE RuleWriteStatus
      <3>1. CASE rpc' = "idle"
        BY <2>5, <3>1 DEF RuleWriteStatus, updateRuleStatus, RuleStepTo, RuleError
      <3>2. CASE rpc' = "prune" /\ WriteStatus(rname, rstatus)
        <4>1. apiStatus'[rname] = rstatus
          BY <1>1, <3>2 DEF WriteStatus, StatusInv, ObjectStatusesGood, ObjectStatusesIn
        <4>2. /\ rpc = "status"
              /\ UNCHANGED rulesKept \/ (RuleFresh(rname) /\ WriteRule(rname, ruleStore[rname]))
          BY <2>5, <3>2 DEF RuleWriteStatus, updateRuleStatus, WriteStatusOK, RuleError, RuleReturn
        <4>3. UNCHANGED apiRule
          BY <1>1, <4>2, FreshIsCurrent DEF rulesKept, WriteRule, TypeOK, ClusterTypeOK
        <4>4. QED
          BY <4>1, <4>2, <4>3
      <3>3. QED
        BY <2>5, <3>1, <3>2 DEF RuleWriteStatus
    <2>6. ~RuleUncacheStatus /\ ~RulePrune /\ \A r \in Rules : ~RuleFetch(r)
      BY DEF RuleUncacheStatus, RuleUncache, RulePrune, cleanupDeletedNodes, RuleFetch, RuleGet
    <2>7. QED
      BY <1>3, <2>1, <2>2, <2>3, <2>4, <2>5, <2>6 DEF StatusRuleProcess, RuleFinalizerUpdate
  <1>4. QED
    BY <1>2, <1>3
    DEF StatusNext, StatusEnvironment, StatusDeliverNode, StatusDeliverRule, StatusNodeProcess,
        StatusCrash, RulePruneList, Rest, allVars, vars

\* What the rule worker has computed.
LEMMA StatusStaysComputed ==
    ASSUME TypeOK, StatusInv, ObservedInv, StatusComputed, [StatusNext]_allVars
    PROVE  StatusComputed'
  <1>1. rstatus \in GoodStatus
    BY DEF StatusInv, WorkerStatusesGood
  <1>2. CASE UNCHANGED <<ruleReconcilerVars, rstatus>>
    BY <1>2 DEF ruleReconcilerVars, StatusComputed, Settled
  <1>3. ASSUME rpc' \notin {"list", "evaluate", "mark", "dryRun", "status"}
        PROVE  StatusComputed'
    BY <1>3 DEF StatusComputed
  <1>4. CASE StatusRuleProcess
    <2>1. ASSUME NEW r \in Rules, RuleFetch(r)
          PROVE  StatusComputed'
      <3>1. CASE ruleStore[r] = Null
        BY <1>3, <2>1, <3>1 DEF RuleFetch, RuleGet, ruleReconcilerVars
      <3>2. CASE ruleStore[r] # Null
        <4>1. ruleStore[r] \in Rule
          BY <3>2 DEF TypeOK, ClusterTypeOK, RuleOrNull
        <4>2. rpc' \in {"cleanupList", "selector", "addFinalizer"}
          BY <2>1, <3>2, <4>1 DEF RuleFetch, RuleGet, StepAfterGet, Rule
        <4>3. QED
          BY <1>3, <4>2
      <3>3. QED
        BY <3>1, <3>2
    <2>2. CASE RuleUncacheStatus \/ RuleFetchAgain \/ RuleFinalizerUpdate \/ RulePrune \/ RuleWriteStatus
      BY <1>3, <2>2 DEF RuleUncacheStatus, RuleUncache, RuleFetchAgain, RuleRefresh,
          RuleFinalizerUpdate, RuleAddFinalizer, RuleRemoveFinalizer, FinalizerUpdateFails, RulePrune,
          cleanupDeletedNodes, RuleWriteStatus, RuleDone, RuleError, RuleReturn, RuleStepTo
    <2>3. CASE RuleOtherStep
      <3>1. CASE RuleMark
        BY <2>3, <3>1 DEF RuleOtherStep, RuleMark, RuleStepTo, StatusComputed
      <3>2. CASE ~RuleMark
        BY <1>3, <2>3, <3>2 DEF RuleOtherStep, cleanupTaintsForRule, CleanupList, CleanupStep,
            CleanupEnd, RuleSelector, cleanupNodesAfterSelectorChange, RuleError, RuleReturn, RuleStepTo
      <3>3. QED
        BY <3>1, <3>2
    <2>4. CASE RuleCacheStatus
      <3>1. /\ UNCHANGED rrule
            /\ rrule.spec.dryRun => rpc' = "dryRun"
            /\ ~rrule.spec.dryRun => rpc' = "list" /\ rstatus' = [rstatus EXCEPT !.dryRunResults = Null]
        BY <2>4 DEF RuleCacheStatus, RuleUpdateCache, RuleStepTo
      <3>2. [rstatus EXCEPT !.dryRunResults = Null].dryRunResults = Null
        BY <1>1 DEF GoodStatus
      <3>3. QED
        BY <3>1, <3>2 DEF StatusComputed
    <2>5. CASE RuleDryRun
      <3>1. dryRunResults(rrule.spec) \in DryRunResults
        BY DryRunIsGood DEF TypeOK
      <3>2. rstatus'.dryRunResults = dryRunResults(rrule.spec)
        BY <1>1, <2>5 DEF RuleDryRun, GoodStatus
      <3>3. rstatus'.dryRunResults # Null
        BY <3>1, <3>2, EntriesAssumption
      <3>4. rpc = "dryRun" /\ rpc' = "status" /\ UNCHANGED rrule
        BY <2>5 DEF RuleDryRun, processDryRun, RuleStepTo
      <3>5. rrule.spec.dryRun /\ rstatus.observedGeneration # rrule.generation
        BY <3>4 DEF ObservedInv, DryRunApart, CarriedFollowed, Observes
      <3>6. rstatus'.observedGeneration = rstatus.observedGeneration
        BY <1>1, <2>5 DEF RuleDryRun, GoodStatus
      <3>7. QED
        BY <3>3, <3>4, <3>5, <3>6 DEF StatusComputed, Settled
    <2>6. CASE RuleList \/ RuleRecord
      <3>1. rpc \in {"list", "evaluate"} /\ rpc' \in {"evaluate", "mark"} /\ UNCHANGED rrule
        BY <2>6 DEF RuleList, RuleListNodes, RuleRecord, RuleEvaluate, RuleStepTo
      <3>2. rstatus'.dryRunResults = rstatus.dryRunResults
        <4>1. ASSUME RuleList PROVE rstatus'.dryRunResults = rstatus.dryRunResults
          BY <1>1, <4>1 DEF RuleList, GoodStatus
        <4>2. ASSUME RuleRecord PROVE rstatus'.dryRunResults = rstatus.dryRunResults
          BY <1>1, <4>2 DEF RuleRecord, AfterPatch, recordNodeFailure, updateNodeEvaluationStatus,
                            GoodStatus
        <4>3. QED
          BY <2>6, <4>1, <4>2
      <3>3. QED
        BY <3>1, <3>2 DEF StatusComputed
    <2>7. CASE RuleObserve
      <3>1. /\ rstatus'.dryRunResults = rstatus.dryRunResults
            /\ rstatus'.observedGeneration = rrule.generation
        BY <1>1, <2>7 DEF RuleObserve, GoodStatus
      <3>2. rpc = "evaluate" /\ rpc' = "status" /\ UNCHANGED rrule
        BY <2>7 DEF RuleObserve, RuleEvaluateEnd, RuleStepTo
      <3>3. ~rrule.spec.dryRun
        BY <3>2 DEF ObservedInv, DryRunApart
      <3>4. QED
        BY <3>1, <3>2, <3>3 DEF StatusComputed, Settled
    <2>8. QED
      BY <1>4, <2>1, <2>2, <2>3, <2>4, <2>5, <2>6, <2>7 DEF StatusRuleProcess
  <1>5. CASE StatusCrash
    BY <1>3, <1>5 DEF StatusCrash, Crash, RuleReturn
  <1>6. QED
    BY <1>2, <1>4, <1>5
    DEF StatusNext, StatusEnvironment, StatusDeliverNode, StatusDeliverRule, StatusNodeProcess,
        NodeTakeRules, NodeSkipOrPick, NodeRecord, NodePersist, RulePruneList, Rest, allVars, vars,
        statusVars

\* The rule worker's copy.
LEMMA CarriedStaysNoticed ==
    ASSUME TypeOK, RuleInv, StatusInv, SettleInv, ObjectStatusStep, [StatusNext]_allVars
    PROVE  CarriedNoticed'
  <1>1. RuleChangesNoticed /\ CarriedNoticed /\ [Next]_vars
    BY StatusNextIsNext DEF SettleInv
  <1>2. ASSUME NEW r \in Rules, rname' = r, rrule' = ruleStore[r], UNCHANGED ruleObjects
        PROVE  CarriedNoticed'
    <2>1. RuleVersion(r, 0) = ruleStore[r]
      BY DEF RuleVersion
    <2>2. Len(ruleWatch[r]) \in Nat
      BY DEF TypeOK, ClusterTypeOK
    <2>3. SameRule(ruleStore[r], apiRule[r]) \/ RuleNoticedAfter(r, 0)
      BY <1>1, <2>1, <2>2 DEF RuleChangesNoticed
    <2>4. RuleNoticedAfter(r, 0)' <=> RuleNoticedAfter(r, 0)
      <3>1. \A i : RuleVersion(r, i)' = RuleVersion(r, i)
        BY <1>2 DEF RuleVersion, ruleObjects
      <3>2. QED
        BY <1>2, <3>1 DEF RuleNoticedAfter, ruleObjects
    <2>5. SameRule(rrule', apiRule'[r]) \/ Awaited(r)'
      BY <1>2, <2>3, <2>4 DEF Awaited, ruleObjects
    <2>6. CarriedNoticed' <=> (rpc' # "idle" => SameRule(rrule', apiRule'[rname']) \/ Awaited(rname)')
      BY DEF CarriedNoticed, SameRule
    <2>7. Awaited(r)' => Awaited(rname)'
      BY <1>2 DEF Awaited, RuleNoticedAfter, RuleVersion
    <2>8. QED
      BY <1>2, <2>5, <2>6, <2>7
  <1>3. ASSUME NEW r \in Rules, RuleFetch(r), ruleStore[r] # Null
        PROVE  CarriedNoticed'
    BY <1>2, <1>3 DEF RuleFetch, RuleGet, ruleObjects
  <1>4. CASE RuleFetchAgain
    <2>1. rname \in Rules
      BY <1>4 DEF RuleFetchAgain, RuleRefresh, TypeOK, RuleReconcilerTypeOK
    <2>2. QED
      BY <1>2, <1>4, <2>1 DEF RuleFetchAgain, RuleRefresh, rulesKept, ruleObjects
  <1>5. CASE rpc # "idle" /\ rpc' # "idle" /\ UNCHANGED <<rname, rrule>>
    <2>1. rname \in Rules
      BY <1>5 DEF TypeOK, RuleReconcilerTypeOK
    <2> PICK r \in Rules : r = rname
      BY <2>1
    <2>2. ~RuleGet(r) /\ ~Crash
      BY <1>5 DEF RuleGet, Crash, RuleReturn
    <2>3. SameRule(rrule, apiRule[r]) \/ Awaited(r)
      BY <1>1, <1>5 DEF CarriedNoticed
    <2>4. SameRule(apiRule[r], apiRule'[r]) \/ Awaited(r)'
      BY <1>1, <2>2, RuleStepIsNoticed
    <2>5. SameRule(rrule, apiRule'[r]) \/ Awaited(r)'
      BY <1>1, <2>2, <2>3, <2>4, StillAwaited, SameRuleComposes
    <2>6. Awaited(r)' => Awaited(rname)'
      BY <1>5 DEF Awaited, RuleNoticedAfter, RuleVersion
    <2>7. QED
      BY <1>5, <2>5, <2>6 DEF CarriedNoticed, SameRule
  <1>6. CASE rpc' = "idle"
    BY <1>6 DEF CarriedNoticed
  <1>7. QED
    BY <1>3, <1>4, <1>5, <1>6, ObservedSteps DEF RuleObserve, RuleEvaluateEnd, RuleStepTo

\* A settled rule stays settled unless its worker is out of date.
LEMMA StaysSettled ==
    ASSUME TypeOK, StatusInv, SettleInv, ObjectStatusStep, NEW r \in Rules,
           apiRule[r] # Null, apiRule'[r] # Null, SameRule(apiRule[r], apiRule'[r]),
           Settled(apiRule[r], apiStatus[r])
    PROVE  Settled(apiRule'[r], apiStatus'[r]) \/ Awaited(r)
  <1>1. apiStatus \in [Rules -> GoodStatus] /\ ClusterTypeOK
    BY DEF StatusInv, ObjectStatusesGood, ObjectStatusesIn, TypeOK
  <1>2. ASSUME apiStatus'[r].dryRunResults = apiStatus[r].dryRunResults,
               apiStatus'[r].observedGeneration = apiStatus[r].observedGeneration
        PROVE  Settled(apiRule'[r], apiStatus'[r])
    <2>1. Settled(apiRule[r], apiStatus'[r])
      BY <1>2 DEF Settled
    <2>2. QED
      BY <2>1, SameRuleComposes
  <1>3. CASE UNCHANGED apiStatus
    BY <1>2, <1>3
  <1>4. ASSUME NEW q \in Rules, NEW status \in GoodStatus, Put(q, apiRule[q], status),
               Reported(q, status)
        PROVE  Settled(apiRule'[r], apiStatus'[r]) \/ Awaited(r)
    <2>1. apiStatus'[r] = IF r = q THEN status ELSE apiStatus[r]
      BY <1>1, <1>4 DEF Put
    <2>2. apiStatus[r] \in GoodStatus /\ nstatus[r] \in GoodStatus
      BY <1>1 DEF StatusInv, WorkerStatusesGood
    <2>3. CASE r # q
      BY <1>2, <2>1, <2>3
    <2>4. ASSUME r = q, npc = "persist", status = PersistedStatus(apiStatus[r], nstatus[r], nname)
          PROVE  Settled(apiRule'[r], apiStatus'[r])
      <3>1. nname \in Nodes
        BY <2>4 DEF TypeOK, NodeReconcilerTypeOK
      <3>2. /\ status.dryRunResults = apiStatus[r].dryRunResults
            /\ status.observedGeneration = apiStatus[r].observedGeneration
        BY <2>2, <2>4, <3>1 DEF PersistedStatus, GoodStatus
      <3>3. QED
        BY <1>2, <2>1, <2>4, <3>2
    <2>5. ASSUME r = q, status = Pruned(apiStatus[r], rgone)
          PROVE  Settled(apiRule'[r], apiStatus'[r])
      <3>1. /\ status.dryRunResults = apiStatus[r].dryRunResults
            /\ status.observedGeneration = apiStatus[r].observedGeneration
        BY <2>2, <2>5 DEF Pruned, GoodStatus
      <3>2. QED
        BY <1>2, <2>1, <2>5, <3>1
    <2>6. ASSUME r = q, rpc = "status", rname = r, status = rstatus
          PROVE  Settled(apiRule'[r], apiStatus'[r]) \/ Awaited(r)
      <3>1. SameRule(rrule, apiRule[r]) \/ Awaited(r)
        BY <2>6 DEF SettleInv, CarriedNoticed
      <3>2. Settled(rrule, rstatus)
        BY <2>6 DEF SettleInv, StatusComputed
      <3>3. rrule # Null
        BY <2>6 DEF TypeOK, RuleReconcilerTypeOK
      <3>4. QED
        BY <2>1, <2>6, <3>1, <3>2, <3>3, SameRuleComposes
    <2>7. QED
      BY <1>4, <2>3, <2>4, <2>5, <2>6 DEF Reported
  <1>5. ASSUME NEW q \in Rules, NEW rule, Put(q, rule, KeptStatus(q, rule))
        PROVE  Settled(apiRule'[r], apiStatus'[r])
    <2>1. /\ apiStatus'[r] = IF r = q THEN KeptStatus(q, rule) ELSE apiStatus[r]
          /\ r = q => apiRule'[r] = rule
      BY <1>1, <1>5 DEF Put, WriteRule, ClusterTypeOK
    <2>2. apiStatus'[r] = apiStatus[r]
      BY <2>1 DEF KeptStatus
    <2>3. QED
      BY <1>2, <2>2
  <1>6. QED
    BY <1>3, <1>4, <1>5 DEF ObjectStatusStep, StatusDeliverRule, StatusCrash, apiStatusVars

\* No rule is forgotten.
LEMMA StaysSettledOrAwaited ==
    ASSUME TypeOK, RuleInv, StatusInv, SettleInv, ObjectStatusStep, [StatusNext]_allVars
    PROVE  SettledOrAwaited'
  <1> SUFFICES ASSUME NEW r \in Rules, apiRule'[r] # Null
               PROVE  \/ Settled(apiRule'[r], apiStatus'[r])
                      \/ Awaited(r)'
                      \/ rname' = r /\ rpc' \notin EndSteps
    BY DEF SettledOrAwaited, Settled, EndSteps
  <1>1. [Next]_vars /\ RuleChangesNoticed
    BY StatusNextIsNext DEF SettleInv
  <1>2. CASE Crash
    <2>1. r \in ruleQueue'
      BY <1>2 DEF Crash, Existing, TypeOK, ClusterTypeOK
    <2>2. QED
      BY <2>1 DEF Awaited
  <1>3. CASE RuleGet(r)
    <2>1. UNCHANGED <<apiRule, ruleWatch, ruleStore>>
      BY <1>3 DEF RuleGet
    <2>2. CASE ruleStore[r] = Null
      <3>1. Len(ruleWatch[r]) \in Nat
        BY DEF TypeOK, ClusterTypeOK
      <3>2. SameRule(RuleVersion(r, 0), apiRule[r]) \/ RuleNoticedAfter(r, 0)
        BY <1>1, <3>1 DEF RuleChangesNoticed
      <3>3. RuleVersion(r, 0) = Null
        BY <2>2 DEF RuleVersion
      <3>4. RuleNoticedAfter(r, 0)
        BY <2>1, <3>2, <3>3 DEF SameRule
      <3>5. \A i : RuleVersion(r, i)' = RuleVersion(r, i)
        BY <2>1 DEF RuleVersion
      <3>6. RuleNoticedAfter(r, 0)'
        BY <2>1, <3>4, <3>5 DEF RuleNoticedAfter
      <3>7. QED
        BY <3>6 DEF Awaited
    <2>3. CASE ruleStore[r] # Null
      <3>1. ruleStore[r] \in Rule
        BY <2>3 DEF TypeOK, ClusterTypeOK, RuleOrNull
      <3>2. QED
        BY <1>3, <2>3, <3>1 DEF RuleGet, StepAfterGet, Rule, EndSteps
    <2>4. QED
      BY <2>2, <2>3
  <1>4. CASE ~Crash /\ ~RuleGet(r) /\ ~Awaited(r)'
    <2>1. ~Awaited(r)
      BY <1>1, <1>4, StillAwaited
    <2>2. SameRule(apiRule[r], apiRule'[r])
      BY <1>1, <1>4, RuleStepIsNoticed
    <2>3. apiRule[r] # Null
      BY <2>2 DEF SameRule
    <2>4. CASE Settled(apiRule[r], apiStatus[r])
      BY <2>1, <2>2, <2>3, <2>4, StaysSettled
    <2>5. CASE rname = r /\ rpc \notin EndSteps
      <3>1. CASE rpc = "status" /\ UNCHANGED apiRule /\ apiStatus'[rname] = rstatus
        <4>1. SameRule(rrule, apiRule[r])
          BY <2>1, <2>5 DEF SettleInv, CarriedNoticed, EndSteps
        <4>2. Settled(rrule, rstatus)
          BY <3>1 DEF SettleInv, StatusComputed
        <4>3. rrule # Null
          BY <3>1 DEF TypeOK, RuleReconcilerTypeOK
        <4>4. QED
          BY <2>5, <3>1, <4>1, <4>2, <4>3, SameRuleComposes
      <3>2. CASE rname \in ruleQueue'
        BY <1>4, <2>5, <3>2 DEF Awaited
      <3>3. QED
        BY <1>4, <2>5, <3>1, <3>2, WorkerEnds
    <2>6. QED
      BY <2>1, <2>3, <2>4, <2>5 DEF SettleInv, SettledOrAwaited
  <1>5. QED
    BY <1>2, <1>3, <1>4

\* The status of a rule catches up with its spec although the two workers overwrite
\* each other's statuses, their writes conflict and fail, and the rule is edited in
\* between: if nobody is going to look at the rule again, its generation is observed
\* and there are no dry-run results. If it is a dry run, there are results, and its
\* generation is never observed, since processDryRun does not set it.
THEOREM StatusesSettle ==
    StatusSpec => []StatusSettled
  <1>1. StatusInit => SettleInv
    <2> SUFFICES ASSUME StatusInit PROVE SettleInv
      OBVIOUS
    <2>1. /\ apiRule \in [Rules -> RuleOrNull] /\ ruleStore = apiRule /\ rpc = "idle"
          /\ ruleQueue = Existing(apiRule)
          /\ \A r \in Rules : ruleWatch[r] = <<>>
      BY InitAssumption DEF StatusInit, Init, ClusterInit, RuleReconcilerInit
    <2>2. ASSUME NEW r \in Rules, NEW i \in 0..Len(ruleWatch[r])
          PROVE  SameRule(RuleVersion(r, i), apiRule[r])
      <3>1. i = 0
        BY <2>1, <2>2
      <3>2. RuleVersion(r, i) = apiRule[r]
        BY <2>1, <3>1 DEF RuleVersion
      <3>3. QED
        BY <3>2, SameRuleComposes
    <2>3. RuleChangesNoticed
      BY <2>2 DEF RuleChangesNoticed
    <2>4. CarriedNoticed /\ StatusComputed
      BY <2>1 DEF CarriedNoticed, StatusComputed
    <2>5. SettledOrAwaited
      BY <2>1 DEF SettledOrAwaited, Awaited, Existing
    <2>6. QED
      BY <2>3, <2>4, <2>5 DEF SettleInv
  <1>2. IInv /\ StatusInv /\ ObservedInv /\ SettleInv /\ [StatusNext]_allVars => SettleInv'
    <2> SUFFICES ASSUME IInv, StatusInv, ObservedInv, SettleInv, [StatusNext]_allVars
                 PROVE  SettleInv'
      OBVIOUS
    <2>1. TypeOK /\ RuleInv /\ RuleChangesNoticed /\ StatusComputed
      BY DEF IInv, SettleInv
    <2>2. ObjectStatusStep
      BY <2>1, NextIsStatusStep
    <2>3. QED
      BY <2>1, <2>2, RuleStepIsNoticed, CarriedStaysNoticed, StatusStaysComputed,
         StaysSettledOrAwaited DEF SettleInv
  <1>3. SettleInv => StatusSettled
    <2> SUFFICES ASSUME SettleInv, Quiescent, NEW r \in Rules, apiRule[r] # Null
                 PROVE  Settled(apiRule[r], apiStatus[r])
      BY DEF StatusSettled, Settled
    <2>1. rpc = "idle" /\ ruleQueue = {} /\ ruleWatch[r] = <<>>
      BY DEF Quiescent
    <2>2. ~RuleNoticedAfter(r, 0)
      BY <2>1 DEF RuleNoticedAfter
    <2>3. QED
      BY <2>1, <2>2 DEF SettleInv, SettledOrAwaited, Awaited, EndSteps
  <1>4. QED
    BY <1>1, <1>2, <1>3, StatusInvariant, ObservedInvariant, PTL DEF StatusSpec

-----------------------------------------------------------------------------
(* Applied nodes *)

\* The applied nodes have an entry, except for those in gone.
AccountsFor(status, gone) ==
    \A n \in status.appliedNodes :
        status.nodeEvaluations[n] # Null \/ n \in status.failedNodes \/ n \in gone

\* The nodes that the informer knows to have left.
Gone == {n \in Nodes : nodeStore[n] = Null}

\* A node that left does not come back.
GoneForGood ==
    /\ quota["join"] = 0
    /\ \A n \in Nodes :
          /\ nodeStore[n] = Null => nodeWatch[n] = <<>>
          /\ \A i \in DOMAIN nodeWatch[n] : nodeWatch[n][i] = Null => i = Len(nodeWatch[n])

\* The nodes that the rule worker still has to evaluate.
Pending == {n \in Nodes : rpc \in {"evaluate", "mark"} /\ rnodes[n] # Null}

AccountedIn(gone) == {status \in GoodStatus : AccountsFor(status, gone)}

AccountInv ==
    /\ GoneForGood
    /\ ObjectStatusesIn(AccountedIn(Gone))
    /\ AccountsFor(rstatus, Gone \union Pending)
    /\ rgone \subseteq Gone

\* A node that has left is not written, patched or marked, and nothing of it is left
\* for the informer to receive.
LEMMA DepartureIsFinal ==
    ASSUME TypeOK, NodesCatchUp, GoneForGood, [Next]_vars
    PROVE  GoneForGood' /\ \A n \in Gone : nodeStore'[n] = Null
  <1>1. NodeStep /\ quota'["join"] = 0
    BY NextIsNodeStep, SpentStaysSpent DEF GoneForGood, EventKinds
  <1>2. /\ apiNode \in [Nodes -> NodeOrNull] /\ nodeStore \in [Nodes -> NodeOrNull]
        /\ nodeWatch \in [Nodes -> Seq(NodeOrNull)]
    BY DEF TypeOK, ClusterTypeOK
  <1> DEFINE Ends(watch) == \A i \in DOMAIN watch : watch[i] = Null => i = Len(watch)
             Final(n) == (nodeStore[n] = Null => nodeWatch[n] = <<>>) /\ Ends(nodeWatch[n])
             Kept(n) == nodeStore[n] = Null => nodeStore'[n] = Null
  <1>3. \A n \in Nodes : Final(n)
    BY DEF GoneForGood
  <1>4. SUFFICES \A n \in Nodes : Final(n)' /\ Kept(n)
    BY <1>1 DEF GoneForGood, Gone
  <1>5. CASE UNCHANGED nodeObjects
    BY <1>3, <1>5 DEF nodeObjects
  <1>6. ASSUME NEW n \in Nodes, NEW node \in NodeOrNull, apiNode[n] # Null, WriteNode(n, node),
               UNCHANGED nodeStore
        PROVE  \A m \in Nodes : Final(m)' /\ Kept(m)
    <2>1. /\ nodeWatch'[n] = IF node = apiNode[n] THEN nodeWatch[n] ELSE Append(nodeWatch[n], node)
          /\ \A m \in Nodes \ {n} : nodeWatch'[m] = nodeWatch[m]
      BY <1>2, <1>6 DEF WriteNode
    <2>2. nodeStore[n] # Null
      BY <1>3, <1>6 DEF NodesCatchUp
    <2>3. nodeWatch[n] \in Seq(NodeOrNull)
      BY <1>2
    <2>4. \A i \in DOMAIN nodeWatch[n] : nodeWatch[n][i] # Null
      <3>1. ASSUME NEW i \in DOMAIN nodeWatch[n], nodeWatch[n][i] = Null
            PROVE  FALSE
        <4>1. nodeWatch[n] # <<>>
          BY <2>3, <3>1
        <4>2. nodeWatch[n][Len(nodeWatch[n])] = apiNode[n] /\ i = Len(nodeWatch[n])
          BY <1>3, <3>1, <4>1 DEF NodesCatchUp
        <4>3. QED
          BY <1>6, <3>1, <4>2
      <3>2. QED
        BY <3>1
    <2>5. Ends(Append(nodeWatch[n], node))
      <3>1. \A i \in DOMAIN Append(nodeWatch[n], node) :
               \/ i \in DOMAIN nodeWatch[n] /\ Append(nodeWatch[n], node)[i] = nodeWatch[n][i]
               \/ i = Len(Append(nodeWatch[n], node))
        BY <2>3
      <3>2. QED
        BY <2>4, <3>1, Zenon
    <2>6. Final(n)'
      BY <1>3, <1>6, <2>1, <2>2, <2>5
    <2>7. QED
      BY <1>3, <1>6, <2>1, <2>6
  <1>7. CASE PlainWrite
    <2>1. ~Spend("join")
      BY DEF Spend, GoneForGood
    <2>2. QED
      BY <1>6, <1>7, <2>1 DEF PlainWrite
  <1>8. CASE MarkingWrite
    <2>1. PICK n \in Nodes, r \in Rules :
             /\ nodeStore[n] # Null /\ nodeWatch[n] = <<>>
             /\ WriteNode(n, [nodeStore[n] EXCEPT !.completed = @ \union {r}])
             /\ UNCHANGED nodeStore
      BY <1>8 DEF MarkingWrite
    <2>2. nodeStore[n] \in Node /\ apiNode[n] # Null
      BY <1>2, <2>1 DEF NodeOrNull, NodesCatchUp
    <2>3. [nodeStore[n] EXCEPT !.completed = @ \union {r}] \in NodeOrNull
      BY <2>2 DEF Node, NodeOrNull
    <2>4. QED
      BY <1>6, <2>1, <2>2, <2>3
  <1>9. ASSUME NEW n \in Nodes, DeliverNode(n)
        PROVE  \A m \in Nodes : Final(m)' /\ Kept(m)
    <2> DEFINE watch == nodeWatch[n]
               rest == Tail(watch)
    <2>1. watch \in Seq(NodeOrNull) /\ watch # <<>>
      BY <1>2, <1>9 DEF DeliverNode
    <2>2. /\ nodeWatch'[n] = rest
          /\ nodeStore'[n] = watch[1]
          /\ \A m \in Nodes \ {n} : nodeWatch'[m] = nodeWatch[m] /\ nodeStore'[m] = nodeStore[m]
      BY <1>2, <1>9, <2>1 DEF DeliverNode
    <2>3. Ends(watch) /\ nodeStore[n] # Null
      BY <1>3, <2>1
    <2>4. /\ rest \in Seq(NodeOrNull) /\ Len(watch) \in Nat /\ Len(rest) = Len(watch) - 1
          /\ 1 \in DOMAIN watch
          /\ \A i \in DOMAIN rest : i \in Nat /\ i + 1 \in DOMAIN watch /\ rest[i] = watch[i + 1]
      BY <2>1
    <2> HIDE DEF rest, watch
    <2>5. watch[1] = Null => rest = <<>>
      <3>1. watch[1] = Null => Len(rest) = 0
        BY <2>3, <2>4
      <3>2. Len(rest) = 0 => rest = <<>>
        BY <2>4
      <3>3. QED
        BY <3>1, <3>2
    <2>6. Ends(rest)
      <3>1. ASSUME NEW i \in DOMAIN rest, rest[i] = Null PROVE i = Len(rest)
        <4>1. i \in Nat /\ i + 1 = Len(watch)
          BY <2>3, <2>4, <3>1
        <4>2. QED
          BY <2>4, <4>1
      <3>2. QED
        BY <3>1
    <2>7. Final(n)' /\ Kept(n)
      BY <2>2, <2>3, <2>5, <2>6
    <2>8. QED
      BY <1>3, <2>2, <2>7
  <1>10. CASE Crash
    <2>1. \A n \in Nodes : nodeWatch'[n] = <<>> /\ nodeStore'[n] = apiNode[n]
      BY <1>10 DEF Crash
    <2>2. \A n \in Nodes : Kept(n)
      BY <1>3, <2>1 DEF NodesCatchUp
    <2>3. QED
      BY <2>1, <2>2
  <1>11. QED
    BY <1>1, <1>5, <1>7, <1>8, <1>9, <1>10 DEF NodeStep

\* What is accounted for stays so when more nodes have left.
LEMMA AccountsForMore ==
    ASSUME NEW status, NEW gone, NEW more, gone \subseteq more, AccountsFor(status, gone)
    PROVE  AccountsFor(status, more)
  BY DEF AccountsFor

\* The node worker replaces the entries of a node it has an evaluation of.
LEMMA PersistedAccounts ==
    ASSUME NEW latest \in GoodStatus, NEW mine \in GoodStatus, NEW n \in Nodes, NEW gone,
           mine.nodeEvaluations[n] # Null, AccountsFor(latest, gone)
    PROVE  AccountsFor(PersistedStatus(latest, mine, n), gone)
  <1> DEFINE status == PersistedStatus(latest, mine, n)
  <1>1. /\ status.appliedNodes = latest.appliedNodes
        /\ status.failedNodes = (latest.failedNodes \ {n}) \union (mine.failedNodes \intersect {n})
        /\ status.nodeEvaluations = [latest.nodeEvaluations EXCEPT ![n] = mine.nodeEvaluations[n]]
    BY PersistedIsGood
  <1>2. latest.appliedNodes \subseteq Nodes /\ DOMAIN latest.nodeEvaluations = Nodes
    BY DEF GoodStatus
  <1> HIDE DEF status
  <1>3. ASSUME NEW m \in latest.appliedNodes
        PROVE  status.nodeEvaluations[m] # Null \/ m \in status.failedNodes \/ m \in gone
    BY <1>1, <1>2 DEF AccountsFor
  <1>4. AccountsFor(status, gone)
    BY <1>1, <1>3 DEF AccountsFor
  <1>5. QED
    BY <1>4 DEF status

\* cleanupDeletedNodes drops the entries of nodes that have left.
LEMMA PrunedAccounts ==
    ASSUME NEW status \in GoodStatus, AccountsFor(status, Gone), rgone \subseteq Gone
    PROVE  AccountsFor(Pruned(status, rgone), Gone)
  <1> DEFINE pruned == Pruned(status, rgone)
  <1>1. /\ pruned.appliedNodes = status.appliedNodes
        /\ pruned.failedNodes = status.failedNodes
        /\ pruned.nodeEvaluations =
              [n \in Nodes |-> IF n \in rgone THEN Null ELSE status.nodeEvaluations[n]]
    BY PrunedIsGood
  <1>2. status.appliedNodes \subseteq Nodes
    BY DEF GoodStatus
  <1> HIDE DEF pruned
  <1>3. AccountsFor(pruned, Gone)
    BY <1>1, <1>2 DEF AccountsFor
  <1>4. QED
    BY <1>3 DEF pruned

\* After the evaluation of a node, or its failure, the node is accounted for.
LEMMA AfterPatchAccounts ==
    ASSUME NEW status \in GoodStatus, NEW n \in Nodes, NEW spec \in Specs, NEW node \in Node,
           NEW gone, NEW rest, rest \subseteq gone, gone \subseteq rest \union {n},
           AccountsFor(status, gone)
    PROVE  AccountsFor(AfterPatch(status, n, spec, node), rest)
  <1> DEFINE after == AfterPatch(status, n, spec, node)
             e == Evaluation(spec, node)
  <1>1. e # Null
    BY EvaluationIsGood, EntriesAssumption DEF GoodEvaluation
  <1>2. status.appliedNodes \subseteq Nodes /\ DOMAIN status.nodeEvaluations = Nodes
    BY DEF GoodStatus
  <1>3. \/ after = [status EXCEPT !.failedNodes = @ \union {n}]
        \/ after = [status EXCEPT !.nodeEvaluations[n] = e]
    BY DEF AfterPatch, recordNodeFailure, updateNodeEvaluationStatus
  <1> HIDE DEF after, e
  <1>4. \/ /\ after.appliedNodes = status.appliedNodes
           /\ after.failedNodes = status.failedNodes \union {n}
           /\ after.nodeEvaluations = status.nodeEvaluations
        \/ /\ after.appliedNodes = status.appliedNodes
           /\ after.failedNodes = status.failedNodes
           /\ after.nodeEvaluations = [status.nodeEvaluations EXCEPT ![n] = e]
    BY <1>3 DEF GoodStatus
  <1>5. after.appliedNodes = status.appliedNodes
    BY <1>4
  <1>6. ASSUME NEW m \in status.appliedNodes
        PROVE  after.nodeEvaluations[m] # Null \/ m \in after.failedNodes \/ m \in rest
    <2>1. CASE m = n
      BY <1>1, <1>2, <1>4, <2>1
    <2>2. CASE m # n
      BY <1>2, <1>4, <2>2 DEF AccountsFor
    <2>3. QED
      BY <2>1, <2>2
  <1>7. AccountsFor(after, rest)
    BY <1>5, <1>6 DEF AccountsFor
  <1>8. QED
    BY <1>7 DEF after

\* A listed node has been recorded or is going to be evaluated.
LEMMA ListAccounts ==
    ASSUME TypeOK, StatusInv, RuleList
    PROVE  AccountsFor(rstatus, Pending)'
  <1> DEFINE applied == {n \in Existing(nodeStore) : ruleAppliesTo(rrule.spec, nodeStore[n])}
             evaluations == [n \in Nodes |->
                  IF n \in applied /\ rnodes'[n] = Null
                  THEN Evaluation(rrule.spec, nodeStore[n]) ELSE rstatus.nodeEvaluations[n]]
  <1>1. rstatus \in GoodStatus /\ rrule.spec \in Specs
    BY DEF StatusInv, WorkerStatusesGood, RuleList, RuleListNodes, TypeOK, RuleReconcilerTypeOK,
           RuleOrNull, Rule
  <1>2. applied \in SUBSET Nodes /\ \A n \in applied : nodeStore[n] \in Node
    BY DEF TypeOK, ClusterTypeOK, Existing, NodeOrNull
  <1>3. rstatus' = [rstatus EXCEPT !.appliedNodes = applied, !.nodeEvaluations = evaluations]
    BY DEF RuleList
  <1> HIDE DEF applied
  <1>4. \A n \in applied : rnodes'[n] = Null => evaluations[n] # Null
    <2>1. \A n \in applied : Evaluation(rrule.spec, nodeStore[n]) # Null
      BY <1>1, <1>2, EvaluationIsGood, EntriesAssumption DEF GoodEvaluation
    <2>2. QED
      BY <1>2, <2>1
  <1> HIDE DEF evaluations
  <1>5. rstatus'.appliedNodes = applied /\ rstatus'.nodeEvaluations = evaluations
    BY <1>1, <1>3 DEF GoodStatus
  <1>6. rpc' = "evaluate"
    BY DEF RuleList, RuleListNodes, RuleStepTo
  <1>7. \A n \in applied : n \in Pending' \/ rnodes'[n] = Null
    BY <1>2, <1>6 DEF Pending
  <1>8. QED
    BY <1>4, <1>5, <1>7 DEF AccountsFor

\* The statuses of the objects.
LEMMA ObjectsStayAccounted ==
    ASSUME TypeOK, StatusInv, AccountInv, ObjectStatusStep, \A n \in Gone : nodeStore'[n] = Null
    PROVE  ObjectStatusesIn(AccountedIn(Gone))'
  <1> PICK S \in SUBSET GoodStatus : S = AccountedIn(Gone)'
    BY DEF AccountedIn, GoodStatus
  <1>1. Gone \subseteq Gone'
    BY DEF Gone
  <1>2. ASSUME NEW status \in GoodStatus, AccountsFor(status, Gone)
        PROVE  status \in S
    BY <1>1, <1>2 DEF AccountedIn, AccountsFor, GoodStatus
  <1>3. AccountedIn(Gone) \subseteq S
    BY <1>2 DEF AccountedIn
  <1>4. ObjectStatusesIn(S)
    <2>1. Seq(AccountedIn(Gone)) \subseteq Seq(S)
      BY <1>3
    <2>2. QED
      BY <1>3, <2>1 DEF AccountInv, ObjectStatusesIn
  <1>5. EmptyStatus \in S
    <2>1. AccountsFor(EmptyStatus, Gone)
      BY DEF AccountsFor, EmptyStatus
    <2>2. QED
      BY <1>2, <2>1, EmptyIsGood
  <1>6. ASSUME NEW r \in Rules, NEW status \in GoodStatus, Reported(r, status)
        PROVE  status \in S
    <2>1. apiStatus[r] \in GoodStatus /\ nstatus[r] \in GoodStatus /\ AccountsFor(apiStatus[r], Gone)
      BY DEF StatusInv, ObjectStatusesGood, AccountInv, ObjectStatusesIn, WorkerStatusesGood, AccountedIn
    <2>2. CASE /\ npc = "persist" /\ nstatus[r].nodeEvaluations[nname] # Null
               /\ status = PersistedStatus(apiStatus[r], nstatus[r], nname)
      <3>1. nname \in Nodes
        BY <2>2 DEF TypeOK, NodeReconcilerTypeOK
      <3>2. QED
        BY <1>2, <2>1, <2>2, <3>1, PersistedAccounts
    <2>3. CASE rpc = "status" /\ status = rstatus
      <3>1. Gone \union Pending = Gone
        BY <2>3 DEF Pending
      <3>2. QED
        BY <1>2, <2>3, <3>1 DEF AccountInv
    <2>4. CASE status = Pruned(apiStatus[r], rgone)
      BY <1>2, <2>1, <2>4, PrunedAccounts DEF AccountInv
    <2>5. QED
      BY <1>6, <2>2, <2>3, <2>4 DEF Reported
  <1>7. ObjectStatusesIn(S)'
    BY <1>4, <1>5, <1>6, ObjectStatusesStay DEF TypeOK
  <1>8. QED
    BY <1>7 DEF ObjectStatusesIn

\* The rule worker's copy.
LEMMA CarriedStaysAccounted ==
    ASSUME TypeOK, StatusInv, AccountInv, [StatusNext]_allVars, \A n \in Gone : nodeStore'[n] = Null
    PROVE  AccountsFor(rstatus, Gone \union Pending)'
  <1>1. /\ AccountsFor(rstatus, Gone \union Pending) /\ rstatus \in GoodStatus
        /\ Gone \subseteq Gone'
    BY DEF AccountInv, StatusInv, WorkerStatusesGood, Gone
  <1>2. ASSUME AccountsFor(rstatus', Gone \union Pending')
        PROVE  AccountsFor(rstatus, Gone \union Pending)'
    BY <1>1, <1>2 DEF AccountsFor
  <1>3. ASSUME AccountsFor(rstatus', Gone)
        PROVE  AccountsFor(rstatus, Gone \union Pending)'
    BY <1>2, <1>3 DEF AccountsFor
  <1>4. CASE UNCHANGED <<rpc, rnodes, rstatus>>
    BY <1>1, <1>2, <1>4 DEF Pending
  <1>5. CASE rstatus' = EmptyStatus
    BY <1>3, <1>5 DEF AccountsFor, EmptyStatus
  <1>6. ASSUME rpc \notin {"evaluate", "mark"} \/ rnodes = NoNodes,
               rstatus'.appliedNodes = rstatus.appliedNodes,
               rstatus'.failedNodes = rstatus.failedNodes,
               rstatus'.nodeEvaluations = rstatus.nodeEvaluations
        PROVE  AccountsFor(rstatus, Gone \union Pending)'
    <2>1. Gone \union Pending = Gone
      BY <1>6 DEF Pending, NoNodes
    <2>2. QED
      BY <1>1, <1>3, <1>6, <2>1 DEF AccountsFor
  <1>7. ASSUME NEW r \in Rules, rstatus' = statusStore[r]
        PROVE  AccountsFor(rstatus, Gone \union Pending)'
    BY <1>3, <1>7 DEF AccountInv, ObjectStatusesIn, AccountedIn
  <1>8. CASE StatusRuleProcess
    <2>1. ASSUME NEW r \in Rules, RuleFetch(r)
          PROVE  AccountsFor(rstatus, Gone \union Pending)'
      <3>1. CASE ruleStore[r] = Null
        BY <1>4, <2>1, <3>1 DEF RuleFetch, RuleGet, ruleReconcilerVars
      <3>2. CASE ruleStore[r] # Null
        BY <1>7, <2>1, <3>2 DEF RuleFetch
      <3>3. QED
        BY <3>1, <3>2
    <2>2. CASE RuleFetchAgain
      <3>1. rname \in Rules
        BY <2>2 DEF RuleFetchAgain, RuleRefresh, TypeOK, RuleReconcilerTypeOK
      <3>2. QED
        BY <1>7, <2>2, <3>1 DEF RuleFetchAgain
    <2>3. CASE RuleUncacheStatus \/ RulePrune
      BY <1>5, <2>3 DEF RuleUncacheStatus, RulePrune
    <2>4. CASE RuleFinalizerUpdate \/ RuleWriteStatus
      <3>1. rpc \notin {"evaluate", "mark"} /\ rstatus' \in {EmptyStatus, rstatus}
        BY <2>4 DEF RuleFinalizerUpdate, RuleAddFinalizer, RuleRemoveFinalizer, RuleWriteStatus,
                    updateRuleStatus
      <3>2. QED
        BY <1>5, <1>6, <3>1
    <2>5. CASE RuleOtherStep
      <3>1. CASE RuleMark
        <4>1. rstatus' = rstatus /\ rnodes' = rnodes /\ rpc = "mark" /\ rpc' = "evaluate"
          BY <2>5, <3>1 DEF RuleOtherStep, RuleMark, RuleStepTo
        <4>2. QED
          BY <1>1, <1>2, <4>1 DEF Pending
      <3>2. CASE ~RuleMark
        <4>1. rpc \notin {"evaluate", "mark"} /\ rstatus' \in {EmptyStatus, rstatus}
          BY <2>5, <3>2 DEF RuleOtherStep, cleanupTaintsForRule, CleanupList, CleanupStep, CleanupEnd,
              RuleSelector, cleanupNodesAfterSelectorChange
        <4>2. QED
          BY <1>5, <1>6, <4>1
      <3>3. QED
        BY <3>1, <3>2
    <2>6. CASE RuleCacheStatus
      <3>1. rpc = "cache"
        BY <2>6 DEF RuleCacheStatus, RuleUpdateCache
      <3>2. /\ rstatus'.appliedNodes = rstatus.appliedNodes
            /\ rstatus'.failedNodes = rstatus.failedNodes
            /\ rstatus'.nodeEvaluations = rstatus.nodeEvaluations
        BY <1>1, <2>6 DEF RuleCacheStatus, GoodStatus
      <3>3. QED
        BY <1>6, <3>1, <3>2
    <2>7. CASE RuleDryRun
      <3>1. rpc = "dryRun"
        BY <2>7 DEF RuleDryRun, processDryRun
      <3>2. /\ rstatus'.appliedNodes = rstatus.appliedNodes
            /\ rstatus'.failedNodes = rstatus.failedNodes
            /\ rstatus'.nodeEvaluations = rstatus.nodeEvaluations
        BY <1>1, <2>7 DEF RuleDryRun, GoodStatus
      <3>3. QED
        BY <1>6, <3>1, <3>2
    <2>8. CASE RuleObserve
      <3>1. rnodes = NoNodes
        BY <2>8 DEF RuleObserve, RuleEvaluateEnd
      <3>2. /\ rstatus'.appliedNodes = rstatus.appliedNodes
            /\ rstatus'.failedNodes = rstatus.failedNodes
            /\ rstatus'.nodeEvaluations = rstatus.nodeEvaluations
        BY <1>1, <2>8 DEF RuleObserve, GoodStatus
      <3>3. QED
        BY <1>6, <3>1, <3>2
    <2>9. CASE RuleList
      <3>1. AccountsFor(rstatus', Pending')
        BY <2>9, ListAccounts DEF AccountsFor
      <3>2. QED
        BY <1>2, <3>1 DEF AccountsFor
    <2>10. CASE RuleRecord
      <3>1. PICK n \in Nodes :
               /\ rnodes'[n] # rnodes[n]
               /\ rstatus' = AfterPatch(rstatus, n, rrule.spec, rnodes[n])
        BY <2>10 DEF RuleRecord
      <3>2. rnodes \in [Nodes -> NodeOrNull] /\ rrule.spec \in Specs
        BY <2>10 DEF RuleRecord, RuleEvaluate, TypeOK, RuleReconcilerTypeOK, RuleOrNull, Rule
      <3>3. PICK m \in Nodes : rnodes[m] # Null /\ rnodes' = [rnodes EXCEPT ![m] = Null]
        BY <2>10 DEF RuleRecord, RuleEvaluate
      <3>4. m = n /\ rnodes[n] \in Node
        BY <3>1, <3>2, <3>3 DEF NodeOrNull
      <3>5. rpc = "evaluate" /\ rpc' \in {"evaluate", "mark"}
        BY <2>10 DEF RuleRecord, RuleEvaluate
      <3>6. Pending' = Pending \ {n}
        BY <3>2, <3>3, <3>4, <3>5 DEF Pending
      <3>7. /\ Gone \union Pending' \subseteq Gone \union Pending
            /\ Gone \union Pending \subseteq (Gone \union Pending') \union {n}
        BY <3>6
      <3> PICK gone \in SUBSET Nodes, rest \in SUBSET Nodes :
               gone = Gone \union Pending /\ rest = Gone \union Pending'
        BY DEF Gone, Pending
      <3>8. AccountsFor(AfterPatch(rstatus, n, rrule.spec, rnodes[n]), rest)
        BY <1>1, <3>2, <3>4, <3>7, AfterPatchAccounts
      <3>9. QED
        BY <1>2, <3>1, <3>8
    <2>11. QED
      BY <1>8, <2>1, <2>2, <2>3, <2>4, <2>5, <2>6, <2>7, <2>8, <2>9, <2>10 DEF StatusRuleProcess
  <1>9. CASE StatusCrash
    BY <1>5, <1>9 DEF StatusCrash
  <1>10. QED
    BY <1>4, <1>8, <1>9
    DEF StatusNext, StatusEnvironment, StatusDeliverNode, StatusDeliverRule, StatusNodeProcess,
        NodeTakeRules, NodeSkipOrPick, NodeRecord, NodePersist, RulePruneList, Rest, allVars, vars,
        statusVars, ruleReconcilerVars

\* The two workers overwrite each other's entries from copies of different age, writes
\* fail, entries are pruned; still a node that the rule is said to be applied to has an
\* evaluation or is listed as failed until the informer knows that it has left, where
\* no node comes back under the name of one that has left. (The prune keeps
\* appliedNodes, so that the new node is not accounted for until the next evaluation.)
THEOREM AppliedNodesAreAccounted ==
    ASSUME Quota["join"] = 0
    PROVE  StatusSpec => []AppliedNodesAccounted
  <1>1. StatusInit => AccountInv
    <2> SUFFICES ASSUME StatusInit PROVE AccountInv
      OBVIOUS
    <2>1. GoneForGood
      BY DEF StatusInit, Init, ClusterInit, GoneForGood
    <2>2. AccountsFor(EmptyStatus, Gone) /\ AccountsFor(EmptyStatus, Gone \union Pending)
      BY DEF AccountsFor, EmptyStatus
    <2>3. EmptyStatus \in AccountedIn(Gone)
      BY <2>2, EmptyIsGood DEF AccountedIn
    <2>4. ObjectStatusesIn(AccountedIn(Gone))
      BY <2>3 DEF StatusInit, ObjectStatusesIn, EmptyStatuses
    <2>5. QED
      BY <2>1, <2>2, <2>4 DEF AccountInv, StatusInit
  <1>2. IInv /\ NodesCatchUp /\ StatusInv /\ AccountInv /\ [StatusNext]_allVars => AccountInv'
    <2> SUFFICES ASSUME IInv, NodesCatchUp, StatusInv, AccountInv, [StatusNext]_allVars
                 PROVE  AccountInv'
      OBVIOUS
    <2>1. TypeOK /\ RuleInv /\ GoneForGood /\ [Next]_vars
      BY StatusNextIsNext DEF IInv, AccountInv
    <2>2. GoneForGood' /\ \A n \in Gone : nodeStore'[n] = Null
      BY <2>1, DepartureIsFinal
    <2>3. ObjectStatusStep
      BY <2>1, NextIsStatusStep
    <2>4. rgone' \subseteq Gone'
      <3>1. Gone \subseteq Gone'
        BY <2>2 DEF Gone
      <3>2. CASE UNCHANGED rgone \/ rgone' = {}
        BY <3>1, <3>2 DEF AccountInv
      <3>3. CASE RulePruneList
        BY <3>1, <3>3 DEF RulePruneList, Existing, Gone, TypeOK, ClusterTypeOK, IInv
      <3>4. QED
        BY <3>2, <3>3
        DEF StatusNext, StatusEnvironment, StatusDeliverNode, StatusDeliverRule, StatusNodeProcess,
            NodeTakeRules, NodeSkipOrPick, NodeRecord, NodePersist, StatusRuleProcess, StatusCrash,
            allVars, statusVars
    <2>5. QED
      BY <2>1, <2>2, <2>3, <2>4, ObjectsStayAccounted, CarriedStaysAccounted DEF AccountInv
  <1>3. AccountInv => AppliedNodesAccounted
    <2> SUFFICES ASSUME AccountInv, NEW r \in Rules, NEW n \in apiStatus[r].appliedNodes
                 PROVE  \/ apiStatus[r].nodeEvaluations[n] # Null
                        \/ n \in apiStatus[r].failedNodes
                        \/ nodeStore[n] = Null
      BY DEF AppliedNodesAccounted
    <2>1. AccountsFor(apiStatus[r], Gone)
      BY DEF AccountInv, ObjectStatusesIn, AccountedIn
    <2>2. QED
      BY <2>1 DEF AccountsFor, Gone
  <1>4. QED
    BY <1>1, <1>2, <1>3, StatusInvariant, PTL DEF StatusSpec
=============================================================================
