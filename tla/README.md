# Node readiness controller: TLA+ models, checks and proofs

The node readiness controller puts a taint on every node that does not meet the
conditions of a `NodeReadinessRule`, and removes it when the node does. This
directory models its two reconcilers and its webhook as they run: concurrently, on
informer copies that may be stale, against an API server that may fail, in a
process that may die at any step. All paths below are relative to the repository.

## The system

| Component | State it keeps | Operations | Talks to |
|---|---|---|---|
| `ReadinessGateController` (`internal/controller/nodereadinessrule_controller.go`) | `ruleCache` under a RW mutex; `globalDryRun`, which nothing sets | evaluate a rule on a node, patch taints, mark bootstrap completion, cleanup, update the cache | API server through the manager's client |
| `RuleReconciler` (same file) | none between calls; one worker | finalizer, deletion, selector change, cache, dry run, evaluation of all nodes, two status writes | shares the cache with the node reconciler |
| `NodeReconciler` (`internal/controller/node_controller.go`) | none between calls; one worker | evaluate one node against all cached rules, one status write per rule | reads the cache, and changes the status of the cached objects in place |
| Validating webhook (`internal/webhook`) | none | admits or rejects creations and updates of rules; disabled by default | lists the rules of the same informer |
| Informers, work queues, API server (external) | objects and their versions, the informers' copies, queued names | delivery of versions, event predicates, optimistic concurrency, finalizers, status subresource | everything |
| Controller process (`cmd/main.go`) | all of the above but the API server | start, crash | |
| API types (`api/v1alpha1`) | | | |

What is hard to get right here, and hard to test:

* **Two writers.** Both reconcilers patch the same node from their own copy; a
  patch replaces the whole taint list and carries no resourceVersion. Both write
  the status of the same rule, each from a status it read or kept earlier.
* **Stale reads.** `Get` and `List` read an informer. Each worker carries
  snapshots (the nodes listed, the rules taken from the cache, the rule fetched)
  over several API calls; the webhook validates against the informer's rules.
* **No polling.** Neither reconciler asks to be called again. Everything rests on
  events, which a predicate may drop.
* **Volatile knowledge.** The previous selector of a rule is known only to the
  cache; a restart forgets it.
* **Failures half-way.** A loop over nodes goes on after an error; some errors
  requeue, others are only logged.
* **Finalizers.** A rule in the cache must not vanish from the API server without
  the cleanup. The finalizer is added and removed by Updates that the webhook
  sees like any other.

What makes the parts correct:

* `RuleReconciler`: an enforced rule has its finalizer; the finalizer goes only
  after the cleanup; deletion ends; the cache follows the API server.
* `NodeReconciler` with `RuleReconciler`: a wrong node is always about to be
  looked at again; rules converge; what the status says of a node fits together,
  and lags behind but never ahead of the spec.
* `markBootstrapCompleted`: marks are only added, and undo nothing.
* Webhook with `RuleReconciler`: two conflicting rules may exist for a moment, but
  only one is enforced, and the other takes over when it goes.

`PROJECT.json` lists the hazards line by line with the properties that watch them.

## Modules

| Module | Models |
|---|---|
| `ReadinessRule` | the data; condition evaluation, the switch of `evaluateRuleForNode`, selectors (labels and expressions), the comparisons used by the predicates |
| `Webhook` | `validateSpec`, the conflict test and its selector heuristic, what `ValidateCreate` and `ValidateUpdate` may answer |
| `Cluster` | API server, informers, queues, both event predicates; kubelets, condition reporters and people as the environment, people's writes of rules subject to the webhook |
| `GateController` | rule cache, taint patches, `markBootstrapCompleted` |
| `NodeReconciler` | `Reconcile` and `processNodeAgainstAllRules`, one step per read or call |
| `RuleReconciler` | `Reconcile` with deletion, finalizer, selector change, dry run, `processAllNodesForRule`, status writes |
| `ReadinessSystem` | both reconcilers together with the cluster, crashes, fairness, the properties, the refinement and the inductive invariants |
| `RuleLifecycle` | abstract specification: what the finalizer protocol is for, without informers, workers or failures |
| `RuleStatus` | the content of `NodeReadinessRule.status`, superposed on every step of `ReadinessSystem` |
| `DocumentedClaims` | what docs and comments promise and the code does not keep |
| `MCReadinessSystem`, `MCRuleStatus` | the instances for TLC |
| `ReadinessSystemProofs` | type correctness and the finalizer protocol, proved |
| `RuleLifecycleProofs` | the refinement of `RuleLifecycle`; no taint left behind by a deletion, proved |
| `NodeWritesProofs` | what a step may do to a node object; isolation of the marks, proved |
| `PredicateProofs` | what the node event predicate may drop, proved |
| `RuleWritesProofs` | what a step may do to a rule object and to the worker's copy of it; no two conflicting rules enforced, proved |
| `WakeupProofs` | no node is forgotten, proved |
| `RuleStatusProofs` | what a step may do to a status; `RuleStatus` implements `ReadinessSystem`; well-formed, consistent and isolated statuses, proved |
| `StatusReportProofs` | observed generations, settled statuses, accounted nodes, proved |

**State and code.** `apiNode`, `apiRule` are the objects in the API server;
`nodeWatch[n]`, `ruleWatch[r]` the versions an informer has not received;
`nodeStore`, `ruleStore` its copies, which is all that `Get` and `List` see.
`npc`/`rpc` say where each worker is; `nnode`, `nrules`, `rrule`, `rnodes` are the
local variables it carries from one call to the next. A resourceVersion is not a
number: a copy has the current one if nothing newer is on its way
(`NodeFresh`, `RuleFresh`), and the rule carried since `RuleGet` has it while
`held` names the rule, which any write to the rule undoes.

A step is one access to shared state: an informer read, an API call, a cache
access. The code between two accesses is local and cannot be interleaved with
anything observable, so it belongs to the step before it.

**Status.** In `ReadinessSystem` a status write only says whether it makes a new
version of the rule, which is all that conflicts and events depend on.
`RuleStatus` adds the content: `apiStatus` with its own watch and store
(`statusWatch`, `statusStore`, version by version next to `ruleWatch` and
`ruleStore`), `cachedStatus` in the cached objects, `rstatus` in the rule worker's
copy, `nstatus` in the objects the node worker works on, and `rgone` the nodes that
were missing when `cleanupDeletedNodes` listed them, which it prunes from a status it
reads later. The objects the node worker works on are the cached
objects themselves until the rule worker replaces them: `nshared` says which still
are, and what the node worker records in a shared one is seen in the cache. Every
step of `RuleStatus` is a step of `ReadinessSystem` with its effect on the
statuses conjoined; where the content decides (nothing to prune, no entry to
replace, an update that changes nothing) it selects among the outcomes the base
step leaves open.

**Webhook.** It has no state of its own, so it is a pair of operators,
`MayAdmit` and `MayReject`, which guard `CreateRule` and `EditRule` and the two
finalizer Updates. `WebhookEnabled` is the flag; with `ListMayFail` it may also let
a conflicting rule pass, as the code does when it cannot list the rules. Status
writes and deletions do not pass through it.

**Abstractions.**

* A node's taints are a set of (key, effect) pairs, since `hasTaintBySpec` looks
  at nothing else; condition reasons, messages and times are left out.
* The lists of a status are keyed by node name, so they are functions and sets;
  times, reasons and messages are left out.
* `BadLabelKeys` are keys that `LabelSelectorAsSelector` rejects. A parsed
  selector is the set of its requirements, which is what its canonical string
  tells apart.
* Label comparison keeps the code's treatment of absent keys (`MapGet`), the
  comparison of expressions its one-way test.
* The cleanup finalizer is the only one, and nobody removes it by hand. Then a
  rule that is being deleted has the finalizer, and the re-read after the
  finalizer update finds the rule (proved as part of `TypeCorrect`).
* `RetryOnConflict` is one step: all attempts read the same informer, and the
  outcome is a write of a current copy or an error.
* In the two loops over listed nodes, nodes on which the loop body does nothing
  are not in `rnodes`; the body reads only the snapshot, so this is decided when
  the list is taken.
* Lists and Gets of the manager's client read the informer and do not fail
  (except as said for the webhook); every write may fail (`fault`).

## Runs

`SafeSpec` and `StatusSpec` have no fairness and are used for safety; `Spec` and
`FifoSpec` add it. TLC is run with deadlock checking: `Rest` stutters in states
where both workers are idle and nothing is queued or on its way, so any other
state without a step is an error.

| Run | Checks | Shows |
|---|---|---|
| `lifecycle` | `EnforcedRulesGuarded`, `NoConflictEnforced`, `FollowsLifecycle`, `ConflictsResolve` | webhook on, two rules, two creations (also of conflicting rules at the same time, or of one rule again), a deletion, a crash, a failure: the finalizer protocol implements `RuleLifecycle`; of two rules with the same taint and selector only one is enforced; when it goes, the other is |
| `convergence` | `NoLostWakeup`, `EnforcementConverges` | condition, taint, label and spec changes (other required status, omitted mode, dry run) race both workers: a wrong node is always about to be evaluated, and the rule is enforced in the end |
| `two_rules` | `NoLostWakeup` | the same with two rules that overwrite each other's taint lists on one node |
| `deletion` | `CleanBeforeGone`, `CompletesLifecycle`, `CacheTracksRules` | two nodes that meet the rule: both are clean before the rule goes even if one removal fails or the process dies on the way, deletion ends, the cache follows |
| `bootstrap` | `TypeOK`, `NoLostWakeup`, `MarkingIsIsolated`, `EnforcementConverges` | marks race a condition change and a node that leaves and rejoins: a mark undoes nothing, and a node that did not get its mark is still enforced |
| `status` | `StatusTypeOK`, `AppliedNodesAccounted`, `VerdictMatchesTaint`, `ObservedIsEnforced`, `StatusSettled`, `NodeStatusIsIsolated` | both workers write one status from copies of different age while the rule is edited to and from dry run and a selector that does not parse, a node's condition changes, a node leaves, the process dies; with the second node a write has another node's entries to disturb |

What the status properties say: a node listed as applied has an evaluation or a
failure entry; an entry's verdict on the conditions and on the taint fit together;
`observedGeneration` is never ahead of what is enforced; when nothing is left to
do an enforced rule has its generation observed and no dry-run results, and a dry-run
rule has results but not its generation, which the code never records for it; and the
node worker's write touches only its node's entries.

Six runs refute what the repository says of itself; the findings in
`PROJECT.json` quote the lines:

| Run | Refutes | How |
|---|---|---|
| `bootstrap_stuck` | `BootstrapReleases` | the rule worker lists a node, the node worker releases and marks it, the rule worker patches the taint back from its snapshot; the mark makes the node worker skip the node for ever |
| `selector_restart` | `NoTaintOutOfScope` | the old selector is only in the cache |
| `deletion_race` | `CleanBeforeGone` | on a node that does not meet the rule, the node worker, which still has the rule in the cache, taints it again after the cleanup has listed the nodes |
| `patch_failure` | `EnforcementConverges` | a failed patch is recorded and never retried |
| `webhook_deletion` | `DeletionCompletes` | two conflicting rules are created at the same time; one gets its finalizer before the informer shows the other; when it is deleted, the Update that would drop the finalizer is refused because of the other |
| `status_new_node` | `EveryNodeEvaluated` | the first entry of a node is appended to a copy that is not written |

The passing runs leave out exactly what these need: `convergence` and `bootstrap`
have no `fault`, `deletion` has nodes that meet the rule (so that nobody wants to
taint them), no webhook and no selector that does not parse.

**Known behaviours without a run of their own.**

* Every reconcile of a bootstrap-only rule, such as the one after a restart,
  evaluates nodes that have their mark, and taints those whose condition
  regressed (`processAllNodesForRule` does not look at the marks; the cause is
  that of `bootstrap_stuck`). `README.md:34` says otherwise.
* Deleting a dry-run rule, or changing its selector, removes taints from nodes:
  the cleanups do not look at `dryRun`.
* Once a selector that does not parse is in the cache, every later reconcile of
  the rule fails before the cache is updated, even if the rule was corrected.
* A rule with an empty `nodeSelector` (possible without the webhook) never gets
  its finalizer: the controller writes the rule back without the field, which the
  schema requires. If the selector was emptied later, the rule cannot be deleted.
* `labelsEqual` takes `{a: ""}` and `{b: ""}` as equal, so such a change of labels
  is not noticed. Labels with empty values are what the repository itself selects
  nodes by (`node-role.kubernetes.io/worker: ""` in `README.md:60` and
  `config/samples`). The runs have none.
* `processDryRun` (`nodereadinessrule_controller.go:543`) does not set
  `observedGeneration`, which "reflects the generation of the most recently observed
  NodeReadinessRule by the controller" (`nodereadinessrule_types.go:109`). Whoever
  waits for the generation of a dry-run rule to be observed waits for ever;
  `StatusSettled` says so in its dry-run branch, and `StatusesSettle` proves it.
* If the node reconciler's patch failed and its copy of the rule has no evaluation of
  the node, it replaces the entry in the latest status by an empty one
  (`node_controller.go:118`), which the schema refuses: the failure is not reported.
* `appliedNodes` also lists nodes whose patch failed, and an entry in
  `failedNodes` outlives the success that follows it; a status write of the rule
  worker may overwrite a newer entry of the node worker by an older one. This is
  why the status properties ask for no more than they do.
* A taint that somebody else adds between a snapshot and the patch computed from
  it is lost. A mark whose node was replaced by another of the same name lands on
  the newcomer, which the rule then never taints, although `CONTEXT.md:212` stops the
  monitoring only "until node restart/rejoin". No property catches it: a marked node is
  one that the rule is not enforced on.
* Deletion of a rule on a node that does not meet it may, with unlucky timing, go
  round for ever: cleanup makes a node event, the node worker puts the taint back
  and writes the rule's status, and the finalizer update conflicts.
* Rules with overlapping but different selectors pass the webhook and may fight
  over a taint; the code calls its test a heuristic.

**Bounds.** `Quota` says how often each kind of event happens, kind by kind, so
that each run spends its states on the events its question needs. One event of
each kind, all of them in one behaviour and in any order, gives the races the
properties are about: a snapshot taken before the event and used after it, a
second worker acting in between, and a late delivery. Longer histories of the
same kind of event are covered only where there is a proof. Most runs have one
node and one rule; two nodes in `deletion` make partial failure possible, and in
`status`, which starts with one node that is not ready or two that are, one of them
still tainted, they are what isolation is about; two rules in `two_rules` are what it takes to overwrite each other's lists, and in
`lifecycle` and `webhook_deletion` what it takes to conflict. `deletion` starts
with a new rule or one that has its finalizer, and with tainted nodes, as a process
that was restarted finds them; `bootstrap` and `status` also start with a rule that
was deleted while no process ran.

`MaxLag` bounds how many versions of an object an informer is behind. It is needed
because a patch without a resourceVersion can be repeated from a stale copy: two
rules can write alternately for as long as nothing is delivered. A writer at the
bound waits for a delivery. It is 2 in `convergence`, `two_rules` and the status
runs, which have the most writers, 3 in the runs with the webhook and 5 elsewhere.
Model values are not declared symmetric.

**Fairness.** Weak fairness of each worker (a controller-runtime worker never
stops, takes queued items and retries errors; back-off delays only) and of each
informer delivery (a watch delivers in the end). Nothing is assumed of the
environment or of crashes. With one rule, or rules that do not fail for ever, this
is enough. With the webhook a rule in conflict fails again and again, and weak
fairness would let the worker take up nothing else: `FifoSpec` adds strong fairness
of `RuleGet` for every rule, since the work queue is first in, first out and a
failed rule lines up again behind the others.

## Refinement

`RuleLifecycle` is what the finalizer protocol promises: an object is absent, new,
guarded (has the finalizer) or terminating; only a guarded or terminating rule
comes to be enforced, a rule gets its finalizer only if no earlier rule of its name
is still enforced, and a terminating rule goes in the end. `ReadinessSystem` maps
the phase to the API server's object and "enforced" to the rule cache. TLC checks
the safety part (`FollowsLifecycle`, in `lifecycle`) and the whole with fairness
(`CompletesLifecycle`, in `deletion`, without the webhook: with it, see
`webhook_deletion`); TLAPS proves the safety part.

## Proofs

TLAPS checks the following for all values of the constants that satisfy the named
assumptions: `SelectorsAssumption`, `SpecsAssumption`, `NullAssumption`,
`WebhookAssumption`, `QuotaAssumption`, `InitAssumption`, `UpdateAssumption` and
`EntriesAssumption` say what kind of thing each constant is and that `Null` is none
of them; `FiniteAssumption` and `LabelMapsAssumption` say that lists of objects and
label maps are finite, as they are in Go. There is no bound on nodes, rules, events
or lag, and the webhook may be on or off. A theorem about less says so in its
hypotheses.

| Theorem | States | Hypotheses |
|---|---|---|
| `TypeCorrect` | `SafeSpec => []TypeOK`; a worker in the middle of a reconcile holds the objects it uses | |
| `EnforcedRulesAreGuarded` | `SafeSpec => []EnforcedRulesGuarded` | |
| `ImplementsLifecycle` | `SafeSpec => FollowsLifecycle` | |
| `DeletedRulesLeaveNoTaint` | `SafeSpec => CleanBeforeGone` | `NobodyTaints` |
| `MarkingIsAlwaysIsolated` | `SafeSpec => MarkingIsIsolated` | |
| `PredicateSeesChanges` | an update of a node that the event predicate drops leaves all that an evaluation reads as it was | no empty label values in the old version |
| `WakeupsAreNeverLost` | `SafeSpec => []NoLostWakeup` | `NoFaults`, `NoEmptyLabels` |
| `ConflictsNeverEnforced` | `SafeSpec => []NoConflictEnforced` | `ConflictsChecked` |
| `StatusesImplementSystem` | `StatusSpec => SafeSpec` | |
| `StatusTypeCorrect` | `StatusSpec => []StatusTypeOK` | |
| `VerdictsMatchTaints` | `StatusSpec => []VerdictMatchesTaint` | |
| `NodeStatusIsAlwaysIsolated` | `StatusSpec => NodeStatusIsIsolated` | |
| `ObservedIsAlwaysEnforced` | `StatusSpec => []ObservedIsEnforced` | |
| `StatusesSettle` | `StatusSpec => []StatusSettled` | |
| `AppliedNodesAreAccounted` | `StatusSpec => []AppliedNodesAccounted` | `Quota["join"] = 0` |

The hypotheses are there because the code needs them:

* `NobodyTaints`: all nodes meet all rules, otherwise the node worker may taint a node
  again after the cleanup has listed it (run `deletion_race`); all rules share one
  taint, because a patch sends a whole taint list and one made for another taint may
  bring the removed one back; nobody reports a condition, moves a node by its labels
  or adds a taint by hand, and nodes join without the taint. Rules may be created,
  edited and deleted, nodes leave, patches and updates fail and the process crash.
  The instance of the run `deletion` is one of these.
* `NoFaults`: a failed patch is recorded and not retried (run `patch_failure`).
* `NoEmptyLabels`: `labelsEqual` takes a label with an empty value for a missing
  one, so that its change may go unnoticed. This excludes clusters with labels such as
  `node-role.kubernetes.io/worker: ""`, where a wakeup can be lost.
* `ConflictsChecked`: the webhook is on and can list the rules, nobody edits a rule
  (an edit that the webhook admits against a stale informer can bring two enforced
  rules into conflict), and the process does not start with two conflicting rules
  that already have the finalizer.
* `Quota["join"] = 0`: `cleanupDeletedNodes` drops the evaluation of a node that has
  left but leaves it in `appliedNodes`. A new node of that name is then listed
  without an entry until the rule is evaluated again.

**Argument for the first two.** `EnforcedRulesGuarded` is not inductive: the
worker may skip adding the finalizer because of a version it fetched, and that
version may be stale. `RuleInv` adds what excludes the bad cases:

* `InformersCatchUp`: the newest version in an informer is the current object.
* `VersionsVouched`: if a rule has no finalizer now, then no version that any
  `Get` may still return shows a live rule with the finalizer. This is the heart
  of it. The finalizer is dropped only in `RuleRemoveFinalizer`, and that update
  passes the resourceVersion check only when
* `HeldIsCurrent`: the copy that is sent is the informer's copy, with nothing
  newer on its way; and
* `StepsGuarded`: that copy is of a rule being deleted. `StepsGuarded` also keeps
  the finalizer in place from the moment the worker has seen it until it is done.

So at the drop the informer shows only the rule being deleted and then its end,
none of which lets `RuleGet` skip the finalizer. `TypeOK` needs `StepsGuarded`
(the re-read finds a rule), so both are proved in one induction, `IInv`, with one
lemma per process and one step per action.

**Argument for the refinement.** `RuleInv` gives the guards of the abstract steps:
`Enforce` needs `StepsGuarded`, `Guard` needs that a cached rule has its finalizer
(`EnforcedRulesGuarded`), `Release` that the object whose finalizer goes is the
one the worker holds (`HeldIsCurrent`). `LifecycleInv` adds that only a rule with
the finalizer is ever seen terminating, and that the finalizer is added only to a
rule without it. Each action of the system is then one abstract step or a stutter,
by a lemma of its own.

**Argument for the cleanup.** `CleanBeforeGone` is about one step; `CleanInv` says
what led up to it. Every version of a node, the informer's included, meets the rules,
and if the node has the taint now then every version of it that is still around has
it, and the same labels (`VersionsMeet`): nobody gives a node the taint. So the list
that the cleanup makes of a copy of any age has every node that is to be cleaned.
`CleanedUp` follows the list: while no removal has failed, the nodes to clean are on
it, and when the worker gets to dropping the finalizer there is none. The workers'
own copies meet the rules too (`CopiesMeet`), so that all their patches, those of
other rules included, are without the taint.

**Argument for the marks.** `NodeWritesProofs` shows that every step does one of
five things to node objects (`NodeStep`): nothing, a write that keeps the marks,
the update of `markBootstrapCompleted` from a fresh copy, a delivery, a restart.
`NodesCatchUp` then makes the fresh copy the current object.

**Argument for the predicate.** The comparisons check one inclusion and the sizes;
for finite sets that is equality, and for maps it is too as long as the value read
for a missing key differs from every value that is there.

**Argument for the wakeups.** `NoLostWakeup` says of each node that a cached rule
wants changed that it is queued, will be queued by a delivery, or is in the hands of
a worker that will act. It is not inductive: a worker may act on an old copy and
drop out, and a delivery may be one that the predicate drops. `WakeupInv` adds

* `ChangesNoticed`: of every version the informer has or will receive, either it
  looks to a worker like the node as it is, or a later delivery passes the
  predicate. A write keeps this because `PredicateSeesChanges` makes any change that
  matters visible to the predicate; completion marks, which the predicate does not
  look at, only grow and only take work away.
* `CarriedIsCached` (from `RuleWritesProofs`): what the rule worker is enforcing is
  what the cache has.

So a worker that has read a copy which turns out to be too old leaves a delivery
behind that will queue the node. One lemma per worker shows that it goes on to the
patch or leaves such a delivery; one shows that a change of the cache comes with a
rule worker that has yet to list the nodes.

**Argument for the conflicts.** The webhook sees the informer's rules, so both of two
conflicting rules can be created. `ConflictInv` says that what every version of a
rule with the finalizer shows is its spec (`GuardedShown`), hence the webhook, asked
again at the Update that adds the second finalizer, sees the first rule; so no two
rules with the finalizer conflict (`GuardedDisjoint`), and what is cached is the spec
of a rule with the finalizer (`CopiesCurrent`).

**Argument for the statuses.** `RuleStatusProofs` shows that every step does one of
five things to rules and their statuses (`ObjectStatusStep`): nothing, a version with
a status that a worker reports (one of three forms: `Reported`), a version that keeps
the status, a delivery, a restart. `StatusInv` says that statuses travel with their
versions (`StatusesCatchUp`), so that a status written from a fresh copy replaces the
one it was computed from, and that all statuses anywhere are built of entries that
fit together (`GoodStatus`). The other status theorems each add an invariant:

* `ObservedInv` for the observed generation: no version that a `Get` may still
  return is older than what its status, or the current one, says was observed, and if
  it is a dry run it is newer (`Observes`); and what the rule worker processes is a
  version of the present object, not of an earlier rule of the same name
  (`VersionsFollowed`, which rests on the finalizer protocol). So the worker that reports the current generation has put the current
  spec into the cache.
* `SettleInv` for the settled status: as for the wakeups, a version of the rule that
  is out of date is followed by one that `GenerationChangedPredicate` lets through
  (`RuleChangesNoticed`), and every rule is settled, awaited or being processed
  (`SettledOrAwaited`). That a dry run's generation is not the observed one comes from
  `ObservedInv`. A status write that fails or conflicts requeues the rule.
* `AccountInv` for the applied nodes: a node that the informer has seen leave is not
  written again (`GoneForGood`), and only such nodes are pruned (`rgone`); in every
  copy of a status, the nodes listed as applied have an entry, have left, or are still to be evaluated by the rule worker
  that holds the copy.

Every one of these invariants was checked by TLC on an instance before it was
proved.

**Only model-checked.** The liveness properties `EnforcementConverges`,
`ConflictsResolve`, `CompletesLifecycle` and `CacheTracksRules`: fairness is out of the
prover's reach. So are the violations, which are counterexamples. Every safety
property of a passing run is stated by a theorem.

## Not modelled

* Generated deep copies, scheme registration, flags, metrics, probes, version:
  no behaviour of their own.
* `SetGlobalDryRun`: nothing calls it.
* Two processes at once (leader election is off by default and, when on, lets one
  act at a time); finalizers of others.
* The data race between `getCachedRule`'s deep copy and the node worker's changes
  of a cached status: only the spec of that copy is used, and nobody changes it.
* Times, reasons, messages, the summary text of a dry run.

## Plan

1. Done: data and decisions, cluster, both reconcilers, webhook, status content,
   their composition, crashes and failures, the refinement of `RuleLifecycle`, the
   properties and proofs above.
2. Proofs: no safety property of a passing run is without a theorem. What could still
   be gained is weaker hypotheses where the code allows them, such as several taints in
   `DeletedRulesLeaveNoTaint` for rules whose scopes do not meet.
