------------------------------- MODULE Webhook -------------------------------
(***************************************************************************)
(* NodeReadinessRuleWebhook: what it answers when a rule is created or     *)
(* updated. It keeps no state; existing is the List of its client, the     *)
(* informer's copies of all rules.                                         *)
(*                                                                         *)
(* It is served by the controller process itself and only if the flag      *)
(* enable-webhook is set. Its registration covers creations and updates of *)
(* the rules, not of their status, and ValidateDelete lets everything pass.*)
(***************************************************************************)
EXTENDS ReadinessRule

CONSTANTS
    WebhookEnabled, \* the flag enable-webhook
    ListMayFail     \* the List of validateTaintConflicts may fail

ASSUME WebhookAssumption == WebhookEnabled \in BOOLEAN /\ ListMayFail \in BOOLEAN

\* The CRD's own schema has seen to it that condition types and statuses, taint
\* key and effect are there.
validateSpec(spec) ==
    /\ DOMAIN spec.conditions # {}
    /\ ValidSelector(spec.nodeSelector)
    /\ EncodesSelector(spec.nodeSelector)   \* it is not empty
    /\ spec.enforcementMode \in {"bootstrap-only", "continuous"}

\* A parsed selector, which String() writes in a canonical order: labels and
\* requirements sorted by key, values sorted.
Parsed(selector) ==
    {<<k, "=", {selector.matchLabels[k]}>> : k \in DOMAIN selector.matchLabels}
    \union {<<e.key, e.operator, Range(e.values)>> : e \in Expressions(selector)}

\* Mutant: the heuristic finds no overlap of selectors that do parse.
nodSelectorsOverlapUnparsedOnly(a, b) == ~ValidSelector(a) \/ ~ValidSelector(b)

nodSelectorsOverlap(a, b) ==
    \/ ~ValidSelector(a)
    \/ ~ValidSelector(b)
    \/ Parsed(a) = Parsed(b)

\* The existing rules that rule r conflicts with.
TaintConflicts(existing, r, spec, isUpdate) ==
    {q \in Rules :
        /\ existing[q] # Null
        /\ ~(isUpdate /\ q = r)
        /\ existing[q].spec.taint = spec.taint
        /\ nodSelectorsOverlap(spec.nodeSelector, existing[q].spec.nodeSelector)}

validateTaintConflicts(existing, r, spec, isUpdate) ==
    TaintConflicts(existing, r, spec, isUpdate) = {}

validateNodeReadinessRule(existing, r, spec, isUpdate) ==
    validateSpec(spec) /\ validateTaintConflicts(existing, r, spec, isUpdate)

\* ValidateCreate and ValidateUpdate can return no error: the operation is
\* allowed if the rules cannot be listed.
MayAdmit(existing, r, spec, isUpdate) ==
    WebhookEnabled =>
        \/ validateNodeReadinessRule(existing, r, spec, isUpdate)
        \/ ListMayFail /\ validateSpec(spec)

\* They can return an error.
MayReject(existing, r, spec, isUpdate) ==
    WebhookEnabled /\ ~validateNodeReadinessRule(existing, r, spec, isUpdate)
=============================================================================
