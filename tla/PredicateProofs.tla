--------------------------- MODULE PredicateProofs ---------------------------
(***************************************************************************)
(* The update predicate of the node controller lets every change through   *)
(* that an evaluation depends on, as long as no label has an empty value.  *)
(***************************************************************************)
EXTENDS ReadinessSystem, FiniteSetTheorems, TLAPS

\* The comparison that labelsEqual and stringMapEqual make (first the sizes, then
\* one map's keys) is equality of maps if the values of that map are not empty.
LEMMA MapsCompare ==
    ASSUME NEW a, NEW b,
           a = [k \in DOMAIN a |-> a[k]], b = [k \in DOMAIN b |-> b[k]],
           IsFiniteSet(DOMAIN b),
           Cardinality(DOMAIN a) = Cardinality(DOMAIN b),
           \A k \in DOMAIN a : MapGet(b, k) = a[k] /\ a[k] # ""
    PROVE  a = b
<1>1. \A k \in DOMAIN a : k \in DOMAIN b /\ b[k] = a[k]
  BY DEF MapGet
<1>2. DOMAIN a \subseteq DOMAIN b
  BY <1>1
<1>3. DOMAIN a = DOMAIN b
  BY <1>2, FS_Subset
<1> QED
  BY <1>1, <1>3, Zenon

\* The same for the keys: a subset of equal size is the set.
LEMMA SetsCompare ==
    ASSUME NEW A, NEW B, IsFiniteSet(A), B \subseteq A, Cardinality(A) = Cardinality(B)
    PROVE  A = B
BY FS_Subset

\* Whatever the predicate drops, the evaluation of a node does not depend on: a
\* version of a node that is not queued has the conditions, taints and labels of
\* the version before it. Labels with an empty value are left out of this, and
\* have to be: {a: ""} and {b: ""} are equal to labelsEqual.
THEOREM PredicateSeesChanges ==
    ASSUME NEW old \in Node, NEW new \in Node,
           \A k \in DOMAIN old.labels : old.labels[k] # "",
           ~NodePredicate(old, new)
    PROVE  SameView(old, new)
<1>1. /\ conditionsEqual(old.conditions, new.conditions)
      /\ taintsEqual(old.taints, new.taints)
      /\ labelsEqual(old.labels, new.labels)
  BY DEF NodePredicate
<1>2. old # Null /\ new # Null
  BY NullAssumption
<1>3. old.labels = new.labels
  <2>1. /\ Cardinality(DOMAIN old.labels) = Cardinality(DOMAIN new.labels)
        /\ \A k \in DOMAIN old.labels : MapGet(new.labels, k) = old.labels[k]
    BY <1>1 DEF labelsEqual
  <2>2. old.labels \in LabelMaps /\ new.labels \in LabelMaps
    BY DEF Node
  <2>3. /\ old.labels = [k \in DOMAIN old.labels |-> old.labels[k]]
        /\ new.labels = [k \in DOMAIN new.labels |-> new.labels[k]]
        /\ IsFiniteSet(DOMAIN new.labels)
    BY <2>2, LabelMapsAssumption, Zenon
  <2> QED
    BY <2>1, <2>3, MapsCompare, Zenon
<1>4. old.taints = new.taints
  <2>1. IsFiniteSet(old.taints) /\ new.taints \subseteq old.taints
    BY <1>1, FS_Subset, FiniteAssumption DEF taintsEqual, Node
  <2> QED
    BY <1>1, <2>1, SetsCompare DEF taintsEqual
<1>5. old.conditions = new.conditions
  <2> DEFINE a == old.conditions
             b == new.conditions
  <2>1. a \in [CondTypes -> Status \union {Missing}] /\ b \in [CondTypes -> Status \union {Missing}]
    BY DEF Node
  <2>2. /\ Cardinality(Present(a)) = Cardinality(Present(b))
        /\ \A t \in Present(b) : t \in Present(a) /\ a[t] = b[t]
    BY <1>1 DEF conditionsEqual
  <2>3. IsFiniteSet(Present(a)) /\ Present(b) \subseteq Present(a)
    BY <2>2, FS_Subset, FiniteAssumption DEF Present
  <2>4. Present(a) = Present(b)
    BY <2>2, <2>3, SetsCompare
  <2>5. \A t \in CondTypes : a[t] = b[t]
    BY <2>2, <2>4 DEF Present
  <2>6. a = [t \in CondTypes |-> a[t]] /\ b = [t \in CondTypes |-> b[t]]
    BY <2>1
  <2>7. [t \in CondTypes |-> a[t]] = [t \in CondTypes |-> b[t]]
    BY <2>5, Zenon
  <2> QED
    BY <2>6, <2>7, Zenon
<1> QED
  BY <1>2, <1>3, <1>4, <1>5 DEF SameView
=============================================================================
