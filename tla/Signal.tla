-------------------------------- MODULE Signal --------------------------------
(***************************************************************************)
(* pkg/signal/signal.go: a signal maps elements (hashes of coverage edges) *)
(* to priorities.  Raw signal is a set of elements.                        *)
(***************************************************************************)
EXTENDS Naturals, Sequences

Has(s, e, prio) == e \in DOMAIN s /\ s[e] >= prio

NoSignal == [e \in {} |-> 0]

FromRaw(raw, prio) == [e \in raw |-> prio]

DiffRaw(s, raw, prio) == [e \in {x \in raw : ~Has(s, x, prio)} |-> prio]

IntersectsWith(s, t) == \E e \in DOMAIN s : Has(t, e, s[e])

Intersection(s, t) == [e \in {x \in DOMAIN s : Has(t, x, s[x])} |-> s[e]]

Merge(s, t) ==
  [e \in DOMAIN s \cup DOMAIN t |->
     IF e \in DOMAIN t /\ ~Has(s, e, t[e]) THEN t[e] ELSE s[e]]

\* Mutant: the first signal with the element, whatever its priority.
MinimizeFlat(sigs) ==
  {i \in DOMAIN sigs : \E e \in DOMAIN sigs[i] : \A j \in 1 .. i - 1 : e \notin DOMAIN sigs[j]}

\* The indices Minimize keeps of a sequence of signals: for every element the
\* first signal in which it has its highest priority.
Minimize(sigs) ==
  {i \in DOMAIN sigs : \E e \in DOMAIN sigs[i] :
     /\ \A j \in DOMAIN sigs : e \in DOMAIN sigs[j] => sigs[j][e] <= sigs[i][e]
     /\ \A j \in 1 .. i - 1 : ~Has(sigs[j], e, sigs[i][e])}
=============================================================================
