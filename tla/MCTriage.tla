------------------------------- MODULE MCTriage -------------------------------
(* Small instances of Triage.                                              *)
EXTENDS Triage

CONSTANTS a1, a2, a3, a4

R(raw, prio) == [raw |-> raw, prio |-> prio]

\* A call that may fail (priority 1) or not (3), and Extra (0).
MCResults == <<{R({3}, 1), R({1}, 3), R({1, 2, 3}, 3)}, {R({1}, 0)}>>

\* Element 2 needs two of the actions, element 1 one, element 3 none.
MCNeeds   == <<{a1}, {a2, a4}, {}>>
MCConfigs == {None, <<a1, a3>>, <<a1, a2, a3, a4>>}
=============================================================================
