----------------------------- MODULE MCProcRunner -----------------------------
(* Small instances of ProcRunner.                                          *)
EXTENDS ProcRunner

CONSTANTS r1, r2, r3, b1, e1, e2

\* r2 needs another environment than the others.
MixedEnv == [r \in Requests |-> IF r = r2 THEN e2 ELSE e1]
OneEnv   == [r \in Requests |-> e1]

\* r1 avoids the second process, r3 avoids both.
SomeAvoid == [r \in Requests |-> CASE r = r1 -> {1} [] r = r3 -> {0, 1} [] OTHER -> {}]
NoAvoid   == [r \in Requests |-> {}]
=============================================================================
