----------------------------- MODULE MCReproLoop -----------------------------
(* Small instances of ReproLoop.                                           *)
EXTENDS ReproLoop

CONSTANTS c1, c2, c3, c4, a, b, fullA

\* A crash, the full reproduction the diff fuzzer asks for after it, a crash of
\* another bug from the hub, and a manual request for the first bug.
MCCrashes == {c1, c2, c3, c4}
MCTitles == {a, b, fullA}
MCTitle == [c \in MCCrashes |-> CASE c = c2 -> fullA [] c = c3 -> b [] OTHER -> a]
=============================================================================
