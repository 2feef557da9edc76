------------------------------- MODULE MCRunner -------------------------------
(* Small instances of Runner.                                              *)
EXTENDS Runner, TLC

CONSTANTS r1, r2, r3, r4, v1, v2

TwoRequests   == {r1, r2}
ThreeRequests == {r1, r2, r3}
FourRequests  == {r1, r2, r3, r4}

AnyVM      == Permutations(VMs)
AnyRequest == Permutations(Requests)
=============================================================================
