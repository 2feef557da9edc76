---------------------------- MODULE MCDistributor ----------------------------
(* A small instance of Distributor.                                        *)
EXTENDS Distributor

CONSTANTS r1, r2, r3

\* r1 and r2 avoid the VM that keeps asking, r3 avoids the other one.
MCAvoid == (r1 :> {0}) @@ (r2 :> {0}) @@ (r3 :> {1})
=============================================================================
