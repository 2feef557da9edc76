-------------------------------- MODULE MCPool --------------------------------
(* Small instances of Pool.                                                *)
EXTENDS Pool

CONSTANTS j1, j2
=============================================================================
