------------------------------- MODULE MCCorpus -------------------------------
(* Small instances of Corpus.                                              *)
EXTENDS Corpus, TLC

CONSTANTS used, other, off, bad, x

\* The file holds used, off (which becomes other when its disabled call is taken
\* out) and bad, a record that does not parse; used is also a seed, and comes from
\* the hub and from fuzzing.
MCKeys     == {used, other, off, bad}
MCFiltered == off :> other
MCRank     == [k \in MCKeys |-> IF k = bad THEN 1 ELSE 0]
MCLog      == <<Put(off), Put(bad), Put(used)>>

MCStable == used :> {x :> 0, x :> 1} @@ other :> {x :> 0} @@ [k \in MCKeys |-> {}]
=============================================================================
