--------------------------- MODULE MCConfigActions ---------------------------
(* Small instances of ConfigActions.                                       *)
EXTENDS ConfigActions

CONSTANTS p1, p2, net, kern, odd

MCParams  == {net, kern}
MCGlobal  == {kern}
MCBoot    == [q \in MCParams |-> IF q = net THEN 0 ELSE 1]
AllParams == {net, kern, odd}
MixedBoot == [q \in AllParams |-> IF q = net THEN Foreign ELSE 1]

Set(q, v)  == Action(q, v, FALSE, FALSE)
Keep(q, v) == Action(q, v, TRUE, FALSE)
Flip(q, v) == Action(q, v, FALSE, TRUE)

\* Repeated and nested writes of both sysctls, a NO_RESTORE write before and
\* after a restorable one, flips, actions the executor skips.
MCPrograms ==
  { <<Set(net, 1), Call(FALSE), Flip(net, 0)>>,
    <<Call(TRUE), Flip(net, 3), Set(kern, 0), Set(net, 0)>>,
    <<Keep(net, 1), Flip(net, 0)>>,
    <<Set(kern, 1), Keep(kern, 0)>>,
    <<Set(BadParam, 0), Set(net, 2), Flip(kern, 1), Call(TRUE)>> }

OneRestorable == { <<Flip(kern, 0)>>, <<Set(kern, 0)>> }

\* The sysctl that cannot be read back, and one that boots to a value outside
\* its list.
OddPrograms == MCPrograms \cup { <<Set(odd, 0), Call(FALSE), Flip(odd, 3)>> }

NothingRefused == {}
SomeRefused    == {<<odd, 1>>, <<kern, 0>>}
=============================================================================
