---------------------------- MODULE MCAppUnits ----------------------------
EXTENDS AppUnits

CONSTANTS c1, c2, c3, r1, r2, n1

MCContainers == {c1, c2, c3}
TwoContainers == {c1, c2}
TwoSymmetry == Permutations(TwoContainers)
OneRemover == {r1}
\* The unit a concurrent AddUnits(a, 1) creates.
NewUnit == {n1}
NoNewUnit == {}
TwoRemovers == {r1, r2}
\* The containers are interchangeable: only their records tell them apart.
ContainerSymmetry == Permutations(MCContainers)
=============================================================================
