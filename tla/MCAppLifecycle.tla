--------------------------- MODULE MCAppLifecycle ---------------------------
EXTENDS AppLifecycle

CONSTANTS c1, c2, p1, p2

MCContainers == {c1, c2}
\* One caller making any of the calls in sequence.
SequentialOps == [p \in {p1} |-> Ops]
\* A Start racing a Stop.
MixedOps == [p \in {p1, p2} |-> IF p = p1 THEN {"start"} ELSE {"stop"}]
\* A Start racing a RemoveUnits.
StartRemoveOps == [p \in {p1, p2} |-> IF p = p1 THEN {"start"} ELSE {"removeUnits"}]
=============================================================================
