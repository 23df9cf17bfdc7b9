------------------------------ MODULE MCBleMesh ------------------------------
EXTENDS BleMesh, TLC

CONSTANTS n1, n2, n3

\* Three machines all in range of each other, or in a row.
MCTriangle == (Nodes \X Nodes) \ {<<n, n>> : n \in Nodes}
MCLayouts == {MCTriangle, MCTriangle \ {<<n1, n3>>, <<n3, n1>>}}

\* Three hops less a spread of one are enough for three machines.
ASSUME HopsAssumption == Reaches
==============================================================================
