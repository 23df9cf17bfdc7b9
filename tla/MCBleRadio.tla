------------------------------ MODULE MCBleRadio ------------------------------
EXTENDS BleRadio, TLC

CONSTANTS a1, a2, n1, n2, c1, c2

Symmetry == Permutations({n1, n2}) \cup Permutations({c1, c2})
===============================================================================
