------------------------------- MODULE MCKeycard -------------------------------
EXTENDS Keycard, TLC

CONSTANTS s1, k1, k2, c1, r1
================================================================================
