-------------------------------- MODULE MCHdRoot --------------------------------
EXTENDS HdRoot, TLC

CONSTANTS m1, m2, pw1, pw2
=================================================================================
