---------------------------- MODULE MCReceivePath ----------------------------
EXTENDS ReceivePath

MCBodies == [sealed : Sealed, depth : 0..MaxDepth] \cup {Garbled}
==============================================================================
