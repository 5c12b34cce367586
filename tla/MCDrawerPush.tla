----------------------------- MODULE MCDrawerPush ---------------------------
EXTENDS DrawerPush, TLC
Symmetric == Permutations(Slots)
=============================================================================
