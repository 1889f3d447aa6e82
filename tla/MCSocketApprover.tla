-------------------------- MODULE MCSocketApprover --------------------------
EXTENDS SocketApprover, TLC

Symmetric == Permutations(Jobs)
=============================================================================
