--------------------------- MODULE MCDaemonServer ---------------------------
EXTENDS DaemonServer, TLC

Symmetric == Permutations(Conns)
=============================================================================
