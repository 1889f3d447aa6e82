--------------------------- MODULE MCSessionBroker ---------------------------
EXTENDS SessionBroker, TLC

\* Two reads: three requests can race for them, and one may fail.
MCReads == [s \in Sessions |-> 2]

Symmetric == Permutations(Resolves) \cup Permutations(Sessions)
=============================================================================
