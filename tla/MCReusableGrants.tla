-------------------------- MODULE MCReusableGrants --------------------------
EXTENDS ReusableGrants, TLC

\* Two uses: the approval can be reused once, and two requests can race for it.
MCUses == [k \in Keys |-> 2]

\* One key whose approvals are for a single payload, so that two requests race for
\* the last one; the others' can be reused.
MixedUses == LET single == CHOOSE k \in Keys : TRUE
             IN [k \in Keys |-> IF k = single THEN 1 ELSE 2]

MCTTL == [k \in Keys |-> 2]

Symmetric == Permutations(Requests) \cup Permutations(Approvals)
=============================================================================
