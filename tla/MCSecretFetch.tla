--------------------------- MODULE MCSecretFetch ---------------------------
EXTENDS SecretFetch

CONSTANTS r1, r2, r1a, r1b, r2a

\* One request with two references and one with a single one, all of one account.
MCCalls     == {r1a, r1b, r2a}
MCRequestOf == [c \in Calls |-> IF c = r2a THEN r2 ELSE r1]
MCAccountOf == [c \in Calls |-> CHOOSE a \in Accounts : TRUE]
=============================================================================
