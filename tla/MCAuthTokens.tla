---------------------------- MODULE MCAuthTokens ----------------------------
(* Logins of two accounts, the seed of a third and a relogin of that one.   *)
EXTENDS AuthTokens, FiniteSets

CONSTANTS l1, l2, im, seed, a, b, c

MCUid == [jwt \in JWTs |-> IF jwt = l1 THEN b ELSE IF jwt = l2 THEN c ELSE a]

\* Bound: in a behaviour two of the three publish, whichever they are.
TwoMints == Cardinality({p \in Mints : at[p] # "new"}) <= 2
=============================================================================
