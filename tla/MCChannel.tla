----------------------------- MODULE MCChannel -----------------------------
(***************************************************************************)
(* Two senders and two dispatchers are the fewest that can get in each     *)
(* other's way on either side; three messages overfill a queue of two.     *)
(***************************************************************************)
EXTENDS Channel

CONSTANTS s1, s2, d1, d2, m1, m2, m3, none

MCSenders     == {s1, s2}
MCDispatchers == {d1, d2}
MCMessages    == {m1, m2, m3}

\* Explore no further once a failed allocation has given back a lock that
\* its thread did not hold.
LockIntact == rwLock + Cardinality(Holders) <= 1
=============================================================================
