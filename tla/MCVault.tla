------------------------------ MODULE MCVault ------------------------------
(***************************************************************************)
(* Instances of module Vault for TLC.                                      *)
(***************************************************************************)
EXTENDS Vault, TLC

CONSTANTS k1, k2, person, city, ann, bob, s1, s2, s3, s4, r1, r2

\* A generator with small pools, as surrogates.py has for names and cities:
\* ann and bob share a surrogate, and a value found as another entity type
\* gets another one.
SmallPools ==
    [i \in Scopes \X Types \X Values |->
        CASE i[2] = person -> s1
          [] i[2] # person /\ i[3] = ann -> s2
          [] i[2] # person /\ i[3] # ann -> s3]

\* A generator that keeps the values of a scope apart.
Distinct ==
    [i \in Scopes \X Types \X Values |->
        CASE i[2] = person /\ i[3] = ann -> s1
          [] i[2] = person /\ i[3] # ann -> s2
          [] i[2] # person /\ i[3] = ann -> s3
          [] i[2] # person /\ i[3] # ann -> s4]

ASSUME DistinctIsCollisionFree == Generate = Distinct => CollisionFree

Symmetry == Permutations({r1, r2})
=============================================================================
