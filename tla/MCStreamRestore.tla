-------------------------- MODULE MCStreamRestore --------------------------
(***************************************************************************)
(* Instances of module StreamRestore for TLC.                              *)
(***************************************************************************)
EXTENDS StreamRestore, TLC

\* Surrogates of one person with and without the last name, as the name pool
\* has them: one is the beginning of the other. The originals share no
\* character with them.
NamePool == <<<<"m">>, <<"m", "f", "d">>>>
NameOriginals == <<"m">> :> <<"A">> @@ <<"m", "f", "d">> :> <<"A", "B">>

\* Masked numbers can overlap: 12 and 21 in 121.
Numbers == <<<<"1", "2">>, <<"2", "1">>>>
NumberOriginals == <<"1", "2">> :> <<"7">> @@ <<"2", "1">> :> <<"8">>

\* The names fit each other; the numbers do not, and must not.
ASSUME FitAssumption ==
    /\ Surrogates = NamePool => Nested /\ Foreign /\ Longest <= LatencyCap
    /\ Surrogates = Numbers => ~Nested
=============================================================================
