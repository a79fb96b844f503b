------------------------------ MODULE MCLimits ------------------------------
(***************************************************************************)
(* An instance of module Limits for TLC.                                   *)
(***************************************************************************)
EXTENDS Limits, TLC

CONSTANTS blue, p, q

\* Two keys of one team, with different budgets and rates.
TwoKeys == p :> blue @@ q :> blue
Budgets == p :> 1 @@ q :> 3
Rates == p :> 1 @@ q :> 2

\* Bound on the admissions between two restarts.
CONSTANT MaxAdmissions
AdmissionBound == \A t \in Teams : Len(admitted[t]) <= MaxAdmissions
=============================================================================
