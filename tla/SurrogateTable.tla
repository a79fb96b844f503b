--------------------------- MODULE SurrogateTable ---------------------------
(***************************************************************************)
(* What a vault promises, with no expiry dates, no two directions and no   *)
(* dictionary keys: per scope a one-to-one table between the values in use *)
(* and their surrogates. An answer is restored with exactly the inverse of *)
(* the table of its scope. Values may be forgotten at any time; while one  *)
(* is remembered its surrogate does not change.                            *)
(***************************************************************************)
CONSTANTS Scopes, Values, Surrogates, Requests, NoSurrogate

VARIABLES
    table,  \* the surrogate of each scope's value, or NoSurrogate
    view    \* the pairs each request's answer was restored with

Init ==
    /\ table = [i \in Scopes \X Values |-> NoSurrogate]
    /\ view = [r \in Requests |-> {}]

Unused(k, s) == \A w \in Values : table[<<k, w>>] # s

Inverse(k) ==
    {<<table[<<k, v>>], v>> : v \in {w \in Values : table[<<k, w>>] # NoSurrogate}}

Assign(k, v, s) ==
    /\ table[<<k, v>>] = NoSurrogate
    /\ Unused(k, s)
    /\ table' = [table EXCEPT ![<<k, v>>] = s]
    /\ UNCHANGED view

\* Time or a restart: some values are forgotten, some answers with them.
Forget ==
    /\ \A i \in Scopes \X Values : table'[i] \in {table[i], NoSurrogate}
    /\ table' = [i \in Scopes \X Values |-> table'[i]]
    /\ \A r \in Requests : view'[r] \in {view[r], {}}
    /\ view' = [r \in Requests |-> view'[r]]

Answer(r, k) ==
    /\ view' = [view EXCEPT ![r] = Inverse(k)]
    /\ UNCHANGED table

Next ==
    \/ \E k \in Scopes, v \in Values, s \in Surrogates : Assign(k, v, s)
    \/ Forget
    \/ \E r \in Requests, k \in Scopes : Answer(r, k)

Spec == Init /\ [][Next]_<<table, view>>
=============================================================================
