------------------------------- MODULE Limits -------------------------------
(***************************************************************************)
(* The budget and the rate limit of a team (gateway/budget.py), between    *)
(* the requests that pass check and the charges that some of them make     *)
(* with record_spend once their provider has answered. Both dictionaries   *)
(* are keyed by the team; the numbers compared with belong to the          *)
(* principal of the virtual key.                                           *)
(***************************************************************************)
EXTENDS Naturals, Sequences

CONSTANTS
    Teams,
    Principals,
    TeamOf,     \* Principal.team
    BudgetOf,   \* Principal.monthly_budget_cents
    RpmOf,      \* Principal.rate_limit_rpm
    Window,     \* the 60 seconds of the rate limit, in clock ticks
    MaxOpen,    \* admitted requests of a team that can be open at once
    MaxClock    \* bound on the clock

ASSUME LimitsAssumption ==
    /\ TeamOf \in [Principals -> Teams]
    /\ BudgetOf \in [Principals -> Nat]
    /\ RpmOf \in [Principals -> Nat]
    /\ Window \in Nat \ {0}
    /\ MaxOpen \in Nat \ {0}
    /\ MaxClock \in Nat

VARIABLES
    clock,     \* time.monotonic()
    spend,     \* Limits._spend
    window,    \* Limits._requests: the arrival times kept for each team
    open,      \* admitted requests of each team not yet charged or ended
    admitted   \* history: every admission since the process started

vars == <<clock, spend, window, open, admitted>>

Admission == [at: Nat, by: Principals]

TypeOK ==
    /\ clock \in Nat
    /\ spend \in [Teams -> Nat]
    /\ window \in [Teams -> Seq(Nat)]
    /\ open \in [Teams -> Nat]
    /\ admitted \in [Teams -> Seq(Admission)]

Init ==
    /\ clock = 0
    /\ spend = [t \in Teams |-> 0]
    /\ window = [t \in Teams |-> <<>>]
    /\ open = [t \in Teams |-> 0]
    /\ admitted = [t \in Teams |-> <<>>]

\* Mutant: a team may spend its whole budget and go on.
OverBudgetWhenAbove(p) == spend[TeamOf[p]] > BudgetOf[p]

\* The condition of the 402.
OverBudget(p) == spend[TeamOf[p]] >= BudgetOf[p]

Stale(time) == time + Window <= clock

\* The popleft loop stops after the first n arrival times.
Popped(w, n) ==
    /\ n \in 0..Len(w)
    /\ \A i \in 1..n : Stale(w[i])
    /\ n < Len(w) => ~Stale(w[n + 1])

Rest(w, n) == SubSeq(w, n + 1, Len(w))

\* Mutant: one request too many fits into the window.
CheckPassesOneMore(p) ==
    LET t == TeamOf[p] IN
    /\ ~OverBudget(p)
    /\ \E n \in 0..Len(window[t]) :
          /\ Popped(window[t], n)
          /\ Len(Rest(window[t], n)) <= RpmOf[p]
          /\ window' = [window EXCEPT ![t] = Append(Rest(@, n), clock)]
    /\ admitted' = [admitted EXCEPT ![t] = Append(@, [at |-> clock, by |-> p])]

\* check lets the request of p pass: its arrival enters the window.
CheckPasses(p) ==
    LET t == TeamOf[p] IN
    /\ ~OverBudget(p)
    /\ \E n \in 0..Len(window[t]) :
          /\ Popped(window[t], n)
          /\ Len(Rest(window[t], n)) < RpmOf[p]
          /\ window' = [window EXCEPT ![t] = Append(Rest(@, n), clock)]
    /\ admitted' = [admitted EXCEPT ![t] = Append(@, [at |-> clock, by |-> p])]

\* Mutant: a refused request counts as well.
CheckLimitsAndCounts(p) ==
    LET t == TeamOf[p] IN
    /\ ~OverBudget(p)
    /\ \E n \in 0..Len(window[t]) :
          /\ Popped(window[t], n)
          /\ Len(Rest(window[t], n)) >= RpmOf[p]
          /\ window' = [window EXCEPT ![t] = Append(Rest(@, n), clock)]
    /\ UNCHANGED admitted

\* check answers 429: the stale arrival times are gone all the same.
CheckLimits(p) ==
    LET t == TeamOf[p] IN
    /\ ~OverBudget(p)
    /\ \E n \in 0..Len(window[t]) :
          /\ Popped(window[t], n)
          /\ Len(Rest(window[t], n)) >= RpmOf[p]
          /\ window' = [window EXCEPT ![t] = Rest(@, n)]
    /\ UNCHANGED admitted

\* record_spend, with its default of one cent.
RecordSpend(p) == spend' = [spend EXCEPT ![TeamOf[p]] = @ + 1]

-----------------------------------------------------------------------------
(* The life of a request, as far as the limits see it. *)

Admit(p) ==
    /\ open[TeamOf[p]] < MaxOpen
    /\ CheckPasses(p)
    /\ open' = [open EXCEPT ![TeamOf[p]] = @ + 1]
    /\ UNCHANGED <<clock, spend>>

\* Admitted and over at once: the policy blocks it.
AdmitAndEnd(p) ==
    /\ CheckPasses(p)
    /\ UNCHANGED <<clock, spend, open>>

Limit(p) ==
    /\ CheckLimits(p)
    /\ UNCHANGED <<clock, spend, open>>

\* Mutant: an answer that comes again after its request is over.
CloseAgain(t) == open' = [open EXCEPT ![t] = @ - 1]

\* A handler comes back from its provider call.
Close(t) ==
    /\ open[t] > 0
    /\ open' = [open EXCEPT ![t] = @ - 1]

Charge(p) ==
    /\ Close(TeamOf[p])
    /\ RecordSpend(p)
    /\ UNCHANGED <<clock, window, admitted>>

\* The provider chain fails: the request ends without a charge.
Drop(p) ==
    /\ Close(TeamOf[p])
    /\ UNCHANGED <<clock, spend, window, admitted>>

Tick ==
    /\ clock < MaxClock
    /\ clock' = clock + 1
    /\ UNCHANGED <<spend, window, open, admitted>>

\* Both dictionaries live in memory; the clock goes on.
Restart ==
    /\ spend' = [t \in Teams |-> 0]
    /\ window' = [t \in Teams |-> <<>>]
    /\ open' = [t \in Teams |-> 0]
    /\ admitted' = [t \in Teams |-> <<>>]
    /\ UNCHANGED clock

Next ==
    \/ \E p \in Principals :
          Admit(p) \/ AdmitAndEnd(p) \/ Limit(p) \/ Charge(p) \/ Drop(p)
    \/ Tick
    \/ Restart

Spec == Init /\ [][Next]_vars

-----------------------------------------------------------------------------
(* Properties. *)

\* The rate limit: whichever way stale arrivals were popped, no request is
\* admitted for a principal of m requests a minute if its team was admitted m
\* times in the window before it (budget.py, check).
RateLimitHolds ==
    \A t \in Teams : \A j \in DOMAIN admitted[t] :
        LET m == RpmOf[admitted[t][j].by] IN
        j > m => m > 0 /\ admitted[t][j - m].at + Window <= admitted[t][j].at

\* The budget: check reads the spend before the provider call and
\* record_spend raises it after, so that requests open together can carry a
\* team past a budget, but never by more than their number less one.
OverspendBounded ==
    \A t \in Teams :
        \/ spend[t] + open[t] = 0
        \/ \E p \in Principals :
              /\ TeamOf[p] = t
              /\ spend[t] + open[t] < BudgetOf[p] + MaxOpen

\* The window holds the latest admissions, in order, and forgets none that
\* could still count.
WindowIsRecent ==
    \A t \in Teams :
        LET a == admitted[t]
            w == window[t]
        IN  /\ Len(w) <= Len(a)
            /\ \A i \in 1..Len(w) : w[i] = a[Len(a) - Len(w) + i].at
            /\ \A i \in 1..(Len(a) - Len(w)) : Stale(a[i].at)

AdmissionsInOrder ==
    \A t \in Teams :
        /\ \A i \in DOMAIN admitted[t] : admitted[t][i].at <= clock
        /\ \A i, j \in DOMAIN admitted[t] :
              i <= j => admitted[t][i].at <= admitted[t][j].at

LimitsInv ==
    /\ TypeOK
    /\ WindowIsRecent
    /\ AdmissionsInOrder
    /\ RateLimitHolds
    /\ OverspendBounded
=============================================================================
