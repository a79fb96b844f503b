---------------------------- MODULE LimitsProofs ----------------------------
(***************************************************************************)
(* Proofs about module Limits, for all teams, principals, budgets, rates   *)
(* and any number of open requests.                                        *)
(***************************************************************************)
EXTENDS Limits, TLAPS

USE LimitsAssumption

-----------------------------------------------------------------------------
(* Sequences. *)

LEMMA RestFacts ==
    ASSUME NEW S, NEW w \in Seq(S), NEW n \in 0..Len(w)
    PROVE  /\ Rest(w, n) \in Seq(S)
           /\ Len(Rest(w, n)) = Len(w) - n
           /\ \A i \in 1..(Len(w) - n) : Rest(w, n)[i] = w[n + i]
BY DEF Rest

LEMMA AppendFacts ==
    ASSUME NEW S, NEW w \in Seq(S), NEW x \in S
    PROVE  /\ Append(w, x) \in Seq(S)
           /\ Len(Append(w, x)) = Len(w) + 1
           /\ \A i \in 1..Len(w) : Append(w, x)[i] = w[i]
           /\ Append(w, x)[Len(w) + 1] = x
OBVIOUS

-----------------------------------------------------------------------------
(* What check does to the window of a team. *)

\* Popping keeps the window recent.
LEMMA PopKeepsRecent ==
    ASSUME TypeOK, WindowIsRecent, NEW t \in Teams,
           NEW n \in 0..Len(window[t]), Popped(window[t], n)
    PROVE  LET a == admitted[t]
               w == Rest(window[t], n)
           IN  /\ w \in Seq(Nat)
               /\ Len(w) <= Len(a)
               /\ \A i \in 1..Len(w) : w[i] = a[Len(a) - Len(w) + i].at
               /\ \A i \in 1..(Len(a) - Len(w)) : Stale(a[i].at)
<1> DEFINE a == admitted[t]
           v == window[t]
           w == Rest(v, n)
           d == Len(a) - Len(v)
<1>1. v \in Seq(Nat) /\ a \in Seq(Admission)
    BY DEF TypeOK
<1>2. /\ w \in Seq(Nat)
      /\ Len(w) = Len(v) - n
      /\ \A i \in 1..(Len(v) - n) : w[i] = v[n + i]
    BY <1>1, RestFacts
<1>3. /\ Len(v) <= Len(a)
      /\ \A i \in 1..Len(v) : v[i] = a[d + i].at
      /\ \A i \in 1..d : Stale(a[i].at)
    BY DEF WindowIsRecent
<1>4. \A i \in 1..n : Stale(v[i])
    BY DEF Popped
<1>5. /\ Len(v) \in Nat /\ Len(a) \in Nat /\ n \in Nat /\ d \in Nat
      /\ n <= Len(v)
    BY <1>1, <1>3
<1> HIDE DEF a, v, w, d
<1>6. Len(a) - Len(w) = d + n
    BY <1>2, <1>5 DEF d
<1>7. ASSUME NEW i \in 1..Len(w) PROVE w[i] = a[d + n + i].at
    <2>1. n + i \in 1..Len(v) /\ d + (n + i) = d + n + i
        BY <1>2, <1>5
    <2> QED BY <1>2, <1>3, <1>5, <2>1
<1>8. ASSUME NEW i \in 1..(d + n) PROVE Stale(a[i].at)
    <2>1. CASE i \in 1..d
        BY <2>1, <1>3
    <2>2. CASE i > d
        <3>1. i \in Nat /\ i <= d + n
            BY <1>5
        <3>2. i - d \in 1..n /\ i - d \in 1..Len(v) /\ d + (i - d) = i
            BY <2>2, <3>1, <1>5
        <3>3. v[i - d] = a[i].at
            BY <3>2, <1>3
        <3> QED BY <3>2, <3>3, <1>4
    <2> QED BY <2>1, <2>2, <1>5
<1>9. Len(w) <= Len(a)
    BY <1>2, <1>3, <1>5
<1> QED BY <1>2, <1>6, <1>7, <1>8, <1>9 DEF a, v, w

\* A request that check lets pass enters window and history together.
LEMMA CheckPassesInv ==
    ASSUME LimitsInv, NEW p \in Principals, CheckPasses(p), clock' = clock
    PROVE  /\ window' \in [Teams -> Seq(Nat)]
           /\ admitted' \in [Teams -> Seq(Admission)]
           /\ WindowIsRecent'
           /\ AdmissionsInOrder'
           /\ RateLimitHolds'
<1> DEFINE t == TeamOf[p]
           a == admitted[t]
           x == [at |-> clock, by |-> p]
<1>1. /\ t \in Teams /\ x \in Admission /\ clock \in Nat
      /\ a \in Seq(Admission) /\ window[t] \in Seq(Nat)
      /\ RpmOf[p] \in Nat
      /\ x.at = clock /\ x.by = p
    BY DEF LimitsInv, TypeOK, Admission
<1>2. PICK n \in 0..Len(window[t]) :
          /\ Popped(window[t], n)
          /\ Len(Rest(window[t], n)) < RpmOf[p]
          /\ window' = [window EXCEPT ![t] = Append(Rest(@, n), clock)]
    BY DEF CheckPasses
<1> DEFINE w == Rest(window[t], n)
<1>3. /\ w \in Seq(Nat)
      /\ Len(w) <= Len(a)
      /\ \A i \in 1..Len(w) : w[i] = a[Len(a) - Len(w) + i].at
      /\ \A i \in 1..(Len(a) - Len(w)) : Stale(a[i].at)
    BY <1>1, <1>2, PopKeepsRecent DEF LimitsInv
<1>4. /\ admitted' = [admitted EXCEPT ![t] = Append(a, x)]
      /\ window' = [window EXCEPT ![t] = Append(w, clock)]
      /\ Len(w) < RpmOf[p]
    BY <1>2 DEF CheckPasses
<1>5. /\ Append(a, x) \in Seq(Admission)
      /\ Len(Append(a, x)) = Len(a) + 1
      /\ \A i \in 1..Len(a) : Append(a, x)[i] = a[i]
      /\ Append(a, x)[Len(a) + 1] = x
    BY <1>1, AppendFacts
<1>6. /\ Append(w, clock) \in Seq(Nat)
      /\ Len(Append(w, clock)) = Len(w) + 1
      /\ \A i \in 1..Len(w) : Append(w, clock)[i] = w[i]
      /\ Append(w, clock)[Len(w) + 1] = clock
    BY <1>1, <1>3, AppendFacts
<1>7. /\ Len(a) \in Nat /\ Len(w) \in Nat
    BY <1>1, <1>3
<1>8. \A u \in Teams : u # t => admitted'[u] = admitted[u] /\ window'[u] = window[u]
    BY <1>1, <1>4 DEF LimitsInv, TypeOK
<1>9. admitted'[t] = Append(a, x) /\ window'[t] = Append(w, clock)
    BY <1>1, <1>4 DEF LimitsInv, TypeOK
<1>10. /\ DOMAIN a = 1..Len(a)
       /\ \A i \in 1..Len(a) : a[i] \in Admission /\ a[i].at \in Nat
       /\ \A i \in 1..Len(a) : a[i].at <= clock
       /\ \A i, j \in 1..Len(a) : i <= j => a[i].at <= a[j].at
    <2>1. DOMAIN a = 1..Len(a)
        BY <1>1
    <2>2. \A i \in 1..Len(a) : a[i] \in Admission
        BY <1>1
    <2> QED BY <1>1, <2>1, <2>2 DEF LimitsInv, AdmissionsInOrder, Admission
<1> HIDE DEF a, w, x, t
<1>11. /\ window' \in [Teams -> Seq(Nat)]
       /\ admitted' \in [Teams -> Seq(Admission)]
    BY <1>1, <1>4, <1>5, <1>6 DEF LimitsInv, TypeOK
<1>12. WindowIsRecent'
    <2> DEFINE b == Append(a, x)
               v == Append(w, clock)
    <2>1. Len(b) = Len(a) + 1 /\ Len(v) = Len(w) + 1 /\ Len(b) - Len(v) = Len(a) - Len(w)
        BY <1>5, <1>6, <1>7
    <2>2. ASSUME NEW i \in 1..Len(v) PROVE v[i] = b[Len(b) - Len(v) + i].at
        <3>1. CASE i = Len(w) + 1
            <4>1. Len(b) - Len(v) + i = Len(a) + 1
                BY <3>1, <2>1, <1>7
            <4> QED BY <3>1, <4>1, <1>1, <1>5, <1>6 DEF x
        <3>2. CASE i \in 1..Len(w)
            <4>1. Len(a) - Len(w) + i \in 1..Len(a)
                BY <3>2, <1>3, <1>7
            <4>2. b[Len(b) - Len(v) + i] = a[Len(a) - Len(w) + i]
                BY <4>1, <2>1, <1>5
            <4>3. v[i] = w[i] /\ w[i] = a[Len(a) - Len(w) + i].at
                BY <3>2, <1>3, <1>6
            <4> QED BY <4>2, <4>3
        <3>3. i = Len(w) + 1 \/ i \in 1..Len(w)
            <4>1. i \in Nat /\ i >= 1 /\ i <= Len(w) + 1
                BY <2>1, <1>7
            <4> QED BY <4>1, <1>7
        <3> QED BY <3>1, <3>2, <3>3
    <2>3. ASSUME NEW i \in 1..(Len(b) - Len(v)) PROVE Stale(b[i].at)
        <3>1. i \in 1..(Len(a) - Len(w)) /\ i \in 1..Len(a)
            BY <2>1, <1>3, <1>7
        <3> QED BY <3>1, <1>3, <1>5
    <2>4. Len(v) <= Len(b)
        BY <2>1, <1>3, <1>7
    <2> HIDE DEF b, v
    <2>5. ASSUME NEW u \in Teams
          PROVE  /\ Len(window'[u]) <= Len(admitted'[u])
                 /\ \A i \in 1..Len(window'[u]) :
                       window'[u][i] =
                         admitted'[u][Len(admitted'[u]) - Len(window'[u]) + i].at
                 /\ \A i \in 1..(Len(admitted'[u]) - Len(window'[u])) :
                       Stale(admitted'[u][i].at)
        <3>1. CASE u = t
            BY <3>1, <1>9, <2>2, <2>3, <2>4 DEF b, v
        <3>2. CASE u # t
            BY <3>2, <1>8, ZenonT(30) DEF LimitsInv, WindowIsRecent
        <3> QED BY <3>1, <3>2
    <2> QED BY <2>5 DEF WindowIsRecent, Stale
<1>13. AdmissionsInOrder'
    <2>1. ASSUME NEW u \in Teams
          PROVE  /\ \A i \in DOMAIN admitted'[u] : admitted'[u][i].at <= clock
                 /\ \A i, j \in DOMAIN admitted'[u] :
                       i <= j => admitted'[u][i].at <= admitted'[u][j].at
        <3>1. CASE u = t
            <4>1. DOMAIN admitted'[u] = 1..(Len(a) + 1)
                BY <3>1, <1>5, <1>9
            <4>2. \A i \in 1..(Len(a) + 1) :
                     admitted'[u][i] = IF i = Len(a) + 1 THEN x ELSE a[i]
                BY <3>1, <1>5, <1>7, <1>9
            <4>3. ASSUME NEW i \in 1..(Len(a) + 1), i # Len(a) + 1
                  PROVE  i \in 1..Len(a)
                <5>1. i \in Nat /\ i >= 1 /\ i <= Len(a) + 1
                    BY <1>7
                <5> QED BY <4>3, <5>1, <1>7
            <4>4. \A i \in 1..(Len(a) + 1) : admitted'[u][i].at <= clock
                BY <4>2, <4>3, <1>1, <1>10
            <4>5. ASSUME NEW i \in 1..(Len(a) + 1), NEW j \in 1..(Len(a) + 1),
                         i <= j
                  PROVE  admitted'[u][i].at <= admitted'[u][j].at
                <5>1. CASE j = Len(a) + 1
                    BY <5>1, <4>2, <4>4, <1>1
                <5>2. CASE j # Len(a) + 1
                    <6>1. i \in 1..Len(a) /\ j \in 1..Len(a)
                        <7>1. j \in 1..Len(a)
                            BY <4>3, <5>2
                        <7>2. i \in Nat /\ i >= 1
                            BY <1>7
                        <7> QED BY <7>1, <7>2, <4>5, <1>7
                    <6>2. admitted'[u][i] = a[i] /\ admitted'[u][j] = a[j]
                        BY <6>1, <3>1, <1>5, <1>9
                    <6> QED BY <6>1, <6>2, <4>5, <1>10
                <5> QED BY <5>1, <5>2
            <4> QED BY <4>1, <4>4, <4>5
        <3>2. CASE u # t
            BY <3>2, <1>8 DEF LimitsInv, AdmissionsInOrder
        <3> QED BY <3>1, <3>2
    <2> QED BY <2>1 DEF AdmissionsInOrder
<1>14. RateLimitHolds'
    <2>1. ASSUME NEW u \in Teams, NEW j \in DOMAIN admitted'[u],
                 j > RpmOf[admitted'[u][j].by]
          PROVE  LET m == RpmOf[admitted'[u][j].by] IN
                 m > 0 /\ admitted'[u][j - m].at + Window <= admitted'[u][j].at
        <3>1. CASE u = t /\ j = Len(a) + 1
            <4> DEFINE m == RpmOf[p]
            <4>1. admitted'[u][j] = x
                BY <3>1, <1>5, <1>9
            <4>2. m > 0 /\ m \in Nat /\ j > m
                BY <4>1, <2>1, <1>1, <1>4, <1>7
            <4>3. j - m \in 1..Len(a) /\ j - m \in 1..(Len(a) - Len(w))
                BY <3>1, <4>2, <1>4, <1>7
            <4>4. admitted'[u][j - m] = a[j - m] /\ Stale(a[j - m].at)
                BY <3>1, <4>3, <1>3, <1>5, <1>9
            <4> QED BY <4>1, <4>2, <4>4, <1>1 DEF Stale
        <3>2. CASE u = t /\ j # Len(a) + 1
            <4>1. j \in 1..Len(a)
                BY <2>1, <3>2, <1>5, <1>7, <1>9
            <4>2. admitted'[u][j] = a[j] /\ a[j] \in Admission
                BY <3>2, <4>1, <1>5, <1>9, <1>10
            <4> DEFINE m == RpmOf[a[j].by]
            <4>3. m \in Nat /\ j > m
                BY <2>1, <4>2 DEF Admission
            <4>4. m > 0 /\ a[j - m].at + Window <= a[j].at
                BY <4>1, <4>3, <1>1, <1>10 DEF LimitsInv, RateLimitHolds, a
            <4>5. j - m \in 1..Len(a)
                BY <4>1, <4>3, <4>4, <1>7
            <4>6. admitted'[u][j - m] = a[j - m]
                BY <3>2, <4>5, <1>5, <1>9
            <4> QED BY <4>2, <4>4, <4>6
        <3>3. CASE u # t
            BY <2>1, <3>3, <1>8 DEF LimitsInv, RateLimitHolds
        <3> QED BY <3>1, <3>2, <3>3
    <2> QED BY <2>1 DEF RateLimitHolds
<1> QED BY <1>11, <1>12, <1>13, <1>14

\* A request that check limits leaves the history alone.
LEMMA CheckLimitsInv ==
    ASSUME LimitsInv, NEW p \in Principals, CheckLimits(p), clock' = clock
    PROVE  /\ window' \in [Teams -> Seq(Nat)]
           /\ WindowIsRecent'
<1> DEFINE t == TeamOf[p]
<1>1. t \in Teams /\ window[t] \in Seq(Nat)
    BY DEF LimitsInv, TypeOK
<1>2. PICK n \in 0..Len(window[t]) :
          /\ Popped(window[t], n)
          /\ window' = [window EXCEPT ![t] = Rest(@, n)]
    BY DEF CheckLimits
<1> DEFINE w == Rest(window[t], n)
<1>3. /\ w \in Seq(Nat)
      /\ Len(w) <= Len(admitted[t])
      /\ \A i \in 1..Len(w) :
            w[i] = admitted[t][Len(admitted[t]) - Len(w) + i].at
      /\ \A i \in 1..(Len(admitted[t]) - Len(w)) : Stale(admitted[t][i].at)
    BY <1>1, <1>2, PopKeepsRecent DEF LimitsInv
<1>4. /\ admitted' = admitted
      /\ window'[t] = w
      /\ \A u \in Teams : u # t => window'[u] = window[u]
    BY <1>1, <1>2 DEF CheckLimits, LimitsInv, TypeOK
<1> HIDE DEF w, t
<1>5. window' \in [Teams -> Seq(Nat)]
    BY <1>1, <1>2, <1>3 DEF LimitsInv, TypeOK, w
<1>6. ASSUME NEW u \in Teams
      PROVE  /\ Len(window'[u]) <= Len(admitted'[u])
             /\ \A i \in 1..Len(window'[u]) :
                   window'[u][i] =
                     admitted'[u][Len(admitted'[u]) - Len(window'[u]) + i].at
             /\ \A i \in 1..(Len(admitted'[u]) - Len(window'[u])) :
                   Stale(admitted'[u][i].at)
    <2>1. CASE u = t
        BY <2>1, <1>3, <1>4
    <2>2. CASE u # t
        BY <2>2, <1>4, ZenonT(30) DEF LimitsInv, WindowIsRecent
    <2> QED BY <2>1, <2>2
<1> QED BY <1>5, <1>6 DEF WindowIsRecent, Stale

-----------------------------------------------------------------------------
(* The invariant. *)

\* What the rate limit rests on does not mention spend or open requests.
LEMMA RatePartUnchanged ==
    ASSUME LimitsInv, UNCHANGED <<clock, window, admitted>>
    PROVE  WindowIsRecent' /\ AdmissionsInOrder' /\ RateLimitHolds'
BY DEF LimitsInv, WindowIsRecent, AdmissionsInOrder, RateLimitHolds, Stale

\* Requests that end give back what they held open.
LEMMA BudgetPart ==
    ASSUME TypeOK, OverspendBounded, NEW p \in Principals,
           Close(TeamOf[p]), spend' = spend \/ RecordSpend(p)
    PROVE  OverspendBounded' /\ spend' \in [Teams -> Nat] /\ open' \in [Teams -> Nat]
<1> DEFINE t == TeamOf[p]
<1>1. t \in Teams
    OBVIOUS
<1>2. open' \in [Teams -> Nat] /\ spend' \in [Teams -> Nat]
    <2>1. open[t] \in Nat /\ open[t] > 0 /\ open[t] - 1 \in Nat
        BY <1>1 DEF TypeOK, Close
    <2>2. open' = [open EXCEPT ![t] = open[t] - 1]
        BY DEF Close
    <2>3. open' \in [Teams -> Nat]
        BY <1>1, <2>1, <2>2 DEF TypeOK
    <2>4. spend' \in [Teams -> Nat]
        <3>1. CASE spend' = spend
            BY <3>1 DEF TypeOK
        <3>2. CASE RecordSpend(p)
            <4>1. spend' = [spend EXCEPT ![t] = spend[t] + 1]
                BY <3>2 DEF RecordSpend
            <4>2. spend[t] + 1 \in Nat
                BY <1>1 DEF TypeOK
            <4> QED BY <1>1, <4>1, <4>2 DEF TypeOK
        <3> QED BY <3>1, <3>2
    <2> QED BY <2>3, <2>4
<1>3. ASSUME NEW u \in Teams
      PROVE  spend'[u] + open'[u] <= spend[u] + open[u]
    BY <1>1 DEF TypeOK, Close, RecordSpend
<1>4. ASSUME NEW u \in Teams
      PROVE  \/ spend'[u] + open'[u] = 0
             \/ \E q \in Principals :
                   /\ TeamOf[q] = u
                   /\ spend'[u] + open'[u] < BudgetOf[q] + MaxOpen
    <2>1. /\ spend[u] \in Nat /\ open[u] \in Nat
          /\ spend'[u] \in Nat /\ open'[u] \in Nat
        BY <1>2 DEF TypeOK
    <2>2. CASE spend[u] + open[u] = 0
        BY <2>1, <2>2, <1>3
    <2>3. CASE spend[u] + open[u] # 0
        <3>1. PICK q \in Principals :
                  /\ TeamOf[q] = u
                  /\ spend[u] + open[u] < BudgetOf[q] + MaxOpen
            BY <2>3 DEF OverspendBounded
        <3>2. BudgetOf[q] \in Nat /\ MaxOpen \in Nat
            OBVIOUS
        <3>3. spend'[u] + open'[u] < BudgetOf[q] + MaxOpen
            BY <2>1, <3>1, <3>2, <1>3
        <3> QED BY <3>1, <3>3
    <2> QED BY <2>2, <2>3
<1> QED BY <1>2, <1>4 DEF OverspendBounded

LEMMA AdmitInv ==
    ASSUME LimitsInv, NEW p \in Principals, Admit(p)
    PROVE  LimitsInv'
<1> DEFINE t == TeamOf[p]
<1>1. /\ t \in Teams /\ CheckPasses(p) /\ clock' = clock /\ spend' = spend
      /\ open[t] < MaxOpen
      /\ open' = [open EXCEPT ![t] = @ + 1]
      /\ spend[t] < BudgetOf[p]
    <2>1. /\ t \in Teams /\ CheckPasses(p) /\ clock' = clock /\ spend' = spend
          /\ open[t] < MaxOpen
          /\ open' = [open EXCEPT ![t] = @ + 1]
        BY DEF Admit
    <2>2. ~(spend[t] >= BudgetOf[p])
        BY <2>1 DEF CheckPasses, OverBudget
    <2>3. spend[t] \in Nat /\ BudgetOf[p] \in Nat
        BY <2>1 DEF LimitsInv, TypeOK
    <2> QED BY <2>1, <2>2, <2>3
<1>2. /\ window' \in [Teams -> Seq(Nat)]
      /\ admitted' \in [Teams -> Seq(Admission)]
      /\ WindowIsRecent' /\ AdmissionsInOrder' /\ RateLimitHolds'
    BY <1>1, CheckPassesInv
<1>3. TypeOK'
    <2>1. open' \in [Teams -> Nat]
        BY <1>1 DEF LimitsInv, TypeOK
    <2>2. clock' \in Nat /\ spend' \in [Teams -> Nat]
        BY <1>1 DEF LimitsInv, TypeOK
    <2> QED BY <1>2, <2>1, <2>2 DEF TypeOK
<1>4. OverspendBounded'
    <2>1. ASSUME NEW u \in Teams
          PROVE  \/ spend'[u] + open'[u] = 0
                 \/ \E q \in Principals :
                       /\ TeamOf[q] = u
                       /\ spend'[u] + open'[u] < BudgetOf[q] + MaxOpen
        <3>1. CASE u = t
            <4>1. spend'[u] = spend[t] /\ open'[u] = open[t] + 1
                BY <3>1, <1>1 DEF LimitsInv, TypeOK
            <4>2. /\ spend[t] \in Nat /\ open[t] \in Nat
                  /\ BudgetOf[p] \in Nat /\ MaxOpen \in Nat
                BY <1>1 DEF LimitsInv, TypeOK
            <4>3. spend'[u] + open'[u] < BudgetOf[p] + MaxOpen
                BY <4>1, <4>2, <1>1
            <4> QED BY <3>1, <4>3
        <3>2. CASE u # t
            BY <3>2, <1>1 DEF LimitsInv, TypeOK, OverspendBounded
        <3> QED BY <3>1, <3>2
    <2> QED BY <2>1 DEF OverspendBounded
<1> QED BY <1>2, <1>3, <1>4 DEF LimitsInv

LEMMA CheckOnlyInv ==
    ASSUME LimitsInv, NEW p \in Principals, AdmitAndEnd(p) \/ Limit(p)
    PROVE  LimitsInv'
<1>1. clock' = clock /\ spend' = spend /\ open' = open
    BY DEF AdmitAndEnd, Limit
<1>2. OverspendBounded'
    BY <1>1 DEF LimitsInv, OverspendBounded
<1>3. CASE AdmitAndEnd(p)
    <2>1. /\ window' \in [Teams -> Seq(Nat)]
          /\ admitted' \in [Teams -> Seq(Admission)]
          /\ WindowIsRecent' /\ AdmissionsInOrder' /\ RateLimitHolds'
        BY <1>1, <1>3, CheckPassesInv DEF AdmitAndEnd
    <2> QED BY <1>1, <1>2, <2>1 DEF LimitsInv, TypeOK
<1>4. CASE Limit(p)
    <2>1. window' \in [Teams -> Seq(Nat)] /\ WindowIsRecent' /\ admitted' = admitted
        BY <1>1, <1>4, CheckLimitsInv DEF Limit, CheckLimits
    <2>2. AdmissionsInOrder' /\ RateLimitHolds'
        BY <1>1, <2>1 DEF LimitsInv, AdmissionsInOrder, RateLimitHolds
    <2> QED BY <1>1, <1>2, <2>1, <2>2 DEF LimitsInv, TypeOK
<1> QED BY <1>3, <1>4

LEMMA EndInv ==
    ASSUME LimitsInv, NEW p \in Principals, Charge(p) \/ Drop(p)
    PROVE  LimitsInv'
<1>1. /\ Close(TeamOf[p])
      /\ spend' = spend \/ RecordSpend(p)
      /\ UNCHANGED <<clock, window, admitted>>
    BY DEF Charge, Drop
<1>2. OverspendBounded' /\ spend' \in [Teams -> Nat] /\ open' \in [Teams -> Nat]
    BY <1>1, BudgetPart DEF LimitsInv
<1>3. WindowIsRecent' /\ AdmissionsInOrder' /\ RateLimitHolds'
    BY <1>1, RatePartUnchanged
<1> QED BY <1>1, <1>2, <1>3 DEF LimitsInv, TypeOK

LEMMA TickInv == ASSUME LimitsInv, Tick PROVE LimitsInv'
<1>1. /\ clock \in Nat /\ clock' = clock + 1
      /\ UNCHANGED <<spend, window, open, admitted>>
    BY DEF Tick, LimitsInv, TypeOK
<1>2. ASSUME NEW t \in Teams
      PROVE  \A i \in DOMAIN admitted[t] : admitted[t][i].at \in Nat
    <2>1. admitted[t] \in Seq(Admission)
        BY DEF LimitsInv, TypeOK
    <2>2. \A i \in DOMAIN admitted[t] : admitted[t][i] \in Admission
        BY <2>1
    <2> QED BY <2>2 DEF Admission
<1>3. TypeOK' /\ OverspendBounded' /\ RateLimitHolds'
    BY <1>1 DEF LimitsInv, TypeOK, OverspendBounded, RateLimitHolds
<1>4. AdmissionsInOrder'
    BY <1>1, <1>2 DEF LimitsInv, AdmissionsInOrder
<1>5. WindowIsRecent'
    <2>1. ASSUME NEW t \in Teams,
                 NEW i \in 1..(Len(admitted[t]) - Len(window[t]))
          PROVE  Stale(admitted[t][i].at)'
        <3>1. /\ Len(admitted[t]) \in Nat /\ Len(window[t]) \in Nat
              /\ DOMAIN admitted[t] = 1..Len(admitted[t])
            BY DEF LimitsInv, TypeOK
        <3>2. i \in DOMAIN admitted[t]
            <4>1. \A m, n \in Nat : \A k \in 1..(m - n) : k \in 1..m
                OBVIOUS
            <4>2. i \in 1..Len(admitted[t])
                BY <3>1, <4>1
            <4> QED BY <3>1, <4>2
        <3>3. admitted[t][i].at + Window <= clock /\ admitted[t][i].at \in Nat
            BY <3>2, <1>2 DEF LimitsInv, WindowIsRecent, Stale
        <3> QED BY <1>1, <3>3 DEF Stale
    <2> QED BY <1>1, <2>1 DEF LimitsInv, WindowIsRecent
<1> QED BY <1>3, <1>4, <1>5 DEF LimitsInv

LEMMA InitInv == Init => LimitsInv
<1> SUFFICES ASSUME Init PROVE LimitsInv
    OBVIOUS
<1>1. TypeOK
    BY DEF Init, TypeOK
<1>2. WindowIsRecent
    <2>1. ASSUME NEW t \in Teams
          PROVE  window[t] = <<>> /\ admitted[t] = <<>>
        BY DEF Init
    <2>2. ASSUME NEW t \in Teams
          PROVE  Len(window[t]) = 0 /\ Len(admitted[t]) = 0
        BY <2>1
    <2>3. ASSUME NEW t \in Teams
          PROVE  /\ Len(window[t]) <= Len(admitted[t])
                 /\ \A i \in 1..Len(window[t]) :
                       window[t][i] =
                         admitted[t][Len(admitted[t]) - Len(window[t]) + i].at
                 /\ \A i \in 1..(Len(admitted[t]) - Len(window[t])) :
                       Stale(admitted[t][i].at)
        <3>1. 1..Len(window[t]) = {}
            BY <2>2
        <3>2. 1..(Len(admitted[t]) - Len(window[t])) = {}
            <4>1. \A m, n \in Nat : m = 0 /\ n = 0 => 1..(m - n) = {}
                OBVIOUS
            <4> QED BY <2>2, <4>1
        <3>3. Len(window[t]) <= Len(admitted[t])
            BY <2>2
        <3> QED BY <3>1, <3>2, <3>3
    <2> QED BY <2>3 DEF WindowIsRecent
<1>3. AdmissionsInOrder /\ RateLimitHolds
    BY DEF Init, AdmissionsInOrder, RateLimitHolds
<1>4. OverspendBounded
    <2>1. ASSUME NEW t \in Teams PROVE spend[t] + open[t] = 0
        BY DEF Init
    <2> QED BY <2>1 DEF OverspendBounded
<1> QED BY <1>1, <1>2, <1>3, <1>4 DEF LimitsInv

LEMMA RestartInv == ASSUME LimitsInv, Restart PROVE LimitsInv'
<1>1. /\ clock' \in Nat
      /\ spend' = [t \in Teams |-> 0] /\ window' = [t \in Teams |-> <<>>]
      /\ open' = [t \in Teams |-> 0] /\ admitted' = [t \in Teams |-> <<>>]
    BY DEF Restart, LimitsInv, TypeOK
<1>2. TypeOK'
    BY <1>1 DEF TypeOK
<1>3. WindowIsRecent'
    BY <1>1 DEF WindowIsRecent
<1>4. AdmissionsInOrder' /\ RateLimitHolds'
    BY <1>1 DEF AdmissionsInOrder, RateLimitHolds
<1>5. OverspendBounded'
    BY <1>1 DEF OverspendBounded
<1> QED BY <1>2, <1>3, <1>4, <1>5 DEF LimitsInv

LEMMA NextInv == LimitsInv /\ [Next]_vars => LimitsInv'
<1> SUFFICES ASSUME LimitsInv, [Next]_vars PROVE LimitsInv'
    OBVIOUS
<1>1. ASSUME UNCHANGED vars PROVE LimitsInv'
    <2>1. WindowIsRecent' /\ AdmissionsInOrder' /\ RateLimitHolds'
        BY <1>1, RatePartUnchanged DEF vars
    <2> QED BY <1>1, <2>1 DEF vars, LimitsInv, TypeOK, OverspendBounded
<1> QED
    BY <1>1, AdmitInv, CheckOnlyInv, EndInv, TickInv, RestartInv DEF Next

-----------------------------------------------------------------------------
(* The theorems. *)

\* The invariant holds in every reachable state.
THEOREM LimitsInvariant == Spec => []LimitsInv
BY InitInv, NextInv, PTL DEF Spec

THEOREM TypeCorrect == Spec => []TypeOK
<1>1. LimitsInv => TypeOK
    BY DEF LimitsInv
<1> QED BY <1>1, LimitsInvariant, PTL

\* No sliding window of a team ever holds more admissions than allowed.
THEOREM RateLimit == Spec => []RateLimitHolds
<1>1. LimitsInv => RateLimitHolds
    BY DEF LimitsInv
<1> QED BY <1>1, LimitsInvariant, PTL

\* Overlapping requests exceed a budget by less than their number.
THEOREM Overspend == Spec => []OverspendBounded
<1>1. LimitsInv => OverspendBounded
    BY DEF LimitsInv
<1> QED BY <1>1, LimitsInvariant, PTL

\* The window forgets no admission that could still count.
THEOREM WindowRecent == Spec => []WindowIsRecent
<1>1. LimitsInv => WindowIsRecent
    BY DEF LimitsInv
<1> QED BY <1>1, LimitsInvariant, PTL
=============================================================================
