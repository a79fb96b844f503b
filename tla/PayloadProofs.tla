---------------------------- MODULE PayloadProofs ----------------------------
(***************************************************************************)
(* Proofs about the contents of a request, module Payload, for every      *)
(* ruleset, text, finding, hash and conversation: decide obeys the published*)
(* order; merging drops a candidate for a better one alone; masking puts  *)
(* every word and token in its place, and restoring, one surrogate after   *)
(* another in the characters of the answer, undoes it; the dates of a scope*)
(* move together; surrogates keep the shape of their originals.            *)
(***************************************************************************)
EXTENDS Payload, FiniteSetTheorems, Induction

-----------------------------------------------------------------------------
(* Choosing a rule. *)

\* The sort key of decide as one number.
Key(r) == 5 * Specificity(r.scope) + Restrictiveness(r.action)

LEMMA KeyFacts ==
    ASSUME NEW r \in Rules, NEW s \in Rules
    PROVE  /\ Key(r) \in 0..19
           /\ Above(r, s) <=> Key(r) > Key(s)
<1>1. \A t \in Rules : Specificity(t.scope) \in 0..3
    BY DEF Rules, Specificity
<1>2. \A t \in Rules : Restrictiveness(t.action) \in 0..4
    BY DEF Rules, ActionNames, Restrictiveness
<1> DEFINE a == Specificity(r.scope)
           b == Restrictiveness(r.action)
           c == Specificity(s.scope)
           d == Restrictiveness(s.action)
<1>3. a \in 0..3 /\ b \in 0..4 /\ c \in 0..3 /\ d \in 0..4
    BY <1>1, <1>2
<1>4. /\ Above(r, s) <=> a > c \/ (a = c /\ b > d)
      /\ Key(r) = 5 * a + b /\ Key(s) = 5 * c + d
    BY DEF Above, Key
<1> HIDE DEF a, b, c, d
<1> QED BY <1>3, <1>4

\* A winner is a candidate that no candidate is above, and it exists.
LEMMA WinnerFacts ==
    ASSUME NEW rules \in Seq(Rules), NEW C, C \subseteq DOMAIN rules, C # {}
    PROVE  /\ Winner(rules, C) \in C
           /\ \A j \in C : ~Above(rules[j], rules[Winner(rules, C)])
<1> DEFINE gap == {19 - Key(rules[i]) : i \in C}
           best == {i \in C : \A j \in C : ~Above(rules[j], rules[i])}
<1>1. \A i \in C : i \in Nat /\ rules[i] \in Rules
    OBVIOUS
<1>2. \A i \in C : Key(rules[i]) \in 0..19
    BY <1>1, KeyFacts
<1>3. gap \subseteq Nat /\ gap # {}
    <2>1. \A n \in 0..19 : 19 - n \in Nat
        OBVIOUS
    <2>2. \A k \in C : 19 - Key(rules[k]) \in Nat
        BY <1>2, <2>1
    <2> QED BY <2>2
<1>4. PICK g \in gap : \A y \in gap : g <= y
    <2> HIDE DEF gap
    <2> QED BY <1>3, LeastOf
<1>5. PICK i \in C : g = 19 - Key(rules[i])
    BY <1>4
<1>6. \A j \in C : ~Above(rules[j], rules[i])
    <2> TAKE j \in C
    <2>1. 19 - Key(rules[i]) <= 19 - Key(rules[j])
        BY <1>4, <1>5
    <2>2. \A m, n \in 0..19 : 19 - m <= 19 - n => ~(n > m)
        OBVIOUS
    <2>3. ~(Key(rules[j]) > Key(rules[i]))
        BY <2>1, <2>2, <1>2
    <2> QED BY <2>3, <1>1, KeyFacts
<1>7. best \subseteq Nat /\ best # {}
    BY <1>1, <1>6
<1>8. \E k \in best : \A j \in best : k <= j
    <2> HIDE DEF best
    <2> QED BY <1>7, LeastOf
<1>9. Winner(rules, C) = CHOOSE k \in best : \A j \in best : k <= j
    BY DEF Winner
<1>10. Winner(rules, C) \in best
    <2> HIDE DEF best
    <2> QED BY <1>8, <1>9
<1> QED BY <1>10

\* decide obeys the published order, for every ruleset, type, confidence and request
\* (policy/precedence.py:8-29).
THEOREM DecideObeysOrder ==
    ASSUME NEW ruleset \in RuleSets, NEW type, NEW confidence, NEW who
    PROVE  Published(ruleset, type, confidence, who, Decide(ruleset, type, confidence, who))
<1> DEFINE rules == ruleset.rules
           matched == Matched(ruleset, type, confidence, who)
           blocking == {i \in matched : rules[i].action = "block"}
           C == IF blocking = {} THEN matched ELSE blocking
           i == Winner(rules, C)
           d == Decide(ruleset, type, confidence, who)
<1> SUFFICES Published(ruleset, type, confidence, who, d)
    OBVIOUS
<1>1. rules \in Seq(Rules) /\ matched \subseteq DOMAIN rules
    BY DEF RuleSets, Matched
<1>2. d = IF matched = {} THEN [action |-> ruleset.default, rule |-> 0]
                          ELSE [action |-> rules[i].action, rule |-> i]
    BY DEF Decide
<1>3. Published(ruleset, type, confidence, who, d) <=>
        /\ matched = {} => d.rule = 0 /\ d.action = ruleset.default
        /\ matched # {} => d.rule \in matched /\ d.action = rules[d.rule].action
        /\ (\E j \in matched : rules[j].action = "block") => d.action = "block"
        /\ \A j \in matched : d.action = "block" \/ ~Above(rules[j], rules[d.rule])
    BY DEF Published
<1>4. CASE matched = {}
    <2> HIDE DEF matched, d, rules, i
    <2> QED BY <1>2, <1>3, <1>4
<1>5. CASE matched # {}
    <2>1. C # {} /\ C \subseteq matched
        BY <1>5
    <2>2. i \in C /\ \A j \in C : ~Above(rules[j], rules[i])
        <3> HIDE DEF rules, C, matched
        <3> QED BY <1>1, <2>1, WinnerFacts
    <2>3. d.rule = i /\ d.action = rules[i].action
        <3> HIDE DEF matched, i, d
        <3> QED BY <1>2, <1>5
    <2>4. CASE blocking = {}
        <3>1. C = matched /\ ~\E j \in matched : rules[j].action = "block"
            BY <2>4
        <3> HIDE DEF matched, i, d, rules, C
        <3> QED BY <1>3, <1>5, <2>2, <2>3, <3>1
    <2>5. CASE blocking # {}
        <3>1. i \in matched /\ rules[i].action = "block"
            BY <2>2, <2>5
        <3> HIDE DEF matched, i, d, rules, C
        <3> QED BY <1>3, <1>5, <2>3, <3>1
    <2> QED BY <2>4, <2>5
<1> QED BY <1>4, <1>5

-----------------------------------------------------------------------------
(* Merging. *)

Rows == [1..7 -> Int]

LEMMA RankIsRow ==
    ASSUME NEW C, AreCandidates(C), NEW s \in C
    PROVE  /\ Rank(s) \in Rows
           /\ Rank(s)[1] = s.confidence /\ Rank(s)[2] = s.specificity
           /\ Rank(s)[3] = s.end - s.start /\ Rank(s)[7] = 0 - s.nth
BY DEF AreCandidates, Rank, Rows

\* Rows are ordered by the first place where they differ.
LEMMA HigherIsOrder ==
    ASSUME NEW a \in Rows, NEW b \in Rows, NEW c \in Rows
    PROVE  /\ Higher(a, b) /\ Higher(b, c) => Higher(a, c)
           /\ Higher(a, b) \/ Higher(b, a) \/ a = b
<1>1. ASSUME Higher(a, b), Higher(b, c) PROVE Higher(a, c)
    <2>1. PICK i \in 1..7 : a[i] > b[i] /\ \A j \in 1..(i - 1) : a[j] = b[j]
        BY <1>1 DEF Higher, Rows
    <2>2. PICK k \in 1..7 : b[k] > c[k] /\ \A j \in 1..(k - 1) : b[j] = c[j]
        BY <1>1 DEF Higher, Rows
    <2>3. PICK m \in 1..7 : m = IF i < k THEN i ELSE k
        OBVIOUS
    <2>4. \A j \in 1..(m - 1) : j \in 1..(i - 1) /\ j \in 1..(k - 1)
        BY <2>3
    <2>5. \A j \in 1..(m - 1) : a[j] = c[j]
        BY <2>1, <2>2, <2>4
    <2>6. a[m] > c[m]
        <3>1. a[m] \in Int /\ b[m] \in Int /\ c[m] \in Int
            BY DEF Rows
        <3>2. CASE i < k
            <4>1. m = i /\ i \in 1..(k - 1)
                BY <2>3, <3>2
            <4> QED BY <2>1, <2>2, <3>1, <4>1
        <3>3. CASE i = k
            BY <2>1, <2>2, <2>3, <3>1, <3>3
        <3>4. CASE k < i
            <4>1. m = k /\ k \in 1..(i - 1)
                BY <2>3, <3>4
            <4> QED BY <2>1, <2>2, <3>1, <4>1
        <3> QED BY <3>2, <3>3, <3>4
    <2> QED BY <2>5, <2>6 DEF Higher, Rows
<1>2. ASSUME a # b PROVE Higher(a, b) \/ Higher(b, a)
    <2> DEFINE T == {i \in 1..7 : a[i] # b[i]}
    <2>1. T \subseteq Nat /\ T # {}
        BY <1>2 DEF Rows
    <2>2. PICK i \in T : \A j \in T : i <= j
        <3> HIDE DEF T
        <3> QED BY <2>1, LeastOf
    <2>3. \A j \in 1..(i - 1) : a[j] = b[j]
        BY <2>2
    <2>4. a[i] > b[i] \/ b[i] > a[i]
        BY DEF Rows
    <2> QED BY <2>3, <2>4 DEF Higher, Rows
<1> QED BY <1>1, <1>2

\* The order of merge_spans is total: the place among the results decides last.
LEMMA BeforeIsOrder ==
    ASSUME NEW C, AreCandidates(C), NEW s \in C, NEW t \in C, NEW u \in C
    PROVE  /\ Before(s, t) /\ Before(t, u) => Before(s, u)
           /\ Before(s, t) \/ Before(t, s) \/ s = t
<1>1. Rank(s) \in Rows /\ Rank(t) \in Rows /\ Rank(u) \in Rows
    BY RankIsRow
<1>2. ASSUME Rank(s) = Rank(t) PROVE s = t
    <2>1. 0 - s.nth = 0 - t.nth
        BY <1>2, RankIsRow
    <2> QED BY <2>1 DEF AreCandidates
<1> QED BY <1>1, <1>2, HigherIsOrder DEF Before

LEMMA BeforeOutranks ==
    ASSUME NEW C, AreCandidates(C), NEW s \in C, NEW t \in C, Before(s, t)
    PROVE  Outranks(s, t)
<1>1. /\ Rank(s)[1] = s.confidence /\ Rank(s)[2] = s.specificity /\ Rank(s)[3] = s.end - s.start
      /\ Rank(t)[1] = t.confidence /\ Rank(t)[2] = t.specificity /\ Rank(t)[3] = t.end - t.start
    BY RankIsRow
<1>2. PICK i \in 1..7 : /\ Rank(s)[i] > Rank(t)[i]
                        /\ \A j \in 1..(i - 1) : Rank(s)[j] = Rank(t)[j]
    BY RankIsRow DEF Before, Higher, Rows
<1>3. /\ s.confidence \in Int /\ s.specificity \in Int /\ s.end - s.start \in Int
      /\ t.confidence \in Int /\ t.specificity \in Int /\ t.end - t.start \in Int
    BY DEF AreCandidates
<1>4. CASE i = 1
    BY <1>1, <1>2, <1>4 DEF Outranks
<1>5. CASE i = 2
    <2>1. 1 \in 1..(i - 1)
        BY <1>5
    <2> QED BY <1>1, <1>2, <1>5, <2>1 DEF Outranks
<1>6. CASE i > 2
    <2>1. 1 \in 1..(i - 1) /\ 2 \in 1..(i - 1) /\ (3 \in 1..(i - 1) \/ i = 3)
        BY <1>6
    <2>2. s.confidence = t.confidence /\ s.specificity = t.specificity
        BY <1>1, <1>2, <2>1
    <2>3. s.end - s.start = t.end - t.start \/ s.end - s.start > t.end - t.start
        BY <1>1, <1>2, <2>1
    <2>4. s.end - s.start >= t.end - t.start
        BY <1>3, <2>3
    <2> QED BY <2>2, <2>4 DEF Outranks
<1> QED BY <1>2, <1>4, <1>5, <1>6

IsLowest(s, S) == s \in S /\ \A t \in S \ {s} : Before(t, s)

LEMMA LowestExists ==
    ASSUME NEW C, AreCandidates(C), NEW S \in SUBSET C, S # {}
    PROVE  IsLowest(Lowest(S), S)
<1> DEFINE Sized(n) == {T \in SUBSET C : T # {} /\ IsFiniteSet(T) /\ Cardinality(T) = n}
           N == {n \in Nat : \A T \in Sized(n) : \E s \in T : IsLowest(s, T)}
<1>1. 0 \in N
    BY FS_EmptySet
<1>2. ASSUME NEW n \in Nat, n \in N PROVE n + 1 \in N
    <2> SUFFICES ASSUME NEW T \in Sized(n + 1) PROVE \E s \in T : IsLowest(s, T)
        OBVIOUS
    <2>1. PICK x \in T : TRUE
        OBVIOUS
    <2>2. IsFiniteSet(T \ {x}) /\ Cardinality(T \ {x}) = n
        <3>1. IsFiniteSet(T) /\ Cardinality(T) = n + 1
            OBVIOUS
        <3> QED BY <2>1, <3>1, FS_RemoveElement
    <2>3. CASE T \ {x} = {}
        BY <2>1, <2>3 DEF IsLowest
    <2>4. CASE T \ {x} # {}
        <3>1. T \ {x} \in Sized(n)
            BY <2>2, <2>4
        <3>2. PICK y \in T \ {x} : IsLowest(y, T \ {x})
            BY <1>2, <3>1
        <3>3. CASE Before(x, y)
            BY <3>2, <3>3 DEF IsLowest
        <3>4. CASE Before(y, x)
            <4>1. \A t \in T \ {x} : Before(t, x)
                BY <3>2, <3>4, <2>1, BeforeIsOrder DEF IsLowest
            <4> QED BY <2>1, <4>1 DEF IsLowest
        <3> QED BY <2>1, <3>2, <3>3, <3>4, BeforeIsOrder
    <2> QED BY <2>3, <2>4
<1>3. Nat \subseteq N
    <2> HIDE DEF N
    <2> QED BY <1>1, <1>2, SetInduction
<1>4. IsFiniteSet(S) /\ Cardinality(S) \in Nat
    BY FS_Subset, FS_CardinalityType DEF AreCandidates
<1>5. \E s \in S : IsLowest(s, S)
    BY <1>3, <1>4
<1> QED BY <1>5 DEF Lowest, IsLowest

\* What merge_spans keeps of S.
Merged(K, S) ==
    /\ K \subseteq S
    /\ \A f, g \in K : f = g \/ Apart(f, g)
    /\ \A c \in S \ K : \E f \in K : ~Apart(f, c) /\ Outranks(f, c)

LEMMA MergeHolds ==
    ASSUME NEW C, AreCandidates(C)
    PROVE  Merged(MergeSpans(C), C)
<1> DEFINE D == SUBSET C
           size == [S \in D |-> Cardinality(S)]
           Step(f, S) == IF S = {} THEN {} ELSE KeepIfApart(f[S \ {Lowest(S)}], Lowest(S))
           body == [p \in [D -> D] \X D |-> Step(p[1], p[2])]
           merged == CHOOSE f : f = [S \in D |-> Step(f, S)]
<1>1. ASSUME NEW S \in D, S # {}
      PROVE  /\ Lowest(S) \in S /\ S \ {Lowest(S)} \in D
             /\ \A t \in S \ {Lowest(S)} : Before(t, Lowest(S))
    BY <1>1, LowestExists DEF IsLowest
<1>2. ASSUME NEW S \in D PROVE IsFiniteSet(S) /\ Cardinality(S) \in 0..Cardinality(C)
    BY FS_Subset, FS_CardinalityType DEF AreCandidates
<1>3. Falls(D, D, size, Cardinality(C) + 1, body)
    <2>1. Cardinality(C) \in Nat
        BY FS_CardinalityType DEF AreCandidates
    <2>2. size \in [D -> Nat] /\ \A S \in D : size[S] < Cardinality(C) + 1
        BY <1>2, <2>1
    <2>3. ASSUME NEW f \in [D -> D], NEW S \in D PROVE Step(f, S) \in D
        <3>1. CASE S # {}
            <4>1. f[S \ {Lowest(S)}] \in D
                BY <1>1, <3>1
            <4> QED BY <1>1, <3>1, <4>1 DEF KeepIfApart
        <3> QED BY <3>1
    <2>4. \A f \in [D -> D] : \A S \in D : body[<<f, S>>] = Step(f, S)
        OBVIOUS
    <2>5. body \in [[D -> D] \X D -> D]
        BY <2>3
    <2>6. ASSUME NEW f \in [D -> D], NEW g \in [D -> D], NEW S \in D,
                 \A T \in D : size[T] < size[S] => f[T] = g[T]
          PROVE  body[<<f, S>>] = body[<<g, S>>]
        <3>1. CASE S # {}
            <4> DEFINE T == S \ {Lowest(S)}
            <4>1. T \in D /\ Cardinality(T) = Cardinality(S) - 1 /\ Cardinality(S) \in Nat
                BY <1>1, <1>2, <3>1, FS_RemoveElement
            <4>2. f[T] = g[T]
                <5>1. size[T] = Cardinality(T) /\ size[S] = Cardinality(S)
                    BY <4>1
                <5>2. size[T] < size[S]
                    BY <4>1, <5>1
                <5> QED BY <2>6, <4>1, <5>2
            <4>3. Step(f, S) = Step(g, S)
                BY <4>2
            <4> QED BY <2>4, <4>3
        <3>2. CASE S = {}
            BY <2>4, <3>2
        <3> QED BY <3>1, <3>2
    <2>7. Cardinality(C) + 1 \in Nat
        BY <2>1
    <2> HIDE DEF D, size, body, Step, merged
    <2>8. \A f, g \in [D -> D] : \A S \in D :
             (\A T \in D : size[T] < size[S] => f[T] = g[T])
                 => body[<<f, S>>] = body[<<g, S>>]
        BY <2>6
    <2> QED BY ONLY <2>2, <2>5, <2>7, <2>8 DEF Falls
<1>4. merged = [S \in D |-> Step(merged, S)]
    <2>1. IsDefined(D, D, body)
        <3> HIDE DEF D, size, body
        <3>1. D # {}
            BY DEF D
        <3> QED BY <1>3, <3>1, RecursiveFunction
    <2>2. PICK f \in [D -> D] : \A S \in D : f[S] = body[<<f, S>>]
        BY <2>1 DEF IsDefined
    <2>3. \A S \in D : f[S] = Step(f, S)
        BY <2>2
    <2>4. f = [S \in D |-> Step(f, S)]
        <3> HIDE DEF D, Step
        <3> QED BY <2>3
    <2> QED BY <2>4
<1>5. MergeSpans(C) = merged[C]
    BY DEF MergeSpans
<1> HIDE DEF merged
<1> DEFINE N == {n \in Nat : \A S \in D : Cardinality(S) = n => Merged(merged[S], S)}
<1>6. 0 \in N
    <2> SUFFICES ASSUME NEW S \in D, Cardinality(S) = 0 PROVE Merged(merged[S], S)
        OBVIOUS
    <2>1. S = {}
        BY <1>2, FS_EmptySet
    <2>2. merged[S] = {}
        BY <1>4, <2>1
    <2> QED BY <2>1, <2>2 DEF Merged
<1>7. ASSUME NEW n \in Nat, n \in N PROVE n + 1 \in N
    <2> SUFFICES ASSUME NEW S \in D, Cardinality(S) = n + 1 PROVE Merged(merged[S], S)
        OBVIOUS
    <2> DEFINE l == Lowest(S)
               T == S \ {l}
               K == merged[T]
    <2>1. S # {}
        BY FS_EmptySet
    <2>2. l \in S /\ T \in D /\ \A t \in T : Before(t, l)
        BY <1>1, <2>1
    <2>3. Cardinality(T) = n
        BY <1>2, <2>2, FS_RemoveElement
    <2>4. Merged(K, T)
        BY <1>7, <2>2, <2>3
    <2>5. merged[S] = KeepIfApart(K, l)
        BY <1>4, <2>1
    <2>6. S \in SUBSET C /\ l \in C /\ T = S \ {l}
        BY <2>2
    <2> HIDE DEF l, K, T, D
    <2>7. CASE \A k \in K : Apart(l, k)
        <3>1. merged[S] = K \cup {l}
            BY <2>5, <2>7 DEF KeepIfApart
        <3>2. \A k \in K : Apart(k, l)
            <4>1. \A k \in K : k \in C
                BY <2>4, <2>6 DEF Merged
            <4>2. \A k \in K : k.start \in Int /\ k.end \in Int
                BY <4>1 DEF AreCandidates
            <4> QED BY <2>6, <2>7, <4>2 DEF Apart, AreCandidates
        <3> QED BY <2>2, <2>4, <2>6, <2>7, <3>1, <3>2 DEF Merged
    <2>8. CASE ~\A k \in K : Apart(l, k)
        <3>1. merged[S] = K
            BY <2>5, <2>8 DEF KeepIfApart
        <3>2. PICK k \in K : ~Apart(l, k)
            BY <2>8
        <3>3. k \in T /\ k \in C
            BY <2>4, <2>6 DEF Merged
        <3>4. ~Apart(k, l)
            BY <2>6, <3>2, <3>3 DEF Apart, AreCandidates
        <3>5. Outranks(k, l)
            BY <2>2, <2>6, <3>3, BeforeOutranks
        <3> QED BY <2>4, <2>6, <3>1, <3>4, <3>5 DEF Merged
    <2> QED BY <2>7, <2>8
<1>8. Nat \subseteq N
    <2> HIDE DEF N
    <2> QED BY <1>6, <1>7, SetInduction
<1>9. C \in D /\ Cardinality(C) \in Nat
    BY FS_CardinalityType DEF AreCandidates
<1> QED BY <1>5, <1>8, <1>9

-----------------------------------------------------------------------------
(* The specification. *)

DecisionInv ==
    /\ given \in Givens
    /\ DecisionIsPublished

\* Only Detect decides, and the ruleset it read stays that of the conversation.
THEOREM DecisionsHold == Spec => []DecisionIsPublished
<1>1. Init => DecisionInv
    BY DEF Init, DecisionInv, DecisionIsPublished, Nothing
<1>2. DecisionInv /\ [Next]_vars => DecisionInv'
    <2> SUFFICES ASSUME DecisionInv, [Next]_vars PROVE DecisionInv'
        OBVIOUS
    <2>1. CASE Detect
        <3>1. given' = given /\ given.ruleset \in RuleSets
            BY <2>1, GivensAssumption DEF Detect, DecisionInv
        <3>2. \A l \in DOMAIN decided' :
                 decided'[l] = Decide(given.ruleset, l.finding.type, l.finding.confidence, given.who)
            BY <2>1 DEF Detect
        <3> QED BY <3>1, <3>2, DecideObeysOrder DEF DecisionInv, DecisionIsPublished
    <2>2. CASE UNCHANGED <<given, decided>>
        BY <2>2 DEF DecisionInv, DecisionIsPublished
    <2>3. CASE NextTurn
        <3>1. given' = given /\ DOMAIN decided' = {}
            BY <2>3 DEF NextTurn, Nothing
        <3> QED BY <3>1 DEF DecisionInv, DecisionIsPublished
    <2>4. \/ Detect \/ NextTurn \/ UNCHANGED <<given, decided>>
        BY DEF Next, Mask, MaskFails, Shadow, Block, Answers, Restore, vars
    <2> QED BY <2>1, <2>2, <2>3, <2>4
<1>3. DecisionInv => DecisionIsPublished
    BY DEF DecisionInv
<1> QED BY <1>1, <1>2, <1>3, PTL DEF Spec

-----------------------------------------------------------------------------
(* The contents. *)

Turns == {"received", "decided", "blocked", "failed", "sent", "answered", "restored"}

Here(p) ==
    {[path |-> p, finding |-> f] : f \in Findings(given.candidates[payload[p]], Len(payload[p]))}

\* What Detect locates.
Located == UNION {Here(p) : p \in ExtractText(payload)}

PayloadInv ==
    /\ given \in Givens
    /\ stage \in Turns
    /\ turn \in DOMAIN given.turns
    /\ located = {} \/ located = Located
    /\ DOMAIN decided = located
    /\ IsFiniteSet(DOMAIN known)
    /\ DOMAIN since = DOMAIN known
    /\ \A o \in DOMAIN known : since[o] \in Nat

LEMMA TextFacts ==
    ASSUME given \in Givens, turn \in DOMAIN given.turns, NEW p \in DOMAIN payload
    PROVE  /\ payload[p] \in TextsOf(given)
           /\ AreCandidates(given.candidates[payload[p]])
<1>1. payload[p] \in TextsOf(given)
    BY DEF payload, TextsOf, Range
<1> QED BY <1>1, GivensAssumption

\* The findings of a text are those the merge keeps of its valid candidates.
LEMMA FindingFacts ==
    ASSUME NEW C, AreCandidates(C), NEW n
    PROVE  /\ Merged(Findings(C, n), {s \in C : Valid(s, n)})
           /\ AreCandidates({s \in C : Valid(s, n)})
<1>1. AreCandidates({s \in C : Valid(s, n)})
    <2>1. IsFiniteSet({s \in C : Valid(s, n)})
        BY FS_Subset DEF AreCandidates
    <2> QED BY <2>1 DEF AreCandidates
<1> QED BY <1>1, MergeHolds DEF Findings

LEMMA LocatedFacts ==
    ASSUME PayloadInv, NEW l \in located
    PROVE  /\ l.path \in DOMAIN payload
           /\ l.finding \in Findings(given.candidates[payload[l.path]], Len(payload[l.path]))
           /\ l \in Here(l.path)
           /\ l.finding \in given.candidates[payload[l.path]]
           /\ Valid(l.finding, Len(payload[l.path]))
<1>1. PICK p \in ExtractText(payload) : l \in Here(p)
    BY DEF PayloadInv, Located
<1>2. /\ l.path = p /\ p \in DOMAIN payload
      /\ l.finding \in Findings(given.candidates[payload[p]], Len(payload[p]))
    BY <1>1 DEF Here, ExtractText
<1>3. Merged(Findings(given.candidates[payload[p]], Len(payload[p])),
             {s \in given.candidates[payload[p]] : Valid(s, Len(payload[p]))})
    BY <1>2, TextFacts, FindingFacts DEF PayloadInv
<1> QED BY <1>1, <1>2, <1>3 DEF Merged

LEMMA LocatedIsFinite ==
    ASSUME PayloadInv
    PROVE  IsFiniteSet(located)
<1>1. ASSUME NEW p \in DOMAIN payload PROVE IsFiniteSet(Here(p))
    <2> DEFINE K == Findings(given.candidates[payload[p]], Len(payload[p]))
               f == [g \in K |-> [path |-> p, finding |-> g]]
    <2>1. IsFiniteSet(K)
        <3>1. AreCandidates(given.candidates[payload[p]])
            BY TextFacts DEF PayloadInv
        <3>2. /\ Merged(K, {s \in given.candidates[payload[p]] : Valid(s, Len(payload[p]))})
              /\ IsFiniteSet({s \in given.candidates[payload[p]] : Valid(s, Len(payload[p]))})
            BY <3>1, FindingFacts DEF AreCandidates
        <3> HIDE DEF K
        <3> QED BY <3>2, FS_Subset DEF Merged
    <2>2. Here(p) = {f[g] : g \in K}
        BY DEF Here
    <2> HIDE DEF K, f
    <2>3. IsFiniteSet({f[g] : g \in K})
        BY <2>1, ValuesAreFinite
    <2> QED BY <2>2, <2>3
<1>2. IsFiniteSet(ExtractText(payload)) /\ ExtractText(payload) \subseteq DOMAIN payload
    <2>1. IsFiniteSet(DOMAIN payload)
        BY GivensAssumption DEF PayloadInv, payload
    <2>2. ExtractText(payload) \in SUBSET DOMAIN payload
        BY DEF ExtractText
    <2> QED BY <2>1, <2>2, FS_Subset
<1> DEFINE P == ExtractText(payload)
           h == [p \in P |-> Here(p)]
<1>3. IsFiniteSet({h[p] : p \in P})
    <2>1. IsFiniteSet(P)
        BY <1>2
    <2> HIDE DEF P, h
    <2> QED BY <2>1, ValuesAreFinite
<1>4. \A S \in {h[p] : p \in P} : IsFiniteSet(S)
    BY <1>1, <1>2
<1>5. {h[p] : p \in P} = {Here(p) : p \in P}
    OBVIOUS
<1>6. IsFiniteSet(UNION {h[p] : p \in P})
    <2> HIDE DEF P, h
    <2> QED BY <1>3, <1>4, FS_UNION
<1>7. IsFiniteSet(Located)
    BY <1>5, <1>6 DEF Located
<1> QED BY <1>7, FS_EmptySet DEF PayloadInv

-----------------------------------------------------------------------------
(* The vault. *)

\* Of the findings of a value one is met first.
LEMMA FirstIsFound ==
    ASSUME PayloadInv, NEW o, FindingsOf(o) # {}
    PROVE  FirstFinding(o) \in FindingsOf(o)
<1> DEFINE S == FindingsOf(o)
           place == given.places[turn]
<1>1. ASSUME NEW l \in S PROVE place[l.path] \in Nat /\ l.finding.start \in Nat
    <2>1. l \in located
        BY <1>1 DEF FindingsOf, Pseudonymized
    <2>2. l.path \in DOMAIN payload /\ Valid(l.finding, Len(payload[l.path]))
        BY <2>1, LocatedFacts
    <2>3. AreCandidates(given.candidates[payload[l.path]])
          /\ l.finding \in given.candidates[payload[l.path]]
        BY <2>1, <2>2, LocatedFacts, TextFacts DEF PayloadInv
    <2>4. place[l.path] \in Nat
        BY <2>2, GivensAssumption DEF PayloadInv, payload
    <2> QED BY <2>2, <2>3, <2>4 DEF Valid, AreCandidates
<1>2. S # {}
    OBVIOUS
<1> HIDE DEF S
<1> DEFINE P == {place[l.path] : l \in S}
<1>3. PICK p \in P : \A q \in P : p <= q
    <2>1. P \subseteq Nat /\ P # {}
        BY <1>1, <1>2
    <2> HIDE DEF P
    <2> QED BY <2>1, LeastOf
<1> DEFINE L == {l \in S : place[l.path] = p}
           N == {l.finding.start : l \in L}
<1>4. PICK n \in N : \A m \in N : n <= m
    <2>1. N \subseteq Nat /\ N # {}
        BY <1>1, <1>3
    <2> HIDE DEF N
    <2> QED BY <2>1, LeastOf
<1>5. PICK l \in L : l.finding.start = n
    OBVIOUS
<1>6. ASSUME NEW k \in S PROVE ~Sooner(k, l)
    <2>1. place[l.path] = p /\ p <= place[k.path] /\ p \in Nat /\ place[k.path] \in Nat
        BY <1>1, <1>3
    <2>2. ~(place[k.path] < place[l.path])
        BY ONLY <2>1
    <2>3. ASSUME k.path = l.path PROVE ~(k.finding.start < l.finding.start)
        <3>1. k \in L
            BY <2>3
        <3>2. n <= k.finding.start /\ l.finding.start = n
            BY <1>4, <1>5, <3>1
        <3>3. n \in Nat /\ k.finding.start \in Nat
            BY <1>1, <1>4
        <3> QED BY ONLY <3>2, <3>3
    <2> QED BY <2>2, <2>3 DEF Sooner
<1>7. l \in S
    OBVIOUS
<1> QED BY <1>6, <1>7 DEF FirstFinding, S

\* What a value gets that is new, and that the others keep what they have.
LEMMA PutFacts ==
    ASSUME PayloadInv, NEW values \in SUBSET New, Put(values)
    PROVE  /\ DOMAIN known' = DOMAIN known \cup values
           /\ \A o \in DOMAIN known : known'[o] = known[o]
           /\ \A o \in values :
                 /\ known'[o] = Surrogate(o)
                 /\ FirstFinding(o) \in FindingsOf(o) /\ FindingsOf(o) \subseteq located
           /\ IsFiniteSet(DOMAIN known')
           /\ DOMAIN since' = DOMAIN known'
           /\ \A o \in DOMAIN known' : since'[o] \in Nat
<1> DEFINE soonerThan(o) == {q \in values : Sooner(FirstFinding(q), FirstFinding(o))}
<1>1. /\ known' = [o \in DOMAIN known \cup values |->
                      IF o \in values THEN Surrogate(o) ELSE known[o]]
      /\ since' = [o \in DOMAIN known \cup values |->
                      IF o \in values
                      THEN Cardinality(DOMAIN known) + Cardinality(soonerThan(o))
                      ELSE since[o]]
    BY DEF Put
<1>2. \A o \in values : o \notin DOMAIN known /\ \E l \in Pseudonymized : Original(l) = o
    BY DEF New
<1>3. ASSUME NEW o \in values
      PROVE  FirstFinding(o) \in FindingsOf(o) /\ FindingsOf(o) \subseteq located
    <2>1. FindingsOf(o) # {}
        BY <1>2 DEF FindingsOf
    <2> QED BY <2>1, FirstIsFound DEF FindingsOf, Pseudonymized
<1>4. IsFiniteSet(values)
    <2> DEFINE f == [l \in located |-> Original(l)]
    <2>1. IsFiniteSet({f[l] : l \in located})
        <3> HIDE DEF f
        <3> QED BY LocatedIsFinite, ValuesAreFinite
    <2>2. values \subseteq {f[l] : l \in located}
        BY <1>2 DEF Pseudonymized
    <2> QED BY <2>1, <2>2, FS_Subset
<1>5. IsFiniteSet(DOMAIN known \cup values)
    BY <1>4, FS_Union DEF PayloadInv
<1>6. DOMAIN known' = DOMAIN known \cup values /\ DOMAIN since' = DOMAIN known \cup values
    BY <1>1
<1>7. ASSUME NEW o \in DOMAIN known \cup values PROVE since'[o] \in Nat
    <2>1. CASE o \in values
        <3>1. soonerThan(o) \in SUBSET values
            OBVIOUS
        <3>2. Cardinality(soonerThan(o)) \in Nat
            <4> HIDE DEF soonerThan
            <4> QED BY <1>4, <3>1, FS_Subset, FS_CardinalityType
        <3>3. Cardinality(DOMAIN known) \in Nat
            BY FS_CardinalityType DEF PayloadInv
        <3>4. since'[o] = Cardinality(DOMAIN known) + Cardinality(soonerThan(o))
            BY <1>1, <2>1
        <3> QED BY ONLY <3>2, <3>3, <3>4
    <2>2. CASE o \notin values
        <3>1. since'[o] = since[o] /\ o \in DOMAIN known
            BY <1>1, <2>2
        <3> QED BY <3>1 DEF PayloadInv
    <2> QED BY <2>1, <2>2
<1>8. \A o \in DOMAIN known : known'[o] = known[o]
    BY <1>1, <1>2
<1>9. \A o \in values : known'[o] = Surrogate(o)
    BY <1>1
<1>10. IsFiniteSet(DOMAIN known')
    BY <1>5, <1>6
<1> QED BY <1>3, <1>6, <1>7, <1>8, <1>9, <1>10

LEMMA MaskPuts ==
    ASSUME Mask \/ MaskFails
    PROVE  /\ \E values \in SUBSET New : Put(values)
           /\ UNCHANGED <<given, turn, located, decided, answer>>
<1>1. CASE Mask
    BY <1>1 DEF Mask
<1>2. CASE MaskFails
    <2> DEFINE values == {o \in New : \A f \in Failing :
                             Sooner(FirstFinding(o), FirstFinding(f))}
    <2>1. Put(values) /\ UNCHANGED <<given, turn, located, decided, answer>>
        BY <1>2 DEF MaskFails
    <2>2. values \in SUBSET New
        OBVIOUS
    <2> HIDE DEF values
    <2> QED BY <2>1, <2>2
<1> QED BY <1>1, <1>2

\* The last of those that were put under a surrogate is found under it.
LEMMA ReverseFacts ==
    ASSUME PayloadInv, NEW s \in DOMAIN reverse
    PROVE  reverse[s] \in DOMAIN known /\ Spelling(known[reverse[s]]) = s
<1> DEFINE S == Holders(s)
<1>1. S # {} /\ S \in SUBSET DOMAIN known
    BY DEF reverse, Holders
<1>2. IsFiniteSet(S)
    BY <1>1, FS_Subset DEF PayloadInv
<1>3. \A o \in S : since[o] \in Nat
    BY <1>1 DEF PayloadInv
<1>4. \E o \in S : \A q \in S : since[q] <= since[o]
    <2> HIDE DEF S
    <2> QED BY <1>1, <1>2, <1>3, GreatestRank
<1>5. reverse[s] = CHOOSE o \in Holders(s) : \A q \in Holders(s) : since[q] <= since[o]
    BY DEF reverse
<1>6. reverse[s] \in Holders(s)
    BY <1>4, <1>5
<1> QED BY <1>6 DEF Holders

LEMMA InvInit == Init => PayloadInv
<1> SUFFICES ASSUME Init PROVE PayloadInv
    OBVIOUS
<1>1. DOMAIN Nothing = {}
    BY DEF Nothing
<1>2. 1 \in DOMAIN given.turns
    BY GivensAssumption DEF Init
<1> QED BY <1>1, <1>2, FS_EmptySet DEF Init, PayloadInv, Turns

LEMMA InvNext == PayloadInv /\ [Next]_vars => PayloadInv'
<1> SUFFICES ASSUME PayloadInv, [Next]_vars PROVE PayloadInv'
    OBVIOUS
<1> USE DEF PayloadInv
<1>1. ASSUME UNCHANGED <<given, turn>> PROVE Located' = Located
    BY <1>1 DEF Located, Here, payload, ExtractText
<1>2. CASE Detect
    <2>1. UNCHANGED <<given, turn, known, since>> /\ stage' = "decided"
        BY <1>2 DEF Detect
    <2>2. located' = Located
        BY <1>2 DEF Detect, Located, Here
    <2>3. DOMAIN decided' = located'
        BY <1>2 DEF Detect
    <2> QED BY <1>1, <2>1, <2>2, <2>3 DEF Turns
<1>3. CASE Mask \/ MaskFails
    <2>1. UNCHANGED <<given, turn, located, decided>>
        BY <1>3, MaskPuts
    <2>2. stage' \in Turns
        BY <1>3 DEF Mask, MaskFails, Turns
    <2>3. PICK values \in SUBSET New : Put(values)
        BY <1>3, MaskPuts
    <2>4. /\ IsFiniteSet(DOMAIN known') /\ DOMAIN since' = DOMAIN known'
          /\ \A o \in DOMAIN known' : since'[o] \in Nat
        BY <2>3, PutFacts
    <2> QED BY <1>1, <2>1, <2>2, <2>4
<1>4. CASE NextTurn
    <2>1. given' = given /\ stage' = "received" /\ located' = {} /\ DOMAIN decided' = {}
        BY <1>4 DEF NextTurn, Nothing
    <2>2. turn' \in DOMAIN given'.turns
        BY <1>4, GivensAssumption DEF NextTurn
    <2>3. \/ UNCHANGED <<known, since>>
          \/ DOMAIN known' = {} /\ DOMAIN since' = {}
        BY <1>4 DEF NextTurn, Nothing
    <2> QED BY <2>1, <2>2, <2>3, FS_EmptySet DEF Turns
<1>5. CASE Shadow \/ Block \/ Answers \/ Restore \/ UNCHANGED vars
    <2>1. UNCHANGED <<given, turn, located, decided, known, since>> /\ stage' \in Turns
        BY <1>5 DEF Shadow, Block, Answers, Restore, vars, Turns
    <2> QED BY <1>1, <2>1
<1> QED BY <1>2, <1>3, <1>4, <1>5 DEF Next

\* The findings lie in the texts that are scanned, and what a surrogate is restored to
\* is a value that has it, for all conversations, candidates and hashes.
THEOREM TypeCorrect == Spec => []TypeOK
<1>1. PayloadInv => TypeOK
    <2> SUFFICES ASSUME PayloadInv PROVE TypeOK
        OBVIOUS
    <2>1. \A l \in located : l.path \in DOMAIN payload /\ Valid(l.finding, Len(payload[l.path]))
        BY LocatedFacts
    <2>2. \A s \in DOMAIN reverse : reverse[s] \in DOMAIN known /\ Spelling(known[reverse[s]]) = s
        BY ReverseFacts
    <2> QED BY <2>1, <2>2 DEF PayloadInv, Turns, TypeOK
<1> QED BY <1>1, InvInit, InvNext, PTL DEF Spec

\* For any candidates of any text, the findings are disjoint and every candidate that
\* was dropped gave way to a better one that it overlaps (detection/merge.py:14-21).
THEOREM BestIsMerged == Spec => []MergeIsBest
<1>1. PayloadInv => MergeIsBest
    <2> SUFFICES ASSUME PayloadInv, NEW p \in {l.path : l \in located}
                 PROVE  LET kept == {l.finding : l \in {k \in located : k.path = p}} IN
                        /\ \A f, g \in kept : f = g \/ Apart(f, g)
                        /\ \A c \in given.candidates[payload[p]] \ kept :
                              Valid(c, Len(payload[p])) =>
                                  \E f \in kept : ~Apart(f, c) /\ Outranks(f, c)
        BY DEF MergeIsBest
    <2> DEFINE kept == {l.finding : l \in {k \in located : k.path = p}}
               C == given.candidates[payload[p]]
               found == Findings(C, Len(payload[p]))
    <2>1. PICK l \in located : l.path = p
        OBVIOUS
    <2>2. p \in DOMAIN payload /\ located = Located /\ p \in ExtractText(payload)
        BY <2>1, LocatedFacts DEF PayloadInv, Located, Here
    <2>3. \A f \in found : [path |-> p, finding |-> f] \in located
        <3>1. Here(p) \subseteq located
            BY <2>2 DEF Located
        <3>2. \A f \in found : [path |-> p, finding |-> f] \in Here(p)
            BY DEF Here
        <3> QED BY <3>1, <3>2
    <2>4. found \subseteq kept
        <3> SUFFICES ASSUME NEW f \in found PROVE f \in kept
            OBVIOUS
        <3>1. [path |-> p, finding |-> f] \in {k \in located : k.path = p}
            BY <2>3
        <3>2. [path |-> p, finding |-> f].finding = f
            OBVIOUS
        <3> QED BY <3>1, <3>2
    <2>5. kept \subseteq found
        BY LocatedFacts
    <2>6. Merged(found, {s \in C : Valid(s, Len(payload[p]))})
        BY <2>2, TextFacts, FindingFacts DEF PayloadInv
    <2> HIDE DEF kept, C, found
    <2>7. kept = found
        BY <2>4, <2>5
    <2>8. /\ \A f, g \in kept : f = g \/ Apart(f, g)
          /\ \A c \in C \ kept :
                Valid(c, Len(payload[p])) => \E f \in kept : ~Apart(f, c) /\ Outranks(f, c)
        BY <2>6, <2>7 DEF Merged
    <2> QED BY <2>8 DEF kept, C
<1> QED BY <1>1, InvInit, InvNext, PTL DEF Spec

-----------------------------------------------------------------------------
(* Masking a text. *)

\* What a text has been searched for: disjoint findings within it.
AreEntries(E, text) ==
    /\ IsFiniteSet(E)
    /\ \A l \in E : /\ l.finding.start \in Nat /\ l.finding.end \in Nat
                    /\ l.finding.start < l.finding.end /\ l.finding.end <= Len(text)
    /\ \A l, m \in E : \/ l = m
                       \/ l.finding.end <= m.finding.start
                       \/ m.finding.end <= l.finding.start

LEMMA PlaceFacts ==
    ASSUME NEW A, NEW text \in Seq(A), NEW E, NEW T \in SUBSET E, AreEntries(E, text)
    PROVE  /\ \A n \in Nat : Place(text, T, n) \in Nat
           /\ \A m, n \in Nat : m <= n => Place(text, T, m) <= Place(text, T, n)
           /\ \A n \in Nat : n + 1 \in Clear(text, T) =>
                 Place(text, T, n + 1) = Place(text, T, n) + 1
           /\ \A l \in T :
                 Place(text, T, l.finding.end) = Place(text, T, l.finding.start) + 1
<1> DEFINE words(n) == {i \in Clear(text, T) : i <= n}
           tokens(n) == {l \in T : l.finding.start < n}
<1>0. Len(text) \in Nat /\ DOMAIN text = 1..Len(text)
    OBVIOUS
<1>1. Clear(text, T) \subseteq 1..Len(text)
    BY <1>0 DEF Clear
<1>2. IsFiniteSet(Clear(text, T)) /\ IsFiniteSet(T)
    <2>1. IsFiniteSet(1..Len(text))
        BY <1>0, FS_Interval
    <2> QED BY <1>1, <2>1, FS_Subset DEF AreEntries
<1>3. ASSUME NEW n
      PROVE  /\ IsFiniteSet(words(n)) /\ Cardinality(words(n)) \in Nat
             /\ IsFiniteSet(tokens(n)) /\ Cardinality(tokens(n)) \in Nat
             /\ Place(text, T, n) = Cardinality(words(n)) + Cardinality(tokens(n))
    <2>1. IsFiniteSet(words(n)) /\ IsFiniteSet(tokens(n))
        BY <1>2, FS_Subset
    <2>2. Cardinality(words(n)) \in Nat /\ Cardinality(tokens(n)) \in Nat
        BY <2>1, FS_CardinalityType
    <2> QED BY <2>1, <2>2 DEF Place
<1>4. ASSUME NEW m \in Nat, NEW n \in Nat, m <= n
      PROVE  Place(text, T, m) <= Place(text, T, n)
    <2>1. words(m) \subseteq words(n)
        BY <1>1, <1>4
    <2>2. tokens(m) \subseteq tokens(n)
        BY <1>4 DEF AreEntries
    <2>3. /\ Cardinality(words(m)) <= Cardinality(words(n))
          /\ Cardinality(tokens(m)) <= Cardinality(tokens(n))
        BY <1>3, <2>1, <2>2, FS_Subset
    <2> HIDE DEF words, tokens
    <2>4. /\ Cardinality(words(m)) \in Nat /\ Cardinality(words(n)) \in Nat
          /\ Cardinality(tokens(m)) \in Nat /\ Cardinality(tokens(n)) \in Nat
          /\ Place(text, T, m) = Cardinality(words(m)) + Cardinality(tokens(m))
          /\ Place(text, T, n) = Cardinality(words(n)) + Cardinality(tokens(n))
        BY <1>3
    <2> QED BY <2>3, <2>4
<1>5. ASSUME NEW n \in Nat, n + 1 \in Clear(text, T)
      PROVE  Place(text, T, n + 1) = Place(text, T, n) + 1
    <2>1. words(n + 1) = words(n) \cup {n + 1} /\ n + 1 \notin words(n)
        BY <1>1, <1>5
    <2>2. ASSUME NEW l \in T PROVE l.finding.start < n + 1 <=> l.finding.start < n
        <3>1. l.finding.start \in Nat /\ l.finding.end \in Nat /\ l.finding.start < l.finding.end
            BY DEF AreEntries
        <3>2. ~(l.finding.start < n + 1 /\ n + 1 <= l.finding.end)
            BY <1>5 DEF Clear, Covered
        <3> QED BY <3>1, <3>2
    <2>3. tokens(n + 1) = tokens(n)
        BY <2>2
    <2> HIDE DEF words, tokens
    <2>4. Cardinality(words(n + 1)) = Cardinality(words(n)) + 1
        BY <1>3, <2>1, FS_AddElement
    <2>5. /\ Cardinality(words(n)) \in Nat /\ Cardinality(tokens(n)) \in Nat
          /\ Place(text, T, n) = Cardinality(words(n)) + Cardinality(tokens(n))
          /\ Place(text, T, n + 1) = Cardinality(words(n + 1)) + Cardinality(tokens(n + 1))
        BY <1>3
    <2> QED BY <2>3, <2>4, <2>5
<1>6. ASSUME NEW l \in T
      PROVE  Place(text, T, l.finding.end) = Place(text, T, l.finding.start) + 1
    <2> DEFINE a == l.finding.start
               b == l.finding.end
    <2>0. a \in Nat /\ b \in Nat /\ a < b
        BY DEF AreEntries
    <2>1. ASSUME NEW i \in Clear(text, T) PROVE i <= b <=> i <= a
        <3>1. ~(a < i /\ i <= b) /\ i \in Nat
            BY <1>1 DEF Clear, Covered
        <3> QED BY <2>0, <3>1
    <2>2. words(b) = words(a)
        BY <2>1
    <2>3. ASSUME NEW m \in T PROVE m.finding.start < b <=> m.finding.start < a \/ m = l
        <3>1. /\ m.finding.start \in Nat /\ m.finding.end \in Nat
              /\ m.finding.start < m.finding.end
              /\ m = l \/ m.finding.end <= a \/ b <= m.finding.start
            BY DEF AreEntries
        <3> QED BY <2>0, <3>1
    <2>4. tokens(b) = tokens(a) \cup {l} /\ l \notin tokens(a)
        BY <2>0, <2>3
    <2> HIDE DEF a, b, words, tokens
    <2>5. Cardinality(tokens(b)) = Cardinality(tokens(a)) + 1
        BY <1>3, <2>4, FS_AddElement
    <2>6. Place(text, T, b) = Place(text, T, a) + 1
        BY <1>3, <2>2, <2>5
    <2> QED BY <2>6 DEF a, b
<1>7. \A n \in Nat : Place(text, T, n) \in Nat
    <2> HIDE DEF words, tokens
    <2> QED BY <1>3
<1> QED BY <1>4, <1>5, <1>6, <1>7

\* What is written has the words and the tokens up to position n in their places.
InPlace(written, text, T, part, n) ==
    /\ \A i \in Clear(text, T) : i <= n => written[Place(text, T, i)] = text[i]
    /\ \A l \in T : l.finding.end <= n => written[Place(text, T, l.finding.end)] = part[l][1]

Laid(written, text, T, part, n) ==
    /\ Len(written) = Place(text, T, n)
    /\ InPlace(written, text, T, part, n)

\* It stays so when something is written behind it.
LEMMA LaidStays ==
    ASSUME NEW A, NEW text \in Seq(A), NEW E, NEW T \in SUBSET E, AreEntries(E, text),
           NEW part, NEW written \in Seq(A), NEW more \in Seq(A), NEW n \in 0..Len(text),
           Laid(written, text, T, part, n)
    PROVE  InPlace(written \o more, text, T, part, n)
<1> DEFINE place(i) == Place(text, T, i)
<1>0. Len(text) \in Nat /\ Clear(text, T) \subseteq 1..Len(text)
    BY DEF Clear
<1>1. ASSUME NEW i \in Clear(text, T), i <= n PROVE place(i) \in 1..Len(written)
    <2>1. i - 1 \in Nat /\ (i - 1) + 1 = i /\ i \in Nat /\ n \in Nat
        BY <1>0
    <2>2. place(i) = place(i - 1) + 1 /\ place(i - 1) \in Nat /\ place(i) <= place(n)
        BY <1>1, <2>1, PlaceFacts
    <2>3. place(n) = Len(written) /\ place(n) \in Nat
        BY <2>1, PlaceFacts DEF Laid
    <2> HIDE DEF place
    <2> QED BY <2>2, <2>3
<1>2. ASSUME NEW l \in T, l.finding.end <= n PROVE place(l.finding.end) \in 1..Len(written)
    <2>1. l.finding.start \in Nat /\ l.finding.end \in Nat /\ n \in Nat
        BY <1>0 DEF AreEntries
    <2>2. /\ place(l.finding.end) = place(l.finding.start) + 1 /\ place(l.finding.start) \in Nat
          /\ place(l.finding.end) <= place(n)
        BY <1>2, <2>1, PlaceFacts
    <2>3. place(n) = Len(written) /\ place(n) \in Nat
        BY <2>1, PlaceFacts DEF Laid
    <2> HIDE DEF place
    <2> QED BY <2>2, <2>3
<1>3. \A i \in 1..Len(written) : (written \o more)[i] = written[i]
    BY ConcatFacts
<1> QED BY <1>1, <1>2, <1>3 DEF Laid, InPlace

\* Words that no entry treats are copied.
LEMMA CopyIsLaid ==
    ASSUME NEW A, NEW text \in Seq(A), NEW E, NEW T \in SUBSET E, AreEntries(E, text),
           NEW part, NEW written \in Seq(A), NEW n \in Nat, NEW m \in Nat,
           n <= m, m <= Len(text),
           Laid(written, text, T, part, n),
           \A i \in (n + 1)..m : i \in Clear(text, T)
    PROVE  Laid(written \o SubSeq(text, n + 1, m), text, T, part, m)
<1> DEFINE place(i) == Place(text, T, i)
           more == SubSeq(text, n + 1, m)
           S == {k \in Nat : n + k <= m => place(n + k) = place(n) + k}
<1>0. Len(text) \in Nat /\ n \in 0..Len(text) /\ place(n) \in Nat
    BY PlaceFacts
<1>1. more \in Seq(A) /\ Len(more) = m - n /\ \A k \in 1..(m - n) : more[k] = text[n + k]
    BY SubSeqFacts
<1>2. Nat \subseteq S
    <2>1. 0 \in S
        BY <1>0
    <2>2. ASSUME NEW k \in Nat, k \in S PROVE k + 1 \in S
        <3> SUFFICES ASSUME n + (k + 1) <= m PROVE place(n + (k + 1)) = place(n) + (k + 1)
            OBVIOUS
        <3>1. (n + k) + 1 = n + (k + 1) /\ n + k \in Nat /\ n + (k + 1) \in (n + 1)..m
            OBVIOUS
        <3>2. place(n + k) = place(n) + k
            BY <2>2
        <3>3. place((n + k) + 1) = place(n + k) + 1
            BY <3>1, PlaceFacts
        <3> HIDE DEF place
        <3> QED BY <1>0, <3>1, <3>2, <3>3
    <2> HIDE DEF S
    <2> QED BY <2>1, <2>2, SetInduction
<1>3. ASSUME NEW k \in 1..(m - n) PROVE (written \o more)[place(n + k)] = text[n + k]
    <2>0. k \in S /\ n + k <= m
        BY <1>2
    <2>1. place(n + k) = Len(written) + k
        BY <2>0 DEF Laid
    <2>2. (written \o more)[Len(written) + k] = more[k]
        BY <1>1, ConcatFacts
    <2> QED BY <1>1, <2>1, <2>2
<1> HIDE DEF more, S
<1>4. InPlace(written \o more, text, T, part, n)
    BY <1>0, <1>1, LaidStays
<1>5. Len(written \o more) = place(m)
    <2>1. m - n \in S /\ n + (m - n) = m
        BY <1>2
    <2>2. place(m) = place(n) + (m - n)
        BY <2>1 DEF S
    <2> QED BY <1>1, <2>2, ConcatFacts DEF Laid
<1>6. ASSUME NEW i \in Clear(text, T), i <= m PROVE (written \o more)[place(i)] = text[i]
    <2>0. i \in Nat
        BY DEF Clear
    <2>1. CASE i <= n
        BY <1>4, <2>1 DEF InPlace
    <2>2. CASE i > n
        <3>1. PICK k \in 1..(m - n) : n + k = i
            <4>1. i - n \in 1..(m - n) /\ n + (i - n) = i
                BY <1>6, <2>0, <2>2
            <4> QED BY <4>1
        <3>2. (written \o more)[place(n + k)] = text[n + k]
            BY <1>3
        <3> HIDE DEF place
        <3> QED BY <3>1, <3>2
    <2>3. i <= n \/ i > n
        BY <2>0
    <2> HIDE DEF place
    <2> QED BY <2>1, <2>2, <2>3
<1>7. ASSUME NEW l \in T, l.finding.end <= m
      PROVE  (written \o more)[place(l.finding.end)] = part[l][1]
    <2>1. l.finding.end \in Nat /\ l.finding.end \notin Clear(text, T)
        BY DEF AreEntries, Clear, Covered
    <2>2. l.finding.end <= n
        BY <1>7, <2>1
    <2> QED BY <1>4, <2>2 DEF InPlace
<1> QED BY <1>5, <1>6, <1>7 DEF Laid, InPlace, more

\* One token is written for an entry that is treated.
LEMMA TokenIsLaid ==
    ASSUME NEW A, NEW text \in Seq(A), NEW E, NEW T \in SUBSET E, AreEntries(E, text),
           NEW part, NEW written \in Seq(A), NEW l \in T,
           part[l] \in Seq(A), Len(part[l]) = 1,
           Laid(written, text, T, part, l.finding.start)
    PROVE  Laid(written \o part[l], text, T, part, l.finding.end)
<1> DEFINE place(i) == Place(text, T, i)
           a == l.finding.start
           b == l.finding.end
           new == written \o part[l]
<1>0. a \in Nat /\ b \in Nat /\ a < b /\ b <= Len(text) /\ a \in 0..Len(text)
    BY DEF AreEntries
<1>1. place(b) = place(a) + 1 /\ place(a) = Len(written) /\ Len(written) \in Nat
    <2>1. place(b) = place(a) + 1
        BY PlaceFacts
    <2>2. place(a) = Len(written)
        BY DEF Laid
    <2> QED BY <2>1, <2>2
<1>2. Len(new) = place(b)
    <2>1. PICK token \in Seq(A) : token = part[l]
        OBVIOUS
    <2>2. Len(token) = 1
        BY <2>1
    <2>3. Len(written \o token) = Len(written) + Len(token)
        BY ConcatFacts
    <2> HIDE DEF place
    <2> QED BY <1>1, <2>1, <2>2, <2>3
<1>3. new[place(b)] = part[l][1]
    <2>1. new[Len(written) + 1] = part[l][1]
        BY ConcatFacts
    <2> QED BY <1>1, <2>1
<1>4. /\ \A i \in Clear(text, T) : i <= a => new[place(i)] = text[i]
      /\ \A m \in T : m.finding.end <= a => new[place(m.finding.end)] = part[m][1]
    <2>1. PICK n \in 0..Len(text) : n = a
        BY <1>0
    <2>2. Laid(written, text, T, part, n)
        BY <2>1
    <2>3. InPlace(written \o part[l], text, T, part, n)
        BY <2>2, LaidStays
    <2> QED BY <2>1, <2>3 DEF InPlace
<1>5. ASSUME NEW i \in Clear(text, T), i <= b PROVE i <= a
    <2>1. i \in Nat /\ ~(a < i /\ i <= b)
        BY DEF Clear, Covered
    <2> QED BY <1>0, <1>5, <2>1
<1>6. ASSUME NEW m \in T, m.finding.end <= b PROVE m = l \/ m.finding.end <= a
    <2>1. /\ m = l \/ m.finding.end <= a \/ b <= m.finding.start
          /\ m.finding.start \in Nat /\ m.finding.end \in Nat
          /\ m.finding.start < m.finding.end
        BY DEF AreEntries
    <2> QED BY <1>0, <1>6, <2>1
<1> HIDE DEF place, new
<1>7. /\ \A i \in Clear(text, T) : i <= b => new[place(i)] = text[i]
      /\ \A m \in T : m.finding.end <= b => new[place(m.finding.end)] = part[m][1]
    BY <1>3, <1>4, <1>5, <1>6
<1> QED BY <1>2, <1>7 DEF Laid, InPlace, new, place

-----------------------------------------------------------------------------
(* The loop over the entries. *)

IsRightmost(l, S) == l \in S /\ \A m \in S : m.finding.start <= l.finding.start

LEMMA RightmostExists ==
    ASSUME NEW A, NEW text \in Seq(A), NEW E, AreEntries(E, text), NEW S \in SUBSET E, S # {}
    PROVE  IsRightmost(Rightmost(S), S)
<1> DEFINE gaps == {Len(text) - l.finding.start : l \in S}
<1>1. \A l \in S : l.finding.start \in Nat /\ Len(text) - l.finding.start \in Nat
    BY DEF AreEntries
<1>2. gaps \subseteq Nat /\ gaps # {}
    BY <1>1
<1>3. PICK g \in gaps : \A y \in gaps : g <= y
    <2> HIDE DEF gaps
    <2> QED BY <1>2, LeastOf
<1>4. PICK l \in S : g = Len(text) - l.finding.start
    BY <1>3
<1>5. ASSUME NEW m \in S PROVE m.finding.start <= l.finding.start
    <2>1. Len(text) - l.finding.start <= Len(text) - m.finding.start
        BY <1>3, <1>4
    <2> QED BY <1>1, <2>1
<1>6. \E k \in S : IsRightmost(k, S)
    BY <1>5 DEF IsRightmost
<1> QED BY <1>6 DEF Rightmost, IsRightmost

\* The loop has written the entries of S, when S are the first of E.
AreFirst(S, E) == \A l \in S, m \in E \ S : l.finding.start < m.finding.start

LEMMA FirstWithoutLast ==
    ASSUME NEW A, NEW text \in Seq(A), NEW E, AreEntries(E, text),
           NEW S \in SUBSET E, S # {}, AreFirst(S, E),
           NEW l, l = Rightmost(S), NEW done, done = S \ {l}
    PROVE  /\ l \in S /\ \A m \in S : m.finding.start <= l.finding.start
           /\ AreFirst(done, E)
<1>1. l \in S /\ l \in E /\ \A m \in S : m.finding.start <= l.finding.start
    BY RightmostExists DEF IsRightmost
<1>2. ASSUME NEW k \in done, NEW m \in E \ done PROVE k.finding.start < m.finding.start
    <2>1. CASE m = l
        <3>1. k.finding.start <= l.finding.start /\ k # l /\ k \in E
            BY <1>1
        <3> QED BY <1>1, <2>1, <3>1 DEF AreEntries
    <2>2. CASE m # l
        BY <2>2 DEF AreFirst
    <2> QED BY <2>1, <2>2
<1> QED BY <1>1, <1>2 DEF AreFirst

IsOutput(output, A, E, text, part) ==
    /\ output \in [SUBSET E -> Seq(A)]
    /\ output[{}] = <<>>
    /\ \A S \in SUBSET E : S # {} /\ AreFirst(S, E) =>
          LET l == Rightmost(S)
              done == S \ {l}
          IN  output[S] = output[done] \o SubSeq(text, Cursor(done) + 1, l.finding.start)
                                       \o part[l]

LEMMA CursorFacts ==
    ASSUME NEW A, NEW text \in Seq(A), NEW E, AreEntries(E, text),
           NEW S \in SUBSET E, AreFirst(S, E)
    PROVE  /\ Cursor(S) \in 0..Len(text)
           /\ \A l \in S : l.finding.end <= Cursor(S)
           /\ \A m \in E \ S : Cursor(S) <= m.finding.start
<1>0. Len(text) \in Nat
    OBVIOUS
<1>1. CASE S = {}
    BY <1>0, <1>1 DEF Cursor, AreEntries
<1>2. CASE S # {}
    <2> DEFINE r == Rightmost(S)
    <2>1. IsRightmost(r, S)
        BY <1>2, RightmostExists
    <2>2. Cursor(S) = r.finding.end
        BY <1>2 DEF Cursor
    <2> HIDE DEF r
    <2>3. r \in E /\ r \in S
        BY <2>1 DEF IsRightmost
    <2>4. ASSUME NEW l \in S PROVE l.finding.end <= r.finding.end
        <3>1. l.finding.start <= r.finding.start
            BY <2>1 DEF IsRightmost
        <3> QED BY <2>3, <3>1 DEF AreEntries
    <2>5. ASSUME NEW m \in E \ S PROVE r.finding.end <= m.finding.start
        <3>1. r.finding.start < m.finding.start /\ r # m
            BY <2>3 DEF AreFirst
        <3> QED BY <2>3, <3>1 DEF AreEntries
    <2> QED BY <2>2, <2>3, <2>4, <2>5 DEF AreEntries
<1> QED BY <1>1, <1>2

\* All parts are in their places: tokens for T, the words themselves for the others.
ArePartsOf(part, A, E, T, text) ==
    /\ part \in [E -> Seq(A)]
    /\ \A l \in T : Len(part[l]) = 1
    /\ \A l \in E \ T : part[l] = SubSeq(text, l.finding.start + 1, l.finding.end)

LEMMA OutputIsLaid ==
    ASSUME NEW A, NEW text \in Seq(A), NEW E, NEW T \in SUBSET E, AreEntries(E, text),
           NEW part, ArePartsOf(part, A, E, T, text),
           NEW output, IsOutput(output, A, E, text, part),
           NEW S \in SUBSET E, S # {}, AreFirst(S, E),
           NEW l, l = Rightmost(S), NEW done, done = S \ {l},
           Laid(output[done], text, T, part, Cursor(done))
    PROVE  /\ AreFirst(done, E)
           /\ Laid(output[S], text, T, part, Cursor(S))
<1> DEFINE a == l.finding.start
           b == l.finding.end
           c == Cursor(done)
<1>1. l \in S /\ l \in E /\ \A m \in S : m.finding.start <= a
    BY RightmostExists DEF IsRightmost
<1>2. /\ a \in Nat /\ b \in Nat /\ a < b /\ b <= Len(text) /\ Len(text) \in Nat
      /\ Cursor(S) = b
    BY <1>1 DEF AreEntries, Cursor
<1>3. AreFirst(done, E)
    BY FirstWithoutLast
<1>4. /\ c \in 0..Len(text) /\ c <= a
      /\ \A k \in done : k.finding.end <= c
    BY <1>1, <1>3, CursorFacts
<1>5. ASSUME NEW i \in (c + 1)..a PROVE i \in Clear(text, T)
    <2>1. i \in DOMAIN text /\ i \in Nat
        BY <1>2, <1>4
    <2>2. ASSUME NEW m \in T, Covered(m, i) PROVE FALSE
        <3>0. m \in E /\ m.finding.start < i /\ i <= m.finding.end
              /\ m.finding.start \in Nat /\ m.finding.end \in Nat
            BY <2>2 DEF Covered, AreEntries
        <3>1. CASE m \in done
            <4>1. m.finding.end <= c
                BY <1>4, <3>1
            <4>2. c \in Nat /\ i \in (c + 1)..a
                BY <1>2, <1>4
            <4> HIDE DEF c, a
            <4> QED BY <2>1, <3>0, <4>1, <4>2
        <3>2. CASE m = l
            BY <2>1, <3>0, <3>2
        <3>3. CASE m \notin S
            <4>1. a < m.finding.start
                BY <1>1, <3>0, <3>3 DEF AreFirst
            <4> QED BY <1>2, <2>1, <3>0, <4>1
        <3> QED BY <3>1, <3>2, <3>3
    <2> QED BY <2>1, <2>2 DEF Clear
<1> DEFINE left == output[done]
           copy == SubSeq(text, c + 1, a)
<1>6. left \in Seq(A) /\ copy \in Seq(A)
    <2>1. done \in SUBSET E
        BY <1>1
    <2>2. left \in Seq(A)
        BY <2>1 DEF IsOutput
    <2>3. c \in Nat /\ c <= a /\ a <= Len(text)
        BY <1>2, <1>4
    <2> HIDE DEF a, c
    <2> QED BY <1>2, <2>2, <2>3, SubSeqFacts
<1>7. output[S] = left \o copy \o part[l]
    BY DEF IsOutput
<1>8. Laid(left \o copy, text, T, part, a)
    <2>1. c \in Nat /\ a <= Len(text) /\ Laid(left, text, T, part, c)
        BY <1>2, <1>4
    <2> HIDE DEF left, c, a
    <2> QED BY <1>2, <1>4, <1>5, <1>6, <2>1, CopyIsLaid
<1>9. left \o copy \in Seq(A)
    BY <1>6, ConcatFacts
<1> HIDE DEF left, copy
<1>10. CASE l \in T
    <2>1. part[l] \in Seq(A) /\ Len(part[l]) = 1
        BY <1>1, <1>10 DEF ArePartsOf
    <2>2. Laid((left \o copy) \o part[l], text, T, part, b)
        BY <1>8, <1>9, <1>10, <2>1, TokenIsLaid
    <2> QED BY <1>2, <1>3, <1>7, <2>2
<1>11. CASE l \notin T
    <2>1. part[l] = SubSeq(text, a + 1, b)
        BY <1>1, <1>11 DEF ArePartsOf
    <2>2. ASSUME NEW i \in (a + 1)..b PROVE i \in Clear(text, T)
        <3>1. i \in DOMAIN text /\ i \in Nat
            BY <1>2
        <3>2. ASSUME NEW m \in T, Covered(m, i) PROVE FALSE
            <4>1. m \in E /\ m # l /\ m.finding.start < i /\ i <= m.finding.end
                BY <1>11, <3>2 DEF Covered
            <4>2. m.finding.end <= a \/ b <= m.finding.start
                BY <1>1, <4>1 DEF AreEntries
            <4>3. m.finding.start \in Nat /\ m.finding.end \in Nat
                BY <4>1 DEF AreEntries
            <4> HIDE DEF a, b
            <4> QED BY <1>2, <3>1, <4>1, <4>2, <4>3
        <3> QED BY <3>1, <3>2 DEF Clear
    <2>3. Laid((left \o copy) \o SubSeq(text, a + 1, b), text, T, part, b)
        <3>1. PICK v \in Seq(A) : v = left \o copy
            BY <1>9
        <3>2. a <= b
            BY <1>2
        <3> HIDE DEF a, b
        <3>3. Laid(v \o SubSeq(text, a + 1, b), text, T, part, b)
            BY <1>2, <1>8, <2>2, <3>1, <3>2, CopyIsLaid
        <3> QED BY <3>1, <3>3
    <2> QED BY <1>2, <1>3, <1>7, <2>1, <2>3
<1> QED BY <1>10, <1>11

LEMMA MaskingIsLaid ==
    ASSUME NEW A, NEW text \in Seq(A), NEW E, NEW T \in SUBSET E, AreEntries(E, text),
           NEW part, ArePartsOf(part, A, E, T, text),
           NEW output, IsOutput(output, A, E, text, part)
    PROVE  Laid(output[E] \o SubSeq(text, Cursor(E) + 1, Len(text)), text, T, part, Len(text))
<1> DEFINE N == {n \in Nat : \A S \in SUBSET E :
                    AreFirst(S, E) /\ Cardinality(S) = n
                        => Laid(output[S], text, T, part, Cursor(S))}
<1>0. \A S \in SUBSET E : IsFiniteSet(S) /\ Cardinality(S) \in Nat
    BY FS_Subset, FS_CardinalityType DEF AreEntries
<1>1. 0 \in N
    <2>1. Laid(<<>>, text, T, part, 0)
        <3>1. Clear(text, T) \subseteq 1..Len(text) /\ T \subseteq E
            BY DEF Clear
        <3>2. {i \in Clear(text, T) : i <= 0} = {}
            BY <3>1
        <3>3. {l \in T : l.finding.start < 0} = {} /\ \A l \in T : ~(l.finding.end <= 0)
            BY <3>1 DEF AreEntries
        <3>4. Place(text, T, 0) = 0
            <4>1. Place(text, T, 0) = Cardinality({}) + Cardinality({})
                BY <3>2, <3>3 DEF Place
            <4> QED BY <4>1, FS_EmptySet
        <3>5. Len(<<>>) = 0
            BY EmptyText
        <3>6. \A i \in Clear(text, T) : ~(i <= 0)
            BY <3>1
        <3> QED BY <3>3, <3>4, <3>5, <3>6 DEF Laid, InPlace
    <2>2. ASSUME NEW S \in SUBSET E, Cardinality(S) = 0 PROVE S = {}
        BY <1>0, <2>2, FS_EmptySet
    <2>3. Cursor({}) = 0 /\ output[{}] = <<>>
        BY DEF Cursor, IsOutput
    <2> QED BY <2>1, <2>2, <2>3
<1>2. ASSUME NEW n \in Nat, n \in N PROVE n + 1 \in N
    <2> SUFFICES ASSUME NEW S \in SUBSET E, AreFirst(S, E), Cardinality(S) = n + 1
                 PROVE  Laid(output[S], text, T, part, Cursor(S))
        OBVIOUS
    <2>1. S # {}
        <3>1. Cardinality({}) = 0 /\ n + 1 # 0
            BY FS_EmptySet
        <3> HIDE DEF N
        <3> QED BY <3>1
    <2>2. PICK l : l = Rightmost(S)
        OBVIOUS
    <2>3. PICK done : done = S \ {l}
        OBVIOUS
    <2>4. l \in S /\ AreFirst(done, E)
        BY <2>1, <2>2, <2>3, FirstWithoutLast
    <2>5. done \in SUBSET E /\ Cardinality(done) = n
        BY <1>0, <2>3, <2>4, FS_RemoveElement
    <2>6. Laid(output[done], text, T, part, Cursor(done))
        BY <1>2, <2>4, <2>5
    <2> QED BY <2>1, <2>2, <2>3, <2>6, OutputIsLaid
<1>3. Nat \subseteq N
    <2> HIDE DEF N
    <2> QED BY <1>1, <1>2, SetInduction
<1>4. AreFirst(E, E) /\ E \in SUBSET E /\ Cardinality(E) \in Nat
    BY <1>0 DEF AreFirst
<1>5. Laid(output[E], text, T, part, Cursor(E))
    BY <1>3, <1>4
<1>6. /\ Cursor(E) \in 0..Len(text) /\ Len(text) \in Nat /\ output[E] \in Seq(A)
      /\ \A l \in E : l.finding.end <= Cursor(E)
    BY <1>4, CursorFacts DEF IsOutput
<1>7. ASSUME NEW i \in (Cursor(E) + 1)..Len(text) PROVE i \in Clear(text, T)
    <2>1. i \in DOMAIN text /\ i \in Nat /\ i > Cursor(E)
        BY <1>6
    <2>2. \A m \in T : ~(i <= m.finding.end)
        BY <1>6, <2>1 DEF AreEntries
    <2> QED BY <2>1, <2>2 DEF Clear, Covered
<1>8. Cursor(E) \in Nat /\ Cursor(E) <= Len(text) /\ Len(text) <= Len(text)
    BY <1>6
<1> QED BY <1>5, <1>6, <1>7, <1>8, CopyIsLaid

-----------------------------------------------------------------------------
(* What is sent. *)

EntriesOf(p) == {l \in located : l.path = p}

TreatedIn(p) == {l \in located : l.path = p /\ decided[l].action # "allow"}

LEMMA EntryFacts ==
    ASSUME PayloadInv, NEW p \in DOMAIN payload
    PROVE  /\ payload[p] \in Seq(Range(payload[p]))
           /\ AreEntries(EntriesOf(p), payload[p])
           /\ TreatedIn(p) \subseteq EntriesOf(p)
<1> DEFINE text == payload[p]
           C == given.candidates[text]
           found == Findings(C, Len(text))
           valid == {s \in C : Valid(s, Len(text))}
           E == EntriesOf(p)
<1>1. text \in Seq(Range(text)) /\ AreCandidates(C)
    BY TextFacts, GivensAssumption DEF PayloadInv, IsText
<1>2. Merged(found, valid) /\ AreCandidates(valid)
    BY <1>1, FindingFacts
<1>3. ASSUME NEW l \in E
      PROVE  l.finding \in found /\ l = [path |-> p, finding |-> l.finding]
    <2>1. l \in located /\ l.path = p
        BY DEF EntriesOf
    <2>2. l.finding \in found /\ l \in Here(p)
        BY <2>1, LocatedFacts
    <2> QED BY <2>2 DEF Here
<1>4. IsFiniteSet(E)
    <2>1. IsFiniteSet(found)
        <3>1. found \in SUBSET valid
            BY <1>2 DEF Merged
        <3> QED BY <1>2, <3>1, FS_Subset DEF AreCandidates
    <2> DEFINE f == [x \in found |-> [path |-> p, finding |-> x]]
               image == {f[x] : x \in found}
    <2>2. f \in Surjection(found, image)
        BY DEF Surjection
    <2>3. IsFiniteSet(image)
        <3> HIDE DEF f, image
        <3> QED BY <2>1, <2>2, FS_Surjection
    <2>4. E \subseteq image
        <3> HIDE DEF E, found
        <3> QED BY <1>3
    <2> HIDE DEF E, image
    <2>5. E \in SUBSET image
        BY <2>4
    <2> QED BY <2>3, <2>5, FS_Subset
<1>5. ASSUME NEW l \in E
      PROVE  /\ l.finding.start \in Nat /\ l.finding.end \in Nat
             /\ l.finding.start < l.finding.end /\ l.finding.end <= Len(text)
    <2>1. l.finding \in valid
        BY <1>2, <1>3 DEF Merged
    <2>2. /\ l.finding.start \in Int /\ l.finding.end \in Int
          /\ Valid(l.finding, Len(text))
        BY <1>2, <2>1 DEF AreCandidates
    <2> QED BY <2>2 DEF Valid
<1>6. ASSUME NEW l \in E, NEW m \in E
      PROVE  \/ l = m
             \/ l.finding.end <= m.finding.start
             \/ m.finding.end <= l.finding.start
    <2>1. l.finding = m.finding \/ Apart(l.finding, m.finding)
        BY <1>2, <1>3 DEF Merged
    <2>2. l.finding = m.finding => l = m
        BY <1>3
    <2>3. /\ l.finding.start \in Nat /\ l.finding.end \in Nat
          /\ m.finding.start \in Nat /\ m.finding.end \in Nat
        BY <1>5
    <2> QED BY <2>1, <2>2, <2>3 DEF Apart
<1>7. AreEntries(E, text)
    <2> HIDE DEF E, text
    <2> QED BY <1>4, <1>5, <1>6 DEF AreEntries
<1> QED BY <1>1, <1>7 DEF EntriesOf, TreatedIn

\* Every decision is an action.
Acts == \A l \in located : decided[l].action \in ActionNames

LEMMA DecideIsAction ==
    ASSUME NEW ruleset \in RuleSets, NEW type, NEW confidence, NEW who
    PROVE  Decide(ruleset, type, confidence, who).action \in ActionNames
<1> DEFINE rules == ruleset.rules
           matched == Matched(ruleset, type, confidence, who)
           blocking == {i \in matched : rules[i].action = "block"}
           C == IF blocking = {} THEN matched ELSE blocking
<1>1. rules \in Seq(Rules) /\ ruleset.default \in ActionNames /\ matched \subseteq DOMAIN rules
    BY DEF RuleSets, Matched
<1>2. CASE matched = {}
    BY <1>1, <1>2 DEF Decide
<1>3. CASE matched # {}
    <2>1. C # {} /\ C \subseteq DOMAIN rules
        BY <1>1, <1>3
    <2>2. Winner(rules, C) \in DOMAIN rules
        <3> HIDE DEF C, rules
        <3> QED BY <1>1, <2>1, WinnerFacts
    <2>3. rules[Winner(rules, C)].action \in ActionNames
        <3>1. rules[Winner(rules, C)] \in Rules
            <4> HIDE DEF C, rules
            <4> QED BY <1>1, <2>2
        <3> QED BY <3>1 DEF Rules
    <2>4. Decide(ruleset, type, confidence, who).action = rules[Winner(rules, C)].action
        BY <1>3 DEF Decide
    <2> QED BY <2>3, <2>4
<1> QED BY <1>2, <1>3

\* What replaces an entry: its own words, or one cell.
CellOf(l, surrogates, tags) ==
    IF decided[l].action = "hash" THEN [as |-> "hash", type |-> "", v |-> Value(Original(l))]
    ELSE IF decided[l].action = "tag" THEN [as |-> "tag", type |-> l.finding.type, v |-> <<tags + 1>>]
    ELSE surrogates[Original(l)]

LEMMA ReplacementFacts ==
    ASSUME NEW l, NEW surrogates, NEW tags,
           decided[l].action \in {"allow", "hash", "tag", "pseudonymize"}
    PROVE  Replacement(l, surrogates, tags) =
              IF decided[l].action = "allow" THEN Original(l)
              ELSE <<CellOf(l, surrogates, tags)>>
<1>1. CASE decided[l].action = "allow"
    BY <1>1 DEF Replacement, Mode
<1>2. CASE decided[l].action = "hash"
    BY <1>2 DEF Replacement, Mode, CellOf
<1>3. CASE decided[l].action = "tag"
    BY <1>3 DEF Replacement, Mode, CellOf
<1>4. CASE decided[l].action = "pseudonymize"
    BY <1>4 DEF Replacement, Mode, CellOf
<1> QED BY <1>1, <1>2, <1>3, <1>4

Earlier(l) == {k \in EntriesOf(l.path) : k.finding.start < l.finding.start}

PartsOf(p, surrogates) ==
    [l \in EntriesOf(p) |->
        Replacement(l, surrogates, Tags(Earlier(l), l.finding.type))]

Cells(p, surrogates) ==
    Range(payload[p]) \cup
    {CellOf(l, surrogates, Tags(S, l.finding.type)) :
        l \in EntriesOf(p), S \in SUBSET EntriesOf(p)}

LEMMA PieceFacts ==
    ASSUME PayloadInv, Acts, ~Blocking, NEW p \in DOMAIN payload, NEW surrogates,
           NEW l \in EntriesOf(p), NEW S \in SUBSET EntriesOf(p)
    PROVE  LET piece == Replacement(l, surrogates, Tags(S, l.finding.type)) IN
           /\ piece \in Seq(Cells(p, surrogates))
           /\ l \in TreatedIn(p) =>
                 /\ Len(piece) = 1
                 /\ piece[1] = CellOf(l, surrogates, Tags(S, l.finding.type))
           /\ l \notin TreatedIn(p) =>
                 piece = SubSeq(payload[p], l.finding.start + 1, l.finding.end)
<1> DEFINE tags == Tags(S, l.finding.type)
           cell == CellOf(l, surrogates, tags)
           text == payload[p]
<1>1. l \in located /\ l.path = p
    BY DEF EntriesOf
<1>2. decided[l].action \in {"allow", "hash", "tag", "pseudonymize"}
    BY <1>1 DEF Acts, Blocking, ActionNames, Mode
<1>3. CASE decided[l].action = "allow"
    <2>1. Replacement(l, surrogates, tags) = SubSeq(text, l.finding.start + 1, l.finding.end)
        BY <1>1, <1>2, <1>3, ReplacementFacts DEF Original
    <2>2. l \notin TreatedIn(p)
        BY <1>3 DEF TreatedIn
    <2>3. text \in Seq(Cells(p, surrogates))
        <3>1. text \in Seq(Range(text)) /\ Range(text) \subseteq Cells(p, surrogates)
            BY EntryFacts DEF Cells
        <3> QED BY <3>1
    <2>4. /\ l.finding.start \in Nat /\ l.finding.end \in Nat
          /\ l.finding.start <= l.finding.end /\ l.finding.end <= Len(text)
        BY EntryFacts DEF AreEntries
    <2>5. SubSeq(text, l.finding.start + 1, l.finding.end) \in Seq(Cells(p, surrogates))
        <3> HIDE DEF text
        <3> QED BY <2>3, <2>4, SubSeqFacts
    <2> QED BY <2>1, <2>2, <2>5
<1>4. CASE decided[l].action # "allow"
    <2>1. Replacement(l, surrogates, tags) = <<cell>>
        BY <1>2, <1>4, ReplacementFacts
    <2>2. cell \in Cells(p, surrogates)
        BY DEF Cells
    <2>3. l \in TreatedIn(p)
        BY <1>1, <1>4 DEF TreatedIn
    <2>4. <<cell>> \in Seq(Cells(p, surrogates)) /\ Len(<<cell>>) = 1 /\ <<cell>>[1] = cell
        <3> HIDE DEF cell
        <3> QED BY <2>2
    <2> QED BY <2>1, <2>3, <2>4
<1> QED BY <1>3, <1>4

LEMMA PartsHold ==
    ASSUME PayloadInv, Acts, ~Blocking, NEW p \in DOMAIN payload, NEW surrogates
    PROVE  ArePartsOf(PartsOf(p, surrogates), Cells(p, surrogates), EntriesOf(p), TreatedIn(p),
                      payload[p])
<1> DEFINE part == PartsOf(p, surrogates)
<1>1. ASSUME NEW l \in EntriesOf(p)
      PROVE  /\ part[l] \in Seq(Cells(p, surrogates))
             /\ l \in TreatedIn(p) => Len(part[l]) = 1
             /\ l \notin TreatedIn(p) =>
                   part[l] = SubSeq(payload[p], l.finding.start + 1, l.finding.end)
    <2>1. Earlier(l) \in SUBSET EntriesOf(p)
        BY DEF Earlier, EntriesOf
    <2>2. part[l] = Replacement(l, surrogates, Tags(Earlier(l), l.finding.type))
        BY DEF PartsOf
    <2> QED BY <2>1, <2>2, PieceFacts
<1>2. part = [l \in EntriesOf(p) |-> part[l]]
    BY DEF PartsOf
<1> HIDE DEF part
<1> QED BY <1>1, <1>2, EntryFacts DEF ArePartsOf, part

\* The masked text is what the loop has written, and the words behind it.
IsMasked(masked, A, E, text, part) ==
    \E output :
        /\ IsOutput(output, A, E, text, part)
        /\ masked = output[E] \o SubSeq(text, Cursor(E) + 1, Len(text))

LEMMA MaskTextIsOutput ==
    ASSUME PayloadInv, Acts, ~Blocking, NEW p \in DOMAIN payload, NEW surrogates
    PROVE  IsMasked(MaskText(p, surrogates), Cells(p, surrogates), EntriesOf(p), payload[p],
                    PartsOf(p, surrogates))
<1> DEFINE text == payload[p]
           E == EntriesOf(p)
           A == Cells(p, surrogates)
           D == SUBSET E
           size == [S \in D |-> Cardinality(S)]
           Copy(S) == SubSeq(text, Cursor(S \ {Rightmost(S)}) + 1, Rightmost(S).finding.start)
           Piece(S) == Replacement(Rightmost(S), surrogates,
                           Tags(S \ {Rightmost(S)}, Rightmost(S).finding.type))
           Step(f, S) == IF S = {} THEN <<>>
                         ELSE f[S \ {Rightmost(S)}] \o Copy(S) \o Piece(S)
           body == [x \in [D -> Seq(A)] \X D |-> Step(x[1], x[2])]
           output == CHOOSE f : f = [S \in D |-> Step(f, S)]
<1>1. text \in Seq(A) /\ AreEntries(E, text)
    <2>1. text \in Seq(Range(text)) /\ Range(text) \subseteq A
        BY EntryFacts DEF Cells
    <2> QED BY <2>1, EntryFacts
<1>2. ASSUME NEW S \in D, S # {}
      PROVE  /\ Rightmost(S) \in S /\ S \ {Rightmost(S)} \in D
             /\ \A m \in S : m.finding.start <= Rightmost(S).finding.start
             /\ Copy(S) \in Seq(A) /\ Piece(S) \in Seq(A)
    <2> DEFINE l == Rightmost(S)
               done == S \ {l}
    <2>1. l \in S /\ \A m \in S : m.finding.start <= l.finding.start
        <3> HIDE DEF A, E, text
        <3> QED BY <1>1, <1>2, RightmostExists DEF IsRightmost
    <2> HIDE DEF l
    <2>2. S \in SUBSET S /\ done \in SUBSET S /\ AreEntries(S, text)
        BY <1>1, FS_Subset DEF AreEntries
    <2>3. AreFirst(done, S)
        <3> SUFFICES ASSUME NEW k \in done, NEW m \in S \ done
                     PROVE  k.finding.start < m.finding.start
            BY DEF AreFirst
        <3>1. m = l /\ k # l /\ k \in S /\ l \in S
            BY <2>1
        <3>2. k.finding.start <= l.finding.start
            BY <2>1
        <3> QED BY <2>2, <3>1, <3>2 DEF AreEntries
    <2>4. Cursor(done) \in 0..Len(text) /\ Cursor(done) <= l.finding.start
        <3> HIDE DEF A, text
        <3>1. Cursor(done) \in 0..Len(text) /\ \A m \in S \ done : Cursor(done) <= m.finding.start
            <4> HIDE DEF done
            <4> QED BY <1>1, <2>2, <2>3, CursorFacts
        <3> QED BY <2>1, <3>1
    <2>5. SubSeq(text, Cursor(done) + 1, l.finding.start) \in Seq(A)
        <3>1. /\ Len(text) \in Nat /\ l.finding.start \in Nat /\ l.finding.end \in Nat
              /\ l.finding.start <= Len(text)
            BY <1>1, <2>1, <2>2 DEF AreEntries
        <3>2. Cursor(done) \in Nat
            BY <2>4, <3>1
        <3> HIDE DEF A, text, done
        <3> QED BY <1>1, <2>4, <3>1, <3>2, SubSeqFacts
    <2>6. Replacement(l, surrogates, Tags(done, l.finding.type)) \in Seq(A)
        <3>1. l \in EntriesOf(p) /\ done \in SUBSET EntriesOf(p)
            BY <2>1
        <3> QED BY <3>1, PieceFacts
    <2>7. done \in D
        OBVIOUS
    <2> QED BY <2>1, <2>5, <2>6, <2>7 DEF l
<1>3. ASSUME NEW S \in D PROVE IsFiniteSet(S) /\ Cardinality(S) \in 0..Cardinality(E)
    BY <1>1, FS_Subset, FS_CardinalityType DEF AreEntries
<1> HIDE DEF Copy, Piece, A, text, E
<1>4. Falls(D, Seq(A), size, Cardinality(E) + 1, body)
    <2>1. Cardinality(E) \in Nat
        BY <1>1, FS_CardinalityType DEF AreEntries
    <2>2. size \in [D -> Nat] /\ \A S \in D : size[S] < Cardinality(E) + 1
        BY <1>3, <2>1
    <2>3. ASSUME NEW f \in [D -> Seq(A)], NEW S \in D PROVE Step(f, S) \in Seq(A)
        <3>1. CASE S # {}
            <4>1. f[S \ {Rightmost(S)}] \in Seq(A) /\ Copy(S) \in Seq(A) /\ Piece(S) \in Seq(A)
                BY <1>2, <3>1
            <4>2. f[S \ {Rightmost(S)}] \o Copy(S) \in Seq(A)
                BY <4>1, ConcatFacts
            <4>3. f[S \ {Rightmost(S)}] \o Copy(S) \o Piece(S) \in Seq(A)
                BY <4>1, <4>2, ConcatFacts
            <4> QED BY <3>1, <4>3
        <3> QED BY <3>1
    <2>4. \A f \in [D -> Seq(A)] : \A S \in D : body[<<f, S>>] = Step(f, S)
        OBVIOUS
    <2>5. body \in [[D -> Seq(A)] \X D -> Seq(A)]
        BY <2>3
    <2>6. ASSUME NEW f \in [D -> Seq(A)], NEW g \in [D -> Seq(A)], NEW S \in D,
                 \A T \in D : size[T] < size[S] => f[T] = g[T]
          PROVE  body[<<f, S>>] = body[<<g, S>>]
        <3>1. CASE S # {}
            <4> DEFINE T == S \ {Rightmost(S)}
            <4>1. T \in D /\ Cardinality(T) = Cardinality(S) - 1 /\ Cardinality(S) \in Nat
                BY <1>2, <1>3, <3>1, FS_RemoveElement
            <4>2. f[T] = g[T]
                <5>1. size[T] = Cardinality(T) /\ size[S] = Cardinality(S)
                    BY <4>1
                <5>2. size[T] < size[S]
                    BY <4>1, <5>1
                <5> QED BY <2>6, <4>1, <5>2
            <4>3. Step(f, S) = Step(g, S)
                BY <4>2
            <4> QED BY <2>4, <4>3
        <3>2. CASE S = {}
            BY <2>4, <3>2
        <3> QED BY <3>1, <3>2
    <2>7. Cardinality(E) + 1 \in Nat
        BY <2>1
    <2>8. \A f, g \in [D -> Seq(A)] : \A S \in D :
             (\A T \in D : size[T] < size[S] => f[T] = g[T])
                 => body[<<f, S>>] = body[<<g, S>>]
        <3> HIDE DEF D, size, body
        <3> QED BY <2>6
    <2> HIDE DEF D, size, body, Step, output
    <2> QED BY ONLY <2>2, <2>5, <2>7, <2>8 DEF Falls
<1>5. output \in [D -> Seq(A)] /\ \A S \in D : output[S] = Step(output, S)
    <2>1. IsDefined(D, Seq(A), body)
        <3>1. Seq(A) # {} /\ D # {}
            BY <1>1
        <3> HIDE DEF D, size, body
        <3> QED BY <1>4, <3>1, RecursiveFunction
    <2>2. PICK f \in [D -> Seq(A)] : \A S \in D : f[S] = body[<<f, S>>]
        BY <2>1 DEF IsDefined
    <2>3. \A S \in D : f[S] = Step(f, S)
        BY <2>2
    <2>4. f = [S \in D |-> Step(f, S)]
        <3> HIDE DEF D, Step
        <3> QED BY <2>3
    <2>5. output = [S \in D |-> Step(output, S)]
        BY <2>4
    <2> HIDE DEF output
    <2>6. \A S \in D : output[S] = Step(output, S)
        <3> HIDE DEF D, Step
        <3> QED BY <2>5
    <2>7. \A S \in D : output[S] \in Seq(A)
        <3> DEFINE N == {n \in Nat : \A S \in D : Cardinality(S) = n => output[S] \in Seq(A)}
        <3>1. 0 \in N
            <4> SUFFICES ASSUME NEW S \in D, Cardinality(S) = 0 PROVE output[S] \in Seq(A)
                OBVIOUS
            <4>1. S = {}
                BY <1>3, FS_EmptySet
            <4>2. output[S] = <<>>
                BY <2>6, <4>1
            <4>3. <<>> \in Seq(A)
                OBVIOUS
            <4> QED BY <4>2, <4>3
        <3>2. ASSUME NEW n \in Nat, n \in N PROVE n + 1 \in N
            <4> SUFFICES ASSUME NEW S \in D, Cardinality(S) = n + 1 PROVE output[S] \in Seq(A)
                OBVIOUS
            <4>1. S # {}
                <5>1. Cardinality({}) = 0 /\ n + 1 # 0
                    BY FS_EmptySet
                <5> HIDE DEF N, D, output
                <5> QED BY <5>1
            <4>2. /\ S \ {Rightmost(S)} \in D /\ Copy(S) \in Seq(A) /\ Piece(S) \in Seq(A)
                  /\ Rightmost(S) \in S
                BY <1>2, <4>1
            <4>3. Cardinality(S \ {Rightmost(S)}) = n
                BY <1>3, <4>2, FS_RemoveElement
            <4>4. output[S \ {Rightmost(S)}] \in Seq(A)
                BY <3>2, <4>2, <4>3
            <4>5. output[S \ {Rightmost(S)}] \o Copy(S) \in Seq(A)
                BY <4>2, <4>4, ConcatFacts
            <4>6. output[S \ {Rightmost(S)}] \o Copy(S) \o Piece(S) \in Seq(A)
                BY <4>2, <4>5, ConcatFacts
            <4> QED BY <2>6, <4>1, <4>6
        <3>3. Nat \subseteq N
            <4> HIDE DEF N
            <4> QED BY <3>1, <3>2, SetInduction
        <3>4. ASSUME NEW S \in D PROVE output[S] \in Seq(A)
            <4>1. Cardinality(S) \in N
                <5> HIDE DEF N
                <5> QED BY <1>3, <3>3
            <4> QED BY <4>1
        <3> QED BY <3>4
    <2>8. output \in [D -> Seq(A)]
        <3>1. PICK g : g = [S \in D |-> Step(output, S)]
            OBVIOUS
        <3>2. g = output
            BY <2>5, <3>1
        <3> HIDE DEF D, Step
        <3> QED BY <2>6, <2>7, <3>1, <3>2
    <2> QED BY <2>6, <2>8
<1>6. MaskText(p, surrogates) = output[E] \o SubSeq(text, Cursor(E) + 1, Len(text))
    BY DEF MaskText, EntriesOf, E, text, Copy, Piece
<1> HIDE DEF output
<1>7. ASSUME NEW S \in D, S # {}, AreFirst(S, E)
      PROVE  Piece(S) = PartsOf(p, surrogates)[Rightmost(S)]
    <2>1. PICK l : l = Rightmost(S)
        OBVIOUS
    <2>2. l \in S /\ l \in E /\ \A m \in S : m.finding.start <= l.finding.start
        BY <1>2, <1>7, <2>1
    <2>3. l.path = p
        BY <2>2 DEF E, EntriesOf
    <2>4. ASSUME NEW k \in E PROVE k \in S \ {l} <=> k.finding.start < l.finding.start
        <3>1. k.finding.start \in Nat /\ l.finding.start \in Nat
            BY <1>1, <2>2 DEF AreEntries
        <3>2. k # l => k.finding.start # l.finding.start
            BY <1>1, <2>2 DEF AreEntries
        <3>3. k \in S => k.finding.start <= l.finding.start
            BY <2>2
        <3>4. k \notin S => l.finding.start < k.finding.start
            BY <1>7, <2>2 DEF AreFirst
        <3> QED BY <3>1, <3>2, <3>3, <3>4
    <2>5. S \ {l} = Earlier(l)
        BY <2>3, <2>4 DEF Earlier, E
    <2>6. PartsOf(p, surrogates)[l] = Replacement(l, surrogates, Tags(Earlier(l), l.finding.type))
        BY <2>2 DEF PartsOf, E
    <2> QED BY <2>1, <2>5, <2>6 DEF Piece
<1>8. IsOutput(output, A, E, text, PartsOf(p, surrogates))
    <2>1. output[{}] = <<>>
        BY <1>5
    <2>2. ASSUME NEW S \in SUBSET E, S # {}, AreFirst(S, E)
          PROVE  output[S] = output[S \ {Rightmost(S)}]
                     \o SubSeq(text, Cursor(S \ {Rightmost(S)}) + 1, Rightmost(S).finding.start)
                     \o PartsOf(p, surrogates)[Rightmost(S)]
        BY <1>5, <1>7, <2>2 DEF Copy
    <2> QED BY <1>5, <2>1, <2>2 DEF IsOutput
<1> QED BY <1>6, <1>8 DEF IsMasked, A, E, text

LEMMA MaskedText ==
    ASSUME PayloadInv, Acts, ~Blocking, NEW p \in DOMAIN payload, NEW surrogates
    PROVE  LET masked == MaskText(p, surrogates)
               text == payload[p]
               treated == TreatedIn(p)
           IN  /\ Len(masked) = Place(text, treated, Len(text))
               /\ \A i \in Clear(text, treated) : masked[Place(text, treated, i)] = text[i]
               /\ \A l \in treated : masked[Place(text, treated, l.finding.end)] =
                     CellOf(l, surrogates, Tags(Earlier(l), l.finding.type))
<1> DEFINE masked == MaskText(p, surrogates)
           text == payload[p]
           T == TreatedIn(p)
           E == EntriesOf(p)
           A == Cells(p, surrogates)
           part == PartsOf(p, surrogates)
<1>1. text \in Seq(A) /\ AreEntries(E, text) /\ T \in SUBSET E
    <2>1. text \in Seq(Range(text)) /\ Range(text) \subseteq A
        BY EntryFacts DEF Cells
    <2> QED BY <2>1, EntryFacts
<1>2. ArePartsOf(part, A, E, T, text)
    BY PartsHold
<1>3. PICK output :
        /\ IsOutput(output, A, E, text, part)
        /\ masked = output[E] \o SubSeq(text, Cursor(E) + 1, Len(text))
    BY MaskTextIsOutput DEF IsMasked
<1>4. Laid(masked, text, T, part, Len(text))
    <2> HIDE DEF masked, text, T, E, A, part
    <2> QED BY <1>1, <1>2, <1>3, MaskingIsLaid
<1>5. ASSUME NEW l \in T
      PROVE  part[l][1] = CellOf(l, surrogates, Tags(Earlier(l), l.finding.type))
    <2>1. l \in E /\ Earlier(l) \in SUBSET E
        BY <1>1 DEF Earlier, EntriesOf
    <2>2. part[l] = Replacement(l, surrogates, Tags(Earlier(l), l.finding.type))
        BY <2>1 DEF PartsOf
    <2> QED BY <2>1, <2>2, PieceFacts
<1>6. /\ \A i \in Clear(text, T) : i <= Len(text)
      /\ \A l \in T : l.finding.end <= Len(text)
    BY <1>1 DEF Clear, AreEntries
<1>7. /\ Len(masked) = Place(text, T, Len(text))
      /\ \A i \in Clear(text, T) : masked[Place(text, T, i)] = text[i]
      /\ \A l \in T : masked[Place(text, T, l.finding.end)] =
            CellOf(l, surrogates, Tags(Earlier(l), l.finding.type))
    <2> HIDE DEF masked, text, T, part
    <2> QED BY <1>4, <1>5, <1>6 DEF Laid, InPlace
<1> QED BY <1>7

\* The tags of a type are numbered from the left.
LEMMA TagsAreCounted ==
    ASSUME PayloadInv, NEW p \in DOMAIN payload, NEW l \in TreatedIn(p),
           decided[l].action = "tag"
    PROVE  Cardinality({k \in TreatedIn(p) : /\ k.finding.type = l.finding.type
                                             /\ decided[k].action = "tag"
                                             /\ k.finding.start <= l.finding.start})
               = Tags(Earlier(l), l.finding.type) + 1
<1> DEFINE before == {k \in Earlier(l) : k.finding.type = l.finding.type /\ Mode(k) = "tag"}
           tags == {k \in TreatedIn(p) : /\ k.finding.type = l.finding.type
                                         /\ decided[k].action = "tag"
                                         /\ k.finding.start <= l.finding.start}
<1>1. AreEntries(EntriesOf(p), payload[p]) /\ l.path = p /\ l \in EntriesOf(p)
    BY EntryFacts DEF TreatedIn, EntriesOf
<1>2. IsFiniteSet(before)
    <2>1. before \in SUBSET EntriesOf(p)
        BY <1>1 DEF Earlier
    <2> QED BY <1>1, <2>1, FS_Subset DEF AreEntries
<1>3. tags = before \cup {l} /\ l \notin before
    <2>1. ASSUME NEW k \in EntriesOf(p)
          PROVE  k.finding.start <= l.finding.start <=> k.finding.start < l.finding.start \/ k = l
        BY <1>1 DEF AreEntries
    <2>2. l \notin before
        BY <1>1 DEF Earlier, AreEntries
    <2>3. ASSUME NEW k PROVE k \in tags <=> k \in before \/ k = l
        BY <1>1, <2>1 DEF Earlier, TreatedIn, EntriesOf, Mode
    <2> QED BY <2>2, <2>3
<1> HIDE DEF before, tags
<1>4. Cardinality(tags) = Cardinality(before) + 1
    BY <1>2, <1>3, FS_AddElement
<1>5. Cardinality(before) = Tags(Earlier(l), l.finding.type)
    BY DEF before, Tags
<1> QED BY <1>4, <1>5 DEF tags

SentAt(p) ==
    IF p \notin Prompts THEN sent[p] = payload[p]
    ELSE /\ Len(sent[p]) = Place(payload[p], TreatedIn(p), Len(payload[p]))
         /\ \A i \in Clear(payload[p], TreatedIn(p)) :
               sent[p][Place(payload[p], TreatedIn(p), i)] = payload[p][i]
         /\ \A l \in TreatedIn(p) :
               IsToken(sent[p][Place(payload[p], TreatedIn(p), l.finding.end)], l, TreatedIn(p))
         /\ \A f \in Findings(given.candidates[payload[p]], Len(payload[p])) :
               [path |-> p, finding |-> f] \in located

SentIs ==
    /\ (sent # Nothing /\ given.shadow) => sent = payload
    /\ (sent # Nothing /\ ~given.shadow) =>
          /\ \A l \in located : decided[l].action # "block"
          /\ DOMAIN sent = DOMAIN payload
          /\ \A p \in DOMAIN payload : SentAt(p)

LEMMA SentIsDecided == SentIs <=> SentAsDecided
BY DEF SentIs, SentAt, SentAsDecided, TreatedIn

\* What is sent follows the decisions, and every surrogate is one.
SentInv ==
    /\ stage \in {"received", "decided"} => sent = Nothing
    /\ stage # "received" => located = Located
    /\ Acts
    /\ \A o \in DOMAIN known : known[o].as = "surrogate"
    /\ SentIs

LEMMA PutMarks ==
    ASSUME PayloadInv, SentInv, NEW values \in SUBSET New, Put(values)
    PROVE  \A o \in DOMAIN known' : known'[o].as = "surrogate"
<1> SUFFICES ASSUME NEW o \in DOMAIN known' PROVE known'[o].as = "surrogate"
    OBVIOUS
<1>1. o \in DOMAIN known \/ o \in values
    BY PutFacts
<1>2. CASE o \in DOMAIN known
    BY <1>2, PutFacts DEF SentInv
<1>3. CASE o \in values
    <2>1. known'[o] = Surrogate(o)
        BY <1>3, PutFacts
    <2>2. Surrogate(o).as = "surrogate"
        BY DEF Surrogate
    <2> QED BY <2>1, <2>2
<1> QED BY <1>1, <1>2, <1>3

LEMMA SentMask ==
    ASSUME PromptsAreExtracted, PayloadInv, SentInv, Mask
    PROVE  SentInv'
<1>1. /\ UNCHANGED <<given, turn, located, decided>> /\ payload' = payload
      /\ stage = "decided" /\ stage' = "sent" /\ ~given.shadow /\ ~Blocking
      /\ sent' = [p \in DOMAIN payload |-> MaskText(p, known')]
    BY DEF Mask, payload
<1>2. Acts /\ located = Located
    BY <1>1 DEF SentInv
<1>3. Put(New) /\ New \in SUBSET New
    BY DEF Mask
<1>4. \A o \in DOMAIN known' : known'[o].as = "surrogate"
    BY <1>3, PutMarks
<1>5. ASSUME NEW l \in located, decided[l].action = "pseudonymize"
      PROVE  Original(l) \in DOMAIN known'
    <2>1. Original(l) \in New \/ Original(l) \in DOMAIN known
        BY <1>5 DEF New, Pseudonymized, Mode
    <2>2. DOMAIN known' = DOMAIN known \cup New
        BY <1>3, PutFacts
    <2> QED BY <2>1, <2>2
<1>6. given \in Givens /\ turn \in DOMAIN given.turns
    BY DEF PayloadInv
<1>7. ExtractText(payload) = Prompts \cap DOMAIN payload
    BY <1>6 DEF PromptsAreExtracted, payload
<1>8. ASSUME NEW p \in DOMAIN payload, p \notin Prompts
      PROVE  MaskText(p, known') = payload[p]
    <2>1. EntriesOf(p) = {}
        <3> SUFFICES ASSUME NEW l \in located, l.path = p PROVE FALSE
            BY DEF EntriesOf
        <3>1. p \in ExtractText(payload)
            BY <1>2 DEF Located, Here
        <3> QED BY <1>7, <1>8, <3>1
    <2>2. PICK output :
            /\ IsOutput(output, Cells(p, known'), {}, payload[p], PartsOf(p, known'))
            /\ MaskText(p, known') = output[{}] \o SubSeq(payload[p], Cursor({}) + 1, Len(payload[p]))
        BY <1>1, <1>2, <2>1, MaskTextIsOutput DEF IsMasked
    <2>3. output[{}] = <<>> /\ Cursor({}) + 1 = 1
        BY <2>2 DEF IsOutput, Cursor
    <2>4. PICK text \in Seq(Range(payload[p])) : text = payload[p]
        BY EntryFacts
    <2>5. <<>> \o SubSeq(text, 1, Len(text)) = text
        OBVIOUS
    <2> QED BY <2>2, <2>3, <2>4, <2>5
<1>9. ASSUME NEW p \in DOMAIN payload, NEW l \in TreatedIn(p),
             NEW cell, cell = CellOf(l, known', Tags(Earlier(l), l.finding.type))
      PROVE  IsToken(cell, l, TreatedIn(p))'
    <2>1. l \in located /\ decided[l].action \in {"hash", "tag", "pseudonymize"}
        BY <1>1, <1>2 DEF TreatedIn, Acts, Blocking, ActionNames, Mode
    <2>2. Original(l)' = Original(l) /\ TreatedIn(p)' = TreatedIn(p) /\ decided' = decided
        BY <1>1 DEF Original, TreatedIn
    <2>3. CASE decided[l].action = "hash"
        <3>1. cell = [as |-> "hash", type |-> "", v |-> Value(Original(l))]
            BY <1>9, <2>3 DEF CellOf
        <3> QED BY <2>2, <2>3, <3>1 DEF IsToken
    <2>4. CASE decided[l].action = "tag"
        <3>1. cell = [as |-> "tag", type |-> l.finding.type,
                      v |-> <<Tags(Earlier(l), l.finding.type) + 1>>]
            BY <1>9, <2>4 DEF CellOf
        <3>2. Cardinality({k \in TreatedIn(p) : /\ k.finding.type = l.finding.type
                                                /\ decided[k].action = "tag"
                                                /\ k.finding.start <= l.finding.start})
                  = Tags(Earlier(l), l.finding.type) + 1
            BY <2>4, TagsAreCounted
        <3> QED BY <2>2, <2>4, <3>1, <3>2 DEF IsToken
    <2>5. CASE decided[l].action = "pseudonymize"
        <3>1. cell = known'[Original(l)]
            BY <1>9, <2>5 DEF CellOf
        <3>2. cell.as = "surrogate"
            BY <1>4, <1>5, <2>1, <2>5, <3>1
        <3> QED BY <2>2, <2>5, <3>1, <3>2 DEF IsToken
    <2> QED BY <2>1, <2>3, <2>4, <2>5
<1>10. ASSUME NEW p \in DOMAIN payload, p \in Prompts
       PROVE  \A f \in Findings(given.candidates[payload[p]], Len(payload[p])) :
                  [path |-> p, finding |-> f] \in located
    <2>1. Here(p) \subseteq located
        BY <1>2, <1>7, <1>10 DEF Located
    <2> QED BY <2>1 DEF Here
<1>11. ASSUME NEW p \in DOMAIN payload
       PROVE  LET text == payload[p]
                  treated == TreatedIn(p)
              IN  /\ Len(sent'[p]) = Place(text, treated, Len(text))
                  /\ \A i \in Clear(text, treated) : sent'[p][Place(text, treated, i)] = text[i]
                  /\ \A l \in treated :
                        IsToken(sent[p][Place(payload[p], TreatedIn(p), l.finding.end)],
                                l, TreatedIn(p))'
    <2>1. sent'[p] = MaskText(p, known')
        BY <1>1
    <2>2. PICK sentText : sentText = sent'[p]
        OBVIOUS
    <2>3. ASSUME NEW l \in TreatedIn(p)
          PROVE  IsToken(sent[p][Place(payload[p], TreatedIn(p), l.finding.end)],
                         l, TreatedIn(p))'
        <3>1. PICK cell : cell = sentText[Place(payload[p], TreatedIn(p), l.finding.end)]
            OBVIOUS
        <3>2. cell = CellOf(l, known', Tags(Earlier(l), l.finding.type))
            BY <1>1, <1>2, <2>1, <2>2, <3>1, MaskedText
        <3>3. IsToken(cell, l, TreatedIn(p))'
            BY <1>9, <3>2
        <3>4. cell = (sent[p][Place(payload[p], TreatedIn(p), l.finding.end)])'
            BY <1>1, <2>2, <3>1 DEF TreatedIn
        <3> QED BY <3>3, <3>4
    <2> QED BY <1>1, <1>2, <2>1, <2>3, MaskedText
<1>12. SentIs'
    <2>1. \A l \in located : decided[l].action # "block"
        BY <1>1 DEF Blocking, Mode
    <2>2. DOMAIN sent' = DOMAIN payload
        BY <1>1
    <2>3. ASSUME NEW p \in DOMAIN payload, p \notin Prompts PROVE sent'[p] = payload[p]
        BY <1>1, <1>8, <2>3
    <2>4. ASSUME NEW p \in DOMAIN payload PROVE SentAt(p)'
        <3>1. CASE p \notin Prompts
            BY <1>1, <2>3, <3>1 DEF SentAt
        <3>2. CASE p \in Prompts
            <4>1. TreatedIn(p)' = TreatedIn(p)
                BY <1>1 DEF TreatedIn
            <4>2. \A l \in TreatedIn(p) :
                     IsToken(sent[p][Place(payload[p], TreatedIn(p), l.finding.end)],
                             l, TreatedIn(p))'
                BY <1>11
            <4>3. /\ Len(sent'[p]) = Place(payload[p], TreatedIn(p), Len(payload[p]))
                  /\ \A i \in Clear(payload[p], TreatedIn(p)) :
                        sent'[p][Place(payload[p], TreatedIn(p), i)] = payload[p][i]
                BY <1>11
            <4> QED BY <1>1, <1>10, <3>2, <4>1, <4>2, <4>3 DEF SentAt
        <3> QED BY <3>1, <3>2
    <2> QED BY <1>1, <2>1, <2>2, <2>4 DEF SentIs
<1> QED BY <1>1, <1>2, <1>4, <1>12 DEF SentInv, Acts, Located, Here, ExtractText

LEMMA SentNext == PromptsAreExtracted /\ PayloadInv /\ SentInv /\ [Next]_vars => SentInv'
<1> SUFFICES ASSUME PromptsAreExtracted, PayloadInv, SentInv, [Next]_vars PROVE SentInv'
    OBVIOUS
<1>1. CASE Detect
    <2>1. /\ UNCHANGED <<given, turn, sent, known>> /\ payload' = payload
          /\ stage = "received" /\ stage' = "decided" /\ sent = Nothing
        BY <1>1 DEF Detect, SentInv, payload
    <2>2. located' = Located'
        BY <1>1, <2>1 DEF Detect, Located, Here, ExtractText
    <2>3. Acts'
        <3>1. given.ruleset \in RuleSets
            BY GivensAssumption DEF PayloadInv
        <3>2. \A l \in located' :
                 decided'[l] = Decide(given.ruleset, l.finding.type, l.finding.confidence, given.who)
            BY <1>1 DEF Detect
        <3> QED BY <3>1, <3>2, DecideIsAction DEF Acts
    <2>4. SentIs'
        BY <2>1 DEF SentIs
    <2> QED BY <2>1, <2>2, <2>3, <2>4 DEF SentInv
<1>2. CASE Mask
    BY <1>2, SentMask
<1>3. CASE Shadow
    <2>1. /\ UNCHANGED <<given, turn, located, decided, known>> /\ payload' = payload
          /\ stage = "decided" /\ stage' = "sent" /\ given.shadow /\ sent' = payload
        BY <1>3 DEF Shadow, payload
    <2>2. SentIs'
        BY <2>1 DEF SentIs
    <2> QED BY <2>1, <2>2 DEF SentInv, Acts, Located, Here, ExtractText
<1>4. CASE NextTurn
    <2>1. /\ given' = given /\ stage' = "received" /\ sent' = Nothing /\ located' = {}
          /\ known' = known \/ known' = Nothing
        BY <1>4 DEF NextTurn
    <2>2. SentIs'
        BY <2>1 DEF SentIs
    <2>3. \A o \in DOMAIN known' : known'[o].as = "surrogate"
        <3>1. DOMAIN Nothing = {}
            BY DEF Nothing
        <3> QED BY <2>1, <3>1 DEF SentInv
    <2> QED BY <2>1, <2>2, <2>3 DEF SentInv, Acts
<1>5. CASE MaskFails
    <2>1. /\ UNCHANGED <<given, turn, located, decided, sent>> /\ payload' = payload
          /\ stage = "decided" /\ stage' = "failed"
        BY <1>5 DEF MaskFails, payload
    <2>2. \A o \in DOMAIN known' : known'[o].as = "surrogate"
        BY <1>5, MaskPuts, PutMarks
    <2>3. SentIs'
        BY <2>1 DEF SentInv, SentIs
    <2> QED BY <2>1, <2>2, <2>3 DEF SentInv, Acts, Located, Here, ExtractText
<1>6. CASE Block \/ Answers \/ Restore \/ UNCHANGED vars
    <2>1. /\ UNCHANGED <<given, turn, located, decided, sent, known>> /\ payload' = payload
          /\ stage' \in {"received", "decided"} => stage' = stage
          /\ stage = "received" => stage' = "received"
        BY <1>6 DEF Block, Answers, Restore, vars, payload
    <2>2. SentIs'
        <3>1. ASSUME NEW p PROVE SentAt(p)' <=> SentAt(p)
            BY <2>1 DEF SentAt, TreatedIn, IsToken, Original
        <3>2. SentIs
            BY DEF SentInv
        <3> QED BY <2>1, <3>1, <3>2 DEF SentIs
    <2> QED BY <2>1, <2>2 DEF SentInv, Acts, Located, Here, ExtractText
<1> QED BY <1>1, <1>2, <1>3, <1>4, <1>5, <1>6 DEF Next

\* For all texts, findings and decisions, the provider gets every word that nothing
\* treats and one token for every finding that is treated, each in its place, when the
\* walk of the payload finds the prompts and nothing else (gateway/pipeline.py:105-142,
\* masking/engine.py:47-69).
THEOREM SentHolds == PromptsAreExtracted => (Spec => []SentAsDecided)
<1> SUFFICES ASSUME PromptsAreExtracted PROVE Spec => []SentAsDecided
    OBVIOUS
<1>1. Init => SentInv
    BY DEF Init, SentInv, Acts, SentIs, Nothing
<1>2. PayloadInv /\ SentInv /\ [Next]_vars => SentInv'
    BY SentNext
<1>3. SentInv => SentAsDecided
    BY SentIsDecided DEF SentInv
<1> QED BY <1>1, <1>2, <1>3, InvInit, InvNext, PTL DEF Spec

-----------------------------------------------------------------------------
(* The surrogates, and the dates among them. *)

\* What is generated for a value under a type.
StandsFor(cell, o) ==
    /\ <<o, cell.type>> \in Found(given)
    /\ cell = [as |-> "surrogate", type |-> cell.type,
               v |-> Generate(cell.type, Value(o), given.hash[<<o, cell.type>>],
                              given.shift[scope_id])]

\* What is known was found with its type, and stands for what is generated for it.
KnownInv == \A o \in DOMAIN known : StandsFor(known[o], o)

LEMMA OriginalIsFound ==
    ASSUME PayloadInv, NEW l \in located
    PROVE  <<Original(l), l.finding.type>> \in Found(given)
<1> DEFINE text == payload[l.path]
<1>1. /\ text \in TextsOf(given)
      /\ l.finding \in {f \in given.candidates[text] : Valid(f, Len(text))}
    BY LocatedFacts, TextFacts DEF PayloadInv
<1>2. Original(l) = SubSeq(text, l.finding.start + 1, l.finding.end)
    BY DEF Original
<1> DEFINE FoundIn(t) == {<<SubSeq(t, c.start + 1, c.end), c.type>> :
                             c \in {f \in given.candidates[t] : Valid(f, Len(t))}}
<1>3. <<Original(l), l.finding.type>> \in FoundIn(text)
    BY <1>1, <1>2
<1>4. FoundIn(text) \subseteq Found(given)
    BY <1>1 DEF Found
<1> QED BY <1>3, <1>4

LEMMA SurrogateStands ==
    ASSUME PayloadInv, NEW o, FirstFinding(o) \in FindingsOf(o)
    PROVE  StandsFor(Surrogate(o), o)
<1>1. FirstFinding(o) \in located /\ Original(FirstFinding(o)) = o
    BY DEF FindingsOf, Pseudonymized
<1>2. <<o, TypeOf(o)>> \in Found(given)
    BY <1>1, OriginalIsFound DEF TypeOf
<1>3. Surrogate(o).type = TypeOf(o)
    BY DEF Surrogate
<1> QED BY <1>2, <1>3 DEF StandsFor, Surrogate

LEMMA KnownMask ==
    ASSUME PayloadInv, KnownInv, Mask \/ MaskFails
    PROVE  KnownInv' /\ UNCHANGED given /\ scope_id' = scope_id
<1>1. UNCHANGED given /\ scope_id' = scope_id
    BY MaskPuts DEF scope_id
<1>2. PICK values \in SUBSET New : Put(values)
    BY MaskPuts
<1>3. ASSUME NEW o \in DOMAIN known' PROVE StandsFor(known'[o], o)
    <2>1. CASE o \in values
        <3>1. known'[o] = Surrogate(o) /\ FirstFinding(o) \in FindingsOf(o)
            BY <1>2, <2>1, PutFacts
        <3> QED BY <3>1, SurrogateStands
    <2>2. CASE o \notin values
        <3>1. o \in DOMAIN known /\ known'[o] = known[o]
            BY <1>2, <2>2, PutFacts
        <3> QED BY <3>1 DEF KnownInv
    <2> QED BY <2>1, <2>2
<1>4. KnownInv'
    BY <1>1, <1>3 DEF KnownInv, StandsFor
<1> QED BY <1>1, <1>4

\* After masking every value that is to be pseudonymized is known.
LEMMA MaskedIsKnown ==
    ASSUME PayloadInv, Mask, NEW l \in Pseudonymized
    PROVE  Original(l) \in DOMAIN known'
<1>1. DOMAIN known' = DOMAIN known \cup New
    <2>1. Put(New)
        BY DEF Mask
    <2> QED BY <2>1, PutFacts
<1> QED BY <1>1 DEF New

LEMMA KnownInit == Init => KnownInv
BY DEF Init, KnownInv, Nothing

LEMMA KnownNext == PayloadInv /\ KnownInv /\ [Next]_vars => KnownInv'
<1> SUFFICES ASSUME PayloadInv, KnownInv, [Next]_vars PROVE KnownInv'
    OBVIOUS
<1>1. CASE Mask \/ MaskFails
    BY <1>1, KnownMask
<1>2. CASE NextTurn
    <2>1. UNCHANGED given
        BY <1>2 DEF NextTurn
    <2>2. CASE given.session
        <3>1. UNCHANGED known /\ scope_id' = scope_id
            BY <1>2, <2>1, <2>2 DEF NextTurn, scope_id
        <3> QED BY <2>1, <3>1 DEF KnownInv, StandsFor
    <2>3. CASE ~given.session
        <3>1. DOMAIN known' = {}
            BY <1>2, <2>3 DEF NextTurn, Nothing
        <3> QED BY <3>1 DEF KnownInv
    <2> QED BY <2>2, <2>3
<1>3. CASE UNCHANGED <<given, turn, known>>
    <2>1. scope_id' = scope_id
        BY <1>3 DEF scope_id
    <2> QED BY <1>3, <2>1 DEF KnownInv, StandsFor
<1> QED BY <1>1, <1>2, <1>3 DEF Next, Detect, Shadow, Block, Answers, Restore, vars

\* What was moved is a date, by the days of its scope.
DatesInv ==
    \A a \in shifted :
        \E scope \in ScopeIds, v \in Int \X {0, 1} : a = <<scope, v, Date(v, given.shift[scope])>>

LEMMA DatesMask ==
    ASSUME DatesAreDates, PayloadInv, KnownInv, DatesInv, Mask
    PROVE  DatesInv'
<1>1. KnownInv' /\ UNCHANGED given /\ scope_id' = scope_id
    BY KnownMask
<1>2. shifted' = shifted \cup
          {<<scope_id, Value(Original(l)), known'[Original(l)].v>> :
              l \in {k \in Pseudonymized : k.finding.type \in Dates}}
    BY DEF Mask
<1>3. ASSUME NEW l \in Pseudonymized, l.finding.type \in Dates
      PROVE  \E v \in Int \X {0, 1} :
                 <<scope_id, Value(Original(l)), known'[Original(l)].v>>
                     = <<scope_id, v, Date(v, given.shift[scope_id])>>
    <2> PICK o : o = Original(l)
        OBVIOUS
    <2>1. <<o, l.finding.type>> \in Found(given)
        BY <1>3, OriginalIsFound DEF Pseudonymized
    <2>2. o \in DOMAIN known'
        BY MaskedIsKnown
    <2>3. StandsFor(known'[o], o)
        BY <1>1, <2>2 DEF KnownInv, StandsFor
    <2> DEFINE type == known'[o].type
    <2>4. /\ <<o, type>> \in Found(given)
          /\ known'[o].v = Generate(type, Value(o), given.hash[<<o, type>>], given.shift[scope_id])
        BY <2>3 DEF StandsFor
    <2>5. Value(o) \in Int \X {0, 1} /\ type \in Dates
        BY <1>3, <2>1, <2>4 DEF DatesAreDates, PayloadInv
    <2> HIDE DEF type
    <2>6. known'[o].v = Date(Value(o), given.shift[scope_id])
        BY <2>4, <2>5 DEF Generate, Dates
    <2> QED BY <2>5, <2>6
<1>4. scope_id \in ScopeIds
    BY DEF scope_id, ScopeIds
<1>5. ASSUME NEW a \in shifted'
      PROVE  \E scope \in ScopeIds, v \in Int \X {0, 1} :
                 a = <<scope, v, Date(v, given.shift[scope])>>
    <2>1. CASE a \in shifted
        BY <2>1 DEF DatesInv
    <2>2. CASE a \notin shifted
        <3>1. PICK l \in Pseudonymized :
                 /\ l.finding.type \in Dates
                 /\ a = <<scope_id, Value(Original(l)), known'[Original(l)].v>>
            BY <1>2, <2>2
        <3> QED BY <1>3, <1>4, <3>1
    <2> QED BY <2>1, <2>2
<1> QED BY <1>1, <1>5 DEF DatesInv

\* The dates of a scope keep their distances from one text and one turn to another,
\* for any number of days they are moved by, as long as no date is also found as
\* something else (masking/surrogates.py:47-49).
THEOREM IntervalsHold == DatesAreDates => (Spec => []IntervalsSurvive)
<1> SUFFICES ASSUME DatesAreDates PROVE Spec => []IntervalsSurvive
    OBVIOUS
<1>1. Init => DatesInv
    BY DEF Init, DatesInv
<1>2. PayloadInv /\ KnownInv /\ DatesInv /\ [Next]_vars => DatesInv'
    <2> SUFFICES ASSUME PayloadInv, KnownInv, DatesInv, [Next]_vars PROVE DatesInv'
        OBVIOUS
    <2>1. CASE Mask
        BY <2>1, DatesMask
    <2>2. CASE UNCHANGED <<given, shifted>>
        BY <2>2 DEF DatesInv
    <2> QED BY <2>1, <2>2 DEF Next, Detect, MaskFails, Shadow, Block, Answers, Restore, NextTurn, vars
<1>3. PayloadInv /\ DatesInv => IntervalsSurvive
    <2> SUFFICES ASSUME PayloadInv, DatesInv, NEW a \in shifted, NEW b \in shifted,
                        a[1] = b[1], a[2][2] = 1, b[2][2] = 1
                 PROVE  a[2][1] - b[2][1] = a[3][1] - b[3][1]
        BY DEF IntervalsSurvive
    <2>1. PICK s \in ScopeIds, v \in Int \X {0, 1} :
             a = <<s, v, Date(v, given.shift[s])>>
        BY DEF DatesInv
    <2>2. PICK t \in ScopeIds, w \in Int \X {0, 1} :
             b = <<t, w, Date(w, given.shift[t])>>
        BY DEF DatesInv
    <2>3. s = t /\ v[2] = 1 /\ w[2] = 1
        BY <2>1, <2>2
    <2>4. given.shift[s] \in Int
        <3>1. given.shift[s] \in -90..90
            BY GivensAssumption, Zenon DEF PayloadInv
        <3> QED BY <3>1
    <2> DEFINE d == given.shift[s]
    <2>5. Date(v, given.shift[s])[1] = v[1] + d /\ Date(w, given.shift[t])[1] = w[1] + d
        BY <2>3 DEF Date
    <2>6. a[2][1] = v[1] /\ b[2][1] = w[1] /\ a[3][1] = v[1] + d /\ b[3][1] = w[1] + d
        BY <2>1, <2>2, <2>5
    <2>7. v[1] \in Int /\ w[1] \in Int /\ d \in Int
        BY <2>4
    <2> QED BY ONLY <2>6, <2>7
<1> QED BY <1>1, <1>2, <1>3, InvInit, InvNext, KnownInit, KnownNext, PTL DEF Spec

-----------------------------------------------------------------------------
(* Restoring what was masked. *)

LEMMA FlattenIs ==
    ASSUME NEW A, NEW s \in Seq(Seq(A)), s # <<>>
    PROVE  \E f \in [1..Len(s) -> Seq(A)] :
              /\ f[1] = s[1]
              /\ \A i \in 2..Len(s) : f[i] = f[i - 1] \o s[i]
              /\ FlattenSeq(s) = f[Len(s)]
<1> DEFINE D == 1..Len(s)
           size == [i \in D |-> i]
           Step(f, i) == IF i = 1 THEN s[i] ELSE f[i - 1] \o s[i]
           body == [x \in [D -> Seq(A)] \X D |-> Step(x[1], x[2])]
           flatten == CHOOSE f : f = [i \in D |-> Step(f, i)]
<1>0. Len(s) \in Nat /\ Len(s) # 0 /\ \A i \in D : s[i] \in Seq(A)
    OBVIOUS
<1>1. ASSUME NEW f \in [D -> Seq(A)], NEW i \in D PROVE Step(f, i) \in Seq(A)
    <2>1. i # 1 => i - 1 \in D
        BY <1>0
    <2>2. i # 1 => f[i - 1] \in Seq(A)
        <3> HIDE DEF D
        <3> QED BY <2>1
    <2> QED BY <1>0, <2>2, ConcatFacts
<1>2. \A f \in [D -> Seq(A)] : \A i \in D : body[<<f, i>>] = Step(f, i)
    OBVIOUS
<1>3. Falls(D, Seq(A), size, Len(s) + 1, body)
    <2>1. size \in [D -> Nat] /\ \A i \in D : size[i] < Len(s) + 1
        BY <1>0
    <2>2. body \in [[D -> Seq(A)] \X D -> Seq(A)]
        BY <1>1
    <2>3. ASSUME NEW g \in [D -> Seq(A)], NEW h \in [D -> Seq(A)], NEW i \in D,
                 \A j \in D : size[j] < size[i] => g[j] = h[j]
          PROVE  body[<<g, i>>] = body[<<h, i>>]
        <3>1. i # 1 => g[i - 1] = h[i - 1]
            BY <1>0, <2>3
        <3> QED BY <1>2, <3>1
    <2>4. \A g, h \in [D -> Seq(A)] : \A i \in D :
             (\A j \in D : size[j] < size[i] => g[j] = h[j])
                 => body[<<g, i>>] = body[<<h, i>>]
        <3> HIDE DEF D, size, body
        <3> QED BY <2>3
    <2>5. Len(s) + 1 \in Nat
        BY <1>0
    <2> HIDE DEF D, size, body
    <2> QED BY ONLY <2>1, <2>2, <2>4, <2>5 DEF Falls
<1>4. flatten \in [D -> Seq(A)] /\ \A i \in D : flatten[i] = Step(flatten, i)
    <2>1. IsDefined(D, Seq(A), body)
        <3>1. Seq(A) # {}
            OBVIOUS
        <3> HIDE DEF D, size, body
        <3> QED BY <1>3, <3>1, RecursiveFunction
    <2>2. PICK f \in [D -> Seq(A)] : \A i \in D : f[i] = body[<<f, i>>]
        BY <2>1 DEF IsDefined
    <2>3. f = [i \in D |-> Step(f, i)]
        <3>1. \A i \in D : f[i] = Step(f, i)
            BY <1>2, <2>2
        <3> HIDE DEF D, Step
        <3> QED BY <3>1
    <2>4. flatten = [i \in D |-> Step(flatten, i)]
        BY <2>3
    <2> HIDE DEF flatten
    <2>5. \A i \in D : flatten[i] = Step(flatten, i)
        <3> HIDE DEF D, Step
        <3> QED BY <2>4
    <2>6. \A i \in D : flatten[i] \in Seq(A)
        <3> DEFINE N == {n \in Nat : n + 1 \in D => flatten[n + 1] \in Seq(A)}
        <3>1. 0 \in N
            BY <1>0, <2>5
        <3>2. ASSUME NEW n \in Nat, n \in N PROVE n + 1 \in N
            <4> SUFFICES ASSUME (n + 1) + 1 \in D PROVE flatten[(n + 1) + 1] \in Seq(A)
                OBVIOUS
            <4>1. n + 1 \in D /\ (n + 1) + 1 # 1 /\ ((n + 1) + 1) - 1 = n + 1
                BY <1>0
            <4>2. flatten[n + 1] \in Seq(A) /\ s[(n + 1) + 1] \in Seq(A)
                BY <1>0, <3>2, <4>1
            <4>3. flatten[(n + 1) + 1] = flatten[n + 1] \o s[(n + 1) + 1]
                BY <2>5, <4>1
            <4> QED BY <4>2, <4>3, ConcatFacts
        <3>3. Nat \subseteq N
            <4> HIDE DEF N
            <4> QED BY <3>1, <3>2, SetInduction
        <3>4. ASSUME NEW i \in D PROVE flatten[i] \in Seq(A)
            <4>1. i - 1 \in Nat /\ (i - 1) + 1 = i
                BY <1>0
            <4>2. i - 1 \in N
                BY <3>3, <4>1
            <4> HIDE DEF D
            <4> QED BY <4>1, <4>2
        <3> QED BY <3>4
    <2>7. flatten \in [D -> Seq(A)]
        <3>1. PICK g : g = [i \in D |-> Step(flatten, i)]
            OBVIOUS
        <3>2. g = flatten
            BY <2>4, <3>1
        <3> HIDE DEF D, Step
        <3> QED BY <2>5, <2>6, <3>1, <3>2
    <2> QED BY <2>5, <2>7
<1>5. FlattenSeq(s) = flatten[Len(s)]
    BY <1>0 DEF FlattenSeq
<1> HIDE DEF flatten
<1>6. flatten[1] = s[1] /\ \A i \in 2..Len(s) : flatten[i] = flatten[i - 1] \o s[i]
    <2>1. 1 \in D /\ \A i \in 2..Len(s) : i \in D /\ i # 1
        BY <1>0
    <2> HIDE DEF D
    <2> QED BY <1>4, <2>1
<1> QED BY <1>4, <1>5, <1>6

LEMMA FlattenAppends ==
    ASSUME NEW A, NEW s \in Seq(Seq(A)), NEW t \in Seq(A)
    PROVE  /\ FlattenSeq(<<>>) = <<>>
           /\ FlattenSeq(s) \in Seq(A)
           /\ FlattenSeq(Append(s, t)) = FlattenSeq(s) \o t
<1> DEFINE n == Len(s)
           more == Append(s, t)
<1>1. /\ n \in Nat /\ more \in Seq(Seq(A)) /\ Len(more) = n + 1 /\ more # <<>>
      /\ more[n + 1] = t /\ \A i \in 1..n : more[i] = s[i]
    <2>1. PICK S : S = Seq(A)
        OBVIOUS
    <2>2. s \in Seq(S) /\ t \in S
        BY <2>1
    <2>3. /\ n \in Nat /\ more \in Seq(S) /\ Len(more) = n + 1 /\ more # <<>>
          /\ more[n + 1] = t /\ \A i \in 1..n : more[i] = s[i]
        BY ONLY <2>2
    <2> QED BY <2>1, <2>3
<1>2. FlattenSeq(<<>>) = <<>>
    BY DEF FlattenSeq
<1> HIDE DEF more
<1>3. PICK g \in [1..Len(more) -> Seq(A)] :
          /\ g[1] = more[1]
          /\ \A i \in 2..Len(more) : g[i] = g[i - 1] \o more[i]
          /\ FlattenSeq(more) = g[Len(more)]
    BY <1>1, FlattenIs
<1>4. CASE s = <<>>
    <2>1. n = 0 /\ FlattenSeq(s) = <<>>
        BY <1>2, <1>4
    <2>2. FlattenSeq(more) = t
        BY <1>1, <1>3, <2>1
    <2>3. <<>> \o t = t /\ <<>> \in Seq(A)
        BY EmptyText
    <2> QED BY <1>2, <1>4, <2>1, <2>2, <2>3 DEF more
<1>5. CASE s # <<>>
    <2>1. PICK f \in [1..n -> Seq(A)] :
              /\ f[1] = s[1]
              /\ \A i \in 2..n : f[i] = f[i - 1] \o s[i]
              /\ FlattenSeq(s) = f[n]
        BY <1>5, FlattenIs
    <2>2. n # 0
        BY <1>5
    <2> HIDE DEF n
    <2> DEFINE N == {k \in Nat : k + 1 \in 1..n => f[k + 1] = g[k + 1]}
    <2>3. 0 \in N
        BY <1>1, <1>3, <2>1, <2>2
    <2>4. ASSUME NEW k \in Nat, k \in N PROVE k + 1 \in N
        <3> SUFFICES ASSUME (k + 1) + 1 \in 1..n PROVE f[(k + 1) + 1] = g[(k + 1) + 1]
            OBVIOUS
        <3>1. /\ k + 1 \in 1..n /\ (k + 1) + 1 \in 2..n /\ (k + 1) + 1 \in 2..Len(more)
              /\ ((k + 1) + 1) - 1 = k + 1
            BY <1>1
        <3>2. f[k + 1] = g[k + 1] /\ more[(k + 1) + 1] = s[(k + 1) + 1]
            BY <1>1, <2>4, <3>1
        <3> QED BY <1>3, <2>1, <3>1, <3>2
    <2>5. Nat \subseteq N
        <3> HIDE DEF N
        <3> QED BY <2>3, <2>4, SetInduction
    <2>6. f[n] = g[n]
        <3>1. n - 1 \in Nat /\ (n - 1) + 1 = n /\ n \in 1..n
            BY <1>1, <2>2
        <3>2. n - 1 \in N
            <4> HIDE DEF N
            <4> QED BY <2>5, <3>1
        <3> QED BY <3>1, <3>2
    <2>7. g[n + 1] = g[n] \o t
        <3>1. n + 1 \in 2..Len(more) /\ (n + 1) - 1 = n
            BY <1>1, <2>2
        <3> QED BY <1>1, <1>3, <3>1
    <2>8. FlattenSeq(s) \in Seq(A)
        <3>1. n \in 1..n
            BY <1>1, <2>2
        <3> QED BY <2>1, <3>1
    <2> QED BY <1>1, <1>2, <1>3, <2>1, <2>6, <2>7, <2>8 DEF more, n
<1> QED BY <1>4, <1>5

LEMMA FlattenIsText ==
    ASSUME NEW A, NEW s \in Seq(Seq(A))
    PROVE  FlattenSeq(s) \in Seq(A)
<1>1. <<>> \in Seq(A)
    OBVIOUS
<1> QED BY <1>1, FlattenAppends

\* The cells of a text, each turned into a text of its own.
Each(F, text) == FlattenSeq([i \in DOMAIN text |-> F[text[i]]])

Maps(F, B, A) == \A c \in B : F[c] \in Seq(A)

LEMMA EachOfNothing == ASSUME NEW F PROVE Each(F, <<>>) = <<>>
<1>1. [i \in DOMAIN <<>> |-> F[<<>>[i]]] = <<>>
    OBVIOUS
<1>2. FlattenSeq(<<>>) = <<>>
    BY DEF FlattenSeq
<1> QED BY <1>1, <1>2 DEF Each

LEMMA EachAppends ==
    ASSUME NEW A, NEW B, NEW F, Maps(F, B, A), NEW text \in Seq(B), NEW c \in B
    PROVE  /\ Each(F, text) \in Seq(A)
           /\ Each(F, Append(text, c)) = Each(F, text) \o F[c]
<1> DEFINE Cuts(t) == [i \in DOMAIN t |-> F[t[i]]]
<1>1. ASSUME NEW t PROVE Each(F, t) = FlattenSeq(Cuts(t))
    BY DEF Each
<1>2. F[c] \in Seq(A)
    BY DEF Maps
<1>3. ASSUME NEW t \in Seq(B)
      PROVE  Cuts(t) \in Seq(Seq(A)) /\ Len(Cuts(t)) = Len(t)
    <2>1. PICK S : S = Seq(A)
        OBVIOUS
    <2>2. \A i \in 1..Len(t) : F[t[i]] \in S
        BY <2>1 DEF Maps
    <2>3. Len(t) \in Nat /\ DOMAIN t = 1..Len(t)
        OBVIOUS
    <2>4. Cuts(t) \in [1..Len(t) -> S]
        BY <2>2, <2>3
    <2> HIDE DEF Cuts
    <2>5. Cuts(t) \in Seq(S) /\ Len(Cuts(t)) = Len(t)
        BY ONLY <2>3, <2>4
    <2> QED BY <2>1, <2>5
<1>4. Cuts(Append(text, c)) = Append(Cuts(text), F[c])
    <2>1. /\ Append(text, c) \in Seq(B) /\ Len(Append(text, c)) = Len(text) + 1
          /\ Append(text, c)[Len(text) + 1] = c
          /\ \A i \in 1..Len(text) : Append(text, c)[i] = text[i]
        OBVIOUS
    <2>2. Cuts(Append(text, c)) \in Seq(Seq(A)) /\ Len(Cuts(Append(text, c))) = Len(text) + 1
        <3>1. PICK t \in Seq(B) : t = Append(text, c)
            BY <2>1
        <3>2. Cuts(t) \in Seq(Seq(A)) /\ Len(Cuts(t)) = Len(text) + 1
            <4> HIDE DEF Cuts
            <4> QED BY <1>3, <2>1, <3>1
        <3> QED BY <3>1, <3>2
    <2>3. Len(Cuts(text)) = Len(text)
        BY <1>3
    <2>4. Append(Cuts(text), F[c]) \in Seq(Seq(A))
        <3> HIDE DEF Cuts
        <3> QED BY <1>2, <1>3
    <2> DEFINE left == Cuts(Append(text, c))
               right == Append(Cuts(text), F[c])
    <2>5. Len(right) = Len(text) + 1
        BY <1>2, <1>3, <2>3
    <2>6. ASSUME NEW i \in 1..(Len(text) + 1) PROVE left[i] = right[i]
        <3>1. CASE i = Len(text) + 1
            BY <1>2, <1>3, <2>1, <2>3, <3>1
        <3>2. CASE i # Len(text) + 1
            <4>1. i \in 1..Len(text)
                BY <3>2
            <4>2. left[i] = F[text[i]]
                BY <2>1, <4>1
            <4>3. right[i] = Cuts(text)[i] /\ Cuts(text)[i] = F[text[i]]
                BY <1>2, <1>3, <2>3, <4>1
            <4> QED BY <4>2, <4>3
        <3> QED BY <3>1, <3>2
    <2> HIDE DEF left, right
    <2>7. left \in Seq(Seq(A)) /\ right \in Seq(Seq(A)) /\ Len(left) = Len(right)
        BY <2>2, <2>4, <2>5 DEF left, right
    <2>8. left = right
        BY <2>5, <2>6, <2>7, SameText
    <2> QED BY <2>8 DEF left, right
<1>5. Cuts(text) \in Seq(Seq(A))
    BY <1>3
<1> HIDE DEF Cuts
<1>6. /\ FlattenSeq(Cuts(text)) \in Seq(A)
      /\ FlattenSeq(Append(Cuts(text), F[c])) = FlattenSeq(Cuts(text)) \o F[c]
    BY ONLY <1>2, <1>5, FlattenAppends
<1> QED BY <1>1, <1>4, <1>6

LEMMA EachIsText ==
    ASSUME NEW A, NEW B, NEW F, Maps(F, B, A), NEW text \in Seq(B)
    PROVE  Each(F, text) \in Seq(A)
<1>1. CASE B = {}
    <2>1. text = <<>>
        BY <1>1
    <2>2. <<>> \in Seq(A)
        OBVIOUS
    <2> QED BY <2>1, <2>2, EachOfNothing
<1>2. CASE B # {}
    <2>1. PICK c \in B : TRUE
        BY <1>2
    <2> QED BY <2>1, EachAppends
<1> QED BY <1>1, <1>2

LEMMA EachOfOne ==
    ASSUME NEW A, NEW B, NEW F, Maps(F, B, A), NEW c \in B
    PROVE  Each(F, <<c>>) = F[c]
<1>1. PICK t \in Seq(B) : t = <<>>
    <2>1. <<>> \in Seq(B)
        OBVIOUS
    <2> QED BY ONLY <2>1
<1>2. Append(t, c) = <<c>>
    BY <1>1
<1>3. Each(F, Append(t, c)) = Each(F, t) \o F[c]
    BY EachAppends
<1>4. F[c] \in Seq(A)
    BY DEF Maps
<1> QED BY <1>1, <1>2, <1>3, <1>4, EachOfNothing, EmptyText

LEMMA EachJoins ==
    ASSUME NEW A, NEW B, NEW F, Maps(F, B, A), NEW s \in Seq(B), NEW t \in Seq(B)
    PROVE  Each(F, s \o t) = Each(F, s) \o Each(F, t)
<1> DEFINE P == {u \in Seq(B) : Each(F, s \o u) = Each(F, s) \o Each(F, u)}
<1>1. Each(F, s) \in Seq(A) /\ Each(F, <<>>) = <<>>
    BY EachIsText, EachOfNothing
<1>2. <<>> \in P
    <2>1. s \o <<>> = s /\ <<>> \in Seq(B)
        BY EmptyText
    <2>2. Each(F, s) \o <<>> = Each(F, s)
        BY <1>1, EmptyText
    <2> QED BY <1>1, <2>1, <2>2
<1>3. ASSUME NEW u \in Seq(B), NEW c \in B, u \in P PROVE Append(u, c) \in P
    <2>1. s \o u \in Seq(B) /\ Append(u, c) \in Seq(B) /\ s \o Append(u, c) = Append(s \o u, c)
        OBVIOUS
    <2>2. Each(F, Append(s \o u, c)) = Each(F, s \o u) \o F[c]
        <3>1. PICK v \in Seq(B) : v = s \o u
            BY <2>1
        <3>2. Each(F, Append(v, c)) = Each(F, v) \o F[c]
            BY EachAppends
        <3> QED BY <3>1, <3>2
    <2>3. /\ Each(F, Append(u, c)) = Each(F, u) \o F[c]
          /\ Each(F, u) \in Seq(A) /\ F[c] \in Seq(A)
        <3>1. F[c] \in Seq(A)
            BY DEF Maps
        <3> QED BY <3>1, EachAppends
    <2>4. Each(F, s \o u) = Each(F, s) \o Each(F, u)
        BY <1>3
    <2>5. (Each(F, s) \o Each(F, u)) \o F[c] = Each(F, s) \o (Each(F, u) \o F[c])
        <3>1. PICK x \in Seq(A), y \in Seq(A), z \in Seq(A) :
                  x = Each(F, s) /\ y = Each(F, u) /\ z = F[c]
            BY ONLY <1>1, <2>3
        <3>2. (x \o y) \o z = x \o (y \o z)
            BY ConcatIsAssociative
        <3> QED BY ONLY <3>1, <3>2
    <2> QED BY <2>1, <2>2, <2>3, <2>4, <2>5
<1>4. Seq(B) \subseteq P
    <2> HIDE DEF P
    <2> QED BY <1>2, <1>3, TextInduction
<1> QED BY <1>4

\* One turn after another is one turn.
LEMMA EachOfEach ==
    ASSUME NEW A, NEW B, NEW F, Maps(F, B, A),
           NEW X, NEW G, Maps(G, A, X),
           NEW H, \A c \in B : H[c] = Each(G, F[c]), NEW text \in Seq(B)
    PROVE  Each(G, Each(F, text)) = Each(H, text)
<1> DEFINE P == {u \in Seq(B) : Each(G, Each(F, u)) = Each(H, u)}
<1>1. <<>> \in P
    <2>1. <<>> \in Seq(B)
        OBVIOUS
    <2> QED BY <2>1, EachOfNothing
<1>2. Maps(H, B, X)
    <2> SUFFICES ASSUME NEW c \in B PROVE H[c] \in Seq(X)
        BY DEF Maps
    <2>1. F[c] \in Seq(A)
        BY DEF Maps
    <2>2. Each(G, F[c]) \in Seq(X)
        BY ONLY <2>1, Maps(G, A, X), EachIsText
    <2> QED BY <2>2
<1>3. ASSUME NEW u \in Seq(B), NEW c \in B, u \in P PROVE Append(u, c) \in P
    <2>1. Each(F, Append(u, c)) = Each(F, u) \o F[c] /\ Each(F, u) \in Seq(A) /\ F[c] \in Seq(A)
        BY EachAppends DEF Maps
    <2>2. Each(G, Each(F, u) \o F[c]) = Each(G, Each(F, u)) \o Each(G, F[c])
        BY <2>1, EachJoins
    <2>3. Each(H, Append(u, c)) = Each(H, u) \o H[c]
        BY <1>2, EachAppends
    <2>4. Append(u, c) \in Seq(B)
        OBVIOUS
    <2>5. Each(G, Each(F, u)) = Each(H, u) /\ Each(G, F[c]) = H[c]
        BY <1>3
    <2> QED BY <2>1, <2>2, <2>3, <2>4, <2>5
<1>4. Seq(B) \subseteq P
    <2> HIDE DEF P
    <2> QED BY <1>1, <1>3, TextInduction
<1> QED BY <1>4

\* A text whose cells are left alone stays as it is.
LEMMA WordsStay ==
    ASSUME NEW V, NEW F, \A c \in V : F[c] = <<c>>, NEW t \in Seq(V)
    PROVE  Each(F, t) = t
<1> DEFINE P == {u \in Seq(V) : Each(F, u) = u}
<1>1. Maps(F, V, V)
    <2> SUFFICES ASSUME NEW c \in V PROVE F[c] \in Seq(V)
        BY DEF Maps
    <2>1. <<c>> \in Seq(V) /\ F[c] = <<c>>
        OBVIOUS
    <2> QED BY ONLY <2>1
<1>2. <<>> \in P
    <2>1. <<>> \in Seq(V)
        OBVIOUS
    <2> QED BY <2>1, EachOfNothing
<1>3. ASSUME NEW u \in Seq(V), NEW c \in V, u \in P PROVE Append(u, c) \in P
    <2>1. Each(F, Append(u, c)) = Each(F, u) \o <<c>>
        <3>1. Each(F, Append(u, c)) = Each(F, u) \o F[c]
            BY <1>1, EachAppends
        <3> QED BY <3>1
    <2>2. Append(u, c) \in Seq(V) /\ Append(u, c) = u \o <<c>>
        OBVIOUS
    <2>3. Each(F, u) = u
        BY <1>3
    <2> QED BY <2>1, <2>2, <2>3
<1>4. Seq(V) \subseteq P
    <2> HIDE DEF P
    <2> QED BY <1>2, <1>3, TextInduction
<1> QED BY <1>4

-----------------------------------------------------------------------------
(* A text that is put together of parts, and one of them replaced. *)

\* f: what the first parts make together.
Builds(f, parts, n, A) ==
    /\ n \in Nat
    /\ f[0] = <<>>
    /\ \A k \in 0..n : f[k] \in Seq(A)
    /\ \A k \in 1..n : parts[k] \in Seq(A) /\ f[k] = f[k - 1] \o parts[k]

LEMMA PartsBuild ==
    ASSUME NEW A, NEW parts \in Seq(Seq(A)), NEW f,
           f = [k \in 0..Len(parts) |-> FlattenSeq(SubSeq(parts, 1, k))]
    PROVE  Builds(f, parts, Len(parts), A) /\ f[Len(parts)] = FlattenSeq(parts)
<1> PICK S : S = Seq(A)
    OBVIOUS
<1> PICK n \in Nat : n = Len(parts)
    OBVIOUS
<1>1. parts \in Seq(S)
    OBVIOUS
<1>2. SubSeq(parts, 1, 0) = <<>> /\ SubSeq(parts, 1, n) = parts
    BY <1>1
<1>3. ASSUME NEW k \in 0..n PROVE f[k] = FlattenSeq(SubSeq(parts, 1, k)) /\ f[k] \in Seq(A)
    <2>1. SubSeq(parts, 1, k) \in Seq(Seq(A))
        <3>1. SubSeq(parts, 1, k) \in Seq(S)
            BY ONLY <1>1, n \in Nat, n = Len(parts), k \in 0..n
        <3> QED BY <3>1
    <2>2. FlattenSeq(SubSeq(parts, 1, k)) \in Seq(A)
        BY ONLY <2>1, FlattenIsText
    <2>3. f[k] = FlattenSeq(SubSeq(parts, 1, k))
        OBVIOUS
    <2> QED BY <2>2, <2>3
<1>4. ASSUME NEW k \in 1..n PROVE parts[k] \in Seq(A) /\ f[k] = f[k - 1] \o parts[k]
    <2>1. k - 1 \in 0..n /\ k \in 0..n
        OBVIOUS
    <2>2. PICK s \in Seq(S) : s = SubSeq(parts, 1, k - 1)
        <3>1. SubSeq(parts, 1, k - 1) \in Seq(S)
            BY ONLY <1>1, n \in Nat, n = Len(parts), <2>1
        <3> QED BY <3>1
    <2>3. SubSeq(parts, 1, k) = Append(s, parts[k]) /\ parts[k] \in S
        BY ONLY <1>1, <2>2, n \in Nat, n = Len(parts), k \in 1..n
    <2>4. FlattenSeq(Append(s, parts[k])) = FlattenSeq(s) \o parts[k]
        <3>1. s \in Seq(Seq(A)) /\ parts[k] \in Seq(A)
            BY <2>3
        <3> QED BY ONLY <3>1, FlattenAppends
    <2>5. f[k] = FlattenSeq(SubSeq(parts, 1, k)) /\ f[k - 1] = FlattenSeq(s)
        BY <1>3, <2>1, <2>2
    <2> QED BY <2>3, <2>4, <2>5
<1>5. f[0] = <<>>
    <2>1. f[0] = FlattenSeq(<<>>)
        <3>1. 0 \in 0..n
            OBVIOUS
        <3> QED BY <1>2, <1>3, <3>1
    <2>2. FlattenSeq(<<>>) = <<>>
        BY DEF FlattenSeq
    <2> QED BY <2>1, <2>2
<1>6. f[n] = FlattenSeq(parts)
    <2>1. n \in 0..n
        OBVIOUS
    <2> QED BY <1>2, <1>3, <2>1
<1> QED BY <1>3, <1>4, <1>5, <1>6 DEF Builds

\* What the first parts make is the start of what more of them make.
LEMMA BuildGrows ==
    ASSUME NEW A, NEW f, NEW parts, NEW n, Builds(f, parts, n, A), NEW k \in 0..n, NEW m \in k..n
    PROVE  /\ Len(f[k]) \in Nat /\ Len(f[m]) \in Nat /\ Len(f[k]) <= Len(f[m])
           /\ \A i \in 1..Len(f[k]) : f[m][i] = f[k][i]
<1> DEFINE Starts(j) == Len(f[k]) <= Len(f[j]) /\ \A i \in 1..Len(f[k]) : f[j][i] = f[k][i]
           S == {d \in Nat : k + d \in 0..n => Starts(k + d)}
<1>0. n \in Nat /\ \A j \in 0..n : f[j] \in Seq(A) /\ Len(f[j]) \in Nat
    BY EmptyText DEF Builds
<1>1. 0 \in S
    <2>1. k + 0 = k
        OBVIOUS
    <2>2. Starts(k)
        BY <1>0
    <2> HIDE DEF Starts
    <2> QED BY <2>1, <2>2
<1>2. ASSUME NEW d \in Nat, d \in S PROVE d + 1 \in S
    <2> SUFFICES ASSUME k + (d + 1) \in 0..n PROVE Starts(k + (d + 1))
        OBVIOUS
    <2> PICK j \in 0..n : j = k + d /\ j + 1 = k + (d + 1) /\ j + 1 \in 1..n /\ (j + 1) - 1 = j
        <3>1. /\ k + d \in 0..n /\ (k + d) + 1 = k + (d + 1) /\ (k + d) + 1 \in 1..n
              /\ ((k + d) + 1) - 1 = k + d
            BY <1>0
        <3> QED BY <3>1
    <2>1. Starts(j)
        BY <1>2
    <2>2. /\ f[j + 1] = f[j] \o parts[j + 1] /\ parts[j + 1] \in Seq(A) /\ f[j] \in Seq(A)
        BY DEF Builds
    <2>3. /\ Len(f[j + 1]) = Len(f[j]) + Len(parts[j + 1])
          /\ \A i \in 1..Len(f[j]) : f[j + 1][i] = f[j][i]
        <3>1. PICK a \in Seq(A), b \in Seq(A) : a = f[j] /\ b = parts[j + 1]
            BY <2>2
        <3>2. Len(a \o b) = Len(a) + Len(b) /\ \A i \in 1..Len(a) : (a \o b)[i] = a[i]
            BY ConcatFacts
        <3> QED BY ONLY <2>2, <3>1, <3>2
    <2>4. Len(parts[j + 1]) \in Nat /\ Len(f[j]) \in Nat /\ Len(f[k]) \in Nat
        BY <1>0, <2>2, EmptyText
    <2>5. Len(f[k]) <= Len(f[j]) /\ \A i \in 1..Len(f[k]) : f[j][i] = f[k][i]
        BY <2>1
    <2>6. Starts(j + 1)
        <3>1. Len(f[k]) <= Len(f[j + 1])
            <4>1. PICK x \in Nat, y \in Nat, z \in Nat :
                      x = Len(f[k]) /\ y = Len(f[j]) /\ z = Len(parts[j + 1])
                BY ONLY <2>4
            <4>2. x <= y /\ Len(f[j + 1]) = y + z
                BY <2>3, <2>5, <4>1
            <4>3. x <= y + z
                BY ONLY <4>2, x \in Nat, y \in Nat, z \in Nat
            <4> QED BY <4>1, <4>2, <4>3
        <3>2. ASSUME NEW i \in 1..Len(f[k]) PROVE f[j + 1][i] = f[k][i]
            <4>1. i \in 1..Len(f[j])
                BY ONLY <2>4, <2>5, i \in 1..Len(f[k])
            <4> QED BY <2>3, <2>5, <4>1
        <3> QED BY <3>1, <3>2
    <2> HIDE DEF Starts
    <2> QED BY <2>6
<1>3. Nat \subseteq S
    <2> HIDE DEF S
    <2> QED BY <1>1, <1>2, SetInduction
<1>4. Starts(m)
    <2>1. m - k \in Nat /\ k + (m - k) = m /\ m \in 0..n
        BY <1>0
    <2>2. m - k \in S
        BY <1>3, <2>1
    <2> HIDE DEF Starts
    <2> QED BY <2>1, <2>2
<1>5. m \in 0..n
    BY <1>0
<1> QED BY <1>0, <1>4, <1>5

\* Every place where s stands is that of a part in C, and these parts are s.
StandsAt(s, f, n, C) ==
    \A m \in Nat : At(s, f[n], m) => \E i \in C : i \in 1..n /\ m = Len(f[i - 1])

LEMMA PartIsReplaced ==
    ASSUME NEW A, NEW s \in Seq(A), Len(s) > 0, NEW new \in Seq(A), NEW C,
           NEW parts, NEW n, NEW f, Builds(f, parts, n, A), StandsAt(s, f, n, C),
           \A k \in C : k \in 1..n => parts[k] = s, NEW k \in 1..n
    PROVE  /\ Joins(A, f[k], f[k - 1], parts[k])
           /\ Whole(s, f[k], Len(f[k - 1]))
           /\ Replaced(parts[k], s, new) = IF k \in C THEN new ELSE parts[k]
<1> PICK before \in Seq(A), part \in Seq(A) : before = f[k - 1] /\ part = parts[k]
    <2>1. k - 1 \in 0..n
        BY DEF Builds
    <2>2. f[k - 1] \in Seq(A) /\ parts[k] \in Seq(A)
        BY <2>1 DEF Builds
    <2> QED BY <2>2
<1>1. n \in Nat /\ k - 1 \in 0..n /\ k \in 0..n /\ (k - 1) + 1 = k
    BY DEF Builds
<1>2. f[k] = before \o part
    BY DEF Builds
<1>3. Joins(A, f[k], before, part)
    BY <1>2, JoinFacts
<1> PICK a \in Nat, b \in Nat, c \in Nat : a = Len(before) /\ b = Len(f[k]) /\ c = Len(s)
    BY <1>3, EmptyText DEF Joins
<1>4. b = a + Len(part) /\ Len(part) \in Nat
    BY <1>3 DEF Joins
\* A place in the first k parts is that of one of them.
<1>5. ASSUME NEW m \in Nat, At(s, f[k], m)
      PROVE  \E i \in C : i \in 1..k /\ m = Len(f[i - 1]) /\ (i # k => m + c <= a)
    <2>1. At(s, f[n], m)
        <3>1. m + c <= b /\ \A j \in 1..c : f[k][m + j] = s[j]
            BY <1>5 DEF At
        <3>2. b <= Len(f[n]) /\ Len(f[n]) \in Nat /\ \A i \in 1..b : f[n][i] = f[k][i]
            <4>1. n \in k..n
                BY <1>1
            <4> QED BY <1>1, <4>1, BuildGrows
        <3>3. ASSUME NEW j \in 1..c PROVE f[n][m + j] = s[j]
            <4>1. m + j \in 1..b
                BY ONLY <3>1, m \in Nat, b \in Nat, c \in Nat, j \in 1..c
            <4> QED BY <3>1, <3>2, <4>1
        <3>4. m + c <= Len(f[n])
            BY ONLY <3>1, <3>2, m \in Nat, b \in Nat, c \in Nat
        <3> QED BY <3>3, <3>4 DEF At
    <2>2. PICK i \in C : i \in 1..n /\ m = Len(f[i - 1])
        BY <2>1 DEF StandsAt
    <2>3. PICK part2 \in Seq(A), before2 \in Seq(A) :
              /\ part2 = s /\ before2 = f[i - 1] /\ f[i] = before2 \o part2
        <3>1. i - 1 \in 0..n /\ parts[i] = s
            BY <1>1, <2>2
        <3>2. f[i - 1] \in Seq(A) /\ f[i] = f[i - 1] \o s
            BY <2>2, <3>1 DEF Builds
        <3> QED BY <3>2
    <2>4. Len(f[i]) = m + c
        BY <2>2, <2>3, ConcatFacts
    <2>5. i <= k
        <3> SUFFICES ASSUME ~(i <= k) PROVE FALSE
            OBVIOUS
        <3>1. i - 1 \in 0..n /\ i - 1 \in k..n
            BY <1>1, <2>2
        <3>2. b <= m
            BY <1>1, <2>2, <3>1, BuildGrows
        <3>3. m + c <= b
            BY <1>5 DEF At
        <3> QED BY ONLY <3>2, <3>3, m \in Nat, b \in Nat, c \in Nat, c = Len(s), Len(s) > 0
    <2>6. i # k => m + c <= a
        <3> SUFFICES ASSUME i # k PROVE m + c <= a
            OBVIOUS
        <3>1. k - 1 \in i..n /\ i \in 0..n
            BY <1>1, <2>2, <2>5
        <3> QED BY <2>4, <3>1, BuildGrows
    <2> QED BY <2>2, <2>5, <2>6
<1>6. Whole(s, f[k], a)
    <2> SUFFICES ASSUME NEW m \in Nat, m < a, a < m + c, At(s, f[k], m) PROVE FALSE
        BY DEF Whole
    <2>1. PICK i \in C : i \in 1..k /\ m = Len(f[i - 1]) /\ (i # k => m + c <= a)
        BY <1>5
    <2>2. CASE i = k
        BY <2>1, <2>2
    <2>3. CASE i # k
        BY <2>1, <2>3
    <2> QED BY <2>2, <2>3
<1>7. CASE k \in C
    <2>1. part = s
        BY <1>7
    <2>2. Replaced(s, s, new) = new
        BY WordReplaced
    <2> QED BY <1>3, <1>6, <1>7, <2>1, <2>2
<1>8. CASE k \notin C
    <2>1. ASSUME NEW m \in Nat, At(s, part, m) PROVE FALSE
        <3>1. At(s, f[k], a + m)
            <4>1. At(s, f[k], Len(before) + m)
                BY ONLY <1>3, s \in Seq(A), m \in Nat, <2>1, AtJoined
            <4> QED BY <4>1
        <3>2. PICK q \in Nat : q = a + m
            OBVIOUS
        <3>3. PICK i \in C : i \in 1..k /\ q = Len(f[i - 1]) /\ (i # k => q + c <= a)
            BY <1>5, <3>1, <3>2
        <3> QED BY ONLY <1>8, <3>2, <3>3, a \in Nat, c \in Nat, c = Len(s), Len(s) > 0
    <2>2. Replaced(part, s, new) = part
        BY <2>1, NoneReplaced
    <2> QED BY <1>3, <1>6, <1>8, <2>2
<1> QED BY <1>7, <1>8

\* Replacing s replaces these parts and nothing else.
LEMMA PartsAreReplaced ==
    ASSUME NEW A, NEW s \in Seq(A), Len(s) > 0, NEW new \in Seq(A), NEW C,
           NEW parts, NEW n, NEW f, Builds(f, parts, n, A), StandsAt(s, f, n, C),
           \A k \in C : k \in 1..n => parts[k] = s,
           NEW others, NEW g, Builds(g, others, n, A),
           \A k \in 1..n : others[k] = IF k \in C THEN new ELSE parts[k]
    PROVE  Replaced(f[n], s, new) = g[n]
<1> DEFINE S == {k \in Nat : k \in 0..n => Replaced(f[k], s, new) = g[k]}
<1>0. n \in Nat /\ n \in 0..n
    BY DEF Builds
<1>1. 0 \in S
    <2>1. f[0] = <<>> /\ g[0] = <<>>
        BY DEF Builds
    <2>2. ASSUME NEW m \in Nat, At(s, <<>>, m) PROVE FALSE
        <3>1. m + Len(s) <= 0 /\ Len(s) \in Nat
            BY <2>2 DEF At
        <3> QED BY ONLY <3>1, m \in Nat, Len(s) > 0
    <2>3. <<>> \in Seq(A)
        OBVIOUS
    <2>4. Replaced(<<>>, s, new) = <<>>
        BY <2>2, <2>3, NoneReplaced
    <2> QED BY <2>1, <2>4
<1>2. ASSUME NEW k \in Nat, k \in S PROVE k + 1 \in S
    <2> SUFFICES ASSUME k + 1 \in 0..n PROVE Replaced(f[k + 1], s, new) = g[k + 1]
        OBVIOUS
    <2>1. k + 1 \in 1..n /\ (k + 1) - 1 = k /\ k \in 0..n
        BY <1>0
    <2>2. Replaced(f[k], s, new) = g[k]
        BY <1>2, <2>1
    <2> HIDE DEF S
    <2>3. PICK j \in 1..n : j = k + 1 /\ j - 1 = k
        BY <2>1
    <2>4. /\ Joins(A, f[j], f[k], parts[j]) /\ Whole(s, f[j], Len(f[k]))
          /\ Replaced(parts[j], s, new) = others[j]
        BY <2>3, PartIsReplaced
    <2>5. Joins(A, Replaced(f[j], s, new), Replaced(f[k], s, new), Replaced(parts[j], s, new))
        BY <2>4, ReplacedDivides
    <2>6. Replaced(f[j], s, new) = g[k] \o others[j]
        <3>1. Replaced(f[j], s, new) = Replaced(f[k], s, new) \o Replaced(parts[j], s, new)
            BY ONLY <2>5, JoinIsConcat
        <3> QED BY ONLY <2>2, <2>4, <3>1
    <2>7. g[j] = g[k] \o others[j]
        BY <2>3 DEF Builds
    <2> QED BY <2>3, <2>6, <2>7
<1>3. Nat \subseteq S
    <2> HIDE DEF S
    <2> QED BY <1>1, <1>2, SetInduction
<1> QED BY <1>0, <1>3

-----------------------------------------------------------------------------
(* The characters of a conversation, and of what the vault holds. *)

CellsOf(g) == (UNION {Range(text) : text \in TextsOf(g)}) \cup SurrogatesOf(g)

Characters == UNION {Range(Spelling(c)) : c \in CellsOf(given)}

LEMMA CellIsSpelled ==
    ASSUME TextsAreSpelled, PayloadInv, NEW c \in CellsOf(given)
    PROVE  Spelling(c) \in Seq(Characters)
<1>1. IsText(Spelling(c))
    <2>1. CASE c \in SurrogatesOf(given)
        BY <2>1 DEF TextsAreSpelled, PayloadInv
    <2>2. CASE c \notin SurrogatesOf(given)
        <3>1. PICK text \in TextsOf(given) : c \in Range(text)
            BY <2>2 DEF CellsOf
        <3>2. PICK i \in DOMAIN text : c = text[i]
            BY <3>1 DEF Range
        <3> QED BY <3>1, <3>2 DEF TextsAreSpelled, PayloadInv
    <2> QED BY <2>1, <2>2
<1>2. Range(Spelling(c)) \subseteq Characters
    BY DEF Characters
<1>3. PICK t, A : t = Spelling(c) /\ A = Range(Spelling(c)) /\ t \in Seq(A) /\ A \subseteq Characters
    BY <1>1, <1>2 DEF IsText
<1>4. t \in Seq(Characters)
    BY ONLY <1>3
<1> QED BY <1>3, <1>4

LEMMA SpelledIsEach ==
    ASSUME TextsAreSpelled, PayloadInv, NEW text \in Seq(CellsOf(given)),
           NEW F, \A c \in CellsOf(given) : F[c] = Spelling(c)
    PROVE  /\ Maps(F, CellsOf(given), Characters)
           /\ Spelled(text) = Each(F, text)
           /\ Spelled(text) \in Seq(Characters)
<1>1. Maps(F, CellsOf(given), Characters)
    BY CellIsSpelled DEF Maps
<1>2. \A i \in DOMAIN text : text[i] \in CellsOf(given)
    OBVIOUS
<1>3. [i \in DOMAIN text |-> Spelling(text[i])] = [i \in DOMAIN text |-> F[text[i]]]
    BY <1>2
<1>4. Spelled(text) = Each(F, text)
    BY <1>3 DEF Spelled, Each
<1>5. Each(F, text) \in Seq(Characters)
    BY <1>1, EachIsText
<1> QED BY <1>1, <1>4, <1>5

LEMMA TextIsWritten ==
    ASSUME PayloadInv, NEW text \in TextsOf(given)
    PROVE  text \in Seq(Range(text)) /\ text \in Seq(CellsOf(given))
<1>1. PICK A : A = Range(text) /\ A \subseteq CellsOf(given)
    BY DEF CellsOf
<1>2. text \in Seq(A)
    BY <1>1, GivensAssumption DEF PayloadInv, IsText
<1>3. text \in Seq(CellsOf(given))
    BY ONLY <1>1, <1>2
<1> QED BY <1>1, <1>2, <1>3

\* A value that is known is a part of a text, and its surrogate one that may be generated.
LEMMA KnownIsSpelled ==
    ASSUME PayloadInv, KnownInv, NEW o \in DOMAIN known
    PROVE  o \in Seq(CellsOf(given)) /\ known[o] \in SurrogatesOf(given)
<1>1. PICK type : StandsFor(known[o], o) /\ type = known[o].type
    BY DEF KnownInv
<1>2. <<o, type>> \in Found(given)
    BY <1>1 DEF StandsFor
<1>3. known[o] \in SurrogatesOf(given)
    <2>1. PICK f : f = <<o, type>>
        OBVIOUS
    <2>2. /\ f \in Found(given) /\ f[1] = o /\ f[2] = type
          /\ scope_id \in ScopeIds
        BY <1>2, <2>1 DEF scope_id, ScopeIds
    <2>3. known[o] = [as |-> "surrogate", type |-> f[2],
                      v |-> Generate(f[2], Value(f[1]), given.hash[f], given.shift[scope_id])]
        BY <1>1, <2>1, <2>2 DEF StandsFor
    <2> QED BY <2>2, <2>3 DEF SurrogatesOf
<1>4. o \in Seq(CellsOf(given))
    <2>1. PICK text \in TextsOf(given) :
              <<o, type>> \in {<<SubSeq(text, c.start + 1, c.end), c.type>> :
                                  c \in {f \in given.candidates[text] : Valid(f, Len(text))}}
        BY <1>2 DEF Found
    <2>2. PICK c \in given.candidates[text] :
              Valid(c, Len(text)) /\ o = SubSeq(text, c.start + 1, c.end)
        BY <2>1
    <2>3. c.start \in Nat /\ c.end \in Nat /\ c.start <= c.end /\ c.end <= Len(text)
        <3>1. c.start \in Int /\ c.end \in Int
            BY GivensAssumption DEF PayloadInv, AreCandidates
        <3> QED BY <2>2, <3>1 DEF Valid
    <2>4. PICK C : C = CellsOf(given)
        OBVIOUS
    <2>5. text \in Seq(C)
        BY <2>4, TextIsWritten
    <2>6. SubSeq(text, c.start + 1, c.end) \in Seq(C)
        BY ONLY <2>3, <2>5, SubSeqFacts
    <2> QED BY <2>2, <2>4, <2>6
<1> QED BY <1>3, <1>4

LEMMA ReverseIsSpelled ==
    ASSUME TextsAreSpelled, PayloadInv, KnownInv, NEW s \in DOMAIN reverse
    PROVE  /\ s \in Seq(Characters) /\ Len(s) \in Nat /\ Len(s) > 0
           /\ Spelled(reverse[s]) \in Seq(Characters)
<1>1. reverse[s] \in DOMAIN known /\ Spelling(known[reverse[s]]) = s
    BY ReverseFacts
<1>2. PICK o \in DOMAIN known : o = reverse[s] /\ Spelling(known[o]) = s
    BY <1>1
<1>3. o \in Seq(CellsOf(given)) /\ known[o] \in SurrogatesOf(given)
    BY KnownIsSpelled
<1>4. s # <<>> /\ s \in Seq(Characters)
    <2>1. known[o] \in CellsOf(given)
        BY <1>3 DEF CellsOf
    <2>2. Spelling(known[o]) # <<>>
        BY <1>3 DEF TextsAreSpelled, PayloadInv
    <2> QED BY <1>2, <2>1, <2>2, CellIsSpelled
<1>5. Len(s) \in Nat /\ Len(s) > 0
    BY <1>4
<1>6. Spelled(o) \in Seq(Characters)
    <2>1. PICK F : F = [c \in CellsOf(given) |-> Spelling(c)]
        OBVIOUS
    <2> QED BY <1>3, <2>1, SpelledIsEach
<1> QED BY <1>2, <1>4, <1>5, <1>6

LEMMA ReverseIsFinite ==
    ASSUME PayloadInv
    PROVE  IsFiniteSet(DOMAIN reverse)
<1> DEFINE f == [o \in DOMAIN known |-> Spelling(known[o])]
<1>1. DOMAIN reverse = {f[o] : o \in DOMAIN known}
    BY DEF reverse
<1>2. IsFiniteSet({f[o] : o \in DOMAIN known})
    <2>1. IsFiniteSet(DOMAIN known)
        BY DEF PayloadInv
    <2> HIDE DEF f
    <2> QED BY <2>1, ValuesAreFinite
<1> QED BY <1>1, <1>2

-----------------------------------------------------------------------------
(* Restoring one surrogate after another. *)

LEMMA BegunIsNat ==
    ASSUME PayloadInv, NEW s \in DOMAIN reverse
    PROVE  Begun(s) \in Nat
<1> DEFINE T == {since[o] : o \in Holders(s)}
<1>1. T \subseteq Nat /\ T # {}
    BY DEF PayloadInv, reverse, Holders
<1>2. \E x \in T : \A y \in T : x <= y
    <2> HIDE DEF T
    <2> QED BY <1>1, LeastOf
<1>3. Min(T) \in T
    <2> HIDE DEF T
    <2> QED BY <1>2 DEF Min
<1>4. Begun(s) = Min(T)
    BY DEF Begun
<1> HIDE DEF T
<1> QED BY <1>1, <1>3, <1>4

LEMMA LastIsShortest ==
    ASSUME TextsAreSpelled, PayloadInv, KnownInv, NEW S \in SUBSET DOMAIN reverse, S # {}
    PROVE  /\ LastToRestore(S) \in S
           /\ \A t \in S : Len(LastToRestore(S)) <= Len(t)
<1>1. ASSUME NEW s \in S PROVE Len(s) \in Nat /\ Begun(s) \in Nat
    BY BegunIsNat, ReverseIsSpelled
<1> DEFINE N == {Len(s) : s \in S}
<1>2. PICK n \in N : \A m \in N : n <= m
    <2>1. N \subseteq Nat /\ N # {}
        BY <1>1
    <2> HIDE DEF N
    <2> QED BY <2>1, LeastOf
<1> DEFINE T == {s \in S : Len(s) = n}
           f == [s \in T |-> Begun(s)]
<1>3. PICK s \in T : \A t \in T : f[t] <= f[s]
    <2>1. T # {}
        BY <1>2
    <2>2. IsFiniteSet(T)
        <3>1. T \in SUBSET DOMAIN reverse
            OBVIOUS
        <3> HIDE DEF T
        <3> QED BY <3>1, ReverseIsFinite, FS_Subset
    <2>3. \A t \in T : f[t] \in Nat
        BY <1>1
    <2> HIDE DEF T, f
    <2> QED BY <2>1, <2>2, <2>3, GreatestRank
<1>4. s \in S /\ Len(s) = n /\ \A t \in T : Begun(t) <= Begun(s)
    BY <1>3
<1>5. ASSUME NEW t \in S
      PROVE  Len(s) < Len(t) \/ (Len(s) = Len(t) /\ Begun(t) <= Begun(s))
    <2>1. Len(t) \in N /\ Len(t) \in Nat /\ Len(s) \in Nat
        BY <1>1, <1>4
    <2>2. Len(s) <= Len(t)
        <3> HIDE DEF N
        <3> QED BY <1>2, <1>4, <2>1
    <2>3. CASE Len(t) = n
        BY <1>4, <2>3
    <2>4. CASE Len(t) # n
        <3>1. Len(s) # Len(t)
            BY <1>4, <2>4
        <3> QED BY ONLY <2>1, <2>2, <3>1
    <2> QED BY <2>3, <2>4
<1> PICK last : last = LastToRestore(S)
    OBVIOUS
<1>6. /\ last \in S
      /\ \A t \in S : Len(last) < Len(t) \/ (Len(last) = Len(t) /\ Begun(t) <= Begun(last))
    BY <1>4, <1>5 DEF LastToRestore
<1>7. ASSUME NEW t \in S PROVE Len(last) <= Len(t)
    <2>1. Len(last) \in Nat /\ Len(t) \in Nat
        BY <1>1, <1>6
    <2>2. Len(last) < Len(t) \/ Len(last) = Len(t)
        BY <1>6
    <2> QED BY ONLY <2>1, <2>2
<1> QED BY <1>6, <1>7

\* One after another, from the last of those that are left.
RestoresFrom(r, text) ==
    /\ r[{}] = text
    /\ \A S \in SUBSET DOMAIN reverse :
          /\ r[S] \in Seq(Characters)
          /\ S # {} => r[S] = Replaced(r[S \ {LastToRestore(S)}], LastToRestore(S),
                                       Spelled(reverse[LastToRestore(S)]))

LEMMA RestoreIs ==
    ASSUME TextsAreSpelled, PayloadInv, KnownInv, NEW text \in Seq(Characters)
    PROVE  \E r : RestoresFrom(r, text) /\ RestoreText(text) = r[DOMAIN reverse]
<1> DEFINE K == DOMAIN reverse
           D == SUBSET K
           R == Seq(Characters)
           size == [S \in D |-> Cardinality(S)]
           After(t, s) == Replaced(t, s, Spelled(reverse[s]))
           Step(r, S) == IF S = {} THEN text ELSE After(r[S \ {LastToRestore(S)}], LastToRestore(S))
           body == [x \in [D -> R] \X D |-> Step(x[1], x[2])]
           restored == CHOOSE r : r = [S \in D |-> Step(r, S)]
<1>1. ASSUME NEW S \in D, S # {}
      PROVE  LastToRestore(S) \in S /\ LastToRestore(S) \in K /\ S \ {LastToRestore(S)} \in D
    BY <1>1, LastIsShortest
<1>2. ASSUME NEW S \in D PROVE IsFiniteSet(S) /\ Cardinality(S) \in 0..Cardinality(K)
    BY ReverseIsFinite, FS_Subset, FS_CardinalityType
<1>3. ASSUME NEW t \in R, NEW s \in K PROVE After(t, s) \in R
    <2>1. PICK new \in R : new = Spelled(reverse[s])
        BY ReverseIsSpelled
    <2>2. s \in R /\ Len(s) > 0
        BY ReverseIsSpelled
    <2>3. Replaced(t, s, new) \in R
        BY <2>2, ReplacedIsText
    <2> QED BY <2>1, <2>3
<1>4. ASSUME NEW r \in [D -> R], NEW S \in D PROVE Step(r, S) \in R
    <2>1. CASE S # {}
        <3>1. r[S \ {LastToRestore(S)}] \in R /\ LastToRestore(S) \in K
            BY <1>1, <2>1
        <3> HIDE DEF R, D, K, After
        <3> QED BY <1>3, <2>1, <3>1
    <2>2. CASE S = {}
        BY <2>2
    <2> QED BY <2>1, <2>2
<1> HIDE DEF After, R
<1>5. Falls(D, R, size, Cardinality(K) + 1, body)
    <2>1. Cardinality(K) \in Nat
        BY ReverseIsFinite, FS_CardinalityType
    <2>2. size \in [D -> Nat] /\ \A S \in D : size[S] < Cardinality(K) + 1
        BY <1>2, <2>1
    <2>3. \A r \in [D -> R] : \A S \in D : body[<<r, S>>] = Step(r, S)
        OBVIOUS
    <2>4. body \in [[D -> R] \X D -> R]
        BY <1>4
    <2>5. ASSUME NEW f \in [D -> R], NEW g \in [D -> R], NEW S \in D,
                 \A T \in D : size[T] < size[S] => f[T] = g[T]
          PROVE  body[<<f, S>>] = body[<<g, S>>]
        <3>1. CASE S # {}
            <4> DEFINE T == S \ {LastToRestore(S)}
            <4>1. T \in D /\ Cardinality(T) = Cardinality(S) - 1 /\ Cardinality(S) \in Nat
                BY <1>1, <1>2, <3>1, FS_RemoveElement
            <4>2. f[T] = g[T]
                <5>1. size[T] = Cardinality(T) /\ size[S] = Cardinality(S)
                    BY <4>1
                <5>2. size[T] < size[S]
                    BY <4>1, <5>1
                <5> QED BY <2>5, <4>1, <5>2
            <4>3. Step(f, S) = Step(g, S)
                BY <4>2
            <4> QED BY <2>3, <4>3
        <3>2. CASE S = {}
            BY <2>3, <3>2
        <3> QED BY <3>1, <3>2
    <2>6. Cardinality(K) + 1 \in Nat
        BY <2>1
    <2>7. \A f, g \in [D -> R] : \A S \in D :
             (\A T \in D : size[T] < size[S] => f[T] = g[T])
                 => body[<<f, S>>] = body[<<g, S>>]
        <3> HIDE DEF D, size, body
        <3> QED BY <2>5
    <2> HIDE DEF D, size, body, Step, restored
    <2> QED BY ONLY <2>2, <2>4, <2>6, <2>7 DEF Falls
<1>6. \A S \in D : restored[S] = Step(restored, S)
    <2>1. IsDefined(D, R, body)
        <3>1. R # {}
            BY DEF R
        <3> HIDE DEF D, size, body
        <3> QED BY <1>5, <3>1, RecursiveFunction
    <2>2. PICK r \in [D -> R] : \A S \in D : r[S] = body[<<r, S>>]
        BY <2>1 DEF IsDefined
    <2>3. \A S \in D : r[S] = Step(r, S)
        BY <2>2
    <2>4. r = [S \in D |-> Step(r, S)]
        <3> HIDE DEF D, Step
        <3> QED BY <2>3
    <2>5. restored = [S \in D |-> Step(restored, S)]
        BY <2>4
    <2> HIDE DEF restored
    <2> QED
        <3> HIDE DEF D, Step
        <3> QED BY <2>5
<1>7. RestoreText(text) = restored[K]
    BY DEF RestoreText, After
<1> HIDE DEF restored
<1>8. \A S \in D : restored[S] \in R
    <2> DEFINE N == {n \in Nat : \A S \in D : Cardinality(S) = n => restored[S] \in R}
    <2>1. 0 \in N
        <3> SUFFICES ASSUME NEW S \in D, Cardinality(S) = 0 PROVE restored[S] \in R
            OBVIOUS
        <3>1. S = {}
            BY <1>2, FS_EmptySet
        <3> QED BY <1>6, <3>1 DEF R
    <2>2. ASSUME NEW n \in Nat, n \in N PROVE n + 1 \in N
        <3> SUFFICES ASSUME NEW S \in D, Cardinality(S) = n + 1 PROVE restored[S] \in R
            OBVIOUS
        <3>1. S # {}
            <4>1. Cardinality({}) = 0 /\ n + 1 # 0
                BY FS_EmptySet
            <4> HIDE DEF N, D
            <4> QED BY <4>1
        <3> DEFINE T == S \ {LastToRestore(S)}
        <3>2. T \in D /\ LastToRestore(S) \in K /\ LastToRestore(S) \in S
            BY <1>1, <3>1
        <3>3. Cardinality(T) = n
            BY <1>2, <3>2, FS_RemoveElement
        <3>4. restored[T] \in R
            BY <2>2, <3>2, <3>3
        <3>5. restored[S] = After(restored[T], LastToRestore(S))
            BY <1>6, <3>1
        <3> HIDE DEF T, K, N, D
        <3> QED BY <1>3, <3>2, <3>4, <3>5
    <2>3. Nat \subseteq N
        <3> HIDE DEF N
        <3> QED BY <2>1, <2>2, SetInduction
    <2>4. ASSUME NEW S \in D PROVE restored[S] \in R
        <3>1. Cardinality(S) \in N
            <4> HIDE DEF N
            <4> QED BY <1>2, <2>3
        <3> QED BY <3>1
    <2> QED BY <2>4
<1>9. RestoresFrom(restored, text)
    <2>1. restored[{}] = text
        BY <1>6
    <2>2. ASSUME NEW S \in SUBSET DOMAIN reverse, S # {}
          PROVE  restored[S] = Replaced(restored[S \ {LastToRestore(S)}], LastToRestore(S),
                                        Spelled(reverse[LastToRestore(S)]))
        BY <1>6, <2>2 DEF After
    <2> QED BY <1>8, <2>1, <2>2 DEF RestoresFrom, R
<1> QED BY <1>7, <1>9

\* Where masking has put a surrogate of S.
Standing(text, S) == {i \in SurrogatesIn(text) : Spelling(text[i]) \in S}

\* A text of the client with surrogates that the vault holds.
IsMixed(text) ==
    /\ text \in Seq(CellsOf(given))
    /\ \A i \in SurrogatesIn(text) : Spelling(text[i]) \in DOMAIN reverse

\* The shortest of those that are left are left.
AreLongest(S) == \A s \in S, t \in DOMAIN reverse \ S : Len(t) <= Len(s)

LEMMA SwappedIsText ==
    ASSUME TextsAreSpelled, PayloadInv, KnownInv, NEW text, IsMixed(text),
           NEW S \in SUBSET SurrogatesIn(text)
    PROVE  /\ Swapped(text, S) \in Seq(Seq(Characters))
           /\ Len(Swapped(text, S)) = Len(text) /\ Len(text) \in Nat
           /\ \A i \in 1..Len(text) :
                 Swapped(text, S)[i] = IF i \in S THEN Spelled(reverse[Spelling(text[i])])
                                       ELSE Spelling(text[i])
<1> PICK A : A = Seq(Characters)
    OBVIOUS
<1> PICK n \in Nat : n = Len(text) /\ DOMAIN text = 1..n
    BY DEF IsMixed
<1> PICK parts : parts = Swapped(text, S)
    OBVIOUS
<1>1. parts = [i \in 1..n |-> IF i \in S THEN Spelled(reverse[Spelling(text[i])])
                              ELSE Spelling(text[i])]
    BY DEF Swapped
<1>2. ASSUME NEW i \in 1..n PROVE parts[i] \in A
    <2>1. CASE i \in S
        <3>1. Spelling(text[i]) \in DOMAIN reverse
            BY <2>1 DEF IsMixed
        <3>2. Spelled(reverse[Spelling(text[i])]) \in A
            BY <3>1, ReverseIsSpelled
        <3> QED BY <1>1, <2>1, <3>2
    <2>2. CASE i \notin S
        <3>1. text[i] \in CellsOf(given)
            BY DEF IsMixed
        <3>2. Spelling(text[i]) \in A
            BY <3>1, CellIsSpelled
        <3> QED BY <1>1, <2>2, <3>2
    <2> QED BY <2>1, <2>2
<1>3. parts \in [1..n -> A]
    BY <1>1, <1>2
<1>4. parts \in Seq(A) /\ Len(parts) = n
    BY ONLY <1>3, n \in Nat
<1> QED BY <1>1, <1>4

\* Restoring the shortest of S swaps it back where it stands, and nothing else.
LEMMA OneIsRestored ==
    ASSUME TextsAreSpelled, PayloadInv, KnownInv, NEW text, IsMixed(text), IsLegible(text),
           NEW S \in SUBSET DOMAIN reverse, S # {}, AreLongest(S),
           NEW s, s = LastToRestore(S)
    PROVE  /\ AreLongest(S \ {s})
           /\ Replaced(FlattenSeq(Swapped(text, Standing(text, S \ {s}))), s, Spelled(reverse[s]))
                  = FlattenSeq(Swapped(text, Standing(text, S)))
<1> PICK done : done = S \ {s}
    OBVIOUS
<1> PICK before, after : before = Standing(text, done) /\ after = Standing(text, S)
    OBVIOUS
<1> PICK parts, others : parts = Swapped(text, before) /\ others = Swapped(text, after)
    OBVIOUS
<1> PICK new : new = Spelled(reverse[s])
    OBVIOUS
<1> PICK n \in Nat : n = Len(text)
    BY DEF IsMixed
<1> PICK A : A = Characters
    OBVIOUS
<1> PICK C : C = {i \in SurrogatesIn(text) : Spelling(text[i]) = s}
    OBVIOUS
<1>1. s \in S /\ \A t \in S : Len(s) <= Len(t)
    BY LastIsShortest
<1>2. \A t \in DOMAIN reverse : t \in Seq(A) /\ Len(t) \in Nat /\ Len(t) > 0
    BY ReverseIsSpelled
<1>3. s \in Seq(A) /\ Len(s) > 0 /\ new \in Seq(A)
    BY <1>1, ReverseIsSpelled
<1>4. AreLongest(done)
    <2> SUFFICES ASSUME NEW x \in done, NEW t \in DOMAIN reverse \ done PROVE Len(t) <= Len(x)
        BY DEF AreLongest
    <2>1. CASE t = s
        BY <1>1, <2>1
    <2>2. CASE t # s
        BY <2>2 DEF AreLongest
    <2> QED BY <2>1, <2>2
<1>5. before \in SUBSET SurrogatesIn(text) /\ after \in SUBSET SurrogatesIn(text)
    BY DEF Standing
<1>6. /\ parts \in Seq(Seq(A)) /\ Len(parts) = n
      /\ \A i \in 1..n : parts[i] = IF i \in before THEN Spelled(reverse[Spelling(text[i])])
                                    ELSE Spelling(text[i])
    <2>1. before \in SUBSET SurrogatesIn(text)
        BY <1>5
    <2>2. /\ Swapped(text, before) \in Seq(Seq(Characters)) /\ Len(Swapped(text, before)) = Len(text)
          /\ \A i \in 1..Len(text) :
                Swapped(text, before)[i] = IF i \in before THEN Spelled(reverse[Spelling(text[i])])
                                          ELSE Spelling(text[i])
        BY <2>1, SwappedIsText
    <2> QED BY <2>2
<1>7. /\ others \in Seq(Seq(A)) /\ Len(others) = n
      /\ \A i \in 1..n : others[i] = IF i \in after THEN Spelled(reverse[Spelling(text[i])])
                                     ELSE Spelling(text[i])
    <2>1. after \in SUBSET SurrogatesIn(text)
        BY <1>5
    <2>2. /\ Swapped(text, after) \in Seq(Seq(Characters)) /\ Len(Swapped(text, after)) = Len(text)
          /\ \A i \in 1..Len(text) :
                Swapped(text, after)[i] = IF i \in after THEN Spelled(reverse[Spelling(text[i])])
                                          ELSE Spelling(text[i])
        BY <2>1, SwappedIsText
    <2> QED BY <2>2
<1>8. PICK f : f = [k \in 0..n |-> FlattenSeq(SubSeq(parts, 1, k))]
    OBVIOUS
<1>9. PICK g : g = [k \in 0..n |-> FlattenSeq(SubSeq(others, 1, k))]
    OBVIOUS
<1>10. Builds(f, parts, n, A) /\ f[n] = FlattenSeq(parts)
    BY <1>6, <1>8, PartsBuild
<1>11. Builds(g, others, n, A) /\ g[n] = FlattenSeq(others)
    BY <1>7, <1>9, PartsBuild
<1>12. /\ \A i \in C : i \notin before /\ i \in after
       /\ \A i \in 1..n : i \notin C => (i \in before <=> i \in after)
    BY <1>1 DEF Standing
<1>13. \A k \in C : k \in 1..n => parts[k] = s
    BY <1>6, <1>12
<1>14. \A k \in 1..n : others[k] = IF k \in C THEN new ELSE parts[k]
    BY <1>6, <1>7, <1>12
<1>15. StandsAt(s, f, n, C)
    <2> SUFFICES ASSUME NEW m \in Nat, At(s, f[n], m)
                 PROVE  \E i \in C : i \in 1..n /\ m = Len(f[i - 1])
        BY DEF StandsAt
    <2>1. n \in 0..n
        OBVIOUS
    <2>2. FlattenSeq(parts) \in Seq(A)
        BY <1>10, <2>1 DEF Builds
    <2>3. m \in Occurrences(s, FlattenSeq(parts))
        BY <1>3, <1>10, <2>2, OccurrenceFacts
    <2>4. {i \in SurrogatesIn(text) : Len(Spelling(text[i])) > Len(s)} \subseteq before
        <3> SUFFICES ASSUME NEW i \in SurrogatesIn(text), Len(Spelling(text[i])) > Len(s)
                     PROVE  Spelling(text[i]) \in done
            BY DEF Standing
        <3>1. PICK t \in DOMAIN reverse : t = Spelling(text[i])
            BY DEF IsMixed
        <3>2. t \in S
            <4> SUFFICES ASSUME t \notin S PROVE FALSE
                OBVIOUS
            <4>1. Len(t) <= Len(s)
                BY <1>1 DEF AreLongest
            <4>2. Len(t) \in Nat /\ Len(s) \in Nat /\ Len(t) > Len(s)
                BY <1>1, <1>2, <3>1
            <4> QED BY ONLY <4>1, <4>2
        <3>3. t # s
            <4>1. Len(s) \in Nat /\ Len(t) > Len(s)
                BY <1>1, <1>2, <3>1
            <4> QED BY ONLY <4>1
        <3> QED BY <3>1, <3>2, <3>3
    <2>5. C \cap before = {}
        BY <1>12
    <2>6. \E i \in C : m = Len(FlattenSeq(SubSeq(parts, 1, i - 1)))
        <3>1. s \in DOMAIN reverse
            BY <1>1
        <3>2. \A q \in Occurrences(s, FlattenSeq(Swapped(text, before))) :
                 \E i \in {j \in SurrogatesIn(text) : Spelling(text[j]) = s} :
                    q = Len(FlattenSeq(SubSeq(Swapped(text, before), 1, i - 1)))
            <4>1. {j \in SurrogatesIn(text) : Spelling(text[j]) = s} \cap before = {}
                BY <2>5
            <4>2. IsLegible(text)
                OBVIOUS
            <4> QED BY ONLY <1>5, <2>4, <3>1, <4>1, <4>2, Zenon DEF IsLegible
        <3> QED BY <2>3, <3>2
    <2>7. PICK i \in C : m = Len(FlattenSeq(SubSeq(parts, 1, i - 1)))
        BY <2>6
    <2>8. i \in 1..n /\ i - 1 \in 0..n
        <3>1. i \in DOMAIN text /\ DOMAIN text = 1..n
            BY DEF SurrogatesIn, IsMixed
        <3> QED BY <3>1
    <2>9. f[i - 1] = FlattenSeq(SubSeq(parts, 1, i - 1))
        BY <1>8, <2>8
    <2> QED BY <2>7, <2>8, <2>9
<1>16. Replaced(f[n], s, new) = g[n]
    BY ONLY <1>3, <1>10, <1>11, <1>13, <1>14, <1>15, PartsAreReplaced
<1> QED BY <1>4, <1>10, <1>11, <1>16

\* Restoring swaps every surrogate of a legible text back where it stands.
LEMMA LegibleIsRestored ==
    ASSUME TextsAreSpelled, PayloadInv, KnownInv, NEW text, IsMixed(text), IsLegible(text)
    PROVE  RestoreText(Spelled(text)) = FlattenSeq(Swapped(text, SurrogatesIn(text)))
<1> PICK K : K = DOMAIN reverse
    OBVIOUS
<1>1. Spelled(text) \in Seq(Characters)
    <2>1. PICK F : F = [c \in CellsOf(given) |-> Spelling(c)]
        OBVIOUS
    <2> QED BY <2>1, SpelledIsEach DEF IsMixed
<1>2. PICK r : RestoresFrom(r, Spelled(text)) /\ RestoreText(Spelled(text)) = r[K]
    BY <1>1, RestoreIs
<1> DEFINE Is(S) == AreLongest(S) => r[S] = FlattenSeq(Swapped(text, Standing(text, S)))
           N == {n \in Nat : \A S \in SUBSET K : Cardinality(S) = n => Is(S)}
<1>3. \A S \in SUBSET K : IsFiniteSet(S) /\ Cardinality(S) \in Nat
    BY ReverseIsFinite, FS_Subset, FS_CardinalityType
<1>4. 0 \in N
    <2> SUFFICES ASSUME NEW S \in SUBSET K, Cardinality(S) = 0 PROVE Is(S)
        OBVIOUS
    <2>1. S = {}
        BY <1>3, FS_EmptySet
    <2>2. Standing(text, {}) = {}
        BY DEF Standing
    <2>3. Swapped(text, {}) = [i \in DOMAIN text |-> Spelling(text[i])]
        BY DEF Swapped
    <2>4. r[{}] = FlattenSeq(Swapped(text, {}))
        BY <1>2, <2>3 DEF RestoresFrom, Spelled
    <2> QED BY <2>1, <2>2, <2>4
<1>5. ASSUME NEW n \in Nat, n \in N PROVE n + 1 \in N
    <2> SUFFICES ASSUME NEW S \in SUBSET K, Cardinality(S) = n + 1, AreLongest(S)
                 PROVE  r[S] = FlattenSeq(Swapped(text, Standing(text, S)))
        OBVIOUS
    <2>1. S # {}
        <3>1. Cardinality({}) = 0 /\ n + 1 # 0
            BY FS_EmptySet
        <3> HIDE DEF N
        <3> QED BY <3>1
    <2>2. PICK s : s = LastToRestore(S)
        OBVIOUS
    <2>3. PICK done : done = S \ {s}
        OBVIOUS
    <2>4. /\ AreLongest(done)
          /\ Replaced(FlattenSeq(Swapped(text, Standing(text, done))), s, Spelled(reverse[s]))
                 = FlattenSeq(Swapped(text, Standing(text, S)))
        BY <2>1, <2>2, <2>3, OneIsRestored
    <2>5. done \in SUBSET K /\ Cardinality(done) = n
        <3>1. s \in S
            BY <2>1, <2>2, LastIsShortest
        <3>2. IsFiniteSet(S) /\ Cardinality(S \ {s}) = Cardinality(S) - 1
            BY <1>3, <3>1, FS_RemoveElement
        <3>3. (n + 1) - 1 = n /\ Cardinality(S) = n + 1
            OBVIOUS
        <3> HIDE DEF N
        <3> QED BY <2>3, <3>2, <3>3
    <2>6. r[done] = FlattenSeq(Swapped(text, Standing(text, done)))
        BY <1>5, <2>4, <2>5
    <2>7. r[S] = Replaced(r[done], s, Spelled(reverse[s]))
        BY <1>2, <2>1, <2>2, <2>3 DEF RestoresFrom
    <2> QED BY <2>4, <2>6, <2>7
<1>6. Nat \subseteq N
    <2> HIDE DEF N
    <2> QED BY <1>4, <1>5, SetInduction
<1>7. Is(K)
    <2>1. K \in SUBSET K /\ Cardinality(K) \in N
        <3> HIDE DEF N
        <3> QED BY <1>3, <1>6
    <2> HIDE DEF Is
    <2> QED BY <2>1
<1>8. AreLongest(K) /\ Standing(text, K) = SurrogatesIn(text)
    BY DEF AreLongest, Standing, IsMixed
<1> QED BY <1>2, <1>7, <1>8

\* A part of the text comes back from each part that was written.
ComesBack(F, part, E, text, V, B) ==
    /\ V \subseteq B
    /\ \A c \in V : F[c] = <<c>>
    /\ Maps(F, B, V)
    /\ \A l \in E : /\ part[l] \in Seq(B)
                    /\ Each(F, part[l]) = SubSeq(text, l.finding.start + 1, l.finding.end)

IsBack(F, S, output, text, B) ==
    output[S] \in Seq(B) /\ Each(F, output[S]) = SubSeq(text, 1, Cursor(S))

LEMMA OutputComesBack ==
    ASSUME NEW F, NEW V, NEW B, NEW text \in Seq(V), NEW E, AreEntries(E, text),
           NEW part, ComesBack(F, part, E, text, V, B),
           NEW A, NEW output, IsOutput(output, A, E, text, part),
           NEW S \in SUBSET E, S # {}, AreFirst(S, E),
           NEW l, l = Rightmost(S), NEW done, done = S \ {l}, AreFirst(done, E),
           IsBack(F, done, output, text, B)
    PROVE  IsBack(F, S, output, text, B)
<1> DEFINE a == l.finding.start
           b == l.finding.end
           c == Cursor(done)
           left == output[done]
           copy == SubSeq(text, c + 1, a)
           piece == part[l]
<1>0. left \in Seq(B) /\ Each(F, left) = SubSeq(text, 1, c)
    BY DEF IsBack
<1>1. l \in S /\ l \in E /\ l \in E \ done
    BY RightmostExists DEF IsRightmost
<1>2. /\ a \in Nat /\ b \in Nat /\ a < b /\ b <= Len(text) /\ Len(text) \in Nat
      /\ Cursor(S) = b
    BY <1>1 DEF AreEntries, Cursor
<1>3. c \in Nat /\ c <= a
    <2>1. done \in SUBSET E
        BY <1>1
    <2>2. c \in 0..Len(text) /\ \A m \in E \ done : c <= m.finding.start
        <3> HIDE DEF c
        <3> QED BY <2>1, CursorFacts DEF c
    <2>3. c <= a
        BY <1>1, <2>2
    <2> HIDE DEF c, a
    <2> QED BY <1>2, <2>2, <2>3
<1>4. output[S] = left \o copy \o piece
    BY DEF IsOutput
<1>5. copy \in Seq(V) /\ copy \in Seq(B)
    <2>1. copy \in Seq(V)
        <3> HIDE DEF a, b, c
        <3>1. a <= Len(text)
            BY <1>2
        <3> QED BY <1>2, <1>3, <3>1, SubSeqFacts
    <2>2. V \subseteq B
        BY DEF ComesBack
    <2> HIDE DEF copy
    <2> QED BY <2>1, <2>2
<1>6. piece \in Seq(B) /\ Each(F, piece) = SubSeq(text, a + 1, b)
    BY <1>1 DEF ComesBack
<1>7. Each(F, copy) = copy
    <2> HIDE DEF copy
    <2> QED BY <1>5, WordsStay DEF ComesBack
<1>8. left \o copy \in Seq(B) /\ left \o copy \o piece \in Seq(B)
    <2> HIDE DEF left, copy, piece
    <2>1. left \o copy \in Seq(B)
        BY <1>0, <1>5, ConcatFacts
    <2> QED BY <1>6, <2>1, ConcatFacts
<1>9. Each(F, left \o copy \o piece) = (Each(F, left) \o copy) \o Each(F, piece)
    <2>0. left \in Seq(B)
        BY <1>0
    <2> HIDE DEF left, copy, piece
    <2>1. Each(F, left \o copy \o piece) = Each(F, left \o copy) \o Each(F, piece)
        <3>1. PICK v \in Seq(B) : v = left \o copy
            BY <1>8
        <3>2. Maps(F, B, V)
            BY DEF ComesBack
        <3>3. piece \in Seq(B)
            BY <1>6
        <3>4. Each(F, v \o piece) = Each(F, v) \o Each(F, piece)
            BY ONLY v \in Seq(B), <3>2, <3>3, EachJoins
        <3> QED BY <3>1, <3>4
    <2>2. Each(F, left \o copy) = Each(F, left) \o Each(F, copy)
        BY <1>5, <2>0, EachJoins DEF ComesBack
    <2> QED BY <1>7, <2>1, <2>2
<1>10. /\ SubSeq(text, 1, c) \o SubSeq(text, c + 1, a) = SubSeq(text, 1, a)
       /\ SubSeq(text, 1, a) \o SubSeq(text, a + 1, b) = SubSeq(text, 1, b)
    <2>1. a <= Len(text) /\ a <= b
        BY <1>2
    <2> HIDE DEF a, b, c
    <2> QED BY <1>2, <1>3, <2>1, HeadsJoin
<1> QED BY <1>0, <1>2, <1>4, <1>6, <1>8, <1>9, <1>10 DEF IsBack

\* What MaskText has put together from a text and the parts that come back.
IsPutTogether(output, A, F, part, E, text, V, B) ==
    /\ text \in Seq(V) /\ AreEntries(E, text)
    /\ ComesBack(F, part, E, text, V, B)
    /\ IsOutput(output, A, E, text, part)

IsUndone(F, B, masked, text) == masked \in Seq(B) /\ Each(F, masked) = text

LEMMA MaskedComesBack ==
    ASSUME NEW F, NEW V, NEW B, NEW text, NEW E, NEW part, NEW A, NEW output,
           IsPutTogether(output, A, F, part, E, text, V, B)
    PROVE  IsUndone(F, B, output[E] \o SubSeq(text, Cursor(E) + 1, Len(text)), text)
<1> USE DEF IsPutTogether
<1> DEFINE N == {n \in Nat : \A S \in SUBSET E :
                    AreFirst(S, E) /\ Cardinality(S) = n => IsBack(F, S, output, text, B)}
<1>0. \A S \in SUBSET E : IsFiniteSet(S) /\ Cardinality(S) \in Nat
    BY FS_Subset, FS_CardinalityType DEF AreEntries
<1>1. 0 \in N
    <2>1. ASSUME NEW S \in SUBSET E, Cardinality(S) = 0 PROVE S = {}
        BY <1>0, <2>1, FS_EmptySet
    <2>2. Cursor({}) = 0 /\ output[{}] = <<>>
        BY DEF Cursor, IsOutput
    <2>3. Each(F, <<>>) = <<>> /\ SubSeq(text, 1, 0) = <<>> /\ <<>> \in Seq(B)
        BY EachOfNothing
    <2>4. IsBack(F, {}, output, text, B)
        BY <2>2, <2>3 DEF IsBack
    <2> QED BY <2>1, <2>4
<1>2. ASSUME NEW n \in Nat, n \in N PROVE n + 1 \in N
    <2> SUFFICES ASSUME NEW S \in SUBSET E, AreFirst(S, E), Cardinality(S) = n + 1
                 PROVE  IsBack(F, S, output, text, B)
        OBVIOUS
    <2>1. S # {}
        <3>1. Cardinality({}) = 0 /\ n + 1 # 0
            BY FS_EmptySet
        <3> HIDE DEF N
        <3> QED BY <3>1
    <2>2. PICK l : l = Rightmost(S)
        OBVIOUS
    <2>3. PICK done : done = S \ {l}
        OBVIOUS
    <2>4. l \in S /\ AreFirst(done, E)
        BY <2>1, <2>2, <2>3, FirstWithoutLast
    <2>5. done \in SUBSET E /\ Cardinality(done) = n
        BY <1>0, <2>3, <2>4, FS_RemoveElement
    <2>6. IsBack(F, done, output, text, B)
        BY <1>2, <2>4, <2>5
    <2> QED BY <2>1, <2>2, <2>3, <2>4, <2>6, OutputComesBack
<1>3. Nat \subseteq N
    <2> HIDE DEF N
    <2> QED BY <1>1, <1>2, SetInduction
<1>4. AreFirst(E, E) /\ E \in SUBSET E /\ Cardinality(E) \in Nat
    BY <1>0 DEF AreFirst
<1>5. output[E] \in Seq(B) /\ Each(F, output[E]) = SubSeq(text, 1, Cursor(E))
    BY <1>3, <1>4 DEF IsBack
<1> DEFINE c == Cursor(E)
           rest == SubSeq(text, c + 1, Len(text))
<1>6. c \in Nat /\ c <= Len(text) /\ Len(text) \in Nat
    <2>1. c \in 0..Len(text)
        BY <1>4, CursorFacts
    <2> QED BY <2>1
<1>7. rest \in Seq(V) /\ SubSeq(text, 1, c) \o rest = text
    <2> HIDE DEF c
    <2>1. rest \in Seq(V)
        BY <1>6, SubSeqFacts
    <2>2. SubSeq(text, 1, c) \o rest = SubSeq(text, 1, Len(text))
        <3>1. Len(text) <= Len(text)
            BY <1>6
        <3> QED BY <1>6, <3>1, HeadsJoin
    <2>3. SubSeq(text, 1, Len(text)) = text
        OBVIOUS
    <2> QED BY <2>1, <2>2, <2>3
<1> HIDE DEF rest
<1>8. rest \in Seq(B) /\ Each(F, rest) = rest
    <2>1. V \subseteq B /\ \A k \in V : F[k] = <<k>>
        BY DEF ComesBack
    <2>2. rest \in Seq(V)
        BY <1>7
    <2>3. rest \in Seq(B)
        BY ONLY <2>1, <2>2
    <2>4. Each(F, rest) = rest
        BY ONLY <2>1, <2>2, WordsStay
    <2> QED BY <2>3, <2>4
<1>9. Each(F, output[E] \o rest) = Each(F, output[E]) \o Each(F, rest)
    <2>1. PICK v \in Seq(B) : v = output[E]
        BY <1>5
    <2>2. Maps(F, B, V)
        BY DEF ComesBack
    <2>3. rest \in Seq(B)
        BY <1>8
    <2>4. Each(F, v \o rest) = Each(F, v) \o Each(F, rest)
        BY ONLY v \in Seq(B), <2>2, <2>3, EachJoins
    <2> QED BY <2>1, <2>4
<1>10. output[E] \o rest \in Seq(B)
    BY ONLY <1>5, <1>8, ConcatFacts
<1> QED BY <1>5, <1>7, <1>8, <1>9, <1>10 DEF rest, IsUndone
-----------------------------------------------------------------------------
(* What is sent comes back. *)

\* What a cell is restored to.
Back(c) == IF c.as = "surrogate" THEN reverse[Spelling(c)] ELSE <<c>>

\* Text is what masked becomes when each of its cells, B, comes back.
BackTo(F, B, masked, text) ==
    /\ masked \in Seq(B) /\ B \subseteq CellsOf(given)
    /\ \A c \in B : /\ F[c] = Back(c)
                    /\ c.as = "surrogate" => Spelling(c) \in DOMAIN reverse
    /\ Maps(F, B, CellsOf(given))
    /\ Each(F, masked) = text

LEMMA BackIsRestored ==
    ASSUME TextsAreSpelled, PayloadInv, KnownInv, NEW masked, NEW text, NEW F, NEW B,
           BackTo(F, B, masked, text), IsLegible(masked)
    PROVE  RestoreText(Spelled(masked)) = Spelled(text)
<1> PICK C : C = CellsOf(given)
    OBVIOUS
<1> PICK A : A = Characters
    OBVIOUS
<1>1. masked \in Seq(B) /\ masked \in Seq(C) /\ \A i \in DOMAIN masked : masked[i] \in B
    <2>1. B \subseteq C /\ masked \in Seq(B)
        BY DEF BackTo
    <2>2. masked \in Seq(C)
        BY ONLY <2>1
    <2> QED BY <2>1, <2>2
<1>2. IsMixed(masked)
    BY <1>1 DEF IsMixed, SurrogatesIn, BackTo
<1>3. RestoreText(Spelled(masked)) = FlattenSeq(Swapped(masked, SurrogatesIn(masked)))
    BY <1>2, LegibleIsRestored
<1>4. PICK G : G = [c \in C |-> Spelling(c)]
    OBVIOUS
<1>5. Maps(G, C, A) /\ \A t \in Seq(C) : Spelled(t) = Each(G, t)
    <2>1. \A c \in CellsOf(given) : G[c] = Spelling(c)
        BY <1>4
    <2>2. <<>> \in Seq(CellsOf(given))
        OBVIOUS
    <2> QED BY <2>1, <2>2, SpelledIsEach
<1>6. PICK H : H = [c \in B |-> Each(G, F[c])]
    OBVIOUS
<1>7. ASSUME NEW c \in B
      PROVE  H[c] = IF c.as = "surrogate" THEN Spelled(reverse[Spelling(c)]) ELSE Spelling(c)
    <2>1. F[c] = Back(c) /\ F[c] \in Seq(C) /\ c \in C
        BY DEF BackTo, Maps
    <2>2. H[c] = Each(G, Back(c))
        BY <1>6, <2>1
    <2>3. CASE c.as = "surrogate"
        <3>1. Back(c) = reverse[Spelling(c)]
            BY <2>3 DEF Back
        <3>2. Each(G, Back(c)) = Spelled(Back(c))
            BY <1>5, <2>1
        <3> QED BY <2>2, <2>3, <3>1, <3>2
    <2>4. CASE c.as # "surrogate"
        <3>1. Back(c) = <<c>>
            BY <2>4 DEF Back
        <3>2. Each(G, <<c>>) = G[c]
            BY <1>5, <2>1, EachOfOne
        <3> QED BY <1>4, <2>1, <2>2, <2>4, <3>1, <3>2
    <2> QED BY <2>3, <2>4
<1>8. Swapped(masked, SurrogatesIn(masked)) = [i \in DOMAIN masked |-> H[masked[i]]]
    <2>1. ASSUME NEW i \in DOMAIN masked
          PROVE  (IF i \in SurrogatesIn(masked) THEN Spelled(reverse[Spelling(masked[i])])
                  ELSE Spelling(masked[i])) = H[masked[i]]
        <3>1. i \in SurrogatesIn(masked) <=> masked[i].as = "surrogate"
            BY DEF SurrogatesIn
        <3>2. PICK c \in B : c = masked[i]
            BY <1>1
        <3> QED BY <1>7, <3>1, <3>2
    <2> QED BY <2>1 DEF Swapped
<1>9. RestoreText(Spelled(masked)) = Each(H, masked)
    BY <1>3, <1>8 DEF Each
<1>10. Maps(F, B, C) /\ Each(F, masked) = text
    BY DEF BackTo
<1>11. \A c \in B : H[c] = Each(G, F[c])
    BY <1>6
<1>12. Each(G, Each(F, masked)) = Each(H, masked)
    BY ONLY <1>1, <1>5, <1>10, <1>11, EachOfEach
<1>13. text \in Seq(C)
    BY ONLY <1>1, <1>10, EachIsText
<1> QED BY <1>5, <1>9, <1>10, <1>12, <1>13

\* What is sent was masked with what the vault holds now.
AsMasked ==
    /\ ~Blocking
    /\ sent = [p \in DOMAIN payload |-> MaskText(p, known)]
    /\ \A l \in Pseudonymized : Original(l) \in DOMAIN known

MaskedInv ==
    /\ stage \in {"received", "decided"} => sent = Nothing
    /\ Acts
    /\ sent # Nothing => IF given.shadow THEN sent = payload ELSE AsMasked

LEMMA WordsAreKept ==
    ASSUME PayloadInv, TextsAreWords, NEW p \in DOMAIN payload
    PROVE  /\ payload[p] \in Seq(Range(payload[p]))
           /\ Range(payload[p]) \subseteq CellsOf(given)
           /\ \A c \in Range(payload[p]) : c.as = "word"
<1>1. payload[p] \in TextsOf(given) /\ given \in Givens
    BY TextFacts DEF PayloadInv
<1>2. ASSUME NEW c \in Range(payload[p]) PROVE c.as = "word"
    <2>1. PICK i \in DOMAIN payload[p] : c = payload[p][i]
        BY DEF Range
    <2> QED BY <1>1, <2>1 DEF TextsAreWords
<1>3. Range(payload[p]) \subseteq CellsOf(given)
    BY <1>1 DEF CellsOf
<1> QED BY <1>1, <1>2, <1>3, TextIsWritten

\* The vault leads from a surrogate that one value has back to this value.
LEMMA SurrogateComesBack ==
    ASSUME PayloadInv, KnownInv, AsMasked, NEW l \in Pseudonymized, IsReversible(l)
    PROVE  /\ known[Original(l)] \in CellsOf(given) /\ known[Original(l)].as = "surrogate"
           /\ Spelling(known[Original(l)]) \in DOMAIN reverse
           /\ Back(known[Original(l)]) = Original(l)
<1> PICK o : o = Original(l)
    OBVIOUS
<1>1. o \in DOMAIN known
    BY DEF AsMasked
<1>2. known[o] \in CellsOf(given)
    BY <1>1, KnownIsSpelled DEF CellsOf
<1>3. known[o].as = "surrogate"
    <2>1. StandsFor(known[o], o)
        BY <1>1 DEF KnownInv
    <2> QED BY <2>1 DEF StandsFor
<1> PICK s : s = Spelling(known[o])
    OBVIOUS
<1>4. s \in DOMAIN reverse
    BY <1>1 DEF reverse
<1>5. reverse[s] \in Holders(s)
    BY <1>4, ReverseFacts DEF Holders
<1>6. Holders(s) = {o}
    <2>1. decided[l].action = "pseudonymize"
        BY DEF Pseudonymized, Mode
    <2> QED BY <2>1 DEF IsReversible
<1>7. reverse[s] = o
    BY <1>5, <1>6
<1>8. Back(known[o]) = o
    BY <1>3, <1>7 DEF Back
<1> QED BY <1>2, <1>3, <1>4, <1>8

LEMMA SentComesBack ==
    ASSUME PayloadInv, KnownInv, Acts, AsMasked, TextsAreWords, NEW p \in DOMAIN payload,
           \A l \in EntriesOf(p) : IsReversible(l)
    PROVE  \E F, B : BackTo(F, B, MaskText(p, known), payload[p])
<1> DEFINE text == payload[p]
           E == EntriesOf(p)
           V == Range(text)
           B == V \cup {known[Original(l)] : l \in {k \in E : k \in Pseudonymized}}
           part == PartsOf(p, known)
<1>1. /\ text \in Seq(V) /\ AreEntries(E, text)
      /\ V \subseteq CellsOf(given) /\ \A c \in V : c.as = "word"
    BY WordsAreKept, EntryFacts
<1>2. ~Blocking
    BY DEF AsMasked
<1>3. ASSUME NEW l \in E
      PROVE  /\ l \in located /\ l.path = p
             /\ Original(l) = SubSeq(text, l.finding.start + 1, l.finding.end)
             /\ Original(l) \in Seq(V)
    <2>1. l \in located /\ l.path = p
        BY DEF EntriesOf
    <2>2. Original(l) = SubSeq(text, l.finding.start + 1, l.finding.end)
        BY <2>1 DEF Original
    <2>3. /\ l.finding.start \in Nat /\ l.finding.end \in Nat
          /\ l.finding.start <= l.finding.end /\ l.finding.end <= Len(text)
        BY <1>1 DEF AreEntries
    <2>4. SubSeq(text, l.finding.start + 1, l.finding.end) \in Seq(V)
        <3> HIDE DEF text, V
        <3> QED BY <1>1, <2>3, SubSeqFacts
    <2> QED BY <2>1, <2>2, <2>4
<1>4. PICK F : F = [c \in B |-> Back(c)]
    OBVIOUS
<1>5. \A c \in V : F[c] = <<c>>
    BY <1>1, <1>4 DEF Back
<1>6. ASSUME NEW l \in E, l \in Pseudonymized
      PROVE  /\ known[Original(l)] \in B /\ F[known[Original(l)]] = Original(l)
             /\ known[Original(l)] \in CellsOf(given)
             /\ Spelling(known[Original(l)]) \in DOMAIN reverse
    <2>1. known[Original(l)] \in B
        BY <1>6
    <2>2. F[known[Original(l)]] = Back(known[Original(l)])
        <3> HIDE DEF B
        <3> QED BY <1>4, <2>1
    <2> HIDE DEF B
    <2> QED BY <1>6, <2>1, <2>2, SurrogateComesBack
<1>7. Maps(F, B, V)
    <2> SUFFICES ASSUME NEW c \in B PROVE F[c] \in Seq(V)
        BY DEF Maps
    <2>1. CASE c \in V
        <3>1. F[c] = <<c>>
            BY <1>5, <2>1
        <3> HIDE DEF V
        <3> QED BY <2>1, <3>1
    <2>2. CASE c \notin V
        <3>1. PICK l \in E : l \in Pseudonymized /\ c = known[Original(l)]
            BY <2>2
        <3>2. F[c] = Original(l)
            BY <1>6, <3>1
        <3> QED BY <1>3, <3>2
    <2> QED BY <2>1, <2>2
<1>8. ASSUME NEW l \in E
      PROVE  part[l] \in Seq(B) /\ Each(F, part[l]) = Original(l)
    <2> DEFINE tags == Tags(Earlier(l), l.finding.type)
    <2>1. part[l] = Replacement(l, known, tags)
        BY DEF PartsOf
    <2>2. decided[l].action \in {"allow", "pseudonymize"}
        BY DEF IsReversible
    <2>3. CASE decided[l].action = "allow"
        <3>1. part[l] = Original(l)
            BY <2>1, <2>3, ReplacementFacts
        <3>2. Original(l) \in Seq(V) /\ V \subseteq B
            BY <1>3
        <3>3. Each(F, Original(l)) = Original(l)
            <4> HIDE DEF V
            <4> QED BY <1>5, <3>2, WordsStay
        <3> HIDE DEF V, B, part
        <3> QED BY <3>1, <3>2, <3>3
    <2>4. CASE decided[l].action = "pseudonymize"
        <3> DEFINE c == known[Original(l)]
        <3>1. part[l] = <<c>>
            <4>1. CellOf(l, known, tags) = c
                BY <2>4 DEF CellOf
            <4>2. Replacement(l, known, tags) = <<CellOf(l, known, tags)>>
                BY <2>4, ReplacementFacts
            <4> HIDE DEF part, c, tags
            <4> QED BY <2>1, <4>1, <4>2
        <3>2. l \in Pseudonymized
            BY <1>3, <2>4 DEF Pseudonymized, Mode
        <3>3. c \in B /\ F[c] = Original(l)
            BY <1>6, <3>2
        <3> HIDE DEF B, V, c, part
        <3>4. <<c>> \in Seq(B)
            BY <3>3
        <3>5. Each(F, <<c>>) = F[c]
            BY ONLY <1>7, <3>3, EachOfOne
        <3> QED BY <3>1, <3>3, <3>4, <3>5
    <2> QED BY <2>2, <2>3, <2>4
<1>9. ComesBack(F, part, E, text, V, B)
    <2>1. V \subseteq B
        OBVIOUS
    <2> HIDE DEF part, E, text, V, B
    <2> QED BY <1>3, <1>5, <1>7, <1>8, <2>1 DEF ComesBack
<1>10. PICK output :
        /\ IsOutput(output, Cells(p, known), E, text, part)
        /\ MaskText(p, known) = output[E] \o SubSeq(text, Cursor(E) + 1, Len(text))
    BY <1>2, MaskTextIsOutput DEF IsMasked
<1>11. /\ B \subseteq CellsOf(given)
       /\ \A c \in B : c.as = "surrogate" => Spelling(c) \in DOMAIN reverse
    <2> SUFFICES ASSUME NEW c \in B
                 PROVE  c \in CellsOf(given) /\ (c.as = "surrogate" => Spelling(c) \in DOMAIN reverse)
        OBVIOUS
    <2>1. CASE c \in V
        BY <1>1, <2>1
    <2>2. CASE c \notin V
        <3>1. PICK l \in E : l \in Pseudonymized /\ c = known[Original(l)]
            BY <2>2
        <3> QED BY <1>6, <3>1
    <2> QED BY <2>1, <2>2
<1>12. Maps(F, B, CellsOf(given))
    <2> SUFFICES ASSUME NEW c \in B PROVE F[c] \in Seq(CellsOf(given))
        BY DEF Maps
    <2>1. F[c] \in Seq(V)
        BY <1>7 DEF Maps
    <2>2. PICK X, Y, t : X = V /\ Y = CellsOf(given) /\ t = F[c] /\ t \in Seq(X) /\ X \subseteq Y
        BY <1>1, <2>1
    <2>3. t \in Seq(Y)
        BY ONLY <2>2
    <2> QED BY <2>2, <2>3
<1> HIDE DEF part, E, V, B
<1>13. MaskText(p, known) \in Seq(B) /\ Each(F, MaskText(p, known)) = text
    <2>1. PICK u : u = text
        OBVIOUS
    <2>2. PICK A : A = Cells(p, known)
        OBVIOUS
    <2>3. u \in Seq(V) /\ AreEntries(E, u)
        BY <1>1, <2>1
    <2>4. ComesBack(F, part, E, u, V, B)
        BY <1>9, <2>1
    <2>5. IsOutput(output, A, E, u, part)
        BY <1>10, <2>1, <2>2
    <2>6. IsPutTogether(output, A, F, part, E, u, V, B)
        BY <2>3, <2>4, <2>5 DEF IsPutTogether
    <2>7. IsUndone(F, B, output[E] \o SubSeq(u, Cursor(E) + 1, Len(u)), u)
        BY ONLY <2>6, MaskedComesBack
    <2>8. MaskText(p, known) = output[E] \o SubSeq(u, Cursor(E) + 1, Len(u))
        BY <1>10, <2>1
    <2>9. IsUndone(F, B, MaskText(p, known), u)
        BY ONLY <2>7, <2>8
    <2> HIDE DEF text
    <2> QED BY <2>1, <2>9 DEF IsUndone
<1>14. \A c \in B : F[c] = Back(c)
    BY <1>4
<1>15. BackTo(F, B, MaskText(p, known), text)
    BY <1>11, <1>12, <1>13, <1>14 DEF BackTo
<1> QED BY <1>15

LEMMA MaskedInit == Init => MaskedInv
BY DEF Init, MaskedInv, Acts, Nothing

LEMMA SameMask ==
    ASSUME UNCHANGED <<given, turn, located, decided>>
    PROVE  /\ payload' = payload
           /\ \A p : MaskText(p, known)' = MaskText(p, known')
           /\ Blocking' = Blocking /\ Pseudonymized' = Pseudonymized /\ Acts' = Acts
           /\ \A l : Original(l)' = Original(l)
<1>1. payload' = payload
    BY DEF payload
<1>2. ASSUME NEW p PROVE MaskText(p, known)' = MaskText(p, known')
    BY <1>1 DEF MaskText, Replacement, Mode, Tags, Original
<1>3. Blocking' = Blocking /\ Pseudonymized' = Pseudonymized /\ Acts' = Acts
    BY DEF Blocking, Pseudonymized, Acts, Mode
<1> QED BY <1>1, <1>2, <1>3 DEF Original

LEMMA MaskedMask == PayloadInv /\ MaskedInv /\ Mask => MaskedInv'
<1> SUFFICES ASSUME PayloadInv, MaskedInv, Mask PROVE MaskedInv'
    OBVIOUS
<1>1. /\ UNCHANGED <<given, turn, located, decided>>
      /\ stage' = "sent" /\ ~given.shadow /\ ~Blocking
      /\ sent' = [p \in DOMAIN payload |-> MaskText(p, known')]
    BY DEF Mask
<1>2. \A l \in Pseudonymized : Original(l) \in DOMAIN known'
    BY MaskedIsKnown
<1>3. AsMasked'
    BY <1>1, <1>2, SameMask DEF AsMasked
<1>4. stage' \notin {"received", "decided"}
    BY <1>1
<1>5. Acts' /\ ~given'.shadow
    BY <1>1, SameMask DEF MaskedInv
<1> QED BY <1>3, <1>4, <1>5 DEF MaskedInv

LEMMA MaskedNext == PayloadInv /\ MaskedInv /\ [Next]_vars => MaskedInv'
<1> SUFFICES ASSUME PayloadInv, MaskedInv, [Next]_vars PROVE MaskedInv'
    OBVIOUS
<1>1. CASE Detect
    <2>1. sent' = Nothing
        BY <1>1 DEF Detect, MaskedInv
    <2>2. Acts'
        <3>1. given.ruleset \in RuleSets
            BY GivensAssumption DEF PayloadInv
        <3>2. \A l \in located' :
                 decided'[l] = Decide(given.ruleset, l.finding.type, l.finding.confidence, given.who)
            BY <1>1 DEF Detect
        <3> QED BY <3>1, <3>2, DecideIsAction DEF Acts
    <2> QED BY <2>1, <2>2 DEF MaskedInv
<1>2. CASE Mask
    BY <1>2, MaskedMask
<1>3. CASE MaskFails
    <2>1. sent' = Nothing /\ UNCHANGED <<given, turn, located, decided>>
        BY <1>3 DEF MaskFails, MaskedInv
    <2> QED BY <2>1, SameMask DEF MaskedInv
<1>4. CASE Shadow
    <2>1. /\ UNCHANGED <<given, turn, located, decided>>
          /\ stage' = "sent" /\ given'.shadow /\ sent' = payload'
        BY <1>4, SameMask DEF Shadow, payload
    <2> QED BY <2>1, SameMask DEF MaskedInv
<1>5. CASE NextTurn
    <2>1. sent' = Nothing /\ located' = {}
        BY <1>5 DEF NextTurn
    <2> QED BY <2>1 DEF MaskedInv, Acts
<1>6. CASE Block \/ Answers \/ Restore \/ UNCHANGED vars
    <2>1. /\ UNCHANGED <<given, turn, located, decided, sent, known>>
          /\ stage' \in {"received", "decided"} => stage \in {"received", "decided"}
        BY <1>6 DEF Block, Answers, Restore, vars
    <2>2. AsMasked' = AsMasked
        BY <2>1, SameMask DEF AsMasked
    <2> QED BY <2>1, <2>2, SameMask DEF MaskedInv
<1> QED BY <1>1, <1>2, <1>3, <1>4, <1>5, <1>6 DEF Next

LEMMA ReversibleComesBack ==
    PayloadInv /\ KnownInv /\ MaskedInv /\ TextsAreWords /\ TextsAreSpelled => MaskingIsReversible
<1> SUFFICES ASSUME PayloadInv, KnownInv, MaskedInv, TextsAreWords, TextsAreSpelled,
                    NEW p \in DOMAIN sent, \A l \in EntriesOf(p) : IsReversible(l),
                    IsLegible(sent[p])
             PROVE  RestoreText(Spelled(sent[p])) = Spelled(payload[p])
    BY DEF MaskingIsReversible, EntriesOf
<1>1. sent # Nothing
    BY DEF Nothing
<1>2. \E F, B : BackTo(F, B, sent[p], payload[p])
    <2>1. CASE given.shadow
        <3>1. sent = payload
            BY <1>1, <2>1 DEF MaskedInv
        <3>2. PICK V : V = Range(payload[p])
            OBVIOUS
        <3>3. PICK F : F = [c \in V |-> Back(c)]
            OBVIOUS
        <3>4. payload[p] \in Seq(V) /\ V \subseteq CellsOf(given) /\ \A c \in V : c.as = "word"
            BY <3>1, <3>2, WordsAreKept
        <3>5. \A c \in V : F[c] = Back(c) /\ F[c] = <<c>> /\ c.as # "surrogate"
            BY <3>3, <3>4 DEF Back
        <3>6. Each(F, payload[p]) = payload[p]
            BY <3>4, <3>5, WordsStay
        <3>7. Maps(F, V, CellsOf(given))
            <4> SUFFICES ASSUME NEW c \in V PROVE F[c] \in Seq(CellsOf(given))
                BY DEF Maps
            <4>1. c \in CellsOf(given) /\ F[c] = <<c>>
                BY <3>4, <3>5
            <4> QED BY ONLY <4>1
        <3>8. BackTo(F, V, payload[p], payload[p])
            BY <3>4, <3>5, <3>6, <3>7 DEF BackTo
        <3> QED BY <3>1, <3>8
    <2>2. CASE ~given.shadow
        <3>1. AsMasked /\ Acts
            BY <1>1, <2>2 DEF MaskedInv
        <3>2. p \in DOMAIN payload /\ sent[p] = MaskText(p, known)
            BY <3>1 DEF AsMasked
        <3> QED BY <3>1, <3>2, SentComesBack
    <2> QED BY <2>1, <2>2
<1>3. PICK F, B : BackTo(F, B, sent[p], payload[p])
    BY <1>2
<1> QED BY <1>3, BackIsRestored

\* For all texts, findings, decisions, hashes and spellings: replacing one surrogate
\* after another in the characters that were sent, the longest first, gives the
\* characters of the client, where every replacement is reversible and the text can be
\* read in one way, in every turn of a conversation, when what a client writes is no
\* surrogate (masking/engine.py:33-69, consistency.py:24, restore.py:47).
THEOREM RestoreUndoesMask ==
    TextsAreWords /\ TextsAreSpelled => (Spec => []MaskingIsReversible)
<1> SUFFICES ASSUME TextsAreWords, TextsAreSpelled PROVE Spec => []MaskingIsReversible
    OBVIOUS
<1> QED BY InvInit, InvNext, KnownInit, KnownNext, MaskedInit, MaskedNext, ReversibleComesBack,
           PTL DEF Spec

-----------------------------------------------------------------------------
(* The powers of ten. *)

LEMMA TenRecurs ==
    /\ Ten \in [0..MaxDigits -> Nat]
    /\ Ten[0] = 1
    /\ \A k \in 0..MaxDigits : k # 0 => Ten[k] = 10 * Ten[k - 1]
<1> DEFINE D == 0..MaxDigits
           size == [k \in D |-> k]
           Step(t, k) == IF k = 0 THEN 1 ELSE 10 * t[k - 1]
           body == [p \in [D -> Nat] \X D |-> Step(p[1], p[2])]
<1> USE MaxDigitsAssumption
<1>1. ASSUME NEW t \in [D -> Nat], NEW k \in D PROVE Step(t, k) \in Nat
    <2>1. k # 0 => t[k - 1] \in Nat
        OBVIOUS
    <2> QED BY <2>1
<1>2. \A t \in [D -> Nat] : \A k \in D : body[<<t, k>>] = Step(t, k)
    OBVIOUS
<1>3. Falls(D, Nat, size, MaxDigits + 1, body)
    <2>1. size \in [D -> Nat] /\ \A k \in D : size[k] < MaxDigits + 1
        OBVIOUS
    <2>2. body \in [[D -> Nat] \X D -> Nat]
        BY <1>1
    <2>3. ASSUME NEW g \in [D -> Nat], NEW h \in [D -> Nat], NEW k \in D,
                 \A j \in D : size[j] < size[k] => g[j] = h[j]
          PROVE  body[<<g, k>>] = body[<<h, k>>]
        <3>1. k # 0 => g[k - 1] = h[k - 1]
            BY <2>3
        <3> QED BY <1>2, <3>1
    <2>4. \A g, h \in [D -> Nat] : \A k \in D :
             (\A j \in D : size[j] < size[k] => g[j] = h[j])
                 => body[<<g, k>>] = body[<<h, k>>]
        <3> HIDE DEF D, size, body
        <3> QED BY <2>3
    <2>5. MaxDigits + 1 \in Nat
        OBVIOUS
    <2> HIDE DEF D, size, body
    <2> QED BY ONLY <2>1, <2>2, <2>4, <2>5 DEF Falls
<1>4. Ten = [k \in D |-> Step(Ten, k)]
    <2>1. IsDefined(D, Nat, body)
        <3> HIDE DEF D, size, body
        <3> QED BY <1>3, RecursiveFunction
    <2>2. PICK t \in [D -> Nat] : \A k \in D : t[k] = body[<<t, k>>]
        BY <2>1 DEF IsDefined
    <2>3. t = [k \in D |-> Step(t, k)]
        <3>1. \A k \in D : t[k] = Step(t, k)
            BY <1>2, <2>2
        <3> HIDE DEF D, Step
        <3> QED BY <3>1
    <2> QED BY <2>3 DEF Ten
<1>5. \A k \in D : Ten[k] = Step(Ten, k)
    <2> HIDE DEF D, Step
    <2> QED BY <1>4
<1>6. \A k \in D : Ten[k] \in Nat
    <2> DEFINE S == {n \in Nat : n \in D => Ten[n] \in Nat}
    <2>1. 0 \in S
        BY <1>5
    <2>2. ASSUME NEW n \in Nat, n \in S PROVE n + 1 \in S
        <3>1. n + 1 \in D => Ten[n] \in Nat /\ Ten[n + 1] = 10 * Ten[n]
            BY <1>5, <2>2
        <3> QED BY <3>1
    <2>3. Nat \subseteq S
        <3> HIDE DEF S
        <3> QED BY <2>1, <2>2, SetInduction
    <2> QED BY <2>3
<1>7. DOMAIN Ten = D
    <2> HIDE DEF D, Step
    <2> QED BY <1>4
<1> QED BY <1>4, <1>5, <1>6, <1>7

LEMMA TenFacts ==
    ASSUME NEW j \in 0..MaxDigits, NEW k \in 0..MaxDigits, j <= k
    PROVE  /\ Ten[j] \in Nat /\ Ten[j] >= 1 /\ Ten[k] \in Nat
           /\ Ten[j] <= Ten[k]
           /\ j < k => 10 * Ten[j] <= Ten[k]
<1> DEFINE Rises(n) == /\ Ten[n] >= 1
                       /\ \A i \in 0..n : /\ Ten[i] <= Ten[n]
                                          /\ i < n => 10 * Ten[i] <= Ten[n]
           S == {n \in Nat : n \in 0..MaxDigits => Rises(n)}
<1> USE MaxDigitsAssumption
<1>1. 0 \in S
    BY TenRecurs
<1>2. ASSUME NEW n \in Nat, n \in S PROVE n + 1 \in S
    <2> SUFFICES ASSUME n + 1 \in 0..MaxDigits
                 PROVE  /\ Ten[n + 1] >= 1
                        /\ \A i \in 0..(n + 1) : /\ Ten[i] <= Ten[n + 1]
                                                 /\ i < n + 1 => 10 * Ten[i] <= Ten[n + 1]
        OBVIOUS
    <2>1. Ten[n + 1] = 10 * Ten[n] /\ Ten[n] \in Nat /\ Ten[n + 1] \in Nat
        BY TenRecurs
    <2>2. Ten[n] >= 1 /\ \A i \in 0..n : Ten[i] <= Ten[n]
        <3>1. n \in 0..MaxDigits
            OBVIOUS
        <3>2. Rises(n)
            <4> HIDE DEF Rises
            <4> QED BY <1>2, <3>1
        <3> QED BY <3>2
    <2>3. \A i \in 0..n : Ten[i] \in Nat
        BY TenRecurs
    <2>4. ASSUME NEW i \in 0..(n + 1)
          PROVE  Ten[i] <= Ten[n + 1] /\ (i < n + 1 => 10 * Ten[i] <= Ten[n + 1])
        <3>1. CASE i = n + 1
            BY <2>1, <3>1
        <3>2. CASE i # n + 1
            <4>1. i \in 0..n /\ Ten[i] <= Ten[n] /\ Ten[i] \in Nat
                BY <2>2, <2>3, <3>2
            <4> HIDE DEF S
            <4> QED BY <2>1, <4>1
        <3> QED BY <3>1, <3>2
    <2> HIDE DEF S
    <2> QED BY <2>1, <2>2, <2>4
<1>3. Nat \subseteq S
    <2> HIDE DEF S
    <2> QED BY <1>1, <1>2, SetInduction
<1>4. Rises(j) /\ Rises(k)
    <2> HIDE DEF Rises
    <2> QED BY <1>3
<1>5. j \in 0..k
    OBVIOUS
<1> QED BY <1>4, <1>5, TenRecurs

-----------------------------------------------------------------------------
(* A number and its bucket. *)

LEMMA ExponentFacts ==
    ASSUME NEW n \in Int, NEW p \in 0..MaxDigits
    PROVE  /\ Exponent(n, p) \in 0..(MaxDigits - p)
           /\ Exponent(n, p) # 0 => Ten[Exponent(n, p) + p] <= Magnitude(n)
           /\ \A k \in 0..(MaxDigits - p) :
                 Ten[k + p] <= Magnitude(n) => k <= Exponent(n, p)
<1> DEFINE T == {0} \cup {e \in 0..(MaxDigits - p) : Ten[e + p] <= Magnitude(n)}
<1>1. MaxDigits - p \in Nat
    BY MaxDigitsAssumption
<1>2. T \subseteq 0..(MaxDigits - p) /\ T # {}
    BY <1>1
<1>3. Max(T) \in T /\ \A k \in T : Max(T) >= k
    <2> HIDE DEF T
    <2>1. \E x \in T : \A y \in T : x >= y
        BY <1>1, <1>2, GreatestOf
    <2> QED BY <2>1 DEF Max
<1>4. Exponent(n, p) = Max(T)
    BY DEF Exponent
<1>5. PICK e : e = Max(T)
    OBVIOUS
<1>6. e \in T /\ \A k \in T : e >= k
    BY <1>3, <1>5
<1>7. e \in 0..(MaxDigits - p) /\ (e # 0 => Ten[e + p] <= Magnitude(n))
    BY <1>2, <1>6
<1>8. \A k \in 0..(MaxDigits - p) : Ten[k + p] <= Magnitude(n) => k <= e
    BY <1>2, <1>6
<1> QED BY <1>4, <1>5, <1>7, <1>8

\* What lies in the bucket of a number has its exponent.
LEMMA SameExponent ==
    ASSUME NEW n \in Int, NEW s \in Int, NEW p \in 0..MaxDigits, NEW b \in Nat,
           b = Ten[Exponent(n, p) + p],
           b <= Magnitude(s), Magnitude(s) < 10 * b
    PROVE  Exponent(s, p) = Exponent(n, p) /\ ~BelowOne(s, p)
<1>1. PICK e \in 0..(MaxDigits - p) : e = Exponent(n, p)
    BY ExponentFacts
<1>2. PICK f \in 0..(MaxDigits - p) : f = Exponent(s, p)
    BY ExponentFacts
<1>3. PICK m \in Nat : m = Magnitude(s)
    BY DEF Magnitude
<1>4. MaxDigits - p \in Nat /\ e + p \in 0..MaxDigits /\ f + p \in 0..MaxDigits
    BY MaxDigitsAssumption
<1>5. e <= f
    <2>1. Ten[e + p] <= Magnitude(s)
        BY <1>1
    <2> QED BY <1>2, <2>1, ExponentFacts
<1>6. f <= e
    <2> SUFFICES ASSUME ~(f <= e) PROVE FALSE
        OBVIOUS
    <2>1. Ten[f + p] <= m
        <3>1. f # 0
            OBVIOUS
        <3> QED BY <1>2, <1>3, <3>1, ExponentFacts
    <2>2. e + p <= f + p /\ e + p < f + p
        BY <1>4
    <2>3. 10 * b <= Ten[f + p] /\ Ten[f + p] \in Nat
        BY <1>1, <1>4, <2>2, TenFacts
    <2>4. m < 10 * b
        BY <1>3
    <2> QED BY ONLY <1>3, <2>1, <2>3, <2>4, b \in Nat
<1>7. e = f
    BY ONLY <1>5, <1>6, e \in 0..(MaxDigits - p), f \in 0..(MaxDigits - p), <1>4, p \in 0..MaxDigits
<1>8. ~BelowOne(s, p)
    <2>1. p <= e + p
        BY <1>4
    <2>2. Ten[p] <= b /\ Ten[p] \in Nat
        BY <1>1, <1>4, <2>1, TenFacts
    <2>3. b <= m
        BY <1>3
    <2>4. ~(m < Ten[p])
        BY ONLY <1>3, <2>2, <2>3, b \in Nat
    <2> QED BY <1>3, <2>4 DEF BelowOne
<1> QED BY <1>1, <1>2, <1>7, <1>8

\* n hundredths lie between two whole numbers.
Between(a, n, c) == a \in Int /\ n \in Int /\ c \in Int /\ 100 * a <= n /\ n <= 100 * c

\* So does what they are rounded to.
LEMMA RoundedBetween ==
    ASSUME NEW n, NEW a, NEW c, Between(a, n, c)
    PROVE  RoundedPercent(n) \in Int /\ a <= RoundedPercent(n) /\ RoundedPercent(n) <= c
<1> USE DEF Between
<1>1. Magnitude(n) \in Nat
    BY DEF Magnitude
<1>2. PICK q \in Nat, r \in 0..99 : /\ q = Magnitude(n) \div 100 /\ r = Magnitude(n) % 100
                                    /\ Magnitude(n) = 100 * q + r
    <2> DEFINE m == Magnitude(n)
    <2>1. m \div 100 \in Nat /\ m % 100 \in 0..99 /\ m = 100 * (m \div 100) + (m % 100)
        <3>1. m \in Nat
            BY <1>1
        <3> HIDE DEF m
        <3> QED BY <3>1
    <2> QED BY <2>1
<1>3. \/ RoundedPercent(n) = IF n < 0 THEN 0 - q ELSE q
      \/ r # 0 /\ RoundedPercent(n) = IF n < 0 THEN 0 - (q + 1) ELSE q + 1
    BY <1>2 DEF RoundedPercent
<1>4. n < 0 => 0 - n = 100 * q + r
    BY <1>2 DEF Magnitude
<1>5. ~(n < 0) => n = 100 * q + r
    BY <1>2 DEF Magnitude
<1> QED BY <1>3, <1>4, <1>5

\* The smaller of two, the larger of two.
LEMMA MinOfTwo ==
    ASSUME NEW a \in Int, NEW b \in Int
    PROVE  Min({a, b}) = IF a <= b THEN a ELSE b
<1>1. \E x \in {a, b} : \A y \in {a, b} : x <= y
    <2>1. CASE a <= b
        BY <2>1
    <2>2. CASE b <= a
        BY <2>2
    <2> QED BY <2>1, <2>2
<1>2. Min({a, b}) \in {a, b} /\ \A y \in {a, b} : Min({a, b}) <= y
    BY <1>1 DEF Min
<1> QED BY <1>2

LEMMA LargerOfTwo ==
    ASSUME NEW a \in Int, NEW b \in Int
    PROVE  Max({a, b}) = IF a >= b THEN a ELSE b
<1>1. \E x \in {a, b} : \A y \in {a, b} : x >= y
    <2>1. CASE a >= b
        BY <2>1
    <2>2. CASE b >= a
        BY <2>2
    <2> QED BY <2>1, <2>2
<1>2. Max({a, b}) \in {a, b} /\ \A y \in {a, b} : Max({a, b}) >= y
    BY <1>1 DEF Max
<1> QED BY <1>2

\* What is clamped stays inside both bounds.
LEMMA ClampedBetween ==
    ASSUME NEW r \in Int, NEW lo \in Int, NEW hi \in Int, lo <= hi
    PROVE  \E s \in lo..hi : s = Min({Max({r, lo}), hi})
<1>1. PICK m \in Int : m = Max({r, lo}) /\ lo <= m
    BY LargerOfTwo
<1> QED BY <1>1, MinOfTwo

\* A number stands for a number of its sign, its digits and its precision.
LEMMA NumberIsShaped ==
    ASSUME NEW v \in Int \X (0..MaxDigits), NEW h, h.delta \in -9..9
    PROVE  NumberIsKept(v, Number(v, h))
<1> PICK n \in Int, p \in 0..MaxDigits : n = v[1] /\ p = v[2]
    OBVIOUS
<1> PICK d \in Int : d = h.delta
    OBVIOUS
<1> PICK r \in Int : r = n * (100 + d)
    OBVIOUS
<1> PICK e \in 0..(MaxDigits - p) : e = Exponent(n, p)
    BY ExponentFacts
<1> PICK b \in Nat : b = Ten[e + p] /\ b >= 1
    <2>1. e + p \in 0..MaxDigits
        BY MaxDigitsAssumption
    <2> QED BY <2>1, TenFacts
<1>1. CASE n = 0
    <2>1. r = 0
        BY <1>1
    <2>2. Number(v, h) = <<RoundedPercent(0), p>>
        BY <1>1, <2>1 DEF Number
    <2>3. Between(0, 0, 0)
        BY DEF Between
    <2>4. RoundedPercent(0) \in Int /\ 0 <= RoundedPercent(0) /\ RoundedPercent(0) <= 0
        BY ONLY <2>3, RoundedBetween
    <2>5. RoundedPercent(0) = 0
        BY ONLY <2>4
    <2>6. BelowOne(0, p)
        <3>1. Ten[p] \in Nat /\ Ten[p] >= 1
            BY TenFacts
        <3> QED BY <3>1 DEF BelowOne, Magnitude
    <2> QED BY <1>1, <2>2, <2>5, <2>6 DEF NumberIsKept
<1>2. CASE n # 0
    <2> PICK lower \in Int, upper \in Int :
           /\ lower = (IF n > 0 THEN b ELSE 0 - 10 * b)
           /\ upper = (IF n > 0 THEN 10 * b ELSE 0 - b)
        OBVIOUS
    <2> PICK lo \in Int, hi \in Int :
           lo = 100 * (lower + 1) /\ hi = 100 * (upper - 1) /\ lo <= hi
        OBVIOUS
    <2>1. PICK c \in lo..hi : c = Clamped(n, p, r)
        <3>1. Clamped(n, p, r) = Min({Max({r, lo}), hi})
            BY DEF Clamped
        <3>2. lo \in Int /\ hi \in Int /\ lo <= hi /\ r \in Int
            OBVIOUS
        <3>3. \E c \in lo..hi : c = Min({Max({r, lo}), hi})
            BY ONLY <3>2, ClampedBetween
        <3> QED BY <3>1, <3>3
    <2>2. PICK s \in Int : s = RoundedPercent(c) /\ lower + 1 <= s /\ s <= upper - 1
        <3>1. Between(lower + 1, c, upper - 1)
            BY <2>1 DEF Between
        <3> QED BY ONLY <3>1, RoundedBetween
    <2>3. Number(v, h) = <<s, p>>
        BY <1>2, <2>1, <2>2 DEF Number
    <2>4. (s > 0) = (n > 0) /\ (s < 0) = (n < 0)
        BY <1>2, <2>2
    <2>5. b <= Magnitude(s) /\ Magnitude(s) < 10 * b
        BY <1>2, <2>2 DEF Magnitude
    <2>6. Exponent(s, p) = Exponent(n, p) /\ ~BelowOne(s, p)
        <3>1. b = Ten[Exponent(n, p) + p]
            OBVIOUS
        <3> QED BY ONLY n \in Int, s \in Int, p \in 0..MaxDigits, b \in Nat, <2>5, <3>1, SameExponent
    <2> QED BY <2>3, <2>4, <2>6 DEF NumberIsKept
<1> QED BY <1>1, <1>2

-----------------------------------------------------------------------------
(* The check digit of a card. *)

LEMMA DoubledFacts ==
    ASSUME NEW d \in 0..9, NEW place \in Nat
    PROVE  Doubled(d, place) \in Int /\ (place = 0 => Doubled(d, place) = d)
<1>1. place % 2 \in {0, 1} /\ (place = 0 => place % 2 = 0)
    OBVIOUS
<1>2. CASE place % 2 = 0
    BY <1>2 DEF Doubled
<1>3. CASE place % 2 = 1
    BY <1>1, <1>3 DEF Doubled
<1> QED BY <1>1, <1>2, <1>3

\* The last digit is added as it is.
LEMMA LuhnLast ==
    ASSUME NEW body \in Seq(0..9), NEW d \in 0..9
    PROVE  /\ LuhnSum(Append(body, 0)) \in Int
           /\ LuhnSum(Append(body, d)) = d + LuhnSum(Append(body, 0))
<1> DEFINE n == Len(body) + 1
           F(c) == [i \in 1..n |-> Doubled(Append(body, c)[i], n - i)]
           rest == (1..n) \ {n}
<1>1. n \in Nat /\ n >= 1 /\ n - n = 0
    OBVIOUS
<1>2. ASSUME NEW c \in 0..9
      PROVE  /\ LuhnSum(Append(body, c)) = SumFunctionOnSet(F(c), 1..n)
             /\ Counts(F(c), 1..n) /\ Counts(F(c), rest) /\ F(c)[n] = c
             /\ \A i \in rest : F(c)[i] = Doubled(body[i], n - i)
    <2>1. /\ DOMAIN Append(body, c) = 1..n /\ Len(Append(body, c)) = n
          /\ Append(body, c)[n] = c
          /\ \A i \in 1..n : Append(body, c)[i] \in 0..9
          /\ \A i \in rest : Append(body, c)[i] = body[i]
        OBVIOUS
    <2>2. LuhnSum(Append(body, c)) = SumFunctionOnSet(F(c), 1..n)
        BY <2>1 DEF LuhnSum, SumFunction
    <2>3. \A i \in 1..n : F(c)[i] = Doubled(Append(body, c)[i], n - i)
        OBVIOUS
    <2> HIDE DEF F
    <2>4. \A i \in 1..n : F(c)[i] \in Int
        <3> SUFFICES ASSUME NEW i \in 1..n PROVE F(c)[i] \in Int
            OBVIOUS
        <3>1. n - i \in Nat /\ Append(body, c)[i] \in 0..9
            BY <2>1
        <3> QED BY <2>3, <3>1, DoubledFacts
    <2>5. F(c)[n] = c
        <3>1. n \in 1..n
            OBVIOUS
        <3>2. F(c)[n] = Doubled(c, n - n)
            BY <2>1, <2>3, <3>1
        <3>3. F(c)[n] = Doubled(c, 0)
            BY ONLY <1>1, <3>2
        <3> HIDE DEF n
        <3> QED BY <3>3, DoubledFacts
    <2>6. IsFiniteSet(1..n) /\ rest \in SUBSET (1..n)
        BY <1>1, FS_Interval
    <2>7. Counts(F(c), 1..n)
        BY <2>4, <2>6 DEF Counts
    <2>8. Counts(F(c), rest)
        <3> HIDE DEF n, rest
        <3> QED BY <2>6, <2>7, SubsetsCount
    <2>9. \A i \in rest : F(c)[i] = Doubled(body[i], n - i)
        BY <2>1, <2>3
    <2> QED BY <2>2, <2>5, <2>7, <2>8, <2>9
<1>3. n \in 1..n /\ 0 \in 0..9
    OBVIOUS
<1> HIDE DEF F
<1>4. ASSUME NEW c \in 0..9
      PROVE  /\ SumFunctionOnSet(F(c), 1..n) = c + SumFunctionOnSet(F(c), rest)
             /\ SumFunctionOnSet(F(c), rest) \in Int
    <2> HIDE DEF n
    <2>1. Counts(F(c), 1..n) /\ Counts(F(c), rest) /\ F(c)[n] = c
        BY <1>2
    <2> QED BY <1>3, <2>1, SumTakesAny, SumIsInt
<1>5. SumFunctionOnSet(F(d), rest) = SumFunctionOnSet(F(0), rest)
    <2> HIDE DEF n, rest
    <2>1. Counts(F(d), rest) /\ \A i \in rest : F(d)[i] = F(0)[i]
        BY <1>2, <1>3
    <2> QED BY <2>1, SumOfSame
<1> HIDE DEF n, rest
<1>6. LuhnSum(Append(body, 0)) = 0 + SumFunctionOnSet(F(0), rest)
    BY <1>2, <1>3, <1>4
<1>7. LuhnSum(Append(body, d)) = d + SumFunctionOnSet(F(0), rest)
    BY <1>2, <1>4, <1>5
<1>8. SumFunctionOnSet(F(0), rest) \in Int
    BY <1>3, <1>4
<1> QED BY ONLY <1>6, <1>7, <1>8

LEMMA CheckDigitFits ==
    ASSUME NEW body \in Seq(0..9)
    PROVE  /\ CheckDigit(body) \in 0..9
           /\ LuhnSum(Append(body, CheckDigit(body))) % 10 = 0
<1>1. PICK s \in Int : s = LuhnSum(Append(body, 0))
    <2>1. 0 \in 0..9
        OBVIOUS
    <2> QED BY <2>1, LuhnLast
<1>2. PICK d \in 0..9 : d = CheckDigit(body) /\ (d + s) % 10 = 0
    <2>1. (0 - s) % 10 \in 0..9 /\ (((0 - s) % 10) + s) % 10 = 0
        OBVIOUS
    <2> QED BY <1>1, <2>1 DEF CheckDigit
<1>3. LuhnSum(Append(body, d)) = d + s
    BY <1>1, LuhnLast
<1> QED BY <1>2, <1>3

\* What a hash gives: numbers, and as many as are asked for.
Draws(h) == h.draws \in Seq(Nat) \ {<<>>}

LEMMA DrawFacts ==
    ASSUME NEW h, Draws(h), NEW i \in Nat
    PROVE  Draw(h, i) \in Nat
<1> PICK draws \in Seq(Nat) : draws = h.draws /\ draws # <<>>
    BY DEF Draws
<1> PICK m \in Nat : m = Len(draws) /\ m > 0
    OBVIOUS
<1>1. i % m \in 0..(m - 1)
    BY ONLY i \in Int, m \in Nat, m > 0
<1>2. PICK r \in 0..(m - 1) : r = i % m
    BY <1>1
<1>3. 1 + r \in 1..m
    OBVIOUS
<1>4. draws[1 + r] \in Nat
    BY <1>3
<1> QED BY <1>2, <1>4 DEF Draw

LEMMA DrawnDigit ==
    ASSUME NEW h, Draws(h), NEW i \in Nat
    PROVE  Draw(h, i) % 10 \in 0..9 /\ Draw(h, i) % 26 \in 0..25
<1>1. PICK d \in Nat : d = Draw(h, i)
    BY DrawFacts
<1>2. d % 10 \in 0..9 /\ d % 26 \in 0..25
    OBVIOUS
<1> QED BY <1>1, <1>2

LEMMA DigitsFacts ==
    ASSUME NEW h, Draws(h), NEW n \in Nat
    PROVE  Digits(h, n) \in Seq(0..9) /\ Len(Digits(h, n)) = n
<1>1. \A i \in 1..n : Draw(h, i) % 10 \in 0..9
    BY DrawnDigit
<1> QED BY <1>1 DEF Digits

LEMMA CardIsShaped ==
    ASSUME NEW v \in Seq(0..9), Len(v) \in 13..19, NEW h, Draws(h)
    PROVE  CardIsKept(v, Card(v, h))
<1> PICK n \in 13..19 : n = Len(v)
    OBVIOUS
<1>1. PICK prefix \in Seq(0..9) :
          /\ prefix = CardPrefix(v) /\ Len(prefix) = 6
          /\ v[1] \in {3, 4, 5} => prefix[1] = v[1]
    <2>1. CASE v[1] = 3
        <3>1. CardPrefix(v) = <<3, 7, 8, 2, 8, 2>>
            BY <2>1 DEF CardPrefix
        <3>2. <<3, 7, 8, 2, 8, 2>> \in Seq(0..9) /\ Len(<<3, 7, 8, 2, 8, 2>>) = 6
            OBVIOUS
        <3>3. <<3, 7, 8, 2, 8, 2>>[1] = 3
            OBVIOUS
        <3> QED BY <2>1, <3>1, <3>2, <3>3
    <2>2. CASE v[1] = 5
        <3>1. CardPrefix(v) = <<5, 5, 5, 5, 5, 5>>
            BY <2>2 DEF CardPrefix
        <3>2. <<5, 5, 5, 5, 5, 5>> \in Seq(0..9) /\ Len(<<5, 5, 5, 5, 5, 5>>) = 6
            OBVIOUS
        <3>3. <<5, 5, 5, 5, 5, 5>>[1] = 5
            OBVIOUS
        <3> QED BY <2>2, <3>1, <3>2, <3>3
    <2>3. CASE v[1] \notin {3, 5}
        <3>1. CardPrefix(v) = <<4, 1, 1, 1, 1, 1>>
            BY <2>3 DEF CardPrefix
        <3>2. <<4, 1, 1, 1, 1, 1>> \in Seq(0..9) /\ Len(<<4, 1, 1, 1, 1, 1>>) = 6
            OBVIOUS
        <3>3. <<4, 1, 1, 1, 1, 1>>[1] = 4
            OBVIOUS
        <3> QED BY <2>3, <3>1, <3>2, <3>3
    <2> QED BY <2>1, <2>2, <2>3
<1>2. Max({n - 6 - 1, 1}) = n - 7
    <2>1. n - 6 - 1 \in Int /\ 1 \in Int /\ n - 6 - 1 >= 1 /\ n - 6 - 1 = n - 7
        OBVIOUS
    <2>2. Max({n - 6 - 1, 1}) = n - 6 - 1
        BY ONLY <2>1, LargerOfTwo
    <2> QED BY <2>1, <2>2
<1>3. PICK drawn \in Seq(0..9) : drawn = Digits(h, n - 7) /\ Len(drawn) = n - 7
    <2>1. n - 7 \in Nat
        OBVIOUS
    <2> QED BY <2>1, DigitsFacts
<1>4. PICK body \in Seq(0..9) : /\ body = prefix \o drawn
                                /\ Len(body) = n - 1 /\ body[1] = prefix[1]
    <2>1. /\ prefix \o drawn \in Seq(0..9)
          /\ Len(prefix \o drawn) = n - 1 /\ (prefix \o drawn)[1] = prefix[1]
        <3>1. /\ prefix \in Seq(0..9) /\ drawn \in Seq(0..9) /\ n \in Int
              /\ Len(prefix) = 6 /\ Len(drawn) = n - 7
            BY <1>1, <1>3
        <3>2. PICK A : A = 0..9
            OBVIOUS
        <3>3. prefix \in Seq(A) /\ drawn \in Seq(A)
            BY ONLY <3>1, <3>2
        <3>4. /\ prefix \o drawn \in Seq(A)
              /\ Len(prefix \o drawn) = Len(prefix) + Len(drawn)
              /\ \A i \in 1..Len(prefix) : (prefix \o drawn)[i] = prefix[i]
            BY ONLY <3>3, ConcatFacts
        <3>5. 1 \in 1..Len(prefix) /\ Len(prefix) + Len(drawn) = n - 1
            BY ONLY <3>1
        <3> QED BY ONLY <3>2, <3>4, <3>5
    <2> QED BY <2>1
<1>5. PICK check \in 0..9 : /\ check = CheckDigit(body)
                            /\ LuhnSum(Append(body, check)) % 10 = 0
    BY CheckDigitFits
<1>6. PICK s \in Seq(0..9) : s = Append(body, check) /\ Len(s) = n /\ s[1] = body[1]
    <2>1. /\ Append(body, check) \in Seq(0..9)
          /\ Len(Append(body, check)) = n /\ Append(body, check)[1] = body[1]
        <3>1. body \in Seq(0..9) /\ check \in 0..9 /\ n \in 13..19 /\ Len(body) = n - 1
            BY <1>4
        <3> QED BY ONLY <3>1
    <2> QED BY <2>1
<1>7. Card(v, h) = SubSeq(s, 1, n)
    BY <1>1, <1>2, <1>3, <1>4, <1>5, <1>6 DEF Card
<1>8. SubSeq(s, 1, n) = s
    BY <1>6
<1>9. Len(s) = Len(v) /\ LuhnValid(s)
    BY <1>5, <1>6 DEF LuhnValid
<1>10. v[1] \in {3, 4, 5} => s[1] = v[1]
    BY <1>1, <1>4, <1>6
<1> QED BY <1>7, <1>8, <1>9, <1>10 DEF CardIsKept

\* A digit stands for a digit, a letter for a letter, and the rest for itself.
LEMMA IdentifierIsShaped ==
    ASSUME NEW v \in Seq(Nat), NEW h, Draws(h)
    PROVE  CharactersAreKept(v, Identifier(v, h))
<1> DEFINE s == Identifier(v, h)
<1>1. DOMAIN v = 1..Len(v) /\ Len(v) \in Nat
    OBVIOUS
<1>2. Len(s) = Len(v)
    BY <1>1 DEF Identifier
<1>3. ASSUME NEW i \in DOMAIN v PROVE CharacterIsKept(v[i], s[i])
    <2>1. Draw(h, i) % 10 \in 0..9 /\ Draw(h, i) % 26 \in 0..25
        BY <1>1, DrawnDigit
    <2>2. PICK c : c = v[i]
        OBVIOUS
    <2>3. PICK d \in 0..9, e \in 0..25 : d = Draw(h, i) % 10 /\ e = Draw(h, i) % 26
        BY <2>1
    <2>4. s[i] = CASE c \in 0..9 -> d [] c \in Letters -> 10 + e [] OTHER -> c
        BY <2>2, <2>3 DEF Identifier
    <2>5. CASE c \in 0..9
        <3>1. c \notin Letters
            BY <2>5 DEF Letters
        <3>2. s[i] = d
            BY <2>4, <2>5, <3>1
        <3> QED BY <2>2, <2>5, <3>2 DEF CharacterIsKept
    <2>6. CASE c \in Letters
        <3>1. c \notin 0..9 /\ 10 + e \in Letters
            BY <2>6 DEF Letters
        <3>2. s[i] = 10 + e
            BY <2>4, <2>6, <3>1
        <3> QED BY <2>2, <2>6, <3>1, <3>2 DEF CharacterIsKept
    <2>7. CASE c \notin 0..9 \cup Letters
        <3>1. s[i] = c
            BY <2>4, <2>7
        <3> QED BY <2>2, <2>7, <3>1 DEF CharacterIsKept
    <2> QED BY <2>5, <2>6, <2>7
<1> QED BY <1>2, <1>3, Zenon DEF CharactersAreKept

LEMMA PhoneIsShaped ==
    ASSUME NEW v \in Seq(0..9), NEW h, Draws(h)
    PROVE  CharactersAreKept(v, Phone(v, h))
<1> PICK n \in Nat : n = Len(v)
    OBVIOUS
<1>1. CASE n < 7
    <2>1. Phone(v, h) = Identifier(v, h)
        BY <1>1 DEF Phone
    <2>2. v \in Seq(Nat)
        OBVIOUS
    <2> QED BY <2>1, <2>2, IdentifierIsShaped
<1>2. CASE ~(n < 7)
    <2>1. PICK a \in 0..8, b \in 0..9, c \in 0..9 :
              a = Draw(h, 1) % 9 /\ b = Draw(h, 2) % 10 /\ c = Draw(h, 3) % 10
        <3>1. \A i \in {1, 2, 3} : Draw(h, i) \in Nat
            BY DrawFacts
        <3>2. \A d \in Nat : d % 9 \in 0..8 /\ d % 10 \in 0..9
            OBVIOUS
        <3> QED BY <3>1, <3>2
    <2>2. PICK number \in [1..8 -> 0..9] :
              Phone(v, h) = [i \in 1..n |-> IF n - i < 8 THEN number[8 - (n - i)] ELSE 0]
        <3>1. <<5, 5, 5, 0, 1, 1 + a, b, c>> \in [1..8 -> 0..9]
            <4>1. 1 + a \in 0..9
                OBVIOUS
            <4> QED BY <4>1
        <3>2. Phone(v, h) = [i \in 1..n |-> IF n - i < 8
                                THEN <<5, 5, 5, 0, 1, 1 + a, b, c>>[8 - (n - i)] ELSE 0]
            BY <1>2, <2>1 DEF Phone
        <3> QED BY <3>1, <3>2
    <2>3. Len(Phone(v, h)) = n
        BY <2>2
    <2>4. ASSUME NEW i \in 1..n PROVE Phone(v, h)[i] \in 0..9 /\ v[i] \in 0..9
        <3>1. n - i < 8 => 8 - (n - i) \in 1..8
            OBVIOUS
        <3>2. Phone(v, h)[i] = IF n - i < 8 THEN number[8 - (n - i)] ELSE 0
            BY <2>2
        <3> QED BY <3>1, <3>2
    <2>5. DOMAIN v = 1..n
        OBVIOUS
    <2> QED BY <2>3, <2>4, <2>5 DEF CharactersAreKept, CharacterIsKept
<1> QED BY <1>1, <1>2

LEMMA PersonIsShaped ==
    ASSUME NEW v, NEW h, Len(v) \in 1..2
    PROVE  Len(Person(v, h)) = Len(v)
BY DEF Person

-----------------------------------------------------------------------------

\* What is generated for a value that is found keeps its shape.
LEMMA KnownIsShaped ==
    ASSUME FindsAreShaped, PayloadInv, KnownInv
    PROVE  ShapeIsKept
<1> SUFFICES ASSUME NEW o \in DOMAIN known, NEW v, v = Value(o), NEW s, s = known[o].v,
                    NEW type, type = known[o].type
             PROVE  /\ type \in Numbers => NumberIsKept(v, s)
                    /\ type = "CREDIT_CARD" => CardIsKept(v, s)
                    /\ type \in Identifiers \cup {"PHONE_NUMBER"} => CharactersAreKept(v, s)
                    /\ type \in Dates => s[2] = v[2]
                    /\ type \in Names /\ Len(v) \in 1..2 => Len(s) = Len(v)
                    /\ type = "ORGANIZATION" => s[2] = v[2]
    BY DEF ShapeIsKept
<1> PICK h, shift : h = given.hash[<<o, type>>] /\ shift = given.shift[scope_id]
    OBVIOUS
<1>1. s = Generate(type, v, h, shift) /\ <<o, type>> \in Found(given)
    BY DEF KnownInv, StandsFor
<1>2. Draws(h) /\ h.delta \in -9..9
    BY <1>1, GivensAssumption DEF PayloadInv, Draws
<1>3. /\ type \in Numbers => v \in Int \X (0..MaxDigits)
      /\ type = "CREDIT_CARD" => v \in Seq(0..9) /\ Len(v) \in 13..19
      /\ type = "PHONE_NUMBER" => v \in Seq(0..9)
      /\ type \in Identifiers => v \in Seq(Nat)
    BY <1>1 DEF FindsAreShaped, PayloadInv
<1> USE DEF Numbers, Identifiers, Names, Dates
<1>4. CASE type \in Numbers
    <2>1. s = Number(v, h)
        BY <1>1, <1>4 DEF Generate
    <2>2. NumberIsKept(v, s)
        BY <1>2, <1>3, <1>4, <2>1, NumberIsShaped
    <2> QED BY <1>4, <2>2
<1>5. CASE type = "CREDIT_CARD"
    <2>1. s = Card(v, h)
        BY <1>1, <1>5 DEF Generate
    <2>2. CardIsKept(v, s)
        BY <1>2, <1>3, <1>5, <2>1, CardIsShaped
    <2> QED BY <1>5, <2>2
<1>6. CASE type = "PHONE_NUMBER"
    <2>1. s = Phone(v, h)
        BY <1>1, <1>6 DEF Generate
    <2>2. CharactersAreKept(v, s)
        BY <1>2, <1>3, <1>6, <2>1, PhoneIsShaped
    <2> QED BY <1>6, <2>2
<1>7. CASE type \in Identifiers
    <2>1. s = Identifier(v, h)
        BY <1>1, <1>7 DEF Generate
    <2>2. CharactersAreKept(v, s)
        BY <1>2, <1>3, <1>7, <2>1, IdentifierIsShaped
    <2> QED BY <1>7, <2>2
<1>8. CASE type \in Names
    <2>1. s = Person(v, h)
        BY <1>1, <1>8 DEF Generate
    <2>2. Len(v) \in 1..2 => Len(s) = Len(v)
        BY <2>1, PersonIsShaped
    <2> QED BY <1>8, <2>2
<1>9. CASE type \in Dates
    <2>1. s = Date(v, shift)
        BY <1>1, <1>9 DEF Generate
    <2>2. s[2] = v[2]
        BY <2>1 DEF Date
    <2> QED BY <1>9, <2>2
<1>10. CASE type = "ORGANIZATION"
    <2>1. s = Organization(v, h)
        BY <1>1, <1>10 DEF Generate
    <2>2. s[2] = v[2]
        BY <2>1 DEF Organization
    <2> QED BY <1>10, <2>2
<1> QED BY <1>4, <1>5, <1>6, <1>7, <1>8, <1>9, <1>10

\* What ShapeIsKept says of a surrogate holds for every value of any length or amount,
\* and for anything a hash gives, as long as values that are found as such are read as
\* such (masking/surrogates.py:75-177).
THEOREM ShapeHolds == FindsAreShaped => (Spec => []ShapeIsKept)
<1> SUFFICES ASSUME FindsAreShaped PROVE Spec => []ShapeIsKept
    OBVIOUS
<1>1. PayloadInv /\ KnownInv => ShapeIsKept
    BY KnownIsShaped
<1> QED BY <1>1, InvInit, InvNext, KnownInit, KnownNext, PTL DEF Spec

=============================================================================
