------------------------------ MODULE Induction ------------------------------
(***************************************************************************)
(* Induction over numbers, said of sets, functions that are defined by     *)
(* recursion, and sequences: what the proofs about texts and listings need;*)
(* and what str.replace (module Substrings) does to a text.                *)
(***************************************************************************)
EXTENDS Functions, FiniteSets, Substrings, FiniteSetTheorems, WellFoundedInduction, TLAPS

LEMMA LeastOf ==
    ASSUME NEW T, T \subseteq Nat, T # {}
    PROVE  \E x \in T : \A y \in T : x <= y
<1>1. PICK x \in T : \A y \in T : ~(<<y, x>> \in OpToRel(<, Nat))
    BY NatLessThanWellFounded, WFMin
<1>2. \A y \in T : ~(y < x)
    BY <1>1 DEF OpToRel
<1> QED BY <1>2

LEMMA GreatestOf ==
    ASSUME NEW n \in Nat, NEW T, T \subseteq 0..n, T # {}
    PROVE  \E x \in T : \A y \in T : x >= y
<1> DEFINE U == {k \in 0..n : n - k \in T}
<1>1. PICK t \in T : TRUE
    OBVIOUS
<1>2. t \in 0..n /\ n - t \in 0..n /\ n - (n - t) = t
    OBVIOUS
<1>3. n - t \in U
    BY <1>2
<1>4. PICK k \in U : \A j \in U : k <= j
    <2>1. U \subseteq Nat /\ U # {}
        BY <1>3
    <2> HIDE DEF U
    <2> QED BY <2>1, LeastOf
<1>5. ASSUME NEW y \in T PROVE n - k >= y
    <2>1. n - y \in 0..n /\ n - (n - y) = y
        OBVIOUS
    <2>2. n - y \in U
        BY <2>1
    <2>3. k <= n - y /\ k \in 0..n /\ y \in 0..n
        BY <1>4, <2>2
    <2> QED BY ONLY <2>3, n \in Nat
<1>6. n - k \in T
    OBVIOUS
<1> QED BY <1>5, <1>6

\* Every number is in a set with 0 that counts on.
LEMMA SetInduction ==
    ASSUME NEW S, 0 \in S, \A n \in Nat : n \in S => n + 1 \in S
    PROVE  Nat \subseteq S
<1>1. SUFFICES ASSUME Nat \ S # {} PROVE FALSE
    OBVIOUS
<1>2. PICK m \in Nat \ S : \A n \in Nat \ S : m <= n
    BY <1>1, LeastOf
<1>3. m # 0 /\ m - 1 \in Nat /\ m - 1 < m
    BY <1>2
<1>4. m - 1 \in S
    BY <1>2, <1>3
<1>5. (m - 1) + 1 \in S
    BY <1>3, <1>4
<1> QED BY <1>2, <1>5

\* One of finitely many has the greatest rank.
LEMMA GreatestRank ==
    ASSUME NEW S, IsFiniteSet(S), S # {}, NEW f, \A x \in S : f[x] \in Nat
    PROVE  \E x \in S : \A y \in S : f[y] <= f[x]
<1> DEFINE Sized(n) == {T \in SUBSET S : T # {} /\ IsFiniteSet(T) /\ Cardinality(T) = n}
           N == {n \in Nat : \A T \in Sized(n) : \E x \in T : \A y \in T : f[y] <= f[x]}
<1>1. 0 \in N
    BY FS_EmptySet
<1>2. ASSUME NEW n \in Nat, n \in N PROVE n + 1 \in N
    <2> SUFFICES ASSUME NEW T \in Sized(n + 1) PROVE \E x \in T : \A y \in T : f[y] <= f[x]
        OBVIOUS
    <2>1. PICK x \in T : TRUE
        OBVIOUS
    <2>2. IsFiniteSet(T \ {x}) /\ Cardinality(T \ {x}) = n
        <3>1. IsFiniteSet(T) /\ Cardinality(T) = n + 1
            OBVIOUS
        <3>2. IsFiniteSet(T \ {x}) /\ Cardinality(T \ {x}) = Cardinality(T) - 1
            BY ONLY <2>1, <3>1, FS_RemoveElement
        <3>3. (n + 1) - 1 = n
            OBVIOUS
        <3> QED BY <3>1, <3>2, <3>3
    <2>3. CASE T \ {x} = {}
        <3>1. \A y \in T : y = x
            BY <2>3
        <3> QED BY <2>1, <3>1
    <2>4. CASE T \ {x} # {}
        <3>1. T \ {x} \in Sized(n)
            BY <2>2, <2>4
        <3>2. PICK z \in T \ {x} : \A y \in T \ {x} : f[y] <= f[z]
            BY <1>2, <3>1
        <3>3. \A y \in T : f[y] \in Nat
            OBVIOUS
        <3>4. CASE f[x] <= f[z]
            BY <3>2, <3>4
        <3>5. CASE ~(f[x] <= f[z])
            <4>1. \A y \in T : f[y] <= f[x]
                BY <2>1, <3>2, <3>3, <3>5
            <4> QED BY <2>1, <4>1
        <3> QED BY <3>4, <3>5
    <2> QED BY <2>3, <2>4
<1>3. Nat \subseteq N
    <2> HIDE DEF N
    <2> QED BY <1>1, <1>2, SetInduction
<1>4. Cardinality(S) \in Nat
    BY FS_CardinalityType
<1> QED BY <1>3, <1>4

\* From the end of a text to its beginning.
LEMMA Downward ==
    ASSUME NEW n \in Nat, NEW S,
           \A i \in 1..n : (\A j \in (i + 1)..n : j \in S) => i \in S
    PROVE  1..n \subseteq S
<1> DEFINE T == {k \in Nat : \A j \in 1..n : n - j < k => j \in S}
<1>1. 0 \in T
    OBVIOUS
<1>2. ASSUME NEW k \in Nat, k \in T PROVE k + 1 \in T
    <2>1. ASSUME NEW i \in 1..n, n - i < k + 1 PROVE i \in S
        <3>1. \A j \in (i + 1)..n : j \in 1..n /\ n - j < k
            BY <2>1
        <3> QED BY <1>2, <3>1
    <2> QED BY <2>1
<1>3. Nat \subseteq T
    <2> HIDE DEF T
    <2> QED BY <1>1, <1>2, SetInduction
<1>4. ASSUME NEW i \in 1..n PROVE i \in S
    <2>1. n \in T /\ n - i < n
        BY <1>3
    <2> QED BY <2>1
<1> QED BY <1>4

-----------------------------------------------------------------------------
(* A recursive function exists when its body, of the function and a place,  *)
(* reads it at smaller places alone.                                       *)

Falls(D, R, size, bound, body) ==
    /\ bound \in Nat
    /\ size \in [D -> Nat]
    /\ \A i \in D : size[i] < bound
    /\ body \in [[D -> R] \X D -> R]
    /\ \A g, h \in [D -> R] : \A i \in D :
          (\A j \in D : size[j] < size[i] => g[j] = h[j])
              => body[<<g, i>>] = body[<<h, i>>]

IsDefined(D, R, body) == \E f \in [D -> R] : \A i \in D : f[i] = body[<<f, i>>]

LEMMA RecursiveFunction ==
    ASSUME NEW D, NEW R, R # {}, NEW size, NEW bound, NEW body,
           Falls(D, R, size, bound, body)
    PROVE  IsDefined(D, R, body)
<1> DEFINE Up(f, n) == \A i \in D : size[i] < n => f[i] = body[<<f, i>>]
           S == {n \in Nat : \E f \in [D -> R] : Up(f, n)}
<1>1. 0 \in S
    <2>1. PICK r \in R : TRUE
        OBVIOUS
    <2> DEFINE f == [i \in D |-> r]
    <2>2. f \in [D -> R]
        OBVIOUS
    <2>3. Up(f, 0)
        BY DEF Falls
    <2> HIDE DEF f, Up
    <2> QED BY <2>2, <2>3
<1>2. ASSUME NEW n \in Nat, n \in S PROVE n + 1 \in S
    <2> HIDE DEF Up
    <2>1. PICK f \in [D -> R] : Up(f, n)
        BY <1>2
    <2> DEFINE h == [i \in D |-> IF size[i] < n THEN f[i] ELSE body[<<f, i>>]]
    <2>2. h \in [D -> R]
        BY DEF Falls
    <2>3. \A j \in D : size[j] < n => h[j] = f[j]
        OBVIOUS
    <2>4. \A j \in D : ~(size[j] < n) => h[j] = body[<<f, j>>]
        OBVIOUS
    <2> HIDE DEF h
    <2>5. ASSUME NEW i \in D, size[i] < n + 1 PROVE h[i] = body[<<h, i>>]
        <3>1. size[i] \in Nat /\ \A j \in D : size[j] \in Nat
            BY DEF Falls
        <3>2. \A j \in D : size[j] < size[i] => h[j] = f[j]
            BY <2>3, <2>5, <3>1
        <3>3. body[<<h, i>>] = body[<<f, i>>]
            BY <2>2, <3>2 DEF Falls
        <3>4. CASE size[i] < n
            <4>1. f[i] = body[<<f, i>>]
                BY <2>1, <3>4 DEF Up
            <4> QED BY <2>3, <3>3, <3>4, <4>1
        <3>5. CASE ~(size[i] < n)
            BY <2>4, <3>3, <3>5
        <3> QED BY <3>4, <3>5
    <2>6. Up(h, n + 1)
        BY <2>5 DEF Up
    <2> QED BY <2>2, <2>6
<1>3. Nat \subseteq S
    <2> HIDE DEF S
    <2> QED BY <1>1, <1>2, SetInduction
<1>4. bound \in S
    BY <1>3 DEF Falls
<1>5. PICK f \in [D -> R] : Up(f, bound)
    BY <1>4
<1> QED BY <1>5 DEF Falls, IsDefined

-----------------------------------------------------------------------------
(* Sequences. *)

LEMMA TextOver ==
    ASSUME NEW A, NEW B, NEW t \in Seq(A), \A i \in 1..Len(t) : t[i] \in B
    PROVE  t \in Seq(B)
OBVIOUS

LEMMA ConcatFacts ==
    ASSUME NEW A, NEW s \in Seq(A), NEW t \in Seq(A)
    PROVE  /\ s \o t \in Seq(A)
           /\ Len(s \o t) = Len(s) + Len(t)
           /\ \A i \in 1..Len(s) : (s \o t)[i] = s[i]
           /\ \A i \in 1..Len(t) : (s \o t)[Len(s) + i] = t[i]
OBVIOUS

LEMMA SameText ==
    ASSUME NEW A, NEW s \in Seq(A), NEW t \in Seq(A), Len(s) = Len(t),
           \A i \in 1..Len(s) : s[i] = t[i]
    PROVE  s = t
OBVIOUS

LEMMA SubSeqFacts ==
    ASSUME NEW A, NEW t \in Seq(A), NEW m \in Nat, NEW n \in Nat, m <= n, n <= Len(t)
    PROVE  /\ SubSeq(t, m + 1, n) \in Seq(A)
           /\ Len(SubSeq(t, m + 1, n)) = n - m
           /\ \A i \in 1..(n - m) : SubSeq(t, m + 1, n)[i] = t[m + i]
OBVIOUS

LEMMA ConcatIsAssociative ==
    ASSUME NEW A, NEW s \in Seq(A), NEW t \in Seq(A), NEW u \in Seq(A)
    PROVE  (s \o t) \o u = s \o (t \o u)
OBVIOUS

LEMMA EmptyText ==
    ASSUME NEW A, NEW t \in Seq(A)
    PROVE  /\ <<>> \in Seq(A) /\ Len(<<>>) = 0
           /\ Len(t) \in Nat /\ (Len(t) = 0 <=> t = <<>>)
           /\ t \o <<>> = t /\ <<>> \o t = t
OBVIOUS

\* Every text is in a set with the empty one that each further letter stays in.
LEMMA TextInduction ==
    ASSUME NEW A, NEW P, <<>> \in P, \A t \in Seq(A), c \in A : t \in P => Append(t, c) \in P
    PROVE  Seq(A) \subseteq P
<1> DEFINE N == {n \in Nat : \A t \in Seq(A) : Len(t) = n => t \in P}
<1>1. 0 \in N
    BY EmptyText
<1>2. ASSUME NEW n \in Nat, n \in N PROVE n + 1 \in N
    <2> SUFFICES ASSUME NEW t \in Seq(A), Len(t) = n + 1 PROVE t \in P
        OBVIOUS
    <2> DEFINE u == SubSeq(t, 1, n)
    <2>1. u \in Seq(A) /\ Len(u) = n /\ t[n + 1] \in A /\ t = Append(u, t[n + 1])
        OBVIOUS
    <2>2. u \in P
        BY <1>2, <2>1
    <2> HIDE DEF u
    <2> QED BY <2>1, <2>2
<1>3. Nat \subseteq N
    <2> HIDE DEF N
    <2> QED BY <1>1, <1>2, SetInduction
<1> QED BY <1>3

LEMMA HeadsJoin ==
    ASSUME NEW A, NEW t \in Seq(A), NEW m \in Nat, NEW n \in Nat, m <= n, n <= Len(t)
    PROVE  SubSeq(t, 1, m) \o SubSeq(t, m + 1, n) = SubSeq(t, 1, n)
OBVIOUS

-----------------------------------------------------------------------------
(* A text in two parts, and a word in it. *)

LEMMA Divide ==
    ASSUME NEW A, NEW t \in Seq(A), NEW n \in 0..Len(t)
    PROVE  t = SubSeq(t, 1, n) \o SubSeq(t, n + 1, Len(t))
<1> DEFINE a == SubSeq(t, 1, n)
           b == SubSeq(t, n + 1, Len(t))
<1>1. /\ a \in Seq(A) /\ Len(a) = n /\ \A i \in 1..n : a[i] = t[i]
      /\ b \in Seq(A) /\ Len(b) = Len(t) - n /\ \A i \in 1..(Len(t) - n) : b[i] = t[n + i]
    BY SubSeqFacts
<1> HIDE DEF a, b
<1>2. a \o b \in Seq(A) /\ Len(a \o b) = Len(t)
    BY <1>1, ConcatFacts
<1>3. ASSUME NEW i \in 1..Len(t) PROVE (a \o b)[i] = t[i]
    <2>0. i \in Nat /\ n \in Nat
        BY EmptyText
    <2>1. CASE i <= n
        BY <1>1, <2>1, ConcatFacts
    <2>2. CASE i > n
        <3>1. PICK j \in 1..Len(b) : i = n + j
            <4>1. i - n \in 1..Len(b) /\ i = n + (i - n)
                BY <1>1, <2>2
            <4> QED BY <4>1
        <3>2. (a \o b)[Len(a) + j] = b[j]
            BY <1>1, ConcatFacts
        <3>3. b[j] = t[n + j]
            BY <1>1
        <3> QED BY <1>1, <3>1, <3>2, <3>3
    <2>3. i <= n \/ i > n
        BY <2>0
    <2> QED BY <2>1, <2>2, <2>3
<1>4. a \o b = t
    BY <1>2, <1>3, SameText
<1> QED BY <1>4 DEF a, b

-----------------------------------------------------------------------------
(* Where a word stands in a text. *)

At(s, text, n) == n + Len(s) <= Len(text) /\ \A j \in 1..Len(s) : text[n + j] = s[j]

LEMMA OccurrenceFacts ==
    ASSUME NEW A, NEW s \in Seq(A), NEW text \in Seq(A), NEW n
    PROVE  n \in Occurrences(s, text) <=> n \in Nat /\ At(s, text, n)
<1>1. ASSUME n \in Nat, n + Len(s) <= Len(text)
      PROVE  SubSeq(text, n + 1, n + Len(s)) = s <=> \A j \in 1..Len(s) : text[n + j] = s[j]
    <2> DEFINE u == SubSeq(text, n + 1, n + Len(s))
    <2>1. u \in Seq(A) /\ Len(u) = Len(s) /\ \A j \in 1..Len(s) : u[j] = text[n + j]
        BY <1>1, SubSeqFacts
    <2> HIDE DEF u
    <2>2. u = s <=> \A j \in 1..Len(s) : text[n + j] = s[j]
        BY <2>1, SameText
    <2> QED BY <2>2 DEF u
<1>2. Len(s) \in Nat /\ Len(text) \in Nat
    BY EmptyText
<1>3. n \in 0..(Len(text) - Len(s)) <=> n \in Nat /\ n + Len(s) <= Len(text)
    BY <1>2
<1> QED BY <1>1, <1>3 DEF Occurrences, At

-----------------------------------------------------------------------------
(* str.replace. *)

RestBody(text, s, new, rest, i) ==
    IF i > Len(text) THEN <<>>
    ELSE IF i - 1 \in Occurrences(s, text) THEN new \o rest[i + Len(s)]
    ELSE <<text[i]>> \o rest[i + 1]

Rest(text, s, new) ==
    CHOOSE rest : rest = [i \in 1..(Len(text) + 1) |-> RestBody(text, s, new, rest, i)]

LEMMA ReplacedIsRest ==
    ASSUME NEW text, NEW s, NEW new
    PROVE  Replaced(text, s, new) = Rest(text, s, new)[1]
BY DEF Replaced, Rest, RestBody

LEMMA RestIsDefined ==
    ASSUME NEW A, NEW text \in Seq(A), NEW s \in Seq(A), Len(s) > 0, NEW new \in Seq(A)
    PROVE  LET rest == Rest(text, s, new) IN
           rest = [i \in 1..(Len(text) + 1) |-> RestBody(text, s, new, rest, i)]
<1> DEFINE D == 1..(Len(text) + 1)
           R == Seq(A)
           size == [i \in D |-> Len(text) + 1 - i]
           body == [p \in [D -> R] \X D |-> RestBody(text, s, new, p[1], p[2])]
<1>1. ASSUME NEW i \in D, i <= Len(text)
      PROVE  /\ i + 1 \in D /\ size[i + 1] < size[i]
             /\ i - 1 \in Occurrences(s, text) =>
                   i + Len(s) \in D /\ size[i + Len(s)] < size[i]
    BY <1>1, OccurrenceFacts DEF At
<1>2. ASSUME NEW i \in D, NEW g \in [D -> R]
      PROVE  RestBody(text, s, new, g, i) \in R
    <2>1. CASE i > Len(text)
        BY <2>1, EmptyText DEF RestBody
    <2>2. CASE i <= Len(text) /\ i - 1 \in Occurrences(s, text)
        <3>1. g[i + Len(s)] \in Seq(A)
            BY <1>1, <2>2
        <3>2. RestBody(text, s, new, g, i) = new \o g[i + Len(s)]
            BY <2>2 DEF RestBody
        <3> QED BY <3>1, <3>2, ConcatFacts
    <2>3. CASE i <= Len(text) /\ i - 1 \notin Occurrences(s, text)
        <3>1. <<text[i]>> \in Seq(A)
            BY <2>3
        <3>2. g[i + 1] \in Seq(A)
            BY <1>1, <2>3
        <3>3. RestBody(text, s, new, g, i) = <<text[i]>> \o g[i + 1]
            BY <2>3 DEF RestBody
        <3> QED BY <3>1, <3>2, <3>3, ConcatFacts
    <2> QED BY <2>1, <2>2, <2>3
<1>3. ASSUME NEW i \in D, NEW g \in [D -> R], NEW h \in [D -> R],
             \A j \in D : size[j] < size[i] => g[j] = h[j]
      PROVE  RestBody(text, s, new, g, i) = RestBody(text, s, new, h, i)
    <2>1. CASE i > Len(text)
        BY <2>1 DEF RestBody
    <2>2. CASE i <= Len(text) /\ i - 1 \in Occurrences(s, text)
        <3>1. g[i + Len(s)] = h[i + Len(s)]
            BY <1>1, <1>3, <2>2
        <3> QED BY <2>2, <3>1 DEF RestBody
    <2>3. CASE i <= Len(text) /\ i - 1 \notin Occurrences(s, text)
        <3>1. g[i + 1] = h[i + 1]
            BY <1>1, <1>3, <2>3
        <3> QED BY <2>3, <3>1 DEF RestBody
    <2> QED BY <2>1, <2>2, <2>3
<1>4. \A g \in [D -> R], i \in D :
         body[<<g, i>>] = RestBody(text, s, new, g, i)
    OBVIOUS
<1>5. /\ Len(text) + 1 \in Nat /\ size \in [D -> Nat]
      /\ \A i \in D : size[i] < Len(text) + 1
    OBVIOUS
<1>6. body \in [[D -> R] \X D -> R]
    BY <1>2
<1>7. R # {}
    BY EmptyText
<1> DEFINE bound == Len(text) + 1
<1> HIDE DEF D, R, size, body, bound
<1>8. Falls(D, R, size, bound, body)
    <2>1. ASSUME NEW g \in [D -> R], NEW h \in [D -> R], NEW i \in D,
                 \A j \in D : size[j] < size[i] => g[j] = h[j]
          PROVE  body[<<g, i>>] = body[<<h, i>>]
        <3>1. RestBody(text, s, new, g, i) = RestBody(text, s, new, h, i)
            BY <1>3, <2>1
        <3> QED BY <1>4, <3>1
    <2> QED BY <1>5, <1>6, <2>1 DEF Falls, bound
<1>9. IsDefined(D, R, body)
    BY <1>7, <1>8, RecursiveFunction
<1>10. PICK f : f = [i \in D |-> RestBody(text, s, new, f, i)]
    BY <1>4, <1>9 DEF IsDefined
<1> QED BY <1>10 DEF Rest, D

\* What the lemmas below use of rest.
IsRest(rest, A, text, s, new) ==
    /\ \A i \in 1..(Len(text) + 1) : rest[i] \in Seq(A)
    /\ rest[Len(text) + 1] = <<>>
    /\ \A i \in 1..Len(text) : At(s, text, i - 1) =>
          /\ i + Len(s) \in (i + 1)..(Len(text) + 1)
          /\ rest[i] = new \o rest[i + Len(s)]
    /\ \A i \in 1..Len(text) : ~At(s, text, i - 1) => rest[i] = <<text[i]>> \o rest[i + 1]

LEMMA RestFacts ==
    ASSUME NEW A, NEW text \in Seq(A), NEW s \in Seq(A), Len(s) > 0, NEW new \in Seq(A)
    PROVE  IsRest(Rest(text, s, new), A, text, s, new)
<1> DEFINE rest == Rest(text, s, new)
<1>1. /\ Len(text) \in Nat /\ Len(s) \in Nat
      /\ \A i \in 1..(Len(text) + 1) : rest[i] = RestBody(text, s, new, rest, i)
    BY RestIsDefined
<1> HIDE DEF rest
<1>2. rest[Len(text) + 1] = <<>>
    <2>1. Len(text) + 1 \in 1..(Len(text) + 1) /\ Len(text) + 1 > Len(text)
        BY <1>1
    <2>2. rest[Len(text) + 1] = RestBody(text, s, new, rest, Len(text) + 1)
        BY <1>1, <2>1
    <2> QED BY <2>1, <2>2 DEF RestBody
<1>3. ASSUME NEW i \in 1..Len(text), At(s, text, i - 1)
      PROVE  /\ i + Len(s) \in (i + 1)..(Len(text) + 1)
             /\ rest[i] = new \o rest[i + Len(s)]
    <2>1. i - 1 \in Occurrences(s, text)
        BY <1>3, OccurrenceFacts
    <2>2. rest[i] = RestBody(text, s, new, rest, i) /\ ~(i > Len(text))
        BY <1>1
    <2>3. rest[i] = new \o rest[i + Len(s)]
        BY <2>1, <2>2 DEF RestBody
    <2> QED BY <1>1, <1>3, <2>3 DEF At
<1>4. ASSUME NEW i \in 1..Len(text), ~At(s, text, i - 1)
      PROVE  rest[i] = <<text[i]>> \o rest[i + 1]
    <2>1. i - 1 \notin Occurrences(s, text)
        BY <1>4, OccurrenceFacts
    <2>2. rest[i] = RestBody(text, s, new, rest, i) /\ ~(i > Len(text))
        BY <1>1
    <2> QED BY <2>1, <2>2 DEF RestBody
<1>5. \A i \in 1..(Len(text) + 1) : rest[i] \in Seq(A)
    <2> DEFINE S == {i \in 1..(Len(text) + 1) : rest[i] \in Seq(A)}
    <2>1. ASSUME NEW i \in 1..(Len(text) + 1), \A j \in (i + 1)..(Len(text) + 1) : j \in S
          PROVE  i \in S
        <3>1. CASE i = Len(text) + 1
            BY <1>2, <3>1, EmptyText
        <3>2. CASE i # Len(text) + 1 /\ At(s, text, i - 1)
            <4>1. i \in 1..Len(text)
                BY <3>2
            <4>2. rest[i] = new \o rest[i + Len(s)] /\ rest[i + Len(s)] \in Seq(A)
                BY <1>3, <2>1, <3>2, <4>1
            <4> QED BY <4>2, ConcatFacts
        <3>3. CASE i # Len(text) + 1 /\ ~At(s, text, i - 1)
            <4>1. i \in 1..Len(text)
                BY <3>3
            <4>2. rest[i] = <<text[i]>> \o rest[i + 1]
                BY <1>4, <3>3, <4>1
            <4>3. rest[i + 1] \in Seq(A)
                BY <1>1, <2>1, <4>1
            <4>4. <<text[i]>> \in Seq(A)
                BY <4>1
            <4>5. <<text[i]>> \o rest[i + 1] \in Seq(A)
                BY <4>4, <4>3, ConcatFacts
            <4> QED BY <4>2, <4>5
        <3>4. \/ i = Len(text) + 1
              \/ i # Len(text) + 1 /\ At(s, text, i - 1)
              \/ i # Len(text) + 1 /\ ~At(s, text, i - 1)
            OBVIOUS
        <3> HIDE DEF S
        <3> QED BY <3>1, <3>2, <3>3, <3>4
    <2> DEFINE n == Len(text) + 1
    <2>2. n \in Nat
        BY <1>1
    <2> HIDE DEF S, n
    <2>3. 1..n \subseteq S
        BY <2>1, <2>2, Downward DEF n
    <2> QED BY <2>3 DEF S, n
<1> QED BY <1>2, <1>3, <1>4, <1>5 DEF IsRest, rest

-----------------------------------------------------------------------------
(* A replacement in two parts. *)

\* text is a followed by b.
Joins(A, text, a, b) ==
    /\ text \in Seq(A) /\ a \in Seq(A) /\ b \in Seq(A)
    /\ Len(text) \in Nat /\ Len(a) \in Nat /\ Len(b) \in Nat
    /\ Len(text) = Len(a) + Len(b)
    /\ \A i \in 1..Len(a) : text[i] = a[i]
    /\ \A i \in 1..Len(b) : text[Len(a) + i] = b[i]

LEMMA JoinFacts ==
    ASSUME NEW A, NEW a \in Seq(A), NEW b \in Seq(A)
    PROVE  Joins(A, a \o b, a, b)
BY ConcatFacts, EmptyText DEF Joins

LEMMA JoinIsConcat ==
    ASSUME NEW A, NEW text, NEW a, NEW b, Joins(A, text, a, b)
    PROVE  text = a \o b
<1>1. Joins(A, a \o b, a, b)
    BY JoinFacts DEF Joins
<1> DEFINE t == a \o b
<1>2. Joins(A, t, a, b)
    BY <1>1
<1> HIDE DEF t
<1>3. text \in Seq(A) /\ t \in Seq(A) /\ Len(text) = Len(t)
    BY <1>2 DEF Joins
<1>4. ASSUME NEW i \in 1..Len(text) PROVE text[i] = t[i]
    <2>1. CASE i \in 1..Len(a)
        BY <1>2, <2>1 DEF Joins
    <2>2. CASE i \notin 1..Len(a)
        <3>1. PICK j \in 1..Len(b) : i = Len(a) + j
            <4>1. i - Len(a) \in 1..Len(b) /\ i = Len(a) + (i - Len(a))
                BY <2>2 DEF Joins
            <4> QED BY <4>1
        <3> QED BY <1>2, <3>1 DEF Joins
    <2> QED BY <2>1, <2>2
<1>5. text = t
    BY <1>3, <1>4, SameText
<1> QED BY <1>5 DEF t

\* No place of u in the text lies on both sides of the cut.
Whole(u, text, cut) ==
    \A n \in Nat : n < cut /\ cut < n + Len(u) => ~At(u, text, n)

LEMMA AtJoined ==
    ASSUME NEW A, NEW text, NEW a, NEW b, Joins(A, text, a, b), NEW s \in Seq(A), NEW n \in Nat
    PROVE  /\ n + Len(s) <= Len(a) => (At(s, text, n) <=> At(s, a, n))
           /\ At(s, text, Len(a) + n) <=> At(s, b, n)
<1>0. Len(s) \in Nat
    BY EmptyText
<1>1. ASSUME n + Len(s) <= Len(a) PROVE At(s, text, n) <=> At(s, a, n)
    <2>1. \A j \in 1..Len(s) : n + j \in 1..Len(a)
        BY <1>0, <1>1 DEF Joins
    <2>2. \A j \in 1..Len(s) : text[n + j] = a[n + j]
        BY <2>1 DEF Joins
    <2>3. n + Len(s) <= Len(text)
        BY <1>0, <1>1 DEF Joins
    <2> QED BY <1>1, <2>2, <2>3 DEF At
<1>2. At(s, text, Len(a) + n) <=> At(s, b, n)
    <2>1. Len(a) + n + Len(s) <= Len(text) <=> n + Len(s) <= Len(b)
        BY <1>0 DEF Joins
    <2>2. ASSUME n + Len(s) <= Len(b), NEW j \in 1..Len(s)
          PROVE  text[Len(a) + n + j] = b[n + j]
        <3>1. n + j \in 1..Len(b) /\ Len(a) + n + j = Len(a) + (n + j)
            BY <1>0, <2>2 DEF Joins
        <3>2. text[Len(a) + (n + j)] = b[n + j]
            BY <3>1 DEF Joins
        <3> QED BY <3>1, <3>2
    <2> QED BY <2>1, <2>2 DEF At
<1> QED BY <1>1, <1>2

LEMMA RestDivides ==
    ASSUME NEW A, NEW text, NEW a, NEW b, Joins(A, text, a, b),
           NEW s \in Seq(A), Len(s) > 0, NEW new \in Seq(A), Whole(s, text, Len(a)),
           NEW rest, IsRest(rest, A, text, s, new),
           NEW ra, IsRest(ra, A, a, s, new),
           NEW rb, IsRest(rb, A, b, s, new)
    PROVE  Joins(A, rest[1], ra[1], rb[1])
<1>0. /\ Len(a) \in Nat /\ Len(b) \in Nat /\ Len(s) \in Nat
      /\ Len(text) = Len(a) + Len(b)
      /\ \A i \in 1..Len(a) : text[i] = a[i]
      /\ \A i \in 1..Len(b) : text[Len(a) + i] = b[i]
    BY EmptyText DEF Joins
<1>1. \A i \in 1..(Len(b) + 1) : rest[Len(a) + i] = rb[i]
    <2> DEFINE n == Len(b) + 1
               S == {i \in 1..n : rest[Len(a) + i] = rb[i]}
    <2>1. ASSUME NEW i \in 1..n, \A j \in (i + 1)..n : j \in S PROVE i \in S
        <3>1. CASE i = n
            <4>1. Len(a) + i = Len(text) + 1
                BY <1>0, <3>1
            <4>2. rest[Len(a) + i] = <<>> /\ rb[i] = <<>>
                BY <3>1, <4>1 DEF IsRest
            <4> QED BY <4>2
        <3>2. CASE i # n
            <4> DEFINE k == Len(a) + i
            <4>0. /\ i \in 1..Len(b) /\ k \in 1..Len(text)
                  /\ k - 1 = Len(a) + (i - 1) /\ i - 1 \in Nat
                  /\ k + 1 = Len(a) + (i + 1) /\ i + 1 \in (i + 1)..n
                  /\ k + Len(s) = Len(a) + (i + Len(s))
                <5>1. i \in Nat /\ 1 <= i /\ i <= Len(b)
                    BY <1>0, <3>2
                <5> QED BY ONLY <1>0, <5>1
            <4> HIDE DEF k
            <4>1. At(s, text, k - 1) <=> At(s, b, i - 1)
                <5>1. At(s, text, Len(a) + (i - 1)) <=> At(s, b, i - 1)
                    BY <4>0, AtJoined
                <5> QED BY <4>0, <5>1
            <4>2. CASE At(s, b, i - 1)
                <5>1. i + Len(s) \in (i + 1)..n /\ rb[i] = new \o rb[i + Len(s)]
                    BY <4>0, <4>2 DEF IsRest
                <5>2. rest[Len(a) + (i + Len(s))] = rb[i + Len(s)]
                    BY <2>1, <5>1
                <5>3. rest[k] = new \o rest[k + Len(s)]
                    BY <4>0, <4>1, <4>2 DEF IsRest
                <5> QED BY <4>0, <5>1, <5>2, <5>3 DEF k
            <4>3. CASE ~At(s, b, i - 1)
                <5>1. rb[i] = <<b[i]>> \o rb[i + 1]
                    BY <4>0, <4>3 DEF IsRest
                <5>2. rest[Len(a) + (i + 1)] = rb[i + 1]
                    BY <2>1, <4>0
                <5>3. rest[k] = <<text[k]>> \o rest[k + 1]
                    BY <4>0, <4>1, <4>3 DEF IsRest
                <5>4. text[k] = b[i]
                    BY <1>0, <4>0 DEF k
                <5> QED BY <4>0, <5>1, <5>2, <5>3, <5>4 DEF k
            <4> QED BY <4>2, <4>3
        <3> QED BY <3>1, <3>2
    <2>2. n \in Nat
        BY <1>0
    <2> HIDE DEF S, n
    <2>3. 1..n \subseteq S
        BY <2>1, <2>2, Downward
    <2> QED BY <2>3 DEF S, n
<1>2. 1 \in 1..(Len(b) + 1) /\ 1 \in 1..(Len(a) + 1)
    BY <1>0
<1>3. PICK y \in Seq(A) : y = rb[1]
    BY <1>2 DEF IsRest
<1>4. rest[Len(a) + 1] = y
    BY <1>1, <1>2, <1>3
<1>5. \A i \in 1..(Len(a) + 1) : rest[i] = ra[i] \o y
    <2> DEFINE n == Len(a) + 1
               S == {i \in 1..n : rest[i] = ra[i] \o y}
    <2>1. ASSUME NEW i \in 1..n, \A j \in (i + 1)..n : j \in S PROVE i \in S
        <3>1. CASE i = n
            <4>1. ra[i] = <<>>
                BY <3>1 DEF IsRest
            <4>2. <<>> \o y = y
                BY EmptyText
            <4> QED BY <1>4, <3>1, <4>1, <4>2
        <3>2. CASE i # n
            <4>0. /\ i \in 1..Len(a) /\ i \in 1..Len(text) /\ i - 1 \in Nat
                  /\ i + 1 \in (i + 1)..n
                <5>1. i \in Nat /\ 1 <= i /\ i <= Len(a)
                    BY <1>0, <3>2
                <5> QED BY ONLY <1>0, <5>1
            <4>1. At(s, text, i - 1) <=> At(s, a, i - 1)
                <5>1. CASE (i - 1) + Len(s) <= Len(a)
                    BY <4>0, <5>1, AtJoined
                <5>2. CASE Len(a) < (i - 1) + Len(s)
                    <6>1. i - 1 < Len(a)
                        BY <1>0, <4>0
                    <6>2. ~At(s, text, i - 1)
                        BY <4>0, <5>2, <6>1 DEF Whole
                    <6>3. ~At(s, a, i - 1)
                        BY <1>0, <4>0, <5>2 DEF At
                    <6> QED BY <6>2, <6>3
                <5> QED BY <1>0, <4>0, <5>1, <5>2
            <4>2. CASE At(s, a, i - 1)
                <5>1. i + Len(s) \in (i + 1)..n /\ ra[i] = new \o ra[i + Len(s)]
                    BY <4>0, <4>2 DEF IsRest
                <5>2. PICK x \in Seq(A) : x = ra[i + Len(s)]
                    BY <1>0, <5>1 DEF IsRest
                <5>3. rest[i + Len(s)] = x \o y
                    BY <2>1, <5>1, <5>2
                <5>4. rest[i] = new \o rest[i + Len(s)]
                    BY <4>0, <4>1, <4>2 DEF IsRest
                <5>5. (new \o x) \o y = new \o (x \o y)
                    <6>1. PICK z \in Seq(A) : z = new
                        OBVIOUS
                    <6>2. (z \o x) \o y = z \o (x \o y)
                        BY ONLY z \in Seq(A), x \in Seq(A), y \in Seq(A), ConcatIsAssociative
                    <6> QED BY <6>1, <6>2
                <5> QED BY <5>1, <5>2, <5>3, <5>4, <5>5
            <4>3. CASE ~At(s, a, i - 1)
                <5>1. ra[i] = <<a[i]>> \o ra[i + 1]
                    BY <4>0, <4>3 DEF IsRest
                <5>2. PICK x \in Seq(A) : x = ra[i + 1]
                    BY <1>0, <4>0 DEF IsRest
                <5>3. rest[i + 1] = x \o y
                    BY <2>1, <4>0, <5>2
                <5>4. rest[i] = <<text[i]>> \o rest[i + 1]
                    BY <4>0, <4>1, <4>3 DEF IsRest
                <5>5. PICK z \in Seq(A) : z = <<a[i]>> /\ z = <<text[i]>>
                    <6>1. <<a[i]>> \in Seq(A) /\ text[i] = a[i]
                        BY <4>0 DEF Joins
                    <6> QED BY <6>1
                <5>6. (z \o x) \o y = z \o (x \o y)
                    BY ONLY z \in Seq(A), x \in Seq(A), y \in Seq(A), ConcatIsAssociative
                <5> QED BY <5>1, <5>2, <5>3, <5>4, <5>5, <5>6
            <4> QED BY <4>2, <4>3
        <3> QED BY <3>1, <3>2
    <2>2. n \in Nat
        BY <1>0
    <2> HIDE DEF S, n
    <2>3. 1..n \subseteq S
        BY <2>1, <2>2, Downward
    <2> QED BY <2>3 DEF S, n
<1>6. PICK x \in Seq(A) : x = ra[1]
    BY <1>2 DEF IsRest
<1>7. rest[1] = x \o y
    BY <1>2, <1>5, <1>6
<1>8. Joins(A, x \o y, x, y)
    BY JoinFacts
<1> QED BY <1>3, <1>6, <1>7, <1>8

\* A replacement keeps two parts apart, when no place of the word lies in both.
LEMMA ReplacedDivides ==
    ASSUME NEW A, NEW text, NEW a, NEW b, Joins(A, text, a, b),
           NEW s \in Seq(A), Len(s) > 0, NEW new \in Seq(A), Whole(s, text, Len(a))
    PROVE  Joins(A, Replaced(text, s, new), Replaced(a, s, new), Replaced(b, s, new))
<1> DEFINE ra == Rest(a, s, new)
           rb == Rest(b, s, new)
           rest == Rest(text, s, new)
<1>1. text \in Seq(A) /\ a \in Seq(A) /\ b \in Seq(A)
    BY DEF Joins
<1>2. IsRest(ra, A, a, s, new) /\ IsRest(rb, A, b, s, new) /\ IsRest(rest, A, text, s, new)
    BY <1>1, RestFacts
<1>3. /\ Replaced(text, s, new) = rest[1]
      /\ Replaced(a, s, new) = ra[1] /\ Replaced(b, s, new) = rb[1]
    BY ReplacedIsRest
<1> HIDE DEF ra, rb, rest
<1>4. Joins(A, rest[1], ra[1], rb[1])
    BY <1>2, RestDivides
<1> QED BY <1>3, <1>4

\* A replacement gives no letter but those of the text and of the new word.
LEMMA ReplacedIsText ==
    ASSUME NEW A, NEW text \in Seq(A), NEW s \in Seq(A), Len(s) > 0, NEW new \in Seq(A),
           NEW B, text \in Seq(B), new \in Seq(B)
    PROVE  Replaced(text, s, new) \in Seq(B)
<1> DEFINE rest == Rest(text, s, new)
<1>1. IsRest(rest, A, text, s, new) /\ Replaced(text, s, new) = rest[1]
    BY RestFacts, ReplacedIsRest
<1> HIDE DEF rest
<1> DEFINE n == Len(text) + 1
           S == {i \in 1..n : rest[i] \in Seq(B)}
<1>2. Len(text) \in Nat /\ Len(s) \in Nat
    BY EmptyText
<1>3. ASSUME NEW i \in 1..n, \A j \in (i + 1)..n : j \in S PROVE i \in S
    <2>1. CASE i = n
        BY <1>1, <2>1, EmptyText DEF IsRest
    <2>2. CASE i # n /\ At(s, text, i - 1)
        <3>1. i \in 1..Len(text)
            BY <1>2, <2>2
        <3>2. /\ rest[i] = new \o rest[i + Len(s)]
              /\ i + Len(s) \in (i + 1)..n
            BY <1>1, <2>2, <3>1 DEF IsRest
        <3>3. rest[i + Len(s)] \in Seq(B)
            BY <1>3, <3>2
        <3>4. new \o rest[i + Len(s)] \in Seq(B)
            BY <3>3, ConcatFacts
        <3> QED BY <3>2, <3>4
    <2>3. CASE i # n /\ ~At(s, text, i - 1)
        <3>1. i \in 1..Len(text) /\ i + 1 \in (i + 1)..n
            BY <1>2, <2>3
        <3>2. rest[i] = <<text[i]>> \o rest[i + 1]
            BY <1>1, <2>3, <3>1 DEF IsRest
        <3>3. rest[i + 1] \in Seq(B) /\ <<text[i]>> \in Seq(B)
            BY <1>3, <3>1
        <3>4. <<text[i]>> \o rest[i + 1] \in Seq(B)
            BY <3>3, ConcatFacts
        <3> QED BY <3>2, <3>4
    <2> QED BY <2>1, <2>2, <2>3
<1>4. 1..n \subseteq S
    <2>1. n \in Nat
        BY <1>2
    <2> HIDE DEF S, n
    <2> QED BY <1>3, <2>1, Downward
<1> QED BY <1>1, <1>2, <1>4

\* A replacement leaves a text as it is that the word has no place in.
LEMMA NoneReplaced ==
    ASSUME NEW A, NEW text \in Seq(A), NEW s \in Seq(A), Len(s) > 0, NEW new \in Seq(A),
           \A n \in Nat : ~At(s, text, n)
    PROVE  Replaced(text, s, new) = text
<1> DEFINE rest == Rest(text, s, new)
<1>1. IsRest(rest, A, text, s, new) /\ Replaced(text, s, new) = rest[1]
    BY RestFacts, ReplacedIsRest
<1> HIDE DEF rest
<1> DEFINE n == Len(text) + 1
           Raw(i) == /\ Len(rest[i]) = Len(text) + 1 - i
                     /\ \A j \in 1..Len(rest[i]) : rest[i][j] = text[i - 1 + j]
           S == {i \in 1..n : Raw(i)}
<1>2. Len(text) \in Nat
    BY EmptyText
<1>3. ASSUME NEW i \in 1..n, \A j \in (i + 1)..n : j \in S PROVE i \in S
    <2>1. CASE i = n
        <3>1. rest[i] = <<>>
            BY <1>1, <2>1 DEF IsRest
        <3>2. Len(rest[i]) = 0
            BY <3>1, EmptyText
        <3> QED BY <1>2, <2>1, <3>2
    <2>2. CASE i # n
        <3>0. i \in 1..Len(text) /\ i + 1 \in (i + 1)..n /\ i - 1 \in Nat
            BY <1>2, <2>2
        <3>1. /\ rest[i] = <<text[i]>> \o rest[i + 1]
              /\ rest[i + 1] \in Seq(A) /\ <<text[i]>> \in Seq(A)
            BY <1>1, <1>2, <3>0 DEF IsRest
        <3>2. /\ Len(rest[i]) = 1 + Len(rest[i + 1]) /\ Len(rest[i + 1]) \in Nat
              /\ rest[i][1] = text[i]
              /\ \A j \in 1..Len(rest[i + 1]) : rest[i][1 + j] = rest[i + 1][j]
            BY <3>1, ConcatFacts
        <3>3. Raw(i + 1)
            BY <1>3, <3>0
        <3>4. Len(rest[i]) = Len(text) + 1 - i
            BY <1>2, <3>2, <3>3
        <3>5. ASSUME NEW j \in 1..Len(rest[i]) PROVE rest[i][j] = text[i - 1 + j]
            <4>1. CASE j = 1
                <5>1. i - 1 + j = i
                    BY <4>1
                <5> QED BY <3>2, <4>1, <5>1
            <4>2. CASE j > 1
                <5>1. PICK m \in 1..Len(rest[i + 1]) : j = 1 + m
                    <6>1. j - 1 \in 1..Len(rest[i + 1]) /\ j = 1 + (j - 1)
                        BY <3>2, <4>2
                    <6> QED BY <6>1
                <5>2. rest[i + 1][m] = text[(i + 1) - 1 + m]
                    BY <3>3
                <5>3. (i + 1) - 1 + m = i - 1 + j
                    BY <5>1
                <5> QED BY <3>2, <5>1, <5>2, <5>3
            <4> QED BY <4>1, <4>2
        <3> QED BY <3>4, <3>5
    <2> QED BY <2>1, <2>2
<1>4. 1..n \subseteq S
    <2>1. n \in Nat
        BY <1>2
    <2> HIDE DEF S, n
    <2> QED BY <1>3, <2>1, Downward
<1>5. Raw(1) /\ rest[1] \in Seq(A)
    <2>1. 1 \in 1..n
        BY <1>2
    <2> QED BY <1>1, <1>4, <2>1 DEF IsRest
<1>6. Len(rest[1]) = Len(text) /\ \A j \in 1..Len(rest[1]) : rest[1][j] = text[j]
    <2>1. \A j \in 1..Len(rest[1]) : 1 - 1 + j = j
        OBVIOUS
    <2> QED BY <1>2, <1>5, <2>1
<1> QED BY <1>1, <1>5, <1>6, SameText

\* A word alone is replaced as such.
LEMMA WordReplaced ==
    ASSUME NEW A, NEW s \in Seq(A), Len(s) > 0, NEW new \in Seq(A)
    PROVE  Replaced(s, s, new) = new
<1> DEFINE rest == Rest(s, s, new)
<1>1. IsRest(rest, A, s, s, new) /\ Replaced(s, s, new) = rest[1]
    BY RestFacts, ReplacedIsRest
<1> HIDE DEF rest
<1>2. Len(s) \in Nat /\ 1 \in 1..Len(s) /\ 1 - 1 = 0 /\ 1 + Len(s) = Len(s) + 1
    BY EmptyText
<1>3. At(s, s, 0)
    <2>1. \A j \in 1..Len(s) : 0 + j = j
        OBVIOUS
    <2> QED BY <1>2, <2>1 DEF At
<1>4. rest[1] = new \o rest[1 + Len(s)] /\ rest[Len(s) + 1] = <<>>
    BY <1>1, <1>2, <1>3 DEF IsRest
<1>5. new \o <<>> = new
    BY EmptyText
<1> QED BY <1>1, <1>2, <1>4, <1>5

-----------------------------------------------------------------------------
(* Sums over finite sets. *)

Counts(f, S) == IsFiniteSet(S) /\ \A x \in S : f[x] \in Int

\* How SumFunctionOnSet recurs.
First(S) == CHOOSE x \in S : TRUE

IsSum(h, f, S) ==
    \A T \in SUBSET S : h[T] = IF T = {} THEN 0 ELSE f[First(T)] + h[T \ {First(T)}]

\* A function takes finitely many values on a finite set.
LEMMA ValuesAreFinite ==
    ASSUME NEW S, IsFiniteSet(S), NEW f
    PROVE  IsFiniteSet({f[x] : x \in S})
<1> DEFINE T == {f[x] : x \in S}
           g == [x \in S |-> f[x]]
<1>1. g \in Surjection(S, T)
    BY DEF Surjection
<1> HIDE DEF g, T
<1> QED BY <1>1, FS_Surjection DEF T

LEMMA SubsetsCount ==
    ASSUME NEW f, NEW S, Counts(f, S), NEW T \in SUBSET S
    PROVE  Counts(f, T) /\ Cardinality(T) \in Nat /\ Cardinality(T) <= Cardinality(S)
BY FS_Subset, FS_CardinalityType DEF Counts

LEMMA FirstFacts ==
    ASSUME NEW f, NEW S, Counts(f, S), S # {}
    PROVE  /\ First(S) \in S /\ f[First(S)] \in Int
           /\ Cardinality(S \ {First(S)}) = Cardinality(S) - 1
<1>1. First(S) \in S
    BY DEF First
<1> QED BY <1>1, FS_RemoveElement DEF Counts

LEMMA SmallerSets ==
    ASSUME NEW f, NEW S, Counts(f, S), NEW T \in SUBSET S, NEW n \in Nat,
           Cardinality(T) = n + 1
    PROVE  /\ Counts(f, T) /\ T # {}
           /\ \A x \in T : /\ f[x] \in Int
                          /\ T \ {x} \in SUBSET S /\ Counts(f, T \ {x})
                          /\ Cardinality(T \ {x}) = n
<1>1. Counts(f, T)
    BY SubsetsCount
<1>2. T # {}
    <2>1. Cardinality({}) = 0 /\ n + 1 # 0
        BY FS_EmptySet
    <2> QED BY <2>1
<1>3. ASSUME NEW x \in T
      PROVE  /\ f[x] \in Int
             /\ T \ {x} \in SUBSET S /\ Counts(f, T \ {x})
             /\ Cardinality(T \ {x}) = n
    <2>1. Cardinality(T \ {x}) = Cardinality(T) - 1
        BY <1>1, FS_RemoveElement DEF Counts
    <2>2. Cardinality(T \ {x}) = n
        BY <2>1
    <2>3. T \ {x} \in SUBSET S /\ Counts(f, T \ {x})
        BY SubsetsCount
    <2> QED BY <1>1, <2>2, <2>3 DEF Counts
<1> QED BY <1>1, <1>2, <1>3

\* Two such recursions agree.
LEMMA SumsAgree ==
    ASSUME NEW f, NEW S, Counts(f, S), NEW g, NEW h, IsSum(g, f, S), IsSum(h, f, S)
    PROVE  \A T \in SUBSET S : g[T] = h[T] /\ h[T] \in Int
<1> DEFINE N == {n \in Nat : \A T \in SUBSET S :
                    Cardinality(T) = n => g[T] = h[T] /\ h[T] \in Int}
<1>1. 0 \in N
    <2> SUFFICES ASSUME NEW T \in SUBSET S, Cardinality(T) = 0
                 PROVE  g[T] = h[T] /\ h[T] \in Int
        OBVIOUS
    <2>1. T = {}
        BY SubsetsCount, FS_EmptySet DEF Counts
    <2>2. g[T] = 0 /\ h[T] = 0
        BY <2>1 DEF IsSum
    <2> HIDE DEF N
    <2> QED BY <2>2
<1>2. ASSUME NEW n \in Nat, n \in N PROVE n + 1 \in N
    <2> SUFFICES ASSUME NEW T \in SUBSET S, Cardinality(T) = n + 1
                 PROVE  g[T] = h[T] /\ h[T] \in Int
        OBVIOUS
    <2> DEFINE x == First(T)
               U == T \ {x}
    <2>1. T # {} /\ x \in T
        <3>1. T # {}
            <4> HIDE DEF N
            <4> QED BY SmallerSets
        <3> QED BY <3>1 DEF First
    <2>2. f[x] \in Int /\ Cardinality(U) = n /\ U \in SUBSET S
        <3>1. \A y \in T : /\ f[y] \in Int
                           /\ T \ {y} \in SUBSET S /\ Cardinality(T \ {y}) = n
            <4> HIDE DEF N
            <4> QED BY SmallerSets
        <3> HIDE DEF N, x
        <3> QED BY <2>1, <3>1
    <2>3. g[U] = h[U] /\ h[U] \in Int
        BY <1>2, <2>2
    <2>4. g[T] = f[x] + g[U] /\ h[T] = f[x] + h[U]
        BY <2>1 DEF IsSum
    <2>5. PICK a \in Int, b \in Int : a = f[x] /\ b = h[U]
        BY <2>2, <2>3
    <2>6. g[T] = a + b /\ h[T] = a + b
        BY <2>3, <2>4, <2>5
    <2> HIDE DEF x, U, N
    <2> QED BY <2>6
<1>3. Nat \subseteq N
    <2> HIDE DEF N
    <2> QED BY <1>1, <1>2, SetInduction
<1>4. ASSUME NEW T \in SUBSET S PROVE Cardinality(T) \in N
    <2> HIDE DEF N
    <2> QED BY <1>3, SubsetsCount
<1> QED BY <1>4

LEMMA SumRecurs ==
    ASSUME NEW f, NEW S, Counts(f, S)
    PROVE  \E h : IsSum(h, f, S) /\ SumFunctionOnSet(f, S) = h[S]
<1> DEFINE D == SUBSET S
           size == [T \in D |-> Cardinality(T)]
           Step(h, T) == IF T = {} THEN 0 ELSE f[First(T)] + h[T \ {First(T)}]
           body == [p \in [D -> Int] \X D |-> Step(p[1], p[2])]
           sum == CHOOSE h : h = [T \in D |-> Step(h, T)]
<1>1. ASSUME NEW T \in D
      PROVE  /\ Cardinality(T) \in 0..Cardinality(S) /\ Cardinality(S) \in Nat
             /\ T # {} => /\ f[First(T)] \in Int /\ T \ {First(T)} \in D
                          /\ Cardinality(T \ {First(T)}) = Cardinality(T) - 1
    <2>1. Counts(f, T) /\ Cardinality(T) \in Nat /\ Cardinality(T) <= Cardinality(S)
        BY SubsetsCount
    <2>2. Cardinality(S) \in Nat
        BY FS_CardinalityType DEF Counts
    <2>3. T # {} => f[First(T)] \in Int /\ Cardinality(T \ {First(T)}) = Cardinality(T) - 1
        BY <2>1, FirstFacts
    <2> QED BY <2>1, <2>2, <2>3
<1>2. Falls(D, Int, size, Cardinality(S) + 1, body)
    <2>0. Cardinality(S) \in Nat
        BY FS_CardinalityType DEF Counts
    <2>1. size \in [D -> Nat] /\ \A T \in D : size[T] < Cardinality(S) + 1
        <3>1. \A T \in D : Cardinality(T) \in 0..Cardinality(S)
            BY <1>1
        <3>2. \A T \in D : Cardinality(T) \in Nat /\ Cardinality(T) < Cardinality(S) + 1
            <4> HIDE DEF D
            <4> QED BY <2>0, <3>1
        <3> HIDE DEF D
        <3> QED BY <3>2
    <2>2. ASSUME NEW h \in [D -> Int], NEW T \in D PROVE Step(h, T) \in Int
        <3>1. CASE T = {}
            BY <3>1
        <3>2. CASE T # {}
            <4>1. f[First(T)] \in Int /\ h[T \ {First(T)}] \in Int
                BY <1>1, <3>2
            <4> QED BY <3>2, <4>1
        <3> QED BY <3>1, <3>2
    <2>3. \A h \in [D -> Int] : \A T \in D : body[<<h, T>>] = Step(h, T)
        OBVIOUS
    <2>4. body \in [[D -> Int] \X D -> Int]
        BY <2>2
    <2>5. ASSUME NEW g \in [D -> Int], NEW h \in [D -> Int], NEW T \in D,
                 \A U \in D : size[U] < size[T] => g[U] = h[U]
          PROVE  body[<<g, T>>] = body[<<h, T>>]
        <3>1. CASE T # {}
            <4> DEFINE U == T \ {First(T)}
            <4>1. U \in D /\ size[U] < size[T]
                BY <1>1, <3>1
            <4>2. g[U] = h[U]
                BY <2>5, <4>1
            <4> QED BY <2>3, <3>1, <4>2
        <3>2. CASE T = {}
            BY <2>3, <3>2
        <3> QED BY <3>1, <3>2
    <2>6. Cardinality(S) + 1 \in Nat
        BY <2>0
    <2>7. \A g, h \in [D -> Int] : \A T \in D :
             (\A U \in D : size[U] < size[T] => g[U] = h[U])
                 => body[<<g, T>>] = body[<<h, T>>]
        <3> HIDE DEF D, size, body
        <3> QED BY <2>5
    <2> HIDE DEF D, size, body, Step, sum
    <2> QED BY ONLY <2>1, <2>4, <2>6, <2>7 DEF Falls
<1>3. sum = [T \in D |-> Step(sum, T)]
    <2>1. IsDefined(D, Int, body)
        <3>1. D # {} /\ Int # {}
            OBVIOUS
        <3> HIDE DEF D, size, body
        <3> QED BY <1>2, <3>1, RecursiveFunction
    <2>2. PICK h \in [D -> Int] : \A T \in D : h[T] = body[<<h, T>>]
        BY <2>1 DEF IsDefined
    <2>3. \A T \in D : h[T] = Step(h, T)
        BY <2>2
    <2>4. h = [T \in D |-> Step(h, T)]
        <3> HIDE DEF D, Step
        <3> QED BY <2>3
    <2> QED BY <2>4
<1>4. SumFunctionOnSet(f, S) = sum[S]
    BY DEF SumFunctionOnSet, FoldFunctionOnSet, MapThenFoldSet, First
<1> HIDE DEF sum
<1>5. IsSum(sum, f, S)
    BY <1>3 DEF IsSum
<1> QED BY <1>4, <1>5

LEMMA SumIsInt ==
    ASSUME NEW f, NEW S, Counts(f, S)
    PROVE  /\ SumFunctionOnSet(f, S) \in Int
           /\ S = {} => SumFunctionOnSet(f, S) = 0
<1>1. PICK h : IsSum(h, f, S) /\ SumFunctionOnSet(f, S) = h[S]
    BY SumRecurs
<1>2. h[S] \in Int
    BY <1>1, SumsAgree
<1>3. S = {} => h[S] = 0
    BY <1>1 DEF IsSum
<1> QED BY <1>1, <1>2, <1>3

LEMMA SumTakesFirst ==
    ASSUME NEW f, NEW S, Counts(f, S), S # {}
    PROVE  SumFunctionOnSet(f, S) = f[First(S)] + SumFunctionOnSet(f, S \ {First(S)})
<1> DEFINE U == S \ {First(S)}
<1>1. PICK h : IsSum(h, f, S) /\ SumFunctionOnSet(f, S) = h[S]
    BY SumRecurs
<1>2. Counts(f, U) /\ U \in SUBSET S
    BY SubsetsCount
<1>3. PICK g : IsSum(g, f, U) /\ SumFunctionOnSet(f, U) = g[U]
    BY <1>2, SumRecurs
<1>4. IsSum(h, f, U)
    BY <1>1, <1>2 DEF IsSum
<1>5. g[U] = h[U]
    BY <1>2, <1>3, <1>4, SumsAgree
<1> QED BY <1>1, <1>3, <1>5 DEF IsSum

\* It does not matter which is taken first.
LEMMA SumTakesAny ==
    ASSUME NEW f, NEW S, Counts(f, S), NEW y \in S
    PROVE  SumFunctionOnSet(f, S) = f[y] + SumFunctionOnSet(f, S \ {y})
<1> DEFINE Sum(T) == SumFunctionOnSet(f, T)
           N == {n \in Nat : \A T \in SUBSET S : Cardinality(T) = n =>
                    \A z \in T : Sum(T) = f[z] + Sum(T \ {z})}
<1>1. 0 \in N
    <2> SUFFICES ASSUME NEW T \in SUBSET S, Cardinality(T) = 0 PROVE T = {}
        OBVIOUS
    <2> QED BY SubsetsCount, FS_EmptySet DEF Counts
<1>2. ASSUME NEW n \in Nat, n \in N PROVE n + 1 \in N
    <2> SUFFICES ASSUME NEW T \in SUBSET S, Cardinality(T) = n + 1, NEW z \in T
                 PROVE  Sum(T) = f[z] + Sum(T \ {z})
        OBVIOUS
    <2> DEFINE x == First(T)
    <2>1. Counts(f, T) /\ T # {} /\ x \in T
        <3> HIDE DEF N
        <3>1. Counts(f, T) /\ T # {}
            BY SmallerSets
        <3> QED BY <3>1 DEF First
    <2>2. Sum(T) = f[x] + Sum(T \ {x})
        BY <2>1, SumTakesFirst
    <2> HIDE DEF x
    <2>3. CASE z = x
        BY <2>2, <2>3
    <2>4. CASE z # x
        <3>1. /\ T \ {x} \in SUBSET S /\ Cardinality(T \ {x}) = n
              /\ T \ {z} \in SUBSET S /\ Cardinality(T \ {z}) = n
            <4> HIDE DEF N
            <4> QED BY <2>1, SmallerSets
        <3>2. z \in T \ {x} /\ x \in T \ {z}
            BY <2>1, <2>4
        <3>3. Sum(T \ {x}) = f[z] + Sum((T \ {x}) \ {z})
            BY <1>2, <3>1, <3>2
        <3>4. Sum(T \ {z}) = f[x] + Sum((T \ {z}) \ {x})
            BY <1>2, <3>1, <3>2
        <3>5. (T \ {x}) \ {z} = (T \ {z}) \ {x}
            OBVIOUS
        <3>6. Sum((T \ {z}) \ {x}) \in Int /\ f[x] \in Int /\ f[z] \in Int
            <4>1. Counts(f, (T \ {z}) \ {x})
                BY <2>1, SubsetsCount
            <4> QED BY <2>1, <4>1, SumIsInt DEF Counts
        <3>7. PICK a \in Int, b \in Int, c \in Int :
                  a = f[x] /\ b = f[z] /\ c = Sum((T \ {z}) \ {x})
            BY <3>6
        <3>8. Sum(T) = a + (b + c) /\ f[z] + Sum(T \ {z}) = b + (a + c)
            BY <2>2, <3>3, <3>4, <3>5, <3>7
        <3>9. a + (b + c) = b + (a + c)
            OBVIOUS
        <3> HIDE DEF Sum, N
        <3> QED BY <3>8, <3>9
    <2> QED BY <2>3, <2>4
<1>3. Nat \subseteq N
    <2> HIDE DEF N
    <2> QED BY <1>1, <1>2, SetInduction
<1>4. Cardinality(S) \in N
    <2> HIDE DEF N
    <2> QED BY <1>3, SubsetsCount
<1> QED BY <1>4

\* Two functions that agree on S have one sum over it.
LEMMA SumOfSame ==
    ASSUME NEW f, NEW g, NEW S, Counts(f, S), \A x \in S : f[x] = g[x]
    PROVE  SumFunctionOnSet(f, S) = SumFunctionOnSet(g, S)
<1>1. Counts(g, S)
    BY DEF Counts
<1>2. PICK h : IsSum(h, f, S) /\ SumFunctionOnSet(f, S) = h[S]
    BY SumRecurs
<1>3. PICK k : IsSum(k, g, S) /\ SumFunctionOnSet(g, S) = k[S]
    BY <1>1, SumRecurs
<1>4. IsSum(k, f, S)
    <2> SUFFICES ASSUME NEW T \in SUBSET S
                 PROVE  k[T] = IF T = {} THEN 0 ELSE f[First(T)] + k[T \ {First(T)}]
        BY DEF IsSum
    <2>1. T # {} => f[First(T)] = g[First(T)]
        BY DEF First
    <2> QED BY <1>3, <2>1 DEF IsSum
<1> QED BY <1>2, <1>3, <1>4, SumsAgree

\* What takes one element after another as a sum does is the sum.
LEMMA SumIsUnique ==
    ASSUME NEW f, NEW S, Counts(f, S), NEW g, g[{}] = 0,
           \A T \in SUBSET S : T # {} => \E x \in T : g[T] = f[x] + g[T \ {x}]
    PROVE  g[S] = SumFunctionOnSet(f, S)
<1> DEFINE Sum(T) == SumFunctionOnSet(f, T)
           N == {n \in Nat : \A T \in SUBSET S : Cardinality(T) = n => g[T] = Sum(T)}
<1>1. 0 \in N
    <2> SUFFICES ASSUME NEW T \in SUBSET S, Cardinality(T) = 0 PROVE g[T] = Sum(T)
        OBVIOUS
    <2>1. Counts(f, T) /\ T = {}
        BY SubsetsCount, FS_EmptySet DEF Counts
    <2> QED BY <2>1, SumIsInt
<1>2. ASSUME NEW n \in Nat, n \in N PROVE n + 1 \in N
    <2> SUFFICES ASSUME NEW T \in SUBSET S, Cardinality(T) = n + 1 PROVE g[T] = Sum(T)
        OBVIOUS
    <2>1. /\ Counts(f, T) /\ T # {}
          /\ \A x \in T : T \ {x} \in SUBSET S /\ Cardinality(T \ {x}) = n
        <3> HIDE DEF N
        <3> QED BY SmallerSets
    <2>2. PICK x \in T : g[T] = f[x] + g[T \ {x}]
        BY <2>1
    <2>3. g[T \ {x}] = Sum(T \ {x})
        BY <1>2, <2>1
    <2>4. Sum(T) = f[x] + Sum(T \ {x})
        BY <2>1, SumTakesAny
    <2> HIDE DEF Sum, N
    <2> QED BY <2>2, <2>3, <2>4
<1>3. Nat \subseteq N
    <2> HIDE DEF N
    <2> QED BY <1>1, <1>2, SetInduction
<1>4. Cardinality(S) \in N
    <2> HIDE DEF N
    <2> QED BY <1>3, SubsetsCount
<1> QED BY <1>4

\* A sum of ones counts.
LEMMA SumOfOnes ==
    ASSUME NEW f, NEW S, IsFiniteSet(S), \A x \in S : f[x] = 1
    PROVE  SumFunctionOnSet(f, S) = Cardinality(S)
<1> DEFINE g == [T \in SUBSET S |-> Cardinality(T)]
<1>1. Counts(f, S)
    BY DEF Counts
<1>2. g[{}] = 0
    BY FS_EmptySet
<1>3. ASSUME NEW T \in SUBSET S, T # {} PROVE \E x \in T : g[T] = f[x] + g[T \ {x}]
    <2>1. PICK x \in T : TRUE
        BY <1>3
    <2>2. IsFiniteSet(T) /\ Cardinality(T) \in Nat
        BY <1>1, SubsetsCount DEF Counts
    <2>3. Cardinality(T \ {x}) = Cardinality(T) - 1
        BY <2>2, FS_RemoveElement
    <2>4. Cardinality(T) = 1 + Cardinality(T \ {x})
        BY <2>2, <2>3
    <2> QED BY <2>4
<1>4. g[S] = SumFunctionOnSet(f, S)
    <2> HIDE DEF g
    <2> QED BY <1>1, <1>2, <1>3, SumIsUnique
<1> QED BY <1>4

LEMMA SumOfZeros ==
    ASSUME NEW f, NEW S, IsFiniteSet(S), \A x \in S : f[x] = 0
    PROVE  SumFunctionOnSet(f, S) = 0
<1> DEFINE g == [T \in SUBSET S |-> 0]
<1>1. Counts(f, S)
    BY DEF Counts
<1>2. g[S] = SumFunctionOnSet(f, S)
    <2>1. g[{}] = 0 /\ \A T \in SUBSET S : T # {} => \E x \in T : g[T] = f[x] + g[T \ {x}]
        OBVIOUS
    <2> HIDE DEF g
    <2> QED BY <1>1, <2>1, SumIsUnique
<1> QED BY <1>2

\* The sums over the groups of S, by a key of its elements, add up to that over S.
LEMMA SumOfGroups ==
    ASSUME NEW f, NEW S, Counts(f, S), NEW K, IsFiniteSet(K), NEW key,
           \A x \in S : key[x] \in K
    PROVE  SumFunctionOnSet([k \in K |-> SumFunctionOnSet(f, {x \in S : key[x] = k})], K)
               = SumFunctionOnSet(f, S)
<1> DEFINE Of(T, k) == {x \in T : key[x] = k}
           Per(T) == [k \in K |-> SumFunctionOnSet(f, Of(T, k))]
           g == [T \in SUBSET S |-> SumFunctionOnSet(Per(T), K)]
<1>1. ASSUME NEW T \in SUBSET S
      PROVE  Counts(Per(T), K) /\ \A k \in K : Counts(f, Of(T, k))
    <2>1. ASSUME NEW k \in K PROVE Counts(f, Of(T, k)) /\ Per(T)[k] \in Int
        <3>1. Counts(f, Of(T, k))
            BY SubsetsCount
        <3> QED BY <3>1, SumIsInt
    <2> HIDE DEF Per, Of
    <2> QED BY <2>1 DEF Counts
<1>2. g[{}] = 0
    <2>1. \A k \in K : Of({}, k) = {}
        OBVIOUS
    <2>2. \A k \in K : Per({})[k] = 0
        <3> HIDE DEF Of
        <3> QED BY <1>1, <2>1, SumIsInt
    <2>3. g[{}] = SumFunctionOnSet(Per({}), K)
        OBVIOUS
    <2> HIDE DEF Per, g
    <2> QED BY <2>2, <2>3, SumOfZeros
<1>3. ASSUME NEW T \in SUBSET S, T # {} PROVE \E x \in T : g[T] = f[x] + g[T \ {x}]
    <2>1. PICK x \in T : TRUE
        BY <1>3
    <2> DEFINE U == T \ {x}
               c == key[x]
    <2>2. U \in SUBSET S /\ c \in K
        OBVIOUS
    <2>3. Per(T)[c] = f[x] + Per(U)[c]
        <3>1. x \in Of(T, c) /\ Of(T, c) \ {x} = Of(U, c)
            OBVIOUS
        <3>2. Per(T)[c] = SumFunctionOnSet(f, Of(T, c))
              /\ Per(U)[c] = SumFunctionOnSet(f, Of(U, c))
            BY <2>2
        <3> HIDE DEF Per, Of, U, c
        <3> QED BY <1>1, <2>2, <3>1, <3>2, SumTakesAny
    <2>4. \A k \in K \ {c} : Per(T)[k] = Per(U)[k]
        <3>1. \A k \in K \ {c} : Of(T, k) = Of(U, k)
            OBVIOUS
        <3> QED BY <3>1
    <2>5. g[T] = SumFunctionOnSet(Per(T), K) /\ g[U] = SumFunctionOnSet(Per(U), K)
        BY <2>2
    <2>6. /\ Counts(Per(T), K) /\ Counts(Per(U), K)
          /\ Counts(Per(T), K \ {c}) /\ Counts(Per(U), K \ {c})
        <3>1. Counts(Per(T), K) /\ Counts(Per(U), K)
            BY <1>1, <2>2
        <3> HIDE DEF Per, U, c
        <3> QED BY <3>1, SubsetsCount
    <2>7. f[x] \in Int
        BY DEF Counts
    <2> HIDE DEF Per, Of, g, U, c
    <2>8. SumFunctionOnSet(Per(T), K) = Per(T)[c] + SumFunctionOnSet(Per(T), K \ {c})
        BY <2>2, <2>6, SumTakesAny
    <2>9. SumFunctionOnSet(Per(U), K) = Per(U)[c] + SumFunctionOnSet(Per(U), K \ {c})
        BY <2>2, <2>6, SumTakesAny
    <2>10. SumFunctionOnSet(Per(T), K \ {c}) = SumFunctionOnSet(Per(U), K \ {c})
        BY <2>4, <2>6, SumOfSame
    <2>11. PICK m \in Int, n \in Int :
               m = Per(U)[c] /\ n = SumFunctionOnSet(Per(U), K \ {c})
        BY <2>2, <2>6, SumIsInt DEF Counts
    <2>12. g[T] = (f[x] + m) + n /\ g[U] = m + n
        BY <2>3, <2>5, <2>8, <2>9, <2>10, <2>11
    <2>13. g[T] = f[x] + g[U]
        BY <2>7, <2>12
    <2> QED BY <2>13 DEF U
<1>4. g[S] = SumFunctionOnSet(f, S)
    <2> HIDE DEF g
    <2> QED BY <1>2, <1>3, SumIsUnique
<1> QED BY <1>4

\* And so do their numbers.
LEMMA CountOfGroups ==
    ASSUME NEW S, IsFiniteSet(S), NEW K, IsFiniteSet(K), NEW key,
           \A x \in S : key[x] \in K
    PROVE  SumFunctionOnSet([k \in K |-> Cardinality({x \in S : key[x] = k})], K)
               = Cardinality(S)
<1> DEFINE one == [x \in S |-> 1]
           Of(k) == {x \in S : key[x] = k}
<1>1. Counts(one, S)
    BY DEF Counts
<1>2. SumFunctionOnSet(one, S) = Cardinality(S)
    BY SumOfOnes
<1>3. \A k \in K : SumFunctionOnSet(one, Of(k)) = Cardinality(Of(k))
    <2> SUFFICES ASSUME NEW k \in K
                 PROVE  SumFunctionOnSet(one, Of(k)) = Cardinality(Of(k))
        OBVIOUS
    <2>1. IsFiniteSet(Of(k)) /\ \A x \in Of(k) : one[x] = 1
        BY FS_Subset
    <2> HIDE DEF one, Of
    <2> QED BY <2>1, SumOfOnes
<1>4. [k \in K |-> Cardinality(Of(k))] = [k \in K |-> SumFunctionOnSet(one, Of(k))]
    BY <1>3
<1>5. SumFunctionOnSet([k \in K |-> SumFunctionOnSet(one, {x \in S : key[x] = k})], K)
          = SumFunctionOnSet(one, S)
    <2> HIDE DEF one
    <2> QED BY <1>1, SumOfGroups
<1> QED BY <1>2, <1>4, <1>5
=============================================================================
