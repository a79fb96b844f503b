----------------------------- MODULE StreamProofs -----------------------------
(***************************************************************************)
(* Proofs about module StreamRestore, for all dictionaries, answers and     *)
(* chunks.                                                                 *)
(***************************************************************************)
EXTENDS StreamRestore, Induction, FiniteSetTheorems

-----------------------------------------------------------------------------
(* A word that does not meet what was put in stands in texts only as it did. *)

\* u has no place in common with o that says the same in both.
Apart(u, o) == o # <<>> /\ \A d \in Shifts(u, o) : ~Meets(u, o, d)

LEMMA ApartFacts ==
    ASSUME NEW A, NEW u \in Seq(A), NEW o \in Seq(A), Apart(u, o), NEW d \in Int,
           1 - Len(u) <= d, d < Len(o),
           \A q \in 1..Len(o) : q - d \in 1..Len(u) => o[q] = u[q - d]
    PROVE  FALSE
<1>1. d \in Shifts(u, o)
    BY EmptyText DEF Shifts
<1>2. Meets(u, o, d)
    BY DEF Meets
<1> QED BY <1>1, <1>2 DEF Apart

\* A text that begins with the end of u.
HeadsAreRaw(rest, text, u) ==
    \A i \in 1..(Len(text) + 1) : \A p \in 0..Len(u) :
        /\ Len(u) - p <= Len(rest[i])
        /\ \A j \in 1..(Len(u) - p) : rest[i][j] = u[p + j]
        => /\ i - 1 + Len(u) - p <= Len(text)
           /\ \A j \in 1..(Len(u) - p) : text[i - 1 + j] = u[p + j]

LEMMA HeadIsRaw ==
    ASSUME NEW A, NEW text \in Seq(A), NEW s \in Seq(A), Len(s) > 0, NEW new \in Seq(A),
           NEW rest, IsRest(rest, A, text, s, new),
           NEW u \in Seq(A), Apart(u, new)
    PROVE  HeadsAreRaw(rest, text, u)
<1> DEFINE Holds(p, i) == /\ Len(u) - p <= Len(rest[i])
                         /\ \A j \in 1..(Len(u) - p) : rest[i][j] = u[p + j]
           Raw(p, i) == /\ i - 1 + Len(u) - p <= Len(text)
                        /\ \A j \in 1..(Len(u) - p) : text[i - 1 + j] = u[p + j]
           n == Len(text) + 1
           S == {i \in 1..n : \A p \in 0..Len(u) : Holds(p, i) => Raw(p, i)}
<1>0. Len(text) \in Nat /\ Len(s) \in Nat /\ Len(u) \in Nat /\ Len(new) \in Nat /\ Len(new) > 0
    BY EmptyText DEF Apart
<1>1. ASSUME NEW i \in 1..n, \A j \in (i + 1)..n : j \in S
      PROVE  i \in S
    <2> SUFFICES ASSUME NEW p \in 0..Len(u), Holds(p, i) PROVE Raw(p, i)
        OBVIOUS
    <2>1. CASE p = Len(u)
        BY <1>0, <2>1
    <2>2. CASE p < Len(u) /\ i = n
        BY <1>0, <2>2, EmptyText DEF IsRest
    <2>3. CASE p < Len(u) /\ i < n /\ At(s, text, i - 1)
        <3>0. i \in 1..Len(text)
            BY <1>0, <2>3
        <3>1. /\ rest[i] = new \o rest[i + Len(s)]
              /\ rest[i + Len(s)] \in Seq(A)
            <4>1. At(s, text, i - 1) /\ i \in 1..Len(text)
                BY <2>3, <3>0
            <4>2. i + Len(s) \in (i + 1)..(Len(text) + 1) /\ rest[i] = new \o rest[i + Len(s)]
                BY <4>1 DEF IsRest
            <4>3. i + Len(s) \in 1..(Len(text) + 1)
                BY <1>0, <3>0, <4>2
            <4>4. rest[i + Len(s)] \in Seq(A)
                BY <4>3 DEF IsRest
            <4> QED BY <4>2, <4>4
        <3>2. ASSUME NEW q \in 1..Len(new), q + p \in 1..Len(u) PROVE new[q] = u[q + p]
            <4>1. rest[i][q] = new[q]
                BY <3>1, ConcatFacts
            <4>2. q \in 1..(Len(u) - p) /\ p + q = q + p
                BY <1>0, <3>2
            <4>3. rest[i][q] = u[p + q]
                BY <4>2
            <4> QED BY <4>1, <4>2, <4>3
        <3>3. 0 - p \in Int /\ 1 - Len(u) <= 0 - p /\ 0 - p < Len(new)
            BY <1>0, <2>3
        <3>4. \A q \in 1..Len(new) : q - (0 - p) = q + p
            BY <1>0
        <3>5. \A q \in 1..Len(new) : q - (0 - p) \in 1..Len(u) => new[q] = u[q - (0 - p)]
            BY <3>2, <3>4
        <3> QED BY <3>3, <3>5, ApartFacts
    <2>4. CASE p < Len(u) /\ i < n /\ ~At(s, text, i - 1)
        <3>1. /\ rest[i] = <<text[i]>> \o rest[i + 1]
              /\ rest[i + 1] \in Seq(A) /\ <<text[i]>> \in Seq(A)
            BY <1>0, <2>4 DEF IsRest
        <3>2. /\ Len(rest[i]) = 1 + Len(rest[i + 1]) /\ Len(rest[i + 1]) \in Nat
              /\ rest[i][1] = text[i]
              /\ \A j \in 1..Len(rest[i + 1]) : rest[i][1 + j] = rest[i + 1][j]
            BY <3>1, ConcatFacts
        <3>3. Holds(p + 1, i + 1)
            <4>1. Len(u) - (p + 1) <= Len(rest[i + 1])
                BY <1>0, <3>2
            <4>2. ASSUME NEW j \in 1..(Len(u) - (p + 1)) PROVE rest[i + 1][j] = u[p + 1 + j]
                <5>1. j \in 1..Len(rest[i + 1]) /\ 1 + j \in 1..(Len(u) - p)
                    BY <1>0, <4>1, <3>2
                <5>2. rest[i][1 + j] = u[p + (1 + j)] /\ rest[i][1 + j] = rest[i + 1][j]
                    BY <3>2, <5>1
                <5>3. p + (1 + j) = p + 1 + j
                    BY <5>1
                <5> QED BY <5>2, <5>3
            <4> QED BY <4>1, <4>2
        <3>4. i + 1 \in S /\ p + 1 \in 0..Len(u)
            <4>1. i + 1 \in (i + 1)..n /\ p + 1 \in 0..Len(u)
                BY <1>0, <2>4
            <4> HIDE DEF S
            <4> QED BY <1>1, <4>1
        <3>5. Raw(p + 1, i + 1)
            BY <3>3, <3>4
        <3>6. i - 1 + Len(u) - p <= Len(text)
            BY <1>0, <3>5
        <3>7. ASSUME NEW j \in 1..(Len(u) - p) PROVE text[i - 1 + j] = u[p + j]
            <4>1. CASE j = 1
                <5>1. rest[i][1] = u[p + 1]
                    BY <4>1
                <5>2. i - 1 + j = i
                    BY <4>1
                <5> QED BY <3>2, <4>1, <5>1, <5>2
            <4>2. CASE j > 1
                <5>1. PICK m \in 1..(Len(u) - (p + 1)) : j = m + 1
                    <6>1. j - 1 \in 1..(Len(u) - (p + 1)) /\ j = (j - 1) + 1
                        BY <1>0, <4>2
                    <6> QED BY <6>1
                <5>2. text[(i + 1) - 1 + m] = u[(p + 1) + m]
                    BY <3>5
                <5>3. (i + 1) - 1 + m = i - 1 + j /\ (p + 1) + m = p + j
                    BY <5>1
                <5> QED BY <5>2, <5>3
            <4> QED BY <4>1, <4>2
        <3> QED BY <3>6, <3>7
    <2>5. \/ p = Len(u)
          \/ p < Len(u) /\ i = n
          \/ p < Len(u) /\ i < n /\ At(s, text, i - 1)
          \/ p < Len(u) /\ i < n /\ ~At(s, text, i - 1)
        BY <1>0
    <2> HIDE DEF Raw, n
    <2> QED BY <2>1, <2>2, <2>3, <2>4, <2>5
<1>2. 1..n \subseteq S
    <2>1. n \in Nat
        BY <1>0
    <2> HIDE DEF S, n
    <2> QED BY <1>1, <2>1, Downward
<1> QED BY <1>2 DEF HeadsAreRaw

\* A text that is all inside u.
LEMMA InsideIsRaw ==
    ASSUME NEW A, NEW text \in Seq(A), NEW s \in Seq(A), Len(s) > 0, NEW new \in Seq(A),
           NEW rest, IsRest(rest, A, text, s, new),
           NEW u \in Seq(A), Apart(u, new)
    PROVE  \A i \in 1..(Len(text) + 1) : \A p \in 0..Len(u) :
              /\ p + Len(rest[i]) <= Len(u)
              /\ \A j \in 1..Len(rest[i]) : rest[i][j] = u[p + j]
              => /\ Len(rest[i]) = Len(text) + 1 - i
                 /\ \A j \in 1..Len(rest[i]) : rest[i][j] = text[i - 1 + j]
<1> DEFINE Inside(p, i) == /\ p + Len(rest[i]) <= Len(u)
                           /\ \A j \in 1..Len(rest[i]) : rest[i][j] = u[p + j]
           Raw(i) == /\ Len(rest[i]) = Len(text) + 1 - i
                     /\ \A j \in 1..Len(rest[i]) : rest[i][j] = text[i - 1 + j]
           n == Len(text) + 1
           S == {i \in 1..n : \A p \in 0..Len(u) : Inside(p, i) => Raw(i)}
<1>0. Len(text) \in Nat /\ Len(s) \in Nat /\ Len(u) \in Nat /\ Len(new) \in Nat /\ Len(new) > 0
    BY EmptyText DEF Apart
<1>1. ASSUME NEW i \in 1..n, \A j \in (i + 1)..n : j \in S
      PROVE  i \in S
    <2> SUFFICES ASSUME NEW p \in 0..Len(u), Inside(p, i) PROVE Raw(i)
        OBVIOUS
    <2>0. p \in Nat /\ p + Len(rest[i]) <= Len(u)
        BY <1>0
    <2>1. CASE i = n
        <3>1. rest[i] = <<>>
            BY <2>1 DEF IsRest
        <3>2. Len(rest[i]) = 0
            BY <3>1, EmptyText
        <3> QED BY <1>0, <2>1, <3>2
    <2>2. CASE i < n /\ At(s, text, i - 1)
        <3>0. i \in 1..Len(text)
            BY <1>0, <2>2
        <3>1. /\ rest[i] = new \o rest[i + Len(s)]
              /\ rest[i + Len(s)] \in Seq(A)
            <4>1. At(s, text, i - 1) /\ i \in 1..Len(text)
                BY <2>2, <3>0
            <4>2. i + Len(s) \in (i + 1)..(Len(text) + 1) /\ rest[i] = new \o rest[i + Len(s)]
                BY <4>1 DEF IsRest
            <4>3. i + Len(s) \in 1..(Len(text) + 1)
                BY <1>0, <3>0, <4>2
            <4>4. rest[i + Len(s)] \in Seq(A)
                BY <4>3 DEF IsRest
            <4> QED BY <4>2, <4>4
        <3>2. /\ Len(rest[i + Len(s)]) \in Nat
              /\ Len(rest[i]) = Len(new) + Len(rest[i + Len(s)])
              /\ \A q \in 1..Len(new) : rest[i][q] = new[q]
            BY <3>1, ConcatFacts
        <3>3. ASSUME NEW q \in 1..Len(new) PROVE new[q] = u[q - (0 - p)]
            <4>1. q \in 1..Len(rest[i]) /\ p + q = q - (0 - p)
                BY <1>0, <3>2
            <4>2. rest[i][q] = u[p + q]
                BY <4>1
            <4> QED BY <3>2, <4>1, <4>2
        <3>4. 0 - p \in Int /\ 1 - Len(u) <= 0 - p /\ 0 - p < Len(new)
            BY <1>0, <3>2
        <3> QED BY <3>3, <3>4, ApartFacts
    <2>3. CASE i < n /\ ~At(s, text, i - 1)
        <3>0. i \in 1..Len(text)
            BY <1>0, <2>3
        <3>1. /\ rest[i] = <<text[i]>> \o rest[i + 1]
              /\ rest[i + 1] \in Seq(A) /\ <<text[i]>> \in Seq(A)
            BY <1>0, <2>3, <3>0 DEF IsRest
        <3>2. /\ Len(rest[i]) = 1 + Len(rest[i + 1]) /\ Len(rest[i + 1]) \in Nat
              /\ rest[i][1] = text[i]
              /\ \A j \in 1..Len(rest[i + 1]) : rest[i][1 + j] = rest[i + 1][j]
            BY <3>1, ConcatFacts
        <3>3. Inside(p + 1, i + 1)
            <4>1. p + 1 + Len(rest[i + 1]) <= Len(u)
                <5>1. \A x, y, z \in Nat : p + x <= z /\ x = 1 + y => p + 1 + y <= z
                    BY <2>0
                <5>2. Len(rest[i]) \in Nat
                    BY <3>2
                <5> QED BY <1>0, <2>0, <3>2, <5>1, <5>2
            <4>2. ASSUME NEW j \in 1..Len(rest[i + 1]) PROVE rest[i + 1][j] = u[p + 1 + j]
                <5>0. j \in 1..Len(rest[i + 1])
                    OBVIOUS
                <5>1. 1 + j \in 1..Len(rest[i]) /\ p + (1 + j) = p + 1 + j
                    BY ONLY <2>0, <3>2, <5>0
                <5>2. rest[i][1 + j] = u[p + (1 + j)] /\ rest[i][1 + j] = rest[i + 1][j]
                    BY <3>2, <5>1
                <5> QED BY <5>1, <5>2
            <4> QED BY <4>1, <4>2
        <3>4. Raw(i + 1)
            <4>0. p + 1 \in 0..Len(u)
                BY ONLY <1>0, <2>0, <3>2
            <4>1. i + 1 \in (i + 1)..n
                BY <1>0, <2>3
            <4>2. i + 1 \in S
                BY <1>1, <4>1
            <4> QED BY <3>3, <4>0, <4>2
        <3>5. Len(rest[i]) = Len(text) + 1 - i
            BY <1>0, <3>2, <3>4
        <3>6. ASSUME NEW j \in 1..Len(rest[i]) PROVE rest[i][j] = text[i - 1 + j]
            <4>1. CASE j = 1
                <5>1. i - 1 + j = i
                    BY <4>1
                <5> QED BY <3>2, <4>1, <5>1
            <4>2. CASE j > 1
                <5>1. PICK m \in 1..Len(rest[i + 1]) : j = 1 + m
                    <6>1. j - 1 \in 1..Len(rest[i + 1]) /\ j = 1 + (j - 1)
                        BY <3>2, <4>2
                    <6> QED BY <6>1
                <5>2. rest[i + 1][m] = text[(i + 1) - 1 + m]
                    BY <3>4
                <5>3. (i + 1) - 1 + m = i - 1 + j
                    BY <5>1
                <5> QED BY <3>2, <5>1, <5>2, <5>3
            <4> QED BY <4>1, <4>2
        <3> QED BY <3>5, <3>6
    <2>4. \/ i = n
          \/ i < n /\ At(s, text, i - 1)
          \/ i < n /\ ~At(s, text, i - 1)
        BY <1>0
    <2> HIDE DEF Raw, n
    <2> QED BY <2>1, <2>2, <2>3, <2>4
<1>2. 1..n \subseteq S
    <2>1. n \in Nat
        BY <1>0
    <2> HIDE DEF S, n
    <2> QED BY <1>1, <2>1, Downward
<1> QED BY <1>2

\* A text that ends with the beginning of u.
TailsAreRaw(rest, text, u) ==
    \A i \in 1..(Len(text) + 1) : \A k \in 0..Len(u) :
        /\ k <= Len(rest[i])
        /\ \A j \in 1..k : rest[i][Len(rest[i]) - k + j] = u[j]
        => /\ k <= Len(text) + 1 - i
           /\ \A j \in 1..k : text[Len(text) - k + j] = u[j]

LEMMA TailIsRaw ==
    ASSUME NEW A, NEW text \in Seq(A), NEW s \in Seq(A), Len(s) > 0, NEW new \in Seq(A),
           NEW rest, IsRest(rest, A, text, s, new),
           NEW u \in Seq(A), Apart(u, new)
    PROVE  TailsAreRaw(rest, text, u)
<1> DEFINE Tail1(k, i) == /\ k <= Len(rest[i])
                          /\ \A j \in 1..k : rest[i][Len(rest[i]) - k + j] = u[j]
           Raw(k, i) == /\ k <= Len(text) + 1 - i
                        /\ \A j \in 1..k : text[Len(text) - k + j] = u[j]
           n == Len(text) + 1
           S == {i \in 1..n : \A k \in 0..Len(u) : Tail1(k, i) => Raw(k, i)}
<1>0. Len(text) \in Nat /\ Len(s) \in Nat /\ Len(u) \in Nat /\ Len(new) \in Nat /\ Len(new) > 0
    BY EmptyText DEF Apart
<1>1. ASSUME NEW i \in 1..n, \A j \in (i + 1)..n : j \in S
      PROVE  i \in S
    <2> SUFFICES ASSUME NEW k \in 0..Len(u), Tail1(k, i) PROVE Raw(k, i)
        OBVIOUS
    <2>1. CASE k = 0
        BY <1>0, <2>1
    <2>2. CASE k > 0 /\ i = n
        <3>1. rest[i] = <<>>
            BY <2>2 DEF IsRest
        <3>2. Len(rest[i]) = 0
            BY <3>1, EmptyText
        <3> QED BY <2>2, <3>2
    \* The step from i to m, over a part of the text that gives z.
    <2>3. ASSUME NEW m \in (i + 1)..n, NEW z \in Seq(A), rest[i] = z \o rest[m],
                 k <= Len(rest[m])
          PROVE  Raw(k, i)
        <3>1. rest[m] \in Seq(A)
            BY <1>0 DEF IsRest
        <3>2. /\ Len(rest[i]) = Len(z) + Len(rest[m]) /\ Len(rest[m]) \in Nat /\ Len(z) \in Nat
              /\ \A j \in 1..Len(rest[m]) : rest[i][Len(z) + j] = rest[m][j]
            BY <2>3, <3>1, ConcatFacts
        <3>3. ASSUME NEW j \in 1..k PROVE rest[m][Len(rest[m]) - k + j] = u[j]
            <4>0. j \in 1..k /\ k \in Nat
                BY <1>0
            <4>1. PICK q \in 1..Len(rest[m]) : q = Len(rest[m]) - k + j
                <5>1. Len(rest[m]) - k + j \in 1..Len(rest[m])
                    BY ONLY <2>3, <3>2, <4>0
                <5> QED BY <5>1
            <4>2. Len(rest[i]) - k + j = Len(z) + q
                BY <3>2, <4>1
            <4>3. rest[i][Len(z) + q] = u[j]
                BY <4>2
            <4> QED BY <3>2, <4>1, <4>3
        <3>4. Tail1(k, m)
            BY <2>3, <3>3
        <3>5. m \in S
            BY <1>1, <2>3
        <3>6. Raw(k, m)
            BY <3>4, <3>5
        <3> QED BY <1>0, <2>3, <3>6
    <2>4. CASE k > 0 /\ i < n /\ At(s, text, i - 1)
        <3>0. i \in 1..Len(text)
            BY <1>0, <2>4
        <3>1. /\ rest[i] = new \o rest[i + Len(s)]
              /\ i + Len(s) \in (i + 1)..(Len(text) + 1)
              /\ rest[i + Len(s)] \in Seq(A)
            <4>1. At(s, text, i - 1) /\ i \in 1..Len(text)
                BY <2>4, <3>0
            <4>2. i + Len(s) \in (i + 1)..(Len(text) + 1) /\ rest[i] = new \o rest[i + Len(s)]
                BY <4>1 DEF IsRest
            <4>3. i + Len(s) \in 1..(Len(text) + 1)
                BY <1>0, <3>0, <4>2
            <4>4. rest[i + Len(s)] \in Seq(A)
                BY <4>3 DEF IsRest
            <4> QED BY <4>2, <4>4
        <3> DEFINE m == i + Len(s)
        <3> HIDE DEF m
        <3>2. /\ Len(rest[i]) = Len(new) + Len(rest[m]) /\ Len(rest[m]) \in Nat
              /\ \A q \in 1..Len(new) : rest[i][q] = new[q]
            BY <3>1, ConcatFacts DEF m
        <3>3. CASE k <= Len(rest[m])
            BY <2>3, <3>1, <3>3 DEF m
        <3>4. CASE k > Len(rest[m])
            <4>1. PICK d \in Nat : d = Len(rest[i]) - k
                <5>1. Len(rest[i]) - k \in Nat
                    BY <3>2
                <5> QED BY <5>1
            <4>2. d < Len(new) /\ 1 - Len(u) <= d /\ d \in Int
                BY <1>0, <2>4, <3>2, <3>4, <4>1
            <4>3. ASSUME NEW q \in 1..Len(new), q - d \in 1..Len(u) PROVE new[q] = u[q - d]
                <5>0. q \in 1..Len(new) /\ k \in Nat
                    BY <1>0
                <5>1. q - d \in 1..k /\ Len(rest[i]) - k + (q - d) = q
                    <6>1. \A b, x \in Nat : x = Len(new) + b =>
                             q - (x - k) <= k /\ x - k + (q - (x - k)) = q
                        BY <1>0, <5>0
                    <6>2. Len(rest[i]) \in Nat
                        BY <1>0, <3>2
                    <6>3. q - d <= k /\ Len(rest[i]) - k + (q - d) = q
                        BY <1>0, <3>2, <4>1, <6>1, <6>2
                    <6> QED BY <4>3, <5>0, <6>3
                <5>2. rest[i][Len(rest[i]) - k + (q - d)] = u[q - d]
                    BY <5>1
                <5> QED BY <3>2, <5>1, <5>2
            <4> QED BY <4>2, <4>3, ApartFacts
        <3> QED BY <3>2, <3>3, <3>4
    <2>5. CASE k > 0 /\ i < n /\ ~At(s, text, i - 1)
        <3>0. i \in 1..Len(text)
            BY <1>0, <2>5
        <3>1. /\ rest[i] = <<text[i]>> \o rest[i + 1]
              /\ rest[i + 1] \in Seq(A) /\ <<text[i]>> \in Seq(A) /\ Len(<<text[i]>>) = 1
              /\ i + 1 \in (i + 1)..n
            BY <1>0, <2>5, <3>0 DEF IsRest
        <3>2. Len(rest[i]) = 1 + Len(rest[i + 1]) /\ Len(rest[i + 1]) \in Nat
            BY <3>1, ConcatFacts
        <3>3. CASE k <= Len(rest[i + 1])
            BY <2>3, <3>1, <3>3
        <3>4. CASE k > Len(rest[i + 1])
            <4>1. k = Len(rest[i])
                BY <3>2, <3>4
            <4>2. \A j \in 1..Len(rest[i]) : rest[i][j] = u[0 + j]
                <5>1. ASSUME NEW j \in 1..k PROVE rest[i][j] = u[0 + j]
                    <6>1. Len(rest[i]) - k + j = j /\ 0 + j = j
                        BY <4>1
                    <6>2. rest[i][Len(rest[i]) - k + j] = u[j]
                        OBVIOUS
                    <6> QED BY <6>1, <6>2
                <5> QED BY <4>1, <5>1
            <4>3. 0 \in 0..Len(u) /\ 0 + Len(rest[i]) <= Len(u)
                BY <1>0, <4>1, <3>2
            <4>4. /\ Len(rest[i]) = Len(text) + 1 - i
                  /\ \A j \in 1..Len(rest[i]) : rest[i][j] = text[i - 1 + j]
                BY <4>2, <4>3, InsideIsRaw
            <4>5. ASSUME NEW j \in 1..k PROVE text[Len(text) - k + j] = u[j]
                <5>1. Len(text) - k + j = i - 1 + j /\ 0 + j = j
                    BY <1>0, <4>1, <4>4
                <5> QED BY <4>1, <4>2, <4>4, <5>1
            <4> QED BY <4>1, <4>4, <4>5
        <3> QED BY <3>2, <3>3, <3>4
    <2>6. \/ k = 0
          \/ k > 0 /\ i = n
          \/ k > 0 /\ i < n /\ At(s, text, i - 1)
          \/ k > 0 /\ i < n /\ ~At(s, text, i - 1)
        BY <1>0
    <2> HIDE DEF Raw, n
    <2> QED BY <2>1, <2>2, <2>4, <2>5, <2>6
<1>2. 1..n \subseteq S
    <2>1. n \in Nat
        BY <1>0
    <2> HIDE DEF S, n
    <2> QED BY <1>1, <2>1, Downward
<1> QED BY <1>2 DEF TailsAreRaw

-----------------------------------------------------------------------------
(* Words at the ends of what was replaced. *)

Begins(x, u, k) == Len(u) - k <= Len(x) /\ \A j \in 1..(Len(u) - k) : x[j] = u[k + j]

Ends(x, u, k) == k <= Len(x) /\ \A j \in 1..k : x[Len(x) - k + j] = u[j]

\* The end of u that a text begins with after the replacement was there before.
LEMMA HeadOfReplaced ==
    ASSUME NEW A, NEW text \in Seq(A), NEW s \in Seq(A), Len(s) > 0, NEW new \in Seq(A),
           NEW u \in Seq(A), Apart(u, new), NEW k \in 0..Len(u),
           NEW y, y = Replaced(text, s, new), Begins(y, u, k)
    PROVE  Begins(text, u, k)
<1> DEFINE rest == Rest(text, s, new)
<1>1. IsRest(rest, A, text, s, new) /\ y = rest[1]
    BY RestFacts, ReplacedIsRest
<1> HIDE DEF rest
<1>2. 1 \in 1..(Len(text) + 1) /\ Len(text) \in Nat /\ Len(u) - k \in Nat /\ k \in Nat
    BY EmptyText
<1> DEFINE Holds(i, p) == /\ Len(u) - p <= Len(rest[i])
                         /\ \A j \in 1..(Len(u) - p) : rest[i][j] = u[p + j]
           Raw(i, p) == /\ i - 1 + Len(u) - p <= Len(text)
                        /\ \A j \in 1..(Len(u) - p) : text[i - 1 + j] = u[p + j]
<1>3. HeadsAreRaw(rest, text, u)
    BY <1>1, HeadIsRaw
<1>4. \A i \in 1..(Len(text) + 1) : \A p \in 0..Len(u) : Holds(i, p) => Raw(i, p)
    BY <1>3 DEF HeadsAreRaw
<1>5. Holds(1, k)
    BY <1>1 DEF Begins
<1> HIDE DEF Holds, Raw
<1>6. Raw(1, k)
    BY <1>2, <1>4, <1>5
<1>7. /\ 1 - 1 + Len(u) - k <= Len(text)
      /\ \A j \in 1..(Len(u) - k) : text[1 - 1 + j] = u[k + j]
    BY <1>6 DEF Raw
<1>8. 1 - 1 + Len(u) - k = Len(u) - k /\ \A j \in 1..(Len(u) - k) : 1 - 1 + j = j
    BY <1>2, EmptyText
<1> QED BY <1>7, <1>8 DEF Begins

\* So was the beginning of u that it ends with.
LEMMA TailOfReplaced ==
    ASSUME NEW A, NEW text \in Seq(A), NEW s \in Seq(A), Len(s) > 0, NEW new \in Seq(A),
           NEW u \in Seq(A), Apart(u, new), NEW k \in 0..Len(u),
           NEW x, x = Replaced(text, s, new), Ends(x, u, k)
    PROVE  Ends(text, u, k)
<1> DEFINE rest == Rest(text, s, new)
<1>1. IsRest(rest, A, text, s, new) /\ x = rest[1]
    BY RestFacts, ReplacedIsRest
<1> HIDE DEF rest
<1>2. 1 \in 1..(Len(text) + 1) /\ Len(text) \in Nat /\ k \in Nat
    BY EmptyText
<1> DEFINE Tail1(i, p) == /\ p <= Len(rest[i])
                          /\ \A j \in 1..p : rest[i][Len(rest[i]) - p + j] = u[j]
           Raw(i, p) == /\ p <= Len(text) + 1 - i
                        /\ \A j \in 1..p : text[Len(text) - p + j] = u[j]
<1>3. TailsAreRaw(rest, text, u)
    BY <1>1, TailIsRaw
<1>4. \A i \in 1..(Len(text) + 1) : \A p \in 0..Len(u) : Tail1(i, p) => Raw(i, p)
    BY <1>3 DEF TailsAreRaw
<1>5. Tail1(1, k)
    BY <1>1 DEF Ends
<1> HIDE DEF Tail1, Raw
<1>6. Raw(1, k)
    BY <1>2, <1>4, <1>5
<1>7. /\ k <= Len(text) + 1 - 1
      /\ \A j \in 1..k : text[Len(text) - k + j] = u[j]
    BY <1>6 DEF Raw
<1> QED BY <1>2, <1>7 DEF Ends

\* Nor does it make a word that lies in both.
LEMMA WholeAfter ==
    ASSUME NEW A, NEW text, NEW a, NEW b, Joins(A, text, a, b),
           NEW s \in Seq(A), Len(s) > 0, NEW new \in Seq(A),
           NEW u \in Seq(A), Apart(u, new), Whole(u, text, Len(a)),
           NEW out, Joins(A, out, Replaced(a, s, new), Replaced(b, s, new))
    PROVE  Whole(u, out, Len(Replaced(a, s, new)))
<1> DEFINE x == Replaced(a, s, new)
           y == Replaced(b, s, new)
<1>1. a \in Seq(A) /\ b \in Seq(A) /\ Len(a) \in Nat /\ Len(b) \in Nat /\ Len(u) \in Nat
    BY EmptyText DEF Joins
<1>2. Joins(A, out, x, y)
    OBVIOUS
<1>3. x = Replaced(a, s, new) /\ y = Replaced(b, s, new)
    OBVIOUS
<1> HIDE DEF x, y
<1>4. Len(x) \in Nat /\ Len(y) \in Nat /\ Len(out) = Len(x) + Len(y)
    BY <1>2 DEF Joins
<1>5. ASSUME NEW n \in Nat, n < Len(x), Len(x) < n + Len(u), At(u, out, n)
      PROVE  FALSE
    <2>0. n + Len(u) <= Len(out) /\ \A j \in 1..Len(u) : out[n + j] = u[j]
        BY <1>5 DEF At
    <2>1. PICK k \in 0..Len(u) : k = Len(x) - n /\ k > 0 /\ k < Len(u)
        <3>1. Len(x) - n \in 0..Len(u) /\ Len(x) - n > 0 /\ Len(x) - n < Len(u)
            BY <1>1, <1>4, <1>5
        <3> QED BY <3>1
    <2>2. k <= Len(x) /\ \A j \in 1..k : x[Len(x) - k + j] = u[j]
        <3>1. ASSUME NEW j \in 1..k PROVE x[Len(x) - k + j] = u[j]
            <4>1. Len(x) - k + j = n + j /\ n + j \in 1..Len(x) /\ j \in 1..Len(u)
                BY <1>1, <1>4, <2>1
            <4>2. out[n + j] = x[n + j]
                BY <1>2, <4>1 DEF Joins
            <4> QED BY <2>0, <4>1, <4>2
        <3> QED BY <1>4, <2>1, <3>1
    <2>3. Len(u) - k <= Len(y) /\ \A j \in 1..(Len(u) - k) : y[j] = u[k + j]
        <3>0. k \in Nat /\ n \in Nat
            BY <1>1
        <3>1. Len(u) - k <= Len(y)
            BY ONLY <1>1, <1>4, <2>0, <2>1, <3>0
        <3>2. ASSUME NEW j \in 1..(Len(u) - k) PROVE y[j] = u[k + j]
            <4>0. j \in 1..(Len(u) - k)
                OBVIOUS
            <4>1. n + (k + j) = Len(x) + j /\ k + j \in 1..Len(u) /\ j \in 1..Len(y)
                BY ONLY <1>1, <1>4, <2>1, <3>0, <3>1, <4>0
            <4>2. out[n + (k + j)] = u[k + j]
                BY <2>0, <4>1
            <4>3. out[Len(x) + j] = y[j]
                BY <1>2, <4>1 DEF Joins
            <4> QED BY <4>1, <4>2, <4>3
        <3> QED BY <3>1, <3>2
    <2>4. k <= Len(a) /\ \A j \in 1..k : a[Len(a) - k + j] = u[j]
        <3>1. Ends(x, u, k)
            BY <2>2 DEF Ends
        <3>2. Ends(a, u, k)
            BY <1>1, <1>3, <3>1, TailOfReplaced
        <3> QED BY <3>2 DEF Ends
    <2>5. Len(u) - k <= Len(b) /\ \A j \in 1..(Len(u) - k) : b[j] = u[k + j]
        <3>1. Begins(y, u, k)
            BY <2>3 DEF Begins
        <3>2. Begins(b, u, k)
            BY <1>1, <1>3, <3>1, HeadOfReplaced
        <3> QED BY <3>2 DEF Begins
    <2>6. /\ Len(text) = Len(a) + Len(b)
          /\ \A i \in 1..Len(a) : text[i] = a[i]
          /\ \A i \in 1..Len(b) : text[Len(a) + i] = b[i]
        BY DEF Joins
    <2>7. PICK m \in Nat : m = Len(a) - k
        <3>1. Len(a) - k \in Nat
            BY <1>1, <2>4
        <3> QED BY <3>1
    <2>8. At(u, text, m)
        <3>1. m + Len(u) <= Len(text)
            BY <1>1, <2>5, <2>6, <2>7
        <3>2. ASSUME NEW j \in 1..Len(u) PROVE text[m + j] = u[j]
            <4>1. CASE j <= k
                <5>1. m + j \in 1..Len(a) /\ m + j = Len(a) - k + j /\ j \in 1..k
                    BY <1>1, <2>4, <2>7, <4>1
                <5> QED BY <2>4, <2>6, <5>1
            <4>2. CASE j > k
                <5>1. PICK i \in 1..(Len(u) - k) : j = k + i
                    <6>1. j - k \in 1..(Len(u) - k) /\ j = k + (j - k)
                        BY <1>1, <4>2
                    <6> QED BY <6>1
                <5>2. m + j = Len(a) + i /\ i \in 1..Len(b)
                    BY <1>1, <2>5, <2>7, <5>1
                <5> QED BY <2>5, <2>6, <5>1, <5>2
            <4>3. j <= k \/ j > k
                BY <1>1
            <4> QED BY <4>1, <4>2, <4>3
        <3> QED BY <3>1, <3>2 DEF At
    <2>9. m < Len(a) /\ Len(a) < m + Len(u)
        <3>1. k \in Nat
            BY <1>1
        <3> QED BY ONLY <1>1, <2>1, <2>7, <3>1
    <2> QED BY <2>8, <2>9 DEF Whole
<1> QED BY <1>3, <1>5 DEF Whole
-----------------------------------------------------------------------------
(* The dictionary. *)

Places == 1..Len(Surrogates)

Letters ==
    Chars \cup (UNION {Range(s) : s \in Range(Surrogates)})
          \cup (UNION {Range(Original[s]) : s \in Range(Surrogates)})

LEMMA DictionaryFacts ==
    /\ Len(Surrogates) \in Nat /\ DOMAIN Surrogates = Places
    /\ \A s : s \in Range(Surrogates) <=> \E i \in Places : s = Surrogates[i]
    /\ \A i \in Places : Surrogates[i] \in Range(Surrogates)
    /\ \A s \in Range(Surrogates) :
          /\ s \in Seq(Letters) /\ Len(s) \in Nat /\ Len(s) > 0
          /\ Original[s] \in Seq(Letters) /\ Len(Original[s]) \in Nat
<1>1. Len(Surrogates) \in Nat /\ DOMAIN Surrogates = Places
    BY StreamAssumption DEF IsText, Places
<1>2. \A s : s \in Range(Surrogates) <=> \E i \in Places : s = Surrogates[i]
    BY <1>1 DEF Range
<1>3. ASSUME NEW s \in Range(Surrogates)
      PROVE  /\ s \in Seq(Letters) /\ Len(s) \in Nat /\ Len(s) > 0
             /\ Original[s] \in Seq(Letters) /\ Len(Original[s]) \in Nat
    <2>1. s \in Seq(Range(s)) /\ s # <<>> /\ Original[s] \in Seq(Range(Original[s]))
        BY StreamAssumption DEF IsText
    <2>2. Range(s) \subseteq Letters /\ Range(Original[s]) \subseteq Letters
        <3>1. /\ Range(s) \in {Range(t) : t \in Range(Surrogates)}
              /\ Range(Original[s]) \in {Range(Original[t]) : t \in Range(Surrogates)}
            OBVIOUS
        <3>2. \A S, T : S \in T => S \subseteq UNION T
            OBVIOUS
        <3>3. /\ Range(s) \subseteq UNION {Range(t) : t \in Range(Surrogates)}
              /\ Range(Original[s]) \subseteq UNION {Range(Original[t]) : t \in Range(Surrogates)}
            BY ONLY <3>1, <3>2
        <3> QED BY <3>3 DEF Letters
    <2>3. PICK t : t = s
        OBVIOUS
    <2>4. PICK o : o = Original[s]
        OBVIOUS
    <2>5. t \in Seq(Letters) /\ o \in Seq(Letters)
        <3>1. ASSUME NEW S, S \subseteq Letters, NEW v \in Seq(S) PROVE v \in Seq(Letters)
            <4>1. \A i \in 1..Len(v) : v[i] \in Letters
                BY <3>1
            <4> QED BY <4>1, TextOver
        <3> QED BY <2>1, <2>2, <2>3, <2>4, <3>1
    <2> QED BY <2>1, <2>3, <2>4, <2>5, EmptyText
<1> QED BY <1>1, <1>2, <1>3

\* As many surrogates are ahead of no two, and the one ahead has fewer ahead.
LEMMA RankFacts ==
    /\ IsFiniteSet(Places) /\ Cardinality(Places) = Len(Surrogates)
    /\ \A i \in Places : Cardinality(Ahead(i)) \in 0..(Len(Surrogates) - 1)
    /\ \A i, j \in Places : i # j => i \in Ahead(j) \/ j \in Ahead(i)
    /\ \A i, j \in Places : j \in Ahead(i) => Cardinality(Ahead(j)) < Cardinality(Ahead(i))
<1> DEFINE N == Len(Surrogates)
<1>0. N \in Nat /\ DOMAIN Surrogates = Places /\ IsFiniteSet(Places) /\ Cardinality(Places) = N
    <2>1. N \in Nat /\ N \in Int /\ 1 \in Int /\ DOMAIN Surrogates = Places
        BY DictionaryFacts
    <2> HIDE DEF N
    <2>2. IsFiniteSet(1..N) /\ Cardinality(1..N) = IF 1 > N THEN 0 ELSE N - 1 + 1
        BY <2>1, FS_Interval
    <2>3. Cardinality(1..N) = N
        BY <2>1, <2>2
    <2> QED BY <2>1, <2>2, <2>3 DEF Places, N
<1>1. \A i \in Places : Len(Surrogates[i]) \in Nat /\ i \in Int
    BY DictionaryFacts DEF Places
<1>2. ASSUME NEW i \in Places
      PROVE  /\ Ahead(i) \subseteq Places /\ i \notin Ahead(i) /\ IsFiniteSet(Ahead(i))
             /\ Cardinality(Ahead(i)) \in 0..(N - 1)
    <2>1. Ahead(i) \subseteq Places \ {i}
        BY <1>0, <1>1 DEF Ahead
    <2>2. IsFiniteSet(Places \ {i}) /\ Cardinality(Places \ {i}) = N - 1
        BY <1>0, FS_RemoveElement
    <2>3. /\ IsFiniteSet(Ahead(i)) /\ Cardinality(Ahead(i)) <= N - 1
          /\ Cardinality(Ahead(i)) \in Nat
        BY <2>1, <2>2, FS_Subset, FS_CardinalityType
    <2> HIDE DEF N
    <2> QED BY <1>0, <2>1, <2>3
<1>3. ASSUME NEW i \in Places, NEW j \in Places, j \in Ahead(i)
      PROVE  Cardinality(Ahead(j)) < Cardinality(Ahead(i))
    <2>1. Ahead(j) \subseteq Ahead(i)
        BY <1>0, <1>1, <1>3 DEF Ahead
    <2>2. j \in Ahead(i) /\ j \notin Ahead(j)
        BY <1>2, <1>3
    <2>3. /\ Cardinality(Ahead(j)) <= Cardinality(Ahead(i))
          /\ Cardinality(Ahead(j)) # Cardinality(Ahead(i))
        BY <1>2, <2>1, <2>2, FS_Subset
    <2> HIDE DEF N
    <2>4. Cardinality(Ahead(j)) \in Int /\ Cardinality(Ahead(i)) \in Int
        BY <1>2
    <2> QED BY <2>3, <2>4
<1>4. \A i, j \in Places : i # j => i \in Ahead(j) \/ j \in Ahead(i)
    BY <1>0, <1>1 DEF Ahead
<1> QED BY <1>0, <1>2, <1>3, <1>4

\* Every number of surrogates ahead is that of one surrogate.
LEMMA RankIsTaken ==
    ASSUME NEW n \in Places
    PROVE  \E i \in Places : Cardinality(Ahead(i)) = n - 1
<1> DEFINE N == Len(Surrogates)
<1>0. N \in Nat
    BY DictionaryFacts
<1>1. SUFFICES ASSUME \A i \in Places : Cardinality(Ahead(i)) # n - 1 PROVE FALSE
    OBVIOUS
<1> DEFINE T == (0..(N - 1)) \ {n - 1}
           f == [i \in Places |-> Cardinality(Ahead(i))]
<1>2. IsFiniteSet(T) /\ Cardinality(T) < Cardinality(Places)
    <2>1. N > 0 /\ n - 1 \in 0..(N - 1)
        BY <1>0 DEF Places
    <2>2. IsFiniteSet(0..(N - 1)) /\ Cardinality(0..(N - 1)) = N
        <3>1. N - 1 \in Int /\ 0 \in Int /\ ~(0 > N - 1) /\ (N - 1) - 0 + 1 = N
            BY <1>0, <2>1
        <3> QED BY <3>1, FS_Interval
    <2> HIDE DEF N
    <2>3. IsFiniteSet(T) /\ Cardinality(T) = N - 1
        BY <2>1, <2>2, FS_RemoveElement
    <2> QED BY <1>0, <2>3, RankFacts DEF N
<1>3. f \in [Places -> T]
    BY <1>1, RankFacts
<1>4. PICK i \in Places, j \in Places : i # j /\ f[i] = f[j]
    <2> HIDE DEF f, T
    <2> QED BY <1>2, <1>3, RankFacts, FS_PigeonHole
<1>5. Cardinality(Ahead(i)) = Cardinality(Ahead(j))
    BY <1>4
<1>6. Cardinality(Ahead(i)) \in Int /\ Cardinality(Ahead(j)) \in Int
    BY RankFacts
<1> QED BY <1>4, <1>5, <1>6, RankFacts

LEMMA LongestFirstFacts ==
    /\ Len(LongestFirst) = Len(Surrogates)
    /\ \A n \in Places : LongestFirst[n] \in Range(Surrogates)
<1>0. Len(Surrogates) \in Nat /\ DOMAIN Surrogates = Places
    BY DictionaryFacts
<1>1. Len(LongestFirst) = Len(Surrogates)
    <2>1. DOMAIN LongestFirst = 1..Len(Surrogates)
        BY <1>0 DEF LongestFirst, Places
    <2> QED BY <1>0, <2>1
<1>2. ASSUME NEW n \in Places PROVE LongestFirst[n] \in Range(Surrogates)
    <2>1. (CHOOSE i \in DOMAIN Surrogates : Cardinality(Ahead(i)) = n - 1) \in Places
        BY <1>0, RankIsTaken
    <2> QED BY <1>0, <2>1, DictionaryFacts DEF LongestFirst
<1> QED BY <1>1, <1>2
\* Before its turn come other surrogates, that are as long or longer.
LEMMA OrderFacts ==
    ASSUME NEW s \in Range(Surrogates)
    PROVE  \E m \in Places :
              /\ LongestFirst[m] = s
              /\ \A k \in Places : k < m =>
                    LongestFirst[k] # s /\ Len(LongestFirst[k]) >= Len(s)
<1>0. /\ Len(Surrogates) \in Nat /\ DOMAIN Surrogates = Places /\ Places \subseteq Nat
      /\ \A i \in Places : Len(Surrogates[i]) \in Nat
    BY DictionaryFacts DEF Places
<1>1. PICK j \in Places : s = Surrogates[j]
    BY DictionaryFacts
<1>2. ASSUME NEW n \in Places
      PROVE  \E i \in Places : Cardinality(Ahead(i)) = n - 1 /\ LongestFirst[n] = Surrogates[i]
    <2> DEFINE i == CHOOSE i \in Places : Cardinality(Ahead(i)) = n - 1
    <2>1. i \in Places /\ Cardinality(Ahead(i)) = n - 1
        BY RankIsTaken
    <2>2. LongestFirst[n] = Surrogates[i]
        BY <1>0 DEF LongestFirst
    <2> QED BY <2>1, <2>2
<1>3. PICK m \in Places : m - 1 = Cardinality(Ahead(j))
    <2>1. Cardinality(Ahead(j)) + 1 \in Places
          /\ (Cardinality(Ahead(j)) + 1) - 1 = Cardinality(Ahead(j))
        <3>1. Cardinality(Ahead(j)) \in 0..(Len(Surrogates) - 1)
            BY RankFacts
        <3> QED BY <1>0, <3>1 DEF Places
    <2> QED BY <2>1
<1>4. LongestFirst[m] = s
    <2>1. PICK i \in Places : Cardinality(Ahead(i)) = m - 1 /\ LongestFirst[m] = Surrogates[i]
        BY <1>2
    <2>2. CASE i # j
        <3>1. i \in Ahead(j) \/ j \in Ahead(i)
            BY <2>2, RankFacts
        <3>2. Cardinality(Ahead(i)) < Cardinality(Ahead(j)) \/ Cardinality(Ahead(j)) < Cardinality(Ahead(i))
            BY <3>1, RankFacts
        <3>3. m - 1 \in Int
            BY <1>0
        <3> QED BY <1>3, <2>1, <3>2, <3>3
    <2> QED BY <1>1, <2>1, <2>2
<1>5. ASSUME NEW k \in Places, k < m
      PROVE  LongestFirst[k] # s /\ Len(LongestFirst[k]) >= Len(s)
    <2>1. PICK i \in Places : Cardinality(Ahead(i)) = k - 1 /\ LongestFirst[k] = Surrogates[i]
        BY <1>2
    <2>2. k - 1 < m - 1 /\ k - 1 \in Int /\ m - 1 \in Int
        BY <1>0, <1>5
    <2>3. Cardinality(Ahead(i)) < Cardinality(Ahead(j)) /\ ~(Cardinality(Ahead(j)) < Cardinality(Ahead(i)))
        BY <1>3, <2>1, <2>2
    <2>4. i # j
        BY <1>3, <2>1, <2>2
    <2>5. i \in Ahead(j)
        BY <2>3, <2>4, RankFacts
    <2>6. Len(Surrogates[i]) >= Len(Surrogates[j])
        BY <1>0, <2>5 DEF Ahead
    <2>7. Surrogates[i] # Surrogates[j]
        BY <1>0, <2>4, StreamAssumption
    <2> QED BY <1>1, <2>1, <2>6, <2>7
<1> QED BY <1>4, <1>5

-----------------------------------------------------------------------------
(* restore_text: the replacements one after another. *)

RestoringBody(text, restored, k) ==
    IF k = 0 THEN text
    ELSE Replaced(restored[k - 1], LongestFirst[k], Original[LongestFirst[k]])

Restoring(text) ==
    CHOOSE restored :
        restored = [k \in 0..Len(LongestFirst) |-> RestoringBody(text, restored, k)]

LEMMA RestoredIsRestoring ==
    ASSUME NEW text
    PROVE  Restored(text) = Restoring(text)[Len(LongestFirst)]
BY DEF Restored, Restoring, RestoringBody

\* The replacement at place k.
IsStep(new, text, k) ==
    new = Replaced(text, LongestFirst[k], Original[LongestFirst[k]])

LEMMA StepFacts ==
    ASSUME NEW k \in Places
    PROVE  \E s \in Seq(Letters), o \in Seq(Letters) :
              /\ s = LongestFirst[k] /\ o = Original[s] /\ s \in Range(Surrogates)
              /\ Len(s) > 0
              /\ \A new, text : IsStep(new, text, k) <=> new = Replaced(text, s, o)
BY LongestFirstFacts, DictionaryFacts DEF IsStep

\* What the lemmas below use of restored.
IsRestoring(restored, text) ==
    /\ restored[0] = text
    /\ \A k \in Places : IsStep(restored[k], restored[k - 1], k)
    /\ \A k \in 0..Len(Surrogates) : restored[k] \in Seq(Letters)
    /\ Restored(text) = restored[Len(Surrogates)]

LEMMA RestoringFacts ==
    ASSUME NEW text \in Seq(Letters)
    PROVE  IsRestoring(Restoring(text), text)
<1> DEFINE N == Len(Surrogates)
           D == 0..N
           R == Seq(Letters)
           size == [k \in D |-> k]
           body == [p \in [D -> R] \X D |-> RestoringBody(text, p[1], p[2])]
<1>0. N \in Nat /\ N = Len(LongestFirst) /\ Places = 1..N
    BY DictionaryFacts, LongestFirstFacts DEF Places
<1> HIDE DEF N
<1>1. \A k \in D : k = 0 \/ (k \in Places /\ k # 0 /\ k - 1 \in D /\ k - 1 < k)
    BY <1>0
<1>2. ASSUME NEW k \in D, NEW g \in [D -> R] PROVE RestoringBody(text, g, k) \in R
    <2>1. CASE k = 0
        BY <2>1 DEF RestoringBody
    <2>2. CASE k # 0
        <3>1. k \in Places /\ g[k - 1] \in R
            BY <1>1, <2>2
        <3>2. PICK s \in Seq(Letters), o \in Seq(Letters) :
                 s = LongestFirst[k] /\ o = Original[s] /\ Len(s) > 0
            BY <3>1, StepFacts
        <3>3. RestoringBody(text, g, k) = Replaced(g[k - 1], s, o)
            BY <2>2, <3>2 DEF RestoringBody
        <3>4. PICK t \in Seq(Letters) : t = g[k - 1]
            BY <3>1
        <3>5. Replaced(t, s, o) \in Seq(Letters)
            BY <3>2, ReplacedIsText
        <3> QED BY <3>3, <3>4, <3>5
    <2> QED BY <2>1, <2>2
<1>3. ASSUME NEW k \in D, NEW g \in [D -> R], NEW h \in [D -> R],
             \A j \in D : size[j] < size[k] => g[j] = h[j]
      PROVE  RestoringBody(text, g, k) = RestoringBody(text, h, k)
    <2>1. CASE k = 0
        BY <2>1 DEF RestoringBody
    <2>2. CASE k # 0
        <3>1. g[k - 1] = h[k - 1]
            BY <1>1, <1>3, <2>2
        <3> QED BY <2>2, <3>1 DEF RestoringBody
    <2> QED BY <2>1, <2>2
<1>4. \A g \in [D -> R], k \in D : body[<<g, k>>] = RestoringBody(text, g, k)
    OBVIOUS
<1> DEFINE bound == N + 1
<1>5. bound \in Nat /\ size \in [D -> Nat] /\ \A k \in D : size[k] < bound
    BY <1>0
<1>6. body \in [[D -> R] \X D -> R]
    BY <1>2
<1>7. R # {}
    BY EmptyText
<1>8. 0 \in D /\ N \in D
    BY <1>0
<1> HIDE DEF D, R, size, body, bound
<1>9. Falls(D, R, size, bound, body)
    <2>1. ASSUME NEW g \in [D -> R], NEW h \in [D -> R], NEW k \in D,
                 \A j \in D : size[j] < size[k] => g[j] = h[j]
          PROVE  body[<<g, k>>] = body[<<h, k>>]
        <3>1. RestoringBody(text, g, k) = RestoringBody(text, h, k)
            BY <1>3, <2>1
        <3> QED BY <1>4, <3>1
    <2> QED BY <1>5, <1>6, <2>1 DEF Falls
<1>10. IsDefined(D, R, body)
    BY <1>7, <1>9, RecursiveFunction
<1>11. PICK f \in [D -> R] : \A k \in D : f[k] = body[<<f, k>>]
    BY <1>10 DEF IsDefined
<1>12. f = [k \in D |-> RestoringBody(text, f, k)]
    BY <1>4, <1>11
<1> DEFINE g == Restoring(text)
<1>13. g = [k \in D |-> RestoringBody(text, g, k)]
    <2>1. Restoring(text) = CHOOSE r : r = [k \in D |-> RestoringBody(text, r, k)]
        BY <1>0 DEF Restoring, D
    <2> QED BY <1>12, <2>1
<1>14. Restored(text) = g[N]
    BY <1>0, RestoredIsRestoring
<1> HIDE DEF g
<1>15. \A k \in D : g[k] = RestoringBody(text, g, k)
    BY <1>13
<1>16. g[0] = text
    BY <1>15, <1>8 DEF RestoringBody
<1>17. \A k \in Places : k \in D /\ k # 0 /\ k - 1 \in D
    BY <1>0 DEF D
<1>18. \A k \in Places : IsStep(g[k], g[k - 1], k)
    BY <1>15, <1>17 DEF IsStep, RestoringBody
<1> DEFINE S == {k \in Nat : k \in D => g[k] \in R}
<1>19. 0 \in S
    BY <1>16 DEF R
<1>20. ASSUME NEW k \in Nat, k \in S PROVE k + 1 \in S
    <2> SUFFICES ASSUME k + 1 \in D PROVE g[k + 1] \in R
        OBVIOUS
    <2>1. k \in D /\ k + 1 \in Places /\ (k + 1) - 1 = k
        BY <1>0 DEF D
    <2>2. PICK t \in Seq(Letters) : t = g[k]
        BY <1>20, <2>1 DEF R
    <2>3. IsStep(g[k + 1], t, k + 1)
        BY <1>18, <2>1, <2>2
    <2>4. PICK s \in Seq(Letters), o \in Seq(Letters) :
             /\ Len(s) > 0
             /\ \A new, old : IsStep(new, old, k + 1) <=> new = Replaced(old, s, o)
        BY <2>1, StepFacts
    <2>5. Replaced(t, s, o) \in Seq(Letters)
        BY <2>4, ReplacedIsText
    <2> QED BY <2>3, <2>4, <2>5 DEF R
<1>21. Nat \subseteq S
    <2> HIDE DEF S
    <2> QED BY <1>19, <1>20, SetInduction
<1>22. \A k \in D : g[k] \in R
    <2>1. D \subseteq Nat
        BY <1>0 DEF D
    <2> QED BY <1>21, <2>1
<1> QED BY <1>14, <1>16, <1>18, <1>22 DEF IsRestoring, g, D, R, N
LEMMA RestoredIsText ==
    ASSUME NEW text \in Seq(Letters), NEW B, text \in Seq(B),
           \A s \in Range(Surrogates) : Original[s] \in Seq(B)
    PROVE  Restored(text) \in Seq(B)
<1> DEFINE f == Restoring(text)
           N == Len(Surrogates)
           S == {k \in Nat : k \in 0..N => f[k] \in Seq(B)}
<1>1. IsRestoring(f, text)
    BY RestoringFacts
<1>2. N \in Nat /\ Places = 1..N
    BY DictionaryFacts DEF Places
<1> HIDE DEF f, N
<1>3. 0 \in S
    BY <1>1 DEF IsRestoring
<1>4. ASSUME NEW k \in Nat, k \in S PROVE k + 1 \in S
    <2> SUFFICES ASSUME k + 1 \in 0..N PROVE f[k + 1] \in Seq(B)
        OBVIOUS
    <2>1. k \in 0..N /\ k + 1 \in Places /\ (k + 1) - 1 = k
        BY <1>2
    <2>2. PICK t \in Seq(Letters) : t = f[k] /\ t \in Seq(B)
        BY <1>1, <1>4, <2>1 DEF IsRestoring, N
    <2>3. IsStep(f[k + 1], t, k + 1)
        BY <1>1, <2>1, <2>2 DEF IsRestoring
    <2>4. PICK s \in Seq(Letters), o \in Seq(Letters) :
             /\ o = Original[s] /\ s \in Range(Surrogates) /\ Len(s) > 0
             /\ \A new, old : IsStep(new, old, k + 1) <=> new = Replaced(old, s, o)
        BY <2>1, StepFacts
    <2>5. o \in Seq(B)
        BY <2>4
    <2>6. Replaced(t, s, o) \in Seq(B)
        BY <2>2, <2>4, <2>5, ReplacedIsText
    <2> QED BY <2>3, <2>4, <2>6
<1>5. Nat \subseteq S
    <2> HIDE DEF S
    <2> QED BY <1>3, <1>4, SetInduction
<1>6. N \in S /\ N \in 0..N
    BY <1>2, <1>5
<1> QED BY <1>1, <1>6 DEF IsRestoring, N

\* No surrogate has a place in the text on both sides of the cut.
AllWhole(text, cut) == \A u \in Range(Surrogates) : Whole(u, text, cut)

\* Two parts can be restored each for itself when no surrogate lies in both.
LEMMA RestoredDivides ==
    ASSUME Foreign, NEW text, NEW a, NEW b, Joins(Letters, text, a, b),
           AllWhole(text, Len(a))
    PROVE  Joins(Letters, Restored(text), Restored(a), Restored(b))
<1> DEFINE f == Restoring(text)
           fa == Restoring(a)
           fb == Restoring(b)
           N == Len(Surrogates)
           Split(k) == Joins(Letters, f[k], fa[k], fb[k]) /\ AllWhole(f[k], Len(fa[k]))
           S == {k \in Nat : k \in 0..N => Split(k)}
<1>1. IsRestoring(f, text) /\ IsRestoring(fa, a) /\ IsRestoring(fb, b)
    <2>1. text \in Seq(Letters) /\ a \in Seq(Letters) /\ b \in Seq(Letters)
        BY DEF Joins
    <2> QED BY <2>1, RestoringFacts
<1>2. N \in Nat /\ Places = 1..N
    BY DictionaryFacts DEF Places
<1> HIDE DEF f, fa, fb, N
<1>3. 0 \in S
    BY <1>1 DEF IsRestoring
<1>4. ASSUME NEW k \in Nat, k \in S PROVE k + 1 \in S
    <2> SUFFICES ASSUME k + 1 \in 0..N PROVE Split(k + 1)
        OBVIOUS
    <2>1. k \in 0..N /\ k + 1 \in Places /\ (k + 1) - 1 = k
        BY <1>2
    <2>2. PICK t, ta, tb : t = f[k] /\ ta = fa[k] /\ tb = fb[k]
        OBVIOUS
    <2>3. Joins(Letters, t, ta, tb) /\ AllWhole(t, Len(ta))
        BY <1>4, <2>1, <2>2
    <2>4. PICK s \in Seq(Letters), o \in Seq(Letters) :
             /\ o = Original[s] /\ s \in Range(Surrogates) /\ Len(s) > 0
             /\ \A new, old : IsStep(new, old, k + 1) <=> new = Replaced(old, s, o)
        BY <2>1, StepFacts
    <2>5. /\ f[k + 1] = Replaced(t, s, o)
          /\ fa[k + 1] = Replaced(ta, s, o)
          /\ fb[k + 1] = Replaced(tb, s, o)
        <3>1. IsStep(f[k + 1], t, k + 1) /\ IsStep(fa[k + 1], ta, k + 1)
              /\ IsStep(fb[k + 1], tb, k + 1)
            BY <1>1, <2>1, <2>2 DEF IsRestoring
        <3> QED BY <2>4, <3>1
    <2>6. Whole(s, t, Len(ta))
        BY <2>3, <2>4 DEF AllWhole
    <2>7. Joins(Letters, Replaced(t, s, o), Replaced(ta, s, o), Replaced(tb, s, o))
        BY <2>3, <2>4, <2>6, ReplacedDivides
    <2>8. ASSUME NEW u \in Range(Surrogates)
          PROVE  Whole(u, Replaced(t, s, o), Len(Replaced(ta, s, o)))
        <3>1. Whole(u, t, Len(ta)) /\ u \in Seq(Letters)
            BY <2>3, DictionaryFacts DEF AllWhole
        <3>2. Apart(u, o)
            BY <2>4 DEF Foreign, Apart
        <3> QED BY <2>3, <2>4, <2>7, <3>1, <3>2, WholeAfter
    <2> QED BY <2>5, <2>7, <2>8 DEF AllWhole
<1>5. Nat \subseteq S
    <2> HIDE DEF S
    <2> QED BY <1>3, <1>4, SetInduction
<1>6. N \in S /\ N \in 0..N
    BY <1>2, <1>5
<1> QED BY <1>1, <1>6 DEF IsRestoring, N

-----------------------------------------------------------------------------
(* The tail that is held back. *)

LEMMA LongestFacts ==
    /\ Longest \in Nat
    /\ \A i \in Places : Len(Surrogates[i]) <= Longest
<1> DEFINE N == Len(Surrogates)
           Bound(k) == \E m \in Nat :
                          /\ m = 0 \/ \E i \in Places : m = Len(Surrogates[i])
                          /\ \A i \in Places : i <= k => Len(Surrogates[i]) <= m
           S == {k \in Nat : k \in 0..N => Bound(k)}
<1>1. /\ N \in Nat /\ Places = 1..N /\ DOMAIN Surrogates = Places
      /\ \A i \in Places : Len(Surrogates[i]) \in Nat
    BY DictionaryFacts DEF Places
<1> HIDE DEF N
<1>2. 0 \in S
    BY <1>1
<1>3. ASSUME NEW k \in Nat, k \in S PROVE k + 1 \in S
    <2> SUFFICES ASSUME k + 1 \in 0..N PROVE Bound(k + 1)
        OBVIOUS
    <2>1. k \in 0..N /\ k + 1 \in Places
        BY <1>1
    <2>2. PICK m \in Nat : /\ m = 0 \/ \E i \in Places : m = Len(Surrogates[i])
                           /\ \A i \in Places : i <= k => Len(Surrogates[i]) <= m
        BY <1>3, <2>1
    <2>3. PICK l \in Nat : l = Len(Surrogates[k + 1])
        BY <1>1, <2>1
    <2>4. CASE l <= m
        <3>1. \A i \in Places : i <= k + 1 => i <= k \/ i = k + 1
            BY <1>1
        <3>2. \A i \in Places : i <= k + 1 => Len(Surrogates[i]) <= m
            BY <2>2, <2>3, <2>4, <3>1
        <3> QED BY <2>2, <3>2
    <2>5. CASE l > m
        BY <1>1, <2>1, <2>2, <2>3, <2>5
    <2>6. l <= m \/ l > m
        OBVIOUS
    <2> HIDE DEF Bound
    <2> QED BY <2>4, <2>5, <2>6
<1>4. Nat \subseteq S
    <2> HIDE DEF S
    <2> QED BY <1>2, <1>3, SetInduction
<1>5. Bound(N)
    <2>1. N \in S
        BY <1>1, <1>4, Zenon
    <2>2. N \in 0..N
        BY <1>1
    <2> HIDE DEF Bound
    <2> QED BY <2>1, <2>2
<1>6. PICK m \in Nat : /\ m = 0 \/ \E i \in Places : m = Len(Surrogates[i])
                       /\ \A i \in Places : Len(Surrogates[i]) <= m
    BY <1>1, <1>5
<1> DEFINE L == {0} \cup {Len(Surrogates[i]) : i \in DOMAIN Surrogates}
<1>7. m \in L /\ \A y \in L : m >= y
    BY <1>1, <1>6
<1>8. Longest \in L /\ \A y \in L : Longest >= y
    BY <1>7 DEF Longest, Max
<1>9. \A y \in L : y \in Nat
    BY <1>1
<1> QED BY <1>1, <1>8, <1>9

LEMMA MinFacts ==
    ASSUME NEW T, T \subseteq Nat, T # {}
    PROVE  Min(T) \in T /\ \A y \in T : Min(T) <= y
BY LeastOf DEF Min

LEMMA TailFacts ==
    /\ TailLength \in Nat /\ TailLength <= Longest
    /\ TailLength = 0 <=> Longest = 0
    /\ Longest <= LatencyCap => TailLength = Longest
<1>1. Longest \in Nat /\ LatencyCap \in Nat /\ LatencyCap # 0
    BY LongestFacts, StreamAssumption
<1>2. TailLength \in {Longest, LatencyCap} /\ \A y \in {Longest, LatencyCap} : TailLength <= y
    BY <1>1, MinFacts DEF TailLength
<1> QED BY <1>1, <1>2
-----------------------------------------------------------------------------
(* The cut. *)

\* The cut is kept, or moved before the first place of s that it divides.
IsMove(new, old, text, s) ==
    new = IF Divided(s, text, old) = {} THEN old ELSE Min(Divided(s, text, old))

Moved(new, old, text, s) ==
    /\ new \in Nat /\ At(s, text, new) /\ new < old /\ old < new + Len(s)
    /\ \A n \in Nat : At(s, text, n) /\ n < old /\ old < n + Len(s) => new <= n

LEMMA MoveFacts ==
    ASSUME NEW text \in Seq(Letters), NEW s \in Seq(Letters), NEW old \in Int,
           NEW new, IsMove(new, old, text, s)
    PROVE  \/ new = old /\ Whole(s, text, old)
           \/ Moved(new, old, text, s)
<1> DEFINE T == Divided(s, text, old)
<1>1. \A n : n \in T <=> n \in Nat /\ At(s, text, n) /\ n < old /\ old < n + Len(s)
    BY OccurrenceFacts DEF Divided
<1>2. new = IF T = {} THEN old ELSE Min(T)
    BY DEF IsMove
<1> HIDE DEF T
<1>3. CASE T = {}
    BY <1>1, <1>2, <1>3 DEF Whole
<1>4. CASE T # {}
    <2>1. T \subseteq Nat
        BY <1>1
    <2>2. new \in T /\ \A y \in T : new <= y
        BY <1>2, <1>4, <2>1, MinFacts
    <2> QED BY <1>1, <2>2 DEF Moved
<1> QED BY <1>3, <1>4

CutBody(text, cut, k) ==
    IF k = 0 THEN Len(text) - TailLength
    ELSE IF Divided(Surrogates[k], text, cut[k - 1]) = {} THEN cut[k - 1]
    ELSE Min(Divided(Surrogates[k], text, cut[k - 1]))

Cutting(text) ==
    CHOOSE cut : cut = [k \in 0..Len(Surrogates) |-> CutBody(text, cut, k)]

LEMMA CutIsCutting ==
    ASSUME NEW text
    PROVE  Cut(text) = Cutting(text)[Len(Surrogates)]
BY DEF Cut, Cutting, CutBody

\* What the lemmas below use of cut.
IsCutting(cut, text) ==
    /\ cut[0] = Len(text) - TailLength
    /\ \A k \in Places : IsMove(cut[k], cut[k - 1], text, Surrogates[k])
    /\ Cut(text) = cut[Len(Surrogates)]

LEMMA CuttingFacts ==
    ASSUME NEW text \in Seq(Letters)
    PROVE  IsCutting(Cutting(text), text)
<1> DEFINE N == Len(Surrogates)
           D == 0..N
           size == [k \in D |-> k]
           body == [p \in [D -> Int] \X D |-> CutBody(text, p[1], p[2])]
<1>0. N \in Nat /\ Places = 1..N /\ Len(text) - TailLength \in Int
    BY DictionaryFacts, EmptyText, TailFacts DEF Places
<1> HIDE DEF N
<1>1. \A k \in D : k = 0 \/ (k \in Places /\ k # 0 /\ k - 1 \in D /\ k - 1 < k)
    BY <1>0
<1>2. ASSUME NEW k \in D, NEW g \in [D -> Int] PROVE CutBody(text, g, k) \in Int
    <2>1. CASE k = 0
        BY <1>0, <2>1 DEF CutBody
    <2>2. CASE k # 0
        <3>1. k \in Places /\ g[k - 1] \in Int
            BY <1>1, <2>2
        <3>2. PICK s \in Seq(Letters) : s = Surrogates[k]
            BY <3>1, DictionaryFacts
        <3>3. PICK new : IsMove(new, g[k - 1], text, s)
            BY DEF IsMove
        <3>4. new \in Int
            BY <3>1, <3>3, MoveFacts DEF Moved
        <3>5. CutBody(text, g, k) = new
            BY <2>2, <3>2, <3>3 DEF CutBody, IsMove
        <3> QED BY <3>4, <3>5
    <2> QED BY <2>1, <2>2
<1>3. ASSUME NEW k \in D, NEW g \in [D -> Int], NEW h \in [D -> Int],
             \A j \in D : size[j] < size[k] => g[j] = h[j]
      PROVE  CutBody(text, g, k) = CutBody(text, h, k)
    <2>1. CASE k = 0
        BY <2>1 DEF CutBody
    <2>2. CASE k # 0
        <3>1. g[k - 1] = h[k - 1]
            BY <1>1, <1>3, <2>2
        <3> QED BY <2>2, <3>1 DEF CutBody
    <2> QED BY <2>1, <2>2
<1>4. \A g \in [D -> Int], k \in D : body[<<g, k>>] = CutBody(text, g, k)
    OBVIOUS
<1> DEFINE bound == N + 1
<1>5. bound \in Nat /\ size \in [D -> Nat] /\ \A k \in D : size[k] < bound
    BY <1>0
<1>6. body \in [[D -> Int] \X D -> Int]
    BY <1>2
<1>7. 0 \in D /\ N \in D
    BY <1>0
<1> HIDE DEF D, size, body, bound
<1>8. Falls(D, Int, size, bound, body)
    <2>1. ASSUME NEW g \in [D -> Int], NEW h \in [D -> Int], NEW k \in D,
                 \A j \in D : size[j] < size[k] => g[j] = h[j]
          PROVE  body[<<g, k>>] = body[<<h, k>>]
        <3>1. CutBody(text, g, k) = CutBody(text, h, k)
            BY <1>3, <2>1
        <3> QED BY <1>4, <3>1
    <2> QED BY <1>5, <1>6, <2>1 DEF Falls
<1>9. IsDefined(D, Int, body)
    <2>1. Int # {}
        OBVIOUS
    <2> QED BY <1>8, <2>1, RecursiveFunction
<1>10. PICK f \in [D -> Int] : \A k \in D : f[k] = body[<<f, k>>]
    BY <1>9 DEF IsDefined
<1>11. f = [k \in D |-> CutBody(text, f, k)]
    BY <1>4, <1>10
<1> DEFINE g == Cutting(text)
<1>12. g = [k \in D |-> CutBody(text, g, k)]
    <2>1. Cutting(text) = CHOOSE r : r = [k \in D |-> CutBody(text, r, k)]
        BY DEF Cutting, D, N
    <2> QED BY <1>11, <2>1
<1>13. Cut(text) = g[N]
    BY CutIsCutting DEF N
<1> HIDE DEF g
<1>14. \A k \in D : g[k] = CutBody(text, g, k)
    BY <1>12
<1>15. g[0] = Len(text) - TailLength
    BY <1>14, <1>7 DEF CutBody
<1>16. \A k \in Places : k \in D /\ k # 0 /\ k - 1 \in D
    BY <1>0 DEF D
<1>17. \A k \in Places : IsMove(g[k], g[k - 1], text, Surrogates[k])
    BY <1>14, <1>16 DEF IsMove, CutBody
<1> QED BY <1>13, <1>15, <1>17 DEF IsCutting, g, N

\* The cut is nowhere behind the tail.
LEMMA CutRange ==
    ASSUME NEW text \in Seq(Letters)
    PROVE  Cut(text) \in Int /\ Cut(text) <= Len(text) - TailLength
<1> DEFINE cut == Cutting(text)
           N == Len(Surrogates)
           c == Len(text) - TailLength
           S == {k \in Nat : k \in 0..N => cut[k] \in Int /\ cut[k] <= c}
<1>1. IsCutting(cut, text)
    BY CuttingFacts
<1>2. N \in Nat /\ Places = 1..N /\ c \in Int
    BY DictionaryFacts, EmptyText, TailFacts DEF Places
<1>3. cut[0] = c
    BY <1>1 DEF IsCutting
<1> HIDE DEF cut, N, c
<1>4. 0 \in S
    BY <1>2, <1>3
<1>5. ASSUME NEW k \in Nat, k \in S PROVE k + 1 \in S
    <2> SUFFICES ASSUME k + 1 \in 0..N PROVE cut[k + 1] \in Int /\ cut[k + 1] <= c
        OBVIOUS
    <2>1. k \in 0..N /\ k + 1 \in Places /\ (k + 1) - 1 = k
        BY <1>2
    <2>2. PICK old \in Int : old = cut[k] /\ old <= c
        BY <1>5, <2>1
    <2>3. PICK s \in Seq(Letters) : s = Surrogates[k + 1]
        BY <2>1, DictionaryFacts
    <2>4. IsMove(cut[k + 1], old, text, s)
        BY <1>1, <2>1, <2>2, <2>3 DEF IsCutting
    <2>5. cut[k + 1] = old \/ (cut[k + 1] \in Nat /\ cut[k + 1] < old)
        BY <2>4, MoveFacts DEF Moved
    <2> QED BY <1>2, <2>2, <2>5
<1>6. Nat \subseteq S
    <2> HIDE DEF S
    <2> QED BY <1>4, <1>5, SetInduction
<1>7. N \in S
    BY <1>2, <1>6, Zenon
<1>8. N \in 0..N
    BY <1>2
<1> QED BY <1>1, <1>7, <1>8 DEF IsCutting, N, c
\* Of two surrogates that share a place, the one that begins earlier holds the other.
LEMMA OneInOther ==
    ASSUME Nested, NEW u \in Range(Surrogates), NEW w \in Range(Surrogates), NEW text,
           NEW n \in Nat, NEW m \in Nat, At(u, text, n), At(w, text, m), n < m, m < n + Len(u)
    PROVE  m + Len(w) <= n + Len(u)
<1> DEFINE d == m - n
<1>1. /\ Len(u) \in Nat /\ Len(w) \in Nat /\ Len(u) > 0 /\ Len(w) > 0
      /\ u \in Seq(Letters) /\ w \in Seq(Letters)
    BY DictionaryFacts
<1>2. d \in Int /\ d > 0 /\ d \in Shifts(w, u)
    BY <1>1 DEF Shifts
<1>3. Meets(w, u, d)
    <2>1. ASSUME NEW i \in 1..Len(u), i - d \in 1..Len(w) PROVE u[i] = w[i - d]
        <3>1. text[n + i] = u[i]
            BY DEF At
        <3>2. text[m + (i - d)] = w[i - d]
            BY <2>1 DEF At
        <3>3. m + (i - d) = n + i
            BY <1>1
        <3> QED BY <3>1, <3>2, <3>3
    <2> QED BY <1>1, <2>1 DEF Meets
<1> HIDE DEF d
<1>4. d + Len(w) <= Len(u)
    <2>1. \/ d >= 0 /\ d + Len(w) <= Len(u)
          \/ d <= 0 /\ d + Len(w) >= Len(u)
        BY <1>2, <1>3 DEF Nested
    <2> QED BY <1>1, <1>2, <2>1
<1> QED BY <1>1, <1>4 DEF d

\* Where the cut can be: at first, or before a surrogate that the first cut divides.
Reaches(cut, first, text) ==
    \/ cut = first
    \/ \E s \in Range(Surrogates) :
          At(s, text, cut) /\ cut < first /\ first < cut + Len(s)

\* No surrogate is divided, not one that was looked at before the last move.
LEMMA CutFacts ==
    ASSUME Nested, NEW text \in Seq(Letters), TailLength <= Len(text)
    PROVE  /\ Cut(text) \in 0..(Len(text) - TailLength)
           /\ Reaches(Cut(text), Len(text) - TailLength, text)
           /\ AllWhole(text, Cut(text))
<1> DEFINE cut == Cutting(text)
           N == Len(Surrogates)
           c == Len(text) - TailLength
           Good(x, k) == /\ x \in 0..c
                         /\ Reaches(x, c, text)
                         /\ \A j \in Places : j <= k => Whole(Surrogates[j], text, x)
           S == {k \in Nat : k \in 0..N => Good(cut[k], k)}
<1>1. IsCutting(cut, text)
    BY CuttingFacts
<1>2. N \in Nat /\ Places = 1..N /\ c \in Nat
    BY DictionaryFacts, EmptyText, TailFacts DEF Places
<1>3. cut[0] = c
    BY <1>1 DEF IsCutting
<1> HIDE DEF cut, N, c
<1>4. 0 \in S
    BY <1>2, <1>3 DEF Reaches
<1>5. ASSUME NEW k \in Nat, k \in S PROVE k + 1 \in S
    <2> SUFFICES ASSUME k + 1 \in 0..N PROVE Good(cut[k + 1], k + 1)
        OBVIOUS
    <2>1. k \in 0..N /\ k + 1 \in Places /\ (k + 1) - 1 = k
        BY <1>2
    <2>2. PICK old : old = cut[k]
        OBVIOUS
    <2>3. Good(old, k)
        BY <1>5, <2>1, <2>2
    <2>4. old \in Nat /\ old <= c
        BY <1>2, <2>3
    <2>5. PICK s \in Seq(Letters) :
             s = Surrogates[k + 1] /\ s \in Range(Surrogates) /\ Len(s) \in Nat
        BY <2>1, DictionaryFacts
    <2>6. PICK new : new = cut[k + 1]
        OBVIOUS
    <2>7. IsMove(new, old, text, s)
        BY <1>1, <2>1, <2>2, <2>5, <2>6 DEF IsCutting
    <2>8. \A j \in Places : j <= k + 1 => j <= k \/ j = k + 1
        BY <1>2
    <2>9. CASE new = old /\ Whole(s, text, old)
        BY <2>3, <2>5, <2>6, <2>8, <2>9
    <2>10. CASE Moved(new, old, text, s)
        <3>1. /\ new \in Nat /\ At(s, text, new) /\ new < old /\ old < new + Len(s)
              /\ \A n \in Nat : At(s, text, n) /\ n < old /\ old < n + Len(s) => new <= n
            BY <2>10 DEF Moved
        <3>2. new \in 0..c
            BY <1>2, <2>4, <3>1
        <3>3. Reaches(new, c, text)
            <4>1. CASE old = c
                BY <2>5, <3>1, <4>1 DEF Reaches
            <4>2. CASE old # c
                <5>1. PICK w \in Range(Surrogates) :
                         At(w, text, old) /\ old < c /\ c < old + Len(w)
                    BY <2>3, <4>2 DEF Reaches
                <5>2. Len(w) \in Nat
                    BY DictionaryFacts
                <5>3. old + Len(w) <= new + Len(s)
                    BY <2>4, <2>5, <3>1, <5>1, OneInOther
                <5>4. new < c /\ c < new + Len(s)
                    BY <1>2, <2>4, <2>5, <3>1, <5>1, <5>2, <5>3
                <5> QED BY <2>5, <3>1, <5>4 DEF Reaches
            <4> QED BY <4>1, <4>2
        <3>4. ASSUME NEW j \in Places, j <= k + 1, NEW n \in Nat, n < new,
                     new < n + Len(Surrogates[j]), At(Surrogates[j], text, n)
              PROVE  FALSE
            <4>1. PICK u \in Range(Surrogates) : u = Surrogates[j] /\ Len(u) \in Nat
                BY DictionaryFacts
            <4>2. new + Len(s) <= n + Len(u)
                BY <2>5, <3>1, <3>4, <4>1, OneInOther
            <4>3. n < old /\ old < n + Len(u)
                BY <2>4, <2>5, <3>1, <3>4, <4>1, <4>2
            <4>4. CASE j <= k
                BY <2>3, <3>4, <4>1, <4>3, <4>4 DEF Whole
            <4>5. CASE j = k + 1
                <5>1. u = s
                    BY <2>5, <4>1, <4>5
                <5>2. new <= n
                    BY <3>1, <3>4, <4>1, <4>3, <5>1
                <5> QED BY <3>1, <3>4, <5>2
            <4> QED BY <2>8, <3>4, <4>4, <4>5
        <3>5. \A j \in Places : j <= k + 1 => Whole(Surrogates[j], text, new)
            BY <3>4 DEF Whole
        <3> QED BY <2>6, <3>2, <3>3, <3>5
    <2>11. (new = old /\ Whole(s, text, old)) \/ Moved(new, old, text, s)
        <3>1. old \in Int
            BY <2>4
        <3> QED BY <2>7, <3>1, MoveFacts
    <2> HIDE DEF Good
    <2> QED BY <2>9, <2>10, <2>11
<1>6. Nat \subseteq S
    <2> HIDE DEF S
    <2> QED BY <1>4, <1>5, SetInduction
<1>7. N \in S
    BY <1>2, <1>6, Zenon
<1>8. N \in 0..N
    BY <1>2
<1>9. Good(cut[N], N)
    <2> HIDE DEF Good
    <2> QED BY <1>7, <1>8
<1>10. Good(Cut(text), N)
    BY <1>1, <1>9 DEF IsCutting, N
<1>11. AllWhole(text, Cut(text))
    <2>1. ASSUME NEW u \in Range(Surrogates) PROVE Whole(u, text, Cut(text))
        <3>1. PICK j \in Places : u = Surrogates[j]
            BY DictionaryFacts
        <3>2. j <= N
            BY <1>2
        <3> QED BY <1>10, <3>1, <3>2
    <2> QED BY <2>1 DEF AllWhole
<1> QED BY <1>10, <1>11 DEF c

-----------------------------------------------------------------------------
(* The stream. *)

\* The letters of what is emitted.
Given == Chars \cup UNION {Range(Original[s]) : s \in Range(Surrogates)}

LEMMA GivenFacts ==
    \A s \in Range(Surrogates) : Original[s] \in Seq(Given)
<1> SUFFICES ASSUME NEW s \in Range(Surrogates) PROVE Original[s] \in Seq(Given)
    OBVIOUS
<1>1. PICK o : o = Original[s]
    OBVIOUS
<1>2. o \in Seq(Range(o))
    BY <1>1, StreamAssumption DEF IsText
<1>3. Range(o) \in {Range(Original[t]) : t \in Range(Surrogates)}
    BY <1>1
<1>4. \A S, T : S \in T => S \subseteq UNION T
    OBVIOUS
<1>5. Range(o) \subseteq Given
    BY <1>3, <1>4 DEF Given
<1>6. \A i \in 1..Len(o) : o[i] \in Given
    BY <1>2, <1>5
<1>7. o \in Seq(Given)
    BY <1>2, <1>6, TextOver
<1> QED BY <1>1, <1>7

LEMMA SeqOfLetters ==
    /\ Seq(Chars) \subseteq Seq(Letters)
    /\ Seq(Chars) \subseteq Seq(Given)
<1>1. Chars \subseteq Letters /\ Chars \subseteq Given
    BY DEF Letters, Given
<1>2. ASSUME NEW t \in Seq(Chars) PROVE t \in Seq(Letters) /\ t \in Seq(Given)
    BY <1>1, TextOver
<1> QED BY <1>2

LEMMA TextsAre ==
    ASSUME NEW n \in Nat, NEW t
    PROVE  t \in Texts(n) <=> t \in Seq(Chars) /\ Len(t) <= n
<1>1. t \in Texts(n) <=> \E m \in 0..n : t \in [1..m -> Chars]
    BY DEF Texts, BoundedSeq, SeqOf
<1>2. ASSUME NEW m \in 0..n, t \in [1..m -> Chars]
      PROVE  t \in Seq(Chars) /\ Len(t) <= n
    BY <1>2
<1>3. ASSUME t \in Seq(Chars), Len(t) <= n
      PROVE  \E m \in 0..n : t \in [1..m -> Chars]
    <2>1. Len(t) \in 0..n /\ t \in [1..Len(t) -> Chars]
        BY <1>3
    <2> QED BY <2>1
<1> QED BY <1>1, <1>2, <1>3
Typed ==
    /\ whole \in Seq(Chars) /\ Len(whole) \in Nat /\ Len(whole) <= MaxText
    /\ buffer \in Seq(Chars) /\ Len(buffer) \in Nat /\ Len(buffer) <= Len(whole)
    /\ emitted \in Seq(Given)
    /\ ended \in BOOLEAN

\* A chunk that leaves nothing before the cut.
Keeps(text) ==
    /\ buffer' = text /\ emitted' = emitted
    /\ Len(text) <= TailLength \/ (TailLength > 0 /\ Cut(text) <= 0)

\* A chunk with which the text is emitted up to the cut.
Emits(text, cut) ==
    /\ cut \in 1..Len(text)
    /\ \/ TailLength = 0 /\ cut = Len(text)
       \/ TailLength > 0 /\ TailLength < Len(text) /\ cut = Cut(text)
    /\ emitted' = emitted \o Restored(SubSeq(text, 1, cut))
    /\ buffer' = SubSeq(text, cut + 1, Len(text))

LEMMA FeedFacts ==
    ASSUME Typed, NEW chunk \in Texts(MaxChunk), Feed(chunk)
    PROVE  \E text \in Seq(Chars) :
              /\ chunk \in Seq(Chars) /\ text = buffer \o chunk
              /\ Len(chunk) \in Nat /\ Len(text) = Len(buffer) + Len(chunk)
              /\ ~ended /\ ended' = ended
              /\ whole' = whole \o chunk /\ Len(whole) + Len(chunk) <= MaxText
              /\ Keeps(text) \/ \E cut \in Nat : Emits(text, cut)
<1>1. chunk \in Seq(Chars) /\ Len(chunk) \in Nat
    BY StreamAssumption, TextsAre, EmptyText
<1>2. PICK text \in Seq(Chars) : text = buffer \o chunk /\ Len(text) = Len(buffer) + Len(chunk)
    BY <1>1, ConcatFacts DEF Typed
<1>3. PICK cut : cut = IF TailLength = 0 THEN Len(text) ELSE Cut(text)
    OBVIOUS
<1>4. /\ ~ended /\ ended' = ended
      /\ whole' = whole \o chunk /\ Len(whole) + Len(chunk) <= MaxText
      /\ IF Len(text) > TailLength /\ cut > 0
         THEN /\ emitted' = emitted \o Restored(SubSeq(text, 1, cut))
              /\ buffer' = SubSeq(text, cut + 1, Len(text))
         ELSE buffer' = text /\ UNCHANGED emitted
    BY <1>2, <1>3 DEF Feed
<1>5. TailLength \in Nat /\ Len(text) \in Nat
    BY TailFacts, EmptyText
<1>6. Cut(text) \in Int /\ Cut(text) <= Len(text) - TailLength
    BY CutRange, SeqOfLetters
<1>7. CASE Len(text) > TailLength /\ cut > 0
    <2>1. cut \in Nat /\ cut \in 1..Len(text)
        BY <1>3, <1>5, <1>6, <1>7
    <2>2. \/ TailLength = 0 /\ cut = Len(text)
          \/ TailLength > 0 /\ TailLength < Len(text) /\ cut = Cut(text)
        BY <1>3, <1>5, <1>7
    <2>3. Emits(text, cut)
        BY <1>4, <1>7, <2>1, <2>2 DEF Emits
    <2> QED BY <1>1, <1>2, <1>4, <2>1, <2>3
<1>8. CASE ~(Len(text) > TailLength /\ cut > 0)
    <2>1. Len(text) <= TailLength \/ (TailLength > 0 /\ Cut(text) <= 0)
        BY <1>3, <1>5, <1>6, <1>8
    <2>2. Keeps(text)
        BY <1>4, <1>8, <2>1 DEF Keeps
    <2> QED BY <1>1, <1>2, <1>4, <2>2
<1> QED BY <1>7, <1>8

LEMMA RestoredIsGiven ==
    ASSUME NEW text \in Seq(Chars)
    PROVE  Restored(text) \in Seq(Given) /\ Restored(text) \in Seq(Letters)
<1>1. text \in Seq(Letters) /\ text \in Seq(Given)
    BY SeqOfLetters
<1> QED BY <1>1, GivenFacts, DictionaryFacts, RestoredIsText

LEMMA TypedInit == ASSUME Init PROVE Typed
<1>1. whole = <<>> /\ buffer = <<>> /\ emitted = <<>> /\ ended \in BOOLEAN
    BY DEF Init
<1>2. \A A : <<>> \in Seq(A)
    BY EmptyText
<1>3. Len(<<>>) = 0 /\ MaxText \in Nat
    BY StreamAssumption
<1> QED BY <1>1, <1>2, <1>3 DEF Typed

LEMMA TypedStep == ASSUME Typed, [Next]_vars PROVE Typed'
<1>1. ASSUME NEW chunk \in Texts(MaxChunk), Feed(chunk) PROVE Typed'
    <2>1. PICK text \in Seq(Chars) :
              /\ chunk \in Seq(Chars) /\ text = buffer \o chunk
              /\ Len(chunk) \in Nat /\ Len(text) = Len(buffer) + Len(chunk)
              /\ ~ended /\ ended' = ended
              /\ whole' = whole \o chunk /\ Len(whole) + Len(chunk) <= MaxText
              /\ Keeps(text) \/ \E cut \in Nat : Emits(text, cut)
        BY <1>1, FeedFacts
    <2>2. whole' \in Seq(Chars) /\ Len(whole') = Len(whole) + Len(chunk)
        BY <2>1, ConcatFacts DEF Typed
    <2>3. CASE Keeps(text)
        BY <2>1, <2>2, <2>3 DEF Typed, Keeps
    <2>4. ASSUME NEW cut \in Nat, Emits(text, cut) PROVE Typed'
        <3>1. /\ cut \in 1..Len(text)
              /\ emitted' = emitted \o Restored(SubSeq(text, 1, cut))
              /\ buffer' = SubSeq(text, cut + 1, Len(text))
            BY <2>4 DEF Emits
        <3>2. Len(text) \in Nat /\ 0 \in Nat
            BY EmptyText
        <3>3. SubSeq(text, 1, cut) \in Seq(Chars)
            BY <3>1, <3>2
        <3>4. buffer' \in Seq(Chars) /\ Len(buffer') = Len(text) - cut
            BY <3>1, <3>2, SubSeqFacts
        <3>5. PICK r \in Seq(Given) : r = Restored(SubSeq(text, 1, cut))
            BY <3>3, RestoredIsGiven
        <3>6. emitted' \in Seq(Given)
            BY <3>1, <3>5, ConcatFacts DEF Typed
        <3> QED BY <2>1, <2>2, <3>1, <3>2, <3>4, <3>6 DEF Typed
    <2> QED BY <2>1, <2>3, <2>4
<1>2. CASE Finish
    <2>1. PICK r \in Seq(Given) : r = Restored(buffer)
        BY RestoredIsGiven DEF Typed
    <2>2. emitted' \in Seq(Given)
        BY <1>2, <2>1, ConcatFacts DEF Finish, Typed
    <2> QED BY <1>2, <2>2, EmptyText DEF Finish, Typed
<1>3. CASE UNCHANGED vars
    BY <1>3 DEF vars, Typed
<1> QED BY <1>1, <1>2, <1>3 DEF Next

LEMMA TypedIsTypeOK == ASSUME Typed PROVE TypeOK
<1>1. whole \in Texts(MaxText) /\ buffer \in Texts(MaxText)
    <2>1. Len(buffer) <= MaxText /\ MaxText \in Nat
        BY StreamAssumption DEF Typed
    <2> QED BY <2>1, TextsAre DEF Typed
<1>2. Range(emitted) \subseteq Given
    BY DEF Typed, Range
<1> QED BY <1>1, <1>2 DEF TypeOK, Typed, Given

\* The texts of a stream are texts of their alphabets (StreamRestorer: what is
\* emitted has letters of the answer and of the originals alone).
THEOREM TypeCorrect == Spec => []TypeOK
<1>1. Init => Typed
    BY TypedInit
<1>2. Typed /\ [Next]_vars => Typed'
    BY TypedStep
<1>3. Typed => TypeOK
    BY TypedIsTypeOK
<1> QED BY <1>1, <1>2, <1>3, PTL DEF Spec

-----------------------------------------------------------------------------
(* How much is held back. *)

LEMMA HoldStep ==
    ASSUME Nested, Typed, HoldIsBounded, [Next]_vars
    PROVE  HoldIsBounded'
<1>0. /\ Longest \in Nat /\ TailLength \in Nat /\ TailLength <= Longest
      /\ TailLength = 0 <=> Longest = 0
    BY LongestFacts, TailFacts
<1>1. ASSUME NEW chunk \in Texts(MaxChunk), Feed(chunk) PROVE HoldIsBounded'
    <2>1. PICK text \in Seq(Chars) : Keeps(text) \/ \E cut \in Nat : Emits(text, cut)
        BY <1>1, FeedFacts
    <2>2. Len(text) \in Nat /\ text \in Seq(Letters)
        BY EmptyText, SeqOfLetters
    <2>3. ASSUME TailLength > 0, TailLength <= Len(text)
          PROVE  Cut(text) \in Nat /\ Len(text) - Cut(text) < 2 * Longest
        <3>1. /\ Cut(text) \in 0..(Len(text) - TailLength)
              /\ Reaches(Cut(text), Len(text) - TailLength, text)
            BY <2>2, <2>3, CutFacts
        <3>2. CASE Cut(text) = Len(text) - TailLength
            BY <1>0, <2>2, <2>3, <3>2
        <3>3. CASE Cut(text) # Len(text) - TailLength
            <4>1. PICK s \in Range(Surrogates) : Len(text) - TailLength < Cut(text) + Len(s)
                BY <3>1, <3>3 DEF Reaches
            <4>2. Len(s) \in Nat /\ Len(s) <= Longest
                BY DictionaryFacts, LongestFacts
            <4> QED BY <1>0, <2>2, <2>3, <3>1, <4>1, <4>2
        <3> QED BY <3>2, <3>3
    <2>4. CASE Keeps(text)
        <3>1. buffer' = text
            BY <2>4 DEF Keeps
        <3>2. CASE Len(text) <= TailLength
            <4>1. text = <<>> \/ Len(text) < 2 * Longest
                BY <1>0, <2>2, <3>2, EmptyText
            <4> QED BY <3>1, <4>1 DEF HoldIsBounded, Longest
        <3>3. CASE ~(Len(text) <= TailLength)
            <4>1. TailLength > 0 /\ Cut(text) <= 0 /\ TailLength <= Len(text)
                BY <1>0, <2>2, <2>4, <3>3 DEF Keeps
            <4>2. Len(text) < 2 * Longest
                BY <1>0, <2>2, <2>3, <4>1
            <4> QED BY <3>1, <4>2 DEF HoldIsBounded, Longest
        <3> QED BY <3>2, <3>3
    <2>5. ASSUME NEW cut \in Nat, Emits(text, cut) PROVE HoldIsBounded'
        <3>1. cut \in 1..Len(text) /\ buffer' = SubSeq(text, cut + 1, Len(text))
            BY <2>5 DEF Emits
        <3>2. buffer' \in Seq(Chars) /\ Len(buffer') = Len(text) - cut
            BY <2>2, <3>1, SubSeqFacts
        <3>3. CASE cut = Len(text)
            <4>1. buffer' = <<>>
                BY <2>2, <3>2, <3>3, EmptyText
            <4> QED BY <4>1 DEF HoldIsBounded
        <3>4. CASE cut # Len(text)
            <4>1. TailLength > 0 /\ TailLength < Len(text) /\ cut = Cut(text)
                BY <2>5, <3>4 DEF Emits
            <4>2. Len(buffer') < 2 * Longest
                BY <1>0, <2>2, <2>3, <3>2, <4>1
            <4> QED BY <4>2 DEF HoldIsBounded, Longest
        <3> QED BY <3>3, <3>4
    <2> QED BY <2>1, <2>4, <2>5
<1>2. CASE Finish
    BY <1>2 DEF Finish, HoldIsBounded
<1>3. CASE UNCHANGED vars
    BY <1>3 DEF vars, HoldIsBounded, Longest
<1> QED BY <1>1, <1>2, <1>3 DEF Next

\* For every dictionary whose words overlap only one inside the other, less than
\* two of the longest surrogate is held back, however the answer is divided
\* (StreamRestorer.feed: the cut moves back by less than one surrogate).
THEOREM HoldBounded == Nested => (Spec => []HoldIsBounded)
<1> SUFFICES ASSUME Nested PROVE Spec => []HoldIsBounded
    OBVIOUS
<1> DEFINE Inv == Typed /\ HoldIsBounded
<1>1. Init => Inv
    BY TypedInit DEF Init, HoldIsBounded
<1>2. Inv /\ [Next]_vars => Inv'
    BY TypedStep, HoldStep
<1> QED BY <1>1, <1>2, PTL DEF Spec
-----------------------------------------------------------------------------
(* Places of surrogates, when an answer goes on or is divided once more. *)

LEMMA JoinsFlip ==
    ASSUME NEW A, NEW x, NEW y, NEW z, NEW xy, NEW yz, Joins(A, xy, x, y), Joins(A, yz, y, z),
           NEW t
    PROVE  Joins(A, t, xy, z) <=> Joins(A, t, x, yz)
<1>1. /\ x \in Seq(A) /\ y \in Seq(A) /\ z \in Seq(A)
      /\ xy \in Seq(A) /\ yz \in Seq(A)
    BY DEF Joins
<1>2. xy = x \o y /\ yz = y \o z
    BY JoinIsConcat
<1>3. (x \o y) \o z = x \o (y \o z)
    BY <1>1, ConcatIsAssociative
<1>4. xy \o z = x \o yz
    BY <1>2, <1>3
<1>5. Joins(A, t, xy, z) => t = xy \o z
    BY JoinIsConcat
<1>6. Joins(A, t, x, yz) => t = x \o yz
    BY JoinIsConcat
<1>7. Joins(A, xy \o z, xy, z) /\ Joins(A, x \o yz, x, yz)
    BY <1>1, JoinFacts
<1> QED BY <1>4, <1>5, <1>6, <1>7

\* What is held back is longer than the part of a surrogate that may yet come.
LEMMA WholeWhenExtended ==
    ASSUME NEW w, NEW head, NEW b, Joins(Letters, w, head, b), AllWhole(w, Len(head)),
           head = <<>> \/ Len(b) >= Longest, NEW v, NEW c, Joins(Letters, v, w, c)
    PROVE  AllWhole(v, Len(head))
<1> SUFFICES ASSUME NEW u \in Range(Surrogates), NEW n \in Nat, n < Len(head),
                    Len(head) < n + Len(u), At(u, v, n)
             PROVE  FALSE
    BY DEF AllWhole, Whole
<1>1. Len(w) = Len(head) + Len(b) /\ Len(head) \in Nat /\ Len(b) \in Nat
    BY DEF Joins
<1>2. u \in Seq(Letters) /\ Len(u) \in Nat /\ Len(u) <= Longest /\ Longest \in Nat
    BY DictionaryFacts, LongestFacts
<1>3. Len(b) >= Longest
    BY <1>1, EmptyText
<1>4. n + Len(u) <= Len(w)
    BY <1>1, <1>2, <1>3
<1>5. At(u, w, n)
    BY <1>2, <1>4, AtJoined
<1> QED BY <1>5 DEF AllWhole, Whole

LEMMA WholeInPart ==
    ASSUME NEW v, NEW h, NEW post, Joins(Letters, v, h, post), NEW m \in Nat, AllWhole(v, m)
    PROVE  AllWhole(h, m)
<1> SUFFICES ASSUME NEW u \in Range(Surrogates), NEW n \in Nat, n < m, m < n + Len(u), At(u, h, n)
             PROVE  FALSE
    BY DEF AllWhole, Whole
<1>1. u \in Seq(Letters) /\ n + Len(u) <= Len(h)
    BY DictionaryFacts DEF At
<1>2. At(u, v, n)
    BY <1>1, AtJoined
<1> QED BY <1>2 DEF AllWhole, Whole

LEMMA WholeFurther ==
    ASSUME NEW v, NEW head, NEW text, Joins(Letters, v, head, text), AllWhole(v, Len(head)),
           NEW cut \in 1..Len(text), AllWhole(text, cut)
    PROVE  AllWhole(v, Len(head) + cut)
<1>1. Len(head) \in Nat /\ Len(text) \in Nat /\ cut \in Nat /\ cut > 0
    BY DEF Joins
<1> SUFFICES ASSUME NEW u \in Range(Surrogates), NEW n \in Nat, n < Len(head) + cut,
                    Len(head) + cut < n + Len(u), At(u, v, n)
             PROVE  FALSE
    BY DEF AllWhole, Whole
<1>2. u \in Seq(Letters) /\ Len(u) \in Nat
    BY DictionaryFacts
<1>3. CASE n < Len(head)
    <2>1. Len(head) < n + Len(u)
        BY <1>1, <1>2
    <2> QED BY <1>3, <2>1 DEF AllWhole, Whole
<1>4. CASE n >= Len(head)
    <2>1. PICK m \in Nat : n = Len(head) + m
        <3>1. n - Len(head) \in Nat /\ n = Len(head) + (n - Len(head))
            BY <1>1, <1>4
        <3> QED BY <3>1
    <2>2. At(u, text, m)
        BY <1>2, <2>1, AtJoined
    <2>3. m < cut /\ cut < m + Len(u)
        BY <1>1, <1>2, <2>1
    <2> QED BY <2>2, <2>3 DEF AllWhole, Whole
<1> QED BY <1>1, <1>3, <1>4

LEMMA WholeAtEnd ==
    ASSUME NEW v \in Seq(Letters)
    PROVE  AllWhole(v, Len(v))
<1> SUFFICES ASSUME NEW u \in Range(Surrogates), NEW n \in Nat, Len(v) < n + Len(u), At(u, v, n)
             PROVE  FALSE
    BY DEF AllWhole, Whole
<1>1. Len(u) \in Nat /\ Len(v) \in Nat /\ n + Len(u) <= Len(v)
    BY DictionaryFacts, EmptyText DEF At
<1> QED BY <1>1

-----------------------------------------------------------------------------
(* What is restored, word by word. *)

\* From the turn m on, a text without surrogates stays as it is.
LEMMA NoneRestoredFrom ==
    ASSUME NEW text \in Seq(Letters), NEW restored, IsRestoring(restored, text),
           NEW t \in Seq(Letters), \A u \in Range(Surrogates) : \A n \in Nat : ~At(u, t, n),
           NEW m \in 0..Len(Surrogates), restored[m] = t
    PROVE  Restored(text) = t
<1> DEFINE N == Len(Surrogates)
           S == {k \in Nat : m <= k /\ k <= N => restored[k] = t}
<1>1. N \in Nat /\ Places = 1..N /\ m \in Nat
    BY DictionaryFacts DEF Places
<1> HIDE DEF N
<1>2. 0 \in S
    BY <1>1
<1>3. ASSUME NEW k \in Nat, k \in S PROVE k + 1 \in S
    <2> SUFFICES ASSUME m <= k + 1, k + 1 <= N PROVE restored[k + 1] = t
        OBVIOUS
    <2>1. CASE m = k + 1
        BY <2>1
    <2>2. CASE m # k + 1
        <3>1. m <= k /\ k <= N /\ k + 1 \in Places /\ (k + 1) - 1 = k
            BY <1>1, <2>2
        <3>2. IsStep(restored[k + 1], t, k + 1)
            BY <1>3, <3>1 DEF IsRestoring
        <3>3. PICK s \in Seq(Letters), o \in Seq(Letters) :
                 /\ s \in Range(Surrogates) /\ Len(s) > 0
                 /\ \A new, old : IsStep(new, old, k + 1) <=> new = Replaced(old, s, o)
            BY <3>1, StepFacts
        <3>4. Replaced(t, s, o) = t
            BY <3>3, NoneReplaced
        <3> QED BY <3>2, <3>3, <3>4
    <2> QED BY <2>1, <2>2
<1>4. Nat \subseteq S
    <2> HIDE DEF S
    <2> QED BY <1>2, <1>3, SetInduction
<1>5. N \in S
    BY <1>1, <1>4, Zenon
<1>6. m <= N
    BY <1>1 DEF N
<1> QED BY <1>1, <1>5, <1>6 DEF IsRestoring, N

LEMMA NoneRestored ==
    ASSUME NEW text \in Seq(Letters), \A u \in Range(Surrogates) : \A n \in Nat : ~At(u, text, n)
    PROVE  Restored(text) = text
<1>1. IsRestoring(Restoring(text), text)
    BY RestoringFacts
<1>2. 0 \in 0..Len(Surrogates)
    BY DictionaryFacts
<1>3. Restoring(text)[0] = text
    BY <1>1 DEF IsRestoring
<1> QED BY <1>1, <1>2, <1>3, NoneRestoredFrom

LEMMA NothingRestored == Restored(<<>>) = <<>>
<1>1. <<>> \in Seq(Letters) /\ Len(<<>>) = 0
    BY EmptyText
<1>2. ASSUME NEW u \in Range(Surrogates), NEW n \in Nat PROVE ~At(u, <<>>, n)
    BY <1>1, DictionaryFacts DEF At
<1> QED BY <1>1, <1>2, NoneRestored

\* A surrogate gives its original: what is looked for before it is not in it,
\* and what is looked for after it is not in the original.
LEMMA WordRestored ==
    ASSUME Foreign, NEW s \in Range(Surrogates)
    PROVE  Restored(s) = Original[s]
<1> DEFINE f == Restoring(s)
           N == Len(Surrogates)
<1>1. s \in Seq(Letters) /\ Len(s) \in Nat /\ Len(s) > 0
    BY DictionaryFacts
<1>2. IsRestoring(f, s)
    BY <1>1, RestoringFacts
<1>3. N \in Nat /\ Places = 1..N
    BY DictionaryFacts DEF Places
<1>4. PICK m \in Places :
         /\ LongestFirst[m] = s
         /\ \A k \in Places : k < m => LongestFirst[k] # s /\ Len(LongestFirst[k]) >= Len(s)
    BY OrderFacts
<1> HIDE DEF f, N
<1> DEFINE S == {k \in Nat : k < m => f[k] = s}
<1>5. 0 \in S
    BY <1>2 DEF IsRestoring
<1>6. ASSUME NEW k \in Nat, k \in S PROVE k + 1 \in S
    <2> SUFFICES ASSUME k + 1 < m PROVE f[k + 1] = s
        OBVIOUS
    <2>1. k < m /\ k + 1 \in Places /\ (k + 1) - 1 = k
        BY <1>3
    <2>2. IsStep(f[k + 1], s, k + 1)
        BY <1>2, <1>6, <2>1 DEF IsRestoring
    <2>3. PICK u \in Seq(Letters), o \in Seq(Letters) :
             /\ u = LongestFirst[k + 1] /\ u \in Range(Surrogates) /\ Len(u) > 0
             /\ \A new, old : IsStep(new, old, k + 1) <=> new = Replaced(old, u, o)
        BY <2>1, StepFacts
    <2>4. u # s /\ Len(u) >= Len(s) /\ Len(u) \in Nat
        BY <1>4, <2>1, <2>3, DictionaryFacts
    <2>5. ASSUME NEW n \in Nat, At(u, s, n) PROVE FALSE
        <3>1. n + Len(u) <= Len(s) /\ \A j \in 1..Len(u) : s[n + j] = u[j]
            BY <2>5 DEF At
        <3>2. n = 0 /\ Len(u) = Len(s)
            BY <1>1, <2>4, <3>1
        <3>3. \A j \in 1..Len(u) : 0 + j = j
            OBVIOUS
        <3>4. u = s
            BY <1>1, <3>1, <3>2, <3>3, SameText
        <3> QED BY <2>4, <3>4
    <2>6. Replaced(s, u, o) = s
        BY <1>1, <2>3, <2>5, NoneReplaced
    <2> QED BY <2>2, <2>3, <2>6
<1>7. Nat \subseteq S
    <2> HIDE DEF S
    <2> QED BY <1>5, <1>6, SetInduction
<1>8. f[m - 1] = s
    <2>1. m - 1 \in Nat /\ m - 1 < m
        BY <1>3
    <2> QED BY <1>7, <2>1
<1>9. PICK o \in Seq(Letters) :
         /\ o = Original[s]
         /\ \A new, old : IsStep(new, old, m) <=> new = Replaced(old, s, o)
    BY <1>4, StepFacts
<1>10. f[m] = o
    <2>1. IsStep(f[m], s, m)
        BY <1>2, <1>8 DEF IsRestoring
    <2>2. Replaced(s, s, o) = o
        BY <1>1, WordReplaced
    <2> QED BY <1>9, <2>1, <2>2
<1>11. ASSUME NEW u \in Range(Surrogates), NEW n \in Nat, At(u, o, n) PROVE FALSE
    <2>1. Apart(u, o) /\ u \in Seq(Letters) /\ Len(u) \in Nat /\ Len(u) > 0
        BY <1>9, DictionaryFacts DEF Foreign, Apart
    <2>2. n + Len(u) <= Len(o) /\ \A j \in 1..Len(u) : o[n + j] = u[j]
        BY <1>11 DEF At
    <2>3. n \in Int /\ 1 - Len(u) <= n /\ n < Len(o)
        BY <2>1, <2>2, EmptyText
    <2>4. ASSUME NEW q \in 1..Len(o), q - n \in 1..Len(u) PROVE o[q] = u[q - n]
        <3>1. o[n + (q - n)] = u[q - n]
            BY <2>2, <2>4
        <3>2. n + (q - n) = q
            OBVIOUS
        <3> QED BY <3>1, <3>2
    <2> QED BY <2>1, <2>3, <2>4, ApartFacts
<1>12. m \in 0..Len(Surrogates)
    BY <1>3 DEF N
<1>13. Restored(s) = o
    BY <1>1, <1>2, <1>10, <1>11, <1>12, NoneRestoredFrom
<1> QED BY <1>9, <1>13

-----------------------------------------------------------------------------
(* What is emitted is the answer, restored. *)

\* The part head of the answer w was restored and emitted, the part b is held
\* back: no surrogate lies in both, nor will one when the answer goes on.
Parted(head, w, b, e, end) ==
    /\ Joins(Letters, w, head, b)
    /\ e = Restored(head)
    /\ AllWhole(w, Len(head))
    /\ head = <<>> \/ end \/ Len(b) >= Longest

StreamInv == \E head \in Seq(Letters) : Parted(head, whole, buffer, emitted, ended)

LEMMA StreamInit == ASSUME Init PROVE StreamInv
<1>1. whole = <<>> /\ buffer = <<>> /\ emitted = <<>>
    BY DEF Init
<1>2. <<>> \in Seq(Letters) /\ Len(<<>>) = 0
    BY EmptyText
<1>3. Joins(Letters, <<>>, <<>>, <<>>)
    BY <1>2 DEF Joins
<1>4. AllWhole(<<>>, Len(<<>>))
    BY <1>2, WholeAtEnd
<1>5. Parted(<<>>, whole, buffer, emitted, ended)
    BY <1>1, <1>3, <1>4, NothingRestored DEF Parted
<1> QED BY <1>2, <1>5 DEF StreamInv

LEMMA EmitsKeepsParted ==
    ASSUME Nested, Foreign, Longest <= LatencyCap,
           NEW head, NEW w, NEW text \in Seq(Letters), NEW e,
           Joins(Letters, w, head, text), AllWhole(w, Len(head)), e = Restored(head),
           NEW cut \in 1..Len(text),
           \/ TailLength = 0 /\ cut = Len(text)
           \/ TailLength > 0 /\ TailLength < Len(text) /\ cut = Cut(text),
           NEW end
    PROVE  \E h \in Seq(Letters) :
              Parted(h, w, SubSeq(text, cut + 1, Len(text)),
                     e \o Restored(SubSeq(text, 1, cut)), end)
<1>1. Len(text) \in Nat /\ cut \in Nat /\ cut <= Len(text) /\ cut > 0
    BY EmptyText
<1>2. PICK pre, post : pre = SubSeq(text, 1, cut) /\ post = SubSeq(text, cut + 1, Len(text))
    OBVIOUS
<1>3. /\ pre \in Seq(Letters) /\ Len(pre) = cut
      /\ post \in Seq(Letters) /\ Len(post) = Len(text) - cut
    <2>1. 0 \in Nat /\ 0 + 1 = 1 /\ 0 <= cut
        BY <1>1
    <2>2. SubSeq(text, 0 + 1, cut) \in Seq(Letters) /\ Len(SubSeq(text, 0 + 1, cut)) = cut - 0
        BY <1>1, <2>1, SubSeqFacts
    <2>3. /\ SubSeq(text, cut + 1, Len(text)) \in Seq(Letters)
          /\ Len(SubSeq(text, cut + 1, Len(text))) = Len(text) - cut
        BY <1>1, SubSeqFacts
    <2> QED BY <1>1, <1>2, <2>1, <2>2, <2>3
<1>4. Joins(Letters, text, pre, post)
    <2>1. cut \in 0..Len(text)
        BY <1>1
    <2>2. text = pre \o post
        BY <1>2, <2>1, Divide
    <2> QED BY <1>3, <2>2, JoinFacts
<1>5. head \in Seq(Letters) /\ Len(head) \in Nat
    BY DEF Joins
<1>6. PICK h \in Seq(Letters) : h = head \o pre /\ Len(h) = Len(head) + cut
    BY <1>3, <1>5, ConcatFacts
<1>7. Joins(Letters, h, head, pre)
    BY <1>3, <1>5, <1>6, JoinFacts
<1>8. Joins(Letters, w, h, post)
    BY <1>4, <1>7, JoinsFlip
<1>9. AllWhole(h, Len(head))
    BY <1>5, <1>8, WholeInPart
<1>10. Restored(h) = e \o Restored(pre)
    <2>1. Joins(Letters, Restored(h), Restored(head), Restored(pre))
        BY <1>7, <1>9, RestoredDivides
    <2> QED BY <2>1, JoinIsConcat
<1>11. AllWhole(text, cut) /\ Len(post) >= Longest
    <2>1. TailLength \in Nat /\ TailLength = Longest /\ Longest \in Nat
        BY TailFacts, LongestFacts
    <2>2. CASE TailLength = 0 /\ cut = Len(text)
        BY <1>1, <1>3, <2>1, <2>2, WholeAtEnd
    <2>3. CASE TailLength > 0 /\ TailLength < Len(text) /\ cut = Cut(text)
        <3>1. TailLength <= Len(text)
            BY <1>1, <2>1, <2>3
        <3>2. Cut(text) \in 0..(Len(text) - TailLength) /\ AllWhole(text, Cut(text))
            BY <3>1, CutFacts
        <3> QED BY <1>1, <1>3, <2>1, <2>3, <3>2
    <2> QED BY <2>2, <2>3
<1>12. AllWhole(w, Len(h))
    BY <1>6, <1>11, WholeFurther
<1>13. Parted(h, w, post, Restored(h), end)
    BY <1>8, <1>11, <1>12 DEF Parted
<1> QED BY <1>2, <1>10, <1>13

LEMMA StreamStep ==
    ASSUME Nested, Foreign, Longest <= LatencyCap, Typed, StreamInv, [Next]_vars
    PROVE  StreamInv'
<1>0. PICK head \in Seq(Letters) : Parted(head, whole, buffer, emitted, ended)
    BY DEF StreamInv
<1>1. ASSUME NEW chunk \in Texts(MaxChunk), Feed(chunk) PROVE StreamInv'
    <2>1. PICK text \in Seq(Chars) :
              /\ chunk \in Seq(Chars) /\ text = buffer \o chunk
              /\ Len(chunk) \in Nat /\ Len(text) = Len(buffer) + Len(chunk)
              /\ ~ended /\ ended' = ended
              /\ whole' = whole \o chunk
              /\ Keeps(text) \/ \E cut \in Nat : Emits(text, cut)
        BY <1>1, FeedFacts
    <2>2. /\ text \in Seq(Letters) /\ chunk \in Seq(Letters)
          /\ whole \in Seq(Letters) /\ buffer \in Seq(Letters) /\ Len(buffer) \in Nat
        BY <2>1, SeqOfLetters DEF Typed
    <2>3. PICK w, e : w = whole' /\ e = emitted
        OBVIOUS
    <2>4. Joins(Letters, w, whole, chunk) /\ Joins(Letters, text, buffer, chunk)
        BY <2>1, <2>2, <2>3, JoinFacts
    <2>5. Joins(Letters, w, head, text)
        BY <1>0, <2>4, JoinsFlip DEF Parted
    <2>6. AllWhole(w, Len(head))
        <3>1. head = <<>> \/ Len(buffer) >= Longest
            BY <1>0, <2>1 DEF Parted
        <3> QED BY <1>0, <2>4, <3>1, WholeWhenExtended DEF Parted
    <2>7. e = Restored(head)
        BY <1>0, <2>3 DEF Parted
    <2>8. CASE Keeps(text)
        <3>1. head = <<>> \/ Len(text) >= Longest
            <4>1. Longest \in Nat
                BY LongestFacts
            <4>2. CASE Len(buffer) >= Longest
                BY <2>1, <2>2, <4>1, <4>2
            <4> QED BY <1>0, <2>1, <4>2 DEF Parted
        <3>2. Parted(head, w, text, e, ended')
            BY <2>5, <2>6, <2>7, <3>1 DEF Parted
        <3>3. buffer' = text /\ emitted' = e
            BY <2>3, <2>8 DEF Keeps
        <3> QED BY <2>3, <3>2, <3>3 DEF StreamInv
    <2>9. ASSUME NEW cut \in Nat, Emits(text, cut) PROVE StreamInv'
        <3>1. /\ cut \in 1..Len(text)
              /\ \/ TailLength = 0 /\ cut = Len(text)
                 \/ TailLength > 0 /\ TailLength < Len(text) /\ cut = Cut(text)
              /\ emitted' = e \o Restored(SubSeq(text, 1, cut))
              /\ buffer' = SubSeq(text, cut + 1, Len(text))
            BY <2>3, <2>9 DEF Emits
        <3>2. \E h \in Seq(Letters) :
                 Parted(h, w, SubSeq(text, cut + 1, Len(text)),
                        e \o Restored(SubSeq(text, 1, cut)), ended')
            BY <2>2, <2>5, <2>6, <2>7, <3>1, EmitsKeepsParted
        <3> QED BY <2>3, <3>1, <3>2 DEF StreamInv
    <2> QED BY <2>1, <2>8, <2>9
<1>2. CASE Finish
    <2>1. /\ emitted' = emitted \o Restored(buffer) /\ buffer' = <<>>
          /\ ended' /\ whole' = whole
        BY <1>2 DEF Finish
    <2>2. Joins(Letters, Restored(whole), Restored(head), Restored(buffer))
        BY <1>0, RestoredDivides DEF Parted
    <2>3. Restored(whole) = emitted \o Restored(buffer)
        BY <1>0, <2>2, JoinIsConcat DEF Parted
    <2>4. PICK w \in Seq(Letters) : w = whole /\ AllWhole(w, Len(w))
        BY SeqOfLetters, WholeAtEnd DEF Typed
    <2>5. Joins(Letters, w, w, <<>>)
        <3>1. <<>> \in Seq(Letters) /\ w = w \o <<>>
            BY EmptyText
        <3> QED BY <3>1, JoinFacts
    <2>6. Parted(w, w, <<>>, Restored(w), ended')
        BY <2>1, <2>4, <2>5 DEF Parted
    <2> QED BY <2>1, <2>3, <2>4, <2>6 DEF StreamInv
<1>3. CASE UNCHANGED vars
    BY <1>0, <1>3 DEF vars, StreamInv
<1> QED BY <1>1, <1>2, <1>3 DEF Next

LEMMA PartedMatches ==
    ASSUME Foreign, StreamInv
    PROVE  StreamMatchesWhole
<1>1. PICK head \in Seq(Letters) : Parted(head, whole, buffer, emitted, ended)
    BY DEF StreamInv
<1>2. Joins(Letters, Restored(whole), Restored(head), Restored(buffer))
    BY <1>1, RestoredDivides DEF Parted
<1> QED BY <1>1, <1>2, JoinIsConcat DEF Parted, StreamMatchesWhole

\* For every dictionary whose words overlap only one inside the other, cannot
\* arise from an original and are no longer than the latency cap, what the client
\* was given and what is held back are the restored answer, at every moment and
\* however the provider divides it (StreamRestorer.feed and finish).
THEOREM StreamMatches ==
    Nested /\ Foreign /\ Longest <= LatencyCap => (Spec => []StreamMatchesWhole)
<1> SUFFICES ASSUME Nested, Foreign, Longest <= LatencyCap
             PROVE  Spec => []StreamMatchesWhole
    OBVIOUS
<1> DEFINE Inv == Typed /\ StreamInv
<1>1. Init => Inv
    BY TypedInit, StreamInit
<1>2. Inv /\ [Next]_vars => Inv'
    BY TypedStep, StreamStep
<1>3. Inv => StreamMatchesWhole
    BY PartedMatches
<1> QED BY <1>1, <1>2, <1>3, PTL DEF Spec
-----------------------------------------------------------------------------
(* Surrogates are swapped back one for one. *)

Here(text, i) == {s \in Range(Surrogates) : i - 1 \in Occurrences(s, text)}

LongestOf(H) == CHOOSE s \in H : \A u \in H : Len(u) <= Len(s)

LEMMA LongestOfFacts ==
    ASSUME NEW H, H \subseteq Range(Surrogates), H # {}
    PROVE  LongestOf(H) \in H /\ \A u \in H : Len(u) <= Len(LongestOf(H))
<1> DEFINE T == {Longest - Len(s) : s \in H}
<1>1. \A s \in H : Len(s) \in Nat /\ Len(s) <= Longest /\ Longest \in Nat
    BY DictionaryFacts, LongestFacts
<1>2. T \subseteq Nat /\ T # {}
    BY <1>1
<1>3. PICK x \in T : \A y \in T : x <= y
    BY <1>2, LeastOf
<1>4. PICK s \in H : x = Longest - Len(s)
    BY <1>3
<1>5. ASSUME NEW u \in H PROVE Len(u) <= Len(s)
    <2>1. Longest - Len(s) <= Longest - Len(u)
        BY <1>3, <1>4
    <2> QED BY <1>1, <2>1
<1> QED BY <1>4, <1>5 DEF LongestOf

SwapBody(text, rest, i) ==
    IF i > Len(text) THEN <<>>
    ELSE IF Here(text, i) = {} THEN <<text[i]>> \o rest[i + 1]
    ELSE Original[LongestOf(Here(text, i))] \o rest[i + Len(LongestOf(Here(text, i)))]

Swap(text) ==
    CHOOSE rest : rest = [i \in 1..(Len(text) + 1) |-> SwapBody(text, rest, i)]

LEMMA SwappedIsSwap ==
    ASSUME NEW text
    PROVE  SwappedBack(text) = Swap(text)[1]
BY DEF SwappedBack, Swap, SwapBody, Here, LongestOf

\* The longest surrogate at a place, if there is one.
Stands(text, i, s) ==
    /\ s \in Range(Surrogates) /\ At(s, text, i - 1)
    /\ \A u \in Range(Surrogates) : At(u, text, i - 1) => Len(u) <= Len(s)

LEMMA HereFacts ==
    ASSUME NEW text \in Seq(Letters), NEW i \in 1..Len(text)
    PROVE  /\ Here(text, i) # {} => Stands(text, i, LongestOf(Here(text, i)))
           /\ Here(text, i) = {} => \A u \in Range(Surrogates) : ~At(u, text, i - 1)
<1>1. i - 1 \in Nat
    BY EmptyText
<1>2. \A s \in Range(Surrogates) : s \in Here(text, i) <=> At(s, text, i - 1)
    BY <1>1, OccurrenceFacts, DictionaryFacts DEF Here
<1>3. Here(text, i) \subseteq Range(Surrogates)
    BY DEF Here
<1>4. ASSUME Here(text, i) # {}
      PROVE  Stands(text, i, LongestOf(Here(text, i)))
    <2>1. /\ LongestOf(Here(text, i)) \in Here(text, i)
          /\ \A u \in Here(text, i) : Len(u) <= Len(LongestOf(Here(text, i)))
        BY <1>3, <1>4, LongestOfFacts
    <2> QED BY <1>2, <1>3, <2>1 DEF Stands
<1> QED BY <1>2, <1>4

\* What the lemmas below use of rest.
IsSwap(rest, text) ==
    /\ rest[Len(text) + 1] = <<>>
    /\ \A i \in 1..Len(text) :
          \/ /\ \A u \in Range(Surrogates) : ~At(u, text, i - 1)
             /\ rest[i] = <<text[i]>> \o rest[i + 1]
          \/ \E s \in Range(Surrogates) :
                Stands(text, i, s) /\ rest[i] = Original[s] \o rest[i + Len(s)]

LEMMA SwapFacts ==
    ASSUME NEW text \in Seq(Letters)
    PROVE  IsSwap(Swap(text), text)
<1> DEFINE D == 1..(Len(text) + 1)
           R == Seq(Letters)
           size == [i \in D |-> Len(text) + 1 - i]
           body == [p \in [D -> R] \X D |-> SwapBody(text, p[1], p[2])]
<1>0. Len(text) \in Nat
    BY EmptyText
<1>1. ASSUME NEW i \in D, i <= Len(text)
      PROVE  /\ i + 1 \in D /\ size[i + 1] < size[i] /\ i \in 1..Len(text)
             /\ \A s : Stands(text, i, s) => i + Len(s) \in D /\ size[i + Len(s)] < size[i]
    <2>1. \A s \in Range(Surrogates) : Len(s) \in Nat /\ Len(s) > 0
        BY DictionaryFacts
    <2> QED BY <1>0, <1>1, <2>1 DEF Stands, At
<1>2. ASSUME NEW i \in D, NEW g \in [D -> R]
      PROVE  SwapBody(text, g, i) \in R
    <2>1. CASE i > Len(text)
        BY <2>1, EmptyText DEF SwapBody
    <2>2. CASE i <= Len(text) /\ Here(text, i) # {}
        <3>1. PICK s : s = LongestOf(Here(text, i))
            OBVIOUS
        <3>2. Stands(text, i, s)
            BY <1>1, <2>2, <3>1, HereFacts
        <3>3. g[i + Len(s)] \in Seq(Letters) /\ Original[s] \in Seq(Letters)
            BY <1>1, <2>2, <3>2, DictionaryFacts DEF Stands
        <3>4. ~(i > Len(text)) /\ Here(text, i) # {}
            BY <1>0, <2>2
        <3>5. SwapBody(text, g, i) = Original[s] \o g[i + Len(s)]
            BY ONLY <3>1, <3>4 DEF SwapBody
        <3> QED BY <3>3, <3>5, ConcatFacts
    <2>3. CASE i <= Len(text) /\ Here(text, i) = {}
        <3>1. <<text[i]>> \in Seq(Letters)
            BY <1>1, <2>3
        <3>2. g[i + 1] \in Seq(Letters)
            BY <1>1, <2>3
        <3>3. SwapBody(text, g, i) = <<text[i]>> \o g[i + 1]
            BY <2>3 DEF SwapBody
        <3> QED BY <3>1, <3>2, <3>3, ConcatFacts
    <2>4. i > Len(text) \/ i <= Len(text)
        BY <1>0
    <2> QED BY <2>1, <2>2, <2>3, <2>4
<1>3. ASSUME NEW i \in D, NEW g \in [D -> R], NEW h \in [D -> R],
             \A j \in D : size[j] < size[i] => g[j] = h[j]
      PROVE  SwapBody(text, g, i) = SwapBody(text, h, i)
    <2>1. CASE i > Len(text)
        BY <2>1 DEF SwapBody
    <2>2. CASE i <= Len(text) /\ Here(text, i) # {}
        <3>1. PICK s : s = LongestOf(Here(text, i))
            OBVIOUS
        <3>2. Stands(text, i, s)
            BY <1>1, <2>2, <3>1, HereFacts
        <3>3. g[i + Len(s)] = h[i + Len(s)]
            BY <1>1, <1>3, <2>2, <3>2
        <3>4. ~(i > Len(text)) /\ Here(text, i) # {}
            BY <1>0, <2>2
        <3>5. \A f : SwapBody(text, f, i) = Original[s] \o f[i + Len(s)]
            BY ONLY <3>1, <3>4 DEF SwapBody
        <3> QED BY <3>3, <3>5
    <2>3. CASE i <= Len(text) /\ Here(text, i) = {}
        <3>1. g[i + 1] = h[i + 1]
            BY <1>1, <1>3, <2>3
        <3> QED BY <2>3, <3>1 DEF SwapBody
    <2>4. i > Len(text) \/ i <= Len(text)
        BY <1>0
    <2> QED BY <2>1, <2>2, <2>3, <2>4
<1>4. \A g \in [D -> R], i \in D : body[<<g, i>>] = SwapBody(text, g, i)
    OBVIOUS
<1> DEFINE bound == Len(text) + 1
<1>5. bound \in Nat /\ size \in [D -> Nat] /\ \A i \in D : size[i] < bound
    BY <1>0
<1>6. body \in [[D -> R] \X D -> R]
    BY <1>2
<1>7. R # {}
    BY EmptyText
<1> HIDE DEF D, R, size, body, bound
<1>8. Falls(D, R, size, bound, body)
    <2>1. ASSUME NEW g \in [D -> R], NEW h \in [D -> R], NEW i \in D,
                 \A j \in D : size[j] < size[i] => g[j] = h[j]
          PROVE  body[<<g, i>>] = body[<<h, i>>]
        <3>1. SwapBody(text, g, i) = SwapBody(text, h, i)
            BY <1>3, <2>1
        <3> QED BY <1>4, <3>1
    <2> QED BY <1>5, <1>6, <2>1 DEF Falls
<1>9. IsDefined(D, R, body)
    BY <1>7, <1>8, RecursiveFunction
<1>10. PICK f \in [D -> R] : \A i \in D : f[i] = body[<<f, i>>]
    BY <1>9 DEF IsDefined
<1>11. f = [i \in D |-> SwapBody(text, f, i)]
    BY <1>4, <1>10
<1> DEFINE g == Swap(text)
<1>12. g = [i \in D |-> SwapBody(text, g, i)]
    <2>1. Swap(text) = CHOOSE r : r = [i \in D |-> SwapBody(text, r, i)]
        BY DEF Swap, D
    <2> QED BY <1>11, <2>1
<1> HIDE DEF g
<1>13. \A i \in D : g[i] = SwapBody(text, g, i)
    BY <1>12
<1>14. g[Len(text) + 1] = <<>>
    <2>1. Len(text) + 1 \in D /\ Len(text) + 1 > Len(text)
        BY <1>0 DEF D
    <2> QED BY <1>13, <2>1 DEF SwapBody
<1>15. ASSUME NEW i \in 1..Len(text), Here(text, i) = {}
       PROVE  /\ \A u \in Range(Surrogates) : ~At(u, text, i - 1)
              /\ g[i] = <<text[i]>> \o g[i + 1]
    <2>1. i \in D /\ ~(i > Len(text))
        BY <1>0 DEF D
    <2> QED BY <1>13, <1>15, <2>1, HereFacts DEF SwapBody
<1>16. ASSUME NEW i \in 1..Len(text), Here(text, i) # {}
       PROVE  \E s \in Range(Surrogates) :
                 Stands(text, i, s) /\ g[i] = Original[s] \o g[i + Len(s)]
    <2>1. i \in D /\ ~(i > Len(text))
        BY <1>0 DEF D
    <2>2. PICK s : s = LongestOf(Here(text, i))
        OBVIOUS
    <2>3. Stands(text, i, s)
        BY <1>16, <2>2, HereFacts
    <2>4. g[i] = Original[s] \o g[i + Len(s)]
        BY <1>13, <1>16, <2>1, <2>2 DEF SwapBody
    <2> QED BY <2>3, <2>4 DEF Stands
<1> QED BY <1>14, <1>15, <1>16 DEF IsSwap, g
LEMMA RestoredAfterLetter ==
    ASSUME Foreign, NEW t, NEW c, NEW r, Joins(Letters, t, <<c>>, r),
           \A u \in Range(Surrogates) : ~At(u, t, 0)
    PROVE  Restored(t) = <<c>> \o Restored(r)
<1> DEFINE a == <<c>>
<1>1. a \in Seq(Letters) /\ Len(a) = 1
    BY DEF Joins
<1>2. Joins(Letters, t, a, r)
    OBVIOUS
<1> HIDE DEF a
<1>3. AllWhole(t, Len(a))
    <2>1. \A n \in Nat : n < 1 => n = 0
        OBVIOUS
    <2> QED BY <1>1, <2>1 DEF AllWhole, Whole
<1>4. Restored(a) = a
    <2>1. ASSUME NEW u \in Range(Surrogates), NEW n \in Nat, At(u, a, n) PROVE FALSE
        <3>1. u \in Seq(Letters) /\ Len(u) \in Nat /\ Len(u) > 0 /\ n + Len(u) <= 1
            BY <1>1, <2>1, DictionaryFacts DEF At
        <3>2. n = 0 /\ n + Len(u) <= Len(a)
            BY <1>1, <3>1
        <3>3. At(u, t, n)
            BY <1>2, <2>1, <3>1, <3>2, AtJoined
        <3> QED BY <3>2, <3>3
    <2> QED BY <1>1, <2>1, NoneRestored
<1>5. Joins(Letters, Restored(t), Restored(a), Restored(r))
    BY <1>2, <1>3, RestoredDivides
<1> QED BY <1>4, <1>5, JoinIsConcat DEF a

LEMMA RestoredAfterWord ==
    ASSUME Nested, Foreign, NEW t, NEW s \in Range(Surrogates), NEW r,
           Joins(Letters, t, s, r), At(s, t, 0),
           \A u \in Range(Surrogates) : At(u, t, 0) => Len(u) <= Len(s)
    PROVE  Restored(t) = Original[s] \o Restored(r)
<1>1. Len(s) \in Nat /\ Len(s) > 0 /\ 0 \in Nat
    BY DictionaryFacts
<1>2. AllWhole(t, Len(s))
    <2> SUFFICES ASSUME NEW u \in Range(Surrogates), NEW n \in Nat, n < Len(s),
                        Len(s) < n + Len(u), At(u, t, n)
                 PROVE  FALSE
        BY DEF AllWhole, Whole
    <2>1. Len(u) \in Nat
        BY DictionaryFacts
    <2>2. CASE n = 0
        BY <1>1, <2>1, <2>2
    <2>3. CASE n # 0
        <3>1. 0 < n /\ n < 0 + Len(s)
            BY <1>1, <2>3
        <3>2. n + Len(u) <= 0 + Len(s)
            BY <1>1, <3>1, OneInOther
        <3> QED BY <1>1, <2>1, <3>2
    <2> QED BY <2>2, <2>3
<1>3. Joins(Letters, Restored(t), Restored(s), Restored(r))
    BY <1>2, RestoredDivides
<1> QED BY <1>3, JoinIsConcat, WordRestored

Suffix(text, i) == SubSeq(text, i, Len(text))

LEMMA SuffixFacts ==
    ASSUME NEW text \in Seq(Letters), NEW i \in 1..(Len(text) + 1)
    PROVE  /\ Suffix(text, i) \in Seq(Letters)
           /\ Len(Suffix(text, i)) = Len(text) + 1 - i
           /\ \A j \in 1..(Len(text) + 1 - i) : Suffix(text, i)[j] = text[i - 1 + j]
           /\ \A u \in Range(Surrogates) : At(u, Suffix(text, i), 0) <=> At(u, text, i - 1)
<1>0. Len(text) \in Nat
    BY EmptyText
<1>1. PICK m \in Nat : i = m + 1 /\ m = i - 1 /\ m <= Len(text) /\ Len(text) - m = Len(text) + 1 - i
    <2>1. i - 1 \in Nat /\ i = (i - 1) + 1 /\ i - 1 <= Len(text)
          /\ Len(text) - (i - 1) = Len(text) + 1 - i
        BY <1>0
    <2> QED BY <2>1
<1>2. PICK t : t = Suffix(text, i)
    OBVIOUS
<1>3. t \in Seq(Letters) /\ Len(t) = Len(text) - m /\ \A j \in 1..(Len(text) - m) : t[j] = text[m + j]
    BY <1>0, <1>1, <1>2, SubSeqFacts DEF Suffix
<1>4. ASSUME NEW u \in Range(Surrogates) PROVE At(u, t, 0) <=> At(u, text, m)
    <2>1. Len(u) \in Nat
        BY DictionaryFacts
    <2>2. 0 + Len(u) <= Len(t) <=> m + Len(u) <= Len(text)
        BY <1>0, <1>1, <1>3, <2>1
    <2>3. ASSUME m + Len(u) <= Len(text), NEW j \in 1..Len(u) PROVE t[0 + j] = text[m + j]
        <3>1. j \in 1..(Len(text) - m) /\ 0 + j = j
            BY <1>0, <2>1, <2>3
        <3> QED BY <1>3, <3>1
    <2> QED BY <2>2, <2>3 DEF At
<1> QED BY <1>1, <1>2, <1>3, <1>4

LEMMA SuffixLetter ==
    ASSUME NEW text \in Seq(Letters), NEW i \in 1..Len(text)
    PROVE  Joins(Letters, Suffix(text, i), <<text[i]>>, Suffix(text, i + 1))
<1>0. /\ Len(text) \in Nat /\ i \in 1..(Len(text) + 1) /\ i + 1 \in 1..(Len(text) + 1)
      /\ i - 1 + 1 = i
    BY EmptyText
<1> DEFINE t == Suffix(text, i)
           r == Suffix(text, i + 1)
           a == <<text[i]>>
<1>1. a \in Seq(Letters) /\ Len(a) = 1 /\ a[1] = text[i]
    OBVIOUS
<1>2. /\ t \in Seq(Letters) /\ Len(t) = Len(text) + 1 - i
      /\ \A j \in 1..(Len(text) + 1 - i) : t[j] = text[i - 1 + j]
    BY <1>0, SuffixFacts
<1>3. /\ r \in Seq(Letters) /\ Len(r) = Len(text) + 1 - (i + 1)
      /\ \A j \in 1..(Len(text) + 1 - (i + 1)) : r[j] = text[(i + 1) - 1 + j]
    BY <1>0, SuffixFacts
<1> HIDE DEF t, r, a
<1>4. Len(t) \in Nat /\ Len(r) \in Nat /\ Len(t) = 1 + Len(r)
    BY <1>0, <1>2, <1>3
<1>5. \A j \in 1..Len(a) : t[j] = a[j]
    <2>1. 1 \in 1..(Len(text) + 1 - i)
        BY <1>0
    <2>2. t[1] = text[i]
        BY <1>0, <1>2, <2>1
    <2> QED BY <1>1, <2>2
<1>6. ASSUME NEW j \in 1..Len(r) PROVE t[Len(a) + j] = r[j]
    <2>1. 1 + j \in 1..(Len(text) + 1 - i) /\ i - 1 + (1 + j) = (i + 1) - 1 + j
        BY <1>0, <1>3
    <2>2. t[1 + j] = text[i - 1 + (1 + j)]
        BY <1>2, <2>1
    <2>3. r[j] = text[(i + 1) - 1 + j]
        BY <1>3
    <2> QED BY <1>1, <2>1, <2>2, <2>3
<1>7. Len(a) \in Nat /\ Len(t) = Len(a) + Len(r)
    BY <1>1, <1>4
<1>8. Joins(Letters, t, a, r)
    BY <1>1, <1>2, <1>3, <1>4, <1>5, <1>6, <1>7, Zenon DEF Joins
<1> QED BY <1>8 DEF t, r, a

LEMMA SuffixWord ==
    ASSUME NEW text \in Seq(Letters), NEW i \in 1..Len(text),
           NEW s \in Range(Surrogates), At(s, text, i - 1)
    PROVE  /\ i + Len(s) \in (i + 1)..(Len(text) + 1)
           /\ Joins(Letters, Suffix(text, i), s, Suffix(text, i + Len(s)))
<1>0. /\ Len(text) \in Nat /\ s \in Seq(Letters) /\ Len(s) \in Nat /\ Len(s) > 0
      /\ i - 1 + Len(s) <= Len(text) /\ \A j \in 1..Len(s) : text[i - 1 + j] = s[j]
    BY EmptyText, DictionaryFacts DEF At
<1>1. /\ i + Len(s) \in (i + 1)..(Len(text) + 1)
      /\ i \in 1..(Len(text) + 1) /\ i + Len(s) \in 1..(Len(text) + 1)
    BY <1>0
<1> DEFINE t == Suffix(text, i)
           r == Suffix(text, i + Len(s))
<1>2. /\ t \in Seq(Letters) /\ Len(t) = Len(text) + 1 - i
      /\ \A j \in 1..(Len(text) + 1 - i) : t[j] = text[i - 1 + j]
    BY <1>1, SuffixFacts
<1>3. /\ r \in Seq(Letters) /\ Len(r) = Len(text) + 1 - (i + Len(s))
      /\ \A j \in 1..(Len(text) + 1 - (i + Len(s))) : r[j] = text[(i + Len(s)) - 1 + j]
    BY <1>1, SuffixFacts
<1> HIDE DEF t, r
<1>4. Len(t) \in Nat /\ Len(r) \in Nat /\ Len(t) = Len(s) + Len(r)
    BY <1>0, <1>1, <1>2, <1>3
<1>5. ASSUME NEW j \in 1..Len(s) PROVE t[j] = s[j]
    <2>1. j \in 1..(Len(text) + 1 - i)
        BY <1>0
    <2> QED BY <1>0, <1>2, <2>1
<1>6. ASSUME NEW j \in 1..Len(r) PROVE t[Len(s) + j] = r[j]
    <2>1. /\ Len(s) + j \in 1..(Len(text) + 1 - i)
          /\ i - 1 + (Len(s) + j) = (i + Len(s)) - 1 + j
        BY <1>0, <1>3
    <2>2. t[Len(s) + j] = text[i - 1 + (Len(s) + j)]
        BY <1>2, <2>1
    <2>3. r[j] = text[(i + Len(s)) - 1 + j]
        BY <1>3
    <2> QED BY <2>1, <2>2, <2>3
<1>7. Joins(Letters, t, s, r)
    BY <1>0, <1>2, <1>3, <1>4, <1>5, <1>6 DEF Joins
<1> QED BY <1>1, <1>7 DEF t, r

LEMMA RestoredIsSwapped ==
    ASSUME Nested, Foreign, NEW text \in Seq(Letters)
    PROVE  Restored(text) = SwappedBack(text)
<1> DEFINE rest == Swap(text)
           n == Len(text) + 1
           S == {i \in 1..n : rest[i] = Restored(Suffix(text, i))}
<1>0. Len(text) \in Nat
    BY EmptyText
<1>1. IsSwap(rest, text)
    BY SwapFacts
<1> HIDE DEF rest
<1>2. ASSUME NEW i \in 1..n, \A j \in (i + 1)..n : j \in S PROVE i \in S
    <2>1. CASE i = n
        <3>1. rest[i] = <<>>
            BY <1>1, <2>1 DEF IsSwap
        <3>2. Len(Suffix(text, i)) = Len(text) + 1 - i /\ Suffix(text, i) \in Seq(Letters)
            BY SuffixFacts
        <3>3. Suffix(text, i) = <<>>
            BY <1>0, <2>1, <3>2, EmptyText
        <3> QED BY <3>1, <3>3, NothingRestored
    <2>2. CASE i # n
        <3>0. i \in 1..Len(text) /\ i + 1 \in (i + 1)..n
            BY <1>0, <2>2
        <3>1. \A u \in Range(Surrogates) : At(u, Suffix(text, i), 0) <=> At(u, text, i - 1)
            BY SuffixFacts
        <3>2. CASE /\ \A u \in Range(Surrogates) : ~At(u, text, i - 1)
                   /\ rest[i] = <<text[i]>> \o rest[i + 1]
            <4>1. Joins(Letters, Suffix(text, i), <<text[i]>>, Suffix(text, i + 1))
                BY <3>0, SuffixLetter
            <4>2. Restored(Suffix(text, i)) = <<text[i]>> \o Restored(Suffix(text, i + 1))
                BY <3>1, <3>2, <4>1, RestoredAfterLetter
            <4>3. rest[i + 1] = Restored(Suffix(text, i + 1))
                BY <1>2, <3>0
            <4> QED BY <3>2, <4>2, <4>3
        <3>3. ASSUME NEW s \in Range(Surrogates), Stands(text, i, s),
                     rest[i] = Original[s] \o rest[i + Len(s)]
              PROVE  i \in S
            <4>0. /\ At(s, text, i - 1)
                  /\ \A u \in Range(Surrogates) : At(u, text, i - 1) => Len(u) <= Len(s)
                BY <3>3 DEF Stands
            <4>1. /\ i + Len(s) \in (i + 1)..(Len(text) + 1)
                  /\ Joins(Letters, Suffix(text, i), s, Suffix(text, i + Len(s)))
                BY <3>0, <4>0, SuffixWord
            <4>2. Restored(Suffix(text, i)) = Original[s] \o Restored(Suffix(text, i + Len(s)))
                <5>1. At(s, Suffix(text, i), 0)
                    BY <3>1, <4>0
                <5>2. \A u \in Range(Surrogates) : At(u, Suffix(text, i), 0) => Len(u) <= Len(s)
                    BY <3>1, <4>0
                <5> QED BY <4>1, <5>1, <5>2, RestoredAfterWord
            <4>3. rest[i + Len(s)] = Restored(Suffix(text, i + Len(s)))
                BY <1>2, <4>1
            <4> QED BY <3>3, <4>2, <4>3
        <3> HIDE DEF S
        <3> QED BY <1>1, <3>0, <3>2, <3>3 DEF IsSwap
    <2> QED BY <2>1, <2>2
<1>3. 1..n \subseteq S
    <2>1. n \in Nat
        BY <1>0
    <2> HIDE DEF S, n
    <2> QED BY <1>2, <2>1, Downward
<1>4. rest[1] = Restored(Suffix(text, 1))
    <2>1. 1 \in 1..n
        BY <1>0
    <2> QED BY <1>3, <2>1
<1>5. Suffix(text, 1) = text
    <2>1. /\ Suffix(text, 1) \in Seq(Letters) /\ Len(Suffix(text, 1)) = Len(text) + 1 - 1
          /\ \A j \in 1..(Len(text) + 1 - 1) : Suffix(text, 1)[j] = text[1 - 1 + j]
        <3>1. 1 \in 1..(Len(text) + 1)
            BY <1>0
        <3> QED BY <3>1, SuffixFacts
    <2>2. Len(text) + 1 - 1 = Len(text) /\ \A j \in 1..Len(text) : 1 - 1 + j = j
        BY <1>0
    <2> QED BY <2>1, <2>2, SameText
<1>6. SwappedBack(text) = rest[1]
    BY SwappedIsSwap DEF rest
<1> QED BY <1>4, <1>5, <1>6

\* For every dictionary whose words overlap only one inside the other and cannot
\* arise from an original, restore_text gives every surrogate of the answer its
\* original, the longest first at each place, and touches nothing else: the
\* replacements one after another are one replacement of all words at once.
THEOREM OriginalsBack ==
    Nested /\ Foreign => (Spec => []OriginalsAreBack)
<1> SUFFICES ASSUME Nested, Foreign PROVE Spec => []OriginalsAreBack
    OBVIOUS
<1>1. Init => Typed
    BY TypedInit
<1>2. Typed /\ [Next]_vars => Typed'
    BY TypedStep
<1>3. Typed => OriginalsAreBack
    <2> SUFFICES ASSUME Typed PROVE OriginalsAreBack
        OBVIOUS
    <2>1. PICK t \in Seq(Letters) : t = whole
        BY SeqOfLetters DEF Typed
    <2>2. Restored(t) = SwappedBack(t)
        BY RestoredIsSwapped
    <2> QED BY <2>1, <2>2 DEF OriginalsAreBack
<1> QED BY <1>1, <1>2, <1>3, PTL DEF Spec
=============================================================================
