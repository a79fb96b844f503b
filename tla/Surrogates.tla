------------------------------ MODULE Surrogates ------------------------------
(***************************************************************************)
(* masking/surrogates.py: the value that stands for an original. A value is*)
(* what its text says, a sequence of numbers: the digits of a card or of a *)
(* telephone number; the day of a date, counted from the first of year 1,  *)
(* and 1 or 0 for a format that is read or not; the digits of a number as  *)
(* one integer, and how many follow the point; the words of a name, or the *)
(* parts of a mailbox; the name and the legal suffix of an organization;   *)
(* the characters of an identifier. Case, and what stands between digits,  *)
(* is left out.                                                            *)
(*                                                                         *)
(* What sha256 makes of the type and the hash of a value is the parameter h:*)
(*   h.delta in -9..9, h.pool in 0..2, h.draws the numbers that are drawn  *)
(*   place by place, as often as needed, h.token the start of the hash.    *)
(* What it makes of a scope is shift, the days its dates are moved by.     *)
(***************************************************************************)
EXTENDS Integers, Sequences, SequencesExt, FiniteSetsExt

CONSTANT MaxDigits    \* a bound of the model: a number has no more digits, point or not

ASSUME MaxDigitsAssumption == MaxDigits \in Nat

\* The powers of ten.
Ten[k \in 0..MaxDigits] == IF k = 0 THEN 1 ELSE 10 * Ten[k - 1]

Magnitude(n) == IF n < 0 THEN 0 - n ELSE n

\* Half-even division by 100, the rounding of the format of a Decimal.
RoundedPercent(n) ==
    LET q == Magnitude(n) \div 100
        r == Magnitude(n) % 100
        up == r > 50 \/ (r = 50 /\ q % 2 = 1)
        a == IF up THEN q + 1 ELSE q
    IN IF n < 0 THEN 0 - a ELSE a

\* adjusted: the power of ten of the first digit of n / 10^p, at least 0.
Exponent(n, p) == Max({0} \cup {e \in 0..(MaxDigits - p) : Ten[e + p] <= Magnitude(n)})

\* replacement, clamped between the bounds of the bucket, in units of 10^-p / 100.
Clamped(n, p, replacement) ==
    LET bucket == Ten[Exponent(n, p) + p]
        lower == IF n > 0 THEN bucket ELSE 0 - 10 * bucket
        upper == IF n > 0 THEN 10 * bucket ELSE 0 - bucket
    IN Min({Max({replacement, 100 * (lower + 1)}), 100 * (upper - 1)})

NumberUnclamped(v, h) == <<RoundedPercent(v[1] * (100 + h.delta)), v[2]>>

Number(v, h) ==
    LET replacement == v[1] * (100 + h.delta) IN
    <<RoundedPercent(IF v[1] = 0 THEN replacement ELSE Clamped(v[1], v[2], replacement)), v[2]>>

Dates == {"DATE", "DATE_TIME"}

Calendar == 1..3652059   \* the days of the years 1 to 9999

\* OverflowError: the day is moved out of the calendar.
Raises(type, v, shift) == type \in Dates /\ v[2] = 1 /\ v[1] + shift \notin Calendar

DateDrawnAlone(v, shift) == <<v[1] + shift + (v[1] % 2), v[2]>>

\* A date in a format that none of the parsers reads (v[2] = 0) is returned as it is.
Date(v, shift) == IF v[2] = 0 THEN v ELSE <<v[1] + shift, v[2]>>

CardPrefix(v) ==
    CASE v[1] = 3 -> <<3, 7, 8, 2, 8, 2>>
      [] v[1] = 5 -> <<5, 5, 5, 5, 5, 5>>
      [] OTHER -> <<4, 1, 1, 1, 1, 1>>

\* A digit at a place from the right, every second one doubled.
Doubled(d, place) ==
    CASE place % 2 = 0 -> d
      [] place % 2 = 1 /\ d < 5 -> 2 * d
      [] OTHER -> (2 * d) - 9

LuhnSum(digits) ==
    SumFunction([i \in DOMAIN digits |-> Doubled(digits[i], Len(digits) - i)])

CheckDigit(prefix) == (0 - LuhnSum(Append(prefix, 0))) % 10

Draw(h, i) == h.draws[1 + (i % Len(h.draws))]

Digits(h, n) == [i \in 1..n |-> Draw(h, i) % 10]

Card(v, h) ==
    LET prefix == CardPrefix(v)
        body == prefix \o Digits(h, Max({Len(v) - Len(prefix) - 1, 1}))
    IN SubSeq(Append(body, CheckDigit(body)), 1, Len(v))

Letters == 10..35    \* the letters of an identifier; its digits are 0..9

\* Each digit by a digit and each letter by a letter.
Identifier(v, h) ==
    [i \in DOMAIN v |->
        CASE v[i] \in 0..9 -> Draw(h, i) % 10
          [] v[i] \in Letters -> 10 + (Draw(h, i) % 26)
          [] OTHER -> v[i]]

\* 55501 and three digits, cut or filled with zeros on the left.
Phone(v, h) ==
    LET number == <<5, 5, 5, 0, 1, 1 + (Draw(h, 1) % 9), Draw(h, 2) % 10, Draw(h, 3) % 10>>
        n == Len(v)
    IN IF n < 7 THEN Identifier(v, h)
       ELSE [i \in 1..n |-> IF n - i < 8 THEN number[8 - (n - i)] ELSE 0]

\* First name, or first and last. The words of the pool are numbered.
Person(v, h) == IF Len(v) = 1 THEN <<2 * h.pool>> ELSE <<2 * h.pool, 2 * h.pool + 1>>

Organization(v, h) == <<h.pool, v[2]>>

Generate(type, v, h, shift) ==
    CASE type \in {"PERSON", "CUSTOMER_NAME", "EMAIL_ADDRESS"} -> Person(v, h)
      [] type = "PHONE_NUMBER" -> Phone(v, h)
      [] type = "CREDIT_CARD" -> Card(v, h)
      [] type \in Dates -> Date(v, shift)
      [] type \in {"MONEY", "NUMBER"} -> Number(v, h)
      [] type = "LOCATION" -> <<h.pool>>
      [] type = "ORGANIZATION" -> Organization(v, h)
      [] type \in {"ACCOUNT", "ID"} -> Identifier(v, h)
      [] OTHER -> <<h.token>>        \* TOKEN- and the start of the hash

=============================================================================
