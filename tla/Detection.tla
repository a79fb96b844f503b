------------------------------ MODULE Detection ------------------------------
(***************************************************************************)
(* detection/engine.py and detection/merge.py: the candidate spans of all   *)
(* detectors over one text become sorted, disjoint findings. What the       *)
(* detectors find is an input. Confidences are hundredths; detector is the  *)
(* place of the detector's name in the alphabet, and nth the place of the   *)
(* span among the results of the detectors, in the order they run.          *)
(***************************************************************************)
EXTENDS Integers, FiniteSets

\* What detectors may return for a text.
AreCandidates(C) ==
    /\ IsFiniteSet(C)
    /\ \A s \in C :
          /\ s.start \in Int /\ s.end \in Int
          /\ s.confidence \in Int /\ s.specificity \in Int
          /\ s.detector \in Int /\ s.nth \in Int
    /\ \A s, t \in C : s.nth = t.nth => s = t

\* The key of the second sort, and what decides between equal keys: the order of the
\* first sort, by the later start and the nearer end, and that of the results.
Rank(s) ==
    <<s.confidence, s.specificity, s.end - s.start, s.detector,
      s.start, 0 - s.end, 0 - s.nth>>

Higher(a, b) ==
    \E i \in DOMAIN a : a[i] > b[i] /\ \A j \in 1..(i - 1) : a[j] = b[j]

Before(s, t) == Higher(Rank(s), Rank(t))

Apart(s, t) == s.end <= t.start \/ s.start >= t.end

KeepApartFromLast(kept, s) ==
    IF kept = {} \/ Apart(s, CHOOSE k \in kept : \A t \in kept : t.start <= k.start)
    THEN kept \cup {s} ELSE kept

KeepIfApart(kept, s) ==
    IF \A k \in kept : Apart(s, k) THEN kept \cup {s} ELSE kept

Lowest(S) == CHOOSE s \in S : \A t \in S \ {s} : Before(t, s)

\* One candidate after another, from the highest to the lowest.
MergeSpans(candidates) ==
    LET merged[S \in SUBSET candidates] ==
            IF S = {} THEN {}
            ELSE KeepIfApart(merged[S \ {Lowest(S)}], Lowest(S))
    IN  merged[candidates]

\* A dictionary match on the case-folded text may lie outside the text itself.
Valid(s, length) ==
    /\ 0 <= s.start /\ s.start < s.end /\ s.end <= length
    /\ s.confidence \in 0..100

FindingsUnchecked(candidates, length) == MergeSpans(candidates)

Findings(candidates, length) == MergeSpans({s \in candidates : Valid(s, length)})

=============================================================================
