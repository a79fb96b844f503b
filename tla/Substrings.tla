----------------------------- MODULE Substrings -----------------------------
(***************************************************************************)
(* Texts as sequences of characters, and what restoring (masking/restore.py)*)
(* does to them: find and replace of Python's str.                         *)
(***************************************************************************)
EXTENDS Integers, Sequences, SequencesExt

IsText(t) == t \in Seq(Range(t))

\* The offsets, from 0, at which s stands in the text.
Occurrences(s, text) ==
    {n \in 0..(Len(text) - Len(s)) : SubSeq(text, n + 1, n + Len(s)) = s}

\* str.replace: from the left, without looking at what was put in.
Replaced(text, s, new) ==
    LET found == Occurrences(s, text)
        rest[i \in 1..(Len(text) + 1)] ==
            IF i > Len(text) THEN <<>>
            ELSE IF i - 1 \in found THEN new \o rest[i + Len(s)]
            ELSE <<text[i]>> \o rest[i + 1]
    IN  rest[1]

=============================================================================
