--------------------------- MODULE StreamRestore ---------------------------
(***************************************************************************)
(* The restoration of surrogates in a provider's text (masking/restore.py) *)
(* at once and chunk by chunk: StreamRestorer holds back a tail of each    *)
(* chunk, since a surrogate can be split over several of them.             *)
(*                                                                         *)
(* A text is a sequence of characters. The reverse map is the sequence of  *)
(* its surrogates, in the order of the dictionary, and their originals.    *)
(***************************************************************************)
EXTENDS FiniteSets, Substrings

CONSTANTS
    Chars,       \* the characters a provider answers with
    Surrogates,  \* the keys of the reverse map, in its order
    Original,    \* the original of each surrogate
    LatencyCap,  \* latency_cap
    MaxChunk,    \* bound on the length of a chunk
    MaxText      \* bound on the length of an answer

Texts(n) == BoundedSeq(Chars, n)

ASSUME StreamAssumption ==
    /\ IsText(Surrogates)
    /\ \A i, j \in DOMAIN Surrogates : Surrogates[i] = Surrogates[j] => i = j
    /\ \A s \in Range(Surrogates) : IsText(s) /\ s # <<>> /\ IsText(Original[s])
    /\ LatencyCap \in Nat \ {0}
    /\ MaxChunk \in Nat \ {0}
    /\ MaxText \in Nat

VARIABLES
    whole,    \* history: the answer so far, as the provider gave it
    buffer,   \* StreamRestorer._buffer
    emitted,  \* history: what the client was given so far
    ended     \* the stream is over

vars == <<whole, buffer, emitted, ended>>

-----------------------------------------------------------------------------
(* Texts. *)

Longest == Max({0} \cup {Len(Surrogates[i]) : i \in DOMAIN Surrogates})

\* sorted(reverse_map, key=len, reverse=True), which is stable.
Ahead(i) ==
    {j \in DOMAIN Surrogates :
        \/ Len(Surrogates[j]) > Len(Surrogates[i])
        \/ (Len(Surrogates[j]) = Len(Surrogates[i]) /\ j < i)}

LongestFirst ==
    [n \in DOMAIN Surrogates |->
        Surrogates[CHOOSE i \in DOMAIN Surrogates : Cardinality(Ahead(i)) = n - 1]]

\* Mutant: in the order of the dictionary.
RestoredInMapOrder(text) ==
    FoldLeft(LAMBDA t, s : Replaced(t, s, Original[s]), text, Surrogates)

\* restore_text: one replacement after another.
Restored(text) ==
    LET restored[k \in 0..Len(LongestFirst)] ==
            IF k = 0 THEN text
            ELSE Replaced(restored[k - 1], LongestFirst[k], Original[LongestFirst[k]])
    IN  restored[Len(LongestFirst)]

-----------------------------------------------------------------------------
(* The stream. *)

\* The tail that feed holds back.
TailLength == Min({Longest, LatencyCap})

\* Mutant: the cut is not moved.
CutAtTail(text) == Len(text) - TailLength

\* Mutant: the cut goes before the first surrogate, divided or not.
CutBeforeAll(text) ==
    LET started == {n \in 0..Len(text) : \E i \in DOMAIN Surrogates :
                        n \in Occurrences(Surrogates[i], text)}
    IN  Min({Len(text) - TailLength} \cup started)

\* Where feed cuts the buffer: before the tail, or before the occurrence of a
\* surrogate that the cut would divide, looking at each surrogate once.
Divided(s, text, cut) == {n \in Occurrences(s, text) : n < cut /\ cut < n + Len(s)}

Cut(text) ==
    LET cut[k \in 0..Len(Surrogates)] ==
            IF k = 0 THEN Len(text) - TailLength
            ELSE IF Divided(Surrogates[k], text, cut[k - 1]) = {} THEN cut[k - 1]
            ELSE Min(Divided(Surrogates[k], text, cut[k - 1]))
    IN  cut[Len(Surrogates)]

Init ==
    /\ whole = <<>>
    /\ buffer = <<>>
    /\ emitted = <<>>
    /\ ended = FALSE

\* Mutant: the buffer is restored before it is cut.
FeedRestoredFirst(chunk) ==
    LET text == buffer \o chunk IN
    /\ ~ended
    /\ Len(whole) + Len(chunk) <= MaxText
    /\ whole' = whole \o chunk
    /\ IF Len(Restored(text)) <= TailLength
       THEN buffer' = text /\ UNCHANGED emitted
       ELSE LET t == Restored(text)
                cut == Len(t) - TailLength
            IN  /\ emitted' = emitted \o SubSeq(t, 1, cut)
                /\ buffer' = SubSeq(t, cut + 1, Len(t))
    /\ UNCHANGED ended

\* feed: without surrogates, and when the cut leaves something before it, the
\* head of the buffer is restored and emitted.
Feed(chunk) ==
    LET text == buffer \o chunk
        cut == IF TailLength = 0 THEN Len(text) ELSE Cut(text)
    IN  /\ ~ended
        /\ Len(whole) + Len(chunk) <= MaxText
        /\ whole' = whole \o chunk
        /\ IF Len(text) > TailLength /\ cut > 0
           THEN /\ emitted' = emitted \o Restored(SubSeq(text, 1, cut))
                /\ buffer' = SubSeq(text, cut + 1, Len(text))
           ELSE buffer' = text /\ UNCHANGED emitted
        /\ UNCHANGED ended

\* finish: the tail is restored and emitted.
Finish ==
    /\ ~ended
    /\ emitted' = emitted \o Restored(buffer)
    /\ buffer' = <<>>
    /\ ended' = TRUE
    /\ UNCHANGED whole

Next == (\E chunk \in Texts(MaxChunk) \ {<<>>} : Feed(chunk)) \/ Finish

Spec == Init /\ [][Next]_vars

-----------------------------------------------------------------------------
(* Properties. *)

\* The texts of the state are texts of their alphabets.
TypeOK ==
    /\ whole \in Texts(MaxText)
    /\ buffer \in Texts(MaxText)
    /\ Range(emitted) \subseteq
          Chars \cup UNION {Range(Original[s]) : s \in Range(Surrogates)}
    /\ ended \in BOOLEAN

\* What was emitted, with the held tail restored after it, is the whole
\* answer restored at once, wherever the provider divided it: no surrogate is
\* emitted in parts and none is restored twice (restore.py, "without emitting
\* any partial surrogate"; BUILD-BRIEF.md AC-M3-03).
StreamMatchesWhole == emitted \o Restored(buffer) = Restored(whole)

\* The surrogates are swapped back one for one: read from the left, the
\* longest surrogate at a place gives its original and nothing that was put
\* in is replaced again.
SwappedBack(text) ==
    LET here(i) == {s \in Range(Surrogates) : i - 1 \in Occurrences(s, text)}
        rest[i \in 1..(Len(text) + 1)] ==
            IF i > Len(text) THEN <<>>
            ELSE IF here(i) = {} THEN <<text[i]>> \o rest[i + 1]
            ELSE LET s == CHOOSE s \in here(i) :
                            \A u \in here(i) : Len(u) <= Len(s)
                 IN  Original[s] \o rest[i + Len(s)]
    IN  rest[1]

\* restore_text swaps surrogates back to the originals they stand for
\* (BUILD-BRIEF.md F.2, step 11).
OriginalsAreBack == Restored(whole) = SwappedBack(whole)

\* Less is held back than two surrogates, however long the answer: after a
\* chunk the client waits for no more than that.
HoldIsBounded == buffer = <<>> \/ Len(buffer) < 2 * Longest

-----------------------------------------------------------------------------
(* What the words of a reverse map need for that. *)

\* u, laid d places behind the start of w, says the same where they share a place.
Meets(u, w, d) == \A i \in DOMAIN w : i - d \in DOMAIN u => w[i] = u[i - d]

Shifts(u, w) == (1 - Len(u))..(Len(w) - 1)

\* Two surrogates that share a place are one inside the other.
Nested ==
    \A u, w \in Range(Surrogates) : \A d \in Shifts(u, w) :
        Meets(u, w, d) => \/ (d >= 0 /\ d + Len(u) <= Len(w))
                         \/ (d <= 0 /\ d + Len(u) >= Len(w))

\* No surrogate can arise from an original that was put in, or from a part of
\* one and what is around it.
Foreign ==
    \A u, s \in Range(Surrogates) :
        /\ Original[s] # <<>>
        /\ \A d \in Shifts(u, Original[s]) : ~Meets(u, Original[s], d)
=============================================================================
