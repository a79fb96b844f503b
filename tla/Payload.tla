------------------------------- MODULE Payload -------------------------------
(***************************************************************************)
(* The contents of a request on their way through ProviderRegistry          *)
(* (gateway/pipeline.py): detect, mask, the provider's answer and restore,  *)
(* for the turns of one conversation. Module Gateway has the control around *)
(* it, module Vault the concurrency, expiry and collisions of surrogates.   *)
(*                                                                         *)
(* The text of a request is a sequence of cells: words of the client, and   *)
(* what masking put in their place. A cell's value v is read as in module   *)
(* Surrogates, and spelled by characters: surrogates are looked for in the  *)
(* characters of an answer, wherever one cell ends and the next begins.     *)
(***************************************************************************)
EXTENDS Extract, Detection, Precedence, Surrogates, Substrings

CONSTANTS
    Givens,        \* the conversations and the configurations they meet
    Prompts,       \* the paths the docstring of extract_text names as prompt content
    Spelling(_)    \* the characters of a cell

TextsOf(g) == UNION {Range(g.turns[i]) : i \in DOMAIN g.turns}

Value(cells) == FlattenSeq([i \in DOMAIN cells |-> cells[i].v])

Spelled(cells) == FlattenSeq([i \in DOMAIN cells |-> Spelling(cells[i])])

\* The values of a conversation, each with a type it is found with.
Found(g) ==
    UNION {{<<SubSeq(text, c.start + 1, c.end), c.type>> :
               c \in {f \in g.candidates[text] : Valid(f, Len(text))}} :
           text \in TextsOf(g)}

ScopeIds == {"session", "request1", "request2"}

\* places: the order in which the members of a payload are walked.
ASSUME GivensAssumption ==
    \A g \in Givens :
        /\ g.ruleset \in RuleSets
        /\ g.turns \in Seq(Range(g.turns)) /\ Len(g.turns) \in 1..2
        /\ \A text \in TextsOf(g) : IsText(text) /\ AreCandidates(g.candidates[text])
        /\ \A i \in DOMAIN g.turns :
              /\ IsFiniteSet(DOMAIN g.turns[i])
              /\ \A p, q \in DOMAIN g.turns[i] :
                    g.places[i][p] \in Nat /\ (g.places[i][p] = g.places[i][q] => p = q)
        /\ \A scope \in ScopeIds : g.shift[scope] \in -90..90
        /\ \A f \in Found(g) :
              LET h == g.hash[f] IN
              h.delta \in -9..9 /\ h.pool \in 0..2 /\ h.draws \in Seq(Nat) \ {<<>>}

VARIABLES
    given,     \* constant after Init
    turn, stage,
    located,   \* the findings of the turn, as [path, finding]
    decided,   \* and the decision on each
    sent,      \* the payload the provider gets
    known,     \* the vault of the scope: original to surrogate
    since,     \* and the place of an original among those that were put
    shifted,   \* history: the dates of the conversation, as <<scope, day, day sent>>
    answer

vars == <<given, turn, stage, located, decided, sent, known, since, shifted, answer>>

Nothing == <<>>

payload == given.turns[turn]

scope_id == IF given.session THEN "session" ELSE IF turn = 1 THEN "request1" ELSE "request2"

Original(l) == SubSeq(payload[l.path], l.finding.start + 1, l.finding.end)

-----------------------------------------------------------------------------
(* detect *)

Detect ==
    /\ stage = "received"
    /\ located' = UNION {{[path |-> p, finding |-> f] :
                            f \in Findings(given.candidates[payload[p]], Len(payload[p]))} :
                         p \in ExtractText(payload)}
    /\ decided' = [l \in located' |->
                      Decide(given.ruleset, l.finding.type, l.finding.confidence, given.who)]
    /\ stage' = "decided"
    /\ UNCHANGED <<given, turn, sent, known, since, shifted, answer>>

-----------------------------------------------------------------------------
(* mask *)

\* by_path and its modes, which are keyed by the span of the finding.
ModeByType(l) ==
    LET same == {k \in located : k.path = l.path /\ k.finding.type = l.finding.type}
        last == CHOOSE k \in same : \A j \in same : j.finding.start <= k.finding.start
    IN decided[last].action

Mode(l) == decided[l].action

\* The number of a tag counts the tags of its type in this text alone.
Replacement(l, surrogates, tags) ==
    CASE Mode(l) = "allow" -> Original(l)
      [] Mode(l) = "hash" -> <<[as |-> "hash", type |-> "", v |-> Value(Original(l))]>>
      [] Mode(l) = "tag" -> <<[as |-> "tag", type |-> l.finding.type, v |-> <<tags + 1>>]>>
      [] Mode(l) = "pseudonymize" -> <<surrogates[Original(l)]>>

Rightmost(S) == CHOOSE l \in S : \A m \in S : m.finding.start <= l.finding.start

Cursor(S) == IF S = {} THEN 0 ELSE Rightmost(S).finding.end

Tags(S, type) == Cardinality({l \in S : l.finding.type = type /\ Mode(l) = "tag"})

\* The entries of a text from the left: what lies between, and what replaces each.
MaskText(path, surrogates) ==
    LET text == payload[path]
        entries == {l \in located : l.path = path}
        output[S \in SUBSET entries] ==
            IF S = {} THEN <<>>
            ELSE LET l == Rightmost(S)
                     done == S \ {l}
                 IN  output[done] \o SubSeq(text, Cursor(done) + 1, l.finding.start)
                                  \o Replacement(l, surrogates, Tags(done, l.finding.type))
    IN  output[entries] \o SubSeq(text, Cursor(entries) + 1, Len(text))

Blocking == \E l \in located : Mode(l) = "block"

Pseudonymized == {l \in located : Mode(l) = "pseudonymize"}

New == {Original(l) : l \in Pseudonymized} \ DOMAIN known

\* walk visits the texts in the order of the payload, mask the findings of a text from
\* the left.
Sooner(l, k) ==
    LET place == given.places[turn] IN
    place[l.path] < place[k.path] \/ (l.path = k.path /\ l.finding.start < k.finding.start)

FindingsOf(o) == {l \in Pseudonymized : Original(l) = o}

FirstFinding(o) ==
    CHOOSE l \in FindingsOf(o) : \A k \in FindingsOf(o) : ~Sooner(k, l)

TypeOf(o) == FirstFinding(o).finding.type

Surrogate(o) ==
    [as |-> "surrogate", type |-> TypeOf(o),
     v |-> Generate(TypeOf(o), Value(o), given.hash[<<o, TypeOf(o)>>], given.shift[scope_id])]

\* surrogate_for, one value after another. A value keeps the surrogate it has.
Put(values) ==
    LET soonerThan(o) == {q \in values : Sooner(FirstFinding(q), FirstFinding(o))} IN
    /\ known' = [o \in DOMAIN known \cup values |->
                    IF o \in values THEN Surrogate(o) ELSE known[o]]
    /\ since' = [o \in DOMAIN known \cup values |->
                  IF o \in values THEN Cardinality(DOMAIN known) + Cardinality(soonerThan(o))
                  ELSE since[o]]

Failing == {o \in New : Raises(TypeOf(o), Value(o), given.shift[scope_id])}

Mask ==
    /\ stage = "decided" /\ ~given.shadow /\ ~Blocking
    /\ Failing = {}
    /\ Put(New)
    /\ sent' = [p \in DOMAIN payload |-> MaskText(p, known')]
    /\ shifted' = shifted \cup
          {<<scope_id, Value(Original(l)), known'[Original(l)].v>> :
              l \in {k \in Pseudonymized : k.finding.type \in Dates}}
    /\ stage' = "sent"
    /\ UNCHANGED <<given, turn, located, decided, answer>>

\* The first date that cannot be moved ends the request, with status 500; the values
\* before it stay in the vault.
MaskFails ==
    /\ stage = "decided" /\ ~given.shadow /\ ~Blocking
    /\ Failing # {}
    /\ Put({o \in New : \A f \in Failing : Sooner(FirstFinding(o), FirstFinding(f))})
    /\ stage' = "failed"
    /\ UNCHANGED <<given, turn, located, decided, sent, shifted, answer>>

Shadow ==
    /\ stage = "decided" /\ given.shadow
    /\ sent' = payload
    /\ stage' = "sent"
    /\ UNCHANGED <<given, turn, located, decided, known, since, shifted, answer>>

Block ==
    /\ stage = "decided" /\ ~given.shadow /\ Blocking
    /\ stage' = "blocked"
    /\ UNCHANGED <<given, turn, located, decided, sent, known, since, shifted, answer>>

-----------------------------------------------------------------------------
(* complete and restore *)

\* Where the two protocols carry the text of an answer.
AnswerPaths ==
    {<<"choices", "#1", "message", "content">>,
     <<"choices", "#1", "message", "tool_calls", "#1", "function", "arguments">>,
     <<"content", "#1", "text">>,
     <<"content", "#1", "input", "query">>}

\* A provider that repeats one of the texts it was sent.
Answers ==
    /\ stage = "sent"
    /\ \E a \in AnswerPaths, p \in DOMAIN sent :
          answer' = [q \in {a, <<"model">>} |->
                        Spelled(IF q = a THEN sent[p] ELSE sent[<<"model">>])]
    /\ stage' = "answered"
    /\ UNCHANGED <<given, turn, located, decided, sent, known, since, shifted>>

Holders(s) == {o \in DOMAIN known : Spelling(known[o]) = s}

\* reverse_map: what was put last under a surrogate. A key stays where it was put first.
reverse ==
    [s \in {Spelling(known[o]) : o \in DOMAIN known} |->
        CHOOSE o \in Holders(s) : \A q \in Holders(s) : since[q] <= since[o]]

Begun(s) == Min({since[o] : o \in Holders(s)})

\* sorted(reverse_map, key=len, reverse=True), which is stable.
LastToRestore(S) ==
    CHOOSE s \in S : \A t \in S :
        Len(s) < Len(t) \/ (Len(s) = Len(t) /\ Begun(t) <= Begun(s))

\* Mutant: in the order of the dictionary.
RestoreInMapOrder(text) ==
    LET original == reverse
        restored[S \in SUBSET DOMAIN original] ==
            IF S = {} THEN text
            ELSE LET s == CHOOSE s \in S : \A t \in S : Begun(t) <= Begun(s)
                 IN  Replaced(restored[S \ {s}], s, Spelled(original[s]))
    IN  restored[DOMAIN original]

\* restore_text: one surrogate after another, the longest first.
RestoreText(text) ==
    LET original == reverse
        restored[S \in SUBSET DOMAIN original] ==
            IF S = {} THEN text
            ELSE LET s == LastToRestore(S)
                 IN  Replaced(restored[S \ {s}], s, Spelled(original[s]))
    IN  restored[DOMAIN original]

Restore ==
    /\ stage = "answered"
    /\ answer' = ReplaceText(answer, [p \in DOMAIN answer |-> RestoreText(answer[p])])
    /\ stage' = "restored"
    /\ UNCHANGED <<given, turn, located, decided, sent, known, since, shifted>>

-----------------------------------------------------------------------------

\* Without a session each request has a scope of its own, empty at first.
NextTurn ==
    /\ stage \in {"blocked", "failed", "restored"}
    /\ turn < Len(given.turns)
    /\ turn' = turn + 1
    /\ stage' = "received"
    /\ located' = {} /\ decided' = Nothing /\ sent' = Nothing /\ answer' = Nothing
    /\ IF given.session THEN UNCHANGED <<known, since>>
                        ELSE known' = Nothing /\ since' = Nothing
    /\ UNCHANGED <<given, shifted>>

Init ==
    /\ given \in Givens
    /\ turn = 1
    /\ stage = "received"
    /\ located = {} /\ shifted = {}
    /\ decided = Nothing /\ sent = Nothing /\ answer = Nothing
    /\ known = Nothing /\ since = Nothing

Next == Detect \/ Mask \/ MaskFails \/ Shadow \/ Block \/ Answers \/ Restore \/ NextTurn

Spec == Init /\ [][Next]_vars

-----------------------------------------------------------------------------
(* Properties *)

\* The findings lie in the texts that were scanned, and the two directions of the
\* vault belong to each other.
TypeOK ==
    /\ stage \in {"received", "decided", "blocked", "failed", "sent", "answered", "restored"}
    /\ turn \in DOMAIN given.turns
    /\ \A l \in located : l.path \in DOMAIN payload /\ Valid(l.finding, Len(payload[l.path]))
    /\ DOMAIN decided = located
    /\ DOMAIN since = DOMAIN known
    /\ \A s \in DOMAIN reverse : reverse[s] \in DOMAIN known /\ Spelling(known[reverse[s]]) = s

Covered(l, i) == l.finding.start < i /\ i <= l.finding.end

Clear(text, treated) == {i \in DOMAIN text : \A l \in treated : ~Covered(l, i)}

\* Where position n of a text is found after the masking of some findings.
Place(text, treated, n) ==
    Cardinality({i \in Clear(text, treated) : i <= n})
        + Cardinality({l \in treated : l.finding.start < n})

IsToken(cell, l, treated) ==
    LET tags == {k \in treated : /\ k.finding.type = l.finding.type
                                 /\ decided[k].action = "tag"
                                 /\ k.finding.start <= l.finding.start}
    IN \/ /\ decided[l].action = "hash"
          /\ cell = [as |-> "hash", type |-> "", v |-> Value(Original(l))]
       \/ /\ decided[l].action = "tag"
          /\ cell = [as |-> "tag", type |-> l.finding.type, v |-> <<Cardinality(tags)>>]
       \/ /\ decided[l].action = "pseudonymize"
          /\ cell = known[Original(l)] /\ cell.as = "surrogate"

\* What the provider gets: at every path that holds prompt content, the words that
\* no finding treats and one token for each finding that is treated, each in its
\* place; at every other path, and everywhere in shadow mode, the text itself.
\* Nothing when a decision blocks. Two findings of one type with different
\* decisions, and two equal texts at different paths, do not disturb each other
\* (gateway/pipeline.py:105-142, masking/engine.py:47-50).
SentAsDecided ==
    /\ (sent # Nothing /\ given.shadow) => sent = payload
    /\ (sent # Nothing /\ ~given.shadow) =>
          /\ \A l \in located : decided[l].action # "block"
          /\ DOMAIN sent = DOMAIN payload
          /\ \A p \in DOMAIN payload :
             LET text == payload[p]
                 treated == {l \in located : l.path = p /\ decided[l].action # "allow"}
                 place(n) == Place(text, treated, n)
             IN IF p \notin Prompts THEN sent[p] = text
                ELSE /\ Len(sent[p]) = place(Len(text))
                     /\ \A i \in Clear(text, treated) : sent[p][place(i)] = text[i]
                     /\ \A l \in treated : IsToken(sent[p][place(l.finding.end)], l, treated)
                     /\ \A f \in Findings(given.candidates[text], Len(text)) :
                           [path |-> p, finding |-> f] \in located

\* What that needs: the walk finds the prompts and nothing else.
PromptsAreExtracted ==
    \A g \in Givens : \A i \in DOMAIN g.turns :
        ExtractText(g.turns[i]) = Prompts \cap DOMAIN g.turns[i]

Outranks(f, g) ==
    \/ f.confidence > g.confidence
    \/ /\ f.confidence = g.confidence
       /\ \/ f.specificity > g.specificity
          \/ f.specificity = g.specificity /\ f.end - f.start >= g.end - g.start

\* The findings of a text are disjoint, and every candidate that was dropped gave
\* way to a finding it overlaps that is surer, or as sure and more specific, or
\* else as long (detection/merge.py, BUILD-BRIEF.md:1110).
MergeIsBest ==
    \A p \in {l.path : l \in located} :
        LET kept == {l.finding : l \in {k \in located : k.path = p}} IN
        /\ \A f, g \in kept : f = g \/ Apart(f, g)
        /\ \A c \in given.candidates[payload[p]] \ kept :
              Valid(c, Len(payload[p])) => \E f \in kept : ~Apart(f, c) /\ Outranks(f, c)

\* Every decision obeys the published order of precedence (BUILD-BRIEF.md:1237-1241,
\* policy/precedence.py:11).
DecisionIsPublished ==
    \A l \in DOMAIN decided :
        Published(given.ruleset, l.finding.type, l.finding.confidence, given.who, decided[l])

\* All dates of a scope whose format is read move by the same number of days, in one
\* request and from one turn of a session to the next (masking/surrogates.py:47-49).
IntervalsSurvive ==
    \A a, b \in shifted :
        a[1] = b[1] /\ a[2][2] = 1 /\ b[2][2] = 1 => a[2][1] - b[2][1] = a[3][1] - b[3][1]

\* What that needs: a value that is found as a date is a date and nothing else.
DatesAreDates ==
    \A g \in Givens : \A f \in Found(g) :
        f[2] \in Dates =>
            /\ Value(f[1]) \in Int \X {0, 1}
            /\ \A e \in Found(g) : e[1] = f[1] => e[2] \in Dates

Numbers == {"MONEY", "NUMBER"}
Names == {"PERSON", "CUSTOMER_NAME", "EMAIL_ADDRESS"}
Identifiers == {"ACCOUNT", "ID"}

\* What the generators need: a number has at most MaxDigits digits; a card those that
\* its detector accepts (detection/structural.py:23).
FindsAreShaped ==
    \A g \in Givens : \A f \in Found(g) :
        LET v == Value(f[1]) IN
        /\ f[2] \in Numbers =>
              v \in Int \X (0..MaxDigits) /\ Magnitude(v[1]) < Ten[MaxDigits]
        /\ f[2] = "CREDIT_CARD" => v \in Seq(0..9) /\ Len(v) \in 13..19
        /\ f[2] = "PHONE_NUMBER" => v \in Seq(0..9)
        /\ f[2] = "ORGANIZATION" => v \in Nat \X Nat
        /\ f[2] \in Names \cup Identifiers => v \in Seq(Nat)

LuhnValid(digits) == Len(digits) \in 13..19 /\ LuhnSum(digits) % 10 = 0

BelowOne(n, p) == Magnitude(n) < Ten[p]

NumberIsKept(v, s) ==
    /\ s[2] = v[2]
    /\ (s[1] > 0) = (v[1] > 0) /\ (s[1] < 0) = (v[1] < 0)
    /\ ~BelowOne(v[1], v[2]) => ~BelowOne(s[1], s[2]) /\ Exponent(s[1], s[2]) = Exponent(v[1], v[2])

CardIsKept(v, s) ==
    /\ Len(s) = Len(v) /\ LuhnValid(s)
    /\ v[1] \in {3, 4, 5} => s[1] = v[1]

CharacterIsKept(c, d) ==
    \/ c \in 0..9 /\ d \in 0..9
    \/ c \in Letters /\ d \in Letters
    \/ c \notin 0..9 \cup Letters /\ d = c

CharactersAreKept(v, s) ==
    Len(s) = Len(v) /\ \A i \in DOMAIN v : CharacterIsKept(v[i], s[i])

\* What a surrogate keeps of its original: a number its sign, the digits behind its
\* point and, from 1 on, those before it, at every bound of its bucket; a card its
\* length, its issuer and a check digit that the card detector accepts; an identifier,
\* like the digits of a telephone number, its length and the class of each character; a
\* date its format; a name or a mailbox of one or two words their number; an
\* organization its legal suffix (masking/surrogates.py:75-177). BUILD-BRIEF.md:1162-1167
\* asks for more than the code does of numbers below 1, of longer names and of
\* telephone numbers with a country code, of which nothing is said here.
ShapeIsKept ==
    \A o \in DOMAIN known :
        LET v == Value(o)
            s == known[o].v
            type == known[o].type
        IN  /\ type \in Numbers => NumberIsKept(v, s)
            /\ type = "CREDIT_CARD" => CardIsKept(v, s)
            /\ type \in Identifiers \cup {"PHONE_NUMBER"} => CharactersAreKept(v, s)
            /\ type \in Dates => s[2] = v[2]
            /\ type \in Names /\ Len(v) \in 1..2 => Len(s) = Len(v)
            /\ type = "ORGANIZATION" => s[2] = v[2]

\* A finding is left alone, or no other value of the scope is spelled by its surrogate.
\* What a tag or a hash replaces is not in the vault and never comes back.
IsReversible(l) ==
    \/ decided[l].action = "allow"
    \/ /\ decided[l].action = "pseudonymize"
       /\ Holders(Spelling(known[Original(l)])) = {Original(l)}

SurrogatesIn(text) == {i \in DOMAIN text : text[i].as = "surrogate"}

\* The spelling of each cell, those in S swapped back.
Swapped(text, S) ==
    [i \in DOMAIN text |->
        IF i \in S THEN Spelled(reverse[Spelling(text[i])]) ELSE Spelling(text[i])]

\* While a surrogate is looked for, and the longer ones are swapped back already, it
\* stands nowhere but where masking has put it: not in the words of the client, nor in
\* the originals that came back, nor across the end of one and the start of the next.
IsLegible(text) ==
    \A s \in DOMAIN reverse, S \in SUBSET SurrogatesIn(text) :
        LET parts == Swapped(text, S)
            standing == {i \in SurrogatesIn(text) : Spelling(text[i]) = s}
            longer == {i \in SurrogatesIn(text) : Len(Spelling(text[i])) > Len(s)}
        IN  longer \subseteq S /\ standing \cap S = {} =>
              \A n \in Occurrences(s, FlattenSeq(parts)) :
                 \E i \in standing : n = Len(FlattenSeq(SubSeq(parts, 1, i - 1)))

\* Restoring undoes masking: a text in which every finding is left alone or got a
\* surrogate of its own comes back as it was, however its findings touch or repeat,
\* whichever turn of the scope gave a value its surrogate, under whatever type, and
\* though one surrogate may be a part of another, as long as the provider's text can be
\* read in one way (masking/engine.py:33-69, consistency.py:24, restore.py:47;
\* BUILD-BRIEF.md:1007).
MaskingIsReversible ==
    \A p \in DOMAIN sent :
        /\ \A l \in {k \in located : k.path = p} : IsReversible(l)
        /\ IsLegible(sent[p])
        => RestoreText(Spelled(sent[p])) = Spelled(payload[p])

\* What that needs: what a client writes is no surrogate, and no surrogate is empty.
TextsAreWords ==
    \A g \in Givens : \A text \in TextsOf(g) : \A i \in DOMAIN text : text[i].as = "word"

\* The surrogates that may be generated in a conversation.
SurrogatesOf(g) ==
    {[as |-> "surrogate", type |-> f[2],
      v |-> Generate(f[2], Value(f[1]), g.hash[f], g.shift[scope])] :
        f \in Found(g), scope \in ScopeIds}

TextsAreSpelled ==
    \A g \in Givens :
        /\ \A text \in TextsOf(g) : \A i \in DOMAIN text : IsText(Spelling(text[i]))
        /\ \A s \in SurrogatesOf(g) : IsText(Spelling(s)) /\ Spelling(s) # <<>>

\* No surrogate is left in an answer that was restored (BUILD-BRIEF.md:1007).
AnswersRestored ==
    stage = "restored" =>
        \A p \in DOMAIN answer, s \in DOMAIN reverse : Occurrences(s, answer[p]) = {}

=============================================================================
