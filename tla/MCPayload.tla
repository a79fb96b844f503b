------------------------------ MODULE MCPayload ------------------------------
(* Two families of conversations. The first has a prompt at every kind of     *)
(* path, two of them with the same text, and any set of six candidates over   *)
(* it (one outside the text), under rulesets that treat the findings in every *)
(* way. The second masks values in two turns, at the bounds of every          *)
(* generator, dates that leave the calendar among them, and some of them      *)
(* behind names that are in the vault when the masking fails.                 *)
EXTENDS Payload

(* Characters are numbers. *)

Word(type, v) == [as |-> "word", type |-> type, v |-> v]

\* The digits of a number, at least one before the point.
Numeral(n, p) ==
    LET size == Max({p + 1} \cup {k + 1 : k \in {j \in 0..MaxDigits : Ten[j] <= Magnitude(n)}})
        digits == [i \in 1..size |-> (Magnitude(n) \div Ten[size - i]) % 10]
    IN  (IF n < 0 THEN <<45>> ELSE <<>>) \o SubSeq(digits, 1, size - p)
           \o (IF p = 0 THEN <<>> ELSE <<46>> \o SubSeq(digits, size - p + 1, size))

Shift(v, n) == [i \in DOMAIN v |-> n + v[i]]

MCSpelling(cell) ==
    LET v == cell.v IN
    CASE cell.as = "tag" -> <<60, v[1], IF cell.type = "TERM" THEN 1 ELSE 2, 62>>
      [] cell.as = "hash" -> <<61>> \o v
      [] cell.type \in Numbers -> Numeral(v[1], v[2])
      [] cell.type \in Identifiers \cup {"CREDIT_CARD", "PHONE_NUMBER"} -> v
      [] cell.type \in Dates -> <<1000 + v[1], v[2]>>
      [] cell.type = "EMAIL_ADDRESS" -> Shift(v, 300) \o <<64>>
      [] cell.type \in Names -> Shift(v, 200)
      [] cell.type = "LOCATION" -> Shift(v, 400)
      [] cell.type = "ORGANIZATION" -> IF v[2] = 0 THEN <<500 + v[1]>> ELSE Shift(v, 500)
      [] cell.type = "TERM" -> Shift(v, 600)
      [] OTHER -> Shift(v, 100)

Ada == Word("", <<1>>)
Bob == Word("", <<2>>)
Acme == Word("", <<3>>)
Said == Word("", <<4>>)

Long == <<Ada, Bob, Said, Acme>>
Short == <<Ada, Said, Bob>>
Plain == <<Said>>

\* The members of a payload in the order in which they are written.
Written ==
    <<<<"model">>, <<"system">>, <<"system", "#1", "text">>,
      <<"messages", "#1", "role">>, <<"messages", "#1", "content">>,
      <<"messages", "#1", "content", "#1", "type">>,
      <<"messages", "#1", "content", "#1", "text">>,
      <<"messages", "#1", "content", "#2", "input", "q", "description">>,
      <<"messages", "#1", "content", "#2", "content", "#1", "text">>,
      <<"messages", "#2", "tool_calls", "#1", "id">>,
      <<"messages", "#2", "tool_calls", "#1", "function", "arguments">>,
      <<"messages", "#2", "tool_calls", "#2", "input", "#1", "q">>,
      <<"messages", "#2", "tool_result">>,
      <<"tools", "#1", "description">>,
      <<"tools", "#1", "input_schema", "properties", "title", "type">>,
      <<"tools", "#1", "input_schema", "properties", "title", "description">>,
      <<"tools", "#1", "input_schema", "properties", "q", "enum", "#2">>,
      <<"tools", "#1", "input_schema", "required", "#1">>,
      <<"tools", "#1", "input_schema", "examples", "#1", "q">>,
      <<"tools", "#2", "function", "name">>,
      <<"tools", "#2", "function", "description">>,
      <<"tools", "#2", "function", "parameters", "anyOf", "#1", "default">>,
      <<"input">>, <<"input", "#2">>>>

\* Labels of the protocol, and the nested examples of a schema, which are not searched.
MCMetadata ==
    {<<"model">>, <<"messages", "#1", "role">>, <<"messages", "#2", "tool_calls", "#1", "id">>,
     <<"messages", "#1", "content", "#1", "type">>,
     <<"tools", "#1", "input_schema", "properties", "title", "type">>,
     <<"tools", "#1", "input_schema", "required", "#1">>,
     <<"tools", "#1", "input_schema", "examples", "#1", "q">>,
     <<"tools", "#2", "function", "name">>}

MCPrompts == Range(Written) \ MCMetadata

Exclusive == {<<"system">>, <<"messages", "#1", "content">>, <<"input">>}

\* A member is a string or a list, never both: two payloads hold all the prompts.
PathsOf(n) ==
    MCMetadata \cup {p \in MCPrompts :
        IF p \in Exclusive THEN n = 1 ELSE n = 2 \/ ~\E e \in Exclusive : IsPrefix(e, p)}

\* Blocks of a content list are metadata's only when the content is a list.
Shaped(n) == {p \in PathsOf(n) : n = 2 \/ ~\E e \in Exclusive : IsStrictPrefix(e, p)}

TextAt(p) ==
    CASE p = <<"model">> -> Plain
      [] p[1] = "messages" -> Long
      [] OTHER -> Short

Span(type, start, end, confidence, specificity, detector, nth) ==
    [type |-> type, start |-> start, end |-> end, confidence |-> confidence,
     specificity |-> specificity, detector |-> detector, nth |-> nth]

Pool ==
    {Span("PERSON", 0, 1, 60, 1, 2, 6), Span("PERSON", 1, 2, 90, 4, 1, 4),
     Span("PERSON", 0, 2, 60, 1, 2, 7), Span("LOCATION", 1, 4, 60, 1, 2, 8),
     Span("TERM", 3, 4, 90, 4, 1, 5), Span("TERM", 3, 5, 90, 4, 1, 3)}

Fixed == {Span("PERSON", 0, 1, 90, 1, 2, 1), Span("PERSON", 2, 3, 60, 1, 2, 2)}

Anyone == [users |-> {}, teams |-> {}, models |-> {}]
Team == [Anyone EXCEPT !.teams = {"t"}]
User == [Anyone EXCEPT !.users = {"u"}, !.teams = {"t"}]
Model == [Anyone EXCEPT !.models = {"m"}]
Other == [Anyone EXCEPT !.users = {"v"}]

Rule(types, action, min, scope) == [types |-> types, action |-> action, min |-> min, scope |-> scope]

All == {"PERSON", "LOCATION", "TERM"}

Rulesets ==
    {[default |-> "pseudonymize", rules |-> <<>>],
     [default |-> "allow",
      rules |-> <<Rule({"PERSON"}, "tag", 80, Anyone), Rule({"TERM"}, "hash", 0, Anyone)>>],
     [default |-> "pseudonymize",
      rules |-> <<Rule(All, "hash", 0, Model), Rule({"PERSON"}, "allow", 0, User),
                  Rule({"PERSON"}, "tag", 80, User), Rule(All, "tag", 0, Other)>>],
     [default |-> "tag",
      rules |-> <<Rule(All, "pseudonymize", 0, Team), Rule(All, "hash", 0, Team),
                  Rule({"TERM"}, "block", 80, Anyone), Rule({"TERM"}, "allow", 0, User)>>]}

\* What sha256 makes of a value: the same of all of them (spread = 0), or not.
Hash(values, delta, spread, draws) ==
    [f \in values |->
        [delta |-> delta, pool |-> (spread * Value(f[1])[1]) % 3, draws |-> draws,
         token |-> spread * Value(f[1])[1]]]

Given(turns, candidates, ruleset, shadow, session, days, delta, spread, draws) ==
    [turns |-> turns, candidates |-> candidates, ruleset |-> ruleset,
     who |-> [user |-> "u", team |-> "t", model |-> "m"],
     shadow |-> shadow, session |-> session,
     places |-> [i \in DOMAIN turns |->
                   [p \in DOMAIN turns[i] |-> CHOOSE n \in DOMAIN Written : Written[n] = p]],
     shift |-> [session |-> days, request1 |-> days, request2 |-> 0 - days],
     hash |-> Hash(Found([turns |-> turns, candidates |-> candidates]), delta, spread, draws)]

Shapes ==
    {Given(<<[p \in Shaped(n) |-> TextAt(p)]>>,
           [t \in {Long, Short, Plain} |->
               CASE t = Long -> found [] t = Short -> Fixed [] OTHER -> {}],
           ruleset, shadow, TRUE, 1, 0, 1, <<1>>) :
        n \in {1, 2}, found \in SUBSET Pool, ruleset \in Rulesets, shadow \in BOOLEAN}

\* A value that is masked in both turns, maybe found as another type in the second,
\* where another value of that type comes before it.
Talk(first, value, second, other, h, session) ==
    LET one == Word(first, value)
        two == Word(second, other)
        ask == <<Said, one>>
        reply == <<two, Said, one>>
        asked(text) == [p \in {<<"model">>, <<"messages", "#1", "content">>} |->
                         IF p = <<"model">> THEN Plain ELSE text]
    IN  Given(<<asked(ask), asked(reply)>>,
              [t \in {Plain, ask, reply} |->
                  CASE t = ask -> {Span(first, 1, 2, 90, 1, 1, 1)}
                    [] t = reply -> {Span(second, 0, 1, 90, 1, 1, 2), Span(second, 2, 3, 90, 1, 1, 3)}
                    [] OTHER -> {}],
              [default |-> "pseudonymize", rules |-> <<>>], FALSE, session,
              h.days, h.delta, h.spread, h.draws)

H(days, delta, spread, draws) == [days |-> days, delta |-> delta, spread |-> spread, draws |-> draws]

Amounts == {0, 1, 5, 9, 10, 50, 99, 100, 101, 995, 999, 1000, 124050, 999999, 0 - 1, 0 - 10, 0 - 995}

CardOf(first, n) == [i \in 1..n |-> IF i = 1 THEN first ELSE i % 10]

AboutNumbers ==
    {Talk("MONEY", <<n, p>>, "NUMBER", <<n \div 10, p>>, H(0, d, 0, <<1>>), TRUE) :
        n \in Amounts, p \in {0, 2}, d \in {-9, -5, -1, 0, 1, 5, 9}}

Draws == {<<0>>, <<9, 25>>, <<13, 8, 31>>}

AboutDigits ==
    {Talk("CREDIT_CARD", CardOf(f, n), "CREDIT_CARD", CardOf(f, n + 1), H(0, 0, 1, d), session) :
        f \in {3, 4, 5, 6}, n \in {13, 15, 18}, d \in Draws, session \in BOOLEAN}
    \cup {Talk("PHONE_NUMBER", CardOf(1, n), "PHONE_NUMBER", CardOf(1, n + 1), H(0, 0, 1, d), session) :
             n \in {5, 6, 7, 9, 11}, d \in Draws, session \in BOOLEAN}
    \cup {Talk("ACCOUNT", <<7, 12, 40, 3>>, "ID", <<7>>, H(0, 0, 1, d), session) :
             d \in Draws, session \in BOOLEAN}

AboutNames ==
    UNION {{Talk(type, <<11>>, type, <<12, 11>>, H(0, 0, spread, <<1>>), session),
            Talk(type, <<11, 12>>, type, <<10>>, H(0, 0, spread, <<1>>), session),
            Talk(type, <<11, 12, 13>>, "PERSON", <<11>>, H(0, 0, spread, <<1>>), session)} :
        type \in {"PERSON", "CUSTOMER_NAME", "EMAIL_ADDRESS", "LOCATION"},
        spread \in {0, 1}, session \in BOOLEAN}
    \cup {Talk("ORGANIZATION", <<7, a>>, "ORGANIZATION", <<8, b>>, H(0, 0, spread, <<1>>), TRUE) :
             a \in 0..2, b \in 0..2, spread \in {0, 1}}

\* The last day of the calendar is 3652059.
AboutDates ==
    {Talk("DATE", <<d, f>>, "DATE_TIME", <<e, g>>, H(days, 0, 0, <<1>>), session) :
        d \in {91, 3652000}, e \in {100, 3652059, 1}, f \in {0, 1}, g \in {0, 1},
        days \in {-90, 0, 7, 90}, session \in BOOLEAN}

\* A name before a date, as the first of one text.
LateFailures ==
    {Given(<<[p \in {<<"model">>, <<"system">>, <<"messages", "#1", "content">>} |->
                IF p = <<"model">> THEN Plain ELSE IF p = <<"system">> THEN Short ELSE text]>>,
           [t \in {Plain, Short, text} |->
               CASE t = Short -> Fixed
                 [] t = text -> {Span("PERSON", 0, 1, 90, 1, 1, 3), Span("DATE", 1, 2, 90, 1, 1, 4),
                                 Span("PERSON", 2, 3, 90, 1, 1, 5)}
                 [] OTHER -> {}],
           [default |-> "pseudonymize", rules |-> <<>>], FALSE, TRUE, 90, 0, 1, <<1>>) :
        text \in {<<Acme, Word("DATE", <<d, 1>>), Said>> : d \in {3, 3652059}}}

Conversations == AboutNumbers \cup AboutDigits \cup AboutNames \cup AboutDates \cup LateFailures

MCGivens == Shapes \cup Conversations

\* For the answers that keep their surrogates.
NameGivens == AboutNames

ASSUME FitAssumption ==
    DatesAreDates /\ FindsAreShaped /\ PromptsAreExtracted /\ TextsAreWords /\ TextsAreSpelled
=============================================================================
