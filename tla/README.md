# A verification project for Frostglass

Frostglass is a gateway between the clients of language models and their
providers. It finds sensitive values in a request, lets a versioned policy
decide what happens to each, replaces them by surrogates before the request
leaves, restores them in the answer, and records every request for an audit.
This directory holds TLA+ models of that behaviour, the TLC configurations
that check them, and theorems about them that TLAPS checks. All of it is
translated from the Python code under `frostglass/`; the table "map" of
`PROJECT.json` gives the lines behind each definition.

    tlc -config vault_any.cfg MCVault     # any run: its module and cfg are in PROJECT.json
    tlapm VaultProofs.tla                 # the proofs

## 1. The system

One FastAPI process with one event loop. All routes are `async def`, so
nothing interleaves between two awaits; the awaits are the reading of the
body, the provider call and the sending of the answer.

| Component | State | Operations | Interacts with | What makes it correct |
|---|---|---|---|---|
| Vault, consistency manager (`masking/vault.py`, `consistency.py`) | two dictionaries in memory, scope and value hash to entry, scope and surrogate to entry; expiry per entry | `get`, `put`, `reverse_map`, `purge_expired`, `surrogate_for` | every masked request, the dry run, the restore | one surrogate per value and scope while it lives; what was sent can be restored, to its own original |
| Limits (`gateway/budget.py`) | spend and arrival window of each team, in memory | `check`, `record_spend` | every request, before and after its provider call | the rate is never exceeded, the budget not by more than concurrency explains |
| Pipeline and routes (`gateway/pipeline.py`, `routes_*.py`) | the locals of open handlers | one handler per protocol, provider chain, streams | all others | decision, calls, charge, row and answer of a request agree |
| Policy (`policy/`) | immutable versions, active version, shadow setting of teams, in SQLite | `write`, `activate`, `shadow_for_team`, `set_shadow_for_team`, `decide` | read once by each request, written by the Admin API | versions only grow; a row names the version that decided |
| Audit (`audit/`) | rows, findings, captures in SQLite, one connection shared with the admin store | `record`, listings, false positives, `purge` | every request; all admin mutations commit on the same connection | each answer has one true row |
| Admin (`admin/`) | teams, users, keys, sessions, settings, events, in SQLite | a mutation, then `record_event`; RBAC | policy, audit store; not the gateway's key store, limits or shadow setting | a change has its event; roles are respected |
| Restoration (`masking/restore.py`) | the held tail of a stream | `feed`, `finish`, `restore_text` | the reverse map of the vault | the stream says what the whole would |
| Detection, masking engine, surrogates, extraction | none | pure functions | pipeline, dry run | disjoint spans, the shape of surrogates, the right paths |
| Keys, settings, providers, metrics, dashboard | filled at start; the dashboard has none | look-up, the calls above | | |

What is hard here: the state that a request read before its provider call and
uses after it (decision, spend, mappings); expiry in between; concurrent
requests of one scope or team; the provider chain; failing database writes on
a shared connection; restarts that forget the memory and keep the files;
surrogates divided over chunks, or read in text that is none. `PROJECT.json`, "hazards", lists each with its
line and the properties that cover it, or why none does.

## 2. Modules

| Module | Models | Used by |
|---|---|---|
| `SurrogateTable` | abstract: the table of a scope, one surrogate per value, one value per surrogate | `Vault` (refinement) |
| `Vault` | `vault.py`, `consistency.py` under concurrent requests | `MCVault`, `VaultProofs` |
| `Limits` | `budget.py` under concurrent requests | `Gateway`, `MCLimits`, `LimitsProofs`; instantiated in `GatewayProofs` |
| `Gateway` | both protocol handlers over pipeline, limits, policy and audit | `MCGateway`, `GatewayProofs` |
| `Substrings` | find and replace of Python's `str`, as `restore.py` uses them | `StreamRestore`, `Payload` |
| `StreamRestore` | `restore.py`: the stream | `MCStreamRestore`, `StreamProofs` |
| `AuditStore` | `audit/`: rows, findings, captures, listing, aggregates, purge, one connection | `AdminStore`, `StoreProofs` |
| `AdminStore` | `admin/`: roles, mutations and their events, seeds, on that connection | `MCStores`, `StoreProofs`, `AdminProofs` |
| `Extract` | `gateway/extract.py`: the paths of a payload that are visited | `Payload` |
| `Detection` | `detection/engine.py`, `merge.py`: candidates to disjoint findings | `Payload`, `PayloadProofs` |
| `Precedence` | `policy/models.py`, `precedence.py`: rules to an action | `Payload`, `PayloadProofs` |
| `Surrogates` | `masking/surrogates.py`: the value that stands for another | `Payload` |
| `Payload` | `pipeline.py`, `masking/engine.py`, `restore_text`: a request's contents from client to provider and back | `MCPayload`, `PayloadProofs` |
| `Induction` | no code: what the proofs use of induction, recursive functions, sequences and sums | `AdminProofs`, `PayloadProofs`, `StreamProofs` |

Some operators are bugs the code might have (`GetTooEarly`, `EventFirst`,
`ModeByType`...; `PROJECT.json`, "mutants", lists them): each run finds its
property violated when the definition below it is replaced by one. They are not
part of any specification.

**Vault.** `forward` and `reverse` are the dictionaries, total functions with
`NoEntry` for a missing key. An entry keeps its original, surrogate and expiry;
encryption is abstracted to what it means here, readable exactly until the
expiry (`_decode`). A value stands for its salted hash and its original, and
`Generate` for `SurrogateGenerator`, which is deterministic in scope, type and
value. A request masks (`ReuseSurrogate`, `AllocateSurrogate`, one step for
each finding since the clock runs between them), waits (`Forward`), and then
either restores (`Restore`: `reverse_map` with its purge) or ends without
(`End`: a stream, a failed chain, a dry run). `LoopFree` keeps other handlers
out of the masking loop, which has no await. `Restart` empties the vault.

**Limits.** `spend` and `window` are the two dictionaries, `open` the admitted
requests that are not yet charged or ended, `admitted` a history of
admissions. `CheckPasses` and `CheckLimits` are `check` with its loop that pops
stale arrivals, `RecordSpend` is `record_spend`. A refusal over budget (402)
changes nothing and is no step.

**Gateway.** A request goes through `Limited`, `Blocked`, `MaskingFails` or
`Forwarded`, the handler from its start to its answer or its await, and then
through `FallBack`, `Fails`, `Completes` or `StreamStarts`, from the end of a
provider call to the next await or the answer. The handlers of the two
protocols take the same steps, so that one action stands for both, and "map"
names the one or the other. `log`, `sent` and `replies` are histories of
decisions, provider calls and answers. An answer with status 200 has headers;
the 403 of a blocked request and a 500 have none. `MaskingFails` is an exception
of the generator (a date that leaves the calendar): a 500 without a row, whose
request keeps its place in the rate window.

There are two databases, and no code rolls a transaction back. `pending` and
`audit` are uncommitted and committed request rows: a write that raises leaves
its transaction rolled back, or open with or without the row, and the next
commit on the shared connection, also that of an admin event, makes such rows
durable. `stored`, `active` and `shadow` are the policy database as its one
connection sees it, `disk` what is committed: a commit that raises
(`CommitFails`) leaves a version or an activation in force for this process, to
be lost by a restart or committed with the next change. `faults` counts the
writes that raised, up to `MaxFaults`.

`Suspends` says whether a provider call returns to the event loop. The shipped
mock never does, so that its handlers run one after the other; any real
provider does. `Gateway` instantiates `Limits` for the use of the limits
(`LimitsSpec` says that the handlers implement it). 401, 400, 403 for a model
and 402 change no state and are no steps.

**StreamRestore.** Texts are sequences over a small alphabet. `Feed` and
`Finish` are the methods, `Cut` is the place where `feed` divides its buffer,
`Restored` is `restore_text`; `SwappedBack` is the reference: one pass from the
left, longest surrogate first, nothing replaced twice. `Nested` and `Foreign`
say what the words of a reverse map need for the properties: surrogates that
share a place are one inside the other, and no original can make, or help its
surroundings to make, a surrogate. `MCStreamRestore` assumes that its dictionary
of names has both and that its dictionary of numbers is not nested.

**AuditStore and AdminStore.** All writers share one SQLite connection. A
handler's first statement opens a transaction, its commit closes it, and no
code rolls back, so that there are two views of the tables: `work`, what the
connection reads, and `db`, what is durable. A statement or commit that raises
leaves `work` ahead of `db` until another handler commits both
(`RecordFails`, `PurgeFails`, the second half of `ChangeAndRecord`), a restart
loses it, or SQLite itself rolls back (`RolledBack`). A listing is a reader
that takes one page after another (`NextPage`) between those steps, by the
cursor (ts, id). Each panel of the dashboard
is an operator of its own over `work`, with the filters, columns, joins and
limits of its query. A start commits its seeds one by one; `Restart` may find
the first of a start that was killed. `Routes` says for
each mutating route which permission it needs and what it writes; a row of the
configuration is reduced to the number of the change that wrote it last and its
status. `tried` and `answered` are histories of the changes executed and of
those whose client was told.

**Extract, Detection, Precedence, Surrogates, Payload.** A payload is a
function from the paths of its strings to their texts, a text a sequence of
cells, words or replacements. `Extract` reads the nested functions of
`extract_text` as an automaton over the path. `Detection` merges any
candidates, as a recursion over the set of them: the lowest in rank comes last. The
masking of a text is a recursion of that kind too, over its entries (`MaskText`).
`Surrogates` has every generator, over values that are sequences of digits, days,
amounts with their bucket and rounding, words or characters; what sha256 makes of
the type and the hash of a value is an input for each of them, and a number has at most
`MaxDigits` digits. `Payload` has the steps `Detect`, `Mask` (or `MaskFails`,
`Shadow`, `Block`), `Answers`, `Restore` of a turn and then the next turn of the
conversation, in the same scope or in one of its own. The members of a payload are
walked in an order (`places`), which decides the finding that gives a new value its
type, and which values are in the vault when the masking fails at a date.

A provider gets cells and answers with characters: `Spelling` writes a cell, and
`RestoreText` is `restore_text` on what is written, one `Replaced` after another, the
longest surrogate first and in the order of the dictionary among those of one
length (`since`). The reverse map is keyed by the characters of a surrogate, and the
value that was put last holds the place (`reverse`).

## 3. Runs

Bounds are named in the modules (`MaxTime`, `MaxClock`, `MaxRequests`,
`MaxBoots`, `MaxText`, `MaxChunk`, `MaxAdmissions`, `MaxFaults`, `MaxDigits`,
`Loads`).

| Run | Instance | Shows |
|---|---|---|
| `vault_any` | 1 scope, 2 values, 2 types, a generator that gives both values one surrogate; 2 requests; TTL 2 of 4 ticks | reverse entries are never stale, a reused surrogate can be restored, concurrent requests agree, mappings are stable while they live, wrong originals come from collisions only |
| `vault_distinct` | 2 scopes, 2 values, a generator without collisions; 2 requests; 3 ticks | the round trip, and the refinement of `SurrogateTable` |
| `vault_collision` | as `vault_any` | *violated*: the round trip with the shipped kind of generator |
| `limits` | 2 keys of a team, budgets 1 and 3, rates 1 and 2, window of 2 in 5 ticks, 2 open requests, 6 admissions | rate, window and bounded overspend |
| `gateway_any` | any provider, 2 concurrent requests (plain; stream with fallback), 2 policy versions, shadow switching, 1 tick, 1 restart, 1 failing commit or audit write | decisions stand, answers are audited once, nothing is uncharged, the fallback flag is true, `Limits` is implemented |
| `gateway_mock` | providers that do not suspend, with any outcome; 2 keys, 3 requests, budgets 1 and 2 | no overspend; each call ends |
| `gateway_headers` | any provider, 2 requests | *violated*: every answer of the gateway has its headers |
| `stream_names` | 2 surrogates, one the beginning of the other, all answers up to 6 characters in chunks up to 3 | stream equals whole equals reference; bounded hold |
| `stream_overlap` | 12 and 21 | *violated*: no surrogate is emitted in parts |
| `stores` | 3 requests, 2 changes, a request and a change, or 2 requests or a change with a restart; 3 days, retention 1 day; 1 fault; a listing by pages of one row, top lists of one | recorded until purged, purges are clean, listings exact, panels count what was recorded, events true and complete, roles kept |
| `payload` | 24 paths in two payloads, any set of 6 candidate spans (one outside the text), 4 rulesets, shadow or not; and some six hundred conversations of 2 turns with values at the bounds of every generator | sent as decided and restored as it was, merge, precedence, intervals, shapes |
| `payload_unrestored` | the conversations about names | *violated*: no surrogate is left in a restored answer |

Why the bounds are enough. Every interaction in the vault is between two
values that share a surrogate, or two requests that share a scope, around one
expiry; with TTL 2 an entry is made, overwritten, expires and is made again
within four ticks. In the limits a window of two ticks with a rate of two
fills, slides and empties; two open requests suffice for the overspend. In the
gateway two requests meet in every order of arrival, fallback, answer, policy
change and restart, and one fault opens a transaction that the other request, an
event or a restart meets; with one key no request is over its budget when it
arrives, so that the third request of `gateway_mock` is what an exhausted budget
must refuse. An occurrence divided over chunks needs
at most its length and a tail, which six characters give for surrogates of
three. In the stores one fault opens a transaction, and the next handler, a
purge, a page or a restart meets it; three rows on a page size of one give a
tie that a page divides, and top lists of one row leave a group out. A merge needs three spans in a chain and a tie, a
decision two rules of each kind of conflict, which the pool and the rulesets
have; the numbers include zero, both ends of the buckets and halves, the dates
both ends of the calendar.

Two properties have a precondition on what is restored, because the code has no
defence against text that only looks like a surrogate. `OriginalsAreBack` is about
words that are `Foreign`; `MaskingIsReversible` is about a sent text that
`IsLegible`: while a surrogate is looked for, it stands nowhere but where masking put
it. The text "28 and 7" with 8 as the surrogate of 7 is not legible, and comes back as
"27 and 7". Tags and hashes are not in the vault, and never come back (section 4);
the property is about texts whose findings are left alone or get a surrogate.

Symmetry is used for requests (`vault_*`) and slots (`gateway_*`), which are
interchangeable, and in no run with a liveness property.

**Fairness.** `gateway_mock` assumes weak fairness of the end of each provider
call: it ends, in an answer, a timeout or an error, as the shipped providers
do at once. Nothing else is assumed fair: clients, administrators and the clock
may stop.

`stream_*`, `stores` and `payload*` switch the deadlock check off: a stream, a
conversation, a bounded load ends. The other runs check for deadlock.

## 4. Findings

Four runs show where the code does not do what its documents or comments say
(`PROJECT.json`, "findings"): a collision of surrogates restores the wrong
original; overlapping surrogates are emitted in parts; answers are not restored,
because their text is at paths that the walk does not know; the answer of a
blocked request has none of the headers that are promised "on every call"
(`BUILD-BRIEF.md:1076`).

Met while modelling, without a run:

- expired mappings are purged by complete answers only (`vault.py:39`);
- when the audit database fails, the request is answered with 500 and its row is
  lost or comes with a later commit, against "serve traffic, buffer audit to disk,
  alert" (`BUILD-BRIEF.md:1022`); when all providers time out the answer is a 500
  and not "504" (`BUILD-BRIEF.md:1023`), because nothing handles the `TimeoutError`
  of `pipeline.py:160`; in both cases, and for any other exception of a provider
  (`routes_openai.py:138`), there is no answer of the gateway's own;
- tags are called reversible (`BUILD-BRIEF.md:1152`), but they are not put in the
  vault (`masking/engine.py:85`), and no tag comes back;
- a policy version or an activation whose commit failed is in force until the
  next restart, without an event (`policy/loader.py:199`); its number can then be
  published again with other rules;
- the retention purge is scheduled nowhere: `main.py` does not build a
  `RetentionPurger`, and only tests call it;
- no caller of the recorder passes `cost_cents`, so that the spend panels show 0;
- `set_shadow_for_team` has no caller but tests: a team is in shadow mode for ever;
- a restored original that is itself a surrogate of the scope is replaced again
  (`restore.py:51`);
- a change of the configuration whose event fails stands without one, against
  "Every mutation writes an append-only audit event" (`admin/store.py:5`), and
  what a failed `record_request` inserted becomes durable with the next commit;
- every start inserts the seeded teams and detectors again (`main.py:48`);
- the `capture_retention_days` of `RetentionPurger`, and the retention and team
  settings that the Admin API stores, are read by nobody; nothing creates suggestions, and one that was
  dismissed can still be applied (`admin/store.py:447`);
- `generate` may return its original (a date with offset 0 or in a format that
  is not read, a number with factor 1, a city that is in the pool), against "never
  return the original value" (`surrogates.py:53`);
- a name of three words gets two, against "preserve token count"
  (`BUILD-BRIEF.md:1162`); a telephone number loses its country code, against "same
  country code" (`BUILD-BRIEF.md:1164`); a number below one gets a surrogate above one
  (0.05 becomes 1.01), against "preserve magnitude bucket" (`BUILD-BRIEF.md:1167`);
  `ShapeIsKept` says nothing of these three;
- the surrogate of a date near the years 1 or 9999 is an `OverflowError`
  (`surrogates.py:122`), and the answer a 500; the detectors of the
  repository find neither `DATE` nor `NUMBER`, which only a dictionary term can
  bring;
- `extract_text` skips objects in the `enum` and `examples` of a schema;
- dictionary spans are offsets of the case-folded text (`dictionary.py:46`).

## 5. Proofs

The theorems hold for all values of the constants. They assume only the named
assumptions of the modules, which TLC evaluates on every run; the theorems that
need more state it as a hypothesis, and below it is said why.

*Vault.* `VaultInv` is inductive. The wanted invariants `LiveReverseIsCurrent`
and `ReusedIsRestorable` speak of live entries; that an allocation preserves
them needs what the generator could have put there and that no expiry is later
than one given now (`EntriesGenerated`). `UsedIsCurrent` ties open requests to
the dictionaries; `OneSurrogatePerValue` follows from it. The action
properties follow from the invariant: `StableWhileLive` from the guard of the
allocation and the condition of the purge; `WrongOnlyByCollision` from
`ReusedIsRestorable`; `RoundTrip` for a generator with `CollisionFree`, which
makes the two directions agree. `VaultImplementsTable` maps each step to a
step of `SurrogateTable` or a stutter: an allocation is an `Assign`, the clock
and the restart are `Forget`, a restore is an `Answer`.

*Limits.* `LimitsInv` is inductive. The rate limit is a statement about the
history of admissions; it is preserved because the window is exactly the
recent part of that history (`WindowIsRecent`) and the history is ordered in
time (`AdmissionsInOrder`), so that a window shorter than the rate means that
the admission that many places back is stale. `OverspendBounded` counts open
requests with the spend.

*Stores.* `StoreInv` is inductive, for any number of requests, changes, failed
statements and restarts. What is wanted of the durable tables must hold of
those the connection sees too, because any commit makes these durable and a
restart or a rollback makes them what those are: so `View` says it of either.
`RecordedUntilPurged` then needs that a recorded row has its findings and its
capture in both; `EventsAreTrue` that changes are numbered in the order in
which they execute (`Numbered`), so that the row a change wrote can only carry
its number or a larger one, and that a finding has one row for each position.
`PurgeIsClean` has the hypothesis that captures are kept for a day at least: with
none, one made on the day of the purge is already expired when it is written.

*Administrators* (`AdminProofs`). `AdminInv` adds to `StoreInv` that both views
keep their shape, with ids drawn once and never reused (`Sheet`), what each
listing knows (`Listings`), that a row names only changes there were
(`Marked`), that each change was made by a role of the permission matrix
(`ByRight`) and that flags stay in the scope of a team (`Bounded`).
`PagingHolds` is about a listing whose pages are read between other steps. That
no row is missing at the end needs a row to point at while the listing runs:
of the rows that were there at every page and were not shown, the newest is
older than the cursor, because the cursor is the oldest row that was shown, and a page
takes the newest rows behind it; so a page that is not full leaves none.
`RolesHold` follows from the guard of each route and from `ScopeAssumption`: the
team of an identity is a string (`AdminIdentity.team`), and the routes pass it as
`scope_team`.

`PanelsHold` compares each panel, a query over the tables the connection sees, with
the history of what was recorded. That each of these requests is in the tables with its
findings is `StoreInv`. `PanelInv` adds that a row of the findings is an entry of its
request's trace (`Entered`), and that until something fails both views are the same and
hold no request that was not recorded or is purged, and no flag without an answered report
(`Exact`). Then the rows behind a panel are at least the
remembered ones, whichever filter the query has, and these alone until something
fails (`RememberedMatches`). Counts and sums of costs grow with the set they are taken
over (`SubsetTallies`, `CostTallies`), a breakdown has a group for each value
(`BreakdownsCount`) whose numbers add up (`BreakdownTotal`), and a group that a top
list leaves out ranks no higher than those in it (`TopFacts`, `ListsHold`), because as
many leading groups as the limit exist whenever there are so many (`LeadersExist`).
For panels over findings, the entries of the traces of the remembered rows are paired
with the rows of the table (`EntriesPaired`), those reported with the events that were
answered (`ReportsMarked`). `AuditAssumption` says that there are finitely many teams,
that no team has the name which here stands for all, and that costs are not negative.

*Gateway* (`GatewayProofs`). `GatewayInv` is inductive. What is wanted of an
answer is a statement about four histories and one row in either of two tables;
it needs that a slot works for one request and its request for one slot
(`SlotsStand`), that what a slot has tried is what was sent for it
(`TriesAreSent`), that a row, committed or pending, agrees with the decision of its
request (`RowsAgree`), that an answered request has its row (`AnswersHaveRows`),
and that while no write failed nothing is pending (`NothingPending`), so that no
other handler's commit adds a row. An answer of a provider has headers, which agree
with its row, and one of the policy has none (`AnswersAudited`). `SpendMatches` needs the books of a
team, where each charge stands between a call and an answer (`BooksBalance`).
`ImplementsLimits` maps each step to a step of `Limits` or a stutter; the part
`L!LimitsInv` carries the invariant of `LimitsProofs` along, so that the budget
and the rate limit hold in the gateway (`BudgetHolds`, `RateHolds`). TLC has
checked `GatewayInv` on the two gateway instances, `StoreInv`, `AdminInv` and `PanelInv`
on that of `stores`, `VaultInv` on `vault_any` and `LimitsInv` on `limits`; it cannot
evaluate `StreamInv`, which quantifies over all sequences of letters.

*Streams* (`StreamProofs`). `StreamInv` says that the answer so far is a head, whose
restoration was emitted, and the buffer, and that no surrogate stands across the place where
they meet. From it to `StreamMatchesWhole` is a statement about texts: the
restoration of a text is that of its two parts when no surrogate spans the cut
(`RestoredDivides`). One replacement divides at such a cut (`ReplacedDivides`), and
it makes no new surrogate across it, nor anywhere, because originals are
foreign (`WholeAfter`). That `feed` leaves no surrogate across its cut is the second half:
it looks at each surrogate once, and a later move of the cut can only divide an
earlier surrogate that shares a place with a later one without being inside it, which
`Nested` excludes (`OneInOther`); and as the held tail is as long as the
longest surrogate, no later chunk completes one across an earlier cut
(`WholeWhenExtended`), which is where `Longest <= LatencyCap` is needed. The run
`stream_overlap` shows that `Nested` is needed. `OriginalsBack` compares the
order of the replacements, longest word first, with one pass from the left, word by word
(`WordRestored`) and then suffix by suffix (`RestoredIsSwapped`). The hypotheses
are about the reverse map, which is data: the generator's names satisfy them as
long as no surrogate of a scope is part of an original of it; numbers need not, which is
the finding of section 4.

`Induction` has what these proofs use in place of the library's
induction theorems: an induction over a set of places, as a statement about
sets (`SetInduction`), its form that goes down from the end of a text
(`Downward`), the existence of a recursive function whose calls go down
(`RecursiveFunction`) and of a least element (`LeastOf`), and sums over finite sets. With
it, what a recursive function computes for every text, or every finite set, is proved too.

*Decisions.* `DecideObeysOrder` is about `Decide` for every ruleset: the sort key
is a number below 20, so that a rule that no other is above exists among the
candidates and so does the first such rule (`LeastOf`), and blocking rules
alone are candidates when there is one. `DecisionsHold` lifts it to the
specification `Payload`: only `Detect` decides.

*Contents* (`PayloadProofs`). `PayloadInv` says that what is located is what the
current payload's texts contain, or nothing yet. `MergeHolds` is about the greedy
merge of any finite set of candidates, by induction on their number: ranks are rows of
seven numbers that compare by the first place where they differ and that no two candidates share
(`HigherIsOrder`, `BeforeIsOrder`), so there is always a lowest one (`LowestExists`), and
whatever was kept before it outranks it (`BeforeOutranks`).

Masking has a loop invariant, `Laid`: what is written so far is as long as the place of the
cursor, and every word and token up to there stands in its place. A place counts
the words left alone and the findings treated before it, so it moves by one
with each of either (`PlaceFacts`); `CopyIsLaid` and `TokenIsLaid` are the two
ways in which the loop writes, and `MaskingIsLaid` is the induction over the entries from
the left. `MaskTextIsOutput` shows that `MaskText` is that loop, and
`TagsAreCounted` that the numbers of the tags are right. `SentInv` carries it to
the specification. `SentHolds` has the hypothesis `PromptsAreExtracted`, that the
walk visits the prompts of the given payloads and nothing else; it is a statement about
data, and the run's instance satisfies it (`FitAssumption` in `MCPayload`).

`IntervalsHold` needs `KnownInv`, that every surrogate was made for its value with a
type the value was found with, and `DatesInv`, that a date that was sent is the date
moved by the offset of its scope. Its hypothesis `DatesAreDates` is needed because the vault
keeps one surrogate for a value whatever it is found as (`consistency.py:24`): a value that is
found as a name first and as a date later would be sent as a name.

*Restoring* (`RestoreUndoesMask`). The text that is restored is a sequence of characters,
the concatenation of the spellings of the cells that were sent (`SpelledIsEach`), and
restoring is one replacement after another in it. The heart is `PartsAreReplaced`: when a text
is the concatenation of parts, and a word stands in it exactly at the beginnings of some
parts that are that word, then `Replaced` changes these parts and nothing else. `IsLegible` says that
this is so for each surrogate when its turn comes, so that one replacement swaps back the
cells that are spelled by it (`OneIsRestored`); the induction over the reverse map, the longest
surrogate first (`RestoreIs`, `LastIsShortest`), gives that all cells are swapped back and no other
character moved (`LegibleIsRestored`). What is swapped back is the original: the key of a
surrogate is held by a value that is spelled by it (`ReverseFacts`), and the property is
about surrogates that one value only has (`IsReversible`, `SurrogateComesBack`). The
loop of the masking has a second invariant for this (`IsBack`): what is written so far,
with its surrogates swapped back, is the text up to the cursor (`OutputComesBack`,
`MaskedComesBack`).

Its hypotheses are `TextsAreWords`, that what clients write is no surrogate cell (its
characters may well be those of one: that is what `IsLegible` is about), and
`TextsAreSpelled`, that spellings are sequences of characters and no surrogate is empty.

*Shapes* (`ShapeHolds`). By `KnownInv` it is a statement about each generator. For numbers, the clamped
replacement is a hundredfold that lies a whole unit inside both bounds of the bucket
(`ClampedBetween`), so that rounding it leaves it inside (`RoundedBetween`), and a
number between the two powers of ten has the digits before the point that its
original has (`SameExponent`, by `ExponentFacts` and `TenFacts`; `TenRecurs` shows that
the powers are what their recursion says). For cards, the
last digit is added as it is and any other keeps its place (`LuhnLast`), so the
check digit makes the sum a multiple of ten (`CheckDigitFits`). What is drawn for a place
of an identifier or of a telephone number is of the class of what stood there
(`IdentifierIsShaped`, `PhoneIsShaped`). The hypothesis `FindsAreShaped` is about what is found: a
number of at most `MaxDigits` digits, a card of 13 to 19, as its detector has it, an
organization with a name and a suffix.

TLC has checked `PayloadInv`, `KnownInv`, `SentInv` and `MaskedInv` on the
instance of `payload`, and the hypotheses of these theorems about data
(`FitAssumption` in `MCPayload`). It cannot evaluate `DatesInv`, which quantifies over
all dates; `IntervalsSurvive`, which rests on it, is checked there.

Only model-checked: liveness, `EveryCallEnds` (fairness and ENABLED are out of
the prover's reach).

## 6. Not modelled

Detectors (what they find is an input), letters' case and what stands between the
digits of a value, encryption and key formats, settings, YAML loading, latencies, the
charts of the dashboard, metrics, and the text of pages. At most one start is killed
before each that succeeds, and one row stands for the seeds of a table;
`sensitive_pct` is a quotient of two panels and no panel of its own. Of what a provider
says, only that it repeats a text it was sent. Component by component, `PROJECT.json` says what is missing.

## 7. Plan

1. `PolicyStore`: starts of different releases; abstract specification: an
   append-only sequence of versions with a pointer.
2. An abstract log of changes that `AdminStore` implements while nothing fails.
