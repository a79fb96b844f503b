------------------------------ MODULE Gateway ------------------------------
(***************************************************************************)
(* The life of a request in the gateway: gateway/routes_openai.py and      *)
(* gateway/routes_anthropic.py, whose handlers take the same steps, over   *)
(* gateway/pipeline.py, gateway/budget.py (module Limits), the active      *)
(* policy and shadow setting of policy/loader.py, and the audit rows of    *)
(* audit/recorder.py and audit/store.py.                                   *)
(*                                                                         *)
(* One event loop runs every handler: nothing comes between two awaits,    *)
(* and between the arrival and the answer the only await is the provider   *)
(* call. The shipped providers answer without ever suspending; a provider  *)
(* that waits for a network does (CONSTANT Suspends).                      *)
(*                                                                         *)
(* A prompt stands for what a request shows the policy (its findings, its  *)
(* user, team and model). A request that is refused before or by the       *)
(* budget check (401, 400, 403 for its model, 402) changes nothing and is  *)
(* no step. Surrogates are the subject of module Vault.                    *)
(***************************************************************************)
EXTENDS Naturals, Sequences, FiniteSets

CONSTANTS
    Teams, Principals, TeamOf, BudgetOf, RpmOf, Window, MaxClock,
    Prompts,
    Versions,     \* version numbers that policies can be published under
    Verdict,      \* PolicyEngine.evaluate, summed up for the whole request
    Requests,     \* [prompt, model, stream] of the requests that can arrive
    Outcomes,     \* what a call of each provider can end with
    Suspends,     \* a provider call gives control back to the event loop
    Slots,        \* requests that can be open at once
    MaxRequests,  \* bound on the requests admitted in a behaviour
    MaxBoots,     \* bound on the restarts of the process
    MaxFaults     \* bound on the writes to a database that raise

Models == {"fallback/any", "any"}
Providers == {"primary", "fallback", "failing_primary"}
Actions == {"allowed", "masked", "blocked"}

ASSUME GatewayAssumption ==
    /\ TeamOf \in [Principals -> Teams]
    /\ BudgetOf \in [Principals -> Nat]
    /\ RpmOf \in [Principals -> Nat]
    /\ Window \in Nat \ {0}
    /\ MaxClock \in Nat
    /\ Versions \subseteq Nat \ {0}
    /\ 1 \in Versions
    /\ Verdict \in [Versions \X Prompts -> Actions]
    /\ Requests \subseteq [prompt: Prompts, model: Models, stream: BOOLEAN]
    /\ Outcomes \in [Providers -> SUBSET {"ok", "timeout", "error"}]
    /\ Suspends \in BOOLEAN
    /\ IsFiniteSet(Slots)
    /\ Slots # {}
    /\ MaxRequests \in Nat
    /\ MaxBoots \in Nat
    /\ MaxFaults \in Nat

VARIABLES
    clock, spend, window, admitted,   \* as in module Limits
    \* The policy database as its one connection sees it:
    stored,    \* policy_versions: the versions published so far
    active,    \* policy_state.active_version
    shadow,    \* team_policy_settings, TRUE for a team without a row
    disk,      \* what of it is committed
    slot,      \* the open requests: what each handler has in its locals
    log,       \* history: every admitted request with its decision
    sent,      \* history: every provider call
    pending,   \* audit rows inserted on the connection but not committed
    audit,     \* committed rows of the requests table
    replies,   \* history: what clients were answered
    boot,      \* restarts so far
    faults     \* writes to a database that raised so far

limits == <<clock, spend, window, admitted>>
policy == <<stored, active, shadow, disk>>
rows == <<pending, audit, faults>>
vars == <<limits, policy, slot, log, sent, rows, replies, boot>>

\* stage is that of the handler; id indexes log; try counts the providers.
Idle == [stage |-> "idle", id |-> 0, try |-> 0]

Calling(c) == slot[c].stage = "calling"

\* A handler that does not suspend keeps the event loop.
Free == Suspends \/ \A c \in Slots : ~Calling(c)

OpenOf(t) == {c \in Slots : Calling(c) /\ TeamOf[log[slot[c].id].by] = t}

L == INSTANCE Limits WITH
        MaxOpen <- IF Suspends THEN Cardinality(Slots) ELSE 1,
        open <- [t \in Teams |-> Cardinality(OpenOf(t))]

Init ==
    /\ clock = 0
    /\ spend = [t \in Teams |-> 0]
    /\ window = [t \in Teams |-> <<>>]
    /\ admitted = [t \in Teams |-> <<>>]
    /\ stored = {1}
    /\ active = 1
    /\ shadow = [t \in Teams |-> TRUE]
    /\ disk = [stored |-> stored, active |-> active, shadow |-> shadow]
    /\ slot = [c \in Slots |-> Idle]
    /\ log = <<>>
    /\ sent = {}
    /\ pending = {}
    /\ audit = {}
    /\ replies = {}
    /\ boot = 0
    /\ faults = 0

-----------------------------------------------------------------------------
(* Helpers of the handlers. *)

\* ProviderRegistry._chain
Chain(model) ==
    IF model = "fallback/any" THEN <<"failing_primary", "fallback">>
    ELSE <<"primary", "fallback">>

\* GatewayRequestContext.action
Action(j) ==
    IF j.shadow THEN "shadow" ELSE Verdict[<<j.version, j.prompt>>]

\* detect: the decision is taken once, from the policy and the setting of now.
Detect(p, r) ==
    [by |-> p, prompt |-> r.prompt, model |-> r.model, stream |-> r.stream,
     version |-> active, shadow |-> shadow[TeamOf[p]], boot |-> boot]

\* A call of the n-th provider, with the original or the masked payload.
Send(id, j, n) ==
    sent' = sent \cup
        {[id |-> id, try |-> n, provider |-> Chain(j.model)[n],
          raw |-> Action(j) \in {"shadow", "allowed"}]}

\* Mutant: the row takes the version that is active when it is written.
RowOfActiveVersion(id, j, status, fallback) ==
    [id |-> id, version |-> active, shadow |-> j.shadow,
     action |-> Action(j), status |-> status, fallback |-> fallback]

\* Mutant: the fallback flag is not passed on.
RowWithoutFallback(id, j, status, fallback) ==
    [id |-> id, version |-> j.version, shadow |-> j.shadow,
     action |-> Action(j), status |-> status, fallback |-> FALSE]

\* The request as its audit row describes it.
Row(id, j, status, fallback) ==
    [id |-> id, version |-> j.version, shadow |-> j.shadow,
     action |-> Action(j), status |-> status, fallback |-> fallback]

\* A write to a database raises.
Fault ==
    /\ faults < MaxFaults
    /\ faults' = faults + 1

\* record: the row and its findings are inserted and committed, together with
\* whatever the connection still had open.
Recorded(row) ==
    /\ audit' = audit \cup pending \cup {row}
    /\ pending' = {}
    /\ UNCHANGED faults

\* Or a statement raises: its transaction is rolled back, or stays open
\* without or with the row. Nothing in the code ends it.
RecordFails(row) ==
    /\ Fault
    /\ pending' \in {{}, pending, pending \cup {row}}
    /\ UNCHANGED audit

\* Only an answer with status 200 has the headers, those of the handler's
\* context: a GatewayError and an exception that leaves the handler have none.
Answer(id, j, status, fallback) ==
    replies' = replies \cup
        {[id |-> id, status |-> status,
          headers |-> IF status = 200
                      THEN {[version |-> j.version, action |-> Action(j),
                             fallback |-> fallback]}
                      ELSE {}]}

Leave(c) == slot' = [slot EXCEPT ![c] = Idle]

-----------------------------------------------------------------------------
(* The handler up to its await. *)

\* Mutant: requests come in between check and charge of another.
ArrivalAtAnyTime(c, p, r) ==
    /\ slot[c] = Idle
    /\ Len(log) < MaxRequests
    /\ UNCHANGED <<clock, spend, policy, boot>>

\* A request arrives at a free slot; id is the one it gets in the log.
Arrival(c, p, r) ==
    /\ slot[c] = Idle
    /\ Free
    /\ Len(log) < MaxRequests
    /\ UNCHANGED <<clock, spend, policy, boot>>

\* check raises 429.
Limited(c, p, r) ==
    /\ Arrival(c, p, r)
    /\ L!CheckLimits(p)
    /\ UNCHANGED <<slot, log, sent, rows, replies>>

\* mask raises BlockedContentError: the row is written, nothing is sent. If
\* the row cannot be written the client gets a 500 instead.
Blocked(c, p, r) ==
    LET j == Detect(p, r)
        id == Len(log) + 1
    IN  /\ Arrival(c, p, r)
        /\ L!CheckPasses(p)
        /\ Action(j) = "blocked"
        /\ log' = Append(log, j)
        /\ \/ Recorded(Row(id, j, 403, FALSE)) /\ Answer(id, j, 403, FALSE)
           \/ RecordFails(Row(id, j, 403, FALSE)) /\ Answer(id, j, 500, FALSE)
        /\ UNCHANGED <<slot, sent>>

\* mask raises something else, such as the OverflowError of a date whose
\* surrogate leaves the calendar: a 500 without a row, and the request keeps
\* its place in the window.
MaskingFails(c, p, r) ==
    LET j == Detect(p, r) IN
    /\ Arrival(c, p, r)
    /\ L!CheckPasses(p)
    /\ Action(j) = "masked"
    /\ log' = Append(log, j)
    /\ Answer(Len(log) + 1, j, 500, FALSE)
    /\ UNCHANGED <<slot, sent, rows>>

\* Mutant: the row is written before the provider is called.
ForwardedAndRecorded(c, p, r) ==
    LET j == Detect(p, r)
        id == Len(log) + 1
    IN  /\ Arrival(c, p, r)
        /\ L!CheckPasses(p)
        /\ Action(j) # "blocked"
        /\ log' = Append(log, j)
        /\ Send(id, j, 1)
        /\ slot' = [slot EXCEPT ![c] =
                      [stage |-> "calling", id |-> id, try |-> 1]]
        /\ Recorded(Row(id, j, 200, FALSE))
        /\ UNCHANGED replies

\* Everything else goes to the first provider of the chain.
Forwarded(c, p, r) ==
    LET j == Detect(p, r)
        id == Len(log) + 1
    IN  /\ Arrival(c, p, r)
        /\ L!CheckPasses(p)
        /\ Action(j) # "blocked"
        /\ log' = Append(log, j)
        /\ Send(id, j, 1)
        /\ slot' = [slot EXCEPT ![c] =
                      [stage |-> "calling", id |-> id, try |-> 1]]
        /\ UNCHANGED <<rows, replies>>

-----------------------------------------------------------------------------
(* The provider call ends. *)

Ends(c, outcome) ==
    /\ Calling(c)
    /\ outcome \in Outcomes[Chain(log[slot[c].id].model)[slot[c].try]]
    /\ UNCHANGED <<clock, window, admitted, policy, log, boot>>

LastTry(c) == slot[c].try = Len(Chain(log[slot[c].id].model))

\* Mutant: after the last provider of the chain comes the first again.
FallBackAround(c) ==
    LET id == slot[c].id
        next == (slot[c].try % Len(Chain(log[id].model))) + 1
    IN  /\ Ends(c, "timeout")
        /\ Send(id, log[id], next)
        /\ slot' = [slot EXCEPT ![c].try = next]
        /\ UNCHANGED <<spend, rows, replies>>

\* A TimeoutError or OSError: the next provider gets the same payload.
FallBack(c) ==
    LET id == slot[c].id IN
    /\ Ends(c, "timeout")
    /\ ~LastTry(c)
    /\ Send(id, log[id], slot[c].try + 1)
    /\ slot' = [slot EXCEPT ![c].try = @ + 1]
    /\ UNCHANGED <<spend, rows, replies>>

\* Any other exception, or a timeout of the last provider, leaves the handler.
Fails(c) ==
    /\ Ends(c, "error") \/ (Ends(c, "timeout") /\ LastTry(c))
    /\ Answer(slot[c].id, log[slot[c].id], 500, FALSE)
    /\ Leave(c)
    /\ UNCHANGED <<spend, sent, rows>>

\* Mutant: complete answers are not charged.
CompletesFree(c) ==
    LET id == slot[c].id
        j == log[id]
        row == Row(id, j, 200, slot[c].try > 1)
    IN  /\ Ends(c, "ok")
        /\ ~j.stream
        /\ \/ Recorded(row) /\ Answer(id, j, 200, slot[c].try > 1)
           \/ RecordFails(row) /\ Answer(id, j, 500, FALSE)
        /\ Leave(c)
        /\ UNCHANGED <<spend, sent>>

\* Mutant: an error of the audit database is swallowed.
CompletesAnyway(c) ==
    LET id == slot[c].id
        j == log[id]
        row == Row(id, j, 200, slot[c].try > 1)
    IN  /\ Ends(c, "ok")
        /\ ~j.stream
        /\ L!RecordSpend(j.by)
        /\ Recorded(row) \/ RecordFails(row)
        /\ Answer(id, j, 200, slot[c].try > 1)
        /\ Leave(c)
        /\ UNCHANGED sent

\* A whole answer: charged first, then recorded.
Completes(c) ==
    LET id == slot[c].id
        j == log[id]
        row == Row(id, j, 200, slot[c].try > 1)
    IN  /\ Ends(c, "ok")
        /\ ~j.stream
        /\ L!RecordSpend(j.by)
        /\ \/ Recorded(row) /\ Answer(id, j, 200, slot[c].try > 1)
           \/ RecordFails(row) /\ Answer(id, j, 500, FALSE)
        /\ Leave(c)
        /\ UNCHANGED sent

\* The first event of a stream: recorded first, then charged; the other
\* events are relayed after the handler has returned its answer.
StreamStarts(c) ==
    LET id == slot[c].id
        j == log[id]
        row == Row(id, j, 200, slot[c].try > 1)
    IN  /\ Ends(c, "ok")
        /\ j.stream
        /\ \/ /\ Recorded(row)
              /\ L!RecordSpend(j.by)
              /\ Answer(id, j, 200, slot[c].try > 1)
              /\ slot' = [slot EXCEPT ![c].stage = "streaming"]
           \/ /\ RecordFails(row)
              /\ Answer(id, j, 500, FALSE)
              /\ Leave(c)
              /\ UNCHANGED spend
        /\ UNCHANGED sent

\* Mutant: a stream is charged a second time when it ends.
StreamEndsCharged(c) ==
    /\ slot[c].stage = "streaming"
    /\ Free
    /\ Leave(c)
    /\ L!RecordSpend(log[slot[c].id].by)
    /\ UNCHANGED <<clock, window, admitted, policy, log, sent, rows, replies,
                   boot>>

\* The stream is over, complete or broken off: nothing is recorded of it.
StreamEnds(c) ==
    /\ slot[c].stage = "streaming"
    /\ Free
    /\ Leave(c)
    /\ UNCHANGED <<limits, policy, log, sent, rows, replies, boot>>

-----------------------------------------------------------------------------
(* The Admin API, the clock and the process. *)

\* record_event, after the change proper, on the audit connection: it
\* commits what that has open, or raises when the change is already made.
EventRecorded ==
    \/ audit' = audit \cup pending /\ pending' = {} /\ UNCHANGED faults
    \/ Fault /\ pending' \in {{}, pending} /\ UNCHANGED audit

Seen(s, a, h) == stored' = s /\ active' = a /\ shadow' = h

\* The policy store's commit: all that its connection sees becomes durable,
\* with what an earlier failure left open.
Committed(s, a, h) ==
    /\ Seen(s, a, h)
    /\ disk' = [stored |-> s, active |-> a, shadow |-> h]

\* Or the commit raises: the change stays in sight of this process, or SQLite
\* rolls the transaction back. Nothing in the code ends it, and the event is
\* not reached. (A statement that raises changes nothing or is rolled back.)
CommitFails(s, a, h) ==
    /\ Fault
    /\ Seen(s, a, h) \/ Seen(disk.stored, disk.active, disk.shadow)
    /\ UNCHANGED <<disk, pending, audit>>

AdminStep ==
    /\ Free
    /\ UNCHANGED <<limits, slot, log, sent, replies, boot>>

\* POST /admin/policies: write refuses a version that is not the largest yet.
CreatePolicy(v) ==
    LET after == stored \cup {v} IN
    /\ AdminStep
    /\ \A u \in stored : u < v
    /\ \/ Committed(after, active, shadow) /\ EventRecorded
       \/ CommitFails(after, active, shadow)

\* Mutant: any version number can be activated.
ActivateUnchecked(v) ==
    /\ AdminStep
    /\ \/ Committed(stored, v, shadow) /\ EventRecorded
       \/ CommitFails(stored, v, shadow)

\* POST /admin/policies/{version}/activate: any stored version, also an older.
ActivatePolicy(v) ==
    /\ AdminStep
    /\ v \in stored
    /\ \/ Committed(stored, v, shadow) /\ EventRecorded
       \/ CommitFails(stored, v, shadow)

\* set_shadow_for_team, without an audit event.
SetShadow(t, enabled) ==
    LET after == [shadow EXCEPT ![t] = enabled] IN
    /\ AdminStep
    /\ \/ Committed(stored, active, after) /\ UNCHANGED rows
       \/ CommitFails(stored, active, after)

Tick ==
    /\ clock < MaxClock
    /\ clock' = clock + 1
    /\ UNCHANGED <<spend, window, admitted, policy, slot, log, sent, rows,
                   replies, boot>>

\* The process restarts. What was committed is on disk, the limits are not,
\* and open transactions are rolled back.
Restart ==
    /\ boot < MaxBoots
    /\ spend' = [t \in Teams |-> 0]
    /\ window' = [t \in Teams |-> <<>>]
    /\ admitted' = [t \in Teams |-> <<>>]
    /\ slot' = [c \in Slots |-> Idle]
    /\ pending' = {}
    /\ boot' = boot + 1
    /\ Seen(disk.stored, disk.active, disk.shadow)
    /\ UNCHANGED <<clock, disk, log, sent, audit, replies, faults>>

CallEnds(c) == FallBack(c) \/ Fails(c) \/ Completes(c) \/ StreamStarts(c)

Next ==
    \/ \E c \in Slots, p \in Principals, r \in Requests :
          \/ Limited(c, p, r)
          \/ Blocked(c, p, r)
          \/ MaskingFails(c, p, r)
          \/ Forwarded(c, p, r)
    \/ \E c \in Slots : CallEnds(c) \/ StreamEnds(c)
    \/ \E v \in Versions : CreatePolicy(v) \/ ActivatePolicy(v)
    \/ \E t \in Teams, enabled \in BOOLEAN : SetShadow(t, enabled)
    \/ Tick
    \/ Restart

Spec == Init /\ [][Next]_vars

\* A provider call that was made ends at some point.
Fairness == \A c \in Slots : WF_vars(CallEnds(c))

FairSpec == Spec /\ Fairness
-----------------------------------------------------------------------------
(* Properties. *)

Ids == DOMAIN log

Decisions == Actions \cup {"shadow"}

TypeOK ==
    /\ L!TypeOK
    /\ stored \subseteq Versions
    /\ active \in stored
    /\ shadow \in [Teams -> BOOLEAN]
    /\ disk \in [stored: SUBSET Versions, active: Versions,
                shadow: [Teams -> BOOLEAN]]
    /\ disk.active \in disk.stored
    /\ boot \in Nat
    /\ faults \in Nat
    /\ log \in Seq([by: Principals, prompt: Prompts, model: Models,
                    stream: BOOLEAN, version: Versions, shadow: BOOLEAN,
                    boot: 0..boot])
    /\ slot \in [Slots -> [stage: {"idle", "calling", "streaming"},
                           id: Ids \cup {0}, try: 0..2]]
    /\ \A c \in Slots : slot[c].stage = "idle" <=> slot[c].id = 0
    /\ sent \subseteq [id: Ids, try: 1..2, provider: Providers, raw: BOOLEAN]
    /\ pending \cup audit \subseteq
          [id: Ids, version: Versions, shadow: BOOLEAN, action: Decisions,
           status: {200, 403}, fallback: BOOLEAN]
    /\ replies \subseteq
          [id: Ids, status: {200, 403, 500},
           headers: SUBSET [version: Versions, action: Decisions,
                            fallback: BOOLEAN]]

\* The decision taken at the arrival stands until the end, whatever is
\* published, activated or switched to shadow during the provider calls: every
\* call of the chain sends what that decision allows, nothing of a blocked
\* request is sent, and the audit row tells that version and that action
\* (BUILD-BRIEF.md H.4: "Every audit row records the policy_version that
\* produced it").
DecisionStands ==
    /\ \A s \in sent :
          /\ Action(log[s.id]) # "blocked"
          /\ s.raw <=> Action(log[s.id]) \in {"shadow", "allowed"}
    /\ \A row \in pending \cup audit :
          LET j == log[row.id] IN
          /\ row.version = j.version
          /\ row.action = Action(j)
          /\ row.status = 403 <=> Action(j) = "blocked"

\* The row of an answer, if it has headers with what they say.
Tells(row, a) ==
    /\ row.id = a.id
    /\ row.status = a.status
    /\ \A h \in a.headers :
          /\ row.version = h.version
          /\ row.action = h.action
          /\ row.fallback = h.fallback

\* A client that was answered by a provider or by the policy finds its answer
\* in the audit log: exactly one row, with its status, and with the version,
\* action and fallback flag of the headers when it got any, which a provider's
\* answer always does; also when the database fails for others.
AnswersAudited ==
    \A a \in replies :
        a.status # 500 =>
            /\ \E row \in audit : Tells(row, a)
            /\ Cardinality({row \in pending \cup audit : row.id = a.id}) = 1
            /\ a.headers = {} <=> a.status = 403

\* "Response headers on every call" (BUILD-BRIEF.md, module 8): an answer of
\* the policy tells its action and version like one of a provider. It does not:
\* the 403 of a blocked request has no header of the gateway.
HeadersOnEveryCall ==
    \A a \in replies : a.status # 500 => a.headers # {}

\* Slots work for different requests, and a request that is still with its
\* provider has neither a row nor an answer.
OpenIsUnanswered ==
    \A c \in Slots : slot[c] # Idle =>
        /\ \A d \in Slots \ {c} : slot[d].id # slot[c].id
        /\ Calling(c) =>
              \A x \in replies \cup pending \cup audit : x.id # slot[c].id

\* The fallback flag of a row says whether a second provider was called.
FallbackIsTold ==
    \A row \in pending \cup audit :
        row.fallback <=> \E s \in sent : s.id = row.id /\ s.try > 1

OfTeam(t, set) ==
    {x.id : x \in {y \in set : /\ log[y.id].boot = boot
                               /\ TeamOf[log[y.id].by] = t}}

\* Since the process started, a team was charged once for each answer of a
\* provider it got and never for more than it sent; and as long as every write
\* succeeded, once for each row with status 200.
SpendMatchesAudit ==
    \A t \in Teams :
        /\ Cardinality(OfTeam(t, {a \in replies : a.status = 200})) <= spend[t]
        /\ spend[t] <= Cardinality(OfTeam(t, sent))
        /\ faults = 0 =>
              spend[t] = Cardinality(
                            OfTeam(t, {row \in audit : row.status = 200}))

\* Concurrent requests overrun a budget by less than their number; with
\* providers that do not suspend, never (budget.py, check and record_spend).
WithinBudget == L!OverspendBounded

\* The handlers use the limits the way module Limits says.
LimitsSpec == L!Spec

\* A request that was sent to a provider is over at some point: the chain is
\* walked to its end and no provider is asked for ever.
EveryCallEnds == \A c \in Slots : Calling(c) ~> ~Calling(c)
=============================================================================
