---------------------------- MODULE GatewayProofs ----------------------------
(***************************************************************************)
(* Proofs about module Gateway, for all teams, principals, policies,       *)
(* providers, slots and requests: its invariants, and that it implements   *)
(* module Limits, whose theorems are used through an instance.             *)
(***************************************************************************)
EXTENDS Gateway, FiniteSetTheorems, TLAPS

\* The theorems of module Limits, about the instance L of module Gateway.
LP == INSTANCE LimitsProofs WITH
        MaxOpen <- IF Suspends THEN Cardinality(Slots) ELSE 1,
        open <- [t \in Teams |-> Cardinality(OpenOf(t))]

USE GatewayAssumption

-----------------------------------------------------------------------------
(* The inductive invariant. *)

Rows == pending \cup audit

\* An open slot works for a request of this process, which the policy let
\* through; a free slot is all free.
SlotsStand ==
    \A c \in Slots :
        /\ slot[c].stage = "idle" => slot[c] = Idle
        /\ Calling(c) =>
              /\ slot[c].try \in 1..2
              /\ log[slot[c].id].boot = boot
              /\ Action(log[slot[c].id]) # "blocked"

\* A slot knows whether it has called a second provider.
TriesAreSent ==
    \A c \in Slots : Calling(c) =>
        (slot[c].try > 1 <=> \E s \in sent : s.id = slot[c].id /\ s.try > 1)

\* A request has one row.
RowsAgree == \A x, y \in Rows : x.id = y.id => x = y

\* What AnswersAudited says of the row it finds.
AnswersHaveRows ==
    \A a \in replies :
        a.status # 500 =>
            /\ \E row \in audit : Tells(row, a)
            /\ a.headers = {} <=> a.status = 403

\* The books of a team: what is open is sent and not yet charged.
BooksBalance ==
    \A t \in Teams :
        /\ spend[t] + Cardinality(OpenOf(t)) <= Cardinality(OfTeam(t, sent))
        /\ Cardinality(OfTeam(t, {a \in replies : a.status = 200})) <= spend[t]
        /\ faults = 0 =>
              spend[t] = Cardinality(
                            OfTeam(t, {row \in audit : row.status = 200}))

\* As long as no write failed, no transaction is left open.
NothingPending == faults = 0 => pending = {}

GatewayInv ==
    /\ TypeOK
    /\ L!LimitsInv
    /\ SlotsStand
    /\ TriesAreSent
    /\ RowsAgree
    /\ AnswersHaveRows
    /\ NothingPending
    /\ DecisionStands
    /\ OpenIsUnanswered
    /\ FallbackIsTold
    /\ BooksBalance

-----------------------------------------------------------------------------
(* What the type invariant says of the log and of the slots. *)

Decision ==
    [by: Principals, prompt: Prompts, model: Models, stream: BOOLEAN,
     version: Versions, shadow: BOOLEAN, boot: 0..boot]

\* The log only grows.
LogGrows == \A i \in DOMAIN log : i \in DOMAIN log' /\ log'[i] = log[i]

LEMMA LogFacts ==
    ASSUME TypeOK
    PROVE  /\ Len(log) \in Nat
           /\ DOMAIN log = 1..Len(log)
           /\ \A i \in DOMAIN log : log[i] \in Decision
           /\ \A i \in DOMAIN log : TeamOf[log[i].by] \in Teams
<1>1. log \in Seq(Decision)
    BY DEF TypeOK, Decision
<1>2. \A i \in DOMAIN log : log[i] \in Decision
    BY <1>1
<1>3. \A j \in Decision : TeamOf[j.by] \in Teams
    BY DEF Decision
<1> QED BY <1>1, <1>2, <1>3

LEMMA SlotFacts ==
    ASSUME TypeOK, NEW c \in Slots, slot[c].stage # "idle"
    PROVE  slot[c].id \in DOMAIN log
<1>1. slot[c] \in [stage: {"idle", "calling", "streaming"},
                   id: Ids \cup {0}, try: 0..2]
    BY DEF TypeOK
<1>2. slot[c].id # 0
    BY DEF TypeOK
<1> QED BY <1>1, <1>2 DEF Ids

LEMMA AppendGrows ==
    ASSUME TypeOK, NEW j, log' = Append(log, j)
    PROVE  /\ LogGrows
           /\ DOMAIN log' = DOMAIN log \cup {Len(log) + 1}
           /\ Len(log) + 1 \notin DOMAIN log
           /\ log'[Len(log) + 1] = j
<1>1. Len(log) \in Nat /\ DOMAIN log = 1..Len(log) /\ log \in Seq(Decision)
    BY LogFacts DEF TypeOK, Decision
<1>2. /\ Len(log') = Len(log) + 1
      /\ DOMAIN log' = 1..(Len(log) + 1)
      /\ \A i \in 1..Len(log) : log'[i] = log[i]
      /\ log'[Len(log) + 1] = j
    BY <1>1
<1> QED BY <1>1, <1>2 DEF LogGrows

-----------------------------------------------------------------------------
(* The number of open requests of a team. *)

Open == [t \in Teams |-> Cardinality(OpenOf(t))]

LEMMA OpenFacts ==
    ASSUME NEW t
    PROVE  /\ IsFiniteSet(OpenOf(t)) /\ Cardinality(OpenOf(t)) \in Nat
           /\ (IsFiniteSet(OpenOf(t)) /\ Cardinality(OpenOf(t)) \in Nat)'
<1>1. OpenOf(t) \in SUBSET Slots /\ OpenOf(t)' \in SUBSET Slots
    BY DEF OpenOf
<1>2. IsFiniteSet(OpenOf(t)) /\ IsFiniteSet(OpenOf(t)')
    BY <1>1, FS_Subset
<1>3. Cardinality(OpenOf(t)) \in Nat /\ Cardinality(OpenOf(t)') \in Nat
    BY <1>2, FS_CardinalityType
<1> QED BY <1>2, <1>3

\* Slots that keep what they hold stay where they were.
LEMMA OpenElsewhere ==
    ASSUME TypeOK, LogGrows, NEW d \in Slots, slot'[d] = slot[d], NEW t
    PROVE  d \in OpenOf(t)' <=> d \in OpenOf(t)
<1>1. CASE slot[d].stage = "calling"
    <2>1. slot[d].id \in DOMAIN log
        BY <1>1, SlotFacts
    <2>2. log'[slot'[d].id] = log[slot[d].id]
        BY <2>1 DEF LogGrows
    <2> QED BY <2>2 DEF OpenOf, Calling
<1>2. CASE slot[d].stage # "calling"
    BY <1>2 DEF OpenOf, Calling
<1> QED BY <1>1, <1>2

LEMMA OpenKept ==
    ASSUME TypeOK, LogGrows,
           \A c \in Slots : Calling(c)' <=> Calling(c),
           \A c \in Slots : Calling(c) => slot'[c].id = slot[c].id
    PROVE  Open' = Open /\ \A t \in Teams : OpenOf(t)' = OpenOf(t)
<1>1. ASSUME NEW t \in Teams, NEW d \in Slots
      PROVE  d \in OpenOf(t)' <=> d \in OpenOf(t)
    <2>1. CASE slot[d].stage = "calling"
        <3>1. slot[d].id \in DOMAIN log /\ slot'[d].id = slot[d].id
            BY <2>1, SlotFacts DEF Calling
        <3>2. log'[slot'[d].id] = log[slot[d].id]
            BY <3>1 DEF LogGrows
        <3> QED BY <3>2 DEF OpenOf
    <2>2. CASE slot[d].stage # "calling"
        BY <2>2 DEF OpenOf, Calling
    <2> QED BY <2>1, <2>2
<1>2. ASSUME NEW t \in Teams PROVE OpenOf(t)' = OpenOf(t)
    BY <1>1 DEF OpenOf
<1> QED BY <1>2 DEF Open

LEMMA OpenEnters ==
    ASSUME TypeOK, LogGrows, NEW c \in Slots, ~Calling(c), Calling(c)',
           slot' = [slot EXCEPT ![c] = slot'[c]],
           NEW u \in Teams, TeamOf[log'[slot'[c].id].by] = u
    PROVE  /\ Open' = [Open EXCEPT ![u] = @ + 1]
           /\ Cardinality(OpenOf(u))' = Cardinality(OpenOf(u)) + 1
           /\ \A t \in Teams \ {u} :
                 Cardinality(OpenOf(t))' = Cardinality(OpenOf(t))
<1>1. c \notin OpenOf(u) /\ c \in OpenOf(u)'
    BY DEF OpenOf
<1>2. ASSUME NEW d \in Slots \ {c}, NEW t
      PROVE  d \in OpenOf(t)' <=> d \in OpenOf(t)
    <2>1. slot'[d] = slot[d]
        BY DEF TypeOK
    <2> QED BY <2>1, OpenElsewhere
<1>3. OpenOf(u)' = OpenOf(u) \cup {c}
    <2>1. OpenOf(u) \subseteq Slots /\ OpenOf(u)' \subseteq Slots
        BY DEF OpenOf
    <2> QED BY <1>1, <1>2, <2>1
<1>4. ASSUME NEW t \in Teams \ {u} PROVE OpenOf(t)' = OpenOf(t)
    <2>1. c \notin OpenOf(t) /\ c \notin OpenOf(t)'
        BY DEF OpenOf
    <2> QED BY <1>2, <2>1 DEF OpenOf
<1>5. Cardinality(OpenOf(u) \cup {c}) = Cardinality(OpenOf(u)) + 1
    BY <1>1, OpenFacts, FS_AddElement
<1>6. Cardinality(OpenOf(u))' = Cardinality(OpenOf(u)) + 1
    BY <1>3, <1>5
<1>7. Open' = [Open EXCEPT ![u] = @ + 1]
    BY <1>4, <1>6 DEF Open
<1> QED BY <1>4, <1>6, <1>7

LEMMA OpenLeaves ==
    ASSUME TypeOK, LogGrows, NEW c \in Slots, Calling(c), ~Calling(c)',
           slot' = [slot EXCEPT ![c] = slot'[c]],
           NEW u \in Teams, TeamOf[log[slot[c].id].by] = u
    PROVE  /\ Open[u] > 0
           /\ Open' = [Open EXCEPT ![u] = @ - 1]
           /\ Cardinality(OpenOf(u))' = Cardinality(OpenOf(u)) - 1
           /\ \A t \in Teams \ {u} :
                 Cardinality(OpenOf(t))' = Cardinality(OpenOf(t))
<1>1. c \in OpenOf(u) /\ c \notin OpenOf(u)'
    BY DEF OpenOf
<1>2. ASSUME NEW d \in Slots \ {c}, NEW t
      PROVE  d \in OpenOf(t)' <=> d \in OpenOf(t)
    <2>1. slot'[d] = slot[d]
        BY DEF TypeOK
    <2> QED BY <2>1, OpenElsewhere
<1>3. OpenOf(u)' = OpenOf(u) \ {c}
    <2>1. OpenOf(u) \subseteq Slots /\ OpenOf(u)' \subseteq Slots
        BY DEF OpenOf
    <2> QED BY <1>1, <1>2, <2>1
<1>4. ASSUME NEW t \in Teams \ {u} PROVE OpenOf(t)' = OpenOf(t)
    <2>1. c \notin OpenOf(t) /\ c \notin OpenOf(t)'
        BY DEF OpenOf
    <2> QED BY <1>2, <2>1 DEF OpenOf
<1>5. Cardinality(OpenOf(u) \ {c}) = Cardinality(OpenOf(u)) - 1
    <2>1. IsFiniteSet(OpenOf(u))
        BY OpenFacts
    <2> QED BY <1>1, <2>1, FS_RemoveElement
<1>6. Cardinality(OpenOf(u))' = Cardinality(OpenOf(u)) - 1
    BY <1>3, <1>5
<1>7. Cardinality(OpenOf(u)) # 0
    BY <1>1, OpenFacts, FS_EmptySet
<1>8. Cardinality(OpenOf(u)) > 0
    BY <1>7, OpenFacts
<1>9. Open' = [Open EXCEPT ![u] = @ - 1]
    BY <1>4, <1>6 DEF Open
<1> QED BY <1>4, <1>6, <1>8, <1>9 DEF Open

-----------------------------------------------------------------------------
(* Every step of the gateway is a step of the limits. *)

LEMMA LimitsHypotheses == L!LimitsAssumption
<1>1. Cardinality(Slots) \in Nat /\ Cardinality(Slots) # 0
    BY FS_CardinalityType, FS_EmptySet
<1> QED BY <1>1 DEF L!LimitsAssumption

LEMMA SameLimits ==
    /\ L!LimitsInv <=> LP!LimitsInv
    /\ LP!LimitsInv' => L!LimitsInv'
    /\ L!Init <=> LP!Init
    /\ L!Next <=> LP!Next
    /\ UNCHANGED L!vars <=> UNCHANGED LP!vars
<1>1. L!LimitsInv <=> LP!LimitsInv
    BY DEF L!LimitsInv, LP!LimitsInv, L!TypeOK, LP!TypeOK,
           L!Admission, LP!Admission, L!WindowIsRecent, LP!WindowIsRecent,
           L!AdmissionsInOrder, LP!AdmissionsInOrder,
           L!RateLimitHolds, LP!RateLimitHolds,
           L!OverspendBounded, LP!OverspendBounded, L!Stale, LP!Stale
<1>2. LP!LimitsInv' => L!LimitsInv'
    BY <1>1, PTL
<1>3. L!Next <=> LP!Next
    BY DEF L!Next, L!Admit, L!AdmitAndEnd, L!Limit, L!Charge, L!Drop, L!Tick,
           L!Restart, L!CheckPasses, L!CheckLimits, L!Close, L!RecordSpend,
           L!Popped, L!OverBudget, L!Rest, L!Stale,
           LP!Next, LP!Admit, LP!AdmitAndEnd, LP!Limit, LP!Charge, LP!Drop,
           LP!Tick, LP!Restart, LP!CheckPasses, LP!CheckLimits, LP!Close,
           LP!RecordSpend, LP!Popped, LP!OverBudget, LP!Rest, LP!Stale
<1> QED BY <1>1, <1>2, <1>3 DEF L!Init, LP!Init, L!vars, LP!vars

\* The handler up to its await.
LEMMA ArrivalRefines ==
    ASSUME TypeOK, NEW c \in Slots, NEW p \in Principals, NEW r \in Requests,
           \/ Limited(c, p, r) \/ Blocked(c, p, r)
           \/ MaskingFails(c, p, r) \/ Forwarded(c, p, r)
    PROVE  L!Next
<1>1. /\ slot[c] = Idle /\ Free
      /\ clock' = clock /\ spend' = spend
    BY DEF Limited, Blocked, MaskingFails, Forwarded, Arrival
<1>2. ~Calling(c)
    BY <1>1 DEF Calling, Idle
<1>3. CASE Limited(c, p, r)
    <2>1. Open' = Open
        BY <1>3, OpenKept DEF Limited, LogGrows, Calling
    <2>2. L!Limit(p)
        BY <1>1, <1>3, <2>1 DEF L!Limit, Limited, Open
    <2> QED BY <2>2 DEF L!Next
<1>4. CASE Blocked(c, p, r) \/ MaskingFails(c, p, r)
    <2>1. LogGrows
        BY <1>4, AppendGrows DEF Blocked, MaskingFails
    <2>2. Open' = Open
        BY <1>4, <2>1, OpenKept DEF Blocked, MaskingFails, Calling
    <2>3. L!AdmitAndEnd(p)
        BY <1>1, <1>4, <2>2 DEF L!AdmitAndEnd, Blocked, MaskingFails, Open
    <2> QED BY <2>3 DEF L!Next
<1>5. CASE Forwarded(c, p, r)
    <2> DEFINE j == Detect(p, r)
               id == Len(log) + 1
               u == TeamOf[p]
    <2>1. /\ log' = Append(log, j)
          /\ slot' = [slot EXCEPT ![c] =
                        [stage |-> "calling", id |-> id, try |-> 1]]
          /\ L!CheckPasses(p)
        BY <1>5 DEF Forwarded
    <2>2. LogGrows /\ log'[id] = j
        BY <2>1, AppendGrows
    <2>3. slot'[c] = [stage |-> "calling", id |-> id, try |-> 1]
        BY <2>1 DEF TypeOK
    <2>4. TeamOf[log'[slot'[c].id].by] = u /\ u \in Teams
        BY <2>2, <2>3 DEF Detect
    <2>5. Calling(c)' /\ slot' = [slot EXCEPT ![c] = slot'[c]]
        <3>1. Calling(c)'
            BY <2>3 DEF Calling
        <3>2. slot' = [slot EXCEPT ![c] = slot'[c]]
            BY <2>1, <2>3
        <3> QED BY <3>1, <3>2
    <2>6. Open' = [Open EXCEPT ![u] = @ + 1]
        BY <1>2, <2>2, <2>4, <2>5, OpenEnters
    <2>7. Open[u] < IF Suspends THEN Cardinality(Slots) ELSE 1
        <3>1. OpenOf(u) \in SUBSET (Slots \ {c})
            BY <1>2 DEF OpenOf
        <3>2. /\ IsFiniteSet(Slots \ {c})
              /\ Cardinality(Slots \ {c}) = Cardinality(Slots) - 1
              /\ Cardinality(Slots) \in Nat
            BY FS_RemoveElement, FS_CardinalityType
        <3>3. Cardinality(OpenOf(u)) <= Cardinality(Slots) - 1
            BY <3>1, <3>2, FS_Subset
        <3>4. Cardinality(OpenOf(u)) < Cardinality(Slots)
            BY <3>2, <3>3, OpenFacts
        <3>5. ASSUME ~Suspends PROVE Cardinality(OpenOf(u)) = 0
            <4>1. OpenOf(u) = {}
                BY <1>1, <3>5 DEF Free, OpenOf
            <4> QED BY <4>1, FS_EmptySet
        <3>6. Open[u] = Cardinality(OpenOf(u))
            BY <2>4 DEF Open
        <3> QED BY <3>4, <3>5, <3>6
    <2>8. L!Admit(p)
        BY <1>1, <2>1, <2>6, <2>7 DEF L!Admit, Open
    <2> QED BY <2>8 DEF L!Next
<1> QED BY <1>3, <1>4, <1>5

\* The provider call ends.
LEMMA CallEndRefines ==
    ASSUME TypeOK, NEW c \in Slots, CallEnds(c)
    PROVE  [L!Next]_(L!vars)
<1> DEFINE j == log[slot[c].id]
           u == TeamOf[j.by]
<1>1. /\ Calling(c)
      /\ UNCHANGED <<clock, window, admitted, log>>
    BY DEF CallEnds, FallBack, Fails, Completes, StreamStarts, Ends
<1>2. j.by \in Principals /\ u \in Teams /\ LogGrows
    BY <1>1, SlotFacts, LogFacts DEF Calling, Decision, LogGrows
<1>3. CASE FallBack(c)
    <2>1. slot' = [slot EXCEPT ![c].try = @ + 1] /\ spend' = spend
        BY <1>3 DEF FallBack
    <2>2. Open' = Open
        BY <1>2, <2>1, OpenKept DEF TypeOK, Calling
    <2> QED BY <1>1, <2>1, <2>2 DEF L!vars, Open
<1>4. ASSUME ~Calling(c)', slot' = [slot EXCEPT ![c] = slot'[c]]
      PROVE  L!Close(u)
    <2>1. Open[u] > 0 /\ Open' = [Open EXCEPT ![u] = @ - 1]
        BY <1>1, <1>2, <1>4, OpenLeaves
    <2> QED BY <2>1 DEF L!Close, Open
<1>5. ASSUME Leave(c) PROVE ~Calling(c)' /\ slot' = [slot EXCEPT ![c] = slot'[c]]
    BY <1>5 DEF TypeOK, Leave, Calling, Idle
<1>6. CASE Fails(c)
    <2>1. Leave(c) /\ spend' = spend
        BY <1>6 DEF Fails
    <2>2. L!Drop(j.by)
        BY <1>1, <1>4, <1>5, <2>1 DEF L!Drop
    <2> QED BY <1>2, <2>2 DEF L!Next
<1>7. CASE Completes(c)
    <2>1. Leave(c) /\ L!RecordSpend(j.by)
        BY <1>7 DEF Completes
    <2>2. L!Charge(j.by)
        BY <1>1, <1>4, <1>5, <2>1 DEF L!Charge
    <2> QED BY <1>2, <2>2 DEF L!Next
<1>8. CASE StreamStarts(c)
    <2>1. CASE /\ L!RecordSpend(j.by)
               /\ slot' = [slot EXCEPT ![c].stage = "streaming"]
        <3>1. ~Calling(c)' /\ slot' = [slot EXCEPT ![c] = slot'[c]]
            BY <2>1 DEF TypeOK, Calling
        <3>2. L!Charge(j.by)
            BY <1>1, <1>4, <2>1, <3>1 DEF L!Charge
        <3> QED BY <1>2, <3>2 DEF L!Next
    <2>2. CASE Leave(c) /\ spend' = spend
        <3>1. L!Drop(j.by)
            BY <1>1, <1>4, <1>5, <2>2 DEF L!Drop
        <3> QED BY <1>2, <3>1 DEF L!Next
    <2> QED BY <1>8, <2>1, <2>2 DEF StreamStarts
<1> QED BY <1>3, <1>6, <1>7, <1>8 DEF CallEnds

\* Steps that leave the limits alone.
LEMMA OthersRefine ==
    ASSUME TypeOK, UNCHANGED <<limits, log>>,
           UNCHANGED slot \/ \E c \in Slots : StreamEnds(c)
    PROVE  UNCHANGED L!vars
<1>1. LogGrows
    BY DEF LogGrows
<1>2. CASE UNCHANGED slot
    <2>1. Open' = Open
        BY <1>1, <1>2, OpenKept DEF Calling
    <2> QED BY <2>1 DEF L!vars, limits, Open
<1>3. ASSUME NEW c \in Slots, StreamEnds(c) PROVE UNCHANGED L!vars
    <2>1. slot[c].stage = "streaming" /\ slot' = [slot EXCEPT ![c] = Idle]
        BY <1>3 DEF StreamEnds, Leave
    <2>2. Open' = Open
        BY <1>1, <2>1, OpenKept DEF Calling, Idle, TypeOK
    <2> QED BY <2>2 DEF L!vars, limits, Open
<1> QED BY <1>2, <1>3

LEMMA StepRefines ==
    ASSUME TypeOK, [Next]_vars
    PROVE  [L!Next]_(L!vars)
<1>1. ASSUME NEW c \in Slots, NEW p \in Principals, NEW r \in Requests,
             \/ Limited(c, p, r) \/ Blocked(c, p, r)
             \/ MaskingFails(c, p, r) \/ Forwarded(c, p, r)
      PROVE  L!Next
    BY <1>1, ArrivalRefines
<1>2. ASSUME NEW c \in Slots, CallEnds(c)
      PROVE  [L!Next]_(L!vars)
    BY <1>2, CallEndRefines
<1>3. ASSUME NEW c \in Slots, StreamEnds(c)
      PROVE  UNCHANGED L!vars
    BY <1>3, OthersRefine DEF StreamEnds
<1>4. ASSUME NEW v \in Versions, CreatePolicy(v) \/ ActivatePolicy(v)
      PROVE  UNCHANGED L!vars
    BY <1>4, OthersRefine DEF CreatePolicy, ActivatePolicy, AdminStep
<1>5. ASSUME NEW t \in Teams, NEW enabled \in BOOLEAN, SetShadow(t, enabled)
      PROVE  UNCHANGED L!vars
    BY <1>5, OthersRefine DEF SetShadow, AdminStep
<1>6. CASE Tick
    <2>1. Open' = Open
        BY <1>6, OpenKept DEF Tick, LogGrows, Calling
    <2>2. L!Tick
        BY <1>6, <2>1 DEF Tick, L!Tick, Open
    <2> QED BY <2>2 DEF L!Next
<1>7. CASE Restart
    <2>1. ASSUME NEW t \in Teams PROVE Cardinality(OpenOf(t))' = 0
        <3>1. OpenOf(t)' = {}
            BY <1>7 DEF Restart, OpenOf, Calling, Idle
        <3> QED BY <3>1, FS_EmptySet
    <2>2. L!Restart
        BY <1>7, <2>1 DEF Restart, L!Restart
    <2> QED BY <2>2 DEF L!Next
<1>8. CASE UNCHANGED vars
    BY <1>8, OthersRefine DEF vars
<1> QED BY <1>1, <1>2, <1>3, <1>4, <1>5, <1>6, <1>7, <1>8 DEF Next

LEMMA InitRefines == Init => L!Init
<1> SUFFICES ASSUME Init PROVE L!Init
    OBVIOUS
<1>1. ASSUME NEW t \in Teams PROVE Cardinality(OpenOf(t)) = 0
    <2>1. OpenOf(t) = {}
        BY DEF Init, OpenOf, Calling, Idle
    <2> QED BY <2>1, FS_EmptySet
<1> QED BY <1>1 DEF Init, L!Init

\* The invariant of module Limits is kept.
LEMMA StepKeepsLimits ==
    ASSUME TypeOK, L!LimitsInv, [Next]_vars
    PROVE  L!LimitsInv'
<1>1. LP!LimitsInv /\ [LP!Next]_(LP!vars)
    BY StepRefines, SameLimits
<1>2. LP!LimitsInv'
    BY <1>1, LimitsHypotheses, LP!NextInv DEF L!LimitsAssumption
<1> QED BY <1>2, SameLimits

-----------------------------------------------------------------------------
(* The parts of the invariant, and what keeps each of them. *)

SentType == [id: DOMAIN log, try: 1..2, provider: Providers, raw: BOOLEAN]

RowType ==
    [id: DOMAIN log, version: Versions, shadow: BOOLEAN,
     action: Decisions, status: {200, 403}, fallback: BOOLEAN]

HeaderType == [version: Versions, action: Decisions, fallback: BOOLEAN]

ReplyType ==
    [id: DOMAIN log, status: {200, 403, 500}, headers: SUBSET HeaderType]

PolicyTyped ==
    /\ stored \subseteq Versions
    /\ active \in stored
    /\ shadow \in [Teams -> BOOLEAN]
    /\ disk \in [stored: SUBSET Versions, active: Versions,
                shadow: [Teams -> BOOLEAN]]
    /\ disk.active \in disk.stored
    /\ boot \in Nat
    /\ faults \in Nat

LogTyped == log \in Seq(Decision)

SlotsTyped ==
    /\ slot \in [Slots -> [stage: {"idle", "calling", "streaming"},
                           id: DOMAIN log \cup {0}, try: 0..2]]
    /\ \A c \in Slots : slot[c].stage = "idle" <=> slot[c].id = 0

HistoryInv ==
    /\ sent \subseteq SentType
    /\ Rows \subseteq RowType
    /\ replies \subseteq ReplyType
    /\ RowsAgree
    /\ AnswersHaveRows
    /\ NothingPending
    /\ DecisionStands
    /\ FallbackIsTold

SlotsInv ==
    /\ SlotsTyped
    /\ SlotsStand
    /\ TriesAreSent
    /\ OpenIsUnanswered

LEMMA InvParts ==
    /\ GatewayInv => /\ L!LimitsInv /\ PolicyTyped /\ LogTyped
                     /\ HistoryInv /\ SlotsInv /\ BooksBalance
    /\ L!LimitsInv' /\ PolicyTyped' /\ LogTyped' /\ HistoryInv' /\ SlotsInv'
       /\ BooksBalance' => GatewayInv'
<1>1. TypeOK <=> /\ L!TypeOK /\ PolicyTyped /\ LogTyped /\ SlotsTyped
                 /\ sent \subseteq SentType /\ Rows \subseteq RowType
                 /\ replies \subseteq ReplyType
    BY DEF TypeOK, PolicyTyped, LogTyped, SlotsTyped, SentType, RowType,
           ReplyType, HeaderType, Rows, Ids, Decision
<1>2. GatewayInv <=> /\ L!LimitsInv /\ PolicyTyped /\ LogTyped
                     /\ HistoryInv /\ SlotsInv /\ BooksBalance
    BY <1>1 DEF GatewayInv, L!LimitsInv, HistoryInv, SlotsInv
<1> QED BY <1>2, PTL

\* A decision in words that later versions of the log keep.
Matches(x, j) == x.version = j.version /\ x.action = Action(j)

\* A row that is the first of its request and tells the decision of the log.
NewRow(row) ==
    /\ row \in RowType'
    /\ \A x \in Rows : x.id # row.id
    /\ Matches(row, log'[row.id])
    /\ row.status = 403 <=> Action(log'[row.id]) = "blocked"
    /\ row.fallback <=> \E s \in sent' : s.id = row.id /\ s.try > 1

\* A call that the decision allows, for a request without a row.
NewSent(s) ==
    /\ s \in SentType'
    /\ Action(log'[s.id]) # "blocked"
    /\ s.raw <=> Action(log'[s.id]) \in {"shadow", "allowed"}
    /\ \A x \in Rows : x.id # s.id

\* An answer that has its row.
NewReply(a) ==
    /\ a \in ReplyType'
    /\ a.status # 500 =>
          /\ \E row \in audit' : Tells(row, a)
          /\ a.headers = {} <=> a.status = 403

\* Rows, answers and calls are added.
LEMMA HistoryStep ==
    ASSUME HistoryInv, LogGrows,
           NEW R, NEW S, NEW A,
           Rows' \subseteq Rows \cup R, audit \subseteq audit',
           sent' = sent \cup S, replies' = replies \cup A,
           NothingPending',
           \A row \in R : NewRow(row) /\ \A x \in R : x = row,
           \A s \in S : NewSent(s),
           \A a \in A : NewReply(a)
    PROVE  HistoryInv'
<1> USE DEF NewRow, NewSent, NewReply
<1>1. sent' \subseteq SentType'
    BY DEF HistoryInv, SentType, LogGrows
<1>2. Rows' \subseteq RowType'
    <2>1. RowType \subseteq RowType'
        BY DEF RowType, LogGrows
    <2> QED BY <2>1 DEF HistoryInv
<1>3. replies' \subseteq ReplyType'
    <2>1. ReplyType \subseteq ReplyType'
        BY DEF ReplyType, LogGrows
    <2> QED BY <2>1 DEF HistoryInv
<1>4. RowsAgree'
    <2>1. ASSUME NEW x \in Rows', NEW y \in Rows', x.id = y.id
          PROVE  x = y
        BY <2>1 DEF HistoryInv, RowsAgree
    <2> QED BY <2>1 DEF RowsAgree
<1>5. AnswersHaveRows'
    BY DEF HistoryInv, AnswersHaveRows, Tells
<1>6. \A x \in Rows : x.id \in DOMAIN log /\ log'[x.id] = log[x.id]
    BY DEF HistoryInv, RowType, LogGrows
<1>7. \A s \in sent : s.id \in DOMAIN log /\ log'[s.id] = log[s.id]
    BY DEF HistoryInv, SentType, LogGrows
<1>8. DecisionStands'
    <2>1. \A s \in sent' :
             /\ Action(log'[s.id]) # "blocked"
             /\ s.raw <=> Action(log'[s.id]) \in {"shadow", "allowed"}
        BY <1>7 DEF HistoryInv, DecisionStands
    <2>2. \A row \in Rows' :
             /\ Matches(row, log'[row.id])
             /\ row.status = 403 <=> Action(log'[row.id]) = "blocked"
        BY <1>6 DEF HistoryInv, DecisionStands, Matches, Rows
    <2> QED BY <2>1, <2>2 DEF DecisionStands, Matches, Rows, Action
<1>9. FallbackIsTold'
    <2>1. ASSUME NEW row \in Rows'
          PROVE  row.fallback <=> \E s \in sent' : s.id = row.id /\ s.try > 1
        BY DEF HistoryInv, FallbackIsTold, Rows
    <2> QED BY <2>1 DEF FallbackIsTold, Rows
<1> QED BY <1>1, <1>2, <1>3, <1>4, <1>5, <1>8, <1>9 DEF HistoryInv

\* What a step of slot c for request i does to the calls, rows and answers.
StepOf(c, i) ==
    /\ slot' = [slot EXCEPT ![c] = slot'[c]]
    /\ \A d \in Slots \ {c} : slot[d] # Idle => slot[d].id # i
    /\ sent \subseteq sent'
    /\ \A s \in sent' \ sent : s.id = i
    /\ \A x \in (replies \cup Rows)' : x \in replies \cup Rows \/ x.id = i

\* The slot after it, if it still works for the request.
WorksFor(c, i) ==
    /\ slot'[c] \in [stage: {"calling", "streaming"}, id: {i} \ {0}, try: 1..2]
    /\ i \in DOMAIN log'
    /\ slot'[c].stage = "calling" =>
          /\ \A x \in (replies \cup Rows)' : x.id # i
          /\ log'[i].boot = boot
          /\ Action(log'[i]) # "blocked"
          /\ slot'[c].try > 1 <=> \E s \in sent' : s.id = i /\ s.try > 1

\* One slot takes a step for a request, of which no other slot knows.
LEMMA SlotsStep ==
    ASSUME SlotsInv, LogGrows, boot' = boot, NEW c \in Slots, NEW i,
           StepOf(c, i), slot'[c] = Idle \/ WorksFor(c, i)
    PROVE  SlotsInv'
<1> USE DEF StepOf, WorksFor
<1>1. \A d \in Slots \ {c} : slot'[d] = slot[d]
    BY DEF SlotsInv, SlotsTyped
<1>2. \A d \in Slots : slot[d].stage # "idle" =>
         slot[d].id \in DOMAIN log /\ log'[slot[d].id] = log[slot[d].id]
    BY DEF SlotsInv, SlotsTyped, LogGrows
<1>3. SlotsTyped'
    <2>1. slot' \in [Slots -> [stage: {"idle", "calling", "streaming"},
                               id: DOMAIN log' \cup {0}, try: 0..2]]
        <3>1. \A d \in Slots \ {c} :
                 slot'[d] \in [stage: {"idle", "calling", "streaming"},
                               id: DOMAIN log' \cup {0}, try: 0..2]
            BY <1>1 DEF SlotsInv, SlotsTyped, LogGrows
        <3>2. slot'[c] \in [stage: {"idle", "calling", "streaming"},
                            id: DOMAIN log' \cup {0}, try: 0..2]
            BY DEF Idle
        <3>3. DOMAIN slot' = Slots /\ slot' = [d \in Slots |-> slot'[d]]
            BY DEF SlotsInv, SlotsTyped
        <3> QED BY <3>1, <3>2, <3>3
    <2>2. \A d \in Slots : slot'[d].stage = "idle" <=> slot'[d].id = 0
        BY <1>1 DEF SlotsInv, SlotsTyped, Idle
    <2> QED BY <2>1, <2>2 DEF SlotsTyped
<1>4. SlotsStand'
    <2>1. ASSUME NEW d \in Slots
          PROVE  /\ slot'[d].stage = "idle" => slot'[d] = Idle
                 /\ slot'[d].stage = "calling" =>
                       /\ slot'[d].try \in 1..2
                       /\ log'[slot'[d].id].boot = boot
                       /\ Action(log'[slot'[d].id]) # "blocked"
        <3>1. CASE d = c
            BY <3>1 DEF Idle
        <3>2. CASE d # c
            BY <3>2, <1>1, <1>2 DEF SlotsInv, SlotsStand, Calling
        <3> QED BY <3>1, <3>2
    <2> QED BY <2>1 DEF SlotsStand, Calling, Action
<1>5. TriesAreSent'
    <2>1. ASSUME NEW d \in Slots, slot'[d].stage = "calling"
          PROVE  slot'[d].try > 1 <=>
                    \E s \in sent' : s.id = slot'[d].id /\ s.try > 1
        <3>1. CASE d = c
            BY <2>1, <3>1 DEF Idle
        <3>2. CASE d # c
            <4>1. slot'[d] = slot[d] /\ slot[d].id # i
                BY <2>1, <3>2, <1>1 DEF Idle
            <4> QED BY <2>1, <4>1 DEF SlotsInv, TriesAreSent, Calling
        <3> QED BY <3>1, <3>2
    <2> QED BY <2>1 DEF TriesAreSent, Calling
<1>6. OpenIsUnanswered'
    <2>1. ASSUME NEW d \in Slots, slot'[d] # Idle, NEW e \in Slots \ {d}
          PROVE  slot'[e].id # slot'[d].id
        <3>1. CASE slot'[e] = Idle
            BY <2>1, <3>1, <1>3, <1>4 DEF SlotsTyped, SlotsStand, Idle
        <3>2. CASE slot'[e] # Idle
            <4>1. CASE d = c
                BY <2>1, <3>2, <4>1, <1>1
            <4>2. CASE e = c
                BY <2>1, <3>2, <4>2, <1>1
            <4>3. CASE d # c /\ e # c
                BY <2>1, <3>2, <4>3, <1>1 DEF SlotsInv, OpenIsUnanswered
            <4> QED BY <4>1, <4>2, <4>3
        <3> QED BY <3>1, <3>2
    <2>2. ASSUME NEW d \in Slots, slot'[d].stage = "calling",
                 NEW x \in (replies \cup Rows)'
          PROVE  x.id # slot'[d].id
        <3>1. CASE d = c
            BY <2>2, <3>1 DEF Idle
        <3>2. CASE d # c
            <4>1. slot'[d] = slot[d] /\ slot[d].id # i /\ slot[d] # Idle
                BY <2>2, <3>2, <1>1 DEF Idle
            <4> QED BY <2>2, <4>1 DEF SlotsInv, OpenIsUnanswered, Calling, Rows
        <3> QED BY <3>1, <3>2
    <2> QED BY <2>1, <2>2 DEF OpenIsUnanswered, Calling, Rows
<1> QED BY <1>3, <1>4, <1>5, <1>6 DEF SlotsInv

-----------------------------------------------------------------------------
(* The operators of the handlers. *)

LEMMA DetectFacts ==
    ASSUME PolicyTyped, NEW p \in Principals, NEW r \in Requests
    PROVE  Detect(p, r) \in Decision
<1>1. r \in [prompt: Prompts, model: Models, stream: BOOLEAN]
    OBVIOUS
<1>2. boot \in 0..boot /\ shadow[TeamOf[p]] \in BOOLEAN
    BY DEF PolicyTyped
<1> QED BY <1>1, <1>2 DEF Detect, Decision, PolicyTyped

LEMMA ActionFacts ==
    ASSUME PolicyTyped, NEW j \in Decision
    PROVE  Action(j) \in Decisions
<1>1. <<j.version, j.prompt>> \in Versions \X Prompts
    BY DEF Decision, PolicyTyped
<1> QED BY <1>1 DEF Action, Decisions

LEMMA ChainFacts ==
    ASSUME NEW m \in Models, NEW n \in 1..2
    PROVE  Len(Chain(m)) = 2 /\ Chain(m)[n] \in Providers
<1>1. n = 1 \/ n = 2
    OBVIOUS
<1> QED BY <1>1 DEF Chain, Models, Providers

\* What the handlers know of a call that is open.
LEMMA CallFacts ==
    ASSUME PolicyTyped, LogTyped, SlotsInv, NEW c \in Slots, Calling(c)
    PROVE  /\ slot[c].id \in DOMAIN log /\ slot[c].id # 0
           /\ log[slot[c].id] \in Decision
           /\ slot[c].try \in 1..2
           /\ Len(Chain(log[slot[c].id].model)) = 2
           /\ Action(log[slot[c].id]) \in Decisions
           /\ Action(log[slot[c].id]) # "blocked"
           /\ log[slot[c].id].boot = boot
           /\ \A x \in replies \cup Rows : x.id # slot[c].id
           /\ \A d \in Slots \ {c} : slot[d] # Idle => slot[d].id # slot[c].id
           /\ slot[c].try > 1 <=>
                 \E s \in sent : s.id = slot[c].id /\ s.try > 1
<1>1. slot[c].stage = "calling" /\ slot[c] # Idle
    BY DEF Calling, Idle
<1>2. slot[c].id \in DOMAIN log /\ slot[c].id # 0
    BY <1>1 DEF SlotsInv, SlotsTyped
<1>3. log[slot[c].id] \in Decision
    BY <1>2 DEF LogTyped
<1>4. /\ slot[c].try \in 1..2
      /\ log[slot[c].id].boot = boot
      /\ Action(log[slot[c].id]) # "blocked"
    BY DEF SlotsInv, SlotsStand
<1>5. Len(Chain(log[slot[c].id].model)) = 2
    BY <1>3, <1>4, ChainFacts DEF Decision
<1>6. Action(log[slot[c].id]) \in Decisions
    BY <1>3, ActionFacts
<1>7. /\ \A x \in replies \cup Rows : x.id # slot[c].id
      /\ \A d \in Slots \ {c} : slot[d] # Idle => slot[d].id # slot[c].id
    BY <1>1 DEF SlotsInv, OpenIsUnanswered, Rows
<1>8. slot[c].try > 1 <=> \E s \in sent : s.id = slot[c].id /\ s.try > 1
    BY DEF SlotsInv, TriesAreSent
<1> QED BY <1>2, <1>3, <1>4, <1>5, <1>6, <1>7, <1>8

\* A number that the log does not have yet is nobody's.
LEMMA FreshId ==
    ASSUME HistoryInv, SlotsInv, NEW i, i \notin DOMAIN log
    PROVE  /\ \A x \in replies \cup Rows : x.id # i
           /\ \A s \in sent : s.id # i
           /\ \A d \in Slots : slot[d] # Idle => slot[d].id # i
<1>1. \A d \in Slots : slot[d] # Idle => slot[d].id \in DOMAIN log
    BY DEF SlotsInv, SlotsTyped, SlotsStand
<1> QED BY <1>1 DEF HistoryInv, SentType, RowType, ReplyType

\* The request was sent to a second provider.
FellBack(id) == \E s \in sent : s.id = id /\ s.try > 1

\* The end of a handler: its row, then its answer.
RowWritten(id, j, status, fallback) ==
    \/ /\ Recorded(Row(id, j, status, fallback))
       /\ Answer(id, j, status, fallback)
    \/ /\ RecordFails(Row(id, j, status, fallback))
       /\ Answer(id, j, 500, FALSE)

\* A failed write is remembered.
LEMMA FaultFacts ==
    ASSUME faults \in Nat
    PROVE  /\ Fault => faults' \in Nat /\ faults' # 0
           /\ \A row : RecordFails(row) => Fault /\ UNCHANGED audit
           /\ \A row : Recorded(row) =>
                 faults' = faults /\ pending' = {} /\
                 audit' = audit \cup pending \cup {row}
BY DEF Fault, RecordFails, Recorded

\* Recorded or not, the answer agrees with the rows.
LEMMA RowStep ==
    ASSUME HistoryInv, PolicyTyped, LogGrows,
           NEW id \in DOMAIN log', NEW j \in Decision, j = log'[id],
           NEW status \in {200, 403}, NEW fallback,
           fallback \in BOOLEAN, fallback = FellBack(id),
           \A x \in Rows : x.id # id,
           status = 403 <=> Action(j) = "blocked",
           sent' = sent,
           RowWritten(id, j, status, fallback)
    PROVE  /\ HistoryInv' /\ faults' \in Nat
           /\ \A x \in (replies \cup Rows)' : x \in replies \cup Rows \/ x.id = id
<1> DEFINE row == Row(id, j, status, fallback)
           told == [version |-> j.version, action |-> Action(j),
                    fallback |-> fallback]
           good == [id |-> id, status |-> status,
                    headers |-> IF status = 200 THEN {told} ELSE {}]
           bad == [id |-> id, status |-> 500, headers |-> {}]
<1> USE DEF RowWritten
<1>1. /\ Action(j) \in Decisions
      /\ j.version \in Versions /\ j.shadow \in BOOLEAN
    BY ActionFacts DEF Decision
<1>2. row = [id |-> id, version |-> j.version, shadow |-> j.shadow,
             action |-> Action(j), status |-> status, fallback |-> fallback]
    BY DEF Row
<1>3. /\ row \in RowType'
      /\ Matches(row, log'[row.id])
      /\ row.id = id /\ row.status = status /\ row.fallback = fallback
    BY <1>1, <1>2 DEF RowType, Matches
<1>4. good \in ReplyType' /\ bad \in ReplyType'
    <2>1. told \in HeaderType
        BY <1>1 DEF HeaderType
    <2> QED BY <2>1 DEF ReplyType
<1>5. /\ Tells(row, good)
      /\ good.headers = {} <=> good.status = 403
      /\ bad.status = 500
      /\ good.id = id /\ bad.id = id
    <2>1. /\ good.id = id /\ bad.id = id /\ bad.status = 500
          /\ good.status = status
          /\ status = 200 => good.headers = {told}
          /\ status = 403 => good.headers = {}
        OBVIOUS
    <2>2. /\ row.version = told.version
          /\ row.action = told.action
          /\ row.fallback = told.fallback
        BY <1>2
    <2> HIDE DEF good, bad, told, row
    <2>3. CASE status = 200
        <3>1. \A h \in good.headers : h = told
            BY <2>1, <2>3
        <3>2. \A h \in good.headers : /\ row.version = h.version
                                     /\ row.action = h.action
                                     /\ row.fallback = h.fallback
            BY <2>2, <3>1, Zenon
        <3>3. good.headers # {} /\ good.status # 403
            <4>1. told \in good.headers
                BY <2>1, <2>3
            <4>2. good.status = 200
                BY <2>1, <2>3
            <4> QED BY ONLY <4>1, <4>2
        <3>4. row.id = good.id /\ row.status = good.status
            BY <1>3, <2>1
        <3>5. Tells(row, good)
            BY <3>2, <3>4, Zenon DEF Tells
        <3> QED BY <2>1, <3>3, <3>5, Zenon
    <2>4. CASE status = 403
        BY <1>3, <2>1, <2>4 DEF Tells
    <2> QED BY <2>1, <2>3, <2>4
<1>6. Rows' \subseteq Rows \cup {row} /\ audit \subseteq audit'
    BY DEF Recorded, RecordFails, Rows
<1>7. NothingPending' /\ faults' \in Nat
    <2>1. faults \in Nat
        BY DEF PolicyTyped
    <2>2. \/ faults' = faults /\ pending' = {}
          \/ faults' \in Nat /\ faults' # 0
        <3>1. Recorded(row) \/ RecordFails(row)
            BY DEF RowWritten
        <3> HIDE DEF row
        <3> QED BY <2>1, <3>1, FaultFacts
    <2> QED BY <2>1, <2>2 DEF NothingPending
<1>8. \/ replies' = replies \cup {good} /\ row \in audit'
      \/ replies' = replies \cup {bad}
    BY DEF Answer, Recorded
<1> HIDE DEF row, told, good, bad
<1> DEFINE a == IF row \in audit' /\ replies' = replies \cup {good}
                THEN good ELSE bad
<1>9. replies' = replies \cup {a} /\ ((a = good /\ row \in audit') \/ a = bad)
    BY <1>8
<1> HIDE DEF a
<1>10. HistoryInv'
    <2>1. NewReply(a)
        <3>1. CASE a = good /\ row \in audit'
            <4>1. a \in ReplyType'
                BY <1>4, <3>1
            <4>2. Tells(row, a) /\ (a.headers = {} <=> a.status = 403)
                BY <1>5, <3>1
            <4> QED BY <3>1, <4>1, <4>2 DEF NewReply
        <3>2. CASE a = bad
            BY <1>4, <1>5, <3>2 DEF NewReply
        <3> QED BY <1>9, <3>1, <3>2
    <2>2. NewRow(row)
        BY <1>3 DEF NewRow, FellBack
    <2> DEFINE R == {row}
               S == {}
               A == {a}
    <2>3. Rows' \subseteq Rows \cup R /\ replies' = replies \cup A
        BY <1>6, <1>9
    <2>4. /\ \A x \in R : NewRow(x) /\ \A y \in R : y = x
          /\ \A x \in A : NewReply(x)
          /\ \A x \in S : NewSent(x)
          /\ sent' = sent \cup S
        BY <2>1, <2>2
    <2>5. audit \subseteq audit'
        BY <1>6
    <2> HIDE DEF R, S, A
    <2> QED BY ONLY HistoryInv, LogGrows, <1>7, <2>3, <2>4, <2>5, HistoryStep
<1>11. \A x \in (replies \cup Rows)' : x \in replies \cup Rows \/ x.id = id
    <2>1. \A x \in replies' : x \in replies \/ x.id = id
        BY <1>5, <1>9
    <2>2. \A x \in Rows' : x \in Rows \/ x.id = id
        BY <1>3, <1>6
    <2> QED BY <2>1, <2>2
<1> QED BY <1>7, <1>10, <1>11

\* Nothing new, or answers that need no row.
LEMMA HistoryKept ==
    ASSUME HistoryInv, LogGrows,
           Rows' \subseteq Rows, audit \subseteq audit', sent' = sent,
           NEW A, replies' = replies \cup A, \A a \in A : NewReply(a),
           NothingPending'
    PROVE  HistoryInv'
<1> DEFINE R == {}
<1>1. /\ Rows' \subseteq Rows \cup R /\ sent' = sent \cup R
      /\ \A row \in R : NewRow(row) /\ \A x \in R : x = row
      /\ \A s \in R : NewSent(s)
    OBVIOUS
<1> HIDE DEF R
<1> QED BY <1>1, HistoryStep

\* The log, the slots, the answers and the calls stay as they are.
LEMMA StillKeeps ==
    ASSUME HistoryInv, SlotsInv,
           Rows' \subseteq Rows, audit \subseteq audit', NothingPending',
           UNCHANGED <<slot, log, sent, replies, boot>>
    PROVE  HistoryInv' /\ SlotsInv'
<1>1. HistoryInv'
    <2> DEFINE A == {}
    <2>1. LogGrows /\ replies' = replies \cup A /\ \A a \in A : NewReply(a)
        BY DEF LogGrows
    <2> HIDE DEF A
    <2> QED BY <2>1, HistoryKept
<1>2. SlotsInv'
    <2>1. SlotsTyped' /\ SlotsStand'
        BY DEF SlotsInv, SlotsTyped, SlotsStand, Calling, Action
    <2>2. TriesAreSent'
        BY DEF SlotsInv, TriesAreSent, Calling
    <2>3. OpenIsUnanswered'
        BY DEF SlotsInv, OpenIsUnanswered, Calling, Rows
    <2> QED BY <2>1, <2>2, <2>3 DEF SlotsInv
<1> QED BY <1>1, <1>2

-----------------------------------------------------------------------------
(* The actions keep the log, the history and the slots. *)

GoodState == PolicyTyped /\ LogTyped /\ HistoryInv /\ SlotsInv

LEMMA LogAppended ==
    ASSUME LogTyped, PolicyTyped, NEW j \in Decision, log' = Append(log, j)
    PROVE  /\ LogGrows
           /\ Len(log) + 1 \in DOMAIN log'
           /\ Len(log) + 1 \notin DOMAIN log
           /\ Len(log) + 1 # 0
           /\ log'[Len(log) + 1] = j
           /\ log' \in Seq(Decision)
<1>1. Len(log) \in Nat /\ DOMAIN log = 1..Len(log)
    BY DEF LogTyped
<1>2. /\ Len(log') = Len(log) + 1
      /\ DOMAIN log' = 1..(Len(log) + 1)
      /\ \A i \in 1..Len(log) : log'[i] = log[i]
      /\ log'[Len(log) + 1] = j
      /\ log' \in Seq(Decision)
    BY DEF LogTyped
<1> QED BY <1>1, <1>2 DEF LogGrows

LEMMA BlockedKeeps ==
    ASSUME GoodState, NEW c \in Slots, NEW p \in Principals, NEW r \in Requests,
           Blocked(c, p, r)
    PROVE  GoodState'
<1> DEFINE j == Detect(p, r)
           id == Len(log) + 1
<1>1. /\ UNCHANGED <<policy, boot, slot, sent>>
      /\ slot[c] = Idle
      /\ Action(j) = "blocked"
      /\ log' = Append(log, j)
      /\ \/ /\ Recorded(Row(id, j, 403, FALSE))
            /\ Answer(id, j, 403, FALSE)
         \/ /\ RecordFails(Row(id, j, 403, FALSE))
            /\ Answer(id, j, 500, FALSE)
    BY DEF Blocked, Arrival
<1>2. j \in Decision
    BY DetectFacts DEF GoodState
<1>3. /\ LogGrows /\ id \in DOMAIN log' /\ id \notin DOMAIN log
      /\ log'[id] = j /\ log' \in Seq(Decision)
    BY <1>1, <1>2, LogAppended DEF GoodState
<1>4. /\ \A x \in replies \cup Rows : x.id # id
      /\ \A s \in sent : s.id # id
      /\ \A d \in Slots : slot[d] # Idle => slot[d].id # id
    BY <1>3, FreshId DEF GoodState
<1> HIDE DEF j, id
<1>5. /\ HistoryInv' /\ faults' \in Nat
      /\ \A x \in (replies \cup Rows)' : x \in replies \cup Rows \/ x.id = id
    <2> DEFINE status == 403
               fallback == FALSE
    <2>1. /\ status \in {200, 403} /\ fallback \in BOOLEAN
          /\ status = 403 <=> Action(j) = "blocked"
          /\ fallback = FellBack(id)
          /\ sent' = sent
          /\ \A x \in Rows : x.id # id
          /\ j = log'[id]
        BY <1>1, <1>3, <1>4 DEF FellBack
    <2>2. RowWritten(id, j, status, fallback)
        BY <1>1 DEF RowWritten
    <2>3. HistoryInv /\ PolicyTyped
        BY DEF GoodState
    <2> HIDE DEF status, fallback
    <2> QED BY ONLY <1>2, <1>3, <2>1, <2>2, <2>3, RowStep
<1>6. SlotsInv'
    <2>1. slot' = [slot EXCEPT ![c] = slot'[c]] /\ slot'[c] = Idle
        BY <1>1 DEF GoodState, SlotsInv, SlotsTyped
    <2>2. StepOf(c, id)
        BY <1>1, <1>4, <1>5, <2>1 DEF StepOf
    <2> QED BY <1>1, <1>3, <2>1, <2>2, SlotsStep DEF GoodState
<1>7. PolicyTyped' /\ LogTyped'
    BY <1>1, <1>3, <1>5 DEF GoodState, PolicyTyped, LogTyped, Decision, policy
<1> QED BY <1>5, <1>6, <1>7 DEF GoodState

\* Masking raises: an answer without a row.
LEMMA MaskingFailsKeeps ==
    ASSUME GoodState, NEW c \in Slots, NEW p \in Principals, NEW r \in Requests,
           MaskingFails(c, p, r)
    PROVE  GoodState'
<1> DEFINE j == Detect(p, r)
           id == Len(log) + 1
           answer == [id |-> id, status |-> 500, headers |-> {}]
<1>1. /\ UNCHANGED <<policy, boot, slot, sent, pending, audit, faults>>
      /\ slot[c] = Idle
      /\ log' = Append(log, j)
      /\ replies' = replies \cup {answer}
    BY DEF MaskingFails, Arrival, rows, Answer
<1>2. j \in Decision
    BY DetectFacts DEF GoodState
<1>3. /\ LogGrows /\ id \in DOMAIN log' /\ id \notin DOMAIN log
      /\ log' \in Seq(Decision)
    BY <1>1, <1>2, LogAppended DEF GoodState
<1>4. \A d \in Slots : slot[d] # Idle => slot[d].id # id
    BY <1>3, FreshId DEF GoodState
<1> HIDE DEF j, id
<1>5. answer.id = id /\ NewReply(answer)
    <2>1. answer \in ReplyType'
        BY <1>3 DEF ReplyType
    <2> QED BY <2>1 DEF NewReply
<1> HIDE DEF answer
<1>6. HistoryInv'
    <2> DEFINE A == {answer}
    <2>1. /\ Rows' \subseteq Rows /\ audit \subseteq audit' /\ sent' = sent
          /\ replies' = replies \cup A /\ \A a \in A : NewReply(a)
          /\ NothingPending'
        BY <1>1, <1>5 DEF Rows, GoodState, HistoryInv, NothingPending
    <2>2. HistoryInv
        BY DEF GoodState
    <2> HIDE DEF A
    <2> QED BY ONLY <1>3, <2>1, <2>2, HistoryKept
<1>7. SlotsInv'
    <2>1. slot' = [slot EXCEPT ![c] = slot'[c]] /\ slot'[c] = Idle
        BY <1>1 DEF GoodState, SlotsInv, SlotsTyped
    <2>2. \A x \in (replies \cup Rows)' : x \in replies \cup Rows \/ x.id = id
        BY <1>1, <1>5 DEF Rows
    <2>3. StepOf(c, id)
        BY <1>1, <1>4, <2>1, <2>2 DEF StepOf
    <2> QED BY <1>1, <1>3, <2>1, <2>3, SlotsStep DEF GoodState
<1>8. PolicyTyped' /\ LogTyped'
    BY <1>1, <1>3 DEF GoodState, PolicyTyped, LogTyped, Decision, policy
<1> QED BY <1>6, <1>7, <1>8 DEF GoodState

LEMMA ForwardedKeeps ==
    ASSUME GoodState, NEW c \in Slots, NEW p \in Principals, NEW r \in Requests,
           Forwarded(c, p, r)
    PROVE  GoodState'
<1> DEFINE j == Detect(p, r)
           id == Len(log) + 1
           call == [id |-> id, try |-> 1, provider |-> Chain(j.model)[1],
                    raw |-> Action(j) \in {"shadow", "allowed"}]
<1>1. /\ UNCHANGED <<policy, boot, pending, audit, faults, replies>>
      /\ slot[c] = Idle
      /\ Action(j) # "blocked"
      /\ log' = Append(log, j)
      /\ sent' = sent \cup {call}
      /\ slot' = [slot EXCEPT ![c] =
                    [stage |-> "calling", id |-> id, try |-> 1]]
    BY DEF Forwarded, Arrival, rows, Send
<1>2. j \in Decision /\ j.boot = boot
    BY DetectFacts DEF GoodState, Detect
<1>3. /\ LogGrows /\ id \in DOMAIN log' /\ id \notin DOMAIN log /\ id # 0
      /\ log'[id] = j /\ log' \in Seq(Decision)
    BY <1>1, <1>2, LogAppended DEF GoodState
<1>4. /\ \A x \in replies \cup Rows : x.id # id
      /\ \A s \in sent : s.id # id
      /\ \A d \in Slots : slot[d] # Idle => slot[d].id # id
    BY <1>3, FreshId DEF GoodState
<1>5. Chain(j.model)[1] \in Providers
    BY <1>2, ChainFacts DEF Decision
<1> HIDE DEF j, id
<1>6. call.id = id /\ call.try = 1 /\ NewSent(call)
    <2>1. /\ call.id = id /\ call.try = 1
          /\ call.raw <=> Action(j) \in {"shadow", "allowed"}
        OBVIOUS
    <2>2. call \in SentType'
        BY <1>3, <1>5 DEF SentType
    <2> QED BY <1>1, <1>3, <1>4, <2>1, <2>2 DEF NewSent
<1> HIDE DEF call
<1>7. HistoryInv'
    <2> DEFINE R == {}
               S == {call}
    <2>1. /\ Rows' \subseteq Rows \cup R /\ audit \subseteq audit'
          /\ replies' = replies \cup R
          /\ \A row \in R : NewRow(row) /\ \A x \in R : x = row
          /\ \A a \in R : NewReply(a)
          /\ \A s \in S : NewSent(s)
          /\ sent' = sent \cup S
          /\ NothingPending'
        BY <1>1, <1>6 DEF Rows, GoodState, HistoryInv, NothingPending
    <2>2. HistoryInv
        BY DEF GoodState
    <2> HIDE DEF R, S
    <2> QED BY ONLY <1>3, <2>1, <2>2, HistoryStep
<1>8. SlotsInv'
    <2>1. slot'[c] = [stage |-> "calling", id |-> id, try |-> 1]
        BY <1>1 DEF GoodState, SlotsInv, SlotsTyped
    <2>2. slot' = [slot EXCEPT ![c] = slot'[c]]
        BY <1>1, <2>1
    <2>3. /\ sent \subseteq sent' /\ \A s \in sent' \ sent : s.id = id
          /\ \A x \in (replies \cup Rows)' : x \in replies \cup Rows
          /\ ~ \E s \in sent' : s.id = id /\ s.try > 1
        BY <1>1, <1>4, <1>6 DEF Rows
    <2>4. /\ slot'[c] \in [stage: {"calling", "streaming"},
                           id: {id} \ {0}, try: 1..2]
          /\ \A x \in (replies \cup Rows)' : x.id # id
          /\ slot'[c].try > 1 <=> \E s \in sent' : s.id = id /\ s.try > 1
        BY <1>3, <1>4, <2>1, <2>3
    <2>5. log'[id].boot = boot /\ Action(log'[id]) # "blocked"
        BY <1>1, <1>2, <1>3
    <2>6. StepOf(c, id)
        BY <1>4, <2>2, <2>3 DEF StepOf
    <2>7. WorksFor(c, id)
        BY <1>3, <2>4, <2>5 DEF WorksFor
    <2> QED BY <1>1, <1>3, <2>6, <2>7, SlotsStep DEF GoodState
<1>9. PolicyTyped' /\ LogTyped'
    BY <1>1, <1>3 DEF GoodState, PolicyTyped, LogTyped, Decision, policy
<1> QED BY <1>7, <1>8, <1>9 DEF GoodState

LEMMA FallBackKeeps ==
    ASSUME GoodState, NEW c \in Slots, FallBack(c)
    PROVE  GoodState'
<1> DEFINE id == slot[c].id
           j == log[id]
           n == slot[c].try + 1
           call == [id |-> id, try |-> n, provider |-> Chain(j.model)[n],
                    raw |-> Action(j) \in {"shadow", "allowed"}]
<1>1. /\ UNCHANGED <<policy, boot, log, pending, audit, faults, replies>>
      /\ Calling(c)
      /\ slot[c].try # Len(Chain(j.model))
      /\ sent' = sent \cup {call}
      /\ slot' = [slot EXCEPT ![c].try = @ + 1]
    BY DEF FallBack, Ends, LastTry, rows, Send
<1>2. /\ id \in DOMAIN log /\ id # 0
      /\ j \in Decision
      /\ slot[c].try \in 1..2
      /\ Len(Chain(j.model)) = 2
      /\ Action(j) # "blocked"
      /\ j.boot = boot
      /\ \A x \in replies \cup Rows : x.id # id
      /\ \A d \in Slots \ {c} : slot[d] # Idle => slot[d].id # id
    BY <1>1, CallFacts DEF GoodState
<1>3. slot[c].try = 1 /\ n = 2
    BY <1>1, <1>2
<1>4. LogGrows /\ log' = log
    BY <1>1 DEF LogGrows
<1>5. Chain(j.model)[n] \in Providers
    BY <1>2, <1>3, ChainFacts DEF Decision
<1>6. slot'[c] = [stage |-> "calling", id |-> id, try |-> 2]
    <2>1. slot[c] \in [stage: {"idle", "calling", "streaming"},
                       id: DOMAIN log \cup {0}, try: 0..2]
        BY DEF GoodState, SlotsInv, SlotsTyped
    <2>2. slot'[c] = [slot[c] EXCEPT !.try = n]
        BY <1>1 DEF GoodState, SlotsInv, SlotsTyped
    <2> QED BY <1>1, <1>3, <2>1, <2>2 DEF Calling
<1>7. slot' = [slot EXCEPT ![c] = slot'[c]]
    BY <1>1, <1>6 DEF GoodState, SlotsInv, SlotsTyped
<1> HIDE DEF j, id, n
<1>8. call.id = id /\ call.try = 2 /\ NewSent(call)
    <2>1. /\ call.id = id /\ call.try = 2
          /\ call.raw <=> Action(j) \in {"shadow", "allowed"}
        BY <1>3
    <2>2. call \in SentType'
        BY <1>2, <1>3, <1>4, <1>5 DEF SentType
    <2>3. j = log'[id]
        BY <1>4 DEF j
    <2> QED BY <1>2, <2>1, <2>2, <2>3 DEF NewSent
<1> HIDE DEF call
<1>9. HistoryInv'
    <2> DEFINE R == {}
               S == {call}
    <2>1. /\ Rows' \subseteq Rows \cup R /\ audit \subseteq audit'
          /\ replies' = replies \cup R
          /\ \A row \in R : NewRow(row) /\ \A x \in R : x = row
          /\ \A a \in R : NewReply(a)
          /\ \A s \in S : NewSent(s)
          /\ sent' = sent \cup S
          /\ NothingPending'
        BY <1>1, <1>8 DEF Rows, GoodState, HistoryInv, NothingPending
    <2>2. HistoryInv
        BY DEF GoodState
    <2> HIDE DEF R, S
    <2> QED BY ONLY <1>4, <2>1, <2>2, HistoryStep
<1>10. SlotsInv'
    <2>1. /\ sent \subseteq sent' /\ \A s \in sent' \ sent : s.id = id
          /\ \A x \in (replies \cup Rows)' : x \in replies \cup Rows
          /\ \E s \in sent' : s.id = id /\ s.try > 1
        <3>1. call \in sent' /\ call.id = id /\ call.try > 1
            BY <1>1, <1>8
        <3> QED BY <1>1, <1>8, <3>1 DEF Rows
    <2>2. /\ slot'[c] \in [stage: {"calling", "streaming"},
                           id: {id} \ {0}, try: 1..2]
          /\ \A x \in (replies \cup Rows)' : x.id # id
          /\ slot'[c].try > 1 <=> \E s \in sent' : s.id = id /\ s.try > 1
        BY <1>2, <1>6, <2>1
    <2>3. log'[id].boot = boot /\ Action(log'[id]) # "blocked"
        BY <1>2, <1>4 DEF j
    <2>4. StepOf(c, id)
        BY <1>2, <1>7, <2>1 DEF StepOf
    <2>5. WorksFor(c, id)
        BY <1>2, <1>4, <2>2, <2>3 DEF WorksFor
    <2> QED BY <1>1, <1>4, <2>4, <2>5, SlotsStep DEF GoodState
<1>11. PolicyTyped' /\ LogTyped'
    BY <1>1 DEF GoodState, PolicyTyped, LogTyped, Decision, policy
<1> QED BY <1>9, <1>10, <1>11 DEF GoodState

LEMMA FailsKeeps ==
    ASSUME GoodState, NEW c \in Slots,
           Answer(slot[c].id, log[slot[c].id], 500, FALSE),
           Calling(c), Leave(c),
           UNCHANGED <<policy, boot, log, sent, rows>>
    PROVE  GoodState'
<1> DEFINE id == slot[c].id
           j == log[id]
           answer == [id |-> id, status |-> 500, headers |-> {}]
<1>1. replies' = replies \cup {answer} /\ slot' = [slot EXCEPT ![c] = Idle]
    BY DEF Answer, Leave
<1>2. /\ id \in DOMAIN log
      /\ j \in Decision
      /\ Action(j) \in Decisions
      /\ \A d \in Slots \ {c} : slot[d] # Idle => slot[d].id # id
    BY CallFacts DEF GoodState
<1>3. LogGrows
    BY DEF LogGrows
<1> HIDE DEF j, id
<1>4. answer.id = id /\ NewReply(answer)
    <2>1. answer \in ReplyType'
        BY <1>2 DEF ReplyType, Decision
    <2> QED BY <2>1 DEF NewReply
<1> HIDE DEF answer
<1>5. HistoryInv'
    <2> DEFINE A == {answer}
    <2>1. /\ Rows' \subseteq Rows /\ audit \subseteq audit'
          /\ sent' = sent
          /\ replies' = replies \cup A /\ \A a \in A : NewReply(a)
          /\ NothingPending'
        BY <1>1, <1>4 DEF rows, Rows, GoodState, HistoryInv, NothingPending
    <2>2. HistoryInv
        BY DEF GoodState
    <2> HIDE DEF A
    <2> QED BY ONLY <1>3, <2>1, <2>2, HistoryKept
<1>6. SlotsInv'
    <2>1. slot' = [slot EXCEPT ![c] = slot'[c]] /\ slot'[c] = Idle
        BY <1>1 DEF GoodState, SlotsInv, SlotsTyped
    <2>2. \A x \in (replies \cup Rows)' : x \in replies \cup Rows \/ x.id = id
        BY <1>1, <1>4 DEF rows, Rows
    <2>3. StepOf(c, id)
        BY <1>2, <2>1, <2>2 DEF StepOf
    <2> QED BY <1>3, <2>1, <2>3, SlotsStep DEF GoodState
<1>7. PolicyTyped' /\ LogTyped'
    BY DEF GoodState, PolicyTyped, LogTyped, Decision, policy, rows
<1> QED BY <1>5, <1>6, <1>7 DEF GoodState

\* A call ends with a row: the handler is over or relays a stream.
LEMMA EndedKeeps ==
    ASSUME GoodState, NEW c \in Slots, Calling(c),
           RowWritten(slot[c].id, log[slot[c].id], 200, slot[c].try > 1),
           slot' = [slot EXCEPT ![c] = Idle] \/
             slot' = [slot EXCEPT ![c].stage = "streaming"],
           UNCHANGED <<policy, boot, log, sent>>
    PROVE  GoodState'
<1> DEFINE id == slot[c].id
           j == log[id]
<1>1. /\ id \in DOMAIN log /\ id # 0
      /\ j \in Decision
      /\ slot[c].try \in 1..2
      /\ Action(j) # "blocked"
      /\ \A x \in replies \cup Rows : x.id # id
      /\ \A d \in Slots \ {c} : slot[d] # Idle => slot[d].id # id
      /\ slot[c].try > 1 <=> \E s \in sent : s.id = id /\ s.try > 1
    BY CallFacts DEF GoodState
<1>2. LogGrows /\ j = log'[id] /\ id \in DOMAIN log'
    BY <1>1 DEF LogGrows
<1>3. \/ slot'[c] = Idle
      \/ slot'[c] = [stage |-> "streaming", id |-> id, try |-> slot[c].try]
    <2>1. slot[c] \in [stage: {"idle", "calling", "streaming"},
                       id: DOMAIN log \cup {0}, try: 0..2]
        BY DEF GoodState, SlotsInv, SlotsTyped
    <2>2. slot'[c] = Idle \/ slot'[c] = [slot[c] EXCEPT !.stage = "streaming"]
        BY DEF GoodState, SlotsInv, SlotsTyped
    <2> QED BY <2>1, <2>2
<1>4. slot' = [slot EXCEPT ![c] = slot'[c]]
    BY DEF GoodState, SlotsInv, SlotsTyped
<1> HIDE DEF j
<1>5. /\ HistoryInv' /\ faults' \in Nat
      /\ \A x \in (replies \cup Rows)' : x \in replies \cup Rows \/ x.id = id
    <2> DEFINE status == 200
               fallback == slot[c].try > 1
    <2>1. /\ status \in {200, 403}
          /\ status = 403 <=> Action(j) = "blocked"
          /\ sent' = sent
          /\ \A x \in Rows : x.id # id
          /\ fallback \in BOOLEAN /\ fallback = FellBack(id)
        <3>1. fallback \in BOOLEAN
            BY <1>1
        <3>2. fallback = FellBack(id)
            <4>1. fallback <=> FellBack(id)
                BY <1>1 DEF FellBack
            <4>2. FellBack(id) \in BOOLEAN
                BY DEF FellBack
            <4> HIDE DEF fallback
            <4> QED BY <3>1, <4>1, <4>2
        <3>3. status \in {200, 403} /\ (status = 403 <=> Action(j) = "blocked")
            BY <1>1
        <3> QED BY <1>1, <3>1, <3>2, <3>3
    <2>2. RowWritten(id, j, status, fallback)
        BY DEF j
    <2>3. HistoryInv /\ PolicyTyped
        BY DEF GoodState
    <2> HIDE DEF status, fallback, id
    <2> QED BY ONLY <1>1, <1>2, <2>1, <2>2, <2>3, RowStep
<1>6. SlotsInv'
    <2>1. StepOf(c, id)
        BY <1>1, <1>4, <1>5 DEF StepOf
    <2>2. slot'[c] = Idle \/ WorksFor(c, id)
        <3>1. CASE slot'[c] = [stage |-> "streaming", id |-> id,
                               try |-> slot[c].try]
            BY <1>1, <1>2, <3>1 DEF WorksFor
        <3> QED BY <1>3, <3>1
    <2> QED BY <1>2, <2>1, <2>2, SlotsStep DEF GoodState
<1>7. PolicyTyped' /\ LogTyped'
    BY <1>5 DEF GoodState, PolicyTyped, LogTyped, Decision, policy
<1> QED BY <1>5, <1>6, <1>7 DEF GoodState

LEMMA StreamEndsKeeps ==
    ASSUME GoodState, NEW c \in Slots, StreamEnds(c)
    PROVE  GoodState'
<1> DEFINE id == slot[c].id
<1>1. /\ UNCHANGED <<policy, boot, log, sent, pending, audit, faults, replies>>
      /\ slot' = [slot EXCEPT ![c] = Idle]
      /\ slot[c].stage = "streaming"
    BY DEF StreamEnds, Leave, rows
<1>2. LogGrows /\ slot'[c] = Idle /\ slot' = [slot EXCEPT ![c] = slot'[c]]
    BY <1>1 DEF LogGrows, GoodState, SlotsInv, SlotsTyped
<1>3. \A d \in Slots \ {c} : slot[d] # Idle => slot[d].id # id
    <2>1. slot[c] # Idle
        BY <1>1 DEF Idle
    <2> QED BY <2>1 DEF GoodState, SlotsInv, OpenIsUnanswered
<1>4. HistoryInv'
    <2> DEFINE A == {}
    <2>1. /\ replies' = replies \cup A /\ \A a \in A : NewReply(a)
          /\ Rows' \subseteq Rows /\ audit \subseteq audit' /\ sent' = sent
          /\ NothingPending' /\ HistoryInv
        BY <1>1 DEF Rows, GoodState, HistoryInv, NothingPending
    <2> HIDE DEF A
    <2> QED BY ONLY <1>2, <2>1, HistoryKept
<1>5. SlotsInv'
    <2>1. StepOf(c, id)
        BY <1>1, <1>2, <1>3 DEF StepOf, Rows
    <2> QED BY <1>1, <1>2, <2>1, SlotsStep DEF GoodState
<1>6. PolicyTyped' /\ LogTyped'
    BY <1>1 DEF GoodState, PolicyTyped, LogTyped, Decision, policy
<1> QED BY <1>4, <1>5, <1>6 DEF GoodState

\* What the policy store's connection sees is well typed, committed or not.
LEMMA SeenFacts ==
    ASSUME PolicyTyped, NEW z \in SUBSET Versions, NEW a \in z,
           NEW h \in [Teams -> BOOLEAN], boot' = boot,
           \/ Committed(z, a, h) /\ (EventRecorded \/ UNCHANGED rows)
           \/ CommitFails(z, a, h)
    PROVE  PolicyTyped'
<1>1. faults' \in Nat
    BY DEF EventRecorded, CommitFails, Fault, rows, PolicyTyped
<1>2. CASE Committed(z, a, h)
    BY <1>1, <1>2 DEF Committed, Seen, PolicyTyped
<1>3. CASE CommitFails(z, a, h)
    BY <1>1, <1>3 DEF CommitFails, Seen, PolicyTyped
<1> QED BY <1>2, <1>3

LEMMA AdminKeeps ==
    ASSUME GoodState, AdminStep,
           NEW z \in SUBSET Versions, NEW a \in z, NEW h \in [Teams -> BOOLEAN],
           \/ Committed(z, a, h) /\ (EventRecorded \/ UNCHANGED rows)
           \/ CommitFails(z, a, h)
    PROVE  GoodState'
<1>1. UNCHANGED <<slot, log, sent, replies, boot>>
    BY DEF AdminStep
<1>2. Rows' \subseteq Rows /\ audit \subseteq audit' /\ NothingPending'
    BY DEF EventRecorded, CommitFails, Fault, rows, Rows, GoodState, HistoryInv,
           NothingPending, PolicyTyped
<1>3. HistoryInv' /\ SlotsInv'
    BY <1>1, <1>2, StillKeeps DEF GoodState
<1>4. PolicyTyped'
    BY <1>1, SeenFacts DEF GoodState
<1>5. LogTyped'
    BY <1>1 DEF GoodState, LogTyped, Decision
<1> QED BY <1>3, <1>4, <1>5 DEF GoodState

\* The three operations of the policy store are of that form.
LEMMA PolicyKeeps ==
    ASSUME GoodState,
           \/ \E v \in Versions : CreatePolicy(v) \/ ActivatePolicy(v)
           \/ \E t \in Teams, enabled \in BOOLEAN : SetShadow(t, enabled)
    PROVE  GoodState'
<1>1. /\ stored \in SUBSET Versions /\ active \in stored
      /\ shadow \in [Teams -> BOOLEAN]
    BY DEF GoodState, PolicyTyped
<1>2. ASSUME NEW v \in Versions, CreatePolicy(v)
      PROVE  GoodState'
    <2> DEFINE z == stored \cup {v}
    <2>1. z \in SUBSET Versions /\ active \in z
        BY <1>1
    <2>2. /\ AdminStep
          /\ \/ Committed(z, active, shadow) /\ EventRecorded
             \/ CommitFails(z, active, shadow)
        BY <1>2 DEF CreatePolicy
    <2> HIDE DEF z
    <2> QED BY <1>1, <2>1, <2>2, AdminKeeps
<1>3. ASSUME NEW v \in Versions, ActivatePolicy(v)
      PROVE  GoodState'
    <2>1. /\ AdminStep /\ v \in stored
          /\ \/ Committed(stored, v, shadow) /\ EventRecorded
             \/ CommitFails(stored, v, shadow)
        BY <1>3 DEF ActivatePolicy
    <2> QED BY <1>1, <2>1, AdminKeeps
<1>4. ASSUME NEW t \in Teams, NEW enabled \in BOOLEAN, SetShadow(t, enabled)
      PROVE  GoodState'
    <2> DEFINE h == [shadow EXCEPT ![t] = enabled]
    <2>1. h \in [Teams -> BOOLEAN]
        BY <1>1
    <2>2. /\ AdminStep
          /\ \/ Committed(stored, active, h) /\ UNCHANGED rows
             \/ CommitFails(stored, active, h)
        BY <1>4 DEF SetShadow
    <2> HIDE DEF h
    <2> QED BY <1>1, <2>1, <2>2, AdminKeeps
<1> QED BY <1>2, <1>3, <1>4

LEMMA QuietKeeps ==
    ASSUME GoodState,
           UNCHANGED <<policy, slot, log, sent, pending, audit, faults,
                       replies, boot>>
    PROVE  GoodState'
<1>1. HistoryInv' /\ SlotsInv'
    <2>1. Rows' \subseteq Rows /\ audit \subseteq audit' /\ NothingPending'
        BY DEF Rows, GoodState, HistoryInv, NothingPending
    <2> QED BY <2>1, StillKeeps DEF GoodState
<1>2. PolicyTyped' /\ LogTyped'
    BY DEF GoodState, PolicyTyped, LogTyped, Decision, policy
<1> QED BY <1>1, <1>2 DEF GoodState

LEMMA RestartKeeps ==
    ASSUME GoodState, Restart
    PROVE  GoodState'
<1>1. /\ UNCHANGED <<disk, log, sent, audit, replies, faults>>
      /\ slot' = [c \in Slots |-> Idle]
      /\ pending' = {}
      /\ boot' = boot + 1
      /\ stored' = disk.stored /\ active' = disk.active /\ shadow' = disk.shadow
    BY DEF Restart, Seen
<1>2. HistoryInv'
    <2> DEFINE A == {}
    <2>1. /\ replies' = replies \cup A /\ \A a \in A : NewReply(a)
          /\ Rows' \subseteq Rows /\ audit \subseteq audit' /\ sent' = sent
          /\ NothingPending' /\ HistoryInv
          /\ LogGrows
        BY <1>1 DEF Rows, GoodState, NothingPending, LogGrows
    <2> HIDE DEF A
    <2> QED BY ONLY <2>1, HistoryKept
<1>3. SlotsInv'
    BY <1>1 DEF SlotsInv, SlotsTyped, SlotsStand, TriesAreSent,
                OpenIsUnanswered, Calling, Idle
<1>4. PolicyTyped'
    BY <1>1 DEF GoodState, PolicyTyped
<1>5. LogTyped'
    <2>1. Decision \subseteq Decision'
        BY <1>1 DEF Decision, GoodState, PolicyTyped
    <2>2. log \in Seq(Decision')
        BY <2>1 DEF GoodState, LogTyped
    <2> QED BY <1>1, <2>2 DEF LogTyped
<1> QED BY <1>2, <1>3, <1>4, <1>5 DEF GoodState

LEMMA CallEndKeeps ==
    ASSUME GoodState, NEW c \in Slots, CallEnds(c)
    PROVE  GoodState'
<1>1. CASE FallBack(c)
    BY <1>1, FallBackKeeps
<1>2. CASE Fails(c)
    <2>1. /\ Answer(slot[c].id, log[slot[c].id], 500, FALSE)
          /\ Calling(c) /\ Leave(c)
          /\ UNCHANGED <<policy, boot, log, sent, rows>>
        BY <1>2 DEF Fails, Ends
    <2> QED BY <2>1, FailsKeeps
<1>3. CASE Completes(c) \/ StreamStarts(c)
    <2>1. /\ Calling(c)
          /\ RowWritten(slot[c].id, log[slot[c].id], 200, slot[c].try > 1)
          /\ slot' = [slot EXCEPT ![c] = Idle] \/
               slot' = [slot EXCEPT ![c].stage = "streaming"]
          /\ UNCHANGED <<policy, boot, log, sent>>
        BY <1>3 DEF Completes, StreamStarts, Ends, RowWritten, Leave
    <2> QED BY <2>1, EndedKeeps
<1> QED BY <1>1, <1>2, <1>3 DEF CallEnds

LEMMA StepKeeps ==
    ASSUME GoodState, [Next]_vars
    PROVE  GoodState'
<1>1. ASSUME NEW c \in Slots, NEW p \in Principals, NEW r \in Requests,
             Limited(c, p, r)
      PROVE  GoodState'
    BY <1>1, QuietKeeps DEF Limited, Arrival, rows
<1>2. ASSUME Tick \/ UNCHANGED vars
      PROVE  GoodState'
    BY <1>2, QuietKeeps DEF Tick, vars, rows
<1> QED
    BY <1>1, <1>2, BlockedKeeps, MaskingFailsKeeps, ForwardedKeeps,
       CallEndKeeps, StreamEndsKeeps, PolicyKeeps, RestartKeeps DEF Next

-----------------------------------------------------------------------------
(* Counting the requests of a team. *)

\* OfTeam, of a log and of a number of restarts.
IdsOf(t, set, lg, b) ==
    {x.id : x \in {y \in set : lg[y.id].boot = b /\ TeamOf[lg[y.id].by] = t}}

LEMMA OfTeamIsIdsOf ==
    ASSUME NEW t
    PROVE  /\ OfTeam(t, sent) = IdsOf(t, sent, log, boot)
           /\ OfTeam(t, sent)' = IdsOf(t, sent', log', boot')
           /\ OfTeam(t, {a \in replies : a.status = 200}) =
                 IdsOf(t, {a \in replies : a.status = 200}, log, boot)
           /\ OfTeam(t, {a \in replies : a.status = 200})' =
                 IdsOf(t, {a \in replies' : a.status = 200}, log', boot')
           /\ OfTeam(t, {row \in audit : row.status = 200}) =
                 IdsOf(t, {row \in audit : row.status = 200}, log, boot)
           /\ OfTeam(t, {row \in audit : row.status = 200})' =
                 IdsOf(t, {row \in audit' : row.status = 200}, log', boot')
BY DEF OfTeam, IdsOf

LEMMA IdsFinite ==
    ASSUME NEW t, NEW set, NEW lg, NEW b,
           IsFiniteSet(DOMAIN lg), \A x \in set : x.id \in DOMAIN lg
    PROVE  /\ IsFiniteSet(IdsOf(t, set, lg, b))
           /\ Cardinality(IdsOf(t, set, lg, b)) \in Nat
<1>1. IdsOf(t, set, lg, b) \in SUBSET DOMAIN lg
    BY DEF IdsOf
<1> QED BY <1>1, FS_Subset, FS_CardinalityType

\* More entries and a longer log count more.
LEMMA IdsGrow ==
    ASSUME NEW t, NEW set, NEW more, NEW lg, NEW lh, NEW b,
           IsFiniteSet(DOMAIN lh),
           \A x \in set : x.id \in DOMAIN lh /\ lh[x.id] = lg[x.id],
           \A x \in more : x.id \in DOMAIN lh,
           set \subseteq more
    PROVE  Cardinality(IdsOf(t, set, lg, b)) <= Cardinality(IdsOf(t, more, lh, b))
<1>1. IdsOf(t, set, lg, b) \in SUBSET IdsOf(t, more, lh, b)
    BY DEF IdsOf
<1> QED BY <1>1, IdsFinite, FS_Subset

\* Entries of other teams do not count.
LEMMA IdsSame ==
    ASSUME NEW t, NEW set, NEW more, NEW lg, NEW lh, NEW b,
           \A x \in set : lh[x.id] = lg[x.id],
           set \subseteq more,
           \A x \in more \ set : TeamOf[lh[x.id].by] # t
    PROVE  IdsOf(t, set, lg, b) = IdsOf(t, more, lh, b)
BY DEF IdsOf

\* Entries of one request count at most once.
LEMMA IdsAtMostOne ==
    ASSUME NEW t, NEW set, NEW more, NEW lg, NEW lh, NEW b, NEW i,
           IsFiniteSet(DOMAIN lg),
           \A x \in set : x.id \in DOMAIN lg /\ lh[x.id] = lg[x.id],
           \A x \in more : x \in set \/ x.id = i
    PROVE  Cardinality(IdsOf(t, more, lh, b)) <=
              Cardinality(IdsOf(t, set, lg, b)) + 1
<1> DEFINE A == IdsOf(t, set, lg, b)
           B == IdsOf(t, more, lh, b)
<1>1. B \in SUBSET (A \cup {i})
    BY DEF IdsOf
<1>2. IsFiniteSet(A) /\ Cardinality(A) \in Nat
    BY IdsFinite
<1> HIDE DEF A, B
<1>3. /\ IsFiniteSet(A \cup {i})
      /\ Cardinality(A \cup {i}) <= Cardinality(A) + 1
    <2>1. /\ IsFiniteSet(A \cup {i})
          /\ Cardinality(A \cup {i}) =
                IF i \in A THEN Cardinality(A) ELSE Cardinality(A) + 1
        BY <1>2, FS_AddElement
    <2> QED BY <1>2, <2>1
<1>4. Cardinality(B) <= Cardinality(A \cup {i}) /\ IsFiniteSet(B)
    BY <1>1, <1>3, FS_Subset
<1>5. Cardinality(B) \in Nat /\ Cardinality(A \cup {i}) \in Nat
    BY <1>3, <1>4, FS_CardinalityType
<1> QED BY <1>2, <1>3, <1>4, <1>5 DEF A, B

\* The entries of more that set lacks are the first ones of request i.
FirstOf(i, set, more, lg, lh) ==
    /\ \A x \in set : x.id \in DOMAIN lg /\ lh[x.id] = lg[x.id] /\ x.id # i
    /\ set \subseteq more
    /\ \A x \in more \ set : x.id = i
    /\ more \ set # {}

\* The first entry of a request of the team counts exactly once.
LEMMA IdsOneMore ==
    ASSUME NEW t, NEW set, NEW more, NEW lg, NEW lh, NEW b, NEW i,
           IsFiniteSet(DOMAIN lg), FirstOf(i, set, more, lg, lh),
           lh[i].boot = b, TeamOf[lh[i].by] = t
    PROVE  Cardinality(IdsOf(t, more, lh, b)) =
              Cardinality(IdsOf(t, set, lg, b)) + 1
<1> DEFINE A == IdsOf(t, set, lg, b)
           B == IdsOf(t, more, lh, b)
<1> USE DEF FirstOf
<1>1. B = A \cup {i}
    <2>1. PICK y \in more \ set : y.id = i
        OBVIOUS
    <2>2. i \in B
        BY <2>1 DEF IdsOf
    <2>3. A \subseteq B /\ B \subseteq A \cup {i}
        BY DEF IdsOf
    <2> QED BY <2>2, <2>3
<1>2. i \notin A
    BY DEF IdsOf
<1>3. IsFiniteSet(A)
    BY IdsFinite
<1> HIDE DEF A, B
<1>4. Cardinality(A \cup {i}) =
         IF i \in A THEN Cardinality(A) ELSE Cardinality(A) + 1
    BY <1>3, FS_AddElement
<1>5. Cardinality(B) = Cardinality(A) + 1
    BY <1>1, <1>2, <1>4
<1> QED BY <1>5 DEF A, B

-----------------------------------------------------------------------------
(* The books of the teams. *)

Good(set) == {a \in set : a.status = 200}

Sents(t) == Cardinality(IdsOf(t, sent, log, boot))
Answers(t) == Cardinality(IdsOf(t, Good(replies), log, boot))
Records(t) == Cardinality(IdsOf(t, Good(audit), log, boot))

BookOf(t) ==
    /\ spend[t] + Cardinality(OpenOf(t)) <= Sents(t)
    /\ Answers(t) <= spend[t]
    /\ faults = 0 => spend[t] = Records(t)

IdsKnown ==
    /\ IsFiniteSet(DOMAIN log)
    /\ \A x \in sent \cup replies \cup Rows : x.id \in DOMAIN log

LEMMA BooksAreBooks ==
    /\ BooksBalance <=> \A t \in Teams : BookOf(t)
    /\ (\A t \in Teams : BookOf(t)') => BooksBalance'
<1>1. ASSUME NEW t \in Teams
      PROVE  BookOf(t) <=>
               /\ spend[t] + Cardinality(OpenOf(t)) <= Cardinality(OfTeam(t, sent))
               /\ Cardinality(OfTeam(t, {a \in replies : a.status = 200})) <= spend[t]
               /\ faults = 0 =>
                     spend[t] = Cardinality(
                                   OfTeam(t, {row \in audit : row.status = 200}))
    BY OfTeamIsIdsOf DEF BookOf, Sents, Answers, Records, Good
<1>2. ASSUME NEW t \in Teams
      PROVE  BookOf(t)' =>
               /\ (spend[t] + Cardinality(OpenOf(t)) <= Cardinality(OfTeam(t, sent)))'
               /\ (Cardinality(OfTeam(t, {a \in replies : a.status = 200})) <= spend[t])'
               /\ faults' = 0 =>
                     (spend[t] = Cardinality(
                                   OfTeam(t, {row \in audit : row.status = 200})))'
    BY OfTeamIsIdsOf DEF BookOf, Sents, Answers, Records, Good
<1> QED BY <1>1, <1>2 DEF BooksBalance

LEMMA KnownIds ==
    /\ GoodState => IdsKnown
    /\ GoodState' => IdsKnown'
<1>1. ASSUME GoodState PROVE IdsKnown
    <2>1. Len(log) \in Nat /\ DOMAIN log = 1..Len(log)
        BY <1>1 DEF GoodState, LogTyped
    <2>2. IsFiniteSet(DOMAIN log)
        BY <2>1, FS_Interval
    <2>3. \A x \in sent \cup replies \cup Rows : x.id \in DOMAIN log
        BY <1>1 DEF GoodState, HistoryInv, SentType, RowType, ReplyType
    <2> QED BY <2>2, <2>3 DEF IdsKnown
<1> QED BY <1>1, PTL

\* The counts of a team are numbers, and only grow with the log.
LEMMA CountsGrow ==
    ASSUME IdsKnown, IdsKnown', LogGrows, boot' = boot, NEW t
    PROVE  /\ Sents(t) \in Nat /\ Answers(t) \in Nat /\ Records(t) \in Nat
           /\ Sents(t)' \in Nat /\ Answers(t)' \in Nat /\ Records(t)' \in Nat
           /\ sent \subseteq sent' => Sents(t) <= Sents(t)'
           /\ Good(replies)' = Good(replies) => Answers(t)' = Answers(t)
           /\ Good(audit)' = Good(audit) => Records(t)' = Records(t)
<1>1. /\ \A x \in sent : x.id \in DOMAIN log
      /\ \A x \in Good(replies) : x.id \in DOMAIN log
      /\ \A x \in Good(audit) : x.id \in DOMAIN log
      /\ \A x \in sent' : x.id \in DOMAIN log'
      /\ \A x \in Good(replies)' : x.id \in DOMAIN log'
      /\ \A x \in Good(audit)' : x.id \in DOMAIN log'
    BY DEF IdsKnown, Good, Rows
<1>2. IsFiniteSet(DOMAIN log) /\ IsFiniteSet(DOMAIN log')
    BY DEF IdsKnown
<1>3. \A i \in DOMAIN log : i \in DOMAIN log' /\ log'[i] = log[i]
    BY DEF LogGrows
<1>4. /\ Sents(t) \in Nat /\ Answers(t) \in Nat /\ Records(t) \in Nat
      /\ Sents(t)' \in Nat /\ Answers(t)' \in Nat /\ Records(t)' \in Nat
    BY <1>1, <1>2, IdsFinite DEF Sents, Answers, Records
<1>5. ASSUME sent \subseteq sent' PROVE Sents(t) <= Sents(t)'
    BY <1>1, <1>2, <1>3, <1>5, IdsGrow DEF Sents
<1>6. ASSUME Good(replies)' = Good(replies) PROVE Answers(t)' = Answers(t)
    BY <1>1, <1>3, <1>6, IdsSame DEF Answers
<1>7. ASSUME Good(audit)' = Good(audit) PROVE Records(t)' = Records(t)
    BY <1>1, <1>3, <1>7, IdsSame DEF Records
<1> QED BY <1>4, <1>5, <1>6, <1>7

Numbers == spend \in [Teams -> Nat]

\* Nothing is charged, nothing opens.
LEMMA BooksKept ==
    ASSUME BooksBalance, IdsKnown, IdsKnown', LogGrows, boot' = boot, Numbers,
           spend' = spend, sent \subseteq sent',
           \A t \in Teams :
              Cardinality(OpenOf(t))' <= Cardinality(OpenOf(t)),
           Good(replies)' = Good(replies),
           faults' = 0 => faults = 0 /\ Good(audit)' = Good(audit)
    PROVE  BooksBalance'
<1>1. ASSUME NEW t \in Teams PROVE BookOf(t)'
    <2>1. BookOf(t)
        BY BooksAreBooks
    <2>2. spend[t] \in Nat
        BY DEF Numbers
    <2>3. /\ Cardinality(OpenOf(t)) \in Nat /\ Cardinality(OpenOf(t))' \in Nat
          /\ Cardinality(OpenOf(t))' <= Cardinality(OpenOf(t))
        BY OpenFacts
    <2>4. /\ Sents(t) \in Nat /\ Sents(t)' \in Nat
          /\ Sents(t) <= Sents(t)'
          /\ Answers(t)' = Answers(t)
          /\ faults' = 0 => faults = 0 /\ Records(t)' = Records(t)
        BY CountsGrow
    <2>5. spend'[t] + Cardinality(OpenOf(t))' <= Sents(t)'
        BY <2>1, <2>2, <2>3, <2>4 DEF BookOf
    <2>6. Answers(t)' <= spend'[t] /\ (faults' = 0 => spend'[t] = Records(t)')
        BY <2>1, <2>4 DEF BookOf
    <2> QED BY <2>5, <2>6 DEF BookOf
<1> QED BY <1>1, BooksAreBooks

\* A request opens: it is sent, for the first time.
LEMMA BooksOpened ==
    ASSUME BooksBalance, IdsKnown, IdsKnown', LogGrows, boot' = boot, Numbers,
           UNCHANGED <<spend, replies, audit, faults>>,
           NEW u \in Teams, NEW i, NEW s,
           s.id = i, sent' = sent \cup {s}, i \notin DOMAIN log,
           log'[i].boot = boot, TeamOf[log'[i].by] = u,
           Cardinality(OpenOf(u))' = Cardinality(OpenOf(u)) + 1,
           \A t \in Teams \ {u} :
              Cardinality(OpenOf(t))' = Cardinality(OpenOf(t))
    PROVE  BooksBalance'
<1>1. ASSUME NEW t \in Teams PROVE BookOf(t)'
    <2>1. BookOf(t)
        BY BooksAreBooks
    <2>2. spend[t] \in Nat
        BY DEF Numbers
    <2>3. Cardinality(OpenOf(t)) \in Nat /\ Cardinality(OpenOf(t))' \in Nat
        BY OpenFacts
    <2>4. Good(replies)' = Good(replies) /\ Good(audit)' = Good(audit)
        BY DEF Good
    <2>5. /\ Sents(t) \in Nat /\ Sents(t)' \in Nat
          /\ Sents(t) <= Sents(t)'
          /\ Answers(t)' = Answers(t)
          /\ Records(t)' = Records(t)
        BY <2>4, CountsGrow
    <2>6. ASSUME t = u PROVE Sents(t)' = Sents(t) + 1
        <3>1. \A x \in sent : /\ x.id \in DOMAIN log /\ log'[x.id] = log[x.id]
                              /\ x.id # i
            BY DEF IdsKnown, LogGrows
        <3>2. sent' \ sent = {s}
            BY <3>1
        <3>3. /\ IsFiniteSet(DOMAIN log) /\ sent \subseteq sent'
              /\ \A x \in sent' \ sent : x.id = i
              /\ sent' \ sent # {}
            BY <3>2 DEF IdsKnown
        <3>4. Cardinality(IdsOf(u, sent', log', boot)) =
                 Cardinality(IdsOf(u, sent, log, boot)) + 1
            <4>1. log'[i].boot = boot /\ TeamOf[log'[i].by] = u
                OBVIOUS
            <4>2. FirstOf(i, sent, sent', log, log')
                BY <3>1, <3>3 DEF FirstOf
            <4> QED BY ONLY <3>3, <4>1, <4>2, IdsOneMore
        <3> QED BY <2>6, <3>4 DEF Sents
    <2>7. spend'[t] + Cardinality(OpenOf(t))' <= Sents(t)'
        <3>1. spend[t] + Cardinality(OpenOf(t)) <= Sents(t)
            BY <2>1 DEF BookOf
        <3>2. CASE t = u
            BY <2>2, <2>3, <2>5, <2>6, <3>1, <3>2
        <3>3. CASE t # u
            BY <2>2, <2>3, <2>5, <3>1, <3>3
        <3> QED BY <3>2, <3>3
    <2>8. Answers(t)' <= spend'[t] /\ (faults' = 0 => spend'[t] = Records(t)')
        BY <2>1, <2>5 DEF BookOf
    <2> QED BY <2>7, <2>8 DEF BookOf
<1> QED BY <1>1, BooksAreBooks

\* A request is over and charged; its row is written, or the audit fails.
LEMMA BooksCharged ==
    ASSUME BooksBalance, IdsKnown, IdsKnown', UNCHANGED <<log, boot, sent>>,
           Numbers,
           NEW u \in Teams, NEW i \in DOMAIN log, NEW j, j = log[i],
           TeamOf[j.by] = u, j.boot = boot,
           spend' = [spend EXCEPT ![u] = @ + 1],
           \A x \in replies \cup Rows : x.id # i,
           NothingPending, faults \in Nat,
           NEW fallback, RowWritten(i, j, 200, fallback),
           Cardinality(OpenOf(u))' = Cardinality(OpenOf(u)) - 1,
           \A t \in Teams \ {u} :
              Cardinality(OpenOf(t))' = Cardinality(OpenOf(t))
    PROVE  BooksBalance'
<1> DEFINE row == Row(i, j, 200, fallback)
<1>1. row.id = i /\ row.status = 200
    BY DEF Row
<1>2. \A x \in Good(replies)' : x \in Good(replies) \/ x.id = i
    BY DEF Good, RowWritten, Answer
<1>3. ASSUME faults' = 0
      PROVE  faults = 0 /\ Good(audit)' = Good(audit) \cup {row}
    <2>1. faults = 0 /\ audit' = audit \cup {row}
        BY <1>3, FaultFacts DEF RowWritten, NothingPending
    <2> HIDE DEF row
    <2> QED BY <1>1, <2>1 DEF Good
<1> HIDE DEF row
<1>4. LogGrows
    BY DEF LogGrows
<1>5. /\ \A x \in Good(replies) : x.id \in DOMAIN log /\ x.id # i
      /\ \A x \in Good(audit) : x.id \in DOMAIN log /\ x.id # i
      /\ IsFiniteSet(DOMAIN log)
    BY DEF IdsKnown, Good, Rows
<1>6. ASSUME NEW t \in Teams PROVE BookOf(t)'
    <2>1. BookOf(t)
        BY BooksAreBooks
    <2>2. /\ spend[t] \in Nat
          /\ t = u => spend'[t] = spend[t] + 1
          /\ t # u => spend'[t] = spend[t]
        BY DEF Numbers
    <2>3. /\ Cardinality(OpenOf(t)) \in Nat /\ Cardinality(OpenOf(t))' \in Nat
          /\ t = u => Cardinality(OpenOf(t))' = Cardinality(OpenOf(t)) - 1
          /\ t # u => Cardinality(OpenOf(t))' = Cardinality(OpenOf(t))
        BY OpenFacts
    <2>4. /\ Sents(t) \in Nat /\ Sents(t)' = Sents(t)
          /\ Answers(t) \in Nat /\ Answers(t)' \in Nat
          /\ Records(t) \in Nat /\ Records(t)' \in Nat
        BY <1>4, CountsGrow DEF Sents
    <2>5. spend'[t] + Cardinality(OpenOf(t))' <= Sents(t)'
        <3>1. spend[t] + Cardinality(OpenOf(t)) <= Sents(t)
            BY <2>1 DEF BookOf
        <3> QED BY <2>2, <2>3, <2>4, <3>1
    <2>6. CASE t = u
        <3>1. Cardinality(IdsOf(u, Good(replies)', log, boot)) <=
                 Cardinality(IdsOf(u, Good(replies), log, boot)) + 1
            BY ONLY <1>2, <1>5, IdsAtMostOne
        <3>2. Answers(t)' <= Answers(t) + 1
            BY <2>6, <3>1 DEF Answers
        <3>3. ASSUME faults' = 0 PROVE faults = 0 /\ Records(t)' = Records(t) + 1
            <4>1. /\ Good(audit) \subseteq Good(audit)'
                  /\ \A x \in Good(audit)' \ Good(audit) : x.id = i
                  /\ Good(audit)' \ Good(audit) # {}
                BY <1>1, <1>3, <1>5, <3>3
            <4>2. log[i].boot = boot /\ TeamOf[log[i].by] = u
                OBVIOUS
            <4>3. Cardinality(IdsOf(u, Good(audit)', log, boot)) =
                     Cardinality(IdsOf(u, Good(audit), log, boot)) + 1
                <5>1. FirstOf(i, Good(audit), Good(audit)', log, log)
                    BY <1>5, <4>1 DEF FirstOf
                <5> QED BY ONLY <1>5, <4>2, <5>1, IdsOneMore
            <4> QED BY <1>3, <2>6, <3>3, <4>3 DEF Records
        <3>4. Answers(t) <= spend[t] /\ (faults = 0 => spend[t] = Records(t))
            BY <2>1 DEF BookOf
        <3>5. Answers(t)' <= spend'[t]
            BY <2>2, <2>4, <2>6, <3>2, <3>4
        <3>6. faults' = 0 => spend'[t] = Records(t)'
            BY <2>2, <2>6, <3>3, <3>4
        <3> QED BY <2>5, <3>5, <3>6 DEF BookOf
    <2>7. CASE t # u
        <3>1. Answers(t)' = Answers(t)
            <4>1. IdsOf(t, Good(replies)', log, boot) =
                     IdsOf(t, Good(replies), log, boot)
                <5>1. Good(replies) \subseteq Good(replies)'
                    BY DEF Good, RowWritten, Answer
                <5>2. \A x \in Good(replies)' \ Good(replies) :
                         TeamOf[log[x.id].by] # t
                    BY <1>2, <2>7
                <5> QED BY <5>1, <5>2, IdsSame
            <4> QED BY <4>1 DEF Answers
        <3>2. ASSUME faults' = 0 PROVE faults = 0 /\ Records(t)' = Records(t)
            <4>1. IdsOf(t, Good(audit)', log, boot) =
                     IdsOf(t, Good(audit), log, boot)
                <5>1. /\ Good(audit) \subseteq Good(audit)'
                      /\ \A x \in Good(audit)' \ Good(audit) :
                            TeamOf[log[x.id].by] # t
                    BY <1>1, <1>3, <2>7, <3>2
                <5> QED BY <5>1, IdsSame
            <4> QED BY <1>3, <3>2, <4>1 DEF Records
        <3> QED BY <2>1, <2>2, <2>5, <2>7, <3>1, <3>2 DEF BookOf
    <2> QED BY <2>6, <2>7
<1> QED BY <1>6, BooksAreBooks

\* After a restart nobody owes anything.
LEMMA BooksRestarted ==
    ASSUME GoodState, Restart PROVE BooksBalance'
<1>1. ASSUME NEW t \in Teams PROVE BookOf(t)'
    <2>1. /\ spend'[t] = 0 /\ boot' = boot + 1 /\ boot \in Nat
          /\ UNCHANGED <<log, sent, audit, replies>>
        BY DEF Restart, GoodState, PolicyTyped
    <2>2. OpenOf(t)' = {}
        BY DEF Restart, OpenOf, Calling, Idle
    <2>3. \A i \in DOMAIN log : log[i].boot # boot'
        <3>1. \A i \in DOMAIN log : log[i] \in Decision
            BY DEF GoodState, LogTyped
        <3> QED BY <2>1, <3>1 DEF Decision
    <2>4. /\ \A x \in sent : x.id \in DOMAIN log
          /\ \A x \in Good(replies) : x.id \in DOMAIN log
          /\ \A x \in Good(audit) : x.id \in DOMAIN log
        BY KnownIds DEF IdsKnown, Good, Rows
    <2>5. /\ IdsOf(t, sent, log, boot)' = {}
          /\ IdsOf(t, Good(replies), log, boot)' = {}
          /\ IdsOf(t, Good(audit), log, boot)' = {}
        BY <2>1, <2>3, <2>4 DEF IdsOf, Good
    <2>6. /\ Sents(t)' = 0 /\ Answers(t)' = 0 /\ Records(t)' = 0
          /\ Cardinality(OpenOf(t))' = 0
        BY <2>2, <2>5, FS_EmptySet DEF Sents, Answers, Records
    <2> QED BY <2>1, <2>6 DEF BookOf
<1> QED BY <1>1, BooksAreBooks

-----------------------------------------------------------------------------
(* The inductive step. *)

LEMMA InvFacts ==
    ASSUME GatewayInv
    PROVE  /\ TypeOK /\ GoodState /\ Numbers /\ IdsKnown
           /\ L!LimitsInv /\ BooksBalance
           /\ NothingPending
BY InvParts, KnownIds
   DEF GatewayInv, GoodState, Numbers, HistoryInv, L!LimitsInv, L!TypeOK

LEMMA StepKeepsBooks ==
    ASSUME GatewayInv, GoodState', [Next]_vars
    PROVE  BooksBalance'
<1>1. /\ TypeOK /\ GoodState /\ Numbers /\ IdsKnown /\ IdsKnown'
      /\ BooksBalance /\ NothingPending /\ faults \in Nat
    BY InvFacts, KnownIds DEF GoodState, PolicyTyped
\* Nothing is open that was not, nothing is charged.
<1>2. ASSUME UNCHANGED <<spend, boot, slot>>, LogGrows, sent' = sent,
             Good(replies)' = Good(replies),
             faults' = 0 => faults = 0 /\ Good(audit)' = Good(audit)
      PROVE  BooksBalance'
    <2>1. \A t \in Teams : OpenOf(t)' = OpenOf(t)
        BY <1>1, <1>2, OpenKept DEF Calling
    <2>2. \A t \in Teams : Cardinality(OpenOf(t))' <= Cardinality(OpenOf(t))
        BY <2>1, OpenFacts
    <2> QED BY <1>1, <1>2, <2>2, BooksKept
<1>3. ASSUME UNCHANGED <<spend, boot, slot, log, sent, replies, audit, faults>>
      PROVE  BooksBalance'
    BY <1>2, <1>3 DEF LogGrows, Good
<1>4. ASSUME NEW c \in Slots, NEW p \in Principals, NEW r \in Requests,
             Limited(c, p, r)
      PROVE  BooksBalance'
    BY <1>3, <1>4 DEF Limited, Arrival, rows
<1>5. ASSUME NEW c \in Slots, NEW p \in Principals, NEW r \in Requests,
             Blocked(c, p, r)
      PROVE  BooksBalance'
    <2> DEFINE j == Detect(p, r)
               id == Len(log) + 1
               row == Row(id, j, 403, FALSE)
    <2>1. /\ UNCHANGED <<spend, boot, slot, sent>> /\ log' = Append(log, j)
          /\ \/ Recorded(row) /\ Answer(id, j, 403, FALSE)
             \/ RecordFails(row) /\ Answer(id, j, 500, FALSE)
        BY <1>5 DEF Blocked, Arrival
    <2>2. LogGrows
        BY <1>1, <2>1, AppendGrows
    <2>3. Good(replies)' = Good(replies)
        <3>1. CASE Answer(id, j, 403, FALSE)
            BY <3>1 DEF Good, Answer
        <3>2. CASE Answer(id, j, 500, FALSE)
            BY <3>2 DEF Good, Answer
        <3> QED BY <2>1, <3>1, <3>2
    <2>4. row.status = 403
        BY DEF Row
    <2> HIDE DEF row
    <2>5. ASSUME faults' = 0 PROVE faults = 0 /\ Good(audit)' = Good(audit)
        <3>1. faults = 0 /\ audit' = audit \cup {row}
            BY <1>1, <2>1, <2>5, FaultFacts DEF NothingPending
        <3> QED BY <2>4, <3>1 DEF Good
    <2> QED BY <1>2, <2>1, <2>2, <2>3, <2>5
<1>12. ASSUME NEW c \in Slots, NEW p \in Principals, NEW r \in Requests,
              MaskingFails(c, p, r)
       PROVE  BooksBalance'
    <2> DEFINE j == Detect(p, r)
    <2>1. /\ UNCHANGED <<spend, boot, slot, sent, audit, faults>>
          /\ log' = Append(log, j)
          /\ Answer(Len(log) + 1, j, 500, FALSE)
        BY <1>12 DEF MaskingFails, Arrival, rows
    <2>2. LogGrows
        BY <1>1, <2>1, AppendGrows
    <2>3. Good(replies)' = Good(replies) /\ Good(audit)' = Good(audit)
        BY <2>1 DEF Good, Answer
    <2> QED BY <1>2, <2>1, <2>2, <2>3
<1>6. ASSUME NEW c \in Slots, NEW p \in Principals, NEW r \in Requests,
             Forwarded(c, p, r)
      PROVE  BooksBalance'
    <2> DEFINE j == Detect(p, r)
               id == Len(log) + 1
               u == TeamOf[p]
    <2>1. /\ UNCHANGED <<spend, boot, replies, audit, faults>>
          /\ slot[c] = Idle
          /\ log' = Append(log, j)
          /\ Send(id, j, 1)
          /\ slot' = [slot EXCEPT ![c] =
                        [stage |-> "calling", id |-> id, try |-> 1]]
        BY <1>6 DEF Forwarded, Arrival, rows
    <2>2. LogGrows /\ log'[id] = j /\ id \notin DOMAIN log
        BY <1>1, <2>1, AppendGrows
    <2>3. slot'[c] = [stage |-> "calling", id |-> id, try |-> 1]
        BY <1>1, <2>1 DEF TypeOK
    <2>4. j.by = p /\ j.boot = boot /\ u \in Teams
        BY DEF Detect
    <2>5. ~Calling(c) /\ Calling(c)' /\ slot' = [slot EXCEPT ![c] = slot'[c]]
        <3>1. slot' = [slot EXCEPT ![c] = slot'[c]]
            BY <2>1, <2>3
        <3> QED BY <2>1, <2>3, <3>1 DEF Calling, Idle
    <2>6. TeamOf[log'[slot'[c].id].by] = u
        BY <2>2, <2>3, <2>4
    <2>7. /\ Cardinality(OpenOf(u))' = Cardinality(OpenOf(u)) + 1
          /\ \A t \in Teams \ {u} :
                Cardinality(OpenOf(t))' = Cardinality(OpenOf(t))
        BY <1>1, <2>2, <2>4, <2>5, <2>6, OpenEnters
    <2>8. PICK s : s.id = id /\ sent' = sent \cup {s}
        BY <2>1 DEF Send
    <2>9. log'[id].boot = boot /\ TeamOf[log'[id].by] = u
        BY <2>2, <2>4
    <2> HIDE DEF j, id, u
    <2> QED BY <1>1, <2>1, <2>2, <2>4, <2>7, <2>8, <2>9, BooksOpened
<1>7. ASSUME NEW c \in Slots, CallEnds(c)
      PROVE  BooksBalance'
    <2> DEFINE id == slot[c].id
               j == log[id]
    <2>1. Calling(c) /\ UNCHANGED <<log, boot>> /\ LogGrows
        BY <1>7 DEF CallEnds, FallBack, Fails, Completes, StreamStarts, Ends,
                    LogGrows
    <2>2. /\ id \in DOMAIN log
          /\ j \in Decision
          /\ j.boot = boot
          /\ \A x \in replies \cup Rows : x.id # id
        BY <1>1, <2>1, CallFacts DEF GoodState
    <2>3. PICK u \in Teams : u = TeamOf[j.by]
        BY <2>2 DEF Decision
    <2>4. ASSUME ~Calling(c)', slot' = [slot EXCEPT ![c] = slot'[c]]
          PROVE  /\ Cardinality(OpenOf(u))' = Cardinality(OpenOf(u)) - 1
                 /\ \A t \in Teams \ {u} :
                       Cardinality(OpenOf(t))' = Cardinality(OpenOf(t))
        <3>1. TeamOf[log[slot[c].id].by] = u
            BY <2>3
        <3>2. TypeOK /\ LogGrows /\ Calling(c)
            BY <1>1, <2>1
        <3> QED BY ONLY <2>3, <2>4, <3>1, <3>2, OpenLeaves
    <2>5. \/ slot' = [slot EXCEPT ![c] = Idle]
          \/ slot' = [slot EXCEPT ![c].stage = "streaming"]
          => ~Calling(c)' /\ slot' = [slot EXCEPT ![c] = slot'[c]]
        BY <1>1 DEF TypeOK, Calling, Idle
    <2>6. CASE FallBack(c)
        <3>1. /\ UNCHANGED <<spend, replies, audit, faults>>
              /\ slot' = [slot EXCEPT ![c].try = @ + 1]
              /\ sent \subseteq sent'
            BY <2>6 DEF FallBack, Send, rows
        <3>2. \A t \in Teams : OpenOf(t)' = OpenOf(t)
            BY <1>1, <2>1, <3>1, OpenKept DEF Calling, TypeOK
        <3>3. \A t \in Teams : Cardinality(OpenOf(t))' <= Cardinality(OpenOf(t))
            BY <3>2, OpenFacts
        <3> QED BY <1>1, <2>1, <3>1, <3>3, BooksKept DEF Good
    <2>7. CASE /\ UNCHANGED <<spend, sent>>
               /\ Leave(c)
               /\ Answer(id, j, 500, FALSE)
               /\ faults' = 0 => faults = 0 /\ audit' = audit
        <3>1. Good(replies)' = Good(replies)
            BY <2>7 DEF Good, Answer
        <3>2. \A t \in Teams :
                 Cardinality(OpenOf(t))' <= Cardinality(OpenOf(t))
            <4>1. /\ Cardinality(OpenOf(u))' = Cardinality(OpenOf(u)) - 1
                  /\ \A t \in Teams \ {u} :
                        Cardinality(OpenOf(t))' = Cardinality(OpenOf(t))
                BY <2>4, <2>5, <2>7 DEF Leave
            <4>2. ASSUME NEW t \in Teams
                  PROVE  Cardinality(OpenOf(t))' <= Cardinality(OpenOf(t))
                <5>1. Cardinality(OpenOf(t)) \in Nat /\ Cardinality(OpenOf(t))' \in Nat
                    BY OpenFacts
                <5>2. \/ Cardinality(OpenOf(t))' = Cardinality(OpenOf(t)) - 1
                      \/ Cardinality(OpenOf(t))' = Cardinality(OpenOf(t))
                    BY <4>1, Zenon
                <5> QED BY <5>1, <5>2
            <4> QED BY <4>2
        <3> QED BY <1>1, <2>1, <2>7, <3>1, <3>2, BooksKept DEF Good
    <2>8. CASE /\ UNCHANGED sent
               /\ L!RecordSpend(j.by)
               /\ RowWritten(id, j, 200, slot[c].try > 1)
               /\ \/ slot' = [slot EXCEPT ![c] = Idle]
                  \/ slot' = [slot EXCEPT ![c].stage = "streaming"]
        <3>1. spend' = [spend EXCEPT ![u] = @ + 1]
            BY <2>3, <2>8 DEF L!RecordSpend
        <3>2. /\ Cardinality(OpenOf(u))' = Cardinality(OpenOf(u)) - 1
              /\ \A t \in Teams \ {u} :
                    Cardinality(OpenOf(t))' = Cardinality(OpenOf(t))
            BY <2>4, <2>5, <2>8
        <3>3. j = log[id] /\ TeamOf[j.by] = u
            BY <2>3
        <3> DEFINE fallback == slot[c].try > 1
        <3>4. RowWritten(id, j, 200, fallback)
            BY <2>8
        <3> HIDE DEF id, j, fallback
        <3>5. UNCHANGED <<log, boot, sent>>
            BY <2>1, <2>8
        <3> QED BY ONLY <1>1, <2>2, <2>3, <3>1, <3>2, <3>3, <3>4, <3>5, BooksCharged
    <2>9. CASE Fails(c)
        BY <2>7, <2>9 DEF Fails, rows
    <2>10. CASE Completes(c)
        BY <2>8, <2>10 DEF Completes, RowWritten, Leave
    <2>11. CASE StreamStarts(c)
        <3>1. CASE Answer(id, j, 500, FALSE) /\ Leave(c) /\ UNCHANGED spend
                   /\ RecordFails(Row(id, j, 200, slot[c].try > 1))
            <4>1. faults' = 0 => faults = 0 /\ audit' = audit
                BY <1>1, <3>1, FaultFacts
            <4> QED BY <2>7, <2>11, <3>1, <4>1 DEF StreamStarts
        <3>2. CASE ~(Answer(id, j, 500, FALSE) /\ Leave(c) /\ UNCHANGED spend
                     /\ RecordFails(Row(id, j, 200, slot[c].try > 1)))
            BY <2>8, <2>11, <3>2 DEF StreamStarts, RowWritten
        <3> QED BY <3>1, <3>2
    <2> QED BY <1>7, <2>6, <2>9, <2>10, <2>11 DEF CallEnds
<1>8. ASSUME NEW c \in Slots, StreamEnds(c)
      PROVE  BooksBalance'
    <2>1. /\ UNCHANGED <<spend, boot, log, sent, replies, audit, faults>>
          /\ slot[c].stage = "streaming" /\ slot' = [slot EXCEPT ![c] = Idle]
        BY <1>8 DEF StreamEnds, Leave, limits, rows
    <2>2. LogGrows
        BY <2>1 DEF LogGrows
    <2>3. \A t \in Teams : OpenOf(t)' = OpenOf(t)
        BY <1>1, <2>1, <2>2, OpenKept DEF Calling, Idle, TypeOK
    <2>4. \A t \in Teams : Cardinality(OpenOf(t))' <= Cardinality(OpenOf(t))
        BY <2>3, OpenFacts
    <2> QED BY <1>1, <2>1, <2>2, <2>4, BooksKept DEF Good
<1>9. ASSUME \/ \E v \in Versions : CreatePolicy(v) \/ ActivatePolicy(v)
             \/ \E t \in Teams, enabled \in BOOLEAN : SetShadow(t, enabled)
      PROVE  BooksBalance'
    <2>1. AdminStep
        BY <1>9 DEF CreatePolicy, ActivatePolicy, SetShadow
    <2>2. UNCHANGED <<spend, boot, slot, log, sent, replies>>
        BY <2>1 DEF AdminStep, limits
    <2>3. EventRecorded \/ UNCHANGED rows \/ (Fault /\ UNCHANGED audit)
        BY <1>9 DEF CreatePolicy, ActivatePolicy, SetShadow, CommitFails
    <2>4. faults' = 0 => faults = 0 /\ audit' = audit
        BY <1>1, <2>3, FaultFacts DEF EventRecorded, rows, NothingPending
    <2> QED BY <1>2, <2>2, <2>4 DEF LogGrows, Good
<1>10. CASE Restart
    BY <1>1, <1>10, BooksRestarted
<1>11. CASE Tick \/ UNCHANGED vars
    BY <1>3, <1>11 DEF Tick, vars, limits, rows
<1> QED
    BY <1>4, <1>5, <1>6, <1>7, <1>8, <1>9, <1>10, <1>11, <1>12 DEF Next

LEMMA InitInv == Init => GatewayInv
<1> SUFFICES ASSUME Init PROVE GatewayInv
    OBVIOUS
<1>1. L!LimitsInv
    <2>1. LP!Init
        BY InitRefines, SameLimits
    <2>2. LP!LimitsInv
        BY <2>1, LimitsHypotheses, LP!InitInv DEF L!LimitsAssumption
    <2> QED BY <2>2, SameLimits
<1>2. TypeOK
    <2>1. L!TypeOK
        BY <1>1 DEF L!LimitsInv
    <2>2. /\ stored \subseteq Versions /\ active \in stored
          /\ shadow \in [Teams -> BOOLEAN]
          /\ disk \in [stored: SUBSET Versions, active: Versions,
                      shadow: [Teams -> BOOLEAN]]
          /\ disk.active \in disk.stored
          /\ boot \in Nat /\ faults \in Nat
          /\ sent = {} /\ pending = {} /\ audit = {} /\ replies = {}
        BY DEF Init
    <2>3. log \in Seq([by: Principals, prompt: Prompts, model: Models,
                       stream: BOOLEAN, version: Versions, shadow: BOOLEAN,
                       boot: 0..boot])
        BY DEF Init
    <2>4. /\ slot \in [Slots -> [stage: {"idle", "calling", "streaming"},
                                 id: Ids \cup {0}, try: 0..2]]
          /\ \A c \in Slots : slot[c].stage = "idle" <=> slot[c].id = 0
        BY DEF Init, Idle
    <2> QED BY <2>1, <2>2, <2>3, <2>4 DEF TypeOK
<1>3. SlotsStand /\ TriesAreSent /\ OpenIsUnanswered
    BY DEF Init, SlotsStand, TriesAreSent, OpenIsUnanswered, Calling, Idle
<1>4. /\ RowsAgree /\ AnswersHaveRows /\ NothingPending /\ DecisionStands
      /\ FallbackIsTold
    BY DEF Init, RowsAgree, AnswersHaveRows, NothingPending, DecisionStands,
           FallbackIsTold, Rows
<1>5. BooksBalance
    <2>1. ASSUME NEW t \in Teams PROVE BookOf(t)
        <3>1. OpenOf(t) = {}
            BY DEF Init, OpenOf, Calling, Idle
        <3>2. /\ IdsOf(t, sent, log, boot) = {}
              /\ IdsOf(t, Good(replies), log, boot) = {}
              /\ IdsOf(t, Good(audit), log, boot) = {}
            BY DEF Init, IdsOf, Good
        <3>3. spend[t] = 0
            BY DEF Init
        <3> QED BY <3>1, <3>2, <3>3, FS_EmptySet
                DEF BookOf, Sents, Answers, Records
    <2> QED BY <2>1, BooksAreBooks
<1> QED BY <1>1, <1>2, <1>3, <1>4, <1>5 DEF GatewayInv

LEMMA NextInv == GatewayInv /\ [Next]_vars => GatewayInv'
<1> SUFFICES ASSUME GatewayInv, [Next]_vars PROVE GatewayInv'
    OBVIOUS
<1>1. TypeOK /\ GoodState /\ L!LimitsInv
    BY InvFacts
<1>2. L!LimitsInv'
    BY <1>1, StepKeepsLimits
<1>3. GoodState'
    BY <1>1, StepKeeps
<1>4. BooksBalance'
    BY <1>3, StepKeepsBooks
<1> QED BY <1>2, <1>3, <1>4, InvParts DEF GoodState

-----------------------------------------------------------------------------
(* The theorems. *)

\* The invariant holds in every reachable state.
THEOREM GatewayInvariant == Spec => []GatewayInv
BY InitInv, NextInv, PTL DEF Spec

\* Type correctness of the gateway.
THEOREM TypeCorrect == Spec => []TypeOK
<1>1. GatewayInv => TypeOK
    BY DEF GatewayInv
<1> QED BY <1>1, GatewayInvariant, PTL

\* What the policy decided at the arrival is what is sent and recorded.
THEOREM Decided == Spec => []DecisionStands
<1>1. GatewayInv => DecisionStands
    BY DEF GatewayInv
<1> QED BY <1>1, GatewayInvariant, PTL

\* Every answer that is no error has exactly one row, with its status; an
\* answer of a provider has headers, and they say what the row says.
THEOREM Audited == Spec => []AnswersAudited
<1>1. ASSUME GatewayInv PROVE AnswersAudited
    <2>1. ASSUME NEW a \in replies, a.status # 500
          PROVE  /\ \E row \in audit : Tells(row, a)
                 /\ Cardinality({row \in pending \cup audit : row.id = a.id}) = 1
                 /\ a.headers = {} <=> a.status = 403
        <3>1. PICK row \in audit : Tells(row, a)
            BY <1>1, <2>1 DEF GatewayInv, AnswersHaveRows
        <3>2. {x \in pending \cup audit : x.id = a.id} = {row}
            BY <1>1, <3>1 DEF GatewayInv, RowsAgree, Rows, Tells
        <3>3. a.headers = {} <=> a.status = 403
            BY <1>1, <2>1 DEF GatewayInv, AnswersHaveRows
        <3>4. Cardinality({row}) = 1
            BY FS_Singleton
        <3> QED BY <3>1, <3>2, <3>3, <3>4
    <2> QED BY <2>1 DEF AnswersAudited
<1> QED BY <1>1, GatewayInvariant, PTL

\* A request that is with its provider has neither a row nor an answer, and
\* no two slots work for one request.
THEOREM Unanswered == Spec => []OpenIsUnanswered
<1>1. GatewayInv => OpenIsUnanswered
    BY DEF GatewayInv
<1> QED BY <1>1, GatewayInvariant, PTL

\* Rows tell whether a second provider was called.
THEOREM FallbackTold == Spec => []FallbackIsTold
<1>1. GatewayInv => FallbackIsTold
    BY DEF GatewayInv
<1> QED BY <1>1, GatewayInvariant, PTL

\* Charges lie between the answers and the calls of a team, and are the rows
\* of its answers as long as no write failed.
THEOREM SpendMatches == Spec => []SpendMatchesAudit
<1>1. ASSUME GatewayInv PROVE SpendMatchesAudit
    <2>1. ASSUME NEW t \in Teams
          PROVE  spend[t] <= Cardinality(OfTeam(t, sent))
        <3>1. BookOf(t) /\ Numbers /\ IdsKnown
            BY <1>1, BooksAreBooks, InvFacts
        <3>2. spend[t] \in Nat /\ Cardinality(OpenOf(t)) \in Nat
            BY <3>1, OpenFacts DEF Numbers
        <3>3. Sents(t) \in Nat
            <4>1. IsFiniteSet(DOMAIN log) /\ \A x \in sent : x.id \in DOMAIN log
                BY <3>1 DEF IdsKnown
            <4> QED BY <4>1, IdsFinite DEF Sents
        <3>4. spend[t] + Cardinality(OpenOf(t)) <= Sents(t)
            BY <3>1 DEF BookOf
        <3>5. spend[t] <= Sents(t)
            BY <3>2, <3>3, <3>4
        <3> QED BY <3>5, OfTeamIsIdsOf DEF Sents
    <2> QED BY <1>1, <2>1 DEF GatewayInv, BooksBalance, SpendMatchesAudit
<1> QED BY <1>1, GatewayInvariant, PTL

\* The handlers use the limits the way module Limits says.
THEOREM ImplementsLimits == Spec => LimitsSpec
<1>1. GatewayInv /\ [Next]_vars => [L!Next]_(L!vars)
    BY StepRefines DEF GatewayInv
<1> QED BY <1>1, InitRefines, GatewayInvariant, PTL DEF Spec, LimitsSpec, L!Spec

\* Requests that are open together carry a team past a budget by less than
\* their number.
THEOREM BudgetHolds == Spec => []WithinBudget
<1>1. GatewayInv => WithinBudget
    BY DEF GatewayInv, L!LimitsInv, WithinBudget
<1> QED BY <1>1, GatewayInvariant, PTL

\* The rate limit of module Limits, in the gateway.
THEOREM RateHolds == Spec => []L!RateLimitHolds
<1>1. GatewayInv => L!RateLimitHolds
    BY DEF GatewayInv, L!LimitsInv
<1> QED BY <1>1, GatewayInvariant, PTL
=============================================================================
