----------------------------- MODULE AuditStore -----------------------------
(***************************************************************************)
(* The tables requests, findings and captured_content of audit/store.py,   *)
(* filled by audit/recorder.py, read by the Admin API in pages and in      *)
(* aggregates, and cut by audit/retention.py.                              *)
(*                                                                         *)
(* One SQLite connection is shared by every writer (AdminStore is built on *)
(* it too). Its first writing statement opens a transaction, commit closes *)
(* it, and no code rolls back: the statements of a handler that raises     *)
(* stay in the open transaction until the next commit, whoever makes it.   *)
(* So the module keeps two views: db, what is durable, and work, what the  *)
(* connection reads. A tick of the clock is a day; several rows then share *)
(* a timestamp, and only their random ids order them.                      *)
(***************************************************************************)
EXTENDS Integers, FiniteSets, Sequences, FiniteSetsExt, Functions

CONSTANTS
    Ids,         \* uuid4 values: no order of arrival
    Records,     \* what the gateway passes to AuditRecorder.record
    Capture,     \* content capture is configured
    CaptureTtl, Retention, PageSize,
    TopLimit,    \* the rows of the top lists
    Readers,     \* the administrators who page through the listing
    ScopeOf,     \* AdminIdentity of a reader, as the team filter it gets
    MaxClock,    \* bound on the days that pass
    MaxFaults    \* bound on the statements and commits that raise

Everyone == "every team"
Actions == {"allowed", "masked", "blocked", "shadow"}

Teams == {r.team : r \in Records}

ASSUME AuditAssumption ==
    /\ Ids \subseteq Nat
    /\ \A r \in Records :
          /\ r.action \in Actions /\ r.shadow = (r.action = "shadow")
          /\ r.cost \in Nat /\ r.team # Everyone
          /\ r.trace \in Seq([type: STRING, sure: 0..100])
    /\ IsFiniteSet(Teams)
    /\ Capture \in BOOLEAN
    /\ {CaptureTtl, Retention, PageSize, TopLimit, MaxClock, MaxFaults} \subseteq Nat
    /\ PageSize > 0

VARIABLES
    now,
    db,        \* the committed tables
    work,      \* the tables as the connection sees them
    used,      \* the ids drawn so far
    recorded,  \* history: the requests whose recording returned
    purged,    \* history: the largest cutoff a purge has begun with
    swept,     \* history: the last purge that returned, as [cutoff, at]
    lists,     \* the listing each reader walks through
    faults     \* the statements and commits that have raised

audit == <<used, recorded, purged, swept, lists>>

Fault == faults < MaxFaults /\ faults' = faults + 1

-----------------------------------------------------------------------------
(* Recording a request *)

Sealed(r) == Capture /\ r.masked /\ ~r.shadow

Statements(r) == 1 + Len(r.trace) + (IF Sealed(r) THEN 1 ELSE 0)

FindingsOf(r, n) ==
    {[request |-> r.id, pos |-> i, last |-> 0] : i \in 1..(IF n < Len(r.trace) THEN n ELSE Len(r.trace))}

\* The first n statements of record_request: the row, then its findings, then
\* the sealed capture.
Insert(w, r, n) ==
    IF n = 0 THEN w ELSE
    [w EXCEPT
        !.requests = @ \cup {r},
        !.findings = @ \cup FindingsOf(r, n - 1),
        !.captures = @ \cup IF Sealed(r) /\ n = Statements(r)
                            THEN {[request |-> r.id, expires |-> now + CaptureTtl]}
                            ELSE {}]

Row(id, rec) ==
    [id |-> id, ts |-> now, team |-> rec.team, user |-> rec.user,
     provider |-> rec.provider, model |-> rec.model, action |-> rec.action,
     cost |-> rec.cost, masked |-> rec.masked, shadow |-> rec.shadow, trace |-> rec.trace]

RecordRequestReusingIds(id, rec) ==
    /\ used' = used \cup {id}
    /\ work' = Insert(work, Row(id, rec), Statements(rec))
    /\ db' = work'
    /\ recorded' = recorded \cup {Row(id, rec)}
    /\ UNCHANGED <<purged, swept, lists, faults>>

RecordRequestCommitsEarly(id, rec) ==
    LET r == Row(id, rec) IN
    /\ id \notin used
    /\ used' = used \cup {id}
    /\ work' = Insert(work, r, Statements(r))
    /\ db' = Insert(work, r, 1)
    /\ recorded' = recorded \cup {r}
    /\ UNCHANGED <<purged, swept, lists, faults>>

RecordRequest(id, rec) ==
    LET r == Row(id, rec) IN
    /\ id \notin used
    /\ used' = used \cup {id}
    /\ work' = Insert(work, r, Statements(r))
    /\ db' = work'
    /\ recorded' = recorded \cup {r}
    /\ UNCHANGED <<purged, swept, lists, faults>>

\* The statement after the n-th (n > 0) raises, or the commit does when n is the last.
RecordFails(id, rec, n) ==
    LET r == Row(id, rec) IN
    /\ Fault
    /\ id \notin used
    /\ n \in 1..Statements(r)
    /\ used' = used \cup {id}
    /\ work' = Insert(work, r, n)
    /\ UNCHANGED <<db, recorded, purged, swept, lists>>

-----------------------------------------------------------------------------
(* The nightly purge *)

Expired(w) == [w EXCEPT !.captures = {c \in @ : c.expires > now}]

\* Without PRAGMA foreign_keys = ON.
CutNoCascade(w, cutoff) == [w EXCEPT !.requests = {r \in @ : r.ts >= cutoff}]

\* DELETE FROM requests, with ON DELETE CASCADE on the two other tables.
Cut(w, cutoff) ==
    LET kept == {r \in w.requests : r.ts >= cutoff}
        ids == {r.id : r \in kept}
    IN [w EXCEPT !.requests = kept,
                 !.findings = {f \in @ : f.request \in ids},
                 !.captures = {c \in @ : c.request \in ids}]

Purge ==
    /\ work' = Cut(Expired(work), now - Retention)
    /\ db' = work'
    /\ purged' = Max({purged, now - Retention})
    /\ swept' = [cutoff |-> now - Retention, at |-> now]
    /\ UNCHANGED <<used, recorded, lists, faults>>

\* The second DELETE or the commit raises.
PurgeFails ==
    /\ Fault
    /\ work' \in {Expired(work), Cut(Expired(work), now - Retention)}
    /\ purged' = Max({purged, now - Retention})
    /\ UNCHANGED <<db, used, recorded, swept, lists>>

-----------------------------------------------------------------------------
(* The listing, one keyset page after another *)

Newer(a, b) == a.ts > b.ts \/ (a.ts = b.ts /\ a.id > b.id)
Oldest(rows) == CHOOSE r \in rows : \A s \in rows \ {r} : Newer(s, r)

InScope(rows, team) == {r \in rows : team \in {Everyone, r.team}}

AfterTimestamp(cursor, r) == cursor.ts > r.ts
After(cursor, r) == Newer(cursor, r)

\* limit + 1 rows are fetched to know whether a further page exists.
ListRequests(w, team, begun, cursor) ==
    LET rows == {r \in InScope(w.requests, team) : ~begun \/ After(cursor, r)}
        fetched == {r \in rows : Cardinality({s \in rows : Newer(s, r)}) <= PageSize}
        more == Cardinality(fetched) > PageSize
        page == IF more THEN fetched \ {Oldest(fetched)} ELSE fetched
    IN [page |-> page, more |-> more]

\* pages: what the reader was shown; present: history, the rows there at every page.
NoListing == [pages |-> <<>>, open |-> TRUE, present |-> {}]

NextPage(c) ==
    LET l == lists[c]
        begun == l.pages # <<>>
        cursor == IF begun THEN Oldest(l.pages[Len(l.pages)]) ELSE [ts |-> 0, id |-> 0]
        answer == ListRequests(work, ScopeOf[c], begun, cursor)
    IN
    /\ l.open
    /\ lists' = [lists EXCEPT ![c] =
                    [pages |-> Append(l.pages, answer.page),
                     open |-> answer.more,
                     present |-> InScope(work.requests, ScopeOf[c])
                                    \cap IF begun THEN l.present ELSE work.requests]]
    /\ UNCHANGED <<db, work, used, recorded, purged, swept, faults>>

-----------------------------------------------------------------------------
(* The aggregates of the dashboard: one query for each panel, over the rows of *)
(* a team, or of all, since a moment.                                          *)

RangeDays(token) ==
    LET n == token.n IN
    CASE token.unit = "h" -> Max({1, (n + 23) \div 24})
      [] token.unit = "d" -> Max({1, n})
      [] token.unit = "w" -> Max({1, 7 * n})
      [] OTHER -> 7

\* WHERE tenant_id = ? AND team = ? AND ts >= ?
Since(w, team, day) == {r \in InScope(w.requests, team) : r.ts >= day}

\* findings JOIN requests
Joined(w, rows) == {f \in w.findings : f.request \in {r.id : r \in rows}}

Entry(w, f) ==
    LET r == CHOOSE r \in w.requests : r.id = f.request IN r.trace[f.pos]

Having(rows, field, key) == {r \in rows : r[field] = key}
Flagged(rows) == {r \in rows : r.action # "allowed"}
Cost(rows) == SumFunction([r \in rows |-> r.cost])

Leads(a, b) == a[1] > b[1] \/ (a[1] = b[1] /\ a[2] > b[2])

\* The groups that come first by a rank of two numbers. Of those that tie, the
\* code takes the first by name and this some.
Top(groups, rank) ==
    LET n == Cardinality(DOMAIN groups) IN
    Restrict(groups, CHOOSE keys \in SUBSET DOMAIN groups :
        /\ Cardinality(keys) = IF n < TopLimit THEN n ELSE TopLimit
        /\ \A k \in keys, j \in DOMAIN groups \ keys : ~Leads(rank[j], rank[k]))

CountsBy(rows, field) ==
    [key \in {r[field] : r \in rows} |-> Cardinality(Having(rows, field, key))]

CostsBy(rows, field) ==
    [key \in {r[field] : r \in rows} |-> Cost(Having(rows, field, key))]

FlaggedBy(rows, field) ==
    [key \in {r[field] : r \in rows} |->
        [count |-> Cardinality(Having(rows, field, key)),
         flagged |-> Cardinality(Flagged(Having(rows, field, key)))]]

ByAction(w, team, days) == CountsBy(Since(w, team, now - days), "action")

\* Without the filter of the team.
SparklineOfAll(w, team, days) == CountsBy(Since(w, Everyone, now - days), "ts")

Sparkline(w, team, days) == CountsBy(Since(w, team, now - days), "ts")

SensitiveRequests(w, team, days) ==
    Cardinality({f.request : f \in Joined(w, Since(w, team, now - days))})

TopEntityTypes(w, team, days) ==
    LET found == Joined(w, Since(w, team, now - days))
        groups == [t \in {Entry(w, f).type : f \in found} |->
                      Cardinality({f \in found : Entry(w, f).type = t})]
    IN Top(groups, [t \in DOMAIN groups |-> <<groups[t], 0>>])

TopTeams(w, team, days) ==
    LET groups == FlaggedBy(Since(w, team, now - days), "team")
    IN Top(groups, [k \in DOMAIN groups |-> <<groups[k].count, 0>>])

TopUsers(w, team, days) ==
    LET groups == FlaggedBy(Since(w, team, now - days), "user")
    IN Top(groups, [k \in DOMAIN groups |-> <<groups[k].flagged, groups[k].count>>])

SpendByProvider(w, team, days) == CostsBy(Since(w, team, now - days), "provider")
SpendByModel(w, team, days) == CostsBy(Since(w, team, now - days), "model")

StatsOverview(w, team, token) ==
    LET days == RangeDays(token) IN
    [today |-> Cardinality(Since(w, team, now)),
     last7d |-> Cardinality(Since(w, team, now - 7)),
     last30d |-> Cardinality(Since(w, team, now - 30)),
     byAction |-> ByAction(w, team, days),
     windowed |-> SumFunction(ByAction(w, team, days)),
     sparkline |-> Sparkline(w, team, days),
     sensitive |-> SensitiveRequests(w, team, days),
     topTypes |-> TopEntityTypes(w, team, days),
     topTeams |-> TopTeams(w, team, days),
     topUsers |-> TopUsers(w, team, days),
     byProvider |-> SpendByProvider(w, team, days),
     byModel |-> SpendByModel(w, team, days)]

\* How many findings of each type reach each confidence threshold.
DetectionEstimates(w, team, token) ==
    LET found == Joined(w, Since(w, team, now - RangeDays(token)))
        typed(t) == {f \in found : Entry(w, f).type = t}
    IN [t \in {Entry(w, f).type : f \in found} |->
          [total |-> Cardinality(typed(t)),
           at |-> [c \in {50, 60, 70, 80, 90} |->
                     Cardinality({f \in typed(t) : Entry(w, f).sure >= c})]]]

FalsePositiveRate(w, team, token) ==
    LET found == Joined(w, Since(w, team, now - RangeDays(token)))
    IN [total |-> Cardinality(found),
        reported |-> Cardinality({f \in found : f.last > 0})]

=============================================================================
