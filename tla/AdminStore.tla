----------------------------- MODULE AdminStore -----------------------------
(***************************************************************************)
(* The Admin API of admin/routes_admin.py over admin/store.py: the tables   *)
(* of the configuration, the append-only audit_events, the sessions and     *)
(* their roles (admin/rbac.py), the seeding of every start (main.py), on    *)
(* the connection of AuditStore.                                            *)
(*                                                                         *)
(* A table of the configuration is the sequence of its rows; a row holds    *)
(* the number of the change that wrote it last (0: seeded or default) and   *)
(* its status. The reads and the 401, 403 and 404 answers change nothing    *)
(* and are no steps, except a read of the settings, which inserts the       *)
(* default row.                                                             *)
(***************************************************************************)
EXTENDS AuditStore

CONSTANTS
    TeamOf,        \* the team of each role's session
    Loads,         \* bound: how many requests, changes and restarts come together
    Ranges         \* the range tokens of the dashboard that are checked

Roles == {"viewer", "auditor", "admin", "owner"}
Tables == {"team", "user", "key", "detector", "dictionary", "suggestion",
           "settings", "credential"}

ASSUME AdminAssumption ==
    /\ Readers \subseteq Roles
    /\ Loads \subseteq Nat \X Nat \X Nat
    /\ Loads # {}

VARIABLES
    tried,     \* history: every change that was executed, as its event
    answered,  \* history: those whose handler returned
    boot

admin == <<tried, answered>>
vars == <<now, db, work, audit, faults, admin, boot>>

Within(requests, changes, boots) ==
    \E load \in Loads : requests <= load[1] /\ changes <= load[2] /\ boots <= load[3]

-----------------------------------------------------------------------------
(* Roles *)

Reads == {"read_stats", "read_requests", "read_policy", "read_detectors",
          "read_dictionaries", "read_suggestions", "read_access", "read_settings"}

TraceReads == {"read_trace", "read_captured_content", "report_false_positive"}

ConfiguresAndAccess == {"write_policy", "write_detectors", "write_dictionaries",
                        "write_suggestions", "write_settings", "write_access"}

Configures == {"write_policy", "write_detectors", "write_dictionaries",
               "write_suggestions", "write_settings"}

role_permissions(role) ==
    CASE role = "viewer" -> Reads
      [] role = "auditor" -> Reads \cup TraceReads
      [] role = "admin" -> Reads \cup TraceReads \cup Configures
      [] role = "owner" -> Reads \cup TraceReads \cup Configures \cup {"write_access"}

tenant_wide(role) == role \in {"owner", "admin"}

scope_team(role) == IF tenant_wide(role) THEN Everyone ELSE TeamOf[role]

\* A session has a team, and its listings get the filter of scope_team.
ASSUME ScopeAssumption ==
    /\ \A role \in Roles : TeamOf[role] # Everyone
    /\ \A c \in Readers : ScopeOf[c] = scope_team(c)

-----------------------------------------------------------------------------
(* Handlers that change the configuration *)

Route(needs, table, how, status) ==
    [needs |-> needs, table |-> table, how |-> how, status |-> status]

\* What each route requires and writes. A status distinguishes the rows that a
\* later change treats otherwise. suggestion_apply and suggestion_dismiss have no
\* guard on the status: the last one stands.
Routes ==
    [team_create |-> Route("write_access", "team", "insert", "live"),
     team_update |-> Route("write_access", "team", "update", "live"),
     user_create |-> Route("write_access", "user", "insert", "live"),
     key_issue |-> Route("write_access", "key", "insert", "live"),
     key_revoke |-> Route("write_access", "key", "revoke", "revoked"),
     detector_update |-> Route("write_detectors", "detector", "update", "live"),
     dictionary_create |-> Route("write_dictionaries", "dictionary", "insert", "live"),
     suggestion_apply |-> Route("write_suggestions", "suggestion", "update", "applied"),
     suggestion_dismiss |-> Route("write_suggestions", "suggestion", "update", "dismissed"),
     settings_update |-> Route("write_settings", "settings", "put", "live"),
     settings_vault_rotate |-> Route("write_settings", "settings", "put", "live"),
     settings_provider_credential |-> Route("write_settings", "credential", "put", "live")]

\* The rows a route can write: a fresh one, any that exists (404 otherwise), a key
\* that is not revoked, or the one row of the tenant, present or not.
Targets(w, op) ==
    LET rows == w.config[Routes[op].table] IN
    CASE Routes[op].how = "insert" -> {Len(rows) + 1}
      [] Routes[op].how = "update" -> DOMAIN rows
      [] Routes[op].how = "revoke" -> {n \in DOMAIN rows : rows[n].status # "revoked"}
      [] Routes[op].how = "put" -> {1}

Write(rows, n, row) ==
    [i \in 1..Max({Len(rows), n}) |-> IF i = n THEN row ELSE rows[i]]

Serial == Cardinality(tried) + 1

Written(w, op, n) ==
    [w EXCEPT !.config[Routes[op].table] =
        Write(@, n, [last |-> Serial, status |-> Routes[op].status])]

Flag(w, f) ==
    [w EXCEPT !.findings = (@ \ {f}) \cup {[f EXCEPT !.last = Serial]}]

Event(role, op, target) ==
    [serial |-> Serial, by |-> role, op |-> op, target |-> target]

Log(w, e) == [w EXCEPT !.events = @ \cup {e}]

EventFirst(w, e) ==
    /\ tried' = tried \cup {e}
    /\ \/ /\ work' = Log(w, e)
          /\ db' = work'
          /\ answered' = answered \cup {e}
          /\ UNCHANGED faults
       \/ /\ Fault
          /\ work' = w
          /\ db' = Log(work, e)
          /\ UNCHANGED answered

EventUncommitted(w, e) ==
    /\ tried' = tried \cup {e}
    /\ work' = Log(w, e)
    /\ db' = w
    /\ answered' = answered \cup {e}
    /\ UNCHANGED faults

\* A handler executes its change, commits it, executes the insert of the event
\* and commits that. The commit of the change, the insert or the last commit may
\* raise; a kill of the process there leaves the same durable tables.
ChangeAndRecord(w, e) ==
    /\ tried' = tried \cup {e}
    /\ \/ /\ work' = Log(w, e)
          /\ db' = work'
          /\ answered' = answered \cup {e}
          /\ UNCHANGED faults
       \/ /\ Fault
          /\ \/ work' = w /\ UNCHANGED db
             \/ work' = w /\ db' = w
             \/ work' = Log(w, e) /\ db' = w
          /\ UNCHANGED answered

Change(role, op, n) ==
    /\ Within(Cardinality(used), Serial, boot)
    /\ Routes[op].needs \in role_permissions(role)
    /\ n \in Targets(work, op)
    /\ ChangeAndRecord(Written(work, op, n), Event(role, op, <<n, 0>>))
    /\ UNCHANGED <<now, audit, boot>>

ReportFalsePositive(role, f) ==
    /\ Within(Cardinality(used), Serial, boot)
    /\ "report_false_positive" \in role_permissions(role)
    /\ f \in Joined(work, InScope(work.requests, scope_team(role)))
    /\ ChangeAndRecord(Flag(work, f), Event(role, "finding_false_positive", <<f.request, f.pos>>))
    /\ UNCHANGED <<now, audit, boot>>

\* GET /settings of any role: the default row is inserted when it is missing.
ReadSettings ==
    /\ work.config["settings"] = <<>>
    /\ work' = [work EXCEPT !.config["settings"] = <<[last |-> 0, status |-> "live"]>>]
    /\ \/ db' = work' /\ UNCHANGED faults
       \/ Fault /\ UNCHANGED db
    /\ UNCHANGED <<now, audit, admin, boot>>

-----------------------------------------------------------------------------
(* Starts *)

\* A start inserts the seeded teams, then the detectors, under new ids (one row
\* stands for each group) and replaces the sessions by the same ones.
SeedTeams(w) == [w EXCEPT !.config["team"] = Append(@, [last |-> 0, status |-> "live"])]

SeedAdmin(w) ==
    [SeedTeams(w) EXCEPT !.config["detector"] = Append(@, [last |-> 0, status |-> "live"])]

\* No route creates suggestions (AdminStore.create_suggestion has no caller); one
\* is taken to be there.
Empty == [requests |-> {}, findings |-> {}, captures |-> {}, events |-> {},
          config |-> [t \in Tables |-> IF t = "suggestion"
                                       THEN <<[last |-> 0, status |-> "open"]>> ELSE <<>>]]

Init ==
    /\ now = 0
    /\ db = SeedAdmin(Empty)
    /\ work = db
    /\ used = {}
    /\ recorded = {}
    /\ purged = 0 - Retention
    /\ swept = [cutoff |-> 0 - Retention, at |-> 0]
    /\ lists = [c \in Readers |-> NoListing]
    /\ tried = {}
    /\ answered = {}
    /\ faults = 0
    /\ boot = 0

\* The open transaction is lost; a reader keeps the cursor it was given. Each seed
\* is committed by itself, so a start that was killed before this one may have
\* left the first of them.
Restart ==
    /\ Within(Cardinality(used), Cardinality(tried), boot + 1)
    /\ boot' = boot + 1
    /\ work' \in {SeedAdmin(db), SeedAdmin(SeedTeams(db))}
    /\ db' = work'
    /\ UNCHANGED <<now, audit, faults, admin>>

\* SQLite itself ends the transaction when a statement fails for want of space.
RolledBack ==
    /\ work # db
    /\ work' = db
    /\ UNCHANGED <<now, db, audit, faults, admin, boot>>

Tick ==
    /\ now < MaxClock
    /\ now' = now + 1
    /\ UNCHANGED <<db, work, audit, faults, admin, boot>>

AuditStep ==
    /\ \/ \E id \in Ids, rec \in Records :
            /\ Within(Cardinality(used) + 1, Cardinality(tried), boot)
            /\ \/ RecordRequest(id, rec)
               \/ \E n \in 1..Statements(rec) : RecordFails(id, rec, n)
       \/ Purge
       \/ PurgeFails
       \/ \E c \in Readers : NextPage(c)
    /\ UNCHANGED <<now, admin, boot>>

AdminStep ==
    \E role \in Roles :
        \/ \E op \in DOMAIN Routes : \E n \in Targets(work, op) : Change(role, op, n)
        \/ \E f \in work.findings : ReportFalsePositive(role, f)

Next ==
    \/ AuditStep
    \/ AdminStep
    \/ ReadSettings
    \/ RolledBack
    \/ Tick
    \/ Restart

Spec == Init /\ [][Next]_vars

-----------------------------------------------------------------------------
(* Properties *)

IdsOf(rows) == {r.id : r \in rows}

Tabled(w) ==
    /\ DOMAIN w.config = Tables
    /\ \A t \in Tables : \A n \in DOMAIN w.config[t] :
          /\ w.config[t][n].last \in 0..Cardinality(tried)
          /\ w.config[t][n].status \in {"live", "revoked", "open", "applied", "dismissed"}
    /\ w.events \subseteq tried
    /\ Cardinality(IdsOf(w.requests)) = Cardinality(w.requests)
    /\ IdsOf(w.requests) \subseteq used
    /\ \A f \in w.findings : f.last \in 0..Cardinality(tried)

\* The shape of the two views of the database and of the histories.
TypeOK ==
    /\ now \in 0..MaxClock
    /\ Tabled(db)
    /\ Tabled(work)
    /\ used \subseteq Ids
    /\ answered \subseteq tried
    /\ swept.cutoff <= purged
    /\ Within(Cardinality(used), Cardinality(tried), boot)

\* A request whose recording returned stays durable with its whole decision
\* trace, and with its capture while that has not expired, until a purge begins
\* with a later cutoff: through failed writes, other handlers' commits and
\* restarts (audit/store.py:107-173, 521-527).
RecordedUntilPurged ==
    \A r \in recorded : r.ts >= purged =>
        /\ r \in db.requests
        /\ \A i \in DOMAIN r.trace :
              \E f \in db.findings : f.request = r.id /\ f.pos = i
        /\ Sealed(r) /\ r.ts + CaptureTtl > now =>
              \E c \in db.captures : c.request = r.id

\* After a purge returned nothing older than its cutoff and no expired capture is
\* durable, however the deletions met an open transaction; and no finding or
\* capture ever outlives its request (audit/store.py:521-527 and the cascades of
\* its schema).
PurgeIsClean ==
    /\ \A r \in db.requests : r.ts >= swept.cutoff
    /\ \A c \in db.captures : c.expires > swept.at
    /\ \A w \in {db, work} :
          {x.request : x \in w.findings} \cup {x.request : x \in w.captures}
              \subseteq IdsOf(w.requests)

\* Page after page, a listing shows no row twice and in strictly falling order of
\* (ts, id), and once it has ended it has shown every row that was there at each
\* of its pages, whatever was recorded, purged or lost between two of them
\* (audit/store.py:186-222).
PagingIsExact ==
    \A c \in Readers :
        LET pages == lists[c].pages
            shown == UNION {pages[i] : i \in DOMAIN pages}
        IN /\ \A i, j \in DOMAIN pages : i < j =>
                 \A r \in pages[i], s \in pages[j] : Newer(r, s)
           /\ ~lists[c].open => lists[c].present \subseteq shown

Remembered(team, day) ==
    {r \in InScope(recorded, team) : r.ts >= day /\ r.ts >= purged}

\* The entries of the traces of some rows, and those reported as false positives.
Entries(rows) == UNION {{<<r, i>> : i \in DOMAIN r.trace} : r \in rows}

Reported(rows) ==
    {x \in Entries(rows) : \E e \in answered :
        e.op \notin DOMAIN Routes /\ e.target = <<x[1].id, x[2]>>}

\* A number shown counts what was recorded, and until something fails nothing else.
Tallies(shown, known) == shown >= known /\ (faults = 0 => shown = known)

Groups(panel, keys) == keys \subseteq DOMAIN panel /\ (faults = 0 => DOMAIN panel = keys)

CountsPer(panel, rows, field) ==
    /\ Groups(panel, {r[field] : r \in rows})
    /\ \A r \in rows : Tallies(panel[r[field]], Cardinality(Having(rows, field, r[field])))

CostsPer(panel, rows, field) ==
    /\ Groups(panel, {r[field] : r \in rows})
    /\ \A r \in rows : Tallies(panel[r[field]], Cost(Having(rows, field, r[field])))

\* A list that leaves a group out is full of groups that rank no lower.
Lists(list, rows, field, by) ==
    \A r \in rows :
        LET of == Having(rows, field, r[field])
            known == [count |-> Cardinality(of), flagged |-> Cardinality(Flagged(of))]
        IN IF r[field] \in DOMAIN list
           THEN \A part \in DOMAIN known : Tallies(list[r[field]][part], known[part])
           ELSE /\ Cardinality(DOMAIN list) >= TopLimit
                /\ \A k \in DOMAIN list : list[k][by] >= known[by]

RequestPanels(team, range) ==
    LET o == StatsOverview(work, team, range)
        rows == Remembered(team, now - RangeDays(range))
    IN /\ Tallies(o.today, Cardinality(Remembered(team, now)))
       /\ Tallies(o.last7d, Cardinality(Remembered(team, now - 7)))
       /\ Tallies(o.last30d, Cardinality(Remembered(team, now - 30)))
       /\ Tallies(o.windowed, Cardinality(rows))
       /\ CountsPer(o.byAction, rows, "action")
       /\ CountsPer(o.sparkline, rows, "ts")
       /\ CostsPer(o.byProvider, rows, "provider")
       /\ CostsPer(o.byModel, rows, "model")
       /\ Lists(o.topTeams, rows, "team", "count")
       /\ Lists(o.topUsers, rows, "user", "flagged")

OfType(entries, t) == {x \in entries : x[1].trace[x[2]].type = t}
AtLeast(entries, c) == {x \in entries : x[1].trace[x[2]].sure >= c}

FindingPanels(team, range) ==
    LET o == StatsOverview(work, team, range)
        estimates == DetectionEstimates(work, team, range)
        rate == FalsePositiveRate(work, team, range)
        rows == Remembered(team, now - RangeDays(range))
        found == Entries(rows)
        types == {x[1].trace[x[2]].type : x \in found}
    IN /\ Tallies(o.sensitive, Cardinality({r \in rows : r.trace # <<>>}))
       /\ Groups(estimates, types)
       /\ \A t \in types :
             LET of == OfType(found, t)
                 known == Cardinality(of)
             IN /\ IF t \in DOMAIN o.topTypes
                   THEN Tallies(o.topTypes[t], known)
                   ELSE /\ Cardinality(DOMAIN o.topTypes) >= TopLimit
                        /\ \A k \in DOMAIN o.topTypes : o.topTypes[k] >= known
                /\ Tallies(estimates[t].total, known)
                /\ \A c \in DOMAIN estimates[t].at :
                      Tallies(estimates[t].at[c], Cardinality(AtLeast(of, c)))
       /\ Tallies(rate.total, Cardinality(found))
       /\ Tallies(rate.reported, Cardinality(Reported(rows)))

\* Every panel of the dashboard, for the tenant and for each team, counts what was
\* recorded and not purged, whatever failed since, and until something fails it
\* counts nothing else: the totals, the breakdowns by action and by day, the
\* requests with findings, the top lists, the spend, the estimates and the
\* reported false positives, each a query of its own over tables that recordings,
\* purges and reports change (audit/store.py:270-514).
PanelsCountRecorded ==
    \A range \in Ranges, team \in Teams \cup {Everyone} :
        RequestPanels(team, range) /\ FindingPanels(team, range)

Stands(w, e) ==
    IF e.op \in DOMAIN Routes
    THEN LET rows == w.config[Routes[e.op].table] IN
         /\ e.target[1] \in DOMAIN rows
         /\ rows[e.target[1]].last >= e.serial
    ELSE \A f \in w.findings :
            <<f.request, f.pos>> = e.target => f.last >= e.serial

\* What an event says happened is durable: the row it names was last written by
\* its change or by a later one, also after failed writes and restarts, or the
\* finding has been purged (admin/store.py:171, "append one immutable event").
EventsAreTrue == \A e \in db.events : Stands(db, e)

\* Every change an administrator was told of has its event, for good
\* (admin/store.py:3-5).
AnsweredIsLogged == answered \subseteq db.events

OwnersTables == {"team", "user", "key"}

\* Only the owner changes teams, users and keys, an auditor at most flags a
\* finding and a viewer nothing; and a viewer or an auditor sees, and flags,
\* requests of their own team alone (admin/rbac.py:49-52, 104-107).
RolesAreKept ==
    /\ \A e \in tried :
          IF e.op \in DOMAIN Routes
          THEN e.by \in IF Routes[e.op].table \in OwnersTables THEN {"owner"}
                                                               ELSE {"owner", "admin"}
          ELSE /\ e.by # "viewer"
               /\ e.by = "auditor" => \A r \in work.requests :
                     r.id = e.target[1] => r.team = TeamOf["auditor"]
    /\ \A c \in Readers \cap {"viewer", "auditor"} :
          \A i \in DOMAIN lists[c].pages : \A r \in lists[c].pages[i] : r.team = TeamOf[c]

=============================================================================
