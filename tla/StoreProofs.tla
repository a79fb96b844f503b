----------------------------- MODULE StoreProofs -----------------------------
(***************************************************************************)
(* Proofs about modules AuditStore and AdminStore, for all ids, records,    *)
(* readers, roles, days and numbers of failures and restarts.               *)
(*                                                                         *)
(* Every write reaches the durable tables through those the connection      *)
(* sees, and a restart or a rollback takes it the other way: so what is     *)
(* proved of the durable tables must hold of both, at every moment.         *)
(***************************************************************************)
EXTENDS AdminStore, FiniteSetTheorems, SequenceTheorems, TLAPS

LEMMA Numbers == Ids \subseteq Nat /\ Retention \in Nat /\ CaptureTtl \in Nat
BY AuditAssumption

USE Numbers

Statuses == {"live", "revoked", "open", "applied", "dismissed"}

ConfigRow == [last : Nat, status : Statuses]

Shape(w) ==
    /\ DOMAIN w = {"requests", "findings", "captures", "events", "config"}
    /\ w = [x \in DOMAIN w |-> w[x]]

\* The shape of one view. A finding is known by its request and its position.
Traced(w, ids) ==
    /\ Shape(w)
    /\ w.config \in [Tables -> Seq(ConfigRow)]
    /\ w.findings \subseteq [request : ids, pos : Nat, last : Nat]
    /\ \A f, g \in w.findings : f.request = g.request /\ f.pos = g.pos => f = g

\* What RecordedUntilPurged says of one view.
Kept(w, rows, cutoff, time) ==
    \A r \in rows : r.ts >= cutoff =>
        /\ r \in w.requests
        /\ \A i \in DOMAIN r.trace :
              \E f \in w.findings : f.request = r.id /\ f.pos = i
        /\ Sealed(r) /\ r.ts + CaptureTtl > time =>
              \E c \in w.captures : c.request = r.id /\ c.expires = r.ts + CaptureTtl

Owned(w) ==
    {x.request : x \in w.findings} \cup {x.request : x \in w.captures} \subseteq IdsOf(w.requests)

\* What PurgeIsClean says of one view.
Clean(w, last) ==
    /\ \A r \in w.requests : r.ts >= last.cutoff
    /\ CaptureTtl > 0 => \A c \in w.captures : c.expires > last.at
    /\ Owned(w)

\* What EventsAreTrue says of one view.
Happened(w) == \A e \in w.events : Stands(w, e)

\* Changes are numbered as they come; a report names a request there was.
Numbered(changes, ids) ==
    \A e \in changes :
        /\ e.serial \in 1..Cardinality(changes)
        /\ e.op \notin DOMAIN Routes => e.target[1] \in ids

View(w) ==
    /\ Traced(w, used)
    /\ Kept(w, recorded, purged, now)
    /\ Clean(w, swept)
    /\ Happened(w)
    /\ answered \subseteq w.events
    /\ w.events \subseteq tried

Histories ==
    /\ now \in Nat /\ purged \in Int
    /\ swept.cutoff \in Int /\ swept.at \in Nat
    /\ purged <= now - Retention /\ swept.cutoff <= now - Retention /\ swept.at <= now
    /\ used \subseteq Nat
    /\ \A r \in recorded : r.ts \in Nat
    /\ IsFiniteSet(tried)
    /\ Numbered(tried, used)

StoreInv == Histories /\ View(db) /\ View(work)

-----------------------------------------------------------------------------
(* What the operators of the modules write. *)

\* The larger of two integers.
LEMMA MaxOfTwo ==
    ASSUME NEW a \in Int, NEW b \in Int
    PROVE  /\ Max({a, b}) \in {a, b}
           /\ Max({a, b}) >= a /\ Max({a, b}) >= b
<1>1. \E x \in {a, b} : \A y \in {a, b} : x >= y
    <2>1. CASE a >= b
        BY <2>1
    <2>2. CASE b >= a
        BY <2>2
    <2> QED BY <2>1, <2>2
<1>2. Max({a, b}) \in {a, b} /\ \A y \in {a, b} : Max({a, b}) >= y
    BY <1>1 DEF Max
<1> QED BY <1>2

\* Every route writes to a table of the configuration.
LEMMA RouteFacts ==
    ASSUME NEW op \in DOMAIN Routes
    PROVE  /\ Routes[op].table \in Tables
           /\ Routes[op].how \in {"insert", "update", "revoke", "put"}
           /\ Routes[op].status \in Statuses
<1>1. DOMAIN Routes =
        {"team_create", "team_update", "user_create", "key_issue", "key_revoke",
         "detector_update", "dictionary_create", "suggestion_apply", "suggestion_dismiss",
         "settings_update", "settings_vault_rotate", "settings_provider_credential"}
    BY DEF Routes
<1> DEFINE Fits(route) == /\ route.table \in Tables
                          /\ route.how \in {"insert", "update", "revoke", "put"}
                          /\ route.status \in Statuses
<1>2. /\ Routes["team_create"] = Route("write_access", "team", "insert", "live")
      /\ Routes["team_update"] = Route("write_access", "team", "update", "live")
      /\ Routes["user_create"] = Route("write_access", "user", "insert", "live")
      /\ Routes["key_issue"] = Route("write_access", "key", "insert", "live")
      /\ Routes["key_revoke"] = Route("write_access", "key", "revoke", "revoked")
      /\ Routes["detector_update"] = Route("write_detectors", "detector", "update", "live")
    BY DEF Routes
<1>3. /\ Routes["dictionary_create"] = Route("write_dictionaries", "dictionary", "insert", "live")
      /\ Routes["suggestion_apply"] = Route("write_suggestions", "suggestion", "update", "applied")
      /\ Routes["suggestion_dismiss"] =
            Route("write_suggestions", "suggestion", "update", "dismissed")
      /\ Routes["settings_update"] = Route("write_settings", "settings", "put", "live")
      /\ Routes["settings_vault_rotate"] = Route("write_settings", "settings", "put", "live")
      /\ Routes["settings_provider_credential"] =
            Route("write_settings", "credential", "put", "live")
    BY DEF Routes
<1>4. \A needs, table, how, status :
         /\ table \in Tables /\ status \in Statuses
         /\ how \in {"insert", "update", "revoke", "put"}
         => Fits(Route(needs, table, how, status))
    BY DEF Route
<1> HIDE DEF Fits
<1>5. \A o \in {"team_create", "team_update", "user_create", "key_issue", "key_revoke",
                "detector_update"} : Fits(Routes[o])
    BY <1>2, <1>4 DEF Tables, Statuses
<1>6. \A o \in {"dictionary_create", "suggestion_apply", "suggestion_dismiss",
                "settings_update", "settings_vault_rotate", "settings_provider_credential"} :
         Fits(Routes[o])
    BY <1>3, <1>4 DEF Tables, Statuses
<1>7. Fits(Routes[op])
    BY <1>1, <1>5, <1>6
<1> QED BY <1>7 DEF Fits

LEMMA InsertFields ==
    ASSUME NEW w, NEW ids, Traced(w, ids), NEW r, NEW n \in Nat \ {0}
    PROVE  LET v == Insert(w, r, n) IN
           /\ v.requests = w.requests \cup {r}
           /\ v.findings = w.findings \cup FindingsOf(r, n - 1)
           /\ Sealed(r) /\ n = Statements(r) =>
                 v.captures = w.captures \cup {[request |-> r.id, expires |-> now + CaptureTtl]}
           /\ ~(Sealed(r) /\ n = Statements(r)) => v.captures = w.captures
           /\ v.events = w.events /\ v.config = w.config
           /\ Shape(v)
BY DEF Insert, Traced, Shape

LEMMA ExpiredFields ==
    ASSUME NEW w, NEW ids, Traced(w, ids)
    PROVE  LET v == Expired(w) IN
           /\ v.requests = w.requests /\ v.findings = w.findings
           /\ v.captures = {c \in w.captures : c.expires > now}
           /\ v.events = w.events /\ v.config = w.config
           /\ Shape(v)
BY DEF Expired, Traced, Shape

LEMMA CutFields ==
    ASSUME NEW w, NEW ids, Traced(w, ids), NEW cutoff
    PROVE  LET v == Cut(w, cutoff)
               kept == {r \in w.requests : r.ts >= cutoff}
           IN
           /\ v.requests = kept
           /\ v.findings = {f \in w.findings : f.request \in IdsOf(kept)}
           /\ v.captures = {c \in w.captures : c.request \in IdsOf(kept)}
           /\ v.events = w.events /\ v.config = w.config
           /\ Shape(v)
BY DEF Cut, Traced, Shape, IdsOf

LEMMA LogFields ==
    ASSUME NEW w, NEW ids, Traced(w, ids), NEW e
    PROVE  LET v == Log(w, e) IN
           /\ v.requests = w.requests /\ v.findings = w.findings /\ v.captures = w.captures
           /\ v.events = w.events \cup {e} /\ v.config = w.config
           /\ Shape(v)
BY DEF Log, Traced, Shape

LEMMA FlagFields ==
    ASSUME NEW w, NEW ids, Traced(w, ids), NEW f \in w.findings
    PROVE  LET v == Flag(w, f) IN
           /\ v.requests = w.requests /\ v.captures = w.captures
           /\ v.findings = (w.findings \ {f}) \cup
                 {[request |-> f.request, pos |-> f.pos, last |-> Serial]}
           /\ v.events = w.events /\ v.config = w.config
           /\ Shape(v)
<1>1. f \in [request : ids, pos : Nat, last : Nat]
    BY DEF Traced
<1>2. [f EXCEPT !.last = Serial] = [request |-> f.request, pos |-> f.pos, last |-> Serial]
    BY <1>1
<1> QED BY <1>2 DEF Flag, Traced, Shape

\* One row is put, and no row disappears.
RowPut(rows, n, row, result) ==
    /\ result \in Seq(ConfigRow)
    /\ DOMAIN result = DOMAIN rows \cup {n}
    /\ result[n] = row
    /\ \A i \in DOMAIN rows \ {n} : result[i] = rows[i]

LEMMA WriteFacts ==
    ASSUME NEW rows \in Seq(ConfigRow), NEW n \in 1..(Len(rows) + 1), NEW row \in ConfigRow
    PROVE  RowPut(rows, n, row, Write(rows, n, row))
<1> DEFINE m == Max({Len(rows), n})
<1>1. /\ m \in Nat /\ m >= n /\ m >= Len(rows)
      /\ \A i \in 1..m : i # n => i \in 1..Len(rows)
    <2>1. Len(rows) \in Int /\ n \in Int
        OBVIOUS
    <2>2. m \in {Len(rows), n} /\ m >= n /\ m >= Len(rows)
        BY <2>1, MaxOfTwo, Zenon
    <2> HIDE DEF m
    <2> QED BY <2>2
<1>2. Write(rows, n, row) = [i \in 1..m |-> IF i = n THEN row ELSE rows[i]]
    BY DEF Write
<1> HIDE DEF m
<1>3. \A i \in 1..m : (IF i = n THEN row ELSE rows[i]) \in ConfigRow
    BY <1>1
<1> QED BY <1>1, <1>2, <1>3 DEF RowPut

\* v is w with row n of table t written by this change.
RowWritten(w, v, t, n) ==
    /\ v.requests = w.requests /\ v.findings = w.findings /\ v.captures = w.captures
    /\ v.events = w.events
    /\ v.config \in [Tables -> Seq(ConfigRow)]
    /\ \A u \in Tables \ {t} : v.config[u] = w.config[u]
    /\ DOMAIN v.config[t] = DOMAIN w.config[t] \cup {n}
    /\ v.config[t][n].last = Serial
    /\ \A i \in DOMAIN w.config[t] \ {n} : v.config[t][i] = w.config[t][i]
    /\ Shape(v)

LEMMA WrittenFields ==
    ASSUME NEW w, NEW ids, Traced(w, ids), NEW op \in DOMAIN Routes, NEW n \in Targets(w, op),
           Serial \in Nat
    PROVE  RowWritten(w, Written(w, op, n), Routes[op].table, n)
<1> DEFINE t == Routes[op].table
           rows == w.config[t]
           row == [last |-> Serial, status |-> Routes[op].status]
           config == [w.config EXCEPT ![t] = Write(@, n, row)]
           v == Written(w, op, n)
<1>1. t \in Tables /\ rows \in Seq(ConfigRow) /\ row \in ConfigRow
    BY RouteFacts DEF Traced, ConfigRow
<1>2. n \in 1..(Len(rows) + 1)
    <2>1. CASE Routes[op].how = "insert"
        BY <1>1, <2>1 DEF Targets
    <2>2. CASE Routes[op].how = "update"
        BY <1>1, <2>2, SMTT(20) DEF Targets
    <2>3. CASE Routes[op].how = "revoke"
        BY <1>1, <2>3, SMTT(20) DEF Targets
    <2>4. CASE Routes[op].how = "put"
        BY <1>1, <2>4 DEF Targets
    <2> QED BY <2>1, <2>2, <2>3, <2>4, RouteFacts
<1> HIDE DEF t, rows, row, config, v
<1>3. /\ Write(rows, n, row) \in Seq(ConfigRow)
      /\ DOMAIN Write(rows, n, row) = DOMAIN rows \cup {n}
      /\ Write(rows, n, row)[n] = row
      /\ \A i \in DOMAIN rows \ {n} : Write(rows, n, row)[i] = rows[i]
    <2>1. RowPut(rows, n, row, Write(rows, n, row))
        BY <1>1, <1>2, WriteFacts
    <2> QED BY <2>1 DEF RowPut
<1>4. v = [w EXCEPT !.config = config]
    BY DEF Written, Traced, Shape, t, rows, row, config, v
<1>5. /\ v.requests = w.requests /\ v.findings = w.findings /\ v.captures = w.captures
      /\ v.events = w.events /\ v.config = config
      /\ Shape(v)
    BY <1>4 DEF Traced, Shape
<1>6. /\ config \in [Tables -> Seq(ConfigRow)]
      /\ config[t] = Write(rows, n, row)
      /\ \A u \in Tables \ {t} : config[u] = w.config[u]
    BY <1>1, <1>3 DEF Traced, config, rows
<1>7. row.last = Serial
    BY DEF row
<1> QED BY <1>1, <1>3, <1>5, <1>6, <1>7 DEF RowWritten, t, rows, v

\* Every row stays as it is, and a row that is new is of no change.
NoneChanged(old, new) ==
    /\ \A t \in Tables : \A i \in DOMAIN old[t] : i \in DOMAIN new[t] /\ new[t][i] = old[t][i]
    /\ \A t \in Tables : \A i \in DOMAIN new[t] :
          (i \in DOMAIN old[t] /\ new[t][i] = old[t][i]) \/ new[t][i].last = 0

\* The default row of the settings.
LEMMA SettingsFields ==
    ASSUME NEW w, NEW ids, Traced(w, ids), w.config["settings"] = <<>>
    PROVE  LET v == [w EXCEPT !.config["settings"] = <<[last |-> 0, status |-> "live"]>>] IN
           /\ v.requests = w.requests /\ v.findings = w.findings /\ v.captures = w.captures
           /\ v.events = w.events
           /\ v.config \in [Tables -> Seq(ConfigRow)]
           /\ NoneChanged(w.config, v.config)
           /\ Shape(v)
<1> DEFINE row == [last |-> 0, status |-> "live"]
           config == [w.config EXCEPT !["settings"] = <<row>>]
           v == [w EXCEPT !.config = config]
<1>1. row \in ConfigRow /\ row.last = 0
    BY DEF ConfigRow, Statuses
<1>2. "settings" \in Tables /\ DOMAIN w.config["settings"] = {}
    BY DEF Tables
<1> HIDE DEF row
<1>3. /\ config \in [Tables -> Seq(ConfigRow)]
      /\ \A t \in Tables \ {"settings"} : config[t] = w.config[t]
      /\ config["settings"] = <<row>>
      /\ DOMAIN <<row>> = {1} /\ <<row>>[1] = row
    BY <1>1, <1>2 DEF Traced
<1>4. v = [w EXCEPT !.config["settings"] = <<[last |-> 0, status |-> "live"]>>]
    BY DEF Traced, Shape, row
<1> HIDE DEF config
<1>5. /\ v.requests = w.requests /\ v.findings = w.findings /\ v.captures = w.captures
      /\ v.events = w.events /\ v.config = config /\ Shape(v)
    BY DEF Traced, Shape
<1>6. NoneChanged(w.config, config)
    BY <1>1, <1>2, <1>3 DEF NoneChanged
<1> HIDE DEF v
<1> QED BY <1>3, <1>4, <1>5, <1>6

\* The rows a start seeds come after those that are there.
\* A row that is seeded comes after the rows of its table.
LEMMA SeedFields ==
    ASSUME NEW w, NEW ids, Traced(w, ids), NEW table \in Tables
    PROVE  LET v == [w EXCEPT !.config[table] = Append(@, [last |-> 0, status |-> "live"])] IN
           /\ v.requests = w.requests /\ v.findings = w.findings /\ v.captures = w.captures
           /\ v.events = w.events
           /\ v.config \in [Tables -> Seq(ConfigRow)]
           /\ NoneChanged(w.config, v.config)
           /\ Shape(v)
<1> DEFINE row == [last |-> 0, status |-> "live"]
           config == [w.config EXCEPT ![table] = Append(@, row)]
           v == [w EXCEPT !.config = config]
<1>1. row \in ConfigRow /\ row.last = 0
    BY DEF ConfigRow, Statuses
<1> HIDE DEF row
<1>3. \A t \in Tables : /\ w.config[t] \in Seq(ConfigRow)
                        /\ Append(w.config[t], row) \in Seq(ConfigRow)
                        /\ \A i \in DOMAIN w.config[t] :
                              /\ i \in DOMAIN Append(w.config[t], row)
                              /\ Append(w.config[t], row)[i] = w.config[t][i]
                        /\ \A i \in DOMAIN Append(w.config[t], row) :
                              \/ i \in DOMAIN w.config[t]
                              \/ Append(w.config[t], row)[i].last = 0
    BY <1>1 DEF Traced
<1>4. \A t \in Tables : config[t] \in {w.config[t], Append(w.config[t], row)}
    BY DEF Traced
<1>5. config \in [Tables -> Seq(ConfigRow)]
    BY <1>3, <1>4 DEF Traced
<1>6. v = [w EXCEPT !.config[table] = Append(@, [last |-> 0, status |-> "live"])]
    BY DEF Traced, Shape, row
<1> HIDE DEF config
<1>7. /\ v.requests = w.requests /\ v.findings = w.findings /\ v.captures = w.captures
      /\ v.events = w.events /\ v.config = config /\ Shape(v)
    BY DEF Traced, Shape
<1>8. NoneChanged(w.config, config)
    <2>1. ASSUME NEW t \in Tables
          PROVE  /\ \A i \in DOMAIN w.config[t] :
                       i \in DOMAIN config[t] /\ config[t][i] = w.config[t][i]
                 /\ \A i \in DOMAIN config[t] :
                       \/ i \in DOMAIN w.config[t] /\ config[t][i] = w.config[t][i]
                       \/ config[t][i].last = 0
        <3>1. CASE config[t] = w.config[t]
            BY <3>1
        <3>2. CASE config[t] = Append(w.config[t], row)
            BY <1>3, <3>2
        <3> QED BY <1>4, <3>1, <3>2
    <2> QED BY <2>1 DEF NoneChanged
<1> HIDE DEF v
<1> QED BY <1>5, <1>6, <1>7, <1>8

-----------------------------------------------------------------------------
(* What each operator preserves of a view. *)

Holds(w) == Traced(w, used) /\ Kept(w, recorded, purged, now) /\ Clean(w, swept)

\* A change of the configuration or of the events leaves the requests alone.
LEMMA SameRows ==
    ASSUME NEW w, Holds(w), NEW v, Shape(v), v.config \in [Tables -> Seq(ConfigRow)],
           v.requests = w.requests, v.findings = w.findings, v.captures = w.captures
    PROVE  Holds(v)
<1>1. Traced(v, used)
    BY DEF Holds, Traced
<1>2. Kept(v, recorded, purged, now)
    BY DEF Holds, Kept
<1>3. Clean(v, swept)
    BY DEF Holds, Clean, Owned
<1> QED BY <1>1, <1>2, <1>3 DEF Holds

\* A row that stays shows what it showed.
LEMMA SameConfig ==
    ASSUME NEW w, Happened(w), NEW v, v.findings = w.findings, v.events = w.events,
           NoneChanged(w.config, v.config)
    PROVE  Happened(v)
<1> SUFFICES ASSUME NEW e \in w.events PROVE Stands(v, e)
    BY DEF Happened
<1>1. Stands(w, e)
    BY DEF Happened
<1>2. CASE e.op \in DOMAIN Routes
    BY <1>1, <1>2, RouteFacts DEF Stands, NoneChanged
<1>3. CASE e.op \notin DOMAIN Routes
    BY <1>1, <1>3 DEF Stands
<1> QED BY <1>2, <1>3

LEMMA SettingsKeep ==
    ASSUME NEW w, Holds(w), Happened(w), w.config["settings"] = <<>>
    PROVE  LET v == [w EXCEPT !.config["settings"] = <<[last |-> 0, status |-> "live"]>>] IN
           Holds(v) /\ Happened(v) /\ v.events = w.events
<1> DEFINE v == [w EXCEPT !.config["settings"] = <<[last |-> 0, status |-> "live"]>>]
<1>1. /\ v.requests = w.requests /\ v.findings = w.findings /\ v.captures = w.captures
      /\ v.events = w.events
      /\ v.config \in [Tables -> Seq(ConfigRow)]
      /\ NoneChanged(w.config, v.config)
      /\ Shape(v)
    BY SettingsFields DEF Holds
<1> HIDE DEF v
<1>2. Holds(v) /\ Happened(v)
    BY <1>1, SameRows, SameConfig
<1> QED BY <1>1, <1>2 DEF v

LEMMA SeedKeeps ==
    ASSUME NEW w, Holds(w), Happened(w)
    PROVE  /\ Holds(SeedTeams(w)) /\ Happened(SeedTeams(w)) /\ SeedTeams(w).events = w.events
           /\ Holds(SeedAdmin(w)) /\ Happened(SeedAdmin(w)) /\ SeedAdmin(w).events = w.events
<1> DEFINE Seeded(x, table) ==
               [x EXCEPT !.config[table] = Append(@, [last |-> 0, status |-> "live"])]
<1>1. ASSUME NEW x, Holds(x), Happened(x), NEW table \in Tables
      PROVE  /\ Holds(Seeded(x, table)) /\ Happened(Seeded(x, table))
             /\ Seeded(x, table).events = x.events
    <2> DEFINE v == Seeded(x, table)
    <2>1. /\ v.requests = x.requests /\ v.findings = x.findings /\ v.captures = x.captures
          /\ v.events = x.events
          /\ v.config \in [Tables -> Seq(ConfigRow)]
          /\ NoneChanged(x.config, v.config)
          /\ Shape(v)
        BY <1>1, SeedFields DEF Holds
    <2> HIDE DEF v
    <2>2. Holds(v) /\ Happened(v)
        BY <1>1, <2>1, SameRows, SameConfig
    <2>3. Holds(v) /\ Happened(v) /\ v.events = x.events
        BY <2>1, <2>2
    <2> QED BY <2>3 DEF v
<1>2. SeedTeams(w) = Seeded(w, "team") /\ SeedAdmin(w) = Seeded(SeedTeams(w), "detector")
    BY DEF SeedTeams, SeedAdmin
<1>3. "team" \in Tables /\ "detector" \in Tables
    BY DEF Tables
<1> HIDE DEF Seeded
<1>4. Holds(SeedTeams(w)) /\ Happened(SeedTeams(w)) /\ SeedTeams(w).events = w.events
    BY <1>1, <1>2, <1>3
<1>5. Holds(SeedAdmin(w)) /\ Happened(SeedAdmin(w)) /\ SeedAdmin(w).events = w.events
    BY <1>1, <1>2, <1>3, <1>4
<1> QED BY <1>4, <1>5

\* What a start, or two of which one was killed, leave of the tables.
LEMMA StartFields ==
    ASSUME NEW w, NEW ids, Traced(w, ids), NEW v \in {SeedAdmin(w), SeedAdmin(SeedTeams(w))}
    PROVE  /\ v.requests = w.requests /\ v.findings = w.findings
           /\ v.captures = w.captures /\ v.events = w.events
           /\ NoneChanged(w.config, v.config)
           /\ Traced(v, ids)
<1> DEFINE Seeded(x, table) ==
               [x EXCEPT !.config[table] = Append(@, [last |-> 0, status |-> "live"])]
           From(x) == /\ x.requests = w.requests /\ x.findings = w.findings
                      /\ x.captures = w.captures /\ x.events = w.events
                      /\ NoneChanged(w.config, x.config)
                      /\ Traced(x, ids)
<1>1. ASSUME NEW x, From(x), NEW table \in Tables PROVE From(Seeded(x, table))
    <2> DEFINE y == Seeded(x, table)
    <2>1. /\ y.requests = x.requests /\ y.findings = x.findings /\ y.captures = x.captures
          /\ y.events = x.events
          /\ y.config \in [Tables -> Seq(ConfigRow)]
          /\ NoneChanged(x.config, y.config)
          /\ Shape(y)
        BY <1>1, SeedFields
    <2> HIDE DEF y
    <2>2. Traced(y, ids)
        BY <1>1, <2>1 DEF Traced
    <2>3. NoneChanged(w.config, y.config)
        BY <1>1, <2>1 DEF NoneChanged
    <2>4. From(y)
        BY <1>1, <2>1, <2>2, <2>3
    <2> QED BY <2>4 DEF y
<1>2. From(w)
    BY DEF NoneChanged
<1>3. /\ SeedTeams(w) = Seeded(w, "team")
      /\ \A x : SeedAdmin(x) = Seeded(Seeded(x, "team"), "detector")
    BY DEF SeedTeams, SeedAdmin
<1>4. "team" \in Tables /\ "detector" \in Tables
    BY DEF Tables
<1> HIDE DEF Seeded, From
<1>5. From(SeedAdmin(w)) /\ From(SeedAdmin(SeedTeams(w)))
    BY <1>1, <1>2, <1>3, <1>4
<1>6. From(v)
    BY <1>5
<1> QED BY <1>6 DEF From

LEMMA LogKeeps ==
    ASSUME NEW w, Holds(w), NEW e, \A x \in w.events \cup {e} : Stands(w, x)
    PROVE  Holds(Log(w, e)) /\ Happened(Log(w, e)) /\ Log(w, e).events = w.events \cup {e}
<1> DEFINE v == Log(w, e)
<1>1. /\ v.requests = w.requests /\ v.findings = w.findings /\ v.captures = w.captures
      /\ v.events = w.events \cup {e} /\ v.config = w.config /\ Shape(v)
    BY LogFields DEF Holds
<1> HIDE DEF v
<1>2. Holds(v)
    BY <1>1, SameRows DEF Holds, Traced
<1>3. Happened(v)
    BY <1>1 DEF Happened, Stands
<1> QED BY <1>1, <1>2, <1>3 DEF v

\* A change is newer than everything that has happened.
LEMMA SerialIsNew ==
    ASSUME Histories
    PROVE  /\ Serial \in Nat
           /\ \A e \in tried : e.serial \in Nat /\ e.serial < Serial
<1>1. Cardinality(tried) \in Nat
    BY FS_CardinalityType DEF Histories
<1> QED BY <1>1 DEF Serial, Histories, Numbered

LEMMA WrittenKeeps ==
    ASSUME StoreInv, NEW op \in DOMAIN Routes, NEW n \in Targets(work, op), NEW role
    PROVE  LET v == Written(work, op, n) IN
           /\ Holds(v) /\ v.events = work.events
           /\ \A e \in v.events \cup {Event(role, op, <<n, 0>>)} : Stands(v, e)
<1> DEFINE v == Written(work, op, n)
           t == Routes[op].table
           new == Event(role, op, <<n, 0>>)
<1>1. /\ Holds(work) /\ Happened(work) /\ work.events \subseteq tried
      /\ Serial \in Nat /\ \A e \in tried : e.serial \in Nat /\ e.serial < Serial
    BY SerialIsNew DEF StoreInv, View, Holds
<1>2. /\ v.requests = work.requests /\ v.findings = work.findings
      /\ v.captures = work.captures /\ v.events = work.events
      /\ v.config \in [Tables -> Seq(ConfigRow)]
      /\ \A u \in Tables \ {t} : v.config[u] = work.config[u]
      /\ DOMAIN v.config[t] = DOMAIN work.config[t] \cup {n}
      /\ v.config[t][n].last = Serial
      /\ \A i \in DOMAIN work.config[t] \ {n} : v.config[t][i] = work.config[t][i]
      /\ Shape(v)
    <2>1. Traced(work, used)
        BY <1>1 DEF Holds
    <2>2. RowWritten(work, v, t, n)
        BY <1>1, <2>1, WrittenFields
    <2> HIDE DEF v, t
    <2> QED BY <2>2 DEF RowWritten
<1>3. t \in Tables
    BY RouteFacts
<1> HIDE DEF v
<1>4. Holds(v)
    BY <1>1, <1>2, SameRows
<1>5. ASSUME NEW e \in work.events PROVE Stands(v, e)
    <2>1. Stands(work, e) /\ e.serial \in Nat /\ e.serial < Serial
        BY <1>1 DEF Happened
    <2>2. CASE e.op \notin DOMAIN Routes
        BY <1>2, <2>1, <2>2 DEF Stands
    <2>3. CASE e.op \in DOMAIN Routes /\ Routes[e.op].table # t
        BY <1>2, <2>1, <2>3, RouteFacts DEF Stands
    <2>4. CASE e.op \in DOMAIN Routes /\ Routes[e.op].table = t /\ e.target[1] # n
        BY <1>2, <2>1, <2>4 DEF Stands
    <2>5. CASE e.op \in DOMAIN Routes /\ Routes[e.op].table = t /\ e.target[1] = n
        BY <1>1, <1>2, <2>1, <2>5 DEF Stands
    <2> QED BY <2>2, <2>3, <2>4, <2>5
<1>6. Stands(v, new)
    <2>1. new.op = op /\ new.target[1] = n /\ new.serial = Serial
        BY DEF Event
    <2> HIDE DEF new
    <2> QED BY <1>1, <1>2, <2>1 DEF Stands
<1> HIDE DEF new
<1> QED BY <1>2, <1>4, <1>5, <1>6 DEF v, new

LEMMA FlagKeeps ==
    ASSUME StoreInv, NEW f \in work.findings, NEW role
    PROVE  LET v == Flag(work, f)
               new == Event(role, "finding_false_positive", <<f.request, f.pos>>)
           IN
           /\ Holds(v) /\ v.events = work.events
           /\ \A e \in v.events \cup {new} : Stands(v, e)
           /\ f.request \in used
<1> DEFINE v == Flag(work, f)
           g == [request |-> f.request, pos |-> f.pos, last |-> Serial]
           new == Event(role, "finding_false_positive", <<f.request, f.pos>>)
<1>1. /\ Traced(work, used) /\ Kept(work, recorded, purged, now) /\ Clean(work, swept)
      /\ Happened(work) /\ work.events \subseteq tried
      /\ Serial \in Nat /\ \A e \in tried : e.serial \in Nat /\ e.serial < Serial
    BY SerialIsNew DEF StoreInv, View
<1>2. /\ v.requests = work.requests /\ v.captures = work.captures
      /\ v.findings = (work.findings \ {f}) \cup {g}
      /\ v.events = work.events /\ v.config = work.config /\ Shape(v)
    BY <1>1, FlagFields
<1>3. /\ f \in [request : used, pos : Nat, last : Nat]
      /\ g \in [request : used, pos : Nat, last : Nat]
      /\ g.request = f.request /\ g.pos = f.pos /\ g.last = Serial
    BY <1>1 DEF Traced
<1> HIDE DEF v, g
<1>4. Traced(v, used)
    <2>1. \A x, y \in v.findings : x.request = y.request /\ x.pos = y.pos => x = y
        BY <1>1, <1>2, <1>3 DEF Traced
    <2> QED BY <1>1, <1>2, <1>3, <2>1 DEF Traced
<1>5. Kept(v, recorded, purged, now)
    <2>1. \A x \in work.findings : \E y \in v.findings : y.request = x.request /\ y.pos = x.pos
        BY <1>2, <1>3
    <2>2. \A r \in recorded : r.ts >= purged =>
             \A i \in DOMAIN r.trace : \E y \in v.findings : y.request = r.id /\ y.pos = i
        BY <1>1, <2>1 DEF Kept
    <2> QED BY <1>1, <1>2, <2>2 DEF Kept
<1>6. Clean(v, swept)
    BY <1>1, <1>2, <1>3 DEF Clean, Owned
<1>7. ASSUME NEW e \in work.events PROVE Stands(v, e)
    <2>1. Stands(work, e) /\ e.serial \in Nat /\ e.serial < Serial
        BY <1>1 DEF Happened
    <2>2. CASE e.op \in DOMAIN Routes
        BY <1>2, <2>1, <2>2 DEF Stands
    <2>3. CASE e.op \notin DOMAIN Routes
        BY <1>1, <1>2, <1>3, <2>1, <2>3 DEF Stands
    <2> QED BY <2>2, <2>3
<1>8. Stands(v, new)
    <2>1. /\ new.op = "finding_false_positive" /\ new.serial = Serial
          /\ new.target = <<f.request, f.pos>>
        BY DEF Event
    <2>2. new.op \notin DOMAIN Routes
        BY <2>1 DEF Routes
    <2> HIDE DEF new
    <2>3. ASSUME NEW x \in v.findings, <<x.request, x.pos>> = new.target
          PROVE  x.last >= new.serial
        <3>1. x.request = g.request /\ x.pos = g.pos
            BY <1>3, <2>1, <2>3
        <3>2. x = g
            BY <1>2, <1>4, <3>1 DEF Traced
        <3> QED BY <1>1, <1>3, <2>1, <3>2
    <2> QED BY <2>2, <2>3 DEF Stands
<1> HIDE DEF new
<1> QED BY <1>2, <1>3, <1>4, <1>5, <1>6, <1>7, <1>8 DEF Holds, v, new

\* The rows of a request come under an id of their own.
LEMMA RowFacts ==
    ASSUME NEW id \in Ids, NEW rec \in Records
    PROVE  LET r == Row(id, rec) IN
           /\ r.id = id /\ r.ts = now
           /\ Len(r.trace) \in Nat /\ DOMAIN r.trace = 1..Len(r.trace)
           /\ Statements(r) \in Nat \ {0} /\ Statements(r) - 1 >= Len(r.trace)
           /\ Statements(rec) = Statements(r)
<1> DEFINE r == Row(id, rec)
<1>1. /\ r.id = id /\ r.ts = now /\ r.trace = rec.trace
      /\ r.masked = rec.masked /\ r.shadow = rec.shadow
    BY DEF Row
<1>2. rec.trace \in Seq([type : STRING, sure : 0..100])
    BY AuditAssumption
<1>3. Len(rec.trace) \in Nat /\ DOMAIN rec.trace = 1..Len(rec.trace)
    BY <1>2, LenProperties
<1> HIDE DEF r
<1>4. Statements(r) \in {1 + Len(r.trace), 2 + Len(r.trace)}
    <2>1. CASE Sealed(r)
        BY <1>1, <1>3, <2>1 DEF Statements
    <2>2. CASE ~Sealed(r)
        BY <1>1, <1>3, <2>2 DEF Statements
    <2> QED BY <2>1, <2>2
<1>5. Statements(rec) = Statements(r)
    BY <1>1 DEF Statements, Sealed
<1> QED BY <1>1, <1>3, <1>4, <1>5 DEF r

LEMMA InsertKeeps ==
    ASSUME StoreInv, NEW id \in Ids \ used, NEW rec \in Records,
           NEW n \in 1..Statements(Row(id, rec))
    PROVE  LET r == Row(id, rec)
               v == Insert(work, r, n)
           IN
           /\ Traced(v, used \cup {id})
           /\ Kept(v, recorded, purged, now)
           /\ n = Statements(r) => Kept(v, recorded \cup {r}, purged, now)
           /\ Clean(v, swept)
           /\ Happened(v) /\ v.events = work.events
<1> DEFINE r == Row(id, rec)
           v == Insert(work, r, n)
           new == FindingsOf(r, n - 1)
           all == Statements(r)
<1>1. /\ Traced(work, used) /\ Kept(work, recorded, purged, now) /\ Clean(work, swept)
      /\ Happened(work) /\ work.events \subseteq tried
    BY DEF StoreInv, View
<1>2. /\ r.id = id /\ r.ts = now /\ id \in Nat
      /\ Len(r.trace) \in Nat /\ DOMAIN r.trace = 1..Len(r.trace)
      /\ all \in Nat /\ all - 1 >= Len(r.trace) /\ n \in Nat \ {0}
    <2>1. /\ id \in Ids /\ id \in Nat
          /\ r.id = id /\ r.ts = now
          /\ Len(r.trace) \in Nat /\ DOMAIN r.trace = 1..Len(r.trace)
          /\ all \in Nat \ {0} /\ all - 1 >= Len(r.trace)
        BY RowFacts
    <2>2. n \in 1..all
        OBVIOUS
    <2> HIDE DEF r, all
    <2> QED BY <2>1, <2>2
<1>3. /\ v.requests = work.requests \cup {r}
      /\ v.findings = work.findings \cup new
      /\ Sealed(r) /\ n = all =>
            v.captures = work.captures \cup {[request |-> r.id, expires |-> now + CaptureTtl]}
      /\ ~(Sealed(r) /\ n = all) => v.captures = work.captures
      /\ v.events = work.events /\ v.config = work.config /\ Shape(v)
    BY <1>1, <1>2, InsertFields
<1> HIDE DEF r
<1>4. /\ \A f \in new : /\ f \in [request : used \cup {id}, pos : Nat, last : Nat]
                        /\ f.request = id /\ f.last = 0
      /\ \A f, g \in new : f.pos = g.pos => f = g
    BY <1>2 DEF FindingsOf
<1>5. ASSUME n = all, NEW i \in DOMAIN r.trace
      PROVE  \E f \in new : f.request = r.id /\ f.pos = i
    <2> DEFINE f == [request |-> r.id, pos |-> i, last |-> 0]
    <2>1. ~(n - 1 < Len(r.trace))
        BY <1>2, <1>5
    <2>2. f \in new
        BY <1>2, <2>1 DEF FindingsOf
    <2> QED BY <2>2
<1> HIDE DEF v, new, all
<1>6. \A f \in work.findings : f \in [request : used, pos : Nat, last : Nat] /\ f.request # id
    BY <1>1 DEF Traced
<1>7. Traced(v, used \cup {id})
    <2>1. v.findings \subseteq [request : used \cup {id}, pos : Nat, last : Nat]
        BY <1>3, <1>4, <1>6
    <2>2. \A f, g \in v.findings : f.request = g.request /\ f.pos = g.pos => f = g
        BY <1>1, <1>3, <1>4, <1>6 DEF Traced
    <2> QED BY <1>1, <1>3, <2>1, <2>2 DEF Traced
<1>8. work.captures \subseteq v.captures
    BY <1>3
<1>9. Kept(v, recorded, purged, now)
    BY <1>1, <1>3, <1>8 DEF Kept
<1>10. ASSUME n = all PROVE Kept(v, recorded \cup {r}, purged, now)
    <2>1. Sealed(r) => \E c \in v.captures : c.request = r.id /\ c.expires = r.ts + CaptureTtl
        <3> DEFINE c == [request |-> r.id, expires |-> now + CaptureTtl]
        <3>1. Sealed(r) => c \in v.captures
            BY <1>3, <1>10
        <3>2. c.request = r.id /\ c.expires = r.ts + CaptureTtl
            BY <1>2
        <3> HIDE DEF c
        <3> QED BY <3>1, <3>2
    <2> QED BY <1>3, <1>5, <1>9, <1>10, <2>1 DEF Kept
<1>11. Clean(v, swept)
    <2>1. \A x \in v.requests : x.ts >= swept.cutoff
        BY <1>1, <1>2, <1>3 DEF Clean, StoreInv, Histories
    <2>2. CaptureTtl > 0 => \A c \in v.captures : c.expires > swept.at
        BY <1>1, <1>2, <1>3 DEF Clean, StoreInv, Histories
    <2>3. Owned(v)
        <3>1. IdsOf(work.requests) \subseteq IdsOf(v.requests) /\ id \in IdsOf(v.requests)
            BY <1>2, <1>3 DEF IdsOf
        <3>2. \A c \in v.captures : c \in work.captures \/ c.request = id
            BY <1>2, <1>3
        <3>3. \A f \in v.findings : f \in work.findings \/ f.request = id
            BY <1>3, <1>4
        <3> QED BY <1>1, <3>1, <3>2, <3>3 DEF Clean, Owned
    <2> QED BY <2>1, <2>2, <2>3 DEF Clean
<1>12. Happened(v)
    <2> SUFFICES ASSUME NEW e \in work.events PROVE Stands(v, e)
        BY <1>3 DEF Happened
    <2>1. Stands(work, e) /\ (e.op \notin DOMAIN Routes => e.target[1] \in used)
        BY <1>1 DEF Happened, StoreInv, Histories, Numbered
    <2>2. CASE e.op \in DOMAIN Routes
        BY <1>3, <2>1, <2>2 DEF Stands
    <2>3. CASE e.op \notin DOMAIN Routes
        <3>1. \A f \in new : <<f.request, f.pos>> # e.target
            BY <1>4, <2>1, <2>3
        <3> QED BY <1>3, <2>1, <2>3, <3>1 DEF Stands
    <2> QED BY <2>2, <2>3
<1> QED BY <1>3, <1>7, <1>9, <1>10, <1>11, <1>12 DEF v, r, all

\* Deleting the expired captures, and then the requests before a cutoff.
LEMMA PurgeKeeps ==
    ASSUME StoreInv
    PROVE  LET e == Expired(work)
               v == Cut(e, now - Retention)
               later == Max({purged, now - Retention})
           IN
           /\ later = now - Retention
           /\ Traced(e, used) /\ Traced(v, used)
           /\ Kept(db, recorded, later, now)
           /\ Kept(e, recorded, later, now) /\ Kept(v, recorded, later, now)
           /\ Clean(e, swept) /\ Clean(v, swept)
           /\ Clean(v, [cutoff |-> now - Retention, at |-> now])
           /\ Happened(e) /\ e.events = work.events
           /\ Happened(v) /\ v.events = work.events
<1> DEFINE e == Expired(work)
           cutoff == now - Retention
           v == Cut(e, cutoff)
           later == Max({purged, cutoff})
<1>1. /\ Traced(work, used) /\ Kept(work, recorded, purged, now) /\ Clean(work, swept)
      /\ Kept(db, recorded, purged, now) /\ Happened(work)
      /\ now \in Nat /\ purged \in Int /\ purged <= cutoff /\ cutoff \in Int
      /\ \A r \in recorded : r.ts \in Nat
    BY DEF StoreInv, View, Histories
<1>2. later = cutoff
    <2>1. later \in {purged, cutoff} /\ later >= cutoff
        BY <1>1, MaxOfTwo, Zenon
    <2> HIDE DEF later
    <2> QED BY <1>1, <2>1
<1>3. /\ e.requests = work.requests /\ e.findings = work.findings
      /\ e.captures = {c \in work.captures : c.expires > now}
      /\ e.events = work.events /\ e.config = work.config /\ Shape(e)
    BY <1>1, ExpiredFields
<1> HIDE DEF e
<1>4. Traced(e, used)
    BY <1>1, <1>3 DEF Traced
<1> DEFINE kept == {r \in e.requests : r.ts >= cutoff}
<1>5. /\ v.requests = kept
      /\ v.findings = {f \in e.findings : f.request \in IdsOf(kept)}
      /\ v.captures = {c \in e.captures : c.request \in IdsOf(kept)}
      /\ v.events = e.events /\ v.config = e.config /\ Shape(v)
    BY <1>4, CutFields
<1> HIDE DEF v, kept
<1>6. Traced(v, used)
    BY <1>4, <1>5 DEF Traced
<1>7. \A w \in {db, work} : \A r \in recorded : r.ts >= cutoff =>
         /\ r \in w.requests
         /\ \A i \in DOMAIN r.trace : \E f \in w.findings : f.request = r.id /\ f.pos = i
         /\ Sealed(r) /\ r.ts + CaptureTtl > now =>
               \E c \in w.captures : c.request = r.id /\ c.expires = r.ts + CaptureTtl
    <2>1. \A r \in recorded : r.ts >= cutoff => r.ts >= purged
        BY <1>1
    <2> QED BY <1>1, <2>1, SMTT(20) DEF Kept
<1>8. Kept(db, recorded, cutoff, now)
    BY <1>7 DEF Kept
<1>9. Kept(e, recorded, cutoff, now)
    BY <1>3, <1>7 DEF Kept
<1>10. Kept(v, recorded, cutoff, now)
    <2> SUFFICES ASSUME NEW r \in recorded, r.ts >= cutoff
                 PROVE  /\ r \in v.requests
                        /\ \A i \in DOMAIN r.trace :
                              \E f \in v.findings : f.request = r.id /\ f.pos = i
                        /\ Sealed(r) /\ r.ts + CaptureTtl > now =>
                              \E c \in v.captures :
                                 c.request = r.id /\ c.expires = r.ts + CaptureTtl
        BY DEF Kept
    <2>1. r \in kept /\ r.id \in IdsOf(kept)
        BY <1>9 DEF Kept, kept, IdsOf
    <2> QED BY <1>5, <1>9, <2>1 DEF Kept
<1>11. Clean(e, swept) /\ \A c \in e.captures : c.expires > now
    BY <1>1, <1>3 DEF Clean, Owned
<1>12. /\ \A r \in v.requests : r \in e.requests /\ r.ts >= cutoff
       /\ \A c \in v.captures : c \in e.captures
       /\ Owned(v)
    BY <1>5 DEF kept, Owned, IdsOf
<1>13. Clean(v, swept)
    BY <1>11, <1>12 DEF Clean
<1>14. Clean(v, [cutoff |-> cutoff, at |-> now])
    BY <1>11, <1>12 DEF Clean
<1>15. /\ Happened(e) /\ e.events = work.events
       /\ Happened(v) /\ v.events = work.events
    BY <1>1, <1>3, <1>5 DEF Happened, Stands
<1> HIDE DEF cutoff, later
<1> QED BY <1>2, <1>4, <1>6, <1>8, <1>9, <1>10, <1>11, <1>13, <1>14, <1>15
        DEF v, e, cutoff, later

-----------------------------------------------------------------------------
(* The invariant: it holds at the start and every step preserves it. *)

LEMMA InitInv == Init => StoreInv
<1> SUFFICES ASSUME Init PROVE StoreInv
    OBVIOUS
<1>1. /\ now = 0 /\ used = {} /\ recorded = {} /\ purged = 0 - Retention
      /\ swept = [cutoff |-> 0 - Retention, at |-> 0] /\ tried = {} /\ answered = {}
      /\ db = SeedAdmin(Empty) /\ work = db
    BY DEF Init
<1>2. Histories
    BY <1>1, FS_EmptySet DEF Histories, Numbered
<1>3. Holds(Empty) /\ Happened(Empty) /\ Empty.events = {}
    <2>1. /\ Empty.requests = {} /\ Empty.findings = {} /\ Empty.captures = {}
          /\ Empty.events = {} /\ Shape(Empty)
        BY DEF Empty, Shape
    <2>2. Empty.config \in [Tables -> Seq(ConfigRow)]
        <3>1. <<[last |-> 0, status |-> "open"]>> \in Seq(ConfigRow)
            BY DEF ConfigRow, Statuses
        <3> QED BY <3>1 DEF Empty
    <2>3. Traced(Empty, used)
        BY <2>1, <2>2 DEF Traced
    <2>4. Kept(Empty, recorded, purged, now) /\ Clean(Empty, swept) /\ Happened(Empty)
        BY <1>1, <2>1 DEF Kept, Clean, Owned, Happened
    <2> QED BY <2>1, <2>3, <2>4 DEF Holds
<1>4. Holds(db) /\ Happened(db) /\ db.events = {}
    BY <1>1, <1>3, SeedKeeps
<1> QED BY <1>1, <1>2, <1>4 DEF StoreInv, View, Holds

LEMMA RecordInv ==
    ASSUME StoreInv, UNCHANGED <<now, admin>>, NEW id \in Ids, NEW rec \in Records,
           \/ RecordRequest(id, rec)
           \/ \E n \in 1..Statements(rec) : RecordFails(id, rec, n)
    PROVE  StoreInv'
<1> DEFINE r == Row(id, rec)
<1>1. /\ Histories /\ View(db) /\ View(work)
    BY DEF StoreInv
<1>2. id \notin used /\ used' = used \cup {id} /\ UNCHANGED <<purged, swept>>
    BY DEF RecordRequest, RecordFails
<1>3. r.ts = now /\ Statements(r) \in Nat \ {0} /\ Statements(rec) = Statements(r)
    BY RowFacts
<1>4. \A s \in recorded' : s.ts \in Nat
    BY <1>1, <1>3 DEF RecordRequest, RecordFails, Histories
<1>5. Histories'
    BY <1>1, <1>2, <1>4 DEF Histories, Numbered, admin
<1> HIDE DEF r
<1>6. CASE RecordRequest(id, rec)
    <2> DEFINE v == Insert(work, r, Statements(r))
    <2>1. work' = v /\ db' = v /\ recorded' = recorded \cup {r}
        BY <1>6 DEF RecordRequest, r
    <2>2. /\ Traced(v, used \cup {id})
          /\ Kept(v, recorded \cup {r}, purged, now)
          /\ Clean(v, swept)
          /\ Happened(v) /\ v.events = work.events
        <3>1. id \in Ids \ used /\ Statements(r) \in 1..Statements(r)
            BY <1>2, <1>3
        <3>2. \A n \in 1..Statements(r) :
                 LET x == Insert(work, r, n) IN
                 /\ Traced(x, used \cup {id})
                 /\ n = Statements(r) => Kept(x, recorded \cup {r}, purged, now)
                 /\ Clean(x, swept)
                 /\ Happened(x) /\ x.events = work.events
            BY <3>1, InsertKeeps DEF r
        <3> QED BY <3>1, <3>2
    <2> HIDE DEF v
    <2>3. View(work)' /\ View(db)'
        BY <1>1, <1>2, <2>1, <2>2 DEF View, admin, Happened
    <2> QED BY <1>5, <2>3 DEF StoreInv
<1>7. ASSUME NEW n \in 1..Statements(rec), RecordFails(id, rec, n)
      PROVE  StoreInv'
    <2> DEFINE v == Insert(work, r, n)
    <2>1. work' = v /\ db' = db /\ recorded' = recorded /\ n \in 1..Statements(r)
        BY <1>7 DEF RecordFails, r
    <2>2. /\ Traced(v, used \cup {id})
          /\ Kept(v, recorded, purged, now)
          /\ Clean(v, swept)
          /\ Happened(v) /\ v.events = work.events
        BY <1>2, <2>1, InsertKeeps DEF r
    <2> HIDE DEF v
    <2>3. View(work)'
        BY <1>1, <1>2, <2>1, <2>2 DEF View, admin, Happened
    <2>4. Traced(db, used \cup {id})
        BY <1>1 DEF View, Traced
    <2>5. View(db)'
        BY <1>1, <1>2, <2>1, <2>4 DEF View, admin, Happened
    <2> QED BY <1>5, <2>3, <2>5 DEF StoreInv
<1> QED BY <1>6, <1>7

LEMMA PurgeInv ==
    ASSUME StoreInv, UNCHANGED <<now, admin>>, Purge \/ PurgeFails
    PROVE  StoreInv'
<1> DEFINE e == Expired(work)
           v == Cut(e, now - Retention)
           later == Max({purged, now - Retention})
<1>1. Histories /\ View(db) /\ View(work)
    BY DEF StoreInv
<1>2. /\ later = now - Retention
      /\ Traced(e, used) /\ Traced(v, used)
      /\ Kept(db, recorded, later, now)
      /\ Kept(e, recorded, later, now) /\ Kept(v, recorded, later, now)
      /\ Clean(e, swept) /\ Clean(v, swept)
      /\ Clean(v, [cutoff |-> now - Retention, at |-> now])
      /\ Happened(e) /\ e.events = work.events
      /\ Happened(v) /\ v.events = work.events
    BY PurgeKeeps
<1>3. purged' = later /\ UNCHANGED <<used, recorded>>
    BY DEF Purge, PurgeFails
<1>4. Purge => work' = v /\ db' = v /\ swept' = [cutoff |-> now - Retention, at |-> now]
    BY DEF Purge
<1>5. PurgeFails => work' \in {e, v} /\ db' = db /\ swept' = swept
    BY DEF PurgeFails
<1> HIDE DEF e, v, later
<1>6. Histories'
    BY <1>1, <1>2, <1>3, <1>4, <1>5, SMTT(20) DEF Histories, Numbered, admin
<1>7. CASE Purge
    BY <1>1, <1>2, <1>3, <1>4, <1>6, <1>7 DEF StoreInv, View, admin, Happened
<1>8. CASE PurgeFails
    BY <1>1, <1>2, <1>3, <1>5, <1>6, <1>8 DEF StoreInv, View, admin, Happened
<1> QED BY <1>7, <1>8

\* A change that stands in the tables it leaves, wherever its handler raises.
LEMMA ChangeAndRecordInv ==
    ASSUME StoreInv, UNCHANGED <<now, audit>>,
           NEW w, Holds(w), w.events = work.events,
           NEW e, e.serial = Serial, e.op \notin DOMAIN Routes => e.target[1] \in used,
           \A x \in w.events \cup {e} : Stands(w, x),
           ChangeAndRecord(w, e)
    PROVE  StoreInv'
<1> DEFINE v == Log(w, e)
<1>1. Histories /\ View(db) /\ View(work)
    BY DEF StoreInv
<1>2. /\ Holds(v) /\ Happened(v) /\ v.events = w.events \cup {e} /\ Happened(w)
    BY LogKeeps DEF Happened
<1> HIDE DEF v
<1>3. tried' = tried \cup {e} /\ UNCHANGED <<now, used, recorded, purged, swept>>
    BY DEF ChangeAndRecord, audit
<1>4. Histories'
    <2>1. Cardinality(tried) \in Nat /\ Serial = Cardinality(tried) + 1
        BY <1>1, FS_CardinalityType DEF Histories, Serial
    <2>2. e \notin tried
        BY <1>1, SerialIsNew
    <2>3. IsFiniteSet(tried') /\ Cardinality(tried') = Cardinality(tried) + 1
        BY <1>1, <1>3, <2>2, FS_AddElement DEF Histories
    <2>4. Numbered(tried', used)
        BY <1>1, <1>3, <2>1, <2>3 DEF Histories, Numbered
    <2> QED BY <1>1, <1>3, <2>3, <2>4 DEF Histories
<1>5. /\ Holds(db) /\ Happened(db) /\ answered \subseteq db.events /\ db.events \subseteq tried
      /\ answered \subseteq w.events /\ w.events \subseteq tried
    BY <1>1 DEF View, Holds
<1>6. ASSUME NEW x, Holds(x), Happened(x), answered' \subseteq x.events, x.events \subseteq tried'
      PROVE  /\ Traced(x, used') /\ Kept(x, recorded', purged', now') /\ Clean(x, swept')
             /\ Happened(x) /\ answered' \subseteq x.events /\ x.events \subseteq tried'
    BY <1>3, <1>6 DEF Holds
<1>7. CASE work' = v /\ db' = v /\ answered' = answered \cup {e}
    BY <1>2, <1>3, <1>4, <1>5, <1>6, <1>7 DEF StoreInv, View, Happened
<1>8. CASE work' \in {w, v} /\ db' \in {db, w} /\ answered' = answered
    BY <1>2, <1>3, <1>4, <1>5, <1>6, <1>8 DEF StoreInv, View, Happened
<1>9. \/ work' = v /\ db' = v /\ answered' = answered \cup {e}
      \/ work' \in {w, v} /\ db' \in {db, w} /\ answered' = answered
    BY DEF ChangeAndRecord, v
<1> QED BY <1>7, <1>8, <1>9

LEMMA AdminStepInv == ASSUME StoreInv, AdminStep PROVE StoreInv'
<1>1. ASSUME NEW role \in Roles, NEW op \in DOMAIN Routes, NEW n \in Targets(work, op),
             Change(role, op, n)
      PROVE  StoreInv'
    <2> DEFINE w == Written(work, op, n)
               e == Event(role, op, <<n, 0>>)
    <2>1. Holds(w) /\ w.events = work.events /\ \A x \in w.events \cup {e} : Stands(w, x)
        BY WrittenKeeps
    <2>2. e.serial = Serial /\ e.op \in DOMAIN Routes
        BY DEF Event
    <2>3. ChangeAndRecord(w, e) /\ UNCHANGED <<now, audit>>
        BY <1>1 DEF Change
    <2> HIDE DEF w, e
    <2> QED BY <2>1, <2>2, <2>3, ChangeAndRecordInv
<1>2. ASSUME NEW role \in Roles, NEW f \in work.findings, ReportFalsePositive(role, f)
      PROVE  StoreInv'
    <2> DEFINE w == Flag(work, f)
               e == Event(role, "finding_false_positive", <<f.request, f.pos>>)
    <2>1. /\ Holds(w) /\ w.events = work.events /\ \A x \in w.events \cup {e} : Stands(w, x)
          /\ f.request \in used
        BY FlagKeeps
    <2>2. e.serial = Serial /\ e.target[1] \in used
        BY <2>1 DEF Event
    <2>3. ChangeAndRecord(w, e) /\ UNCHANGED <<now, audit>>
        BY <1>2 DEF ReportFalsePositive
    <2> HIDE DEF w, e
    <2> QED BY <2>1, <2>2, <2>3, ChangeAndRecordInv
<1> QED BY <1>1, <1>2 DEF AdminStep

\* The steps of the connection: a default row, a rollback, a restart.
LEMMA ConnectionInv ==
    ASSUME StoreInv, ReadSettings \/ RolledBack \/ Restart
    PROVE  StoreInv'
<1>1. /\ Histories
      /\ Holds(db) /\ Happened(db) /\ answered \subseteq db.events /\ db.events \subseteq tried
      /\ Holds(work) /\ Happened(work)
      /\ answered \subseteq work.events /\ work.events \subseteq tried
    BY DEF StoreInv, View, Holds
<1>2. UNCHANGED <<now, used, recorded, purged, swept, tried, answered>>
    BY DEF ReadSettings, RolledBack, Restart, audit, admin
<1>3. Histories'
    BY <1>1, <1>2 DEF Histories, Numbered
<1>4. ASSUME NEW x, Holds(x), Happened(x), answered \subseteq x.events, x.events \subseteq tried
      PROVE  /\ Traced(x, used') /\ Kept(x, recorded', purged', now') /\ Clean(x, swept')
             /\ Happened(x) /\ answered' \subseteq x.events /\ x.events \subseteq tried'
    BY <1>2, <1>4 DEF Holds
<1>5. CASE ReadSettings
    <2> DEFINE v == [work EXCEPT !.config["settings"] = <<[last |-> 0, status |-> "live"]>>]
    <2>1. work' = v /\ db' \in {db, v} /\ work.config["settings"] = <<>>
        BY <1>5 DEF ReadSettings
    <2>2. Holds(v) /\ Happened(v) /\ v.events = work.events
        BY <1>1, <2>1, SettingsKeep
    <2> HIDE DEF v
    <2> QED BY <1>1, <1>3, <1>4, <2>1, <2>2 DEF StoreInv, View, Happened
<1>6. CASE RolledBack
    BY <1>1, <1>3, <1>4, <1>6 DEF RolledBack, StoreInv, View, Happened
<1>7. CASE Restart
    <2>1. PICK v \in {SeedAdmin(db), SeedAdmin(SeedTeams(db))} : work' = v /\ db' = v
        BY <1>7 DEF Restart
    <2>2. Holds(SeedTeams(db)) /\ Happened(SeedTeams(db)) /\ SeedTeams(db).events = db.events
        BY <1>1, SeedKeeps
    <2>3. Holds(v) /\ Happened(v) /\ v.events = db.events
        BY <1>1, <2>2, SeedKeeps
    <2> QED BY <1>1, <1>3, <1>4, <2>1, <2>3 DEF StoreInv, View, Happened
<1> QED BY <1>5, <1>6, <1>7

LEMMA TickInv == ASSUME StoreInv, Tick PROVE StoreInv'
<1>1. /\ Histories /\ View(db) /\ View(work)
      /\ now' = now + 1 /\ UNCHANGED <<db, work, used, recorded, purged, swept, tried, answered>>
    BY DEF StoreInv, Tick, audit, admin
<1>2. Histories'
    BY <1>1, SMTT(20) DEF Histories, Numbered
<1>3. \A w \in {db, work} : Kept(w, recorded, purged, now + 1)
    <2>1. \A r \in recorded : r.ts + CaptureTtl > now + 1 => r.ts + CaptureTtl > now
        BY <1>1 DEF Histories
    <2> QED BY <1>1, <2>1 DEF View, Kept
<1> QED BY <1>1, <1>2, <1>3 DEF StoreInv, View, Happened

LEMMA NextInv == StoreInv /\ [Next]_vars => StoreInv'
<1> SUFFICES ASSUME StoreInv, [Next]_vars PROVE StoreInv'
    OBVIOUS
<1>1. ASSUME UNCHANGED <<db, work, now, used, recorded, purged, swept, tried, answered>>
      PROVE  StoreInv'
    BY <1>1 DEF StoreInv, Histories, Numbered, View, Happened
<1>2. CASE AuditStep
    <2>1. CASE \E c \in Readers : NextPage(c)
        BY <1>1, <1>2, <2>1 DEF AuditStep, NextPage, admin
    <2>2. CASE Purge \/ PurgeFails
        BY <1>2, <2>2, PurgeInv DEF AuditStep
    <2>3. CASE \E id \in Ids, rec \in Records :
                  \/ RecordRequest(id, rec)
                  \/ \E n \in 1..Statements(rec) : RecordFails(id, rec, n)
        BY <1>2, <2>3, RecordInv DEF AuditStep
    <2> QED BY <1>2, <2>1, <2>2, <2>3 DEF AuditStep
<1>3. CASE UNCHANGED vars
    BY <1>1, <1>3 DEF vars, audit, admin
<1> QED BY <1>2, <1>3, AdminStepInv, ConnectionInv, TickInv DEF Next

-----------------------------------------------------------------------------
(* The theorems. *)

\* The invariant holds in every reachable state.
THEOREM StoreInvariant == Spec => []StoreInv
BY InitInv, NextInv, PTL DEF Spec

\* What was recorded stays, with its trace and its capture, until a purge begins
\* with a later cutoff: through failed statements and commits, commits of other
\* handlers' leftovers, rollbacks and restarts.
THEOREM RecordsAreDurable == Spec => []RecordedUntilPurged
<1>1. StoreInv => RecordedUntilPurged
    BY DEF StoreInv, View, Kept, RecordedUntilPurged
<1> QED BY <1>1, StoreInvariant, PTL

\* A purge that returned has left nothing it should have deleted, and no finding
\* or capture is without its request. A capture that is kept for no day at all
\* can be made on the day of the purge.
THEOREM PurgeHolds == CaptureTtl > 0 => (Spec => []PurgeIsClean)
<1> SUFFICES ASSUME CaptureTtl > 0 PROVE Spec => []PurgeIsClean
    OBVIOUS
<1>1. StoreInv => PurgeIsClean
    BY DEF StoreInv, View, Clean, Owned, PurgeIsClean
<1> QED BY <1>1, StoreInvariant, PTL

\* An event of audit_events names a change that is in the tables or that a later
\* change of the same row has replaced.
THEOREM EventsHold == Spec => []EventsAreTrue
<1>1. StoreInv => EventsAreTrue
    BY DEF StoreInv, View, Happened, EventsAreTrue
<1> QED BY <1>1, StoreInvariant, PTL

\* Every change whose handler returned has its event in the durable tables.
THEOREM AnswersAreLogged == Spec => []AnsweredIsLogged
<1>1. StoreInv => AnsweredIsLogged
    BY DEF StoreInv, View, AnsweredIsLogged
<1> QED BY <1>1, StoreInvariant, PTL

=============================================================================
