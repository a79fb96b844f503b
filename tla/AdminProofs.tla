----------------------------- MODULE AdminProofs -----------------------------
(***************************************************************************)
(* Proofs about what administrators see and may change, in modules          *)
(* AuditStore and AdminStore: a listing by pages is exact, the panels of    *)
(* the dashboard count what was recorded, roles and the scope of a team are *)
(* kept, and the tables keep their shape; for all records, readers, page    *)
(* sizes, days and numbers of failures and restarts.                        *)
(*                                                                         *)
(* They build on the invariant of StoreProofs.                             *)
(***************************************************************************)
EXTENDS StoreProofs, Induction

-----------------------------------------------------------------------------
(* The order of a listing, and its pages. *)

\* Rows that (ts, id) orders: an id has one row.
Ordered(rows) ==
    /\ IsFiniteSet(rows)
    /\ \A r \in rows : r.id \in Nat /\ r.ts \in Nat
    /\ \A r, s \in rows : r.id = s.id => r = s

Ahead(rows, r) == {s \in rows : Newer(s, r)}
Behind(rows, r) == {s \in rows : Newer(r, s)}

LEMMA NewerIsOrder ==
    ASSUME NEW r, NEW s, NEW t,
           \A x \in {r, s, t} : x.id \in Nat /\ x.ts \in Nat
    PROVE  /\ ~Newer(r, r)
           /\ Newer(r, s) => ~Newer(s, r)
           /\ Newer(r, s) /\ Newer(s, t) => Newer(r, t)
           /\ r.id # s.id => Newer(r, s) \/ Newer(s, r)
<1>1. /\ r.id \in Nat /\ r.ts \in Nat /\ s.id \in Nat /\ s.ts \in Nat
      /\ t.id \in Nat /\ t.ts \in Nat
    OBVIOUS
<1> QED BY ONLY <1>1 DEF Newer

\* A row that is behind another has more rows ahead of it, and fewer behind it.
LEMMA RankFalls ==
    ASSUME NEW rows, Ordered(rows), NEW r \in rows, NEW s \in rows, Newer(s, r)
    PROVE  /\ Cardinality(Ahead(rows, s)) \in Nat /\ Cardinality(Ahead(rows, r)) \in Nat
           /\ Cardinality(Ahead(rows, s)) < Cardinality(Ahead(rows, r))
           /\ Cardinality(Behind(rows, s)) \in Nat /\ Cardinality(Behind(rows, r)) \in Nat
           /\ Cardinality(Behind(rows, r)) < Cardinality(Behind(rows, s))
<1>1. \A x \in rows : x.id \in Nat /\ x.ts \in Nat
    BY DEF Ordered
<1>2. \A x \in rows : Newer(x, s) => Newer(x, r)
    BY <1>1, NewerIsOrder
<1>3. \A x \in rows : Newer(r, x) => Newer(s, x)
    BY <1>1, NewerIsOrder
<1>4. /\ Ahead(rows, s) \subseteq Ahead(rows, r)
      /\ s \in Ahead(rows, r) /\ s \notin Ahead(rows, s)
    BY <1>1, <1>2, NewerIsOrder DEF Ahead
<1>5. /\ Behind(rows, r) \subseteq Behind(rows, s)
      /\ r \in Behind(rows, s) /\ r \notin Behind(rows, r)
    BY <1>1, <1>3, NewerIsOrder DEF Behind
<1>6. \A x : IsFiniteSet(Ahead(rows, x)) /\ IsFiniteSet(Behind(rows, x))
    BY FS_Subset DEF Ordered, Ahead, Behind
<1>7. ASSUME NEW S, NEW T, IsFiniteSet(T), S \subseteq T, S # T
      PROVE  Cardinality(S) \in Nat /\ Cardinality(T) \in Nat /\ Cardinality(S) < Cardinality(T)
    BY <1>7, FS_Subset, FS_CardinalityType
<1> QED BY <1>4, <1>5, <1>6, <1>7

\* The oldest row of a page.
LEMMA OldestFacts ==
    ASSUME NEW rows, Ordered(rows), rows # {}
    PROVE  /\ Oldest(rows) \in rows
           /\ \A s \in rows \ {Oldest(rows)} : Newer(s, Oldest(rows))
<1> DEFINE T == {Cardinality(Behind(rows, r)) : r \in rows}
<1>1. T \subseteq Nat /\ T # {}
    <2>1. \A r \in rows : IsFiniteSet(Behind(rows, r))
        BY FS_Subset DEF Ordered, Behind
    <2> QED BY <2>1, FS_CardinalityType
<1>2. PICK n \in T : \A m \in T : n <= m
    <2> HIDE DEF T
    <2> QED BY <1>1, LeastOf
<1>3. PICK r \in rows : n = Cardinality(Behind(rows, r))
    OBVIOUS
<1>4. ASSUME NEW s \in rows \ {r} PROVE Newer(s, r)
    <2>1. r.id # s.id
        BY DEF Ordered
    <2>2. Newer(r, s) \/ Newer(s, r)
        BY <2>1, NewerIsOrder DEF Ordered
    <2>3. CASE Newer(r, s)
        <3>1. /\ Cardinality(Behind(rows, r)) \in Nat /\ Cardinality(Behind(rows, s)) \in Nat
              /\ Cardinality(Behind(rows, s)) < Cardinality(Behind(rows, r))
            BY <2>3, RankFalls
        <3>2. n <= Cardinality(Behind(rows, s))
            BY <1>2
        <3> HIDE DEF T
        <3> QED BY <1>3, <3>1, <3>2
    <2> QED BY <2>2, <2>3
<1> HIDE DEF T
<1> QED BY <1>4 DEF Oldest

\* What a page of a listing over rows is: their head, all of them when no more
\* follow, and never empty when some do.
PageOf(rows, answer) ==
    /\ answer.page \subseteq rows
    /\ answer.more \in BOOLEAN
    /\ \A s \in answer.page, r \in rows \ answer.page : Newer(s, r)
    /\ answer.more => answer.page # {}
    /\ ~answer.more => answer.page = rows

LEMMA PageFacts ==
    ASSUME NEW w, NEW team, NEW begun, NEW cursor, Ordered(w.requests)
    PROVE  PageOf({r \in InScope(w.requests, team) : ~begun \/ After(cursor, r)},
                  ListRequests(w, team, begun, cursor))
<1> DEFINE rows == {r \in InScope(w.requests, team) : ~begun \/ After(cursor, r)}
           fetched == {r \in rows : Cardinality({s \in rows : Newer(s, r)}) <= PageSize}
           more == Cardinality(fetched) > PageSize
           page == IF more THEN fetched \ {Oldest(fetched)} ELSE fetched
           answer == ListRequests(w, team, begun, cursor)
<1>1. answer.page = page /\ (answer.more <=> more) /\ answer.more \in BOOLEAN
    <2>1. answer = [page |-> page, more |-> more]
        BY DEF ListRequests
    <2>2. more \in BOOLEAN
        OBVIOUS
    <2> HIDE DEF answer, page, more
    <2> QED BY <2>1, <2>2
<1> HIDE DEF answer
<1>2. Ordered(rows)
    <2>1. rows \subseteq w.requests
        BY DEF InScope
    <2> HIDE DEF rows
    <2> QED BY <2>1, FS_Subset DEF Ordered
<1> HIDE DEF rows
<1>3. fetched = {r \in rows : Cardinality(Ahead(rows, r)) <= PageSize}
    BY DEF Ahead
<1> HIDE DEF fetched
<1>4. fetched \subseteq rows /\ Ordered(fetched)
    <2>1. fetched \subseteq rows
        BY <1>3
    <2> QED BY <1>2, <2>1, FS_Subset DEF Ordered
<1>5. \A r \in rows : IsFiniteSet(Ahead(rows, r)) /\ Cardinality(Ahead(rows, r)) \in Nat
    <2>1. \A r \in rows : IsFiniteSet(Ahead(rows, r))
        BY <1>2, FS_Subset DEF Ordered, Ahead
    <2> QED BY <2>1, FS_CardinalityType
\* The rows that are fetched come before those that are not.
<1>6. ASSUME NEW s \in fetched, NEW r \in rows \ fetched PROVE Newer(s, r)
    <2>1. s.id # r.id
        BY <1>2, <1>4 DEF Ordered
    <2>2. Newer(s, r) \/ Newer(r, s)
        BY <1>2, <1>4, <2>1, NewerIsOrder DEF Ordered
    <2>3. ASSUME Newer(r, s) PROVE FALSE
        <3>1. Cardinality(Ahead(rows, r)) < Cardinality(Ahead(rows, s))
            BY <1>2, <1>4, <2>3, RankFalls
        <3>2. Cardinality(Ahead(rows, s)) <= PageSize
            BY <1>3
        <3>3. ~(Cardinality(Ahead(rows, r)) <= PageSize)
            BY <1>3
        <3> QED BY <1>4, <1>5, <3>1, <3>2, <3>3, AuditAssumption
    <2> QED BY <2>2, <2>3
\* When not all are fetched, more than a page is: all that are ahead of the newest
\* row left out.
<1>7. ASSUME rows # fetched PROVE more
    <2> DEFINE T == {Cardinality(Ahead(rows, r)) : r \in rows \ fetched}
    <2>1. T \subseteq Nat /\ T # {}
        BY <1>4, <1>5, <1>7
    <2>2. PICK n \in T : \A m \in T : n <= m
        <3> HIDE DEF T
        <3> QED BY <2>1, LeastOf
    <2>3. PICK r \in rows \ fetched : n = Cardinality(Ahead(rows, r))
        OBVIOUS
    <2>4. ASSUME NEW s \in Ahead(rows, r) PROVE s \in fetched
        <3>1. s \in rows /\ Newer(s, r)
            BY DEF Ahead
        <3>2. ASSUME s \notin fetched PROVE FALSE
            <4>1. n <= Cardinality(Ahead(rows, s))
                BY <2>2, <3>1, <3>2
            <4>2. Cardinality(Ahead(rows, s)) < Cardinality(Ahead(rows, r))
                BY <1>2, <3>1, RankFalls
            <4> HIDE DEF T
            <4> QED BY <1>5, <2>3, <3>1, <4>1, <4>2
        <3> QED BY <3>2
    <2> HIDE DEF T
    <2>5. Cardinality(Ahead(rows, r)) > PageSize
        BY <1>3, <1>5, AuditAssumption
    <2>6. /\ IsFiniteSet(fetched) /\ Ahead(rows, r) \in SUBSET fetched
          /\ Cardinality(Ahead(rows, r)) <= Cardinality(fetched)
          /\ Cardinality(fetched) \in Nat
        BY <1>4, <2>4, FS_Subset, FS_CardinalityType DEF Ordered
    <2> QED BY <1>5, <2>5, <2>6, AuditAssumption
<1>8. Cardinality(fetched) \in Nat /\ IsFiniteSet(fetched)
    BY <1>4, FS_CardinalityType DEF Ordered
<1>9. CASE more
    <2>1. fetched # {}
        BY <1>8, <1>9, FS_EmptySet, AuditAssumption
    <2>2. /\ Oldest(fetched) \in fetched
          /\ \A s \in fetched \ {Oldest(fetched)} : Newer(s, Oldest(fetched))
        BY <1>4, <2>1, OldestFacts
    <2>3. page = fetched \ {Oldest(fetched)}
        BY <1>9
    <2>4. page # {}
        <3>1. Cardinality(page) = Cardinality(fetched) - 1
            BY <1>8, <2>2, <2>3, FS_RemoveElement
        <3>2. Cardinality(page) # 0
            BY <1>8, <1>9, <3>1, AuditAssumption
        <3> HIDE DEF page
        <3> QED BY <3>2, FS_EmptySet
    <2> HIDE DEF page
    <2>5. \A s \in page, r \in rows \ page : Newer(s, r)
        BY <1>6, <2>2, <2>3
    <2> HIDE DEF more
    <2> QED BY <1>1, <1>4, <1>9, <2>3, <2>4, <2>5 DEF PageOf, rows, answer
<1>10. CASE ~more
    <2>1. page = rows
        BY <1>7, <1>10
    <2> HIDE DEF more, page
    <2> QED BY <1>1, <1>10, <2>1 DEF PageOf, rows, answer
<1> QED BY <1>9, <1>10

-----------------------------------------------------------------------------
(* The invariant. *)

\* The rows that can ever be in the table of requests.
Rows ==
    {[id |-> id, ts |-> day, team |-> rec.team, user |-> rec.user,
      provider |-> rec.provider, model |-> rec.model, action |-> rec.action,
      cost |-> rec.cost, masked |-> rec.masked, shadow |-> rec.shadow, trace |-> rec.trace] :
        id \in Ids, day \in 0..MaxClock, rec \in Records}

Requests == db.requests \cup work.requests

\* An id is drawn once: even a row that only one view has is the one of its id.
Sheet ==
    /\ Requests \subseteq Rows
    /\ Ordered(Requests)
    /\ IdsOf(Requests) \subseteq used

Shown(pages) == UNION {pages[i] : i \in DOMAIN pages}

\* A listing so far. What was there at each page and is not shown yet is behind
\* all that is, so that the next page begins before it.
Listing(l, team) ==
    /\ l.pages \in Seq(SUBSET Rows)
    /\ \A i \in DOMAIN l.pages :
          Ordered(l.pages[i]) /\ \A r \in l.pages[i] : team \in {Everyone, r.team}
    /\ l.open /\ l.pages # <<>> => l.pages[Len(l.pages)] # {}
    /\ \A i, j \in DOMAIN l.pages : i < j =>
          \A r \in l.pages[i], s \in l.pages[j] : Newer(r, s)
    /\ l.present \subseteq Rows
    /\ \A r \in l.present \ Shown(l.pages) : l.open /\ \A s \in Shown(l.pages) : Newer(s, r)

Listings ==
    /\ lists = [c \in Readers |-> lists[c]]
    /\ \A c \in Readers : Listing(lists[c], ScopeOf[c])

\* A row of the configuration and the flag of a finding were last written by a
\* change that there was.
Marked(w, n) ==
    /\ \A t \in Tables : \A i \in DOMAIN w.config[t] : w.config[t][i].last <= n
    /\ \A f \in w.findings : f.last <= n

\* What RolesAreKept says of one change, in either view.
ByRight(e) ==
    IF e.op \in DOMAIN Routes
    THEN e.by \in IF Routes[e.op].table \in OwnersTables THEN {"owner"}
                                                         ELSE {"owner", "admin"}
    ELSE /\ e.by # "viewer"
         /\ e.by = "auditor" => \A r \in Requests :
               r.id = e.target[1] => r.team = TeamOf["auditor"]

Bounded ==
    /\ now <= MaxClock
    /\ used \subseteq Ids /\ IsFiniteSet(used)
    /\ boot \in Nat
    /\ swept.cutoff <= purged
    /\ Within(Cardinality(used), Cardinality(tried), boot)

AdminInv ==
    /\ Sheet
    /\ Listings
    /\ Marked(db, Cardinality(tried)) /\ Marked(work, Cardinality(tried))
    /\ \A e \in tried : ByRight(e)
    /\ Bounded

LEMMA RowsAreTyped == \A r \in Rows : r.id \in Ids /\ r.id \in Nat /\ r.ts \in Nat
BY AuditAssumption DEF Rows

-----------------------------------------------------------------------------
(* One more page. *)

LEMMA NextPageListing ==
    ASSUME Sheet, Listings, NEW c \in Readers, NextPage(c)
    PROVE  Listings'
<1> DEFINE l == lists[c]
           team == ScopeOf[c]
           begun == l.pages # <<>>
           cursor == IF begun THEN Oldest(l.pages[Len(l.pages)]) ELSE [ts |-> 0, id |-> 0]
           answer == ListRequests(work, team, begun, cursor)
           there == InScope(work.requests, team)
           rows == {r \in there : ~begun \/ After(cursor, r)}
           pages == Append(l.pages, answer.page)
           present == there \cap (IF begun THEN l.present ELSE work.requests)
           m == [pages |-> pages, open |-> answer.more, present |-> present]
<1>1. Listing(l, team) /\ lists' = [lists EXCEPT ![c] = m] /\ l.open
    BY DEF NextPage, Listings
<1>2. Ordered(work.requests) /\ work.requests \subseteq Rows
    BY FS_Subset DEF Sheet, Requests, Ordered
<1>3. PageOf(rows, answer)
    BY <1>2, PageFacts
<1> HIDE DEF answer
<1>4. /\ there \subseteq work.requests
      /\ \A r \in there : team \in {Everyone, r.team}
      /\ rows \subseteq there
    BY DEF InScope
<1> HIDE DEF there
<1>5. answer.page \subseteq rows /\ answer.page \subseteq Rows /\ Ordered(answer.page)
    <2>1. answer.page \subseteq rows
        BY <1>3 DEF PageOf
    <2>2. answer.page \in SUBSET work.requests
        BY <1>4, <2>1
    <2> HIDE DEF rows
    <2> QED BY <1>2, <2>1, <2>2, FS_Subset DEF Ordered
<1>6. /\ l.pages \in Seq(SUBSET Rows) /\ pages \in Seq(SUBSET Rows)
      /\ Len(l.pages) \in Nat /\ Len(pages) = Len(l.pages) + 1
      /\ DOMAIN l.pages = 1..Len(l.pages) /\ DOMAIN pages = 1..(Len(l.pages) + 1)
      /\ \A i \in DOMAIN l.pages : pages[i] = l.pages[i]
      /\ pages[Len(l.pages) + 1] = answer.page
      /\ pages # <<>>
    <2>1. l.pages \in Seq(SUBSET Rows) /\ answer.page \in SUBSET Rows
        BY <1>1, <1>5 DEF Listing
    <2> HIDE DEF l, answer
    <2> QED BY <2>1
<1>7. Shown(pages) = Shown(l.pages) \cup answer.page
    BY <1>6 DEF Shown
\* The cursor is the last row shown.
<1>8. ASSUME begun
      PROVE  /\ cursor \in Shown(l.pages) /\ cursor \in Rows
             /\ \A s \in Shown(l.pages) \ {cursor} : Newer(s, cursor)
    <2> DEFINE last == l.pages[Len(l.pages)]
    <2>1. Len(l.pages) \in DOMAIN l.pages
        BY <1>6, <1>8
    <2>2. last # {} /\ Ordered(last) /\ last \subseteq Rows
        BY <1>1, <1>6, <1>8, <2>1 DEF Listing
    <2>3. cursor = Oldest(last)
        BY <1>8
    <2>4. cursor \in last /\ \A s \in last \ {cursor} : Newer(s, cursor)
        BY <2>2, <2>3, OldestFacts
    <2>5. ASSUME NEW i \in DOMAIN l.pages \ {Len(l.pages)}, NEW s \in l.pages[i]
          PROVE  Newer(s, cursor)
        <3>1. i < Len(l.pages) /\ cursor \in l.pages[Len(l.pages)]
            BY <1>6, <2>4
        <3>2. \A j, k \in DOMAIN l.pages : j < k =>
                 \A x \in l.pages[j], y \in l.pages[k] : Newer(x, y)
            BY <1>1 DEF Listing
        <3> HIDE DEF l, cursor
        <3> QED BY <2>1, <3>1, <3>2
    <2> HIDE DEF cursor
    <2> QED BY <2>1, <2>2, <2>4, <2>5 DEF Shown
<1> HIDE DEF cursor
\* What is listed now is behind all that was.
<1>9. ASSUME begun, NEW s \in Shown(l.pages), NEW r \in rows PROVE Newer(s, r)
    <2>1. Newer(cursor, r)
        BY <1>9 DEF After
    <2>2. s \in Rows /\ r \in Rows
        BY <1>2, <1>4, <1>6 DEF Shown
    <2>3. CASE s = cursor
        BY <2>1, <2>3
    <2>4. CASE s # cursor
        <3>1. Newer(s, cursor) /\ cursor \in Rows
            BY <1>8, <1>9, <2>4
        <3> QED BY <2>1, <2>2, <3>1, RowsAreTyped, NewerIsOrder
    <2> QED BY <2>3, <2>4
<1>10. ~begun => Shown(l.pages) = {} /\ DOMAIN l.pages = {}
    BY <1>6 DEF Shown
<1>11. \A i, j \in DOMAIN pages : i < j => \A r \in pages[i], s \in pages[j] : Newer(r, s)
    <2> SUFFICES ASSUME NEW i \in DOMAIN pages, NEW j \in DOMAIN pages, i < j,
                        NEW r \in pages[i], NEW s \in pages[j]
                 PROVE  Newer(r, s)
        OBVIOUS
    <2>1. i \in DOMAIN l.pages /\ r \in l.pages[i]
        BY <1>6
    <2>2. CASE j \in DOMAIN l.pages
        BY <1>1, <1>6, <2>1, <2>2 DEF Listing
    <2>3. CASE j = Len(l.pages) + 1
        <3>1. begun /\ r \in Shown(l.pages) /\ s \in rows
            BY <1>5, <1>6, <1>10, <2>1, <2>3 DEF Shown
        <3> QED BY <1>9, <3>1
    <2> QED BY <1>6, <2>2, <2>3
<1>12. ASSUME NEW r \in present \ Shown(pages)
       PROVE  answer.more /\ \A s \in Shown(pages) : Newer(s, r)
    <2>1. r \in there /\ r \notin Shown(l.pages) /\ r \notin answer.page
        BY <1>7
    <2>2. begun => \A s \in Shown(l.pages) : Newer(s, r)
        BY <1>1, <2>1 DEF Listing
    <2>3. r \in rows
        BY <1>8, <2>1, <2>2 DEF After
    <2>4. answer.more /\ \A s \in answer.page : Newer(s, r)
        BY <1>3, <2>1, <2>3 DEF PageOf
    <2> QED BY <1>7, <1>10, <2>2, <2>4
<1>13. \A i \in DOMAIN pages :
          Ordered(pages[i]) /\ \A r \in pages[i] : team \in {Everyone, r.team}
    BY <1>1, <1>4, <1>5, <1>6 DEF Listing
<1>14. answer.more => pages[Len(pages)] # {}
    BY <1>3, <1>6 DEF PageOf
<1>15. present \subseteq Rows
    BY <1>2, <1>4
<1>16. m.pages = pages /\ m.open = answer.more /\ m.present = present
    OBVIOUS
<1> HIDE DEF m, pages, present, rows, l, begun
<1>17. Listing(m, team)
    BY <1>6, <1>11, <1>12, <1>13, <1>14, <1>15, <1>16 DEF Listing
<1> HIDE DEF team
<1>18. lists'[c] = m /\ \A d \in Readers \ {c} : lists'[d] = lists[d]
    BY <1>1 DEF Listings
<1>19. \A d \in Readers : Listing(lists'[d], ScopeOf[d])
    BY <1>17, <1>18 DEF Listings, team
<1>20. lists' = [d \in Readers |-> lists'[d]]
    BY <1>1 DEF Listings
<1> QED BY <1>19, <1>20 DEF Listings

-----------------------------------------------------------------------------
(* What a step leaves of the parts of the invariant. *)

LEMMA SheetShrinks ==
    ASSUME Sheet, Requests' \subseteq Requests, used \subseteq used'
    PROVE  Sheet'
<1>1. Ordered(Requests')
    BY FS_Subset DEF Sheet, Ordered
<1>2. IdsOf(Requests') \subseteq used'
    BY DEF Sheet, IdsOf
<1> HIDE DEF Requests
<1> QED BY <1>1, <1>2 DEF Sheet

\* The row of an id that was not drawn before.
LEMMA SheetGrows ==
    ASSUME Sheet, now \in 0..MaxClock, NEW id \in Ids \ used, NEW rec \in Records,
           Requests' \subseteq Requests \cup {Row(id, rec)}, used' = used \cup {id}
    PROVE  Sheet'
<1> DEFINE r == Row(id, rec)
<1>1. r \in Rows /\ r.id = id
    BY DEF Rows, Row
<1> HIDE DEF r
<1>2. Requests \cup {r} \subseteq Rows
    BY <1>1 DEF Sheet
<1>3. \A x \in Requests : x.id # id
    BY DEF Sheet, IdsOf
<1>4. Ordered(Requests \cup {r})
    <2>1. IsFiniteSet(Requests \cup {r})
        BY FS_AddElement DEF Sheet, Ordered
    <2>2. \A x \in Requests \cup {r} : x.id \in Nat /\ x.ts \in Nat
        BY <1>2, RowsAreTyped
    <2>3. \A x, y \in Requests \cup {r} : x.id = y.id => x = y
        BY <1>1, <1>3 DEF Sheet, Ordered
    <2> HIDE DEF Requests
    <2> QED BY <2>1, <2>2, <2>3 DEF Ordered
<1>5. IdsOf(Requests \cup {r}) \subseteq used'
    BY <1>1 DEF Sheet, IdsOf
<1>6. Requests' \subseteq Requests \cup {r}
    BY DEF r
<1> HIDE DEF Requests
<1>7. Ordered(Requests')
    BY <1>4, <1>6, FS_Subset DEF Ordered
<1>8. IdsOf(Requests') \subseteq used' /\ Requests' \subseteq Rows
    BY <1>2, <1>5, <1>6 DEF IdsOf
<1> QED BY <1>7, <1>8 DEF Sheet

LEMMA ByRightStays ==
    ASSUME NEW e, ByRight(e),
           e.op \notin DOMAIN Routes =>
              \A r \in Requests' \ Requests : r.id # e.target[1]
    PROVE  ByRight(e)'
<1> HIDE DEF Requests
<1>1. CASE e.op \in DOMAIN Routes
    BY <1>1 DEF ByRight
<1>2. CASE e.op \notin DOMAIN Routes
    BY <1>2 DEF ByRight
<1> QED BY <1>1, <1>2

\* v has rows and findings of w, new ones, or some of the change that is number m.
LEMMA MarkedFrom ==
    ASSUME NEW w, NEW ids, Traced(w, ids), NEW n \in Nat, Marked(w, n),
           NEW m \in Nat, n <= m, NEW v,
           \A t \in Tables : \A i \in DOMAIN v.config[t] :
              \/ i \in DOMAIN w.config[t] /\ v.config[t][i] = w.config[t][i]
              \/ v.config[t][i].last \in {0, m},
           \A f \in v.findings : f \in w.findings \/ f.last \in {0, m}
    PROVE  Marked(v, m)
<1>1. ASSUME NEW t \in Tables, NEW i \in DOMAIN w.config[t]
      PROVE  w.config[t][i].last \in Nat
    <2>1. w.config[t] \in Seq(ConfigRow)
        BY DEF Traced
    <2>2. w.config[t][i] \in ConfigRow
        BY <2>1
    <2> QED BY <2>2 DEF ConfigRow
<1>2. \A f \in w.findings : f.last \in Nat
    BY DEF Traced
<1>3. ASSUME NEW t \in Tables, NEW i \in DOMAIN v.config[t] PROVE v.config[t][i].last <= m
    <2>1. CASE v.config[t][i].last \in {0, m}
        BY <2>1
    <2>2. CASE i \in DOMAIN w.config[t] /\ v.config[t][i] = w.config[t][i]
        <3>1. w.config[t][i].last <= n
            BY <2>2 DEF Marked
        <3> QED BY <1>1, <2>2, <3>1
    <2> QED BY <2>1, <2>2
<1>4. ASSUME NEW f \in v.findings PROVE f.last <= m
    <2>1. CASE f.last \in {0, m}
        BY <2>1
    <2>2. CASE f \in w.findings
        BY <1>2, <2>2 DEF Marked
    <2> QED BY <2>1, <2>2
<1> QED BY <1>3, <1>4 DEF Marked

\* A step that makes no change.
LEMMA ChangesNothing ==
    ASSUME AdminInv, Requests' \subseteq Requests, used \subseteq used',
           UNCHANGED tried
    PROVE  Sheet' /\ \A e \in tried' : ByRight(e)'
<1>1. Sheet'
    BY SheetShrinks DEF AdminInv
<1>2. ASSUME NEW e \in tried PROVE ByRight(e)'
    BY ByRightStays DEF AdminInv
<1> QED BY <1>1, <1>2

-----------------------------------------------------------------------------
(* The steps. *)

LEMMA AdminInitInv == Init => AdminInv
<1> SUFFICES ASSUME Init PROVE AdminInv
    OBVIOUS
<1>1. /\ Empty.requests = {} /\ Empty.findings = {} /\ Empty.events = {}
      /\ Traced(Empty, used)
    <2>1. /\ Empty.requests = {} /\ Empty.findings = {} /\ Empty.captures = {}
          /\ Empty.events = {} /\ Shape(Empty)
        BY DEF Empty, Shape
    <2>2. Empty.config \in [Tables -> Seq(ConfigRow)]
        <3>1. <<[last |-> 0, status |-> "open"]>> \in Seq(ConfigRow)
            BY DEF ConfigRow, Statuses
        <3> QED BY <3>1 DEF Empty
    <2> QED BY <2>1, <2>2 DEF Traced
<1>2. db.requests = {} /\ db.findings = {} /\ NoneChanged(Empty.config, db.config) /\ work = db
    BY <1>1, StartFields DEF Init
<1>3. tried = {} /\ used = {} /\ now = 0 /\ boot = 0
    BY DEF Init
<1>4. Sheet
    BY <1>2, FS_EmptySet DEF Sheet, Requests, Ordered, IdsOf
<1>5. Listings
    <2>1. \A c \in Readers : lists[c] = NoListing
        BY DEF Init
    <2>2. \A team : Listing(NoListing, team)
        BY DEF Listing, NoListing, Shown
    <2>3. lists = [c \in Readers |-> lists[c]]
        BY DEF Init
    <2> QED BY <2>1, <2>2, <2>3 DEF Listings
<1>6. Marked(db, Cardinality(tried))
    <2>1. Marked(Empty, 0)
        <3>1. \A t \in Tables : \A i \in DOMAIN Empty.config[t] : Empty.config[t][i].last = 0
            BY DEF Empty
        <3> QED BY <1>1, <3>1 DEF Marked
    <2>2. Marked(db, 0)
        BY <1>1, <1>2, <2>1, MarkedFrom DEF NoneChanged
    <2> QED BY <1>3, <2>2, FS_EmptySet
<1>7. Bounded
    <2>1. swept.cutoff <= purged
        BY Numbers DEF Init
    <2>2. PICK load \in Loads : load \in Nat \X Nat \X Nat
        BY AdminAssumption
    <2>3. Within(0, 0, 0)
        BY <2>2 DEF Within
    <2>4. MaxClock \in Nat
        BY AuditAssumption
    <2> QED BY <1>3, <2>1, <2>3, <2>4, FS_EmptySet DEF Bounded
<1> QED BY <1>2, <1>3, <1>4, <1>5, <1>6, <1>7 DEF AdminInv

LEMMA RecordAdmin ==
    ASSUME StoreInv, AdminInv, UNCHANGED <<now, admin, boot>>,
           NEW id \in Ids, NEW rec \in Records,
           Within(Cardinality(used) + 1, Cardinality(tried), boot),
           \/ RecordRequest(id, rec)
           \/ \E n \in 1..Statements(rec) : RecordFails(id, rec, n)
    PROVE  AdminInv'
<1> DEFINE r == Row(id, rec)
<1>1. /\ id \notin used /\ used' = used \cup {id} /\ UNCHANGED <<purged, swept, lists, tried>>
      /\ \E n \in Nat \ {0} :
            /\ work' = Insert(work, r, n)
            /\ db' \in {db, work'}
    <2>1. Statements(r) \in Nat \ {0} /\ Statements(rec) \in Nat
        BY RowFacts
    <2> QED BY <2>1 DEF RecordRequest, RecordFails, admin
<1>2. PICK n \in Nat \ {0} : work' = Insert(work, r, n) /\ db' \in {db, work'}
    BY <1>1
<1>3. Traced(work, used) /\ Histories
    BY DEF StoreInv, View
<1>4. /\ work'.requests = work.requests \cup {r}
      /\ work'.findings = work.findings \cup FindingsOf(r, n - 1)
      /\ work'.config = work.config
    BY <1>2, <1>3, InsertFields
<1>5. \A f \in FindingsOf(r, n - 1) : f.last = 0
    BY DEF FindingsOf
<1>6. Requests' \subseteq Requests \cup {r} /\ r.id = id
    BY <1>2, <1>4 DEF Requests, Row
<1>7. Sheet'
    <2>1. now \in 0..MaxClock
        BY <1>3, AuditAssumption DEF AdminInv, Bounded, Histories
    <2> QED BY <1>1, <1>6, <2>1, SheetGrows DEF AdminInv
<1>8. Cardinality(tried) \in Nat
    BY <1>3, FS_CardinalityType DEF Histories
<1> HIDE DEF r
<1>9. Marked(work', Cardinality(tried))
    <2> DEFINE k == Cardinality(tried)
    <2>1. Marked(work, k) /\ k \in Nat
        BY <1>8 DEF AdminInv
    <2> HIDE DEF k
    <2>2. Marked(work', k)
        BY <1>3, <1>4, <1>5, <2>1, MarkedFrom
    <2> QED BY <2>2 DEF k
<1>10. Marked(db', Cardinality(tried))
    BY <1>2, <1>9 DEF AdminInv
<1>11. ASSUME NEW e \in tried PROVE ByRight(e)'
    <2>1. e.op \notin DOMAIN Routes => e.target[1] # id
        BY <1>1, <1>3 DEF Histories, Numbered
    <2>2. e.op \notin DOMAIN Routes => \A x \in Requests' \ Requests : x.id # e.target[1]
        BY <1>6, <2>1
    <2> QED BY <2>2, ByRightStays DEF AdminInv
<1>12. Bounded'
    <2>1. IsFiniteSet(used') /\ Cardinality(used') = Cardinality(used) + 1
        BY <1>1, FS_AddElement DEF AdminInv, Bounded
    <2> QED BY <1>1, <2>1 DEF AdminInv, Bounded
<1>13. Listings'
    BY <1>1 DEF AdminInv, Listings
<1> QED BY <1>1, <1>7, <1>9, <1>10, <1>11, <1>12, <1>13 DEF AdminInv

LEMMA PurgeAdmin ==
    ASSUME StoreInv, AdminInv, UNCHANGED <<now, admin, boot>>, Purge \/ PurgeFails
    PROVE  AdminInv'
<1> DEFINE e == Expired(work)
           v == Cut(e, now - Retention)
<1>1. /\ Traced(work, used) /\ Histories
      /\ Max({purged, now - Retention}) = now - Retention
      /\ Traced(e, used) /\ Traced(v, used)
    BY PurgeKeeps DEF StoreInv, View
<1>2. e.requests = work.requests /\ e.findings = work.findings /\ e.config = work.config
    BY <1>1, ExpiredFields
<1> HIDE DEF e
<1>3. /\ v.requests \subseteq e.requests /\ v.findings \subseteq e.findings
      /\ v.config = e.config
    <2> DEFINE kept == {r \in e.requests : r.ts >= now - Retention}
    <2>1. /\ v.requests = kept
          /\ v.findings = {f \in e.findings : f.request \in IdsOf(kept)}
          /\ v.config = e.config
        BY <1>1, CutFields
    <2>2. kept \subseteq e.requests
        OBVIOUS
    <2> HIDE DEF v, kept
    <2> QED BY <2>1, <2>2
<1>4. /\ work' \in {e, v} /\ db' \in {db, work'}
      /\ purged' = now - Retention /\ swept'.cutoff \in {swept.cutoff, now - Retention}
      /\ UNCHANGED <<now, used, lists, tried, boot>>
    BY <1>1 DEF Purge, PurgeFails, admin, e, v
<1> HIDE DEF v
<1>5. Cardinality(tried) \in Nat
    BY <1>1, FS_CardinalityType DEF Histories
<1>6. Marked(e, Cardinality(tried)) /\ Marked(v, Cardinality(tried))
    BY <1>2, <1>3 DEF AdminInv, Marked
<1>7. Requests' \subseteq Requests
    BY <1>2, <1>3, <1>4 DEF Requests
<1>8. Sheet' /\ \A x \in tried' : ByRight(x)'
    BY <1>4, <1>7, ChangesNothing
<1>9. Marked(db', Cardinality(tried)) /\ Marked(work', Cardinality(tried))
    BY <1>4, <1>6 DEF AdminInv
<1>10. Bounded'
    <2>1. swept'.cutoff <= purged'
        BY <1>1, <1>4, Numbers DEF Histories
    <2> QED BY <1>4, <2>1 DEF AdminInv, Bounded
<1>11. Listings'
    BY <1>4 DEF AdminInv, Listings
<1> QED BY <1>4, <1>8, <1>9, <1>10, <1>11 DEF AdminInv

\* A change by a role that may make it, wherever its handler raises.
LEMMA ChangeAndRecordAdmin ==
    ASSUME StoreInv, AdminInv, UNCHANGED <<now, audit, boot>>,
           Within(Cardinality(used), Serial, boot),
           NEW w, w.requests = work.requests, Traced(w, used), Marked(w, Serial),
           NEW e, ByRight(e), e.serial = Serial, ChangeAndRecord(w, e)
    PROVE  AdminInv'
<1> DEFINE v == Log(w, e)
<1>1. v.requests = w.requests /\ v.findings = w.findings /\ v.config = w.config
    BY LogFields
<1>2. /\ tried' = tried \cup {e} /\ work' \in {w, v} /\ db' \in {db, w, v}
      /\ UNCHANGED <<now, used, purged, swept, lists, boot>>
    BY DEF ChangeAndRecord, audit
<1> HIDE DEF v
<1>3. Histories /\ Traced(db, used)
    BY DEF StoreInv, View
<1>4. Serial \in Nat /\ Cardinality(tried) \in Nat /\ Serial = Cardinality(tried) + 1
    BY <1>3, FS_CardinalityType DEF Serial, Histories
<1>5. Cardinality(tried') = Serial
    <2>1. e \notin tried
        BY <1>3, <1>4, SerialIsNew
    <2> QED BY <1>2, <1>3, <1>4, <2>1, FS_AddElement DEF Histories
<1>6. Requests' \subseteq Requests
    BY <1>1, <1>2 DEF Requests
<1>7. Sheet'
    BY <1>2, <1>6, SheetShrinks DEF AdminInv
<1>8. \A x \in tried \cup {e} : ByRight(x)'
    <2>1. \A x \in tried \cup {e} : ByRight(x)
        BY DEF AdminInv
    <2> QED BY <1>6, <2>1, ByRightStays
<1>9. Marked(v, Serial)
    BY <1>1 DEF Marked
<1>10. Marked(db, Serial)
    <2> DEFINE k == Cardinality(tried)
    <2>1. Marked(db, k) /\ k \in Nat /\ Serial \in Nat /\ k <= Serial
        BY <1>4 DEF AdminInv
    <2> HIDE DEF k
    <2> QED BY <1>3, <2>1, MarkedFrom
<1>11. Marked(db', Serial) /\ Marked(work', Serial)
    BY <1>2, <1>9, <1>10
<1>12. Bounded'
    BY <1>2, <1>5 DEF AdminInv, Bounded
<1>13. Listings'
    BY <1>2 DEF AdminInv, Listings
<1> QED BY <1>2, <1>5, <1>7, <1>8, <1>11, <1>12, <1>13 DEF AdminInv

\* The permission matrix: what the routes of a table need, and who has it.
LEMMA RouteNeeds ==
    ASSUME NEW op \in DOMAIN Routes, NEW role \in Roles,
           Routes[op].needs \in role_permissions(role)
    PROVE  role \in IF Routes[op].table \in OwnersTables THEN {"owner"} ELSE {"owner", "admin"}
<1>1. Routes[op].table \in OwnersTables => Routes[op].needs = "write_access"
    BY DEF Routes, Route, OwnersTables
<1>2. Routes[op].needs \in {"write_access", "write_detectors", "write_dictionaries",
                            "write_suggestions", "write_settings"}
    BY DEF Routes, Route
<1>3. "write_access" \in role_permissions(role) => role = "owner"
    BY DEF role_permissions, Roles, Reads, TraceReads, Configures
<1>4. ASSUME role \in {"viewer", "auditor"}
      PROVE  role_permissions(role) \subseteq Reads \cup TraceReads
    BY <1>4 DEF role_permissions
<1>5. \A p \in Reads \cup TraceReads :
         p \notin {"write_access", "write_detectors", "write_dictionaries",
                   "write_suggestions", "write_settings"}
    BY DEF Reads, TraceReads
<1>6. role \notin {"viewer", "auditor"}
    BY <1>2, <1>4, <1>5
<1>7. role \in {"owner", "admin"}
    BY <1>6 DEF Roles
<1> QED BY <1>1, <1>3, <1>7

\* An auditor sees the findings of one team.
LEMMA ReportByRight ==
    ASSUME Sheet, NEW role \in Roles, NEW f,
           "report_false_positive" \in role_permissions(role),
           f \in Joined(work, InScope(work.requests, scope_team(role)))
    PROVE  ByRight(Event(role, "finding_false_positive", <<f.request, f.pos>>))
<1> DEFINE e == Event(role, "finding_false_positive", <<f.request, f.pos>>)
<1>1. e.op = "finding_false_positive" /\ e.by = role /\ e.target[1] = f.request
    BY DEF Event
<1>2. e.op \notin DOMAIN Routes
    BY <1>1 DEF Routes
<1> HIDE DEF e
<1>3. role # "viewer"
    BY DEF role_permissions, Reads
<1>4. ASSUME role = "auditor", NEW r \in Requests, r.id = f.request
      PROVE  r.team = TeamOf["auditor"]
    <2>1. PICK s \in InScope(work.requests, scope_team(role)) : s.id = f.request
        BY DEF Joined
    <2>2. s \in Requests /\ scope_team(role) \in {Everyone, s.team}
        BY DEF InScope, Requests
    <2>3. r = s
        BY <1>4, <2>1, <2>2 DEF Sheet, Ordered
    <2>4. scope_team(role) = TeamOf["auditor"] /\ TeamOf["auditor"] # Everyone
        BY <1>4, ScopeAssumption DEF scope_team, tenant_wide, Roles
    <2> QED BY <2>2, <2>3, <2>4
<1> QED BY <1>1, <1>2, <1>3, <1>4 DEF ByRight, e

LEMMA AdminStepAdmin == ASSUME StoreInv, AdminInv, AdminStep PROVE AdminInv'
<1>1. /\ Traced(work, used) /\ Histories /\ Serial \in Nat
      /\ Cardinality(tried) \in Nat /\ Serial = Cardinality(tried) + 1
    BY SerialIsNew, FS_CardinalityType DEF StoreInv, View, Histories, Serial
<1>2. Marked(work, Cardinality(tried))
    BY DEF AdminInv
<1>3. ASSUME NEW role \in Roles, NEW op \in DOMAIN Routes, NEW n \in Targets(work, op),
             Change(role, op, n)
      PROVE  AdminInv'
    <2> DEFINE w == Written(work, op, n)
               e == Event(role, op, <<n, 0>>)
               t == Routes[op].table
               k == Cardinality(tried)
    <2>1. Traced(w, used)
        BY WrittenKeeps DEF Holds
    <2>2. RowWritten(work, w, t, n)
        BY <1>1, WrittenFields
    <2>3. e.serial = Serial /\ e.op = op /\ e.by = role
        BY DEF Event
    <2>4. ByRight(e)
        BY <1>3, <2>3, RouteNeeds DEF ByRight, Change
    <2>5. ChangeAndRecord(w, e) /\ UNCHANGED <<now, audit, boot>>
          /\ Within(Cardinality(used), Serial, boot)
        BY <1>3 DEF Change
    <2>6. t \in Tables
        BY RouteFacts
    <2> HIDE DEF w, e, t
    <2>7. /\ w.requests = work.requests /\ w.findings = work.findings
          /\ \A u \in Tables : \A i \in DOMAIN w.config[u] :
                \/ i \in DOMAIN work.config[u] /\ w.config[u][i] = work.config[u][i]
                \/ w.config[u][i].last = Serial
        BY <2>2, <2>6 DEF RowWritten
    <2>8. Marked(w, Serial)
        <3>1. Marked(work, k) /\ k \in Nat /\ k <= Serial
            BY <1>1, <1>2
        <3> HIDE DEF k
        <3> QED BY <1>1, <2>7, <3>1, MarkedFrom
    <2> QED BY <2>1, <2>3, <2>4, <2>5, <2>7, <2>8, ChangeAndRecordAdmin
<1>4. ASSUME NEW role \in Roles, NEW f \in work.findings, ReportFalsePositive(role, f)
      PROVE  AdminInv'
    <2> DEFINE w == Flag(work, f)
               e == Event(role, "finding_false_positive", <<f.request, f.pos>>)
               k == Cardinality(tried)
    <2>1. Traced(w, used)
        BY FlagKeeps DEF Holds
    <2>2. /\ w.requests = work.requests /\ w.config = work.config
          /\ \A g \in w.findings : g \in work.findings \/ g.last = Serial
        BY <1>1, FlagFields
    <2>3. e.serial = Serial
        BY DEF Event
    <2>4. ByRight(e)
        BY <1>4, ReportByRight DEF ReportFalsePositive, AdminInv
    <2>5. ChangeAndRecord(w, e) /\ UNCHANGED <<now, audit, boot>>
          /\ Within(Cardinality(used), Serial, boot)
        BY <1>4 DEF ReportFalsePositive
    <2> HIDE DEF w, e
    <2>6. Marked(w, Serial)
        <3>1. Marked(work, k) /\ k \in Nat /\ k <= Serial
            BY <1>1, <1>2
        <3> HIDE DEF k
        <3> QED BY <1>1, <2>2, <3>1, MarkedFrom
    <2> QED BY <2>1, <2>2, <2>3, <2>4, <2>5, <2>6, ChangeAndRecordAdmin
<1> QED BY <1>3, <1>4 DEF AdminStep

LEMMA ConnectionAdmin ==
    ASSUME StoreInv, AdminInv, ReadSettings \/ RolledBack \/ Restart
    PROVE  AdminInv'
<1> DEFINE k == Cardinality(tried)
           row == [last |-> 0, status |-> "live"]
           settings == [work EXCEPT !.config["settings"] = <<row>>]
<1>1. /\ Traced(db, used) /\ Traced(work, used) /\ Histories
      /\ Marked(db, k) /\ Marked(work, k)
    BY DEF StoreInv, View, AdminInv
<1>2. k \in Nat
    BY <1>1, FS_CardinalityType DEF Histories
<1>3. UNCHANGED <<now, used, purged, swept, lists, tried>>
    BY DEF ReadSettings, RolledBack, Restart, audit, admin
<1>4. Bounded'
    <2>1. CASE Restart
        BY <1>3, <2>1 DEF Restart, AdminInv, Bounded
    <2>2. CASE ReadSettings \/ RolledBack
        BY <1>3, <2>2 DEF ReadSettings, RolledBack, AdminInv, Bounded
    <2> QED BY <2>1, <2>2
<1> HIDE DEF k
<1>5. ASSUME NEW w, Traced(w, used), Marked(w, k), NEW v, v.findings = w.findings,
             NoneChanged(w.config, v.config)
      PROVE  Marked(v, k)
    BY <1>2, <1>5, MarkedFrom DEF NoneChanged
<1>6. Requests' \subseteq Requests /\ Marked(db', k) /\ Marked(work', k)
    <2>1. CASE ReadSettings
        <3>1. work.config["settings"] = <<>> /\ work' = settings /\ db' \in {db, settings}
            BY <2>1 DEF ReadSettings
        <3>2. /\ settings.requests = work.requests /\ settings.findings = work.findings
              /\ NoneChanged(work.config, settings.config)
            BY <1>1, <3>1, SettingsFields
        <3> HIDE DEF settings
        <3> QED BY <1>1, <1>5, <3>1, <3>2 DEF Requests
    <2>2. CASE RolledBack
        BY <1>1, <2>2 DEF RolledBack, Requests
    <2>3. CASE Restart
        <3>1. PICK v \in {SeedAdmin(db), SeedAdmin(SeedTeams(db))} : work' = v /\ db' = v
            BY <2>3 DEF Restart
        <3>2. /\ v.requests = db.requests /\ v.findings = db.findings
              /\ NoneChanged(db.config, v.config)
            BY <1>1, StartFields
        <3> QED BY <1>1, <1>5, <3>1, <3>2 DEF Requests
    <2> QED BY <2>1, <2>2, <2>3
<1>7. Sheet' /\ \A x \in tried' : ByRight(x)'
    BY <1>3, <1>6, ChangesNothing
<1>8. Listings'
    BY <1>3 DEF AdminInv, Listings
<1> QED BY <1>3, <1>4, <1>6, <1>7, <1>8 DEF AdminInv, k

LEMMA AdminNextInv == StoreInv /\ AdminInv /\ [Next]_vars => AdminInv'
<1> SUFFICES ASSUME StoreInv, AdminInv, [Next]_vars PROVE AdminInv'
    OBVIOUS
<1>1. ASSUME UNCHANGED <<db, work, used, tried, purged, swept, boot>>,
             now' <= MaxClock, Listings'
      PROVE  AdminInv'
    <2>1. Requests' = Requests
        BY <1>1 DEF Requests
    <2>2. Sheet' /\ \A x \in tried' : ByRight(x)'
        BY <1>1, <2>1, ChangesNothing
    <2>3. Bounded'
        BY <1>1 DEF AdminInv, Bounded
    <2> QED BY <1>1, <2>2, <2>3 DEF AdminInv
<1>2. now <= MaxClock /\ Listings
    BY DEF AdminInv, Bounded
<1>3. CASE AuditStep
    <2>1. UNCHANGED <<now, admin, boot>>
        BY <1>3 DEF AuditStep
    <2>2. ASSUME NEW c \in Readers, NextPage(c) PROVE AdminInv'
        BY <1>1, <1>2, <2>1, <2>2, NextPageListing DEF AdminInv, NextPage, admin
    <2>3. CASE Purge \/ PurgeFails
        BY <2>1, <2>3, PurgeAdmin
    <2>4. ASSUME NEW id \in Ids, NEW rec \in Records,
                 Within(Cardinality(used) + 1, Cardinality(tried), boot),
                 \/ RecordRequest(id, rec)
                 \/ \E n \in 1..Statements(rec) : RecordFails(id, rec, n)
          PROVE  AdminInv'
        BY <2>1, <2>4, RecordAdmin
    <2> QED BY <1>3, <2>2, <2>3, <2>4 DEF AuditStep
<1>4. CASE Tick
    <2>1. now' <= MaxClock
        BY <1>4, AuditAssumption DEF Tick, StoreInv, Histories
    <2>2. Listings'
        BY <1>2, <1>4 DEF Tick, audit, Listings
    <2> QED BY <1>1, <1>4, <2>1, <2>2 DEF Tick, audit, admin
<1>5. CASE UNCHANGED vars
    <2>1. Listings'
        BY <1>2, <1>5 DEF vars, audit, Listings
    <2> QED BY <1>1, <1>2, <1>5, <2>1 DEF vars, audit, admin
<1> QED BY <1>3, <1>4, <1>5, AdminStepAdmin, ConnectionAdmin DEF Next

-----------------------------------------------------------------------------
(* The theorems. *)

\* Both invariants hold in every reachable state.
THEOREM AdminInvariant == Spec => [](StoreInv /\ AdminInv)
<1>1. Init => StoreInv /\ AdminInv
    BY InitInv, AdminInitInv
<1>2. (StoreInv /\ AdminInv) /\ [Next]_vars => (StoreInv /\ AdminInv)'
    BY NextInv, AdminNextInv
<1> QED BY <1>1, <1>2, PTL DEF Spec

\* A listing by pages shows no row twice, in the order of (ts, id), and at its end
\* every row that was there at each of its pages, whatever was recorded, purged,
\* rolled back or lost between two of them.
THEOREM PagingHolds == Spec => []PagingIsExact
<1>1. ASSUME AdminInv PROVE PagingIsExact
    <2> SUFFICES ASSUME NEW c \in Readers
                 PROVE  LET pages == lists[c].pages
                            shown == UNION {pages[i] : i \in DOMAIN pages}
                        IN /\ \A i, j \in DOMAIN pages : i < j =>
                                 \A r \in pages[i], s \in pages[j] : Newer(r, s)
                           /\ ~lists[c].open => lists[c].present \subseteq shown
        BY DEF PagingIsExact
    <2>1. Listing(lists[c], ScopeOf[c])
        BY <1>1 DEF AdminInv, Listings
    <2> QED BY <2>1 DEF Listing, Shown
<1> QED BY <1>1, AdminInvariant, PTL

\* Every change was made by a role that may make it, and the roles that are bound to
\* a team see and flag its requests alone.
THEOREM RolesHold == Spec => []RolesAreKept
<1>1. ASSUME AdminInv PROVE RolesAreKept
    <2>1. ASSUME NEW e \in tried
          PROVE  IF e.op \in DOMAIN Routes
                 THEN e.by \in IF Routes[e.op].table \in OwnersTables THEN {"owner"}
                                                                      ELSE {"owner", "admin"}
                 ELSE /\ e.by # "viewer"
                      /\ e.by = "auditor" => \A r \in work.requests :
                            r.id = e.target[1] => r.team = TeamOf["auditor"]
        <3>1. ByRight(e)
            BY <1>1 DEF AdminInv
        <3> QED BY <3>1 DEF ByRight, Requests
    <2>2. ASSUME NEW c \in Readers \cap {"viewer", "auditor"}, NEW i \in DOMAIN lists[c].pages,
                 NEW r \in lists[c].pages[i]
          PROVE  r.team = TeamOf[c]
        <3>1. ScopeOf[c] \in {Everyone, r.team}
            BY <1>1 DEF AdminInv, Listings, Listing
        <3>2. ScopeOf[c] = TeamOf[c] /\ TeamOf[c] # Everyone
            BY ScopeAssumption DEF scope_team, tenant_wide, Roles
        <3> QED BY <3>1, <3>2
    <2> QED BY <2>1, <2>2 DEF RolesAreKept
<1> QED BY <1>1, AdminInvariant, PTL

\* Rows that are ordered are as many as their ids.
LEMMA OneRowEach ==
    ASSUME NEW rows, Ordered(rows)
    PROVE  Cardinality(IdsOf(rows)) = Cardinality(rows)
<1> DEFINE f == [r \in rows |-> r.id]
<1>1. f \in Injection(rows, IdsOf(rows))
    BY DEF Ordered, IdsOf, Injection, IsInjective
<1>2. f \in Surjection(rows, IdsOf(rows))
    BY DEF Surjection, IdsOf
<1> HIDE DEF f
<1> QED BY <1>1, <1>2, FS_Surjection DEF Ordered

\* Type correctness of the stores.
THEOREM TypeCorrect == Spec => []TypeOK
<1>1. ASSUME StoreInv, AdminInv PROVE TypeOK
    <2>1. /\ Histories /\ Cardinality(tried) \in Nat
          /\ used \subseteq Ids /\ answered \subseteq tried /\ swept.cutoff <= purged
          /\ now \in 0..MaxClock
          /\ Within(Cardinality(used), Cardinality(tried), boot)
        <3>1. Histories /\ answered \subseteq tried
            BY <1>1 DEF StoreInv, View
        <3>2. Cardinality(tried) \in Nat
            BY <3>1, FS_CardinalityType DEF Histories
        <3>3. now \in 0..MaxClock
            BY <1>1, <3>1, AuditAssumption DEF Histories, AdminInv, Bounded
        <3> QED BY <1>1, <3>1, <3>2, <3>3 DEF AdminInv, Bounded
    <2>2. ASSUME NEW w, Traced(w, used), w.events \subseteq tried, Marked(w, Cardinality(tried)),
                 w.requests \subseteq Requests
          PROVE  Tabled(w)
        <3>1. Ordered(w.requests) /\ IdsOf(w.requests) \subseteq used
            BY <1>1, <2>2, FS_Subset DEF AdminInv, Sheet, Ordered, IdsOf
        <3>2. Cardinality(IdsOf(w.requests)) = Cardinality(w.requests)
            BY <3>1, OneRowEach
        <3>3. ASSUME NEW t \in Tables, NEW n \in DOMAIN w.config[t]
              PROVE  /\ w.config[t][n].last \in 0..Cardinality(tried)
                     /\ w.config[t][n].status
                           \in {"live", "revoked", "open", "applied", "dismissed"}
            <4>1. w.config[t] \in Seq(ConfigRow)
                BY <2>2 DEF Traced
            <4>2. w.config[t][n] \in ConfigRow /\ w.config[t][n].last <= Cardinality(tried)
                BY <2>2, <4>1 DEF Marked
            <4> QED BY <2>1, <4>2 DEF ConfigRow, Statuses
        <3>4. \A f \in w.findings : f.last \in 0..Cardinality(tried)
            BY <2>1, <2>2 DEF Traced, Marked
        <3>5. DOMAIN w.config = Tables
            BY <2>2 DEF Traced
        <3> QED BY <2>2, <3>1, <3>2, <3>3, <3>4, <3>5 DEF Tabled
    <2>3. Tabled(db) /\ Tabled(work)
        BY <1>1, <2>2 DEF StoreInv, View, AdminInv, Requests
    <2> QED BY <2>1, <2>3 DEF TypeOK
<1> QED BY <1>1, AdminInvariant, PTL

-----------------------------------------------------------------------------
(* The panels. *)

\* One view has finitely many findings, each at an entry of the trace of its request.
Entered(w) ==
    /\ IsFiniteSet(w.findings)
    /\ \A f \in w.findings, r \in w.requests : r.id = f.request => f.pos \in DOMAIN r.trace

\* What one view has when nothing has failed: what was recorded and not purged,
\* and the reports that were answered.
Exact(w) ==
    /\ \A r \in w.requests : r \in recorded /\ r.ts >= purged
    /\ \A f \in w.findings : f.last > 0 =>
          \E e \in answered : e.op \notin DOMAIN Routes /\ e.target = <<f.request, f.pos>>

PanelInv ==
    /\ Entered(db) /\ Entered(work)
    /\ faults \in Nat
    /\ faults = 0 => db = work /\ Exact(work)

\* The views before a step and after it, where only some of the rows and of their
\* findings go from one to the other.
LEMMA EnteredPart ==
    ASSUME NEW w, Entered(w), NEW v, v.requests \subseteq w.requests, v.findings \subseteq w.findings
    PROVE  Entered(v)
<1>1. IsFiniteSet(v.findings)
    BY FS_Subset DEF Entered
<1> QED BY <1>1 DEF Entered

LEMMA FindingsOfARow ==
    ASSUME NEW id \in Ids, NEW rec \in Records, NEW n \in Nat
    PROVE  /\ IsFiniteSet(FindingsOf(Row(id, rec), n))
           /\ \A f \in FindingsOf(Row(id, rec), n) :
                 f.request = id /\ f.last = 0 /\ f.pos \in DOMAIN Row(id, rec).trace
<1> DEFINE r == Row(id, rec)
           k == IF n < Len(r.trace) THEN n ELSE Len(r.trace)
           f == [i \in 1..k |-> [request |-> r.id, pos |-> i, last |-> 0]]
<1>1. k \in Nat /\ k <= Len(r.trace) /\ r.id = id
    BY RowFacts
<1>2. FindingsOf(r, n) = {f[i] : i \in 1..k}
    BY DEF FindingsOf
<1>3. DOMAIN r.trace = 1..Len(r.trace) /\ Len(r.trace) \in Nat
    BY RowFacts
<1>4. \A i \in 1..k : i \in DOMAIN r.trace
    BY <1>1, <1>3
<1>5. \A i \in 1..k : f[i].request = id /\ f[i].last = 0 /\ f[i].pos = i
    BY <1>1
<1> HIDE DEF k, f
<1>6. IsFiniteSet(1..k)
    BY <1>1, FS_Interval
<1>7. IsFiniteSet({f[i] : i \in 1..k})
    BY <1>6, ValuesAreFinite
<1> QED BY <1>2, <1>4, <1>5, <1>7

LEMMA RecordPanel ==
    ASSUME StoreInv, AdminInv, PanelInv, UNCHANGED <<now, admin>>,
           NEW id \in Ids, NEW rec \in Records,
           \/ RecordRequest(id, rec)
           \/ \E n \in 1..Statements(rec) : RecordFails(id, rec, n)
    PROVE  PanelInv'
<1> DEFINE r == Row(id, rec)
<1>1. /\ Traced(work, used) /\ Histories
      /\ IdsOf(work.requests) \subseteq used
    BY DEF StoreInv, View, AdminInv, Sheet, Requests, IdsOf
<1>2. PICK n \in Nat \ {0} :
          /\ id \notin used /\ work' = Insert(work, r, n)
          /\ \/ RecordRequest(id, rec) /\ db' = work'
             \/ db' = db /\ Fault
    <2>1. Statements(r) \in Nat \ {0} /\ Statements(rec) \in Nat
        BY RowFacts
    <2> QED BY <2>1 DEF RecordRequest, RecordFails
<1> DEFINE new == FindingsOf(r, n - 1)
<1>3. /\ work'.requests = work.requests \cup {r}
      /\ work'.findings = work.findings \cup new
    BY <1>1, <1>2, InsertFields
<1>4. /\ r.id = id /\ r.ts = now /\ IsFiniteSet(new)
      /\ \A f \in new : f.request = id /\ f.last = 0 /\ f.pos \in DOMAIN r.trace
    BY RowFacts, FindingsOfARow
<1>5. \A f \in work.findings : f.request \in used
    BY <1>1 DEF Traced
<1>6. r.ts >= purged
    BY <1>1, <1>4, Numbers DEF Histories
<1>7. RecordRequest(id, rec) => recorded' = recorded \cup {r} /\ UNCHANGED <<purged, faults>>
    BY DEF RecordRequest
<1> HIDE DEF r, new
<1>8. Entered(work')
    <2>1. IsFiniteSet(work'.findings)
        <3>1. IsFiniteSet(work.findings)
            BY DEF PanelInv, Entered
        <3>2. IsFiniteSet(work.findings \cup new)
            BY <1>4, <3>1, FS_Union
        <3> QED BY <1>3, <3>2
    <2>2. ASSUME NEW f \in work'.findings, NEW s \in work'.requests, s.id = f.request
          PROVE  f.pos \in DOMAIN s.trace
        <3>1. CASE s = r
            <4>1. f \in new
                BY <1>2, <1>3, <1>4, <1>5, <2>2, <3>1
            <4> QED BY <1>4, <3>1, <4>1
        <3>2. CASE s \in work.requests
            <4>1. f \in work.findings
                BY <1>1, <1>2, <1>3, <1>4, <2>2, <3>2 DEF IdsOf
            <4> QED BY <2>2, <3>2, <4>1 DEF PanelInv, Entered
        <3> QED BY <1>3, <3>1, <3>2
    <2> QED BY <2>1, <2>2 DEF Entered
<1>9. CASE RecordRequest(id, rec) /\ db' = work'
    <2>1. ASSUME faults = 0 PROVE Exact(work)'
        <3>1. \A s \in work'.requests : s \in recorded' /\ s.ts >= purged'
            BY <1>3, <1>6, <1>7, <1>9, <2>1 DEF PanelInv, Exact
        <3>2. ASSUME NEW f \in work'.findings, f.last > 0
              PROVE  \E e \in answered' :
                        e.op \notin DOMAIN Routes /\ e.target = <<f.request, f.pos>>
            <4>1. f \in work.findings
                BY <1>3, <1>4, <3>2
            <4>2. answered' = answered
                BY DEF admin
            <4> QED BY <2>1, <3>2, <4>1, <4>2 DEF PanelInv, Exact
        <3> QED BY <3>1, <3>2 DEF Exact
    <2> QED BY <1>7, <1>8, <1>9, <2>1 DEF PanelInv
<1>10. CASE db' = db /\ Fault
    BY <1>8, <1>10 DEF PanelInv, Fault
<1> QED BY <1>2, <1>9, <1>10

LEMMA PurgePanel ==
    ASSUME StoreInv, AdminInv, PanelInv, UNCHANGED <<now, admin>>, Purge \/ PurgeFails
    PROVE  PanelInv'
<1> DEFINE e == Expired(work)
           v == Cut(e, now - Retention)
           later == Max({purged, now - Retention})
<1>1. Traced(work, used) /\ Traced(e, used) /\ later = now - Retention
    BY PurgeKeeps DEF StoreInv, View
<1>2. e.requests = work.requests /\ e.findings = work.findings
    BY <1>1, ExpiredFields
<1>3. purged' = later /\ UNCHANGED <<used, recorded>>
    BY DEF Purge, PurgeFails
<1>4. Purge => work' = v /\ db' = v /\ UNCHANGED faults
    BY DEF Purge
<1>5. PurgeFails => work' \in {e, v} /\ db' = db /\ Fault
    BY DEF PurgeFails
<1> HIDE DEF e
<1>6. /\ v.requests = {r \in e.requests : r.ts >= now - Retention}
      /\ v.findings \subseteq e.findings
    <2> DEFINE kept == {r \in e.requests : r.ts >= now - Retention}
    <2>1. v.requests = kept /\ v.findings = {f \in e.findings : f.request \in IdsOf(kept)}
        BY <1>1, CutFields
    <2> HIDE DEF v
    <2> QED BY <2>1
<1> HIDE DEF v, later
<1>7. Entered(e) /\ Entered(v)
    BY <1>2, <1>6, EnteredPart DEF PanelInv
<1>8. CASE Purge
    <2>1. ASSUME faults = 0 PROVE Exact(work)'
        <3>1. \A r \in work'.requests : r \in recorded' /\ r.ts >= purged'
            BY <1>1, <1>2, <1>3, <1>4, <1>6, <1>8, <2>1 DEF PanelInv, Exact
        <3>2. \A f \in work'.findings : f \in work.findings
            BY <1>2, <1>4, <1>6, <1>8
        <3>3. answered' = answered
            BY DEF admin
        <3> QED BY <2>1, <3>1, <3>2, <3>3 DEF PanelInv, Exact
    <2> QED BY <1>4, <1>7, <1>8, <2>1 DEF PanelInv
<1>9. CASE PurgeFails
    BY <1>5, <1>7, <1>9 DEF PanelInv, Fault
<1> QED BY <1>8, <1>9

\* The steps that answer for what they have changed.
LEMMA ChangeAndRecordPanel ==
    ASSUME PanelInv, UNCHANGED <<now, audit>>, NEW w, Traced(w, used), Entered(w),
           w.requests = work.requests, NEW e,
           \A f \in w.findings :
              \/ f \in work.findings
              \/ e.op \notin DOMAIN Routes /\ e.target = <<f.request, f.pos>>,
           ChangeAndRecord(w, e)
    PROVE  PanelInv'
<1> DEFINE v == Log(w, e)
<1>1. v.findings = w.findings /\ v.requests = w.requests
    BY LogFields
<1>2. /\ UNCHANGED <<recorded, purged>>
      /\ \/ work' = v /\ db' = v /\ answered' = answered \cup {e} /\ UNCHANGED faults
         \/ work' \in {w, v} /\ db' \in {db, w} /\ Fault
    BY DEF ChangeAndRecord, audit
<1> HIDE DEF v
<1>3. Entered(v)
    BY <1>1, EnteredPart
<1>4. CASE work' = v /\ db' = v /\ answered' = answered \cup {e} /\ UNCHANGED faults
    <2>1. ASSUME faults = 0 PROVE Exact(work)'
        <3>1. \A r \in work'.requests : r \in recorded' /\ r.ts >= purged'
            BY <1>1, <1>2, <1>4, <2>1 DEF PanelInv, Exact
        <3>2. ASSUME NEW f \in work'.findings, f.last > 0
              PROVE  \E x \in answered' :
                        x.op \notin DOMAIN Routes /\ x.target = <<f.request, f.pos>>
            <4>1. f \in w.findings
                BY <1>1, <1>4
            <4>2. CASE f \in work.findings
                BY <1>4, <2>1, <3>2, <4>2 DEF PanelInv, Exact
            <4>3. CASE e.op \notin DOMAIN Routes /\ e.target = <<f.request, f.pos>>
                BY <1>4, <4>3
            <4> QED BY <4>1, <4>2, <4>3
        <3> QED BY <3>1, <3>2 DEF Exact
    <2> QED BY <1>3, <1>4, <2>1 DEF PanelInv
<1>5. CASE work' \in {w, v} /\ db' \in {db, w} /\ Fault
    BY <1>3, <1>5 DEF PanelInv, Fault
<1> QED BY <1>2, <1>4, <1>5

LEMMA AdminStepPanel ==
    ASSUME StoreInv, PanelInv, AdminStep
    PROVE  PanelInv'
<1>1. /\ Traced(work, used) /\ Serial \in Nat /\ Entered(work)
    BY SerialIsNew DEF StoreInv, View, PanelInv
<1>2. ASSUME NEW role \in Roles, NEW op \in DOMAIN Routes, NEW n \in Targets(work, op),
             Change(role, op, n)
      PROVE  PanelInv'
    <2> DEFINE w == Written(work, op, n)
    <2>1. w.findings = work.findings /\ w.requests = work.requests /\ Traced(w, used)
        BY <1>1, WrittenFields, WrittenKeeps DEF RowWritten, Holds
    <2>2. UNCHANGED <<now, audit>> /\ \E e : ChangeAndRecord(w, e)
        BY <1>2 DEF Change
    <2> HIDE DEF w
    <2>3. Entered(w)
        BY <1>1, <2>1, EnteredPart
    <2> QED BY <2>1, <2>2, <2>3, ChangeAndRecordPanel
<1>3. ASSUME NEW role \in Roles, NEW f \in work.findings, ReportFalsePositive(role, f)
      PROVE  PanelInv'
    <2> DEFINE w == Flag(work, f)
               g == [request |-> f.request, pos |-> f.pos, last |-> Serial]
               e == Event(role, "finding_false_positive", <<f.request, f.pos>>)
    <2>1. /\ w.requests = work.requests
          /\ w.findings = (work.findings \ {f}) \cup {g}
        BY <1>1, FlagFields
    <2>2. Traced(w, used)
        BY FlagKeeps DEF Holds
    <2>3. UNCHANGED <<now, audit>> /\ ChangeAndRecord(w, e)
        BY <1>3 DEF ReportFalsePositive
    <2>4. e.op \notin DOMAIN Routes /\ e.target = <<f.request, f.pos>>
        BY DEF Event, Routes
    <2>5. g.request = f.request /\ g.pos = f.pos
        OBVIOUS
    <2> HIDE DEF w, e, g
    <2>6. Entered(w)
        <3>1. IsFiniteSet(work.findings \ {f})
            BY <1>1, FS_RemoveElement DEF Entered
        <3>2. IsFiniteSet(w.findings)
            BY <2>1, <3>1, FS_AddElement
        <3>3. ASSUME NEW x \in w.findings, NEW r \in w.requests, r.id = x.request
              PROVE  x.pos \in DOMAIN r.trace
            BY <1>1, <2>1, <2>5, <3>3 DEF Entered
        <3> QED BY <3>2, <3>3 DEF Entered
    <2>7. \A x \in w.findings :
              \/ x \in work.findings
              \/ e.op \notin DOMAIN Routes /\ e.target = <<x.request, x.pos>>
        BY <2>1, <2>4, <2>5
    <2> QED BY <2>1, <2>2, <2>3, <2>6, <2>7, ChangeAndRecordPanel
<1> QED BY <1>2, <1>3 DEF AdminStep

LEMMA ConnectionPanel ==
    ASSUME StoreInv, PanelInv, ReadSettings \/ RolledBack \/ Restart
    PROVE  PanelInv'
<1>1. /\ Traced(db, used) /\ Traced(work, used) /\ Entered(db) /\ Entered(work)
      /\ UNCHANGED <<recorded, purged, answered>>
    BY DEF StoreInv, View, PanelInv, ReadSettings, RolledBack, Restart, audit, admin
<1>2. ASSUME NEW w, Entered(w), NEW v, v.requests = w.requests, v.findings = w.findings
      PROVE  Entered(v) /\ (Exact(w) => \A x : x = v =>
                 /\ \A r \in x.requests : r \in recorded' /\ r.ts >= purged'
                 /\ \A f \in x.findings : f.last > 0 =>
                       \E e \in answered' :
                          e.op \notin DOMAIN Routes /\ e.target = <<f.request, f.pos>>)
    <2>1. Entered(v)
        BY <1>2, EnteredPart
    <2> QED BY <1>1, <1>2, <2>1 DEF Exact
<1>3. CASE ReadSettings
    <2> DEFINE v == [work EXCEPT !.config["settings"] = <<[last |-> 0, status |-> "live"]>>]
    <2>1. v.findings = work.findings /\ v.requests = work.requests
        BY <1>1, <1>3, SettingsFields DEF ReadSettings
    <2>2. work' = v /\ ((db' = v /\ UNCHANGED faults) \/ (Fault /\ UNCHANGED db))
        BY <1>3 DEF ReadSettings
    <2> HIDE DEF v
    <2>3. Entered(v) /\ (Exact(work) => Exact(work)')
        BY <1>1, <1>2, <2>1, <2>2 DEF Exact
    <2> QED BY <1>1, <2>2, <2>3 DEF PanelInv, Fault
<1>4. CASE RolledBack
    <2>1. work' = db /\ db' = db /\ faults' = faults /\ work # db
        BY <1>4 DEF RolledBack
    <2> QED BY <1>1, <2>1 DEF PanelInv
<1>5. CASE Restart
    <2>1. PICK v \in {SeedAdmin(db), SeedAdmin(SeedTeams(db))} :
              work' = v /\ db' = v /\ faults' = faults
        BY <1>5 DEF Restart
    <2>2. v.findings = db.findings /\ v.requests = db.requests
        BY <1>1, StartFields
    <2>3. Entered(v) /\ (Exact(db) => Exact(work)')
        BY <1>1, <1>2, <2>1, <2>2 DEF Exact
    <2> QED BY <2>1, <2>3 DEF PanelInv
<1> QED BY <1>3, <1>4, <1>5

LEMMA PanelNextInv == StoreInv /\ AdminInv /\ PanelInv /\ [Next]_vars => PanelInv'
<1> SUFFICES ASSUME StoreInv, AdminInv, PanelInv, [Next]_vars PROVE PanelInv'
    OBVIOUS
<1>1. ASSUME UNCHANGED <<db, work, recorded, purged, answered, faults>> PROVE PanelInv'
    BY <1>1 DEF PanelInv, Entered, Exact
<1>2. CASE AuditStep
    <2>1. UNCHANGED <<now, admin>>
        BY <1>2 DEF AuditStep
    <2>2. ASSUME NEW c \in Readers, NextPage(c) PROVE PanelInv'
        BY <1>1, <2>1, <2>2 DEF NextPage, admin
    <2>3. CASE Purge \/ PurgeFails
        BY <2>1, <2>3, PurgePanel
    <2>4. ASSUME NEW id \in Ids, NEW rec \in Records,
                 \/ RecordRequest(id, rec)
                 \/ \E n \in 1..Statements(rec) : RecordFails(id, rec, n)
          PROVE  PanelInv'
        BY <2>1, <2>4, RecordPanel
    <2> QED BY <1>2, <2>2, <2>3, <2>4 DEF AuditStep
<1>3. CASE Tick
    BY <1>1, <1>3 DEF Tick, audit, admin
<1>4. CASE UNCHANGED vars
    BY <1>1, <1>4 DEF vars, audit, admin
<1> QED BY <1>2, <1>3, <1>4, AdminStepPanel, ConnectionPanel DEF Next

\* The invariant of the panels: one finding at each entry of a trace, and while
\* nothing has failed one view, with the rows recorded and not purged alone.
THEOREM PanelInvariant == Spec => []PanelInv
<1>1. Init => PanelInv
    <2> SUFFICES ASSUME Init PROVE PanelInv
        OBVIOUS
    <2>1. db.findings = {} /\ db.requests = {} /\ work = db /\ faults = 0
        BY DEF Init, SeedAdmin, SeedTeams, Empty
    <2> QED BY <2>1, FS_EmptySet DEF PanelInv, Entered, Exact
<1>2. (StoreInv /\ AdminInv) /\ PanelInv /\ [Next]_vars => PanelInv'
    BY PanelNextInv
<1> QED BY <1>1, <1>2, AdminInvariant, PTL DEF Spec

\* What is known of a set of rows beside the set that is shown.
Costed(rows) == IsFiniteSet(rows) /\ \A r \in rows : r.cost \in Nat

Matches(known, shown) ==
    /\ known \subseteq shown
    /\ Costed(shown)
    /\ faults = 0 => known = shown

LEMMA SubsetTallies ==
    ASSUME NEW Y, IsFiniteSet(Y), NEW X, X \subseteq Y, faults = 0 => X = Y
    PROVE  /\ Tallies(Cardinality(Y), Cardinality(X))
           /\ Cardinality(X) \in Nat /\ Cardinality(Y) \in Nat
<1>1. IsFiniteSet(X) /\ Cardinality(X) <= Cardinality(Y)
    BY FS_Subset
<1> QED BY <1>1, FS_CardinalityType DEF Tallies

\* What is known is shown one to one.
LEMMA ImageTallies ==
    ASSUME NEW X, NEW Y, IsFiniteSet(Y), NEW m, \A x \in X : m[x] \in Y,
           \A x, z \in X : m[x] = m[z] => x = z,
           faults = 0 => \A y \in Y : \E x \in X : m[x] = y
    PROVE  Tallies(Cardinality(Y), Cardinality(X))
<1> DEFINE f == [x \in X |-> m[x]]
<1>1. f \in Injection(X, Y)
    BY DEF Injection, IsInjective
<1>2. faults = 0 => f \in Surjection(X, Y)
    BY DEF Surjection
<1> HIDE DEF f
<1>3. /\ IsFiniteSet(X) /\ Cardinality(X) <= Cardinality(Y)
      /\ Cardinality(X) = Cardinality(Y) <=> f \in Surjection(X, Y)
    BY <1>1, FS_Injection
<1>4. Cardinality(X) \in Nat /\ Cardinality(Y) \in Nat
    BY <1>3, FS_CardinalityType
<1> QED BY <1>2, <1>3, <1>4 DEF Tallies

\* More numbers that are not negative have no smaller sum.
LEMMA SumGrows ==
    ASSUME NEW f, NEW Y, IsFiniteSet(Y), \A y \in Y : f[y] \in Nat, NEW X \in SUBSET Y
    PROVE  SumFunctionOnSet(f, X) <= SumFunctionOnSet(f, Y)
<1> DEFINE Sum(T) == SumFunctionOnSet(f, T)
           N == {n \in Nat : \A T \in SUBSET Y :
                    X \subseteq T /\ Cardinality(T \ X) = n => Sum(X) <= Sum(T)}
<1>1. Counts(f, Y) /\ \A T \in SUBSET Y : Counts(f, T) /\ Sum(T) \in Int
    <2>1. Counts(f, Y)
        BY DEF Counts
    <2> QED BY <2>1, SubsetsCount, SumIsInt
<1>2. 0 \in N
    <2> SUFFICES ASSUME NEW T \in SUBSET Y, X \subseteq T, Cardinality(T \ X) = 0
                 PROVE  Sum(X) <= Sum(T)
        OBVIOUS
    <2>1. IsFiniteSet(T \ X)
        BY FS_Subset
    <2>2. T \ X = {}
        BY <2>1, FS_EmptySet
    <2>3. T = X
        BY <2>2
    <2> HIDE DEF Sum
    <2> QED BY <1>1, <2>3
<1>3. ASSUME NEW n \in Nat, n \in N PROVE n + 1 \in N
    <2> SUFFICES ASSUME NEW T \in SUBSET Y, X \subseteq T, Cardinality(T \ X) = n + 1
                 PROVE  Sum(X) <= Sum(T)
        OBVIOUS
    <2>1. IsFiniteSet(T \ X)
        BY FS_Subset
    <2>2. PICK y \in T \ X : TRUE
        BY <2>1, FS_EmptySet
    <2> DEFINE U == T \ {y}
    <2>3. U \in SUBSET Y /\ X \subseteq U /\ U \ X = (T \ X) \ {y}
        BY <2>2
    <2>4. Cardinality(U \ X) = n
        <3> HIDE DEF U
        <3>1. Cardinality((T \ X) \ {y}) = Cardinality(T \ X) - 1
            BY <2>1, <2>2, FS_RemoveElement
        <3>2. Cardinality(U \ X) = Cardinality((T \ X) \ {y})
            BY <2>3, Zenon
        <3>3. Cardinality(T \ X) = n + 1
            OBVIOUS
        <3>4. Cardinality(T \ X) - 1 = n
            BY ONLY <3>3, n \in Nat
        <3> QED BY ONLY <3>1, <3>2, <3>4
    <2>5. Sum(X) <= Sum(U)
        BY <1>3, <2>3, <2>4
    <2>6. Sum(T) = f[y] + Sum(U) /\ f[y] \in Nat
        BY <1>1, <2>2, SumTakesAny
    <2> HIDE DEF Sum, U
    <2> QED BY <1>1, <2>3, <2>5, <2>6
<1>4. Nat \subseteq N
    <2> HIDE DEF N
    <2> QED BY <1>2, <1>3, SetInduction
<1>5. Cardinality(Y \ X) \in Nat
    BY FS_Subset, FS_CardinalityType
<1>6. Cardinality(Y \ X) \in N
    BY <1>4, <1>5
<1> QED BY <1>6

LEMMA CostTallies ==
    ASSUME NEW Y, NEW X, Matches(X, Y)
    PROVE  Tallies(Cost(Y), Cost(X))
<1> DEFINE f == [r \in Y |-> r.cost]
           g == [r \in X |-> r.cost]
<1>1. IsFiniteSet(Y) /\ X \in SUBSET Y /\ \A r \in Y : f[r] \in Nat
    BY DEF Matches, Costed
<1>2. Cost(Y) = SumFunctionOnSet(f, Y) /\ Cost(X) = SumFunctionOnSet(g, X)
    BY DEF Cost, SumFunction
<1>3. \A r \in X : g[r] = f[r]
    BY <1>1
<1> HIDE DEF f, g
<1>4. Counts(f, Y) /\ Counts(f, X)
    <2>1. Counts(f, Y)
        BY <1>1 DEF Counts
    <2> QED BY <1>1, <2>1, SubsetsCount
<1>5. SumFunctionOnSet(g, X) = SumFunctionOnSet(f, X)
    BY <1>3, <1>4, SumOfSame
<1>6. SumFunctionOnSet(f, X) <= SumFunctionOnSet(f, Y)
    BY <1>1, SumGrows
<1>7. SumFunctionOnSet(f, X) \in Int /\ SumFunctionOnSet(f, Y) \in Int
    BY <1>4, SumIsInt
<1>8. faults = 0 => X = Y
    BY DEF Matches
<1> QED BY <1>2, <1>5, <1>6, <1>7, <1>8 DEF Tallies

LEMMA PartsMatch ==
    ASSUME NEW Y, NEW X, Matches(X, Y), NEW field, NEW key
    PROVE  /\ Matches(Having(X, field, key), Having(Y, field, key))
           /\ Matches(Flagged(X), Flagged(Y))
           /\ Having(Y, field, key) \subseteq Y
<1>1. /\ Having(X, field, key) \subseteq Having(Y, field, key)
      /\ Flagged(X) \subseteq Flagged(Y)
      /\ Having(Y, field, key) \subseteq Y /\ Flagged(Y) \subseteq Y
    BY DEF Matches, Having, Flagged
<1>2. Costed(Having(Y, field, key)) /\ Costed(Flagged(Y))
    BY <1>1, FS_Subset DEF Matches, Costed
<1>3. faults = 0 => X = Y
    BY DEF Matches
<1> QED BY <1>1, <1>2, <1>3 DEF Matches

LEMMA CountMatches ==
    ASSUME NEW Y, NEW X, Matches(X, Y)
    PROVE  /\ Tallies(Cardinality(Y), Cardinality(X))
           /\ Cardinality(X) \in Nat /\ Cardinality(Y) \in Nat
BY SubsetTallies DEF Matches, Costed

\* The breakdown of the rows shown is that of the rows known.
LEMMA BreakdownsCount ==
    ASSUME NEW Y, NEW X, Matches(X, Y), NEW field
    PROVE  /\ CountsPer(CountsBy(Y, field), X, field)
           /\ CostsPer(CostsBy(Y, field), X, field)
<1>1. X \subseteq Y /\ (faults = 0 => X = Y)
    BY DEF Matches
<1>2. /\ Groups(CountsBy(Y, field), {r[field] : r \in X})
      /\ Groups(CostsBy(Y, field), {r[field] : r \in X})
    BY <1>1 DEF Groups, CountsBy, CostsBy
<1>3. ASSUME NEW r \in X
      PROVE  /\ CountsBy(Y, field)[r[field]] = Cardinality(Having(Y, field, r[field]))
             /\ CostsBy(Y, field)[r[field]] = Cost(Having(Y, field, r[field]))
    BY <1>1 DEF CountsBy, CostsBy
<1>4. ASSUME NEW r \in X
      PROVE  /\ Tallies(Cardinality(Having(Y, field, r[field])),
                        Cardinality(Having(X, field, r[field])))
             /\ Tallies(Cost(Having(Y, field, r[field])), Cost(Having(X, field, r[field])))
    <2>1. Matches(Having(X, field, r[field]), Having(Y, field, r[field]))
        BY PartsMatch
    <2> QED BY <2>1, CountMatches, CostTallies
<1> QED BY <1>2, <1>3, <1>4 DEF CountsPer, CostsPer

\* The numbers of a breakdown add up to the rows.
LEMMA BreakdownTotal ==
    ASSUME NEW rows, Costed(rows), NEW field
    PROVE  SumFunction(CountsBy(rows, field)) = Cardinality(rows)
<1> DEFINE K == {r[field] : r \in rows}
           key == [r \in rows |-> r[field]]
           f == [k \in K |-> Cardinality({r \in rows : key[r] = k})]
<1>1. IsFiniteSet(rows) /\ \A r \in rows : key[r] \in K
    BY DEF Costed
<1>2. CountsBy(rows, field) = f
    BY DEF CountsBy, Having
<1>3. SumFunction(f) = SumFunctionOnSet(f, K)
    BY DEF SumFunction
<1>4. IsFiniteSet(K)
    <2>1. K = {key[r] : r \in rows}
        OBVIOUS
    <2> HIDE DEF K, key
    <2> QED BY <1>1, <2>1, ValuesAreFinite
<1> HIDE DEF K, key
<1>5. SumFunctionOnSet(f, K) = Cardinality(rows)
    BY <1>1, <1>4, CountOfGroups
<1> QED BY <1>2, <1>3, <1>5

Ranked(groups, rank) ==
    /\ IsFiniteSet(DOMAIN groups)
    /\ \A k \in DOMAIN groups : rank[k][1] \in Nat /\ rank[k][2] \in Nat

LEMMA LeadsIsOrder ==
    ASSUME NEW a, NEW b, NEW c, \A x \in {a, b, c} : x[1] \in Nat /\ x[2] \in Nat
    PROVE  ~Leads(a, a) /\ (Leads(a, b) /\ Leads(b, c) => Leads(a, c))
<1>1. a[1] \in Nat /\ a[2] \in Nat /\ b[1] \in Nat /\ b[2] \in Nat /\ c[1] \in Nat /\ c[2] \in Nat
    OBVIOUS
<1> QED BY ONLY <1>1 DEF Leads

\* Some group is led by none.
LEMMA LeaderExists ==
    ASSUME NEW groups, NEW rank, Ranked(groups, rank), NEW keys \in SUBSET DOMAIN groups, keys # {}
    PROVE  \E k \in keys : \A j \in keys : ~Leads(rank[j], rank[k])
<1> DEFINE Above(k) == {j \in keys : Leads(rank[j], rank[k])}
           T == {Cardinality(Above(k)) : k \in keys}
<1>1. \A k \in keys : IsFiniteSet(Above(k)) /\ Cardinality(Above(k)) \in Nat
    <2>1. \A k \in keys : Above(k) \subseteq DOMAIN groups
        OBVIOUS
    <2> HIDE DEF Above
    <2> QED BY <2>1, FS_Subset, FS_CardinalityType DEF Ranked
<1>2. PICK n \in T : \A m \in T : n <= m
    <2>1. T \subseteq Nat /\ T # {}
        BY <1>1
    <2> HIDE DEF T
    <2> QED BY <2>1, LeastOf
<1>3. PICK k \in keys : n = Cardinality(Above(k))
    OBVIOUS
<1>4. ASSUME NEW j \in keys, Leads(rank[j], rank[k]) PROVE FALSE
    <2>1. \A i \in keys : /\ ~Leads(rank[i], rank[i])
                          /\ Leads(rank[i], rank[j]) => Leads(rank[i], rank[k])
        BY <1>4, LeadsIsOrder DEF Ranked
    <2>2. Above(j) \subseteq Above(k) /\ j \in Above(k) /\ j \notin Above(j)
        BY <1>4, <2>1
    <2>3. n <= Cardinality(Above(j))
        BY <1>2
    <2> HIDE DEF Above, T
    <2>4. Cardinality(Above(j)) <= Cardinality(Above(k)) /\ Above(j) # Above(k)
        BY <1>1, <2>2, FS_Subset
    <2>5. Cardinality(Above(j)) # Cardinality(Above(k))
        BY <1>1, <2>2, <2>4, FS_Subset
    <2>6. Cardinality(Above(j)) \in Nat /\ Cardinality(Above(k)) \in Nat
        BY <1>1
    <2> QED BY <1>3, <2>3, <2>4, <2>5, <2>6
<1> QED BY <1>4

\* The keys of n groups that no other group leads.
Leaders(groups, rank, n, keys) ==
    /\ keys \in SUBSET DOMAIN groups
    /\ Cardinality(keys) = n
    /\ \A k \in keys, j \in DOMAIN groups \ keys : ~Leads(rank[j], rank[k])

LEMMA LeadersExist ==
    ASSUME NEW groups, NEW rank, Ranked(groups, rank), NEW n \in Nat, n <= Cardinality(DOMAIN groups)
    PROVE  \E keys : Leaders(groups, rank, n, keys)
<1> DEFINE size == Cardinality(DOMAIN groups)
           N == {m \in Nat : m <= size => \E keys : Leaders(groups, rank, m, keys)}
<1>1. size \in Nat
    BY FS_CardinalityType DEF Ranked
<1>2. 0 \in N
    <2>1. Leaders(groups, rank, 0, {})
        BY FS_EmptySet DEF Leaders
    <2> QED BY <2>1
<1>3. ASSUME NEW m \in Nat, m \in N PROVE m + 1 \in N
    <2> SUFFICES ASSUME m + 1 <= size PROVE \E keys : Leaders(groups, rank, m + 1, keys)
        OBVIOUS
    <2> HIDE DEF size
    <2>1. PICK keys : Leaders(groups, rank, m, keys)
        <3>1. m <= size
            BY <1>1
        <3> QED BY <1>3, <3>1
    <2>2. IsFiniteSet(keys) /\ keys \in SUBSET DOMAIN groups /\ Cardinality(keys) = m
        BY <2>1, FS_Subset DEF Leaders, Ranked
    <2> DEFINE rest == DOMAIN groups \ keys
    <2>3. rest # {}
        <3>1. SUFFICES ASSUME rest = {} PROVE FALSE
            OBVIOUS
        <3>2. keys = DOMAIN groups
            BY <2>2, <3>1
        <3>3. size = m
            BY <2>2, <3>2 DEF size
        <3> HIDE DEF N
        <3> QED BY <3>3
    <2>4. PICK k \in rest : \A j \in rest : ~Leads(rank[j], rank[k])
        <3>1. rest \in SUBSET DOMAIN groups
            OBVIOUS
        <3> HIDE DEF rest
        <3> QED BY <2>3, <3>1, LeaderExists
    <2>5. Cardinality(keys \cup {k}) = m + 1
        BY <2>2, FS_AddElement
    <2>6. Leaders(groups, rank, m + 1, keys \cup {k})
        <3>1. keys \cup {k} \in SUBSET DOMAIN groups
            BY <2>2
        <3>2. \A i \in keys \cup {k}, j \in DOMAIN groups \ (keys \cup {k}) :
                  ~Leads(rank[j], rank[i])
            BY <2>1, <2>4 DEF Leaders
        <3> QED BY <2>5, <3>1, <3>2 DEF Leaders
    <2> QED BY <2>6
<1>4. Nat \subseteq N
    <2> HIDE DEF N
    <2> QED BY <1>2, <1>3, SetInduction
<1> QED BY <1>4

\* A top list has groups as they are, and is full when it leaves one out.
LEMMA TopFacts ==
    ASSUME NEW groups, NEW rank, Ranked(groups, rank)
    PROVE  LET list == Top(groups, rank) IN
           /\ \A k \in DOMAIN list : k \in DOMAIN groups /\ list[k] = groups[k]
           /\ \A j \in DOMAIN groups \ DOMAIN list :
                 /\ Cardinality(DOMAIN list) >= TopLimit
                 /\ \A k \in DOMAIN list : ~Leads(rank[j], rank[k])
<1> DEFINE size == Cardinality(DOMAIN groups)
           n == IF size < TopLimit THEN size ELSE TopLimit
           list == Top(groups, rank)
           keys == CHOOSE keys \in SUBSET DOMAIN groups :
                      /\ Cardinality(keys) = n
                      /\ \A k \in keys, j \in DOMAIN groups \ keys : ~Leads(rank[j], rank[k])
<1>1. size \in Nat /\ TopLimit \in Nat
    BY AuditAssumption, FS_CardinalityType DEF Ranked
<1>2. list = [k \in keys |-> groups[k]]
    BY DEF Top, Restrict
<1> HIDE DEF size, list
<1>3. n \in Nat /\ n <= size
    BY <1>1
<1>4. /\ keys \in SUBSET DOMAIN groups /\ Cardinality(keys) = n
      /\ \A k \in keys, j \in DOMAIN groups \ keys : ~Leads(rank[j], rank[k])
    <2> HIDE DEF n
    <2>1. PICK some : Leaders(groups, rank, n, some)
        BY <1>3, LeadersExist DEF size
    <2> QED BY <2>1 DEF Leaders
<1> HIDE DEF keys
<1>5. DOMAIN list = keys /\ \A k \in keys : list[k] = groups[k]
    BY <1>2
<1>6. ASSUME NEW j \in DOMAIN groups \ keys PROVE Cardinality(keys) >= TopLimit
    <2>1. Cardinality(keys) # size
        BY <1>4, FS_Subset DEF Ranked, size
    <2> QED BY <1>1, <1>4, <2>1
<1>7. /\ \A k \in DOMAIN list : k \in DOMAIN groups /\ list[k] = groups[k]
      /\ \A j \in DOMAIN groups \ DOMAIN list :
            /\ Cardinality(DOMAIN list) >= TopLimit
            /\ \A k \in DOMAIN list : ~Leads(rank[j], rank[k])
    BY <1>4, <1>5, <1>6
<1> QED BY <1>7 DEF list

\* The top list of the rows shown has that of the rows known.
LEMMA ListsHold ==
    ASSUME NEW Y, NEW X, Matches(X, Y), NEW field, NEW by \in {"count", "flagged"}, NEW rank,
           \A k \in DOMAIN FlaggedBy(Y, field) :
              rank[k][1] = FlaggedBy(Y, field)[k][by] /\ rank[k][2] \in Nat
    PROVE  Lists(Top(FlaggedBy(Y, field), rank), X, field, by)
<1> DEFINE groups == FlaggedBy(Y, field)
           list == Top(groups, rank)
           There(k) == Having(Y, field, k)
           Known(k) == Having(X, field, k)
<1>1. /\ DOMAIN groups = {r[field] : r \in Y}
      /\ \A k \in DOMAIN groups : /\ groups[k].count = Cardinality(There(k))
                                  /\ groups[k].flagged = Cardinality(Flagged(There(k)))
    BY DEF FlaggedBy
<1>2. ASSUME NEW k
      PROVE  /\ Tallies(Cardinality(There(k)), Cardinality(Known(k)))
             /\ Tallies(Cardinality(Flagged(There(k))), Cardinality(Flagged(Known(k))))
             /\ Cardinality(There(k)) \in Nat /\ Cardinality(Known(k)) \in Nat
             /\ Cardinality(Flagged(There(k))) \in Nat /\ Cardinality(Flagged(Known(k))) \in Nat
    <2>1. Matches(Known(k), There(k))
        BY PartsMatch
    <2> HIDE DEF There, Known
    <2>2. Matches(Flagged(Known(k)), Flagged(There(k)))
        BY <2>1, PartsMatch
    <2> QED BY <2>1, <2>2, CountMatches
<1>3. \A r \in X : r[field] \in DOMAIN groups
    BY <1>1 DEF Matches
<1> HIDE DEF groups, There, Known
<1>4. \A k \in DOMAIN groups :
          rank[k][1] = groups[k][by] /\ rank[k][1] \in Nat /\ rank[k][2] \in Nat
    <2> SUFFICES ASSUME NEW k \in DOMAIN groups
                 PROVE  /\ rank[k][1] = groups[k][by]
                        /\ rank[k][1] \in Nat /\ rank[k][2] \in Nat
        OBVIOUS
    <2>1. rank[k][1] = groups[k][by] /\ rank[k][2] \in Nat
        BY DEF groups
    <2>2. groups[k]["count"] \in Nat /\ groups[k]["flagged"] \in Nat
        BY <1>1, <1>2
    <2> QED BY <2>1, <2>2
<1>5. IsFiniteSet(DOMAIN groups)
    <2> DEFINE key == [r \in Y |-> r[field]]
    <2>1. DOMAIN groups = {key[r] : r \in Y}
        BY <1>1
    <2> HIDE DEF key
    <2> QED BY <2>1, ValuesAreFinite DEF Matches, Costed
<1>6. /\ \A k \in DOMAIN list : k \in DOMAIN groups /\ list[k] = groups[k]
      /\ \A j \in DOMAIN groups \ DOMAIN list :
            /\ Cardinality(DOMAIN list) >= TopLimit
            /\ \A k \in DOMAIN list : ~Leads(rank[j], rank[k])
    <2>1. Ranked(groups, rank)
        BY <1>4, <1>5 DEF Ranked
    <2> QED BY <2>1, TopFacts
<1> HIDE DEF list
<1>7. ASSUME NEW r \in X
      PROVE  LET known == [count |-> Cardinality(Known(r[field])),
                           flagged |-> Cardinality(Flagged(Known(r[field])))]
             IN IF r[field] \in DOMAIN list
                THEN \A part \in DOMAIN known : Tallies(list[r[field]][part], known[part])
                ELSE /\ Cardinality(DOMAIN list) >= TopLimit
                     /\ \A k \in DOMAIN list : list[k][by] >= known[by]
    <2> DEFINE j == r[field]
               known == [count |-> Cardinality(Known(j)),
                         flagged |-> Cardinality(Flagged(Known(j)))]
    <2>1. /\ j \in DOMAIN groups
          /\ groups[j].count = Cardinality(There(j))
          /\ groups[j].flagged = Cardinality(Flagged(There(j)))
        BY <1>1, <1>3
    <2>2. /\ Tallies(groups[j].count, known.count)
          /\ Tallies(groups[j].flagged, known.flagged)
          /\ known.count \in Nat /\ known.flagged \in Nat
          /\ groups[j].count \in Nat /\ groups[j].flagged \in Nat
        BY <1>2, <2>1
    <2>3. DOMAIN known = {"count", "flagged"}
        OBVIOUS
    <2> HIDE DEF known, j
    <2>4. CASE j \in DOMAIN list
        <3>1. list[j] = groups[j]
            BY <1>6, <2>4
        <3>2. \A part \in DOMAIN known : Tallies(list[j][part], known[part])
            BY <2>2, <2>3, <3>1
        <3> QED BY <2>4, <3>2 DEF known, j
    <2>5. CASE j \notin DOMAIN list
        <3>1. Cardinality(DOMAIN list) >= TopLimit
            BY <1>6, <2>1, <2>5
        <3>2. ASSUME NEW k \in DOMAIN list PROVE list[k][by] >= known[by]
            <4>1. ~Leads(rank[j], rank[k]) /\ k \in DOMAIN groups /\ list[k] = groups[k]
                BY <1>6, <2>1, <2>5
            <4>2. /\ rank[j][1] = groups[j][by] /\ rank[j][1] \in Nat
                  /\ rank[k][1] = groups[k][by] /\ rank[k][1] \in Nat
                BY <1>4, <2>1, <4>1
            <4>3. rank[k][1] >= rank[j][1]
                BY <4>1, <4>2 DEF Leads
            <4>4. groups[j][by] >= known[by] /\ known[by] \in Nat
                BY <2>2 DEF Tallies
            <4> QED BY <4>1, <4>2, <4>3, <4>4
        <3> QED BY <2>5, <3>1, <3>2 DEF known, j
    <2> QED BY <2>4, <2>5 DEF known, j
<1>8. Lists(list, X, field, by)
    BY <1>7 DEF Lists, Known
<1> QED BY <1>8 DEF list, groups

\* What is remembered for a team since a day is what the queries find.
LEMMA RememberedMatches ==
    ASSUME StoreInv, AdminInv, PanelInv, NEW team, NEW day
    PROVE  /\ Matches(Remembered(team, day), Since(work, team, day))
           /\ Remembered(team, day) \subseteq recorded /\ Since(work, team, day) \subseteq work.requests
           /\ \A r \in Remembered(team, day) : r.ts >= purged
<1> DEFINE X == Remembered(team, day)
           Y == Since(work, team, day)
<1>1. /\ X = {r \in recorded : team \in {Everyone, r.team} /\ r.ts >= day /\ r.ts >= purged}
      /\ Y = {r \in work.requests : team \in {Everyone, r.team} /\ r.ts >= day}
    BY DEF Remembered, Since, InScope
<1>2. \A r \in recorded : r.ts >= purged => r \in work.requests
    BY DEF StoreInv, View, Kept
<1>3. faults = 0 => \A r \in work.requests : r \in recorded /\ r.ts >= purged
    BY DEF PanelInv, Exact
<1>4. /\ IsFiniteSet(work.requests)
      /\ \A r \in work.requests : r.cost \in Nat
    <2>1. work.requests \subseteq Rows /\ Ordered(Requests) /\ work.requests \subseteq Requests
        BY DEF AdminInv, Sheet, Requests
    <2>2. \A r \in Rows : r.cost \in Nat
        BY AuditAssumption DEF Rows
    <2>3. IsFiniteSet(work.requests)
        BY <2>1, FS_Subset DEF Ordered
    <2> QED BY <2>1, <2>2, <2>3
<1> HIDE DEF X, Y
<1>5. X \subseteq Y /\ X \subseteq recorded /\ Y \subseteq work.requests
    BY <1>1, <1>2
<1>6. faults = 0 => X = Y
    BY <1>1, <1>3, <1>5
<1>7. Costed(Y)
    BY <1>4, <1>5, FS_Subset DEF Costed
<1>8. Matches(X, Y) /\ \A r \in X : r.ts >= purged
    BY <1>1, <1>5, <1>6, <1>7 DEF Matches
<1> QED BY <1>5, <1>8 DEF X, Y

LEMMA RequestPanelsHold ==
    ASSUME StoreInv, AdminInv, PanelInv, NEW team, NEW range
    PROVE  RequestPanels(team, range)
<1> DEFINE days == RangeDays(range)
           o == StatsOverview(work, team, range)
           X == Remembered(team, now - days)
           Y == Since(work, team, now - days)
           teams == FlaggedBy(Y, "team")
           users == FlaggedBy(Y, "user")
           byTeam == [k \in DOMAIN teams |-> <<teams[k].count, 0>>]
           byUser == [k \in DOMAIN users |-> <<users[k].flagged, users[k].count>>]
<1>1. /\ o.today = Cardinality(Since(work, team, now))
      /\ o.last7d = Cardinality(Since(work, team, now - 7))
      /\ o.last30d = Cardinality(Since(work, team, now - 30))
    BY DEF StatsOverview
<1>2. /\ o.windowed = SumFunction(CountsBy(Y, "action"))
      /\ o.byAction = CountsBy(Y, "action")
      /\ o.sparkline = CountsBy(Y, "ts")
      /\ o.byProvider = CostsBy(Y, "provider")
      /\ o.byModel = CostsBy(Y, "model")
    BY DEF StatsOverview, ByAction, Sparkline, SpendByProvider, SpendByModel
<1>3. o.topTeams = Top(teams, byTeam) /\ o.topUsers = Top(users, byUser)
    BY DEF StatsOverview, TopTeams, TopUsers
<1>4. Matches(X, Y)
    BY RememberedMatches
<1>5. \A day : Tallies(Cardinality(Since(work, team, day)), Cardinality(Remembered(team, day)))
    BY RememberedMatches, CountMatches
<1>6. RequestPanels(team, range) <=>
        /\ Tallies(o.today, Cardinality(Remembered(team, now)))
        /\ Tallies(o.last7d, Cardinality(Remembered(team, now - 7)))
        /\ Tallies(o.last30d, Cardinality(Remembered(team, now - 30)))
        /\ Tallies(o.windowed, Cardinality(X))
        /\ CountsPer(o.byAction, X, "action")
        /\ CountsPer(o.sparkline, X, "ts")
        /\ CostsPer(o.byProvider, X, "provider")
        /\ CostsPer(o.byModel, X, "model")
        /\ Lists(o.topTeams, X, "team", "count")
        /\ Lists(o.topUsers, X, "user", "flagged")
    BY DEF RequestPanels
<1> HIDE DEF o, X, Y, days
<1>7. Tallies(o.windowed, Cardinality(X))
    <2>1. Costed(Y)
        BY <1>4 DEF Matches
    <2>2. o.windowed = Cardinality(Y)
        BY <1>2, <2>1, BreakdownTotal
    <2> QED BY <1>4, <2>2, CountMatches
<1>8. /\ CountsPer(o.byAction, X, "action")
      /\ CountsPer(o.sparkline, X, "ts")
      /\ CostsPer(o.byProvider, X, "provider")
      /\ CostsPer(o.byModel, X, "model")
    BY <1>2, <1>4, BreakdownsCount
<1>9. Lists(o.topTeams, X, "team", "count")
    <2>1. \A k \in DOMAIN teams : byTeam[k][1] = teams[k]["count"] /\ byTeam[k][2] \in Nat
        OBVIOUS
    <2> HIDE DEF byTeam
    <2> QED BY <1>3, <1>4, <2>1, ListsHold
<1>10. Lists(o.topUsers, X, "user", "flagged")
    <2>1. \A k \in DOMAIN users : byUser[k][1] = users[k]["flagged"] /\ byUser[k][2] \in Nat
        <3> SUFFICES ASSUME NEW k \in DOMAIN users
                     PROVE  byUser[k][1] = users[k]["flagged"] /\ byUser[k][2] \in Nat
            OBVIOUS
        <3>1. users[k].count = Cardinality(Having(Y, "user", k))
            BY DEF FlaggedBy
        <3>2. IsFiniteSet(Having(Y, "user", k))
            BY <1>4, PartsMatch DEF Matches, Costed
        <3>3. users[k].count \in Nat
            BY <3>1, <3>2, FS_CardinalityType
        <3> HIDE DEF users
        <3> QED BY <3>3
    <2> HIDE DEF byUser
    <2> QED BY <1>3, <1>4, <2>1, ListsHold
<1> QED BY <1>1, <1>5, <1>6, <1>7, <1>8, <1>9, <1>10

\* One to one, the entries of the traces remembered have their findings.
Paired(E, F, m) ==
    /\ IsFiniteSet(F)
    /\ \A x \in E : m[x] \in F /\ m[x].request = x[1].id /\ m[x].pos = x[2]
    /\ \A x \in E : Entry(work, m[x]) = x[1].trace[x[2]]
    /\ \A x, z \in E : m[x] = m[z] => x = z
    /\ faults = 0 => \A f \in F : \E x \in E : m[x] = f

LEMMA EntriesPaired ==
    ASSUME StoreInv, AdminInv, PanelInv, NEW team, NEW day
    PROVE  \E m : Paired(Entries(Remembered(team, day)), Joined(work, Since(work, team, day)), m)
<1> DEFINE X == Remembered(team, day)
           Y == Since(work, team, day)
           E == Entries(X)
           F == Joined(work, Y)
           Of(x) == CHOOSE f \in F : f.request = x[1].id /\ f.pos = x[2]
           m == [x \in E |-> Of(x)]
<1>1. /\ X \subseteq Y /\ X \subseteq recorded /\ Y \subseteq work.requests
      /\ \A r \in X : r.ts >= purged
      /\ faults = 0 => X = Y
    BY RememberedMatches DEF Matches
<1>2. /\ Traced(work, used) /\ Kept(work, recorded, purged, now) /\ Entered(work)
      /\ \A r, s \in work.requests : r.id = s.id => r = s
    BY DEF StoreInv, View, PanelInv, AdminInv, Sheet, Ordered, Requests
<1>3. F = {f \in work.findings : \E r \in Y : r.id = f.request}
    BY DEF Joined
<1>4. \A x \in E : x[1] \in X /\ x[2] \in DOMAIN x[1].trace /\ x = <<x[1], x[2]>>
    BY DEF Entries
<1>5. \A r \in X : \A i \in DOMAIN r.trace : <<r, i>> \in E
    BY DEF Entries
<1> HIDE DEF X, Y, E, F
<1>6. IsFiniteSet(F)
    BY <1>2, <1>3, FS_Subset DEF Entered
<1>7. ASSUME NEW x \in E
      PROVE  m[x] \in F /\ m[x].request = x[1].id /\ m[x].pos = x[2]
    <2>1. PICK f \in work.findings : f.request = x[1].id /\ f.pos = x[2]
        BY <1>1, <1>2, <1>4 DEF Kept
    <2>2. f \in F
        BY <1>1, <1>3, <1>4, <2>1
    <2> QED BY <2>1, <2>2
<1>8. ASSUME NEW x \in E PROVE Entry(work, m[x]) = x[1].trace[x[2]]
    <2>1. x[1] \in work.requests
        BY <1>1, <1>4
    <2>2. (CHOOSE r \in work.requests : r.id = m[x].request) = x[1]
        BY <1>2, <1>7, <2>1
    <2> HIDE DEF m
    <2> QED BY <1>7, <2>2 DEF Entry
<1>9. ASSUME NEW x \in E, NEW z \in E, m[x] = m[z] PROVE x = z
    <2>1. x[1].id = z[1].id /\ x[2] = z[2]
        BY <1>7, <1>9
    <2>2. x[1] = z[1]
        BY <1>1, <1>2, <1>4, <2>1
    <2> QED BY <1>4, <2>1, <2>2
<1>10. ASSUME faults = 0, NEW f \in F PROVE \E x \in E : m[x] = f
    <2>1. f \in work.findings /\ \E r \in Y : r.id = f.request
        BY <1>3
    <2>2. PICK r \in X : r.id = f.request
        BY <1>1, <1>10, <2>1
    <2>3. f.pos \in DOMAIN r.trace
        BY <1>1, <1>2, <2>1, <2>2 DEF Entered
    <2>4. <<r, f.pos>> \in E
        BY <1>5, <2>3
    <2>5. m[<<r, f.pos>>] \in F /\ m[<<r, f.pos>>].request = f.request /\ m[<<r, f.pos>>].pos = f.pos
        BY <1>7, <2>2, <2>4
    <2> HIDE DEF m
    <2>6. m[<<r, f.pos>>] = f
        BY <1>2, <1>3, <2>1, <2>5 DEF Traced
    <2> QED BY <2>4, <2>6
<1> HIDE DEF m
<1>11. Paired(E, F, m)
    BY <1>6, <1>7, <1>8, <1>9, <1>10 DEF Paired
<1> QED BY <1>11 DEF E, F, X, Y

\* Some of the entries, beside some of the findings.
LEMMA PairedPart ==
    ASSUME NEW E, NEW F, NEW m, Paired(E, F, m), NEW X, X \subseteq E, NEW Y, Y \subseteq F,
           \A x \in E : (x \in X => m[x] \in Y) /\ (faults = 0 /\ m[x] \in Y => x \in X)
    PROVE  /\ Tallies(Cardinality(Y), Cardinality(X))
           /\ Cardinality(X) \in Nat /\ Cardinality(Y) \in Nat
<1>1. IsFiniteSet(Y)
    BY FS_Subset DEF Paired
<1>2. \A x \in X : m[x] \in Y
    OBVIOUS
<1>3. \A x, z \in X : m[x] = m[z] => x = z
    BY DEF Paired
<1>4. faults = 0 => \A y \in Y : \E x \in X : m[x] = y
    BY DEF Paired
<1>5. Tallies(Cardinality(Y), Cardinality(X))
    BY <1>1, <1>2, <1>3, <1>4, ImageTallies
<1>6. IsFiniteSet(X)
    <2> DEFINE f == [x \in X |-> m[x]]
    <2>1. f \in Injection(X, Y)
        BY <1>2, <1>3 DEF Injection, IsInjective
    <2> HIDE DEF f
    <2> QED BY <1>1, <2>1, FS_Injection
<1> QED BY <1>1, <1>5, <1>6, FS_CardinalityType

\* The types found, and for each the findings and the sure ones.
LEMMA TypesPaired ==
    ASSUME NEW E, NEW F, NEW m, Paired(E, F, m)
    PROVE  /\ {x[1].trace[x[2]].type : x \in E} \subseteq {Entry(work, f).type : f \in F}
           /\ faults = 0 => {Entry(work, f).type : f \in F} = {x[1].trace[x[2]].type : x \in E}
           /\ \A t : LET there == {f \in F : Entry(work, f).type = t}
                         known == OfType(E, t)
                     IN /\ Tallies(Cardinality(there), Cardinality(known))
                        /\ Cardinality(there) \in Nat /\ Cardinality(known) \in Nat
                        /\ \A c : Tallies(Cardinality({f \in there : Entry(work, f).sure >= c}),
                                          Cardinality(AtLeast(known, c)))
<1>1. /\ \A x \in E : m[x] \in F /\ Entry(work, m[x]) = x[1].trace[x[2]]
      /\ faults = 0 => \A f \in F : \E x \in E : m[x] = f
    BY DEF Paired
<1>2. {x[1].trace[x[2]].type : x \in E} \subseteq {Entry(work, f).type : f \in F}
    <2> SUFFICES ASSUME NEW x \in E
                 PROVE  x[1].trace[x[2]].type \in {Entry(work, f).type : f \in F}
        OBVIOUS
    <2> QED BY <1>1
<1>3. ASSUME faults = 0
      PROVE  {Entry(work, f).type : f \in F} \subseteq {x[1].trace[x[2]].type : x \in E}
    <2> SUFFICES ASSUME NEW f \in F
                 PROVE  Entry(work, f).type \in {x[1].trace[x[2]].type : x \in E}
        OBVIOUS
    <2>1. PICK x \in E : m[x] = f
        BY <1>1, <1>3
    <2> QED BY <1>1, <2>1
<1>4. ASSUME NEW t
      PROVE  LET there == {f \in F : Entry(work, f).type = t}
                 known == OfType(E, t)
             IN /\ Tallies(Cardinality(there), Cardinality(known))
                /\ Cardinality(there) \in Nat /\ Cardinality(known) \in Nat
                /\ \A c : Tallies(Cardinality({f \in there : Entry(work, f).sure >= c}),
                                  Cardinality(AtLeast(known, c)))
    <2> DEFINE there == {f \in F : Entry(work, f).type = t}
               known == OfType(E, t)
    <2>1. known = {x \in E : x[1].trace[x[2]].type = t}
        BY DEF OfType
    <2>2. \A x \in E : x \in known <=> m[x] \in there
        BY <1>1, <2>1
    <2>3. /\ Tallies(Cardinality(there), Cardinality(known))
          /\ Cardinality(there) \in Nat /\ Cardinality(known) \in Nat
        <3>1. known \subseteq E /\ there \subseteq F
            BY <2>1
        <3> HIDE DEF there, known
        <3> QED BY <2>2, <3>1, PairedPart
    <2>4. ASSUME NEW c
          PROVE  Tallies(Cardinality({f \in there : Entry(work, f).sure >= c}),
                         Cardinality(AtLeast(known, c)))
        <3> DEFINE sure == {f \in there : Entry(work, f).sure >= c}
        <3>1. AtLeast(known, c) = {x \in known : x[1].trace[x[2]].sure >= c}
            BY DEF AtLeast
        <3>2. \A x \in E : x \in AtLeast(known, c) <=> m[x] \in sure
            BY <1>1, <2>1, <2>2, <3>1
        <3>3. AtLeast(known, c) \subseteq E /\ sure \subseteq F
            BY <2>1, <3>1
        <3> HIDE DEF sure
        <3>4. Tallies(Cardinality(sure), Cardinality(AtLeast(known, c)))
            BY <3>2, <3>3, PairedPart
        <3> QED BY <3>4 DEF sure
    <2> HIDE DEF there, known
    <2>5. /\ Tallies(Cardinality(there), Cardinality(known))
          /\ Cardinality(there) \in Nat /\ Cardinality(known) \in Nat
          /\ \A c : Tallies(Cardinality({f \in there : Entry(work, f).sure >= c}),
                            Cardinality(AtLeast(known, c)))
        BY <2>3, <2>4
    <2> QED BY <2>5 DEF there, known
<1> QED BY <1>2, <1>3, <1>4

\* The list of the types found most often.
LEMMA TopTypesHold ==
    ASSUME NEW E, NEW F, NEW m, Paired(E, F, m), NEW y \in E, NEW t, t = y[1].trace[y[2]].type,
           NEW groups, DOMAIN groups = {Entry(work, f).type : f \in F},
           \A u \in DOMAIN groups : groups[u] = Cardinality({f \in F : Entry(work, f).type = u}),
           NEW rank, \A u \in DOMAIN groups : rank[u] = <<groups[u], 0>>,
           NEW list, list = Top(groups, rank)
    PROVE  IF t \in DOMAIN list
           THEN Tallies(list[t], Cardinality(OfType(E, t)))
           ELSE /\ Cardinality(DOMAIN list) >= TopLimit
                /\ \A k \in DOMAIN list : list[k] >= Cardinality(OfType(E, t))
<1> DEFINE There(u) == Cardinality({f \in F : Entry(work, f).type = u})
           Types == {Entry(work, f).type : f \in F}
           known == Cardinality(OfType(E, t))
<1>1. t \in Types /\ \A u : There(u) \in Nat
    <2>1. ASSUME NEW u PROVE There(u) \in Nat
        BY FS_Subset, FS_CardinalityType DEF Paired
    <2>2. {x[1].trace[x[2]].type : x \in E} \subseteq Types
        BY TypesPaired
    <2>3. t \in {x[1].trace[x[2]].type : x \in E}
        OBVIOUS
    <2> HIDE DEF There, Types
    <2> QED BY <2>1, <2>2, <2>3
<1>2. Tallies(There(t), known) /\ known \in Nat
    BY TypesPaired
<1>3. IsFiniteSet(Types)
    <2> DEFINE type == [f \in F |-> Entry(work, f).type]
    <2>1. Types = {type[f] : f \in F}
        OBVIOUS
    <2> HIDE DEF type, Types
    <2> QED BY <2>1, ValuesAreFinite DEF Paired
<1>4. DOMAIN groups = Types /\ \A u \in Types : groups[u] = There(u) /\ groups[u] \in Nat
    <2>1. DOMAIN groups = Types /\ \A u \in Types : groups[u] = There(u)
        OBVIOUS
    <2> HIDE DEF There, Types, known
    <2> QED BY ONLY <1>1, <2>1
<1> HIDE DEF There, Types, known
<1>5. \A u \in Types : rank[u][1] = groups[u] /\ rank[u][2] = 0
    BY <1>4
<1>9. list = Top(groups, rank)
    OBVIOUS
<1>6. /\ \A k \in DOMAIN list : k \in DOMAIN groups /\ list[k] = groups[k]
      /\ \A j \in DOMAIN groups \ DOMAIN list :
            /\ Cardinality(DOMAIN list) >= TopLimit
            /\ \A k \in DOMAIN list : ~Leads(rank[j], rank[k])
    <2>1. Ranked(groups, rank)
        BY ONLY <1>3, <1>4, <1>5 DEF Ranked
    <2>2. /\ \A k \in DOMAIN Top(groups, rank) :
                k \in DOMAIN groups /\ Top(groups, rank)[k] = groups[k]
          /\ \A j \in DOMAIN groups \ DOMAIN Top(groups, rank) :
                /\ Cardinality(DOMAIN Top(groups, rank)) >= TopLimit
                /\ \A k \in DOMAIN Top(groups, rank) : ~Leads(rank[j], rank[k])
        BY ONLY <2>1, TopFacts
    <2> QED BY ONLY <1>9, <2>2
<1>7. CASE t \in DOMAIN list
    <2>1. Tallies(list[t], known)
        BY <1>1, <1>2, <1>4, <1>6, <1>7
    <2> QED BY <1>7, <2>1 DEF known
<1>8. CASE t \notin DOMAIN list
    <2>1. Cardinality(DOMAIN list) >= TopLimit
        BY <1>1, <1>4, <1>6, <1>8
    <2>2. ASSUME NEW k \in DOMAIN list PROVE list[k] >= known
        <3>1. k \in Types /\ list[k] = groups[k] /\ ~Leads(rank[t], rank[k])
            BY <1>1, <1>4, <1>6, <1>8
        <3>2. groups[k] >= groups[t] /\ groups[k] \in Nat /\ groups[t] \in Nat
            BY ONLY <1>1, <1>4, <1>5, <3>1 DEF Leads
        <3>3. groups[t] >= known
            BY <1>1, <1>2, <1>4 DEF Tallies
        <3>4. groups[t] \in Nat
            BY <1>1, <1>4
        <3> QED BY ONLY <1>2, <3>1, <3>2, <3>3, <3>4
    <2> QED BY <1>8, <2>1, <2>2 DEF known
<1> QED BY <1>7, <1>8

\* A report that was answered has marked its finding, while it is there.
LEMMA ReportsMarked ==
    ASSUME StoreInv, PanelInv, NEW E, NEW F, F \subseteq work.findings,
           NEW m, Paired(E, F, m), NEW x \in E
    PROVE  LET told == \E e \in answered : e.op \notin DOMAIN Routes /\ e.target = <<x[1].id, x[2]>>
           IN /\ told => m[x].last > 0
              /\ faults = 0 /\ m[x].last > 0 => told
<1>1. m[x] \in work.findings /\ <<m[x].request, m[x].pos>> = <<x[1].id, x[2]>>
    BY DEF Paired
<1>2. /\ Traced(work, used) /\ Happened(work) /\ answered \subseteq work.events
      /\ work.events \subseteq tried /\ Numbered(tried, used)
      /\ Cardinality(tried) \in Nat
    BY FS_CardinalityType DEF StoreInv, View, Histories
<1>3. ASSUME NEW e \in answered, e.op \notin DOMAIN Routes, e.target = <<x[1].id, x[2]>>
      PROVE  m[x].last > 0
    <2>1. Stands(work, e)
        BY <1>2 DEF Happened
    <2>2. m[x].last >= e.serial
        BY <1>1, <1>3, <2>1 DEF Stands
    <2>3. e.serial \in 1..Cardinality(tried)
        BY <1>2 DEF Numbered
    <2>4. m[x].last \in Nat
        BY <1>1, <1>2 DEF Traced
    <2> QED BY <1>2, <2>2, <2>3, <2>4
<1>4. faults = 0 /\ m[x].last > 0 =>
          \E e \in answered : e.op \notin DOMAIN Routes /\ e.target = <<m[x].request, m[x].pos>>
    BY <1>1 DEF PanelInv, Exact
<1> QED BY <1>1, <1>3, <1>4

LEMMA SensitiveHolds ==
    ASSUME StoreInv, AdminInv, PanelInv, NEW team, NEW day
    PROVE  Tallies(Cardinality({f.request : f \in Joined(work, Since(work, team, day))}),
                   Cardinality({r \in Remembered(team, day) : r.trace # <<>>}))
<1> DEFINE X == Remembered(team, day)
           E == Entries(X)
           F == Joined(work, Since(work, team, day))
           S == {r \in X : r.trace # <<>>}
           R == {f.request : f \in F}
           id == [r \in S |-> r.id]
<1>1. PICK m : Paired(E, F, m)
    BY EntriesPaired
<1>2. X \subseteq work.requests /\ \A r \in work.requests : r.trace \in Seq([type: STRING, sure: 0..100])
    <2>1. X \subseteq work.requests
        BY RememberedMatches DEF Matches
    <2>2. work.requests \subseteq Rows
        BY DEF AdminInv, Sheet, Requests
    <2> QED BY <2>1, <2>2, AuditAssumption DEF Rows
<1>3. \A r, s \in work.requests : r.id = s.id => r = s
    BY DEF AdminInv, Sheet, Ordered, Requests
<1>4. /\ \A r \in X : \A i \in DOMAIN r.trace : <<r, i>> \in E
      /\ \A x \in E : x[1] \in X /\ x[2] \in DOMAIN x[1].trace
    BY DEF Entries
<1>5. IsFiniteSet(R)
    <2> DEFINE request == [f \in F |-> f.request]
    <2>1. R = {request[f] : f \in F} /\ IsFiniteSet(F)
        BY <1>1 DEF Paired
    <2> HIDE DEF request, F, R
    <2> QED BY <2>1, ValuesAreFinite
<1>6. \A r \in S : r \in X /\ r.trace # <<>> /\ id[r] = r.id
    OBVIOUS
<1>7. \A r \in X : r.trace # <<>> => r \in S
    OBVIOUS
<1>8. \A f \in F : f.request \in R
    OBVIOUS
<1>9. \A q \in R : \E f \in F : q = f.request
    OBVIOUS
<1> HIDE DEF X, E, F, S, R, id
<1>10. ASSUME NEW r \in S PROVE id[r] \in R
    <2>1. 1 \in DOMAIN r.trace
        BY <1>2, <1>6
    <2>2. m[<<r, 1>>] \in F /\ m[<<r, 1>>].request = r.id
        BY <1>1, <1>4, <1>6, <2>1 DEF Paired
    <2> QED BY <1>6, <1>8, <2>2
<1>11. \A r, s \in S : id[r] = id[s] => r = s
    BY <1>2, <1>3, <1>6
<1>12. ASSUME faults = 0, NEW q \in R PROVE \E r \in S : id[r] = q
    <2>1. PICK f \in F : q = f.request
        BY <1>9
    <2>2. PICK x \in E : m[x] = f
        BY <1>1, <1>12 DEF Paired
    <2>3. x[1].id = q /\ x[1] \in X /\ x[1].trace # <<>>
        BY <1>1, <1>4, <2>1, <2>2 DEF Paired
    <2> QED BY <1>6, <1>7, <2>3
<1>13. Tallies(Cardinality(R), Cardinality(S))
    BY <1>5, <1>10, <1>11, <1>12, ImageTallies
<1> QED BY <1>13 DEF R, S, F, X

LEMMA FindingPanelsHold ==
    ASSUME StoreInv, AdminInv, PanelInv, NEW team, NEW range
    PROVE  FindingPanels(team, range)
<1> DEFINE day == now - RangeDays(range)
           o == StatsOverview(work, team, range)
           estimates == DetectionEstimates(work, team, range)
           rate == FalsePositiveRate(work, team, range)
           rows == Remembered(team, day)
           found == Entries(rows)
           F == Joined(work, Since(work, team, day))
           types == {x[1].trace[x[2]].type : x \in found}
           There(t) == {f \in F : Entry(work, f).type = t}
           groups == [u \in {Entry(work, f).type : f \in F} |->
                         Cardinality({f \in F : Entry(work, f).type = u})]
           list == Top(groups, [u \in DOMAIN groups |-> <<groups[u], 0>>])
<1>1. PICK m : Paired(found, F, m)
    BY EntriesPaired
<1>2. Tallies(o.sensitive, Cardinality({r \in rows : r.trace # <<>>}))
    <2>1. o.sensitive = Cardinality({f.request : f \in F})
        BY DEF StatsOverview, SensitiveRequests
    <2> HIDE DEF o
    <2> QED BY <2>1, SensitiveHolds
<1>3. o.topTypes = list
    BY DEF StatsOverview, TopEntityTypes
<1>4. estimates = [t \in {Entry(work, f).type : f \in F} |->
                     [total |-> Cardinality(There(t)),
                      at |-> [c \in {50, 60, 70, 80, 90} |->
                                Cardinality({f \in There(t) : Entry(work, f).sure >= c})]]]
    BY DEF DetectionEstimates
<1>5. rate.total = Cardinality(F) /\ rate.reported = Cardinality({f \in F : f.last > 0})
    BY DEF FalsePositiveRate
<1>6. FindingPanels(team, range) <=>
        /\ Tallies(o.sensitive, Cardinality({r \in rows : r.trace # <<>>}))
        /\ Groups(estimates, types)
        /\ \A t \in types :
              LET of == OfType(found, t)
                  known == Cardinality(of)
              IN /\ IF t \in DOMAIN o.topTypes
                    THEN Tallies(o.topTypes[t], known)
                    ELSE /\ Cardinality(DOMAIN o.topTypes) >= TopLimit
                         /\ \A k \in DOMAIN o.topTypes : o.topTypes[k] >= known
                 /\ Tallies(estimates[t].total, known)
                 /\ \A c \in DOMAIN estimates[t].at :
                       Tallies(estimates[t].at[c], Cardinality(AtLeast(of, c)))
        /\ Tallies(rate.total, Cardinality(found))
        /\ Tallies(rate.reported, Cardinality(Reported(rows)))
    BY DEF FindingPanels
<1> HIDE DEF o, rate, rows, day
<1>7. Groups(estimates, types)
    BY <1>1, <1>4, TypesPaired DEF Groups
<1>8. ASSUME NEW t \in types
      PROVE  IF t \in DOMAIN o.topTypes
             THEN Tallies(o.topTypes[t], Cardinality(OfType(found, t)))
             ELSE /\ Cardinality(DOMAIN o.topTypes) >= TopLimit
                  /\ \A k \in DOMAIN o.topTypes : o.topTypes[k] >= Cardinality(OfType(found, t))
    <2>1. IF t \in DOMAIN list
          THEN Tallies(list[t], Cardinality(OfType(found, t)))
          ELSE /\ Cardinality(DOMAIN list) >= TopLimit
               /\ \A k \in DOMAIN list : list[k] >= Cardinality(OfType(found, t))
        <3> DEFINE rank == [u \in DOMAIN groups |-> <<groups[u], 0>>]
        <3>1. /\ DOMAIN groups = {Entry(work, f).type : f \in F}
              /\ \A u \in DOMAIN groups :
                    groups[u] = Cardinality({f \in F : Entry(work, f).type = u})
              /\ list = Top(groups, rank)
            OBVIOUS
        <3>4. \A u \in DOMAIN groups : rank[u] = <<groups[u], 0>>
            OBVIOUS
        <3>3. PICK y \in found : t = y[1].trace[y[2]].type
            OBVIOUS
        <3> HIDE DEF found, F, groups, list, types, rank
        <3>2. Paired(found, F, m)
            BY <1>1
        <3> QED BY ONLY <3>1, <3>2, <3>3, <3>4, TopTypesHold
    <2> HIDE DEF list
    <2> QED BY <1>3, <2>1
<1>9. ASSUME NEW t \in types
      PROVE  /\ Tallies(estimates[t].total, Cardinality(OfType(found, t)))
             /\ \A c \in DOMAIN estimates[t].at :
                   Tallies(estimates[t].at[c], Cardinality(AtLeast(OfType(found, t), c)))
    <2>1. t \in {Entry(work, f).type : f \in F}
        BY <1>1, TypesPaired
    <2>2. /\ Tallies(Cardinality(There(t)), Cardinality(OfType(found, t)))
          /\ \A c : Tallies(Cardinality({f \in There(t) : Entry(work, f).sure >= c}),
                            Cardinality(AtLeast(OfType(found, t), c)))
        BY <1>1, TypesPaired
    <2>3. /\ estimates[t].total = Cardinality(There(t))
          /\ \A c \in DOMAIN estimates[t].at :
                estimates[t].at[c] = Cardinality({f \in There(t) : Entry(work, f).sure >= c})
        BY <1>4, <2>1
    <2> HIDE DEF There, estimates, found
    <2> QED BY <2>2, <2>3
<1>10. Tallies(rate.total, Cardinality(found))
    <2> HIDE DEF found, F
    <2>1. \A x \in found : m[x] \in F
        BY <1>1 DEF Paired
    <2>2. Tallies(Cardinality(F), Cardinality(found))
        BY <1>1, <2>1, PairedPart
    <2> QED BY <1>5, <2>2
<1>11. Tallies(rate.reported, Cardinality(Reported(rows)))
    <2> DEFINE Y == {f \in F : f.last > 0}
               R == Reported(rows)
    <2>1. R = {x \in found : \E e \in answered :
                  e.op \notin DOMAIN Routes /\ e.target = <<x[1].id, x[2]>>}
        BY DEF Reported
    <2>2. F \subseteq work.findings
        BY DEF Joined
    <2> HIDE DEF found, F
    <2>3. ASSUME NEW x \in found
          PROVE  (x \in R => m[x] \in Y) /\ (faults = 0 /\ m[x] \in Y => x \in R)
        <3>1. m[x] \in F
            BY <1>1 DEF Paired
        <3>2. m[x] \in Y <=> m[x].last > 0
            BY <3>1
        <3>3. LET told == \E e \in answered :
                     e.op \notin DOMAIN Routes /\ e.target = <<x[1].id, x[2]>>
              IN /\ told => m[x].last > 0
                 /\ faults = 0 /\ m[x].last > 0 => told
            BY <1>1, <2>2, ReportsMarked
        <3> HIDE DEF Y, R
        <3> QED BY <2>1, <3>2, <3>3
    <2>4. R \subseteq found /\ Y \subseteq F
        BY <2>1
    <2> HIDE DEF Y, R
    <2>5. Tallies(Cardinality(Y), Cardinality(R))
        BY <1>1, <2>3, <2>4, PairedPart
    <2> QED BY <1>5, <2>5 DEF Y, R
<1> HIDE DEF estimates, found, types
<1> QED BY <1>2, <1>6, <1>7, <1>8, <1>9, <1>10, <1>11

\* Every panel of the dashboard counts what was recorded and not purged, and until
\* something fails nothing else (audit/store.py:270-514): for every load, range,
\* length of the top lists, number of days, failures and restarts.
THEOREM PanelsHold == Spec => []PanelsCountRecorded
<1>1. StoreInv /\ AdminInv /\ PanelInv => PanelsCountRecorded
    BY RequestPanelsHold, FindingPanelsHold DEF PanelsCountRecorded
<1> QED BY <1>1, AdminInvariant, PanelInvariant, PTL

=============================================================================
