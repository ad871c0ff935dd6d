-------------------------- MODULE SchemaSync_proofs --------------------------
(* For any number of runs, records and failures and any page size: types;    *)
(* what lies below a stored watermark was written, and is in the workspace   *)
(* if runs do not overlap; a pass from the first page is complete; a listing *)
(* that stalls is noticed on its second page.                                *)
EXTENDS SchemaSync, FiniteSetTheorems, SequenceTheorems, WellFoundedInduction, TLAPS

Stages == {"idle", "request", "base", "write", "saveBase", "save"}
Progress == [limit : Nat \ {0}, start : Nat, cursor : Nat, since : 0..MaxMark,
             watermark : 0..MaxMark, pages : Nat, pagesSeen : SUBSET Seq(Items),
             queue : Seq(Items), failed : BOOLEAN, base : {"zero", "current", "old"},
             next : Nat]

\* What a run k at a stage holds is of the provider, and its queue is in use.
Fits(k, stage, m) ==
    /\ k.since <= k.watermark
    /\ k.limit \in setting.limits \union {1} /\ k.pages < k.limit
    /\ (stage \in {"base", "write"}) = (k.queue # <<>>)
    /\ stage = "idle" => k = NoRun
    /\ \A i \in DOMAIN k.queue : k.queue[i].mark <= m[k.queue[i].id]

Provided == setting \in Settings /\ mark \in [Records -> 1..MaxMark]
Files ==
    /\ ws \in [Records -> 0..MaxMark] /\ seen \in [Records -> 0..MaxMark]
    /\ \A r \in Records : ws[r] <= seen[r] /\ seen[r] <= mark[r]
    /\ ckpt \in [stored : BOOLEAN, cursor : Nat, watermark : 0..MaxMark]
    /\ faults \in 0..MaxFaults
Inv ==
    /\ Provided /\ Files
    /\ pc \in [Runs -> Stages] /\ run \in [Runs -> Progress]
    /\ \A u \in Runs : Fits(run[u], pc[u], mark)

-----------------------------------------------------------------------------
(* Keys and listings.                                                        *)

ItemKey(item) == item.mark * Width + item.id

LEMMA Numbers ==
    /\ Cardinality(Records) \in Nat /\ Width \in Nat \ {0}
    /\ \A r \in Records : r \in Nat \ {0} /\ r < Width
    /\ PageSize \in Nat \ {0} /\ MaxMark \in Nat /\ MaxFaults \in Nat
<1>1. Cardinality(Records) \in Nat
  BY SyncAssumption, FS_CardinalityType
<1>2. \A r \in Records : r \in Nat \ {0} /\ r < Cardinality(Records) + 1
  BY <1>1, SyncAssumption
<1> QED BY <1>1, <1>2, SyncAssumption DEF Width

\* Keys are in the order of the marks, and of the ids among equal marks.
LEMMA Lexical ==
    ASSUME NEW a \in Nat, NEW b \in Nat
    PROVE  /\ a * Width \in Nat
           /\ a < b => a * Width + Width <= b * Width
<1>0. Width \in Nat \ {0}
  BY Numbers
<1>1. \A x, y \in Nat : x * y \in Nat
  OBVIOUS
<1>2. ASSUME a < b PROVE a * Width + Width <= b * Width
  <2>1. PICK d \in Nat : b = a + 1 + d
    <3>1. b - a - 1 \in Nat /\ b = a + 1 + (b - a - 1)
      BY <1>2
    <3> QED BY <3>1
  <2>2. b * Width = a * Width + Width + d * Width
    BY <1>0, <2>1
  <2>3. d * Width \in Nat /\ a * Width \in Nat
    BY <1>0, <1>1
  <2> QED BY <1>0, <2>2, <2>3
<1> QED BY <1>0, <1>1, <1>2

LEMMA Keys ==
    ASSUME NEW a \in Nat, NEW b \in Nat, NEW r \in Records, NEW s \in Records
    PROVE  /\ a * Width + r \in Nat \ {0}
           /\ a < b => a * Width + r < b * Width + s
           /\ a * Width + r <= b * Width + s => a <= b
           /\ a * Width + r = b * Width + s => a = b /\ r = s
<1>1. /\ a * Width \in Nat /\ b * Width \in Nat
      /\ a < b => a * Width + Width <= b * Width
      /\ b < a => b * Width + Width <= a * Width
  BY Lexical
<1>2. r \in Nat \ {0} /\ s \in Nat \ {0} /\ r < Width /\ s < Width /\ Width \in Nat
  BY Numbers
<1> QED BY <1>1, <1>2

LEMMA KeyTypes ==
    ASSUME Provided, NEW r \in Records
    PROVE  mark[r] \in Nat \ {0} /\ Key(r) \in Nat \ {0}
<1>1. mark[r] \in Nat \ {0}
  BY Numbers DEF Provided
<1> QED BY <1>1, Keys DEF Key

\* The first of the positions in 1..n, when none is left out.
LEMMA Initial ==
    ASSUME NEW n \in Nat, NEW T \in SUBSET (1..n), \A i \in T : \A j \in 1..i : j \in T
    PROVE  T = 1..Cardinality(T) /\ Cardinality(T) \in 0..n
<1>1. IsFiniteSet(T) /\ Cardinality(T) \in 0..n
  <2>1. IsFiniteSet(1..n) /\ Cardinality(1..n) = n
    BY FS_Interval
  <2>2. IsFiniteSet(T) /\ Cardinality(T) <= n
    BY <2>1, FS_Subset
  <2>3. Cardinality(T) \in Nat
    BY <2>2, FS_CardinalityType
  <2> QED BY <2>2, <2>3
<1>2. ASSUME NEW i \in T PROVE i <= Cardinality(T)
  <2>1. i \in Nat /\ 1..i \in SUBSET T
    BY <1>2
  <2>2. Cardinality(1..i) = i
    BY <2>1, FS_Interval
  <2> QED BY <1>1, <2>1, <2>2, FS_Subset
<1>3. T \in SUBSET (1..Cardinality(T))
  BY <1>1, <1>2
<1>4. IsFiniteSet(1..Cardinality(T)) /\ Cardinality(1..Cardinality(T)) = Cardinality(T)
  BY <1>1, FS_Interval
<1> QED BY <1>1, <1>3, <1>4, FS_Subset

\* Before is a strict total order.
LEMMA Ordered ==
    ASSUME Provided, NEW r \in Records, NEW s \in Records
    PROVE  /\ ~Before(r, r)
           /\ r # s => Before(r, s) \/ Before(s, r)
           /\ \A t \in Records : Before(r, s) /\ Before(s, t) => Before(r, t)
<1>1. \A t \in Records : Key(t) \in Nat
  BY KeyTypes
<1>2. Key(r) = Key(s) => r = s
  <2>1. mark[r] \in Nat /\ mark[s] \in Nat
    BY KeyTypes
  <2> QED BY <2>1, Keys DEF Key
<1> QED BY <1>1, <1>2 DEF Before

LEMMA Places ==
    ASSUME Provided, NEW S \in SUBSET Records, NEW r \in S
    PROVE  /\ IsFiniteSet(S) /\ Cardinality(S) \in Nat
           /\ Place(S, r) \in 1..Cardinality(S)
           /\ \A s \in S : Before(r, s) => Place(S, r) < Place(S, s)
<1> DEFINE Under(t) == {s \in S : Before(s, t)}
<1>1. IsFiniteSet(S) /\ Cardinality(S) \in Nat
  BY SyncAssumption, FS_Subset, FS_CardinalityType
<1>2. \A t \in S : IsFiniteSet(Under(t)) /\ Cardinality(Under(t)) \in Nat
  BY <1>1, FS_Subset, FS_CardinalityType
<1>0. \A t \in S : Place(S, t) = Cardinality(Under(t)) + 1
  BY DEF Place
<1>3. Place(S, r) \in 1..Cardinality(S)
  <2>1. Under(r) \in SUBSET (S \ {r})
    BY Ordered
  <2>2. IsFiniteSet(S \ {r}) /\ Cardinality(S \ {r}) = Cardinality(S) - 1
    BY <1>1, FS_RemoveElement
  <2>3. Cardinality(Under(r)) <= Cardinality(S) - 1
    BY <2>1, <2>2, FS_Subset
  <2> HIDE DEF Under
  <2> QED BY <1>0, <1>1, <1>2, <2>3
<1>4. ASSUME NEW s \in S, Before(r, s) PROVE Place(S, r) < Place(S, s)
  <2>1. Under(r) \cup {r} \in SUBSET Under(s)
    BY <1>4, Ordered
  <2>2. r \notin Under(r)
    BY Ordered
  <2>3. Cardinality(Under(r) \cup {r}) = Cardinality(Under(r)) + 1
    BY <1>2, <2>2, FS_AddElement
  <2>4. Cardinality(Under(r) \cup {r}) <= Cardinality(Under(s))
    BY <1>2, <2>1, FS_Subset
  <2> HIDE DEF Under
  <2> QED BY <1>0, <1>2, <2>3, <2>4
<1> QED BY <1>1, <1>3, <1>4

\* A listing has every record it admits, once, in order.
LEMMA Listings ==
    ASSUME Provided, NEW since
    PROVE  LET list == Listing(since)
               n == Len(list)
           IN  /\ n \in Nat /\ DOMAIN list = 1..n /\ list \in [1..n -> Admitted(since)]
               /\ \A i, j \in 1..n : i < j => Before(list[i], list[j])
               /\ \A r \in Admitted(since) : \E i \in 1..n : list[i] = r
<1> DEFINE S == Admitted(since)
           n == Cardinality(S)
           f == [r \in S |-> Place(S, r)]
           list == Listing(since)
<1>1. S \in SUBSET Records
  BY DEF Admitted
<1> HIDE DEF S
<1>2. IsFiniteSet(S) /\ n \in Nat
  BY <1>1, SyncAssumption, FS_Subset, FS_CardinalityType
<1>3. f \in [S -> 1..n] /\ \A r, s \in S : f[r] = f[s] => r = s
  <2>1. \A r \in S : Place(S, r) \in 1..n
    BY <1>1, Places
  <2>2. ASSUME NEW r \in S, NEW s \in S, r # s PROVE Place(S, r) # Place(S, s)
    <3>1. Place(S, r) \in Int /\ Place(S, s) \in Int
      BY <2>1, <1>2
    <3>2. Place(S, r) < Place(S, s) \/ Place(S, s) < Place(S, r)
      BY <1>1, <2>2, Places, Ordered
    <3> QED BY <3>1, <3>2
  <2> QED BY <2>1, <2>2
<1>4. f \in Surjection(S, 1..n)
  <2>1. f \in Injection(S, 1..n)
    BY <1>3 DEF Injection, IsInjective
  <2>2. IsFiniteSet(1..n) /\ Cardinality(1..n) = n
    BY <1>2, FS_Interval
  <2> HIDE DEF f
  <2> QED BY <2>1, <2>2, FS_Injection
<1>5. \A i \in 1..n : \E r \in S : Place(S, r) = i
  BY <1>4 DEF Surjection
<1>6. list = [i \in 1..n |-> CHOOSE r \in S : Place(S, r) = i]
  BY DEF Listing, S
<1>7. Len(list) = n /\ DOMAIN list = 1..n
  BY <1>2, <1>6
<1> HIDE DEF n, list
<1>8. \A i \in 1..n : list[i] \in S /\ Place(S, list[i]) = i
  BY <1>5, <1>6
<1>9. ASSUME NEW i \in 1..n, NEW j \in 1..n, i < j PROVE Before(list[i], list[j])
  <2>1. list[i] \in S /\ list[j] \in S /\ list[i] # list[j]
    BY <1>2, <1>8, <1>9
  <2>2. ASSUME Before(list[j], list[i]) PROVE j < i
    <3>1. Place(S, list[j]) < Place(S, list[i])
      BY <1>1, <2>1, <2>2, Places
    <3> QED BY <1>8, <3>1
  <2> QED BY <1>1, <1>2, <1>9, <2>1, <2>2, Ordered
<1>10. ASSUME NEW r \in S PROVE \E i \in 1..n : list[i] = r
  <2>1. Place(S, r) \in 1..n
    BY <1>1, Places DEF n
  <2>2. list[Place(S, r)] \in S /\ Place(S, list[Place(S, r)]) = Place(S, r)
    BY <1>8, <2>1
  <2>3. list[Place(S, r)] = r
    BY <1>3, <2>2
  <2> QED BY <2>1, <2>3
<1>11. list \in [1..n -> S]
  BY <1>6, <1>8
<1> QED BY <1>2, <1>7, <1>9, <1>10, <1>11 DEF S, list

-----------------------------------------------------------------------------
(* Pages.                                                                    *)

LEMMA SkippedTypes ==
    ASSUME Provided, NEW since, NEW cursor \in Nat
    PROVE  /\ Skipped(Listing(since), cursor) \in Nat
           /\ setting.stuck \/ cursor = 0 => Skipped(Listing(since), cursor) = 0
           /\ (~setting.stuck /\ cursor # 0 /\ setting.strategy = "page") =>
                 Skipped(Listing(since), cursor) = (cursor - 1) * PageSize
           /\ (~setting.stuck /\ cursor # 0 /\ setting.strategy = "offset") =>
                 Skipped(Listing(since), cursor) = cursor
           /\ (~setting.stuck /\ cursor # 0 /\ ~Positional) =>
                 Skipped(Listing(since), cursor) =
                    Cardinality({i \in DOMAIN Listing(since) :
                        IF setting.order = "ascending" THEN Key(Listing(since)[i]) <= cursor
                                                       ELSE Key(Listing(since)[i]) >= cursor})
<1> DEFINE list == Listing(since)
           there == Cardinality({i \in DOMAIN list :
                        IF setting.order = "ascending" THEN Key(list[i]) <= cursor
                                                       ELSE Key(list[i]) >= cursor})
<1>1. setting.stuck \/ cursor = 0 => Skipped(list, cursor) = 0
  BY DEF Skipped
<1>2. ASSUME ~setting.stuck, cursor # 0
      PROVE  /\ setting.strategy = "page" => Skipped(list, cursor) = (cursor - 1) * PageSize
             /\ setting.strategy = "offset" => Skipped(list, cursor) = cursor
             /\ ~Positional => Skipped(list, cursor) = there
  <2>1. ASSUME setting.strategy = "page" PROVE Skipped(list, cursor) = (cursor - 1) * PageSize
    BY <1>2, <2>1, Zenon DEF Skipped
  <2>2. ASSUME setting.strategy = "offset" PROVE Skipped(list, cursor) = cursor
    BY <1>2, <2>2, Zenon DEF Skipped
  <2>3. ASSUME ~Positional PROVE Skipped(list, cursor) = there
    BY <1>2, <2>3, Zenon DEF Skipped, Positional
  <2> QED BY <2>1, <2>2, <2>3
<1>3. there \in Nat
  <2>1. IsFiniteSet(DOMAIN list)
    BY Listings, FS_Interval
  <2> QED BY <2>1, FS_Subset, FS_CardinalityType
<1>4. cursor # 0 => (cursor - 1) * PageSize \in Nat
  <2>1. \A x, y \in Nat : x * y \in Nat
    OBVIOUS
  <2> QED BY <2>1, Numbers
<1> HIDE DEF list, there
<1>5. Skipped(list, cursor) \in Nat
  <2>1. setting.strategy = "page" \/ setting.strategy = "offset" \/ ~Positional
    BY DEF Positional
  <2> QED BY <1>1, <1>2, <1>3, <1>4, <2>1
<1> QED BY <1>1, <1>2, <1>5 DEF list, there

\* A page is what follows the position, and short only at the end.
LEMMA Pages ==
    ASSUME Provided, NEW since, NEW cursor \in Nat
    PROVE  LET list == Listing(since)
               from == Skipped(list, cursor)
               page == Page(since, cursor)
           IN  /\ from \in Nat /\ Len(page) \in Nat /\ DOMAIN page = 1..Len(page)
               /\ Len(page) <= PageSize /\ page \in Seq(Items)
               /\ \A i \in 1..Len(page) :
                     /\ from + i \in 1..Len(list) /\ list[from + i] \in Records
                     /\ page[i].id = list[from + i] /\ page[i].mark = mark[list[from + i]]
                     /\ page[i] = [id |-> list[from + i], mark |-> mark[list[from + i]]]
                     /\ page[i].id \in Records /\ page[i].mark = mark[page[i].id]
               /\ Len(page) < PageSize => from + Len(page) >= Len(list)
               /\ from + Len(page) <= Len(list) \/ page = <<>>
<1> DEFINE list == Listing(since)
           from == Skipped(list, cursor)
           n == Len(list)
           k == IF from + PageSize <= n THEN PageSize ELSE IF from >= n THEN 0 ELSE n - from
           page == Page(since, cursor)
<1>1. n \in Nat /\ from \in Nat /\ PageSize \in Nat \ {0} /\ \A i \in 1..n : list[i] \in Records
  BY Listings, SkippedTypes, Numbers DEF Admitted
<1>2. page = [i \in 1..k |-> [id |-> list[from + i], mark |-> mark[list[from + i]]]]
  BY DEF Page
<1> HIDE DEF list, from, n, page
<1>3. k \in Nat /\ k <= PageSize /\ (k < PageSize => from + k >= n) /\ (from + k <= n \/ k = 0)
  BY <1>1
<1> HIDE DEF k
<1>4. Len(page) = k /\ DOMAIN page = 1..k
  BY <1>2, <1>3
<1>5. \A i \in 1..k : from + i \in 1..n
  BY <1>1, <1>3
<1>6. \A i \in 1..k :
        /\ list[from + i] \in Records
        /\ page[i] = [id |-> list[from + i], mark |-> mark[list[from + i]]]
        /\ page[i].id = list[from + i] /\ page[i].mark = mark[list[from + i]]
        /\ page[i].id \in Records /\ page[i].mark = mark[page[i].id]
  BY <1>1, <1>2, <1>5
<1>7. page \in Seq(Items)
  <2>1. \A i \in 1..k : page[i] \in Items
    <3> SUFFICES ASSUME NEW i \in 1..k PROVE page[i] \in Items
      OBVIOUS
    <3> DEFINE r == list[from + i]
    <3>1. r \in Records /\ mark \in [Records -> 1..MaxMark] /\ page[i] = [id |-> r, mark |-> mark[r]]
      BY <1>6 DEF Provided
    <3> HIDE DEF r
    <3>2. [id |-> r, mark |-> mark[r]] \in Items
      BY <3>1 DEF Items
    <3> QED BY <3>1, <3>2
  <2>2. page \in [1..k -> Items]
    BY <1>2, <2>1
  <2> QED BY <1>3, <2>2
<1>8. k = 0 => page = <<>>
  BY <1>3, <1>4, <1>7
<1> QED BY <1>1, <1>3, <1>4, <1>5, <1>6, <1>7, <1>8 DEF list, from, n, page

LEMMA PageTypes ==
    ASSUME Provided, NEW since, NEW cursor \in Nat
    PROVE  /\ Page(since, cursor) \in Seq(Items)
           /\ DOMAIN Page(since, cursor) = 1..Len(Page(since, cursor))
           /\ Len(Page(since, cursor)) \in Nat
           /\ \A i \in 1..Len(Page(since, cursor)) :
                 /\ Page(since, cursor)[i].id \in Records
                 /\ Page(since, cursor)[i].mark = mark[Page(since, cursor)[i].id]
BY Pages

LEMMA PagePlaces ==
    ASSUME Provided, NEW since, NEW cursor \in Nat, NEW i \in 1..Len(Page(since, cursor))
    PROVE  /\ Skipped(Listing(since), cursor) + i \in 1..Len(Listing(since))
           /\ Page(since, cursor)[i].id = Listing(since)[Skipped(Listing(since), cursor) + i]
BY Pages

\* No record is twice on a page.
LEMMA PageDistinct ==
    ASSUME Provided, NEW since, NEW cursor \in Nat
    PROVE  \A i, j \in 1..Len(Page(since, cursor)) :
              i # j => Page(since, cursor)[i].id # Page(since, cursor)[j].id
<1> DEFINE list == Listing(since)
           n == Len(list)
           page == Page(since, cursor)
           from == Skipped(list, cursor)
<1>1. /\ n \in Nat /\ DOMAIN list = 1..n /\ list \in [1..n -> Admitted(since)]
      /\ \A i, j \in 1..n : i < j => Before(list[i], list[j])
  BY Listings
<1>2. /\ from \in Nat /\ Len(page) \in Nat
      /\ \A i \in 1..Len(page) : from + i \in 1..n /\ page[i].id = list[from + i]
  BY PagePlaces, PageTypes, SkippedTypes
<1> HIDE DEF list, n, page, from
<1>3. ASSUME NEW i \in 1..n, NEW j \in 1..n, i < j PROVE list[i] # list[j]
  <2>1. Before(list[i], list[j]) /\ list[i] \in Records
    BY <1>1, <1>3 DEF Admitted
  <2> QED BY <2>1, Ordered
<1>4. ASSUME NEW i \in 1..Len(page), NEW j \in 1..Len(page), i # j PROVE page[i].id # page[j].id
  <2>1. from + i < from + j \/ from + j < from + i
    BY <1>2, <1>4
  <2> QED BY <1>2, <1>3, <2>1
<1> QED BY <1>4 DEF page

\* The cursor a run is left with after a page.
LEMMA NextCursors ==
    ASSUME Inv, NEW u \in Runs
    PROVE  LET page == Page(run[u].since, run[u].cursor)
               next == NextCursor(u, page)
               cursor == run[u].cursor
           IN  /\ next \in Nat
               /\ setting.strategy = "page" =>
                     next = IF HasMore(page) THEN (IF cursor = 0 THEN 1 ELSE cursor) + 1 ELSE 0
               /\ setting.strategy = "offset" =>
                     next = IF HasMore(page) THEN cursor + Len(page) ELSE 0
               /\ ~Positional =>
                     /\ next = ServedCursor(run[u].since, cursor, page)
                     /\ next # 0 => page # <<>> /\ next = ItemKey(page[Len(page)])
                     /\ next = 0 => Skipped(Listing(run[u].since), cursor) + Len(page)
                                      >= Len(Listing(run[u].since))
<1> DEFINE since == run[u].since
           cursor == run[u].cursor
           page == Page(since, cursor)
           next == NextCursor(u, page)
           list == Listing(since)
           from == Skipped(list, cursor)
<1>0. cursor \in Nat /\ Provided
  BY DEF Inv, Progress
<1>1. setting.strategy = "page" =>
        next = IF HasMore(page) THEN (IF cursor = 0 THEN 1 ELSE cursor) + 1 ELSE 0
  <2> HIDE DEF page
  <2>1. ASSUME setting.strategy = "page", HasMore(page), cursor = 0 PROVE next = 1 + 1
    BY <2>1, Zenon DEF NextCursor
  <2>2. ASSUME setting.strategy = "page", HasMore(page), cursor # 0 PROVE next = cursor + 1
    BY <2>2, Zenon DEF NextCursor
  <2>3. ASSUME setting.strategy = "page", ~HasMore(page) PROVE next = 0
    BY <2>3, Zenon DEF NextCursor
  <2> HIDE DEF next
  <2> QED BY <2>1, <2>2, <2>3
<1>2. setting.strategy = "offset" => next = IF HasMore(page) THEN cursor + Len(page) ELSE 0
  <2> HIDE DEF page
  <2>1. ASSUME setting.strategy = "offset", HasMore(page) PROVE next = cursor + Len(page)
    BY <2>1, Zenon DEF NextCursor
  <2>2. ASSUME setting.strategy = "offset", ~HasMore(page) PROVE next = 0
    BY <2>2, Zenon DEF NextCursor
  <2> HIDE DEF next
  <2> QED BY <2>1, <2>2
<1>3. ~Positional => next = ServedCursor(since, cursor, page)
  BY Zenon DEF NextCursor, Positional
<1>4. /\ from \in Nat /\ Len(page) \in Nat /\ page \in Seq(Items) /\ Len(list) \in Nat
      /\ Len(page) < PageSize => from + Len(page) >= Len(list)
      /\ page # <<>> => Len(page) \in 1..Len(page)
      /\ \A i \in 1..Len(page) : page[i].id \in Records /\ page[i].mark = mark[page[i].id]
  <2>1. /\ from \in Nat /\ Len(page) \in Nat /\ page \in Seq(Items)
        /\ Len(page) < PageSize => from + Len(page) >= Len(list)
        /\ \A i \in 1..Len(page) : page[i].id \in Records /\ page[i].mark = mark[page[i].id]
    <3> HIDE DEF since, cursor
    <3> QED BY <1>0, Pages
  <2>2. Len(list) \in Nat
    BY <1>0, Listings
  <2> HIDE DEF page, from, list
  <2>3. page # <<>> => Len(page) \in 1..Len(page)
    BY <2>1
  <2> QED BY <2>1, <2>2, <2>3
<1>5. /\ ServedCursor(since, cursor, page) = 0 => from + Len(page) >= Len(list)
      /\ \/ ServedCursor(since, cursor, page) = 0
         \/ page # <<>> /\ ServedCursor(since, cursor, page) = ItemKey(page[Len(page)])
      /\ ServedCursor(since, cursor, page) \in Nat
  <2> HIDE DEF page, from, list
  <2>1. CASE page = <<>>
    <3>1. ServedCursor(since, cursor, page) = 0
      BY <2>1 DEF ServedCursor
    <3>2. Len(page) = 0
      BY <2>1
    <3> QED BY <1>4, <3>1, <3>2, Numbers
  <2>2. CASE page # <<>> /\ from + Len(page) >= Len(list)
    BY <2>2 DEF ServedCursor, from, list
  <2>3. CASE page # <<>> /\ ~(from + Len(page) >= Len(list))
    <3>1. ServedCursor(since, cursor, page) = Key(page[Len(page)].id)
      BY <2>3 DEF ServedCursor, from, list, Last
    <3>2. page[Len(page)].id \in Records /\ page[Len(page)].mark = mark[page[Len(page)].id]
      BY <1>4, <2>3
    <3>3. Key(page[Len(page)].id) \in Nat \ {0}
      BY <1>0, <3>2, KeyTypes
    <3>4. Key(page[Len(page)].id) = ItemKey(page[Len(page)])
      BY <3>2 DEF Key, ItemKey
    <3> QED BY <2>3, <3>1, <3>3, <3>4
  <2> QED BY <2>1, <2>2, <2>3
<1>6. next \in Nat
  <2>1. setting.strategy = "page" \/ setting.strategy = "offset" \/ ~Positional
    BY DEF Positional
  <2> HIDE DEF next, page, cursor
  <2> QED BY <1>0, <1>1, <1>2, <1>3, <1>4, <1>5, <2>1
<1> HIDE DEF next, page, cursor, from, list, since
<1> QED BY <1>1, <1>2, <1>3, <1>5, <1>6 DEF next, page, cursor, from, list, since

-----------------------------------------------------------------------------
(* How runs move.                                                            *)

\* What another run sees of a write: at most that its revision is old.
Unmoved(u) ==
    \A v \in Runs \ {u} :
        /\ pc'[v] = pc[v]
        /\ run'[v] = run[v] \/ (pc[v] # "idle" /\ run'[v] = [run[v] EXCEPT !.base = "old"])

Moves(u, stage, k) ==
    /\ pc' = [pc EXCEPT ![u] = stage]
    /\ run' = [v \in Runs |-> run'[v]] /\ run'[u] = k
    /\ Unmoved(u)

LEMMA RunTypes ==
    ASSUME Inv, NEW u \in Runs
    PROVE  /\ run[u] \in Progress /\ Fits(run[u], pc[u], mark) /\ pc[u] \in Stages
           /\ run[u].cursor \in Nat /\ run[u].next \in Nat /\ run[u].pages \in Nat
           /\ run[u].start \in Nat /\ run[u].limit \in Nat \ {0}
           /\ run[u].since \in 0..MaxMark /\ run[u].watermark \in 0..MaxMark
           /\ run[u].since \in Nat /\ run[u].watermark \in Nat
           /\ run[u].queue \in Seq(Items) /\ run[u].failed \in BOOLEAN
           /\ run[u].pagesSeen \subseteq Seq(Items)
           /\ run[u].base \in {"zero", "current", "old"}
<1>1. run[u] \in Progress /\ Fits(run[u], pc[u], mark) /\ pc[u] \in Stages
  BY DEF Inv
<1> QED BY <1>1, Numbers DEF Progress

LEMMA IdleTypes ==
    /\ NoRun \in Progress /\ NoRun.queue = <<>> /\ NoRun.pages = 0 /\ ~NoRun.failed
    /\ NoRun.start = 0 /\ NoRun.limit = 1 /\ NoRun.since = 0 /\ NoRun.watermark = 0
    /\ NoRun.cursor = 0 /\ NoRun.next = 0
BY Numbers DEF NoRun, Progress

LEMMA IdleFits == ASSUME NEW m PROVE Fits(NoRun, "idle", m)
BY IdleTypes DEF Fits

LEMMA MovesTypes ==
    ASSUME Inv, NEW u \in Runs, NEW stage \in Stages, NEW k \in Progress,
           Moves(u, stage, k), Fits(k, stage, mark), UNCHANGED <<setting, mark>>, Files'
    PROVE  Inv'
<1>1. ASSUME NEW v \in Runs
      PROVE  pc'[v] \in Stages /\ run'[v] \in Progress /\ Fits(run'[v], pc'[v], mark)
  <2>1. CASE v = u
    BY <2>1 DEF Moves, Inv
  <2>2. CASE v # u
    <3> DEFINE old == [run[v] EXCEPT !.base = "old"]
    <3>1. pc'[v] = pc[v] /\ (run'[v] = run[v] \/ (pc[v] # "idle" /\ run'[v] = old))
      BY <2>2 DEF Moves, Unmoved
    <3>2. old \in Progress /\ (pc[v] = "idle" => run[v] = NoRun)
      BY RunTypes DEF Progress, Fits
    <3>3. CASE run'[v] = run[v]
      BY <3>1, <3>3, RunTypes
    <3>4. CASE run'[v] = old /\ pc[v] # "idle"
      <4>1. /\ old.since = run[v].since /\ old.watermark = run[v].watermark
            /\ old.limit = run[v].limit /\ old.pages = run[v].pages /\ old.queue = run[v].queue
        BY RunTypes DEF Progress
      <4> HIDE DEF old
      <4>2. Fits(old, pc[v], mark)
        BY <3>4, <4>1, RunTypes DEF Fits
      <4> QED BY <3>1, <3>2, <3>4, <4>2, RunTypes
    <3> QED BY <3>1, <3>3, <3>4
  <2> QED BY <2>1, <2>2
<1>2. pc' \in [Runs -> Stages] /\ run' \in [Runs -> Progress]
  BY <1>1 DEF Moves, Inv
<1>3. \A v \in Runs : Fits(run[v], pc[v], mark)' = Fits(run'[v], pc'[v], mark)
  BY DEF Fits
<1> QED BY <1>1, <1>2, <1>3 DEF Inv, Provided

LEMMA Faults ==
    ASSUME Inv, Fault \/ Ok PROVE faults' \in 0..MaxFaults
<1>1. faults \in Nat /\ faults <= MaxFaults /\ MaxFaults \in Nat
  BY Numbers DEF Inv, Files
<1> QED BY <1>1 DEF Fault, Ok

LEMMA FilesKept ==
    ASSUME Inv, Fault \/ Ok, UNCHANGED <<setting, mark, ws, seen, ckpt>>
    PROVE  Files' /\ UNCHANGED <<setting, mark>>
<1>1. faults' \in 0..MaxFaults
  BY Faults
<1> QED BY <1>1 DEF Inv, Files

\* What a run holds after each kind of step.
Begun(limit, c) == [NoRun EXCEPT !.limit = limit, !.start = c.cursor, !.cursor = c.cursor,
                                 !.since = c.watermark, !.watermark = c.watermark]
Answered(u, page, next) ==
    [run[u] EXCEPT !.queue = page, !.next = next, !.pagesSeen = @ \union {page}]
Based(u, base) == [run[u] EXCEPT !.base = base]
Rest(u, failed, watermark) ==
    [run[u] EXCEPT !.queue = Tail(run[u].queue), !.base = "zero", !.failed = failed,
                   !.watermark = watermark]
Turned(u) == [run[u] EXCEPT !.cursor = run[u].next, !.base = "zero", !.pages = @ + 1, !.next = 0]

LEMMA BegunTypes ==
    ASSUME NEW limit \in Nat \ {0}, NEW c \in [stored : BOOLEAN, cursor : Nat, watermark : 0..MaxMark]
    PROVE  LET k == Begun(limit, c)
           IN  /\ k \in Progress /\ k.limit = limit /\ k.start = c.cursor /\ k.cursor = c.cursor
               /\ k.since = c.watermark /\ k.watermark = c.watermark /\ k.pages = 0
               /\ k.pagesSeen = {} /\ k.queue = <<>> /\ ~k.failed /\ k.next = 0 /\ k.base = "zero"
BY IdleTypes, Numbers DEF Begun, NoRun, Progress

LEMMA AnsweredTypes ==
    ASSUME Inv, NEW u \in Runs, NEW page \in Seq(Items), NEW next \in Nat
    PROVE  LET k == Answered(u, page, next)
           IN  /\ k \in Progress /\ k.limit = run[u].limit /\ k.start = run[u].start
               /\ k.cursor = run[u].cursor /\ k.since = run[u].since
               /\ k.watermark = run[u].watermark /\ k.pages = run[u].pages
               /\ k.pagesSeen = run[u].pagesSeen \union {page} /\ k.queue = page
               /\ k.failed = run[u].failed /\ k.next = next
BY RunTypes DEF Answered, Progress

LEMMA BasedTypes ==
    ASSUME Inv, NEW u \in Runs, NEW base \in {"zero", "current", "old"}
    PROVE  LET k == Based(u, base)
           IN  /\ k \in Progress /\ k.limit = run[u].limit /\ k.start = run[u].start
               /\ k.cursor = run[u].cursor /\ k.since = run[u].since
               /\ k.watermark = run[u].watermark /\ k.pages = run[u].pages
               /\ k.pagesSeen = run[u].pagesSeen /\ k.queue = run[u].queue
               /\ k.failed = run[u].failed /\ k.next = run[u].next
BY RunTypes DEF Based, Progress

LEMMA RestTypes ==
    ASSUME Inv, NEW u \in Runs, run[u].queue # <<>>,
           NEW failed \in BOOLEAN, NEW watermark \in 0..MaxMark
    PROVE  LET k == Rest(u, failed, watermark)
           IN  /\ k \in Progress /\ k.limit = run[u].limit /\ k.start = run[u].start
               /\ k.cursor = run[u].cursor /\ k.since = run[u].since
               /\ k.watermark = watermark /\ k.pages = run[u].pages
               /\ k.pagesSeen = run[u].pagesSeen /\ k.queue = Tail(run[u].queue)
               /\ k.failed = failed /\ k.next = run[u].next
<1>1. Tail(run[u].queue) \in Seq(Items)
  BY RunTypes
<1> QED BY <1>1, RunTypes DEF Rest, Progress

LEMMA TurnedTypes ==
    ASSUME Inv, NEW u \in Runs
    PROVE  LET k == Turned(u)
           IN  /\ k \in Progress /\ k.limit = run[u].limit /\ k.start = run[u].start
               /\ k.cursor = run[u].next /\ k.since = run[u].since
               /\ k.watermark = run[u].watermark /\ k.pages = run[u].pages + 1
               /\ k.pagesSeen = run[u].pagesSeen /\ k.queue = run[u].queue
               /\ k.failed = run[u].failed /\ k.next = 0
<1>1. run[u].pages + 1 \in Nat
  BY RunTypes
<1> QED BY <1>1, RunTypes DEF Turned, Progress

LEMMA Leaves == ASSUME Inv, NEW u \in Runs, Leave(u) PROVE Moves(u, "idle", NoRun)
BY DEF Inv, Leave, Moves, Unmoved

LEMMA Begins ==
    ASSUME Inv, NEW u \in Runs, NEW c, Begin(u, c)
    PROVE  \E limit \in setting.limits : Moves(u, "request", Begun(limit, c))
BY DEF Inv, Begin, Moves, Unmoved, Begun

LEMMA Reads ==
    ASSUME Inv, NEW u \in Runs, NEW stage, NEW base,
           pc' = [pc EXCEPT ![u] = stage], run' = [run EXCEPT ![u].base = base]
    PROVE  Moves(u, stage, Based(u, base))
BY DEF Inv, Moves, Unmoved, Based

LEMMA Responds ==
    ASSUME Inv, NEW u \in Runs, Respond(u)
    PROVE  LET page == Page(run[u].since, run[u].cursor)
               next == NextCursor(u, page)
           IN  /\ pc[u] = "request" /\ UNCHANGED <<setting, mark, ws, seen, ckpt>> /\ Ok
               /\ \/ Moves(u, "idle", NoRun)
                  \/ /\ ~RepeatedLink(u, next) /\ ~RepeatedPage(u, page)
                     /\ Moves(u, IF page = <<>> THEN "saveBase" ELSE "base", Answered(u, page, next))
<1> DEFINE page == Page(run[u].since, run[u].cursor)
           next == NextCursor(u, page)
           stage == IF page = <<>> THEN "saveBase" ELSE "base"
<1>1. pc[u] = "request" /\ UNCHANGED <<setting, mark, ws, seen, ckpt>> /\ Ok
  BY DEF Respond
<1>2. CASE RepeatedLink(u, next) \/ RepeatedPage(u, page)
  <2>1. Leave(u)
    BY <1>2 DEF Respond
  <2> QED BY <1>1, <2>1, Leaves
<1>3. CASE ~RepeatedLink(u, next) /\ ~RepeatedPage(u, page)
  <2>1. pc' = [pc EXCEPT ![u] = stage]
        /\ run' = [run EXCEPT ![u].queue = page, ![u].next = next, ![u].pagesSeen = @ \union {page}]
    BY <1>3 DEF Respond
  <2> HIDE DEF page, next, stage
  <2>2. Moves(u, stage, Answered(u, page, next))
    BY <2>1 DEF Inv, Moves, Unmoved, Answered
  <2> QED BY <1>1, <1>3, <2>2 DEF page, next, stage
<1> QED BY <1>2, <1>3

LEMMA Outdated ==
    ASSUME Inv, NEW waiting, \A v \in waiting : v \in Runs => pc[v] # "idle"
    PROVE  /\ Outdate(waiting) = [v \in Runs |-> Outdate(waiting)[v]]
           /\ \A v \in Runs :
                 \/ Outdate(waiting)[v] = run[v]
                 \/ pc[v] # "idle" /\ Outdate(waiting)[v] = [run[v] EXCEPT !.base = "old"]
BY DEF Outdate

\* Runs that are at the same stage, at most made to retry.
Others(others) ==
    /\ others = [v \in Runs |-> others[v]]
    /\ \A v \in Runs : \/ others[v] = run[v]
                       \/ (pc[v] # "idle" /\ others[v] = [run[v] EXCEPT !.base = "old"])

LEMMA Continues ==
    ASSUME Inv, NEW u \in Runs, NEW failed, NEW watermark, NEW others, Others(others),
           Continue(u, failed, watermark, others)
    PROVE  \/ /\ Tail(run[u].queue) = <<>> /\ failed /\ Moves(u, "idle", NoRun)
           \/ /\ ~(Tail(run[u].queue) = <<>> /\ failed)
              /\ Moves(u, IF Tail(run[u].queue) = <<>> THEN "saveBase" ELSE "base",
                       Rest(u, failed, watermark))
<1>1. CASE Tail(run[u].queue) = <<>> /\ failed
  <2>1. pc' = [pc EXCEPT ![u] = "idle"] /\ run' = [others EXCEPT ![u] = NoRun]
    BY <1>1 DEF Continue
  <2> QED BY <1>1, <2>1 DEF Others, Inv, Moves, Unmoved
<1>2. CASE ~(Tail(run[u].queue) = <<>> /\ failed)
  <2>1. /\ pc' = [pc EXCEPT ![u] = IF Tail(run[u].queue) = <<>> THEN "saveBase" ELSE "base"]
        /\ run' = [others EXCEPT ![u] = Rest(u, failed, watermark)]
    BY <1>2 DEF Continue, Rest
  <2> QED BY <1>2, <2>1 DEF Others, Inv, Moves, Unmoved
<1> QED BY <1>1, <1>2

LEMMA Proceeds ==
    ASSUME Inv, NEW u \in Runs, NEW others, Others(others), Proceed(u, others)
    PROVE  \/ Moves(u, "idle", NoRun)
           \/ HasNext(u, run[u].next) /\ Moves(u, "request", Turned(u))
<1>1. CASE HasNext(u, run[u].next)
  <2>1. pc' = [pc EXCEPT ![u] = "request"] /\ run' = [others EXCEPT ![u] = Turned(u)]
    BY <1>1 DEF Proceed, Turned
  <2> QED BY <1>1, <2>1 DEF Others, Inv, Moves, Unmoved
<1>2. CASE ~HasNext(u, run[u].next)
  <2>1. pc' = [pc EXCEPT ![u] = "idle"] /\ run' = [others EXCEPT ![u] = NoRun]
    BY <1>2 DEF Proceed
  <2> QED BY <1>2, <2>1 DEF Others, Inv, Moves, Unmoved
<1> QED BY <1>1, <1>2

-----------------------------------------------------------------------------
(* The steps of a run, sorted by what they move.                             *)

FilesSame == UNCHANGED <<ws, seen, ckpt>>

Started(u) ==
    /\ pc[u] = "idle" /\ u \in setting.callers /\ FilesSame
    /\ \E c \in {ckpt, NoCheckpoint} : \E limit \in setting.limits :
          Moves(u, "request", Begun(limit, c))

Ended(u) == pc[u] # "idle" /\ Moves(u, "idle", NoRun) /\ FilesSame

Paged(u) ==
    LET page == Page(run[u].since, run[u].cursor)
        next == NextCursor(u, page)
    IN  /\ pc[u] = "request" /\ FilesSame
        /\ ~RepeatedLink(u, next) /\ ~RepeatedPage(u, page)
        /\ Moves(u, IF page = <<>> THEN "saveBase" ELSE "base", Answered(u, page, next))

Prepared(u) ==
    /\ FilesSame
    /\ \E base \in {"zero", "current"} :
          \/ pc[u] = "base" /\ Moves(u, "write", Based(u, base))
          \/ pc[u] = "saveBase" /\ Moves(u, "save", Based(u, base))

Done(u, failed, watermark) ==
    \/ /\ Tail(run[u].queue) = <<>> /\ failed /\ Moves(u, "idle", NoRun)
    \/ /\ ~(Tail(run[u].queue) = <<>> /\ failed)
       /\ Moves(u, IF Tail(run[u].queue) = <<>> THEN "saveBase" ELSE "base",
                Rest(u, failed, watermark))

Written(u) ==
    LET item == Head(run[u].queue)
    IN  /\ pc[u] = "write" /\ Put(item) /\ UNCHANGED ckpt
        /\ \/ Done(u, run[u].failed, Advance(run[u].watermark, item.mark))
           \/ Done(u, TRUE, run[u].watermark)

Refused(u) == pc[u] = "write" /\ FilesSame /\ Done(u, TRUE, run[u].watermark)

Saved(u) ==
    /\ pc[u] = "save" /\ ckpt' = CheckpointOf(u) /\ UNCHANGED <<ws, seen>>
    /\ \/ Moves(u, "idle", NoRun)
       \/ HasNext(u, run[u].next) /\ Moves(u, "request", Turned(u))

Stepped(u) ==
    \/ Started(u) \/ Ended(u) \/ Paged(u) \/ Prepared(u) \/ Written(u) \/ Refused(u) \/ Saved(u)

LEMMA Steps ==
    ASSUME Inv, Next
    PROVE  \/ /\ UNCHANGED <<setting, mark>> /\ faults' \in 0..MaxFaults
              /\ \E u \in Runs : Stepped(u)
           \/ \E r \in Records : Touch(r)
<1>1. ASSUME NEW u \in Runs, Start(u) \/ StartUnread(u)
      PROVE  UNCHANGED <<setting, mark>> /\ (Fault \/ Ok) /\ Started(u)
  <2>1. PICK c \in {ckpt, NoCheckpoint} : Begin(u, c) /\ (Fault \/ Ok) /\ u \in setting.callers
    BY <1>1 DEF Start, StartUnread
  <2>2. pc[u] = "idle" /\ UNCHANGED <<setting, mark, ws, seen, ckpt>>
    BY <2>1 DEF Begin
  <2>3. \E limit \in setting.limits : Moves(u, "request", Begun(limit, c))
    BY <2>1, Begins
  <2> QED BY <2>1, <2>2, <2>3 DEF Started, FilesSame
<1>2. ASSUME NEW u \in Runs, RequestFails(u) \/ CheckpointRefused(u) \/ Abort(u)
      PROVE  UNCHANGED <<setting, mark>> /\ (Fault \/ Ok) /\ Ended(u)
  <2>1. /\ Leave(u) /\ pc[u] # "idle" /\ UNCHANGED <<setting, mark, ws, seen, ckpt>>
        /\ (Fault \/ Ok)
    BY <1>2 DEF RequestFails, CheckpointRefused, Abort
  <2> QED BY <2>1, Leaves DEF Ended, FilesSame
<1>3. ASSUME NEW u \in Runs, Respond(u)
      PROVE  UNCHANGED <<setting, mark>> /\ (Fault \/ Ok) /\ (Ended(u) \/ Paged(u))
  BY <1>3, Responds DEF Ended, Paged, FilesSame
<1>4. ASSUME NEW u \in Runs, ReadBase(u) \/ ReadCheckpointBase(u)
      PROVE  UNCHANGED <<setting, mark>> /\ (Fault \/ Ok) /\ Prepared(u)
  <2>1. CASE ReadBase(u)
    <3>1. /\ pc[u] = "base" /\ pc' = [pc EXCEPT ![u] = "write"]
          /\ UNCHANGED <<setting, mark, ws, seen, ckpt>> /\ (Fault \/ Ok)
          /\ \E base \in {"zero", "current"} : run' = [run EXCEPT ![u].base = base]
      BY <2>1 DEF ReadBase, Base
    <3> QED BY <3>1, Reads DEF Prepared, FilesSame
  <2>2. CASE ReadCheckpointBase(u)
    <3>1. /\ pc[u] = "saveBase" /\ pc' = [pc EXCEPT ![u] = "save"]
          /\ UNCHANGED <<setting, mark, ws, seen, ckpt>> /\ (Fault \/ Ok)
          /\ \E base \in {"zero", "current"} : run' = [run EXCEPT ![u].base = base]
      BY <2>2 DEF ReadCheckpointBase, Base
    <3> QED BY <3>1, Reads DEF Prepared, FilesSame
  <2> QED BY <1>4, <2>1, <2>2
<1>5. Others(run)
  BY DEF Others, Inv
<1>6. \A failed, watermark, others : \A u \in Runs :
         Others(others) /\ Continue(u, failed, watermark, others) => Done(u, failed, watermark)
  BY Continues DEF Done
<1>7. ASSUME NEW u \in Runs, RecordRefused(u)
      PROVE  UNCHANGED <<setting, mark>> /\ (Fault \/ Ok) /\ Refused(u)
  <2>1. /\ pc[u] = "write" /\ Continue(u, TRUE, run[u].watermark, run) /\ (Fault \/ Ok)
        /\ UNCHANGED <<setting, mark, ws, seen, ckpt>>
    BY <1>7 DEF RecordRefused
  <2> QED BY <1>5, <1>6, <2>1 DEF Refused, FilesSame
<1>8. ASSUME NEW u \in Runs, WriteRecord(u)
      PROVE  UNCHANGED <<setting, mark>> /\ (Fault \/ Ok) /\ Written(u)
  <2> DEFINE item == Head(run[u].queue)
             others == Outdate(WaitingFor(item.id))
             high == Advance(run[u].watermark, item.mark)
  <2>1. Others(others)
    BY Outdated DEF Others, WaitingFor
  <2>2. /\ pc[u] = "write" /\ Put(item) /\ UNCHANGED <<setting, mark, ckpt>> /\ (Fault \/ Ok)
        /\ \/ Continue(u, run[u].failed, high, others)
           \/ Continue(u, TRUE, run[u].watermark, others)
    BY <1>8 DEF WriteRecord
  <2> HIDE DEF item, others, high
  <2>3. Done(u, run[u].failed, high) \/ Done(u, TRUE, run[u].watermark)
    BY <1>6, <2>1, <2>2
  <2> QED BY <2>2, <2>3 DEF Written, item, high
<1>9. ASSUME NEW u \in Runs, SaveCheckpoint(u)
      PROVE  UNCHANGED <<setting, mark>> /\ (Fault \/ Ok) /\ Saved(u)
  <2> DEFINE others == Outdate({v \in Runs : pc[v] = "save"})
  <2>1. Others(others)
    BY Outdated DEF Others
  <2>2. /\ pc[u] = "save" /\ ckpt' = CheckpointOf(u) /\ UNCHANGED <<setting, mark, ws, seen>>
        /\ (Fault \/ Ok)
        /\ \/ Proceed(u, others)
           \/ pc' = [pc EXCEPT ![u] = "idle"] /\ run' = [others EXCEPT ![u] = NoRun]
    BY <1>9 DEF SaveCheckpoint
  <2> HIDE DEF others
  <2>3. ASSUME pc' = [pc EXCEPT ![u] = "idle"], run' = [others EXCEPT ![u] = NoRun]
        PROVE  Moves(u, "idle", NoRun)
    BY <2>1, <2>3 DEF Others, Inv, Moves, Unmoved
  <2> QED BY <2>1, <2>2, <2>3, Proceeds DEF Saved
<1>10. Fault \/ Ok => faults' \in 0..MaxFaults
  BY Faults
<1> QED BY <1>1, <1>2, <1>3, <1>4, <1>7, <1>8, <1>9, <1>10 DEF Next, Sync, Stepped

-----------------------------------------------------------------------------
(* Types.                                                                    *)

LEMMA SettingTypes ==
    ASSUME Provided
    PROVE  /\ setting.limits \subseteq Nat \ {0} /\ setting.lastMark \in 1..MaxMark
           /\ setting.callers \subseteq Runs
           /\ setting.strategy \in Strategies /\ setting.order \in Orders
           /\ setting.stuck \in BOOLEAN
BY SyncAssumption DEF Provided

LEMMA Newest ==
    ASSUME Provided, Records # {}
    PROVE  /\ Highest \in 1..MaxMark /\ \A r \in Records : mark[r] <= Highest
<1> DEFINE D == {d \in Nat : \E r \in Records : MaxMark - d = mark[r]}
           R == {xy \in Nat \X Nat : xy[1] < xy[2]}
<1>0. IsWellFoundedOn(R, Nat)
  BY NatLessThanWellFounded, Zenon DEF OpToRel
<1>1. \A r \in Records : mark[r] \in 1..MaxMark /\ MaxMark - mark[r] \in D
  BY Numbers DEF Provided
<1>2. PICK d \in D : \A e \in D : ~(<<e, d>> \in R)
  <2>1. D \subseteq Nat /\ D # {}
    BY <1>1
  <2> HIDE DEF D, R
  <2> QED BY <1>0, <2>1, WFMin
<1>3. ASSUME NEW e \in D PROVE d <= e
  <2>1. SUFFICES ASSUME e < d PROVE FALSE
    OBVIOUS
  <2>2. <<e, d>> \in R
    BY <2>1
  <2> QED BY <1>2, <2>2
<1>4. PICK s \in Records : MaxMark - d = mark[s]
  OBVIOUS
<1>5. \A r \in Records : mark[r] <= mark[s]
  BY <1>1, <1>3, <1>4, Numbers
<1>6. Highest \in {mark[r] : r \in Records} /\ \A r \in Records : mark[r] <= Highest
  BY <1>4, <1>5 DEF Highest
<1> QED BY <1>1, <1>6

LEMMA PutTypes ==
    ASSUME Inv, NEW item \in Items, item.mark <= mark[item.id], Put(item), UNCHANGED ckpt
    PROVE  /\ \A r \in Records : ws'[r] = IF r = item.id THEN item.mark ELSE ws[r]
           /\ \A r \in Records : seen'[r] =
                 IF r = item.id /\ item.mark > seen[r] THEN item.mark ELSE seen[r]
           /\ ws' \in [Records -> 0..MaxMark] /\ seen' \in [Records -> 0..MaxMark]
           /\ \A r \in Records : ws'[r] <= seen'[r] /\ seen'[r] <= mark[r] /\ seen[r] <= seen'[r]
           /\ ckpt' \in [stored : BOOLEAN, cursor : Nat, watermark : 0..MaxMark]
<1>1. item.id \in Records /\ item.mark \in 1..MaxMark
  BY DEF Items
<1>2. /\ ws \in [Records -> 0..MaxMark] /\ seen \in [Records -> 0..MaxMark]
      /\ \A r \in Records : ws[r] <= seen[r] /\ seen[r] <= mark[r]
      /\ mark \in [Records -> 1..MaxMark] /\ MaxMark \in Nat
  BY Numbers DEF Inv, Files, Provided
<1>3. \A r \in Records : ws'[r] = IF r = item.id THEN item.mark ELSE ws[r]
  BY <1>1, <1>2 DEF Put
<1>4. \A r \in Records : seen'[r] = IF r = item.id /\ item.mark > seen[r] THEN item.mark ELSE seen[r]
  BY <1>1, <1>2 DEF Put, Advance
<1>5. ws' \in [Records -> 0..MaxMark] /\ seen' \in [Records -> 0..MaxMark]
  <2>1. DOMAIN ws' = Records /\ DOMAIN seen' = Records /\ ws' = [r \in Records |-> ws'[r]]
        /\ seen' = [r \in Records |-> seen'[r]]
    BY <1>2 DEF Put
  <2>2. \A r \in Records : ws'[r] \in 0..MaxMark /\ seen'[r] \in 0..MaxMark
    BY <1>1, <1>2, <1>3, <1>4
  <2> QED BY <2>1, <2>2
<1>6. \A r \in Records : ws'[r] <= seen'[r] /\ seen'[r] <= mark[r] /\ seen[r] <= seen'[r]
  <2> SUFFICES ASSUME NEW r \in Records
               PROVE  ws'[r] <= seen'[r] /\ seen'[r] <= mark[r] /\ seen[r] <= seen'[r]
    OBVIOUS
  <2>1. ws[r] \in Nat /\ seen[r] \in Nat /\ mark[r] \in Nat /\ item.mark \in Nat
    BY <1>1, <1>2
  <2> QED BY <2>1, <1>2, <1>3, <1>4
<1> QED BY <1>3, <1>4, <1>5, <1>6 DEF Inv, Files

\* The record a run is at.
LEMMA AtHand ==
    ASSUME Inv, NEW u \in Runs, pc[u] \in {"base", "write"}
    PROVE  /\ run[u].queue # <<>> /\ Len(run[u].queue) \in Nat \ {0}
           /\ Head(run[u].queue) = run[u].queue[1] /\ Head(run[u].queue) \in Items
           /\ Head(run[u].queue).mark <= mark[Head(run[u].queue).id]
           /\ Tail(run[u].queue) \in Seq(Items) /\ Len(Tail(run[u].queue)) = Len(run[u].queue) - 1
           /\ \A i \in 1..Len(Tail(run[u].queue)) :
                 /\ Tail(run[u].queue)[i] = run[u].queue[i + 1]
                 /\ i + 1 \in 1..Len(run[u].queue)
<1> DEFINE queue == run[u].queue
<1>1. queue \in Seq(Items) /\ queue # <<>> /\ \A i \in DOMAIN queue : queue[i].mark <= mark[queue[i].id]
  BY RunTypes DEF Fits
<1> HIDE DEF queue
<1>2. Len(queue) \in Nat \ {0} /\ Head(queue) = queue[1] /\ 1 \in DOMAIN queue
  BY <1>1
<1>3. Head(queue) \in Items /\ Head(queue).mark <= mark[Head(queue).id]
  BY <1>1, <1>2
<1>4. /\ Tail(queue) \in Seq(Items) /\ Len(Tail(queue)) = Len(queue) - 1
      /\ \A i \in 1..Len(Tail(queue)) : Tail(queue)[i] = queue[i + 1] /\ i + 1 \in 1..Len(queue)
  BY <1>1, <1>2
<1> QED BY <1>1, <1>2, <1>3, <1>4 DEF queue

\* What is done with, and what then is left.
LEMMA DoneTypes ==
    ASSUME Inv, NEW u \in Runs, pc[u] = "write", NEW failed \in BOOLEAN,
           NEW watermark \in run[u].watermark..MaxMark, Done(u, failed, watermark),
           UNCHANGED <<setting, mark>>, Files'
    PROVE  Inv'
<1>1. CASE Moves(u, "idle", NoRun)
  BY <1>1, IdleTypes, IdleFits, MovesTypes DEF Stages
<1>2. CASE Moves(u, IF Tail(run[u].queue) = <<>> THEN "saveBase" ELSE "base",
                 Rest(u, failed, watermark))
  <2> DEFINE k == Rest(u, failed, watermark)
             rest == Tail(run[u].queue)
             stage == IF rest = <<>> THEN "saveBase" ELSE "base"
  <2>1. watermark \in 0..MaxMark /\ run[u].since <= watermark /\ run[u].limit \in Nat
        /\ run[u].limit \in setting.limits \union {1} /\ run[u].pages < run[u].limit
    BY RunTypes, Numbers DEF Fits
  <2>2. /\ rest \in Seq(Items)
        /\ \A i \in DOMAIN rest : rest[i].mark <= mark[rest[i].id]
    <3>1. \A i \in 1..Len(run[u].queue) : run[u].queue[i].mark <= mark[run[u].queue[i].id]
      BY RunTypes DEF Fits
    <3>2. rest \in Seq(Items) /\ \A i \in 1..Len(rest) : rest[i] = run[u].queue[i + 1]
                                                     /\ i + 1 \in 1..Len(run[u].queue)
      BY AtHand
    <3> HIDE DEF rest
    <3> QED BY <3>1, <3>2
  <2>3. /\ k \in Progress /\ k.limit = run[u].limit /\ k.since = run[u].since
        /\ k.watermark = watermark /\ k.pages = run[u].pages /\ k.queue = rest
    BY <2>1, AtHand, RestTypes
  <2> HIDE DEF k, rest
  <2>4. Fits(k, stage, mark) /\ stage \in Stages
    BY <2>1, <2>2, <2>3 DEF Fits, Stages
  <2>5. Moves(u, stage, k)
    BY <1>2 DEF k, rest
  <2> HIDE DEF stage
  <2> QED BY <2>3, <2>4, <2>5, MovesTypes
<1> QED BY <1>1, <1>2 DEF Done

LEMMA InvHolds == Init => Inv
<1> SUFFICES ASSUME Init PROVE Inv
  OBVIOUS
<1>1. Provided
  BY SyncAssumption DEF Init, Provided
<1>2. Files
  <2>1. \A r \in Records : mark[r] \in Nat
    BY <1>1, KeyTypes
  <2> QED BY <2>1, Numbers DEF Init, Files, NoCheckpoint
<1>3. pc \in [Runs -> Stages] /\ run \in [Runs -> Progress]
      /\ \A u \in Runs : pc[u] = "idle" /\ run[u] = NoRun
  BY IdleTypes DEF Init, Stages
<1>4. \A u \in Runs : Fits(run[u], pc[u], mark)
  BY <1>3, IdleFits
<1> QED BY <1>1, <1>2, <1>3, <1>4 DEF Inv

LEMMA InvStepped ==
    ASSUME Inv, UNCHANGED <<setting, mark>>, faults' \in 0..MaxFaults, NEW u \in Runs, Stepped(u)
    PROVE  Inv'
<1>0. FilesSame => Files'
  BY DEF Inv, Files, FilesSame
<1>1. CASE Started(u)
  <2>1. PICK c \in {ckpt, NoCheckpoint} : \E limit \in setting.limits :
           Moves(u, "request", Begun(limit, c))
    BY <1>1 DEF Started
  <2>2. PICK limit \in setting.limits : Moves(u, "request", Begun(limit, c))
    BY <2>1
  <2> DEFINE k == Begun(limit, c)
  <2>3. limit \in Nat \ {0}
    BY SettingTypes DEF Inv
  <2>4. c \in [stored : BOOLEAN, cursor : Nat, watermark : 0..MaxMark]
    <3>1. ckpt \in [stored : BOOLEAN, cursor : Nat, watermark : 0..MaxMark]
      BY DEF Inv, Files
    <3>2. NoCheckpoint \in [stored : BOOLEAN, cursor : Nat, watermark : 0..MaxMark]
      BY Numbers DEF NoCheckpoint
    <3> QED BY <3>1, <3>2
  <2>5. /\ k \in Progress /\ k.limit = limit /\ k.since = c.watermark /\ k.watermark = c.watermark
        /\ k.pages = 0 /\ k.queue = <<>>
    BY <2>3, <2>4, BegunTypes
  <2>6. c.watermark \in Nat
    BY <2>4, Numbers
  <2> HIDE DEF k
  <2>7. Fits(k, "request", mark)
    BY <2>3, <2>5, <2>6 DEF Fits
  <2>8. Moves(u, "request", k) /\ Files'
    BY <1>0, <1>1, <2>2 DEF k, Started
  <2> QED BY <2>5, <2>7, <2>8, MovesTypes DEF Stages
<1>2. CASE Ended(u)
  BY <1>0, <1>2, IdleTypes, IdleFits, MovesTypes DEF Ended, Stages
<1>3. CASE Paged(u)
  <2> DEFINE page == Page(run[u].since, run[u].cursor)
             next == NextCursor(u, page)
             k == Answered(u, page, next)
             stage == IF page = <<>> THEN "saveBase" ELSE "base"
  <2>1. run[u].cursor \in Nat /\ Provided
    BY RunTypes DEF Inv
  <2>2. /\ page \in Seq(Items) /\ DOMAIN page = 1..Len(page)
        /\ \A i \in 1..Len(page) : page[i].mark = mark[page[i].id] /\ page[i].id \in Records
    BY <2>1, PageTypes
  <2>3. next \in Nat
    BY NextCursors
  <2>4. Moves(u, stage, k) /\ Files'
    BY <1>0, <1>3 DEF Paged
  <2> HIDE DEF page, next
  <2>5. /\ k \in Progress /\ k.limit = run[u].limit /\ k.since = run[u].since
        /\ k.watermark = run[u].watermark /\ k.pages = run[u].pages /\ k.queue = page
    BY <2>2, <2>3, AnsweredTypes
  <2> HIDE DEF k
  <2>6. \A i \in DOMAIN page : page[i].mark <= mark[page[i].id]
    BY <2>1, <2>2, KeyTypes
  <2>7. Fits(k, stage, mark) /\ stage \in Stages
    BY <2>5, <2>6, RunTypes DEF Fits, Stages
  <2> HIDE DEF stage
  <2> QED BY <2>4, <2>5, <2>7, MovesTypes
<1>4. CASE Prepared(u)
  <2>1. PICK base \in {"zero", "current"} :
          \/ pc[u] = "base" /\ Moves(u, "write", Based(u, base))
          \/ pc[u] = "saveBase" /\ Moves(u, "save", Based(u, base))
    BY <1>4 DEF Prepared
  <2> DEFINE k == Based(u, base)
  <2>2. /\ k \in Progress /\ k.limit = run[u].limit /\ k.since = run[u].since
        /\ k.watermark = run[u].watermark /\ k.pages = run[u].pages /\ k.queue = run[u].queue
    BY BasedTypes
  <2> HIDE DEF k
  <2>3. pc[u] = "base" => Fits(k, "write", mark)
    BY <2>2, RunTypes DEF Fits
  <2>4. pc[u] = "saveBase" => Fits(k, "save", mark)
    BY <2>2, RunTypes DEF Fits
  <2>5. Files'
    BY <1>0, <1>4 DEF Prepared
  <2>6. \/ pc[u] = "base" /\ Moves(u, "write", k)
        \/ pc[u] = "saveBase" /\ Moves(u, "save", k)
    BY <2>1 DEF k
  <2> QED BY <2>2, <2>3, <2>4, <2>5, <2>6, MovesTypes DEF Stages
<1>5. run[u].watermark \in run[u].watermark..MaxMark
  BY RunTypes, Numbers
<1>6. CASE Written(u)
  <2> DEFINE item == Head(run[u].queue)
             high == Advance(run[u].watermark, item.mark)
  <2>1. item \in Items /\ item.mark <= mark[item.id] /\ Put(item) /\ UNCHANGED ckpt /\ pc[u] = "write"
    BY <1>6, AtHand DEF Written
  <2>2. Files'
    BY <2>1, PutTypes DEF Files
  <2>3. Done(u, run[u].failed, high) \/ Done(u, TRUE, run[u].watermark)
    BY <1>6 DEF Written
  <2>4. item.mark \in 1..MaxMark
    BY <2>1 DEF Items
  <2>5. high \in run[u].watermark..MaxMark
    BY <2>4, RunTypes, Numbers DEF Advance
  <2>6. run[u].failed \in BOOLEAN
    BY RunTypes
  <2> HIDE DEF item, high
  <2> QED BY <1>5, <2>1, <2>2, <2>3, <2>5, <2>6, DoneTypes
<1>7. CASE Refused(u)
  BY <1>0, <1>5, <1>7, DoneTypes DEF Refused
<1>8. CASE Saved(u)
  <2>1. Files'
    <3>1. ckpt' = CheckpointOf(u) /\ UNCHANGED <<ws, seen>>
      BY <1>8 DEF Saved
    <3>2. CheckpointOf(u) \in [stored : BOOLEAN, cursor : Nat, watermark : 0..MaxMark]
      BY RunTypes DEF CheckpointOf
    <3> QED BY <3>1, <3>2 DEF Inv, Files
  <2>2. CASE Moves(u, "idle", NoRun)
    BY <2>1, <2>2, IdleTypes, IdleFits, MovesTypes DEF Stages
  <2>3. CASE HasNext(u, run[u].next) /\ Moves(u, "request", Turned(u))
    <3> DEFINE k == Turned(u)
    <3>1. /\ k \in Progress /\ k.limit = run[u].limit /\ k.since = run[u].since
          /\ k.watermark = run[u].watermark /\ k.pages = run[u].pages + 1 /\ k.queue = run[u].queue
      BY TurnedTypes
    <3> HIDE DEF k
    <3>2. run[u].pages + 1 < run[u].limit
      BY <2>3 DEF HasNext
    <3>3. pc[u] = "save"
      BY <1>8 DEF Saved
    <3>4. Fits(k, "request", mark)
      BY <3>1, <3>2, <3>3, RunTypes DEF Fits
    <3>5. Moves(u, "request", k)
      BY <2>3 DEF k
    <3> QED BY <2>1, <3>1, <3>4, <3>5, MovesTypes DEF Stages
  <2> QED BY <1>8, <2>2, <2>3 DEF Saved
<1> QED BY <1>1, <1>2, <1>3, <1>4, <1>6, <1>7, <1>8 DEF Stepped

LEMMA InvTouched ==
    ASSUME Inv, NEW r \in Records, Touch(r)
    PROVE  /\ Inv' /\ UNCHANGED <<setting, ws, seen, ckpt, pc, run>>
           /\ \A s \in Records : mark[s] <= mark'[s] /\ mark'[s] \in Nat
           /\ \A s \in Records : s # r => mark'[s] = mark[s]
           /\ \A s \in Records : mark[s] < mark'[r]
<1>1. /\ Highest < setting.lastMark /\ mark' = [mark EXCEPT ![r] = Highest + 1]
      /\ UNCHANGED <<setting, ws, seen, ckpt, pc, run, faults>>
  BY DEF Touch
<1>2. /\ mark \in [Records -> 1..MaxMark] /\ Highest \in 1..MaxMark /\ setting.lastMark \in 1..MaxMark
      /\ MaxMark \in Nat /\ \A s \in Records : mark[s] <= Highest
  BY Newest, Numbers, SettingTypes DEF Inv, Provided
<1>3. /\ \A s \in Records : mark[s] <= mark'[s] /\ mark'[s] \in Nat
      /\ \A s \in Records : s # r => mark'[s] = mark[s]
      /\ \A s \in Records : mark[s] < mark'[r]
      /\ mark' \in [Records -> 1..MaxMark]
  BY <1>1, <1>2
<1>4. Provided'
  BY <1>1, <1>3 DEF Inv, Provided
<1>5. Files'
  <2>1. \A s \in Records : seen[s] \in Nat /\ mark[s] \in Nat /\ mark'[s] \in Nat
                           /\ seen[s] <= mark[s] /\ mark[s] <= mark'[s]
    BY <1>2, <1>3, Numbers DEF Inv, Files
  <2>2. \A s \in Records : seen[s] <= mark'[s]
    BY <2>1
  <2> QED BY <1>1, <2>2 DEF Inv, Files
<1>6. \A u \in Runs : Fits(run[u], pc[u], mark')
  <2> SUFFICES ASSUME NEW u \in Runs PROVE Fits(run[u], pc[u], mark')
    OBVIOUS
  <2> DEFINE queue == run[u].queue
  <2>1. Fits(run[u], pc[u], mark) /\ queue \in Seq(Items)
    BY RunTypes
  <2>2. ASSUME NEW i \in DOMAIN queue PROVE queue[i].mark <= mark'[queue[i].id]
    <3>1. queue[i] \in Items /\ queue[i].mark <= mark[queue[i].id]
      BY <2>1 DEF Fits
    <3>2. queue[i].id \in Records /\ queue[i].mark \in 1..MaxMark
      BY <3>1 DEF Items
    <3>3. mark[queue[i].id] <= mark'[queue[i].id] /\ mark[queue[i].id] \in 1..MaxMark
          /\ mark'[queue[i].id] \in Nat
      BY <1>2, <1>3, <3>2
    <3> QED BY <1>2, <3>1, <3>2, <3>3
  <2> QED BY <2>1, <2>2 DEF Fits
<1>7. \A u \in Runs : Fits(run[u], pc[u], mark)' = Fits(run'[u], pc'[u], mark')
  BY <1>1 DEF Fits
<1>8. Inv'
  BY <1>1, <1>4, <1>5, <1>6, <1>7 DEF Inv
<1> QED BY <1>1, <1>3, <1>8

LEMMA InvNext == Inv /\ [Next]_vars => Inv'
<1> SUFFICES ASSUME Inv, [Next]_vars PROVE Inv'
  OBVIOUS
<1>1. CASE UNCHANGED vars
  BY <1>1 DEF vars, Inv, Provided, Files, Fits
<1>2. CASE Next
  BY <1>2, Steps, InvStepped, InvTouched
<1> QED BY <1>1, <1>2

LEMMA InvAlways == Spec => []Inv
BY InvHolds, InvNext, PTL DEF Spec

(* Every variable and every field of a run keeps its range, whatever the    *)
(* provider lists and however runs interleave (SchemaAdapter.sync).         *)
THEOREM TypeCorrect == Spec => []TypeOK
<1>1. Inv => TypeOK
  <2> SUFFICES ASSUME Inv PROVE TypeOK
    OBVIOUS
  <2>1. ASSUME NEW u \in Runs
        PROVE  /\ run[u].cursor \in Nat /\ run[u].next \in Nat
               /\ run[u].since \in 0..MaxMark /\ run[u].watermark \in run[u].since..MaxMark
               /\ run[u].limit \in setting.limits \union {1} /\ run[u].pages \in 0..(run[u].limit - 1)
               /\ run[u].base \in {"zero", "current", "old"}
               /\ run[u].queue \in Seq(Items)
               /\ (pc[u] \in {"base", "write"}) = (run[u].queue # <<>>)
               /\ pc[u] = "idle" => run[u] = NoRun
    BY RunTypes, Numbers DEF Fits
  <2> QED BY <2>1 DEF TypeOK, Inv, Provided, Files, Stages
<1> QED BY <1>1, InvAlways, PTL

-----------------------------------------------------------------------------
(* Listings that can be resumed.                                             *)

\* What a page of such a listing leaves between the cursor and its last record.
LEMMA PageCovers ==
    ASSUME Provided, Resumable, NEW since, NEW cursor \in Nat
    PROVE  LET page == Page(since, cursor)
           IN  /\ \A i, j \in 1..Len(page) : i < j => ItemKey(page[i]) < ItemKey(page[j])
               /\ page # <<>> => \A r \in Records :
                     (mark[r] >= since /\ Key(r) > cursor /\ Key(r) <= ItemKey(page[Len(page)]))
                        => \E i \in 1..Len(page) : page[i].id = r /\ page[i].mark = mark[r]
<1> DEFINE list == Listing(since)
           n == Len(list)
           page == Page(since, cursor)
           k == Len(page)
           from == Skipped(list, cursor)
           T == {i \in 1..n : Key(list[i]) <= cursor}
<1>1. /\ n \in Nat /\ DOMAIN list = 1..n /\ list \in [1..n -> Admitted(since)]
      /\ \A i, j \in 1..n : i < j => Before(list[i], list[j])
      /\ \A r \in Admitted(since) : \E i \in 1..n : list[i] = r
  BY Listings
<1>2. \A i \in 1..n : list[i] \in Records /\ Key(list[i]) \in Nat \ {0}
  BY <1>1, KeyTypes DEF Admitted
<1>3. \A i, j \in 1..n : i < j => Key(list[i]) < Key(list[j])
  BY <1>1, <1>2 DEF Resumable, Before
<1>4. /\ from \in Nat /\ k \in Nat
      /\ \A i \in 1..k : /\ from + i \in 1..n /\ page[i].id = list[from + i]
                         /\ page[i].id \in Records /\ page[i].mark = mark[page[i].id]
  BY PagePlaces, PageTypes, SkippedTypes
<1>5. \A i \in 1..k : ItemKey(page[i]) = Key(list[from + i])
  BY <1>4 DEF ItemKey, Key
<1>6. cursor # 0 => from = Cardinality(T)
  BY <1>1, SkippedTypes DEF Resumable, Positional
<1>7. cursor = 0 => from = 0
  BY SkippedTypes
<1> HIDE DEF list, n, page, from, k
<1>8. ASSUME NEW i \in 1..n, Key(list[i]) > cursor PROVE i > from
  <2>1. CASE cursor = 0
    BY <1>1, <1>7, <2>1
  <2>2. CASE cursor # 0
    <3>1. \A p \in T : \A j \in 1..p : j \in T
      <4> SUFFICES ASSUME NEW p \in T, NEW j \in 1..p PROVE j \in T
        OBVIOUS
      <4>1. p \in 1..n /\ j \in 1..n /\ Key(list[p]) <= cursor
        BY <1>1
      <4>2. j = p \/ Key(list[j]) < Key(list[p])
        BY <1>3, <4>1
      <4>3. Key(list[j]) \in Nat /\ Key(list[p]) \in Nat
        BY <1>2, <4>1
      <4> QED BY <4>1, <4>2, <4>3
    <3>2. T = 1..Cardinality(T) /\ Cardinality(T) \in 0..n
      BY <1>1, <3>1, Initial
    <3>3. i \notin T
      BY <1>2, <1>8
    <3> HIDE DEF T
    <3> QED BY <1>1, <1>6, <2>2, <3>2, <3>3
  <2> QED BY <2>1, <2>2
<1>9. \A i, j \in 1..k : i < j => ItemKey(page[i]) < ItemKey(page[j])
  <2> SUFFICES ASSUME NEW i \in 1..k, NEW j \in 1..k, i < j PROVE ItemKey(page[i]) < ItemKey(page[j])
    OBVIOUS
  <2>1. from + i \in 1..n /\ from + j \in 1..n /\ from + i < from + j
    BY <1>1, <1>4
  <2> QED BY <1>3, <1>5, <2>1
<1>10. ASSUME page # <<>>, NEW r \in Records,
              mark[r] >= since, Key(r) > cursor, Key(r) <= ItemKey(page[k])
       PROVE  \E i \in 1..k : page[i].id = r /\ page[i].mark = mark[r]
  <2>1. PICK p \in 1..n : list[p] = r
    BY <1>1, <1>10 DEF Admitted
  <2>2. p > from
    BY <1>8, <1>10, <2>1
  <2>3. k \in 1..k /\ from + k \in 1..n /\ Key(list[from + k]) >= Key(list[p])
    <3>1. k # 0
      BY <1>10, PageTypes DEF page, k
    <3> QED BY <1>4, <1>5, <1>10, <2>1, <3>1
  <2>4. p <= from + k
    BY <1>1, <1>2, <1>3, <2>3
  <2>5. p - from \in 1..k /\ from + (p - from) = p
    BY <1>1, <1>4, <2>2, <2>4
  <2> QED BY <1>4, <2>1, <2>5
<1> QED BY <1>9, <1>10 DEF page, k

-----------------------------------------------------------------------------
(* What is written, seen from the marks m and the versions s ever held:      *)
(* everything below a mark W, everything up to a key K.                      *)

Below(W, m, s) == \A r \in Records : m[r] < W => s[r] = m[r]
Upto(K, m, s) == \A r \in Records : m[r] * Width + r <= K => s[r] = m[r]

\* Bounds a provider has given: what changes later is above them.
KnownMark(W, m) == W = 0 \/ \E r \in Records : W <= m[r]
KnownKey(K, m) == K = 0 \/ \E r \in Records : K < m[r] * Width + Width

\* Up to a page's last key, what is not written is still in the queue.
Coming(queue, m, s) ==
    \A r \in Records : m[r] * Width + r <= ItemKey(queue[Len(queue)]) =>
        \/ s[r] = m[r]
        \/ \E i \in 1..Len(queue) : queue[i].id = r /\ queue[i].mark = m[r]

Reliable(c, m, s) ==
    /\ KnownMark(c.watermark, m) /\ Below(c.watermark, m, s)
    /\ KnownKey(c.cursor, m) /\ Upto(c.cursor, m, s)

Sound(k, stage, m, s) ==
    /\ stage \in {"request", "saveBase", "save"} => ~k.failed
    /\ KnownMark(k.watermark, m) /\ KnownKey(k.cursor, m) /\ KnownKey(k.next, m)
    /\ \A i, j \in 1..Len(k.queue) : i < j => ItemKey(k.queue[i]) < ItemKey(k.queue[j])
    /\ k.queue # <<>> => k.next = 0 \/ k.next = ItemKey(k.queue[Len(k.queue)])
    /\ ~k.failed =>
          /\ Below(k.watermark, m, s) /\ Upto(k.cursor, m, s)
          /\ k.queue = <<>> => Upto(k.next, m, s)
          /\ k.queue # <<>> => Coming(k.queue, m, s)

Covered ==
    Resumable => /\ Reliable(ckpt, mark, seen)
                 /\ \A u \in Runs : Sound(run[u], pc[u], mark, seen)

\* What a step leaves written: everything that was, but for a record that
\* changes, and that is then above all the others.
Holds(m, s, m2, s2) ==
    /\ \A r \in Records : m[r] \in Nat /\ m2[r] \in Nat /\ m[r] <= m2[r]
    /\ \A r \in Records :
          \/ m2[r] = m[r] /\ (s[r] = m[r] => s2[r] = m2[r])
          \/ \A t \in Records : m[t] < m2[r]

LEMMA HoldsBounds ==
    ASSUME NEW m, NEW s, NEW m2, NEW s2, Holds(m, s, m2, s2)
    PROVE  /\ \A W \in Nat : KnownMark(W, m) =>
                 KnownMark(W, m2) /\ (Below(W, m, s) => Below(W, m2, s2))
           /\ \A K \in Nat : KnownKey(K, m) =>
                 KnownKey(K, m2) /\ (Upto(K, m, s) => Upto(K, m2, s2))
<1>1. /\ \A r \in Records : m[r] \in Nat /\ m2[r] \in Nat /\ m[r] <= m2[r]
      /\ \A r \in Records :
          \/ m2[r] = m[r] /\ (s[r] = m[r] => s2[r] = m2[r])
          \/ \A t \in Records : m[t] < m2[r]
  BY DEF Holds
<1>2. ASSUME NEW W \in Nat, KnownMark(W, m) PROVE KnownMark(W, m2)
  BY <1>1, <1>2 DEF KnownMark
<1>3. ASSUME NEW W \in Nat, KnownMark(W, m), Below(W, m, s) PROVE Below(W, m2, s2)
  BY <1>1, <1>3 DEF KnownMark, Below
<1>4. ASSUME NEW K \in Nat, KnownKey(K, m) PROVE KnownKey(K, m2)
  <2>1. CASE K = 0
    BY <2>1 DEF KnownKey
  <2>2. ASSUME NEW r \in Records, K < m[r] * Width + Width PROVE KnownKey(K, m2)
    <3>1. m[r] = m2[r] \/ m[r] * Width + Width <= m2[r] * Width
      BY <1>1, Lexical
    <3>2. m[r] * Width \in Nat /\ m2[r] * Width \in Nat /\ Width \in Nat
      BY <1>1, Lexical, Numbers
    <3>3. K < m2[r] * Width + Width
      BY <2>2, <3>1, <3>2
    <3> QED BY <3>3 DEF KnownKey
  <2> QED BY <1>4, <2>1, <2>2 DEF KnownKey
<1>5. ASSUME NEW K \in Nat, KnownKey(K, m), Upto(K, m, s) PROVE Upto(K, m2, s2)
  <2> SUFFICES ASSUME NEW r \in Records, m2[r] * Width + r <= K PROVE s2[r] = m2[r]
    BY DEF Upto
  <2>0. m2[r] * Width \in Nat /\ r \in Nat \ {0} /\ Width \in Nat \ {0}
    BY <1>1, Lexical, Numbers
  <2>1. K # 0
    BY <2>0
  <2>2. PICK t \in Records : K < m[t] * Width + Width
    BY <1>5, <2>1 DEF KnownKey
  <2>3. ~(m[t] < m2[r])
    <3>1. m[t] * Width \in Nat /\ (m[t] < m2[r] => m[t] * Width + Width <= m2[r] * Width)
      BY <1>1, Lexical
    <3> QED BY <2>0, <2>2, <3>1
  <2>4. m2[r] = m[r] /\ (s[r] = m[r] => s2[r] = m2[r])
    BY <1>1, <2>3
  <2> QED BY <1>5, <2>4 DEF Upto
<1> QED BY <1>2, <1>3, <1>4, <1>5

\* An item that is served is below what changes later.
LEMMA ServedKeys ==
    ASSUME NEW item \in Items, NEW m, m[item.id] \in Nat, item.mark <= m[item.id]
    PROVE  /\ ItemKey(item) \in Nat \ {0} /\ item.mark \in Nat /\ item.id \in Records
           /\ KnownKey(ItemKey(item), m) /\ KnownMark(item.mark, m)
<1>1. item.id \in Records /\ item.mark \in Nat
  BY Numbers DEF Items
<1>2. item.mark * Width \in Nat /\ m[item.id] * Width \in Nat
      /\ item.mark * Width <= m[item.id] * Width
  <2>1. item.mark = m[item.id] \/ item.mark < m[item.id]
    BY <1>1
  <2> QED BY <1>1, <2>1, Lexical, Numbers
<1>3. item.id \in Nat \ {0} /\ item.id < Width /\ Width \in Nat
  BY <1>1, Numbers
<1>4. ItemKey(item) \in Nat \ {0} /\ ItemKey(item) < m[item.id] * Width + Width
  BY <1>2, <1>3 DEF ItemKey
<1> QED BY <1>1, <1>4 DEF KnownKey, KnownMark

LEMMA HoldsSound ==
    ASSUME NEW m, NEW s, NEW m2, NEW s2, Holds(m, s, m2, s2),
           NEW k \in Progress, NEW stage, Sound(k, stage, m, s),
           \A i \in 1..Len(k.queue) : k.queue[i].mark <= m[k.queue[i].id]
    PROVE  Sound(k, stage, m2, s2)
<1> DEFINE queue == k.queue
           last == queue[Len(queue)]
<1>1. k.watermark \in Nat /\ k.cursor \in Nat /\ k.next \in Nat /\ queue \in Seq(Items)
  BY Numbers DEF Progress
<1>2. ASSUME queue # <<>>, Coming(queue, m, s) PROVE Coming(queue, m2, s2)
  <2>1. last \in Items /\ last.mark <= m[last.id]
    BY <1>1, <1>2
  <2>2. last.id \in Records
    BY <2>1 DEF Items
  <2>3. m[last.id] \in Nat
    BY <2>2 DEF Holds
  <2>4. ItemKey(last) \in Nat \ {0} /\ KnownKey(ItemKey(last), m)
    BY <2>1, <2>3, ServedKeys
  <2>5. PICK t \in Records : ItemKey(last) < m[t] * Width + Width
    BY <2>4 DEF KnownKey
  <2> HIDE DEF last
  <2> SUFFICES ASSUME NEW r \in Records, m2[r] * Width + r <= ItemKey(last)
               PROVE  s2[r] = m2[r] \/ \E i \in 1..Len(queue) : queue[i].id = r /\ queue[i].mark = m2[r]
    BY DEF Coming, last
  <2>6. m[t] \in Nat /\ m2[r] \in Nat
    BY DEF Holds
  <2>7. ~(m[t] < m2[r])
    <3>1. m2[r] * Width \in Nat /\ r \in Nat \ {0} /\ Width \in Nat \ {0}
      BY <2>6, Lexical, Numbers
    <3>2. m[t] * Width \in Nat /\ (m[t] < m2[r] => m[t] * Width + Width <= m2[r] * Width)
      BY <2>6, Lexical
    <3> QED BY <2>4, <2>5, <3>1, <3>2
  <2>8. m2[r] = m[r] /\ (s[r] = m[r] => s2[r] = m2[r])
    BY <2>7 DEF Holds
  <2> QED BY <1>2, <2>8 DEF Coming, last
<1> HIDE DEF queue
<1> QED BY <1>1, <1>2, HoldsBounds DEF Sound, queue

LEMMA Nothing ==
    ASSUME NEW m, NEW s, \A r \in Records : m[r] \in Nat
    PROVE  /\ KnownMark(0, m) /\ KnownKey(0, m) /\ Below(0, m, s) /\ Upto(0, m, s)
           /\ Reliable(NoCheckpoint, m, s) /\ \A stage : Sound(NoRun, stage, m, s)
<1>1. ASSUME NEW r \in Records PROVE ~(m[r] < 0) /\ ~(m[r] * Width + r <= 0)
  BY Lexical, Numbers
<1>2. KnownMark(0, m) /\ KnownKey(0, m) /\ Below(0, m, s) /\ Upto(0, m, s)
  BY <1>1 DEF KnownMark, KnownKey, Below, Upto
<1>3. NoCheckpoint.watermark = 0 /\ NoCheckpoint.cursor = 0
  BY DEF NoCheckpoint
<1>4. \A i, j \in 1..Len(NoRun.queue) : i < j => ItemKey(NoRun.queue[i]) < ItemKey(NoRun.queue[j])
  BY IdleTypes
<1> QED BY <1>2, <1>3, <1>4, IdleTypes DEF Reliable, Sound

LEMMA MovesSound ==
    ASSUME Inv, Covered, Resumable, NEW u \in Runs, NEW stage, NEW k,
           Moves(u, stage, k), Sound(k, stage, mark, seen'), setting' = setting, mark' = mark,
           Holds(mark, seen, mark, seen'), Reliable(ckpt', mark, seen')
    PROVE  Covered'
<1>1. ASSUME NEW v \in Runs PROVE Sound(run'[v], pc'[v], mark, seen')
  <2>1. CASE v = u
    BY <2>1 DEF Moves, Inv
  <2>2. CASE v # u
    <3> DEFINE old == [run[v] EXCEPT !.base = "old"]
    <3>1. pc'[v] = pc[v] /\ (run'[v] = run[v] \/ run'[v] = old)
      BY <2>2 DEF Moves, Unmoved
    <3>2. Sound(run[v], pc[v], mark, seen')
      <4>1. /\ run[v] \in Progress /\ Sound(run[v], pc[v], mark, seen)
            /\ \A i \in 1..Len(run[v].queue) : run[v].queue[i].mark <= mark[run[v].queue[i].id]
        BY RunTypes DEF Covered, Fits
      <4> QED BY <4>1, HoldsSound
    <3>3. /\ old.watermark = run[v].watermark /\ old.cursor = run[v].cursor
          /\ old.next = run[v].next /\ old.queue = run[v].queue /\ old.failed = run[v].failed
      BY RunTypes DEF Progress
    <3> HIDE DEF old
    <3>4. Sound(old, pc[v], mark, seen')
      BY <3>2, <3>3 DEF Sound
    <3> QED BY <3>1, <3>2, <3>4
  <2> QED BY <2>1, <2>2
<1>2. \A v \in Runs : Sound(run[v], pc[v], mark, seen)' = Sound(run'[v], pc'[v], mark, seen')
  BY DEF Sound, Below, Upto, KnownMark, KnownKey, Coming, ItemKey, Width
<1>3. Reliable(ckpt, mark, seen)' = Reliable(ckpt', mark, seen')
  BY DEF Reliable, Below, Upto, KnownMark, KnownKey, Width
<1> QED BY <1>1, <1>2, <1>3 DEF Covered

LEMMA StillHolds ==
    ASSUME Inv, UNCHANGED <<mark, seen>> PROVE Holds(mark, seen, mark, seen')
<1>1. \A r \in Records : mark[r] \in Nat
  BY KeyTypes DEF Inv
<1> QED BY <1>1 DEF Holds

LEMMA HeldReliable ==
    ASSUME Inv, Covered, Resumable, Holds(mark, seen, mark, seen')
    PROVE  Reliable(ckpt, mark, seen')
<1>1. ckpt.watermark \in Nat /\ ckpt.cursor \in Nat
  BY Numbers DEF Inv, Files
<1> QED BY <1>1, HoldsBounds DEF Covered, Reliable

LEMMA CoveredStarts ==
    ASSUME Inv, Covered, Resumable, UNCHANGED <<setting, mark>>, NEW u \in Runs, Started(u)
    PROVE  Covered'
<1>1. PICK c \in {ckpt, NoCheckpoint} : \E limit \in setting.limits :
         Moves(u, "request", Begun(limit, c))
  BY DEF Started
<1>2. PICK limit \in setting.limits : Moves(u, "request", Begun(limit, c))
  BY <1>1
<1> DEFINE k == Begun(limit, c)
<1>3. limit \in Nat \ {0}
  BY SettingTypes DEF Inv
<1>4. c \in [stored : BOOLEAN, cursor : Nat, watermark : 0..MaxMark]
  <2>1. ckpt \in [stored : BOOLEAN, cursor : Nat, watermark : 0..MaxMark]
    BY DEF Inv, Files
  <2>2. NoCheckpoint \in [stored : BOOLEAN, cursor : Nat, watermark : 0..MaxMark]
    BY Numbers DEF NoCheckpoint
  <2> QED BY <2>1, <2>2
<1>5. /\ k.cursor = c.cursor /\ k.watermark = c.watermark
      /\ k.queue = <<>> /\ ~k.failed /\ k.next = 0
  BY <1>3, <1>4, BegunTypes
<1> HIDE DEF k
<1>6. \A r \in Records : mark[r] \in Nat
  BY KeyTypes DEF Inv
<1>7. Reliable(c, mark, seen)
  BY <1>6, Nothing DEF Covered
<1>8. Sound(k, "request", mark, seen)
  BY <1>5, <1>6, <1>7, Nothing DEF Sound, Reliable
<1>9. Moves(u, "request", k) /\ UNCHANGED <<seen, ckpt>>
  BY <1>2 DEF k, Started, FilesSame
<1>10. Sound(k, "request", mark, seen') /\ Reliable(ckpt', mark, seen')
  BY <1>8, <1>9 DEF Covered
<1> QED BY <1>9, <1>10, StillHolds, MovesSound

LEMMA CoveredEnds ==
    ASSUME Inv, Covered, Resumable, UNCHANGED <<setting, mark>>, NEW u \in Runs,
           Moves(u, "idle", NoRun), Holds(mark, seen, mark, seen'), Reliable(ckpt', mark, seen')
    PROVE  Covered'
<1>1. \A r \in Records : mark[r] \in Nat
  BY KeyTypes DEF Inv
<1>2. Sound(NoRun, "idle", mark, seen')
  BY <1>1, Nothing
<1> QED BY <1>2, MovesSound

LEMMA CoveredPages ==
    ASSUME Inv, Covered, Resumable, UNCHANGED <<setting, mark>>, NEW u \in Runs, Paged(u)
    PROVE  Covered'
<1> DEFINE page == Page(run[u].since, run[u].cursor)
           next == NextCursor(u, page)
           k == Answered(u, page, next)
           stage == IF page = <<>> THEN "saveBase" ELSE "base"
<1>1. /\ Provided /\ run[u].cursor \in Nat /\ run[u].since \in Nat /\ run[u].watermark \in Nat
      /\ run[u].since <= run[u].watermark /\ run[u].queue = <<>> /\ pc[u] = "request"
      /\ \A r \in Records : mark[r] \in Nat
  BY RunTypes, KeyTypes DEF Inv, Fits, Paged
<1>2. /\ page \in Seq(Items) /\ Len(page) \in Nat
      /\ \A i \in 1..Len(page) : page[i].id \in Records /\ page[i].mark = mark[page[i].id]
  BY <1>1, PageTypes
<1>3. /\ \A i, j \in 1..Len(page) : i < j => ItemKey(page[i]) < ItemKey(page[j])
      /\ page # <<>> => \A r \in Records :
            (mark[r] >= run[u].since /\ Key(r) > run[u].cursor /\ Key(r) <= ItemKey(page[Len(page)]))
               => \E i \in 1..Len(page) : page[i].id = r /\ page[i].mark = mark[r]
  BY <1>1, PageCovers
<1>4. /\ next \in Nat
      /\ next # 0 => page # <<>> /\ next = ItemKey(page[Len(page)])
  BY NextCursors DEF Resumable
<1>5. Moves(u, stage, k) /\ UNCHANGED <<seen, ckpt>>
  BY DEF Paged, FilesSame
<1> HIDE DEF page, next
<1>6. /\ k \in Progress /\ k.cursor = run[u].cursor /\ k.watermark = run[u].watermark
      /\ k.queue = page /\ k.failed = run[u].failed /\ k.next = next
  BY <1>2, <1>4, AnsweredTypes
<1> HIDE DEF k
<1>7. Sound(run[u], "request", mark, seen)
  BY <1>1 DEF Covered
<1>8. ~run[u].failed /\ Below(run[u].watermark, mark, seen) /\ Upto(run[u].cursor, mark, seen)
  BY <1>7 DEF Sound
<1>9. ASSUME page # <<>> PROVE Coming(page, mark, seen)
  <2> SUFFICES ASSUME NEW r \in Records, mark[r] * Width + r <= ItemKey(page[Len(page)])
               PROVE  seen[r] = mark[r] \/ \E i \in 1..Len(page) : page[i].id = r /\ page[i].mark = mark[r]
    BY DEF Coming
  <2>1. Key(r) = mark[r] * Width + r /\ Key(r) \in Nat
    BY <1>1, KeyTypes DEF Key
  <2>2. CASE mark[r] < run[u].since
    BY <1>1, <1>8, <2>2 DEF Below
  <2>3. CASE Key(r) <= run[u].cursor
    BY <1>8, <2>1, <2>3 DEF Upto
  <2>4. CASE mark[r] >= run[u].since /\ Key(r) > run[u].cursor
    BY <1>3, <1>9, <2>1, <2>4
  <2> QED BY <1>1, <2>1, <2>2, <2>3, <2>4
<1>10. KnownKey(next, mark)
  <2>1. CASE next = 0
    BY <2>1 DEF KnownKey
  <2>2. CASE next # 0
    <3>1. Len(page) \in 1..Len(page)
      BY <1>2, <1>4, <2>2
    <3>2. page[Len(page)] \in Items /\ page[Len(page)].mark = mark[page[Len(page)].id]
          /\ page[Len(page)].id \in Records
      BY <1>2, <3>1
    <3> QED BY <1>1, <1>4, <2>2, <3>2, ServedKeys
  <2> QED BY <2>1, <2>2
<1>11. Sound(k, stage, mark, seen)
  <2>1. page = <<>> => Upto(next, mark, seen)
    BY <1>1, <1>4, Nothing
  <2> QED BY <1>3, <1>4, <1>6, <1>7, <1>8, <1>9, <1>10, <2>1 DEF Sound
<1>12. Sound(k, stage, mark, seen') /\ Reliable(ckpt', mark, seen')
  BY <1>5, <1>11 DEF Covered
<1> HIDE DEF stage
<1> QED BY <1>5, <1>12, StillHolds, MovesSound

LEMMA CoveredPrepares ==
    ASSUME Inv, Covered, Resumable, UNCHANGED <<setting, mark>>, NEW u \in Runs, Prepared(u)
    PROVE  Covered'
<1>1. PICK base \in {"zero", "current"} :
        \/ pc[u] = "base" /\ Moves(u, "write", Based(u, base))
        \/ pc[u] = "saveBase" /\ Moves(u, "save", Based(u, base))
  BY DEF Prepared
<1> DEFINE k == Based(u, base)
<1>2. /\ k.watermark = run[u].watermark /\ k.cursor = run[u].cursor
      /\ k.next = run[u].next /\ k.queue = run[u].queue /\ k.failed = run[u].failed
  BY BasedTypes
<1> HIDE DEF k
<1>3. UNCHANGED <<seen, ckpt>> /\ Sound(run[u], pc[u], mark, seen)
  BY DEF Prepared, FilesSame, Covered
<1>4. /\ pc[u] = "base" => Sound(k, "write", mark, seen')
      /\ pc[u] = "saveBase" => Sound(k, "save", mark, seen')
  BY <1>2, <1>3 DEF Sound
<1>5. \/ pc[u] = "base" /\ Moves(u, "write", k)
      \/ pc[u] = "saveBase" /\ Moves(u, "save", k)
  BY <1>1 DEF k
<1>6. Reliable(ckpt', mark, seen')
  BY <1>3 DEF Covered
<1> QED BY <1>3, <1>4, <1>5, <1>6, StillHolds, MovesSound

\* The head of the queue is done with: either it failed, or it is written and
\* the watermark is its mark.
LEMMA CoveredDone ==
    ASSUME Inv, Covered, Resumable, UNCHANGED <<setting, mark, ckpt>>, NEW u \in Runs,
           pc[u] = "write", NEW failed \in BOOLEAN, NEW watermark \in 0..MaxMark,
           Done(u, failed, watermark), Holds(mark, seen, mark, seen'),
           KnownMark(watermark, mark),
           ~failed => /\ ~run[u].failed /\ Below(watermark, mark, seen')
                      /\ LET item == Head(run[u].queue)
                         IN  item.mark = mark[item.id] => seen'[item.id] = mark[item.id]
    PROVE  Covered'
<1> DEFINE queue == run[u].queue
           rest == Tail(queue)
           k == Rest(u, failed, watermark)
           stage == IF rest = <<>> THEN "saveBase" ELSE "base"
<1>1. Reliable(ckpt', mark, seen')
  BY HeldReliable
<1>2. CASE Moves(u, "idle", NoRun)
  BY <1>1, <1>2, CoveredEnds
<1>3. CASE ~(rest = <<>> /\ failed) /\ Moves(u, stage, k)
  <2>1. /\ queue \in Seq(Items) /\ queue # <<>> /\ Len(queue) \in Nat \ {0} /\ rest \in Seq(Items)
        /\ Head(queue) = queue[1] /\ Len(rest) = Len(queue) - 1
        /\ \A i \in 1..Len(rest) : rest[i] = queue[i + 1] /\ i + 1 \in 1..Len(queue)
    BY AtHand, RunTypes
  <2>2. Sound(run[u], "write", mark, seen')
    <3>1. /\ run[u] \in Progress /\ Sound(run[u], "write", mark, seen)
          /\ \A i \in 1..Len(run[u].queue) : run[u].queue[i].mark <= mark[run[u].queue[i].id]
      BY RunTypes DEF Covered, Fits
    <3> QED BY <3>1, HoldsSound
  <2>3. /\ k.cursor = run[u].cursor /\ k.watermark = watermark
        /\ k.queue = rest /\ k.failed = failed /\ k.next = run[u].next
    BY <2>1, RestTypes
  <2>4. Moves(u, stage, k)
    BY <1>3
  <2> HIDE DEF k
  <2>5. /\ \A i, j \in 1..Len(rest) : i < j => ItemKey(rest[i]) < ItemKey(rest[j])
        /\ rest # <<>> => rest[Len(rest)] = queue[Len(queue)]
        /\ rest = <<>> => Len(queue) = 1
    <3>1. \A i, j \in 1..Len(queue) : i < j => ItemKey(queue[i]) < ItemKey(queue[j])
      BY <2>2 DEF Sound
    <3> HIDE DEF queue, rest
    <3>2. rest # <<>> => Len(rest) \in 1..Len(rest) /\ Len(rest) + 1 = Len(queue)
      BY <2>1
    <3>3. rest = <<>> => Len(queue) = 1
      BY <2>1
    <3>4. ASSUME NEW i \in 1..Len(rest), NEW j \in 1..Len(rest), i < j
          PROVE  ItemKey(rest[i]) < ItemKey(rest[j])
      <4>1. i + 1 \in 1..Len(queue) /\ j + 1 \in 1..Len(queue) /\ i + 1 < j + 1
        BY <2>1, <3>4
      <4> QED BY <2>1, <3>1, <4>1
    <3> QED BY <2>1, <3>2, <3>3, <3>4
  <2>6. ASSUME ~failed, NEW r \in Records,
               mark[r] * Width + r <= ItemKey(queue[Len(queue)])
        PROVE  seen'[r] = mark[r] \/ \E i \in 1..Len(rest) : rest[i].id = r /\ rest[i].mark = mark[r]
    <3>1. seen'[r] = mark[r] \/ \E i \in 1..Len(queue) : queue[i].id = r /\ queue[i].mark = mark[r]
      BY <2>1, <2>2, <2>6 DEF Sound, Coming
    <3>2. ASSUME NEW i \in 1..Len(queue), queue[i].id = r, queue[i].mark = mark[r], i # 1
          PROVE  \E j \in 1..Len(rest) : rest[j].id = r /\ rest[j].mark = mark[r]
      <4>1. i - 1 \in 1..Len(rest) /\ (i - 1) + 1 = i
        BY <2>1, <3>2
      <4>2. rest[i - 1] = queue[i]
        BY <2>1, <4>1
      <4> QED BY <3>2, <4>1, <4>2
    <3>3. queue[1].id = r /\ queue[1].mark = mark[r] => seen'[r] = mark[r]
      BY <2>1, <2>6
    <3> QED BY <3>1, <3>2, <3>3
  <2>7. ~failed /\ rest # <<>> => Coming(rest, mark, seen')
    BY <2>5, <2>6 DEF Coming
  <2>8. ASSUME ~failed, rest = <<>> PROVE Upto(run[u].next, mark, seen')
    <3>1. CASE run[u].next = 0
      <4>1. \A r \in Records : mark[r] \in Nat
        BY KeyTypes DEF Inv
      <4> QED BY <3>1, <4>1, Nothing
    <3>2. CASE run[u].next = ItemKey(queue[Len(queue)])
      <4> HIDE DEF queue, rest
      <4>0. Len(rest) = 0
        BY <2>1, <2>5, <2>8
      <4>1. \A i \in 1..Len(rest) : FALSE
        BY <4>0
      <4> QED BY <2>6, <2>8, <3>2, <4>1 DEF Upto
    <3> QED BY <2>1, <2>2, <3>1, <3>2 DEF Sound
  <2>9. Sound(k, stage, mark, seen')
    <3>1. stage \in {"request", "saveBase", "save"} => ~failed
      BY <1>3
    <3>2. run[u].next = 0 \/ run[u].next = ItemKey(queue[Len(queue)])
      BY <2>1, <2>2 DEF Sound
    <3>3. /\ KnownKey(run[u].cursor, mark) /\ KnownKey(run[u].next, mark)
          /\ ~failed => Upto(run[u].cursor, mark, seen')
      BY <2>2 DEF Sound
    <3> HIDE DEF stage, queue, rest
    <3> QED BY <2>3, <2>5, <2>7, <2>8, <3>1, <3>2, <3>3 DEF Sound
  <2> HIDE DEF stage
  <2> QED BY <1>1, <2>4, <2>9, MovesSound
<1> QED BY <1>2, <1>3 DEF Done

LEMMA CoveredWrites ==
    ASSUME Inv, Covered, Resumable, UNCHANGED <<setting, mark>>, NEW u \in Runs,
           Written(u) \/ Refused(u)
    PROVE  Covered'
<1> DEFINE item == Head(run[u].queue)
           W == run[u].watermark
           high == Advance(W, item.mark)
<1>1. pc[u] = "write" /\ UNCHANGED ckpt
  BY DEF Written, Refused, FilesSame
<1>2. item \in Items /\ item.mark <= mark[item.id] /\ run[u].queue # <<>>
      /\ item = run[u].queue[1] /\ Len(run[u].queue) \in Nat \ {0}
  BY <1>1, AtHand
<1>3. item.id \in Records /\ item.mark \in 1..MaxMark /\ W \in 0..MaxMark /\ MaxMark \in Nat
      /\ \A r \in Records : mark[r] \in Nat /\ seen[r] \in Nat /\ seen[r] <= mark[r]
  <2>1. MaxMark \in Nat /\ W \in 0..MaxMark
    BY RunTypes, Numbers
  <2>2. \A r \in Records : mark[r] \in Nat /\ seen[r] \in Nat /\ seen[r] <= mark[r]
    BY <2>1, KeyTypes DEF Inv, Files
  <2>3. item.id \in Records /\ item.mark \in 1..MaxMark
    BY <1>2 DEF Items
  <2> QED BY <2>1, <2>2, <2>3
<1>4. Sound(run[u], "write", mark, seen) /\ run[u].failed \in BOOLEAN
  BY <1>1, RunTypes DEF Covered
<1>5. CASE Refused(u)
  <2>1. UNCHANGED seen /\ Done(u, TRUE, W)
    BY <1>5 DEF Refused, FilesSame
  <2>2. KnownMark(W, mark)
    BY <1>4 DEF Sound
  <2> HIDE DEF W
  <2> QED BY <1>1, <1>3, <2>1, <2>2, StillHolds, CoveredDone
<1>6. CASE Written(u)
  <2>1. Put(item) /\ (Done(u, run[u].failed, high) \/ Done(u, TRUE, W))
    BY <1>6 DEF Written
  <2>2. \A r \in Records : seen'[r] = IF r = item.id /\ item.mark > seen[r] THEN item.mark ELSE seen[r]
    BY <1>1, <1>2, <2>1, PutTypes
  <2>3. KnownMark(W, mark) /\ KnownMark(item.mark, mark)
    BY <1>2, <1>3, <1>4, ServedKeys DEF Sound
  <2>4. run[u].failed \/ (Below(W, mark, seen) /\ Coming(run[u].queue, mark, seen))
    BY <1>2, <1>4 DEF Sound
  <2>5. \A i, j \in 1..Len(run[u].queue) : i < j => ItemKey(run[u].queue[i]) < ItemKey(run[u].queue[j])
    BY <1>4 DEF Sound
  <2>6. \A i \in 1..Len(run[u].queue) : ItemKey(run[u].queue[i]) \in Nat
    <3> SUFFICES ASSUME NEW i \in 1..Len(run[u].queue) PROVE ItemKey(run[u].queue[i]) \in Nat
      OBVIOUS
    <3>1. run[u].queue[i] \in Items
      BY RunTypes
    <3>2. run[u].queue[i].mark \in Nat /\ run[u].queue[i].id \in Records
      BY <3>1, Numbers DEF Items
    <3> QED BY <3>2, Keys DEF ItemKey
  <2> HIDE DEF item, W
  <2>7. high \in 0..MaxMark /\ KnownMark(high, mark) /\ (high = W \/ high = item.mark)
    BY <1>3, <2>3 DEF Advance
  <2>8. Holds(mark, seen, mark, seen')
    BY <1>2, <1>3, <2>2 DEF Holds
  <2>9. item.mark = mark[item.id] => seen'[item.id] = mark[item.id]
    BY <1>3, <2>2
  <2>10. ASSUME ~run[u].failed PROVE Below(high, mark, seen')
    <3> SUFFICES ASSUME NEW r \in Records, mark[r] < high PROVE seen'[r] = mark[r]
      BY DEF Below
    <3>1. seen[r] = mark[r] => seen'[r] = mark[r]
      BY <1>2, <1>3, <2>2
    <3>2. CASE mark[r] < W
      BY <2>4, <2>10, <3>1, <3>2 DEF Below
    <3>3. CASE mark[r] < item.mark
      <4> DEFINE n == Len(run[u].queue)
      <4>1. mark[r] * Width + r < ItemKey(item) /\ mark[r] * Width + r \in Nat
        BY <1>3, <3>3, Keys DEF ItemKey
      <4>2. ItemKey(item) <= ItemKey(run[u].queue[n]) /\ n \in 1..n /\ 1 \in 1..n
        BY <1>2, <2>5, <2>6
      <4>3. mark[r] * Width + r <= ItemKey(run[u].queue[n])
        BY <4>1, <4>2, <2>6, <1>2
      <4>4. ASSUME NEW i \in 1..n, run[u].queue[i].id = r, run[u].queue[i].mark = mark[r] PROVE FALSE
        <5>1. ItemKey(run[u].queue[i]) = mark[r] * Width + r
          BY <4>4 DEF ItemKey
        <5>2. i = 1 \/ ItemKey(item) < ItemKey(run[u].queue[i])
          BY <1>2, <2>5
        <5> QED BY <1>2, <2>6, <4>1, <4>2, <5>1, <5>2
      <4>5. Coming(run[u].queue, mark, seen)
        BY <2>4, <2>10
      <4> HIDE DEF n
      <4> QED BY <3>1, <4>3, <4>4, <4>5 DEF Coming, n
    <3> QED BY <2>7, <3>2, <3>3
  <2> HIDE DEF high
  <2>11. CASE Done(u, run[u].failed, high)
    BY <1>1, <1>4, <2>7, <2>8, <2>9, <2>10, <2>11, CoveredDone DEF item
  <2>12. CASE Done(u, TRUE, W)
    BY <1>1, <1>3, <2>3, <2>8, <2>12, CoveredDone DEF item
  <2> QED BY <2>1, <2>11, <2>12
<1> QED BY <1>5, <1>6

LEMMA CoveredSaves ==
    ASSUME Inv, Covered, Resumable, UNCHANGED <<setting, mark>>, NEW u \in Runs, Saved(u)
    PROVE  Covered'
<1>1. pc[u] = "save" /\ ckpt' = CheckpointOf(u) /\ UNCHANGED seen
  BY DEF Saved
<1>2. run[u].queue = <<>> /\ Sound(run[u], "save", mark, seen)
  BY <1>1, RunTypes DEF Fits, Covered
<1>3. ~run[u].failed /\ Below(run[u].watermark, mark, seen) /\ Upto(run[u].next, mark, seen)
      /\ KnownMark(run[u].watermark, mark) /\ KnownKey(run[u].next, mark)
  BY <1>2 DEF Sound
<1>4. Reliable(ckpt', mark, seen')
  BY <1>1, <1>3 DEF Reliable, CheckpointOf
<1>5. CASE Moves(u, "idle", NoRun)
  BY <1>1, <1>4, <1>5, StillHolds, CoveredEnds
<1>6. CASE Moves(u, "request", Turned(u))
  <2> DEFINE k == Turned(u)
  <2>1. /\ k.cursor = run[u].next /\ k.watermark = run[u].watermark
        /\ k.queue = run[u].queue /\ k.failed = run[u].failed /\ k.next = 0
    BY TurnedTypes
  <2>2. Moves(u, "request", k)
    BY <1>6
  <2> HIDE DEF k
  <2>3. KnownKey(0, mark) /\ Upto(0, mark, seen)
    BY Nothing, KeyTypes DEF Inv
  <2>4. \A i, j \in 1..Len(k.queue) : i < j => ItemKey(k.queue[i]) < ItemKey(k.queue[j])
    BY <1>2, <2>1
  <2>5. Sound(k, "request", mark, seen')
    BY <1>1, <1>2, <1>3, <2>1, <2>3, <2>4 DEF Sound
  <2> QED BY <1>1, <1>4, <2>2, <2>5, StillHolds, MovesSound
<1> QED BY <1>5, <1>6 DEF Saved

LEMMA CoveredTouched ==
    ASSUME Inv, Covered, NEW r \in Records, Touch(r)
    PROVE  Covered'
<1>1. /\ UNCHANGED <<setting, ws, seen, ckpt, pc, run>>
      /\ \A s \in Records : mark[s] <= mark'[s] /\ mark'[s] \in Nat
      /\ \A s \in Records : s # r => mark'[s] = mark[s]
      /\ \A s \in Records : mark[s] < mark'[r]
  BY InvTouched
<1>2. Holds(mark, seen, mark', seen)
  <2>1. \A s \in Records : mark[s] \in Nat
    BY KeyTypes DEF Inv
  <2> QED BY <1>1, <2>1 DEF Holds
<1>3. Resumable' = Resumable
  BY <1>1 DEF Resumable, Positional
<1>4. CASE Resumable
  <2>1. ASSUME NEW u \in Runs PROVE Sound(run[u], pc[u], mark', seen)
    <3>1. /\ run[u] \in Progress /\ Sound(run[u], pc[u], mark, seen)
          /\ \A i \in 1..Len(run[u].queue) : run[u].queue[i].mark <= mark[run[u].queue[i].id]
      BY <1>4, RunTypes DEF Covered, Fits
    <3> QED BY <1>2, <3>1, HoldsSound
  <2>2. ckpt.watermark \in Nat /\ ckpt.cursor \in Nat
    BY Numbers DEF Inv, Files
  <2>3. Reliable(ckpt, mark', seen)
    BY <1>2, <1>4, <2>2, HoldsBounds DEF Covered, Reliable
  <2>4. \A u \in Runs : Sound(run[u], pc[u], mark, seen)' = Sound(run[u], pc[u], mark', seen)
    BY <1>1 DEF Sound, Below, Upto, KnownMark, KnownKey, Coming, ItemKey, Width
  <2>5. Reliable(ckpt, mark, seen)' = Reliable(ckpt, mark', seen)
    BY <1>1 DEF Reliable, Below, Upto, KnownMark, KnownKey, Width
  <2> QED BY <2>1, <2>3, <2>4, <2>5 DEF Covered
<1> QED BY <1>3, <1>4 DEF Covered

LEMMA CoveredNext == Inv /\ Covered /\ [Next]_vars => Covered'
<1> SUFFICES ASSUME Inv, Covered, [Next]_vars PROVE Covered'
  OBVIOUS
<1>1. CASE UNCHANGED vars
  BY <1>1 DEF vars, Covered, Resumable, Positional, Reliable, Sound, Below, Upto, KnownMark,
              KnownKey, Coming
<1>2. CASE \E r \in Records : Touch(r)
  BY <1>2, CoveredTouched
<1>3. ASSUME UNCHANGED <<setting, mark>>, NEW u \in Runs, Stepped(u) PROVE Covered'
  <2>1. CASE ~Resumable
    BY <1>3, <2>1 DEF Covered, Resumable, Positional
  <2>2. CASE Resumable /\ Ended(u)
    <3>1. Moves(u, "idle", NoRun) /\ UNCHANGED <<seen, ckpt>>
      BY <2>2 DEF Ended, FilesSame
    <3>2. Reliable(ckpt', mark, seen')
      BY <2>2, <3>1 DEF Covered
    <3> QED BY <1>3, <2>2, <3>1, <3>2, StillHolds, CoveredEnds
  <2> QED BY <1>3, <2>1, <2>2, CoveredStarts, CoveredPages, CoveredPrepares, CoveredWrites,
             CoveredSaves DEF Stepped
<1> QED BY <1>1, <1>2, <1>3, Steps

LEMMA CoveredAlways == Spec => []Covered
<1>1. Init => Covered
  <2> SUFFICES ASSUME Init PROVE Covered
    OBVIOUS
  <2>1. Inv
    BY InvHolds
  <2>2. \A r \in Records : mark[r] \in Nat
    BY <2>1, KeyTypes DEF Inv
  <2>3. ckpt = NoCheckpoint /\ \A u \in Runs : run[u] = NoRun
    BY DEF Init
  <2> QED BY <2>2, <2>3, Nothing DEF Covered
<1> QED BY <1>1, CoveredNext, InvAlways, PTL DEF Spec

(* The promise of the stored watermark, where runs overlap, for any number   *)
(* of them and whatever fails: all versions below it were written            *)
(* (SchemaAdapter.sync stores it after a page in which nothing failed).      *)
THEOREM WatermarkCoversWritten == Spec => []CheckpointCoversWritten
<1>1. Covered => CheckpointCoversWritten
  BY DEF Covered, Reliable, Below, CheckpointCoversWritten
<1> QED BY <1>1, CoveredAlways, PTL

-----------------------------------------------------------------------------
(* Runs one after another.                                                   *)

\* Only callers run.
Calling == \A u \in Runs : u \notin setting.callers => pc[u] = "idle"

\* What is to be written is not older than what was.
Fresh(queue, s) ==
    /\ \A i, j \in 1..Len(queue) : i # j => queue[i].id # queue[j].id
    /\ \A i \in 1..Len(queue) : s[queue[i].id] <= queue[i].mark

Unmixed == Alone => ws = seen /\ \A u \in Runs : Fresh(run[u].queue, seen)

LEMMA CallingNext ==
    ASSUME Inv, Calling, UNCHANGED <<setting, mark>>, NEW u \in Runs, Stepped(u)
    PROVE  u \in setting.callers /\ Calling'
<1>1. pc[u] # "idle" \/ u \in setting.callers
  BY DEF Stepped, Started, Ended, Paged, Prepared, Written, Refused, Saved
<1>2. \E stage, k : Moves(u, stage, k)
  <2>1. CASE Started(u)
    BY <2>1 DEF Started
  <2>2. CASE Ended(u)
    BY <2>2 DEF Ended
  <2>3. CASE Paged(u)
    BY <2>3, Zenon DEF Paged
  <2>4. CASE Prepared(u)
    BY <2>4 DEF Prepared
  <2>5. CASE Written(u) \/ Refused(u)
    <3>1. \E failed, watermark : Done(u, failed, watermark)
      BY <2>5 DEF Written, Refused
    <3> QED BY <3>1, Zenon DEF Done
  <2>6. CASE Saved(u)
    BY <2>6 DEF Saved
  <2> QED BY <2>1, <2>2, <2>3, <2>4, <2>5, <2>6 DEF Stepped
<1>3. \A v \in Runs : v # u => pc'[v] = pc[v]
  BY <1>2 DEF Moves, Unmoved
<1> QED BY <1>1, <1>3 DEF Calling

LEMMA Sole ==
    ASSUME Inv, Calling, Alone, NEW u \in setting.callers, NEW v \in Runs, v # u
    PROVE  pc[v] = "idle" /\ run[v] = NoRun
<1>1. setting.callers \subseteq Runs /\ IsFiniteSet(Runs)
  BY SyncAssumption, SettingTypes DEF Inv
<1>2. IsFiniteSet(setting.callers)
  BY <1>1, FS_Subset
<1>3. \E x : setting.callers = {x}
  BY <1>2, FS_Singleton, Zenon DEF Alone
<1>4. v \notin setting.callers
  BY <1>3
<1> QED BY <1>4, RunTypes DEF Calling, Fits

LEMMA OthersRest ==
    ASSUME Inv, Calling, Alone, NEW u \in setting.callers, u \in Runs, NEW stage, NEW k, Moves(u, stage, k)
    PROVE  run'[u] = k /\ pc'[u] = stage /\ \A v \in Runs \ {u} : run'[v] = NoRun /\ pc'[v] = "idle"
<1>1. \A v \in Runs \ {u} : run[v] = NoRun /\ pc[v] = "idle"
  BY Sole
<1> QED BY <1>1 DEF Moves, Unmoved, Inv

LEMMA IdleFresh == \A s : Fresh(NoRun.queue, s)
BY IdleTypes DEF Fresh

LEMMA DoneFresh ==
    ASSUME Inv, Calling, Alone, Unmixed, NEW u \in setting.callers, u \in Runs, pc[u] = "write",
           NEW failed \in BOOLEAN, NEW watermark \in 0..MaxMark, Done(u, failed, watermark),
           \A r \in Records : r # Head(run[u].queue).id => seen'[r] = seen[r]
    PROVE  \A v \in Runs : Fresh(run'[v].queue, seen')
<1> DEFINE queue == run[u].queue
           rest == Tail(queue)
<1>1. /\ queue \in Seq(Items) /\ queue # <<>> /\ Len(queue) \in Nat \ {0}
      /\ rest \in Seq(Items) /\ Head(queue) = queue[1] /\ Len(rest) = Len(queue) - 1
      /\ \A i \in 1..Len(rest) : rest[i] = queue[i + 1] /\ i + 1 \in 1..Len(queue)
  BY AtHand, RunTypes
<1>2. Fresh(queue, seen)
  BY DEF Unmixed
<1>3. run'[u] = NoRun \/ run'[u].queue = rest
  <2>1. CASE Moves(u, "idle", NoRun)
    BY <2>1, OthersRest
  <2>2. CASE ~Moves(u, "idle", NoRun)
    <3>1. run'[u] = Rest(u, failed, watermark)
      BY <2>2 DEF Done, Moves
    <3> QED BY <1>1, <3>1, RestTypes
  <2> QED BY <2>1, <2>2
<1>4. \A v \in Runs \ {u} : run'[v] = NoRun
  <2>1. CASE Moves(u, "idle", NoRun)
    BY <2>1, OthersRest
  <2>2. CASE Moves(u, IF rest = <<>> THEN "saveBase" ELSE "base", Rest(u, failed, watermark))
    BY <2>2, OthersRest
  <2> QED BY <2>1, <2>2 DEF Done
<1> HIDE DEF queue, rest
<1>5. Fresh(rest, seen')
  <2>1. \A i \in 1..Len(queue) : queue[i].id \in Records
    <3>1. \A i \in 1..Len(queue) : queue[i] \in Items
      BY <1>1
    <3> QED BY <3>1 DEF Items
  <2>2. ASSUME NEW i \in 1..Len(rest)
        PROVE  seen'[rest[i].id] <= rest[i].mark
    <3>1. i + 1 \in 1..Len(queue) /\ rest[i] = queue[i + 1] /\ i + 1 # 1 /\ 1 \in 1..Len(queue)
      BY <1>1
    <3>2. queue[i + 1].id # queue[1].id /\ queue[i + 1].id \in Records
          /\ seen[queue[i + 1].id] <= queue[i + 1].mark
      BY <1>2, <2>1, <3>1 DEF Fresh
    <3> QED BY <1>1, <3>1, <3>2 DEF queue
  <2>3. ASSUME NEW i \in 1..Len(rest), NEW j \in 1..Len(rest), i # j PROVE rest[i].id # rest[j].id
    <3>1. i + 1 \in 1..Len(queue) /\ j + 1 \in 1..Len(queue) /\ i + 1 # j + 1
          /\ rest[i] = queue[i + 1] /\ rest[j] = queue[j + 1]
      BY <1>1, <2>3
    <3> QED BY <1>2, <3>1 DEF Fresh
  <2> QED BY <2>2, <2>3 DEF Fresh
<1> QED BY <1>3, <1>4, <1>5, IdleFresh

LEMMA UnmixedNext ==
    ASSUME Inv, Calling, Unmixed, UNCHANGED <<setting, mark>>, NEW u \in Runs, Stepped(u)
    PROVE  Unmixed'
<1>0. u \in setting.callers
  BY CallingNext
<1> SUFFICES ASSUME Alone PROVE ws' = seen' /\ \A v \in Runs : Fresh(run'[v].queue, seen')
  <2>1. Alone' = Alone
    BY DEF Alone
  <2>2. \A v \in Runs : Fresh(run[v].queue, seen)' = Fresh(run'[v].queue, seen')
    BY DEF Fresh
  <2> QED BY <2>1, <2>2 DEF Unmixed
<1>1. ws = seen /\ \A v \in Runs : Fresh(run[v].queue, seen)
  BY DEF Unmixed
<1>2. ASSUME FilesSame, NEW stage, NEW k, Moves(u, stage, k), Fresh(k.queue, seen)
      PROVE  ws' = seen' /\ \A v \in Runs : Fresh(run'[v].queue, seen')
  <2>1. ws' = ws /\ seen' = seen
    BY <1>2 DEF FilesSame
  <2>2. run'[u] = k /\ \A v \in Runs \ {u} : run'[v] = NoRun
    BY <1>0, <1>2, OthersRest
  <2> QED BY <1>1, <1>2, <2>1, <2>2, IdleFresh
<1>3. CASE Started(u)
  <2>1. PICK c \in {ckpt, NoCheckpoint} : \E limit \in setting.limits :
           Moves(u, "request", Begun(limit, c))
    BY <1>3 DEF Started
  <2>2. PICK limit \in setting.limits : Moves(u, "request", Begun(limit, c))
    BY <2>1
  <2>3. Begun(limit, c).queue = <<>>
    BY DEF Begun, NoRun
  <2>4. Fresh(Begun(limit, c).queue, seen)
    BY <2>3, IdleFresh, IdleTypes
  <2> QED BY <1>2, <1>3, <2>2, <2>4 DEF Started
<1>4. CASE Ended(u)
  BY <1>2, <1>4, IdleFresh DEF Ended
<1>5. CASE Paged(u)
  <2> DEFINE page == Page(run[u].since, run[u].cursor)
             next == NextCursor(u, page)
             k == Answered(u, page, next)
             stage == IF page = <<>> THEN "saveBase" ELSE "base"
  <2>1. Provided /\ run[u].cursor \in Nat /\ \A r \in Records : seen[r] <= mark[r]
    BY RunTypes DEF Inv, Files
  <2>2. /\ page \in Seq(Items)
        /\ \A i \in 1..Len(page) : page[i].id \in Records /\ page[i].mark = mark[page[i].id]
        /\ \A i, j \in 1..Len(page) : i # j => page[i].id # page[j].id
    BY <2>1, PageTypes, PageDistinct
  <2>3. next \in Nat
    BY NextCursors
  <2>4. Moves(u, stage, k) /\ FilesSame
    BY <1>5 DEF Paged
  <2> HIDE DEF page, next, stage
  <2>5. k.queue = page
    BY <2>2, <2>3, AnsweredTypes
  <2>6. Fresh(page, seen)
    BY <2>1, <2>2 DEF Fresh
  <2> HIDE DEF k
  <2> QED BY <1>2, <2>4, <2>5, <2>6
<1>6. CASE Prepared(u)
  <2>1. PICK base \in {"zero", "current"}, stage \in Stages : Moves(u, stage, Based(u, base))
    BY <1>6 DEF Prepared, Stages
  <2>2. Based(u, base).queue = run[u].queue
    BY BasedTypes
  <2> QED BY <1>1, <1>2, <1>6, <2>1, <2>2 DEF Prepared
<1>7. CASE Refused(u)
  <2>1. pc[u] = "write" /\ FilesSame /\ Done(u, TRUE, run[u].watermark)
    BY <1>7 DEF Refused
  <2>2. run[u].watermark \in 0..MaxMark
    BY RunTypes
  <2> QED BY <1>0, <1>1, <2>1, <2>2, DoneFresh DEF FilesSame
<1>8. CASE Written(u)
  <2> DEFINE item == Head(run[u].queue)
             high == Advance(run[u].watermark, item.mark)
  <2>1. /\ pc[u] = "write" /\ Put(item) /\ UNCHANGED ckpt
        /\ Done(u, run[u].failed, high) \/ Done(u, TRUE, run[u].watermark)
    BY <1>8 DEF Written
  <2>2. item \in Items /\ item.mark <= mark[item.id] /\ item = run[u].queue[1]
        /\ 1 \in 1..Len(run[u].queue)
    BY <2>1, AtHand
  <2>3. /\ \A r \in Records : ws'[r] = IF r = item.id THEN item.mark ELSE ws[r]
        /\ \A r \in Records : seen'[r] =
              IF r = item.id /\ item.mark > seen[r] THEN item.mark ELSE seen[r]
        /\ ws' \in [Records -> 0..MaxMark] /\ seen' \in [Records -> 0..MaxMark]
    BY <2>1, <2>2, PutTypes
  <2>4. seen[item.id] <= item.mark /\ item.id \in Records /\ item.mark \in 1..MaxMark
        /\ seen[item.id] \in 0..MaxMark
    BY <1>1, <2>2 DEF Fresh, Items, Inv, Files
  <2>5. run[u].failed \in BOOLEAN /\ run[u].watermark \in 0..MaxMark /\ high \in 0..MaxMark
    BY <2>4, RunTypes, Numbers DEF Advance
  <2> HIDE DEF item, high
  <2>6. ws' = seen'
    <3>1. \A r \in Records : ws'[r] = seen'[r]
      BY <1>1, <2>3, <2>4, Numbers
    <3> QED BY <2>3, <3>1
  <2>7. \A r \in Records : r # Head(run[u].queue).id => seen'[r] = seen[r]
    BY <2>3 DEF item
  <2> QED BY <1>0, <2>1, <2>5, <2>6, <2>7, DoneFresh
<1>9. CASE Saved(u)
  <2>1. UNCHANGED <<ws, seen>>
    BY <1>9 DEF Saved
  <2>2. CASE Moves(u, "idle", NoRun)
    BY <1>0, <1>1, <2>1, <2>2, OthersRest, IdleFresh
  <2>3. CASE Moves(u, "request", Turned(u))
    <3>1. run'[u] = Turned(u) /\ \A v \in Runs \ {u} : run'[v] = NoRun
      BY <1>0, <2>3, OthersRest
    <3>2. Turned(u).queue = run[u].queue
      BY TurnedTypes
    <3> QED BY <1>1, <2>1, <3>1, <3>2, IdleFresh
  <2> QED BY <1>9, <2>2, <2>3 DEF Saved
<1> QED BY <1>3, <1>4, <1>5, <1>6, <1>7, <1>8, <1>9 DEF Stepped

LEMMA UnmixedAlways == Spec => [](Calling /\ Unmixed)
<1>1. Init => Calling /\ Unmixed
  BY IdleFresh DEF Init, Calling, Unmixed
<1>2. ASSUME Inv, Calling, Unmixed, [Next]_vars PROVE Calling' /\ Unmixed'
  <2>1. CASE UNCHANGED vars
    BY <1>2, <2>1 DEF vars, Calling, Unmixed, Alone, Fresh
  <2>2. CASE \E r \in Records : Touch(r)
    BY <1>2, <2>2 DEF Touch, Calling, Unmixed, Alone, Fresh
  <2>3. CASE UNCHANGED <<setting, mark>> /\ \E u \in Runs : Stepped(u)
    BY <1>2, <2>3, CallingNext, UnmixedNext
  <2> QED BY <1>2, <2>1, <2>2, <2>3, Steps
<1> QED BY <1>1, <1>2, InvAlways, PTL DEF Spec

(* The promise of the stored watermark, where runs follow one another: what  *)
(* lies below it is in the workspace, in its present version.                *)
THEOREM WatermarkIsCaughtUp == Spec => []CaughtUp
<1>1. Covered /\ Unmixed => CaughtUp
  BY DEF Covered, Reliable, Below, Unmixed, CaughtUp
<1> QED BY <1>1, CoveredAlways, UnmixedAlways, PTL

-----------------------------------------------------------------------------
(* While the provider does not change.                                       *)

Grown == \A r \in Records : FirstMarks[r] <= mark[r]

LEMMA SameListing ==
    ASSUME UNCHANGED <<setting, mark>>, NEW since PROVE Listing(since)' = Listing(since)
BY DEF Listing, Admitted, Place, Before, Key

LEMMA SameSkipped ==
    ASSUME UNCHANGED <<setting, mark>>, NEW list, NEW cursor
    PROVE  Skipped(list, cursor)' = Skipped(list, cursor)
BY Zenon DEF Skipped, Key

LEMMA SamePage ==
    ASSUME UNCHANGED <<setting, mark>>, NEW since, NEW cursor
    PROVE  Page(since, cursor)' = Page(since, cursor)
BY SameListing, SameSkipped DEF Page

LEMMA SameCursor ==
    ASSUME UNCHANGED <<setting, mark>>, NEW since, NEW cursor, NEW page
    PROVE  ServedCursor(since, cursor, page)' = ServedCursor(since, cursor, page)
BY SameListing, SameSkipped DEF ServedCursor, Key

LEMMA GrownNext ==
    ASSUME Inv, Grown, [Next]_vars
    PROVE  /\ Grown'
           /\ \/ UNCHANGED vars
              \/ mark' # FirstMarks
              \/ UNCHANGED <<setting, mark>> /\ \E u \in Runs : Stepped(u)
<1>1. ASSUME NEW r \in Records, Touch(r) PROVE Grown' /\ mark' # FirstMarks
  <2>1. \A s \in Records : FirstMarks[s] \in Nat /\ mark[s] \in Nat
    BY KeyTypes, Numbers, SyncAssumption DEF Inv
  <2>2. /\ \A s \in Records : mark[s] <= mark'[s] /\ mark'[s] \in Nat
        /\ \A s \in Records : mark[s] < mark'[r]
    BY <1>1, InvTouched
  <2>3. \A s \in Records : FirstMarks[s] <= mark'[s]
    BY <2>1, <2>2 DEF Grown
  <2>4. FirstMarks[r] < mark'[r]
    BY <2>1, <2>2 DEF Grown
  <2> QED BY <2>1, <2>3, <2>4 DEF Grown
<1>2. CASE UNCHANGED vars
  BY <1>2 DEF vars, Grown
<1>3. CASE UNCHANGED <<setting, mark>> /\ \E u \in Runs : Stepped(u)
  BY <1>3 DEF Grown
<1> QED BY <1>1, <1>2, <1>3, Steps

\* What a listing serves that ignores the position it is asked for.
FirstPage(since) == Page(since, 0)
FirstNext(since) == ServedCursor(since, 0, FirstPage(since))

\* A run at such a listing has read one page, or is about to notice.
Stalled(k, stage) ==
    /\ k.pages <= 1
    /\ setting.strategy = "cursor" =>
          /\ k.pages = 1 => k.cursor = FirstNext(k.since)
          /\ stage \notin {"idle", "request"} => k.next = FirstNext(k.since)
    /\ setting.strategy # "cursor" =>
          /\ k.pages = 1 => stage = "request"
          /\ (k.pages = 1 \/ (stage # "request" /\ k.next # 0)) =>
                FirstPage(k.since) # <<>> /\ FirstPage(k.since) \in k.pagesSeen

Noticed == setting.stuck /\ mark = FirstMarks => \A u \in Runs : Stalled(run[u], pc[u])

LEMMA StuckPage ==
    ASSUME Provided, setting.stuck, NEW since, NEW cursor \in Nat
    PROVE  /\ Page(since, cursor) = FirstPage(since)
           /\ ServedCursor(since, cursor, FirstPage(since)) = FirstNext(since)
<1>1. Skipped(Listing(since), cursor) = 0 /\ Skipped(Listing(since), 0) = 0
  BY SkippedTypes
<1>2. Page(since, cursor) = Page(since, 0)
  BY <1>1 DEF Page
<1>3. \A page : ServedCursor(since, cursor, page) = ServedCursor(since, 0, page)
  BY <1>1 DEF ServedCursor
<1> QED BY <1>2, <1>3 DEF FirstPage, FirstNext

LEMMA StalledSame ==
    ASSUME UNCHANGED <<setting, mark>>, NEW v \in Runs
    PROVE  Stalled(run[v], pc[v])' = Stalled(run'[v], pc'[v])
<1>1. \A since : FirstPage(since)' = FirstPage(since)
  BY SamePage DEF FirstPage
<1>2. \A since : FirstNext(since)' = FirstNext(since)
  BY <1>1, SameCursor DEF FirstNext
<1>3. (setting.strategy)' = setting.strategy
  OBVIOUS
<1> HIDE DEF FirstPage, FirstNext
<1> QED BY <1>1, <1>2, <1>3 DEF Stalled

LEMMA IdleStalled == Stalled(NoRun, "idle")
BY IdleTypes DEF Stalled

LEMMA MovesStalled ==
    ASSUME Inv, UNCHANGED <<setting, mark>>, Noticed, setting.stuck, mark = FirstMarks, NEW u \in Runs,
           NEW stage, NEW k, Moves(u, stage, k), Stalled(k, stage)
    PROVE  Noticed'
<1>1. ASSUME NEW v \in Runs PROVE Stalled(run'[v], pc'[v])
  <2>1. CASE v = u
    BY <2>1 DEF Moves, Inv
  <2>2. CASE v # u
    <3> DEFINE old == [run[v] EXCEPT !.base = "old"]
    <3>1. pc'[v] = pc[v] /\ (run'[v] = run[v] \/ run'[v] = old)
      BY <2>2 DEF Moves, Unmoved
    <3>2. /\ old.pages = run[v].pages /\ old.cursor = run[v].cursor /\ old.since = run[v].since
          /\ old.next = run[v].next /\ old.pagesSeen = run[v].pagesSeen
      BY RunTypes DEF Progress
    <3>3. Stalled(run[v], pc[v])
      BY DEF Noticed
    <3> HIDE DEF old
    <3>4. Stalled(old, pc[v])
      BY <3>2, <3>3 DEF Stalled
    <3> QED BY <3>1, <3>3, <3>4
  <2> QED BY <2>1, <2>2
<1> QED BY <1>1, StalledSame DEF Noticed

LEMMA NoticedNext ==
    ASSUME Inv, Noticed, setting.stuck, mark = FirstMarks, UNCHANGED <<setting, mark>>,
           NEW u \in Runs, Stepped(u)
    PROVE  Noticed'
<1>0. Stalled(run[u], pc[u]) /\ Provided
  BY DEF Noticed, Inv
<1>1. CASE Started(u)
  <2>1. PICK c \in {ckpt, NoCheckpoint} : \E limit \in setting.limits :
           Moves(u, "request", Begun(limit, c))
    BY <1>1 DEF Started
  <2>2. PICK limit \in setting.limits : Moves(u, "request", Begun(limit, c))
    BY <2>1
  <2>3. Begun(limit, c).pages = 0
    BY DEF Begun, NoRun
  <2>4. Stalled(Begun(limit, c), "request")
    BY <2>3 DEF Stalled
  <2> QED BY <2>2, <2>4, MovesStalled
<1>2. ASSUME Moves(u, "idle", NoRun) PROVE Noticed'
  BY <1>2, IdleStalled, MovesStalled
<1>3. CASE Paged(u)
  <2> DEFINE page == Page(run[u].since, run[u].cursor)
             next == NextCursor(u, page)
             k == Answered(u, page, next)
             stage == IF page = <<>> THEN "saveBase" ELSE "base"
  <2>1. run[u].cursor \in Nat /\ page \in Seq(Items) /\ Len(page) \in Nat
    BY RunTypes, PageTypes, <1>0
  <2>2. page = FirstPage(run[u].since)
    BY <1>0, <2>1, StuckPage
  <2>3. /\ pc[u] = "request" /\ ~RepeatedPage(u, page) /\ Moves(u, stage, k)
    BY <1>3 DEF Paged
  <2>4. /\ next \in Nat
        /\ setting.strategy = "cursor" => next = ServedCursor(run[u].since, run[u].cursor, page)
        /\ next # 0 => page # <<>>
    <3>1. /\ next \in Nat
          /\ ~Positional => /\ next = ServedCursor(run[u].since, run[u].cursor, page)
                            /\ next # 0 => page # <<>>
      BY NextCursors
    <3>2. /\ setting.strategy = "page" =>
                next = IF HasMore(page) THEN (IF run[u].cursor = 0 THEN 1 ELSE run[u].cursor) + 1 ELSE 0
          /\ setting.strategy = "offset" =>
                next = IF HasMore(page) THEN run[u].cursor + Len(page) ELSE 0
      BY NextCursors
    <3> HIDE DEF next
    <3>3. HasMore(page) => page # <<>>
      <4>1. HasMore(page) => Len(page) # 0
        BY <2>1, Numbers DEF HasMore
      <4> HIDE DEF page
      <4> QED BY <4>1
    <3>4. setting.strategy \in {"page", "offset"} /\ next # 0 => HasMore(page)
      BY <3>2
    <3> QED BY <3>1, <3>3, <3>4 DEF Positional
  <2>5. setting.strategy = "cursor" => next = FirstNext(run[u].since)
    BY <1>0, <2>1, <2>2, <2>4, StuckPage
  <2> HIDE DEF page, next, stage
  <2>6. /\ k.pages = run[u].pages /\ k.cursor = run[u].cursor /\ k.since = run[u].since
        /\ k.next = next /\ k.pagesSeen = run[u].pagesSeen \union {page}
    BY <2>1, <2>4, AnsweredTypes
  <2> HIDE DEF k
  <2>7. setting.strategy # "cursor" => run[u].pages # 1
    BY <1>0, <2>2, <2>3 DEF Stalled, RepeatedPage
  <2>8. Stalled(k, stage)
    BY <1>0, <2>2, <2>4, <2>5, <2>6, <2>7 DEF Stalled
  <2> QED BY <2>3, <2>8, MovesStalled
<1>4. CASE Prepared(u)
  <2>1. PICK base \in {"zero", "current"} :
          \/ pc[u] = "base" /\ Moves(u, "write", Based(u, base))
          \/ pc[u] = "saveBase" /\ Moves(u, "save", Based(u, base))
    BY <1>4 DEF Prepared
  <2> DEFINE k == Based(u, base)
  <2>2. /\ k.pages = run[u].pages /\ k.cursor = run[u].cursor /\ k.since = run[u].since
        /\ k.next = run[u].next /\ k.pagesSeen = run[u].pagesSeen
    BY BasedTypes
  <2>3. \/ pc[u] = "base" /\ Moves(u, "write", k)
        \/ pc[u] = "saveBase" /\ Moves(u, "save", k)
    BY <2>1
  <2> HIDE DEF k
  <2>4. pc[u] \in {"base", "saveBase"} => \A stage \in {"write", "save"} : Stalled(k, stage)
    BY <1>0, <2>2 DEF Stalled
  <2> QED BY <2>3, <2>4, MovesStalled
<1>5. ASSUME NEW failed \in BOOLEAN, NEW watermark \in 0..MaxMark, Done(u, failed, watermark),
             pc[u] = "write"
      PROVE  Noticed'
  <2>1. CASE Moves(u, "idle", NoRun)
    BY <1>2, <2>1
  <2>2. CASE Moves(u, IF Tail(run[u].queue) = <<>> THEN "saveBase" ELSE "base",
                   Rest(u, failed, watermark))
    <3> DEFINE k == Rest(u, failed, watermark)
    <3>1. run[u].queue # <<>>
      BY <1>5, AtHand
    <3>2. /\ k.pages = run[u].pages /\ k.cursor = run[u].cursor /\ k.since = run[u].since
          /\ k.next = run[u].next /\ k.pagesSeen = run[u].pagesSeen
      BY <3>1, RestTypes
    <3>3. \E stage \in {"saveBase", "base"} : Moves(u, stage, k)
      BY <2>2
    <3> HIDE DEF k
    <3>4. \A stage \in {"saveBase", "base"} : Stalled(k, stage)
      BY <1>0, <1>5, <3>2 DEF Stalled
    <3> QED BY <3>3, <3>4, MovesStalled
  <2> QED BY <1>5, <2>1, <2>2 DEF Done
<1>6. CASE Written(u) \/ Refused(u)
  <2>1. pc[u] = "write" /\ \E failed \in BOOLEAN, watermark \in 0..MaxMark : Done(u, failed, watermark)
    <3>1. pc[u] = "write" /\ run[u].failed \in BOOLEAN /\ run[u].watermark \in 0..MaxMark
      BY <1>6, RunTypes DEF Written, Refused
    <3>2. Head(run[u].queue) \in Items
      BY <3>1, AtHand
    <3>3. Head(run[u].queue).mark \in 1..MaxMark
      BY <3>2 DEF Items
    <3>4. Advance(run[u].watermark, Head(run[u].queue).mark) \in 0..MaxMark
      BY <3>1, <3>3, Numbers DEF Advance
    <3> QED BY <1>6, <3>1, <3>4 DEF Written, Refused
  <2> QED BY <1>5, <2>1
<1>7. CASE Saved(u)
  <2>1. CASE HasNext(u, run[u].next) /\ Moves(u, "request", Turned(u))
    <3> DEFINE k == Turned(u)
    <3>1. /\ k.pages = run[u].pages + 1 /\ k.cursor = run[u].next /\ k.since = run[u].since
          /\ k.next = 0 /\ k.pagesSeen = run[u].pagesSeen
      BY TurnedTypes
    <3>2. run[u].pages \in Nat /\ pc[u] = "save" /\ run[u].next # 0 /\ run[u].next # run[u].cursor
      BY <1>7, <2>1, RunTypes DEF HasNext, Saved
    <3>3. Moves(u, "request", k)
      BY <2>1
    <3> HIDE DEF k
    <3>4. run[u].pages = 0
      BY <1>0, <3>2 DEF Stalled
    <3>5. Stalled(k, "request")
      BY <1>0, <3>1, <3>2, <3>4 DEF Stalled
    <3> QED BY <3>3, <3>5, MovesStalled
  <2> QED BY <1>2, <1>7, <2>1 DEF Saved
<1> QED BY <1>1, <1>2, <1>3, <1>4, <1>6, <1>7 DEF Stepped, Ended

(* A listing that ignores the position it is asked for costs a run at most   *)
(* two pages, whatever its strategy, its order and options.maxPages          *)
(* (SchemaAdapter.sync compares the page, or the cursor, with the last one). *)
THEOREM StallIsNoticed == Spec => []StallStopsEarly
<1>1. Init => Grown /\ Noticed
  <2> SUFFICES ASSUME Init PROVE Grown /\ Noticed
    OBVIOUS
  <2>1. \A r \in Records : FirstMarks[r] \in Nat
    BY SyncAssumption, Numbers
  <2>2. mark = FirstMarks /\ \A u \in Runs : run[u] = NoRun /\ pc[u] = "idle"
    BY DEF Init
  <2> QED BY <2>1, <2>2, IdleStalled DEF Grown, Noticed
<1>2. ASSUME Inv, Grown, Noticed, [Next]_vars PROVE Grown' /\ Noticed'
  <2>1. Grown'
    BY <1>2, GrownNext
  <2>2. CASE UNCHANGED vars
    <3>1. UNCHANGED <<setting, mark>> /\ run' = run /\ pc' = pc
      BY <2>2 DEF vars
    <3>2. \A v \in Runs : Stalled(run[v], pc[v])' = Stalled(run[v], pc[v])
      BY <3>1, StalledSame
    <3> QED BY <1>2, <2>1, <3>1, <3>2 DEF Noticed
  <2>3. CASE mark' # FirstMarks
    BY <2>1, <2>3 DEF Noticed
  <2>4. ASSUME UNCHANGED <<setting, mark>>, NEW u \in Runs, Stepped(u) PROVE Noticed'
    <3>1. CASE setting.stuck /\ mark = FirstMarks
      BY <1>2, <2>4, <3>1, NoticedNext
    <3>2. CASE ~(setting.stuck /\ mark = FirstMarks)
      BY <2>4, <3>2 DEF Noticed
    <3> QED BY <3>1, <3>2
  <2> QED BY <1>2, <2>1, <2>2, <2>3, <2>4, GrownNext
<1>3. Noticed => StallStopsEarly
  BY DEF Noticed, Stalled, StallStopsEarly
<1> QED BY <1>1, <1>2, <1>3, InvAlways, PTL DEF Spec

-----------------------------------------------------------------------------
(* A pass from the first page to the end of the listing.                     *)

\* The next position skips only what the page has reached.
LEMMA NextSkips ==
    ASSUME Inv, NEW u \in Runs
    PROVE  LET list == Listing(run[u].since)
               page == Page(run[u].since, run[u].cursor)
               reached == Skipped(list, run[u].cursor) + Len(page)
               next == NextCursor(u, page)
           IN  /\ next = 0 /\ ~Unsized => reached >= Len(list)
               /\ next # 0 => Skipped(list, next) <= reached
<1> DEFINE since == run[u].since
           cursor == run[u].cursor
           list == Listing(since)
           n == Len(list)
           page == Page(since, cursor)
           from == Skipped(list, cursor)
           next == NextCursor(u, page)
<1>1. Provided /\ cursor \in Nat
  BY RunTypes DEF Inv
<1>2. /\ from \in Nat /\ Len(page) \in Nat /\ Len(page) <= PageSize /\ page \in Seq(Items)
      /\ Len(page) < PageSize => from + Len(page) >= n
  BY <1>1, Pages
<1>3. /\ n \in Nat /\ DOMAIN list = 1..n /\ list \in [1..n -> Admitted(since)]
      /\ \A i, j \in 1..n : i < j => Before(list[i], list[j])
  BY <1>1, Listings
<1>4. /\ next \in Nat
      /\ setting.strategy = "page" =>
            next = IF HasMore(page) THEN (IF cursor = 0 THEN 1 ELSE cursor) + 1 ELSE 0
      /\ setting.strategy = "offset" => next = IF HasMore(page) THEN cursor + Len(page) ELSE 0
      /\ ~Positional => /\ next # 0 => page # <<>> /\ next = ItemKey(page[Len(page)])
                        /\ next = 0 => from + Len(page) >= n
  BY NextCursors
<1>5. /\ PageSize \in Nat \ {0} /\ (HasMore(page) => Len(page) >= PageSize)
      /\ Positional /\ ~Unsized /\ ~HasMore(page) => Len(page) < PageSize
  BY <1>2, Numbers DEF HasMore, Unsized
<1>6. /\ setting.stuck \/ cursor = 0 => from = 0
      /\ ~setting.stuck /\ cursor # 0 /\ setting.strategy = "page" => from = (cursor - 1) * PageSize
      /\ ~setting.stuck /\ cursor # 0 /\ setting.strategy = "offset" => from = cursor
  BY <1>1, SkippedTypes
<1>7. /\ setting.stuck => Skipped(list, next) = 0
      /\ ~setting.stuck /\ next # 0 /\ setting.strategy = "page" =>
            Skipped(list, next) = (next - 1) * PageSize
      /\ ~setting.stuck /\ next # 0 /\ setting.strategy = "offset" => Skipped(list, next) = next
      /\ ~setting.stuck /\ next # 0 /\ ~Positional =>
            Skipped(list, next) = Cardinality({i \in DOMAIN list :
                IF setting.order = "ascending" THEN Key(list[i]) <= next ELSE Key(list[i]) >= next})
  BY <1>1, <1>4, SkippedTypes
<1>8. \A i \in 1..n : list[i] \in Records /\ Key(list[i]) \in Nat
  BY <1>1, <1>3, KeyTypes DEF Admitted
<1>9. \A i \in 1..Len(page) : /\ from + i \in 1..n /\ page[i].id = list[from + i]
                              /\ page[i].mark = mark[page[i].id]
  BY <1>1, PagePlaces, PageTypes
<1> HIDE DEF since, cursor, list, n, page, from, next
<1>10. ASSUME setting.strategy = "page"
       PROVE  (next = 0 /\ ~Unsized => from + Len(page) >= n) /\ (next # 0 => Skipped(list, next) <= from + Len(page))
  <2>1. ASSUME HasMore(page), ~setting.stuck PROVE (next - 1) * PageSize <= from + Len(page)
    <3>1. Len(page) = PageSize
      BY <1>2, <1>5, <2>1
    <3>2. CASE cursor = 0
      <4>1. next = 2 /\ (2 - 1) * PageSize = PageSize
        BY <1>4, <1>5, <1>10, <2>1, <3>2
      <4> QED BY <1>2, <1>5, <3>1, <4>1
    <3>3. CASE cursor # 0
      <4>1. next = cursor + 1 /\ from = (cursor - 1) * PageSize
        BY <1>4, <1>6, <1>10, <2>1, <3>3
      <4>2. (next - 1) * PageSize = (cursor - 1) * PageSize + PageSize
        BY <1>1, <1>5, <4>1
      <4> QED BY <1>2, <1>5, <3>1, <4>1, <4>2
    <3> QED BY <3>2, <3>3
  <2>2. next = 0 <=> ~HasMore(page)
    BY <1>1, <1>2, <1>4, <1>5, <1>10
  <2>3. ~HasMore(page) /\ ~Unsized => from + Len(page) >= n
    BY <1>2, <1>5, <1>10 DEF Positional
  <2>4. next # 0 => Skipped(list, next) <= from + Len(page)
    BY <1>2, <1>7, <1>10, <2>1, <2>2
  <2> QED BY <2>2, <2>3, <2>4
<1>11. ASSUME setting.strategy = "offset"
       PROVE  (next = 0 /\ ~Unsized => from + Len(page) >= n) /\ (next # 0 => Skipped(list, next) <= from + Len(page))
  <2>1. ASSUME HasMore(page), ~setting.stuck PROVE next <= from + Len(page)
    BY <1>1, <1>2, <1>4, <1>6, <1>11, <2>1
  <2>2. next = 0 <=> ~HasMore(page)
    BY <1>1, <1>2, <1>4, <1>5, <1>11
  <2>3. ~HasMore(page) /\ ~Unsized => from + Len(page) >= n
    BY <1>2, <1>5, <1>11 DEF Positional
  <2>4. next # 0 => Skipped(list, next) <= from + Len(page)
    BY <1>2, <1>7, <1>11, <2>1, <2>2
  <2> QED BY <2>2, <2>3, <2>4
<1>12. ASSUME ~Positional
       PROVE  (next = 0 /\ ~Unsized => from + Len(page) >= n) /\ (next # 0 => Skipped(list, next) <= from + Len(page))
  <2>1. ASSUME next # 0, ~setting.stuck PROVE Skipped(list, next) <= from + Len(page)
    <3> DEFINE p == from + Len(page)
               T == {i \in DOMAIN list :
                       IF setting.order = "ascending" THEN Key(list[i]) <= next ELSE Key(list[i]) >= next}
    <3>1. page # <<>> /\ next = ItemKey(page[Len(page)]) /\ Len(page) \in 1..Len(page)
      BY <1>2, <1>4, <1>12, <2>1
    <3>2. p \in 1..n /\ next = Key(list[p])
      BY <1>9, <3>1 DEF ItemKey, Key
    <3> HIDE DEF p
    <3>3. T \subseteq 1..p
      <4> SUFFICES ASSUME NEW i \in 1..n, i \in T, ~(i <= p) PROVE FALSE
        BY <1>3, <3>2
      <4>1. Before(list[p], list[i])
        BY <1>3, <3>2
      <4>2. Key(list[i]) \in Nat /\ Key(list[p]) \in Nat
        BY <1>8, <3>2
      <4> QED BY <3>2, <4>1, <4>2 DEF Before
    <3>4. IsFiniteSet(1..p) /\ Cardinality(1..p) = p
      BY <3>2, FS_Interval
    <3>5. Skipped(list, next) = Cardinality(T)
      BY <1>7, <1>12, <2>1
    <3> HIDE DEF T
    <3>6. Cardinality(T) <= p
      BY <3>3, <3>4, FS_Subset
    <3> QED BY <3>5, <3>6 DEF p
  <2> QED BY <1>2, <1>4, <1>7, <1>12, <2>1
<1>13. setting.strategy = "page" \/ setting.strategy = "offset" \/ ~Positional
  BY DEF Positional
<1>14. /\ next = 0 /\ ~Unsized => from + Len(page) >= n
       /\ next # 0 => Skipped(list, next) <= from + Len(page)
  BY <1>10, <1>11, <1>12, <1>13
<1> QED BY <1>14 DEF since, cursor, list, n, page, from, next

\* How far into its listing a run has come, and what of that is still to write.
Reached(k, stage) ==
    Skipped(Listing(k.since), k.cursor) +
        (IF stage = "request" THEN 0 ELSE Len(Page(k.since, k.cursor)))

LEMMA ReachedTypes ==
    ASSUME Provided, NEW k, k.cursor \in Nat, NEW stage PROVE Reached(k, stage) \in Nat
<1>1. Skipped(Listing(k.since), k.cursor) \in Nat
  BY SkippedTypes
<1>2. Len(Page(k.since, k.cursor)) \in Nat
  BY PageTypes
<1> QED BY <1>1, <1>2 DEF Reached

Passing(k, stage) == stage # "idle" /\ k.start = 0 /\ ~k.failed

Passed(k, stage, w) ==
    LET list == Listing(k.since)
    IN  /\ \A i \in 1..Len(list) : i <= Reached(k, stage) =>
              w[list[i]] = mark[list[i]] \/ \E j \in 1..Len(k.queue) : k.queue[j].id = list[i]
        /\ \A j \in 1..Len(k.queue) : k.queue[j].mark = mark[k.queue[j].id]
        /\ stage # "request" =>
              /\ k.next = 0 /\ ~Unsized => Reached(k, stage) >= Len(list)
              /\ k.next # 0 => Skipped(list, k.next) <= Reached(k, stage)

Unfailed == \A u \in Runs : pc[u] \in {"request", "saveBase", "save"} => ~run[u].failed

Passes ==
    Alone /\ mark = FirstMarks =>
        \A u \in Runs : Passing(run[u], pc[u]) => Passed(run[u], pc[u], ws)

LEMMA PassedSame ==
    ASSUME UNCHANGED <<setting, mark>>, NEW v \in Runs
    PROVE  /\ Passing(run[v], pc[v])' <=> Passing(run'[v], pc'[v])
           /\ Passed(run[v], pc[v], ws)' <=> Passed(run'[v], pc'[v], ws')
<1>1. \A k, stage : Reached(k, stage)' = Reached(k, stage)
  BY SameListing, SameSkipped, SamePage DEF Reached
<1>2. \A since : Listing(since)' = Listing(since)
  BY SameListing
<1>3. \A list, cursor : Skipped(list, cursor)' = Skipped(list, cursor)
  BY SameSkipped
<1>4. Unsized' <=> Unsized
  BY DEF Unsized, Positional
<1> QED BY <1>1, <1>2, <1>3, <1>4 DEF Passing, Passed

LEMMA MovesPasses ==
    ASSUME Inv, Calling, UNCHANGED <<setting, mark>>, Passes, Unfailed, NEW u \in Runs,
           u \in setting.callers, NEW stage, NEW k, Moves(u, stage, k),
           stage \in {"request", "saveBase", "save"} => ~k.failed,
           Alone /\ mark = FirstMarks /\ Passing(k, stage) => Passed(k, stage, ws')
    PROVE  Passes' /\ Unfailed'
<1>1. Unfailed'
  <2>1. ASSUME NEW v \in Runs, pc'[v] \in {"request", "saveBase", "save"} PROVE ~run'[v].failed
    <3>1. CASE v = u
      BY <2>1, <3>1 DEF Moves, Inv
    <3>2. CASE v # u
      <4>1. pc'[v] = pc[v] /\ (run'[v] = run[v] \/ run'[v] = [run[v] EXCEPT !.base = "old"])
        BY <3>2 DEF Moves, Unmoved
      <4>2. [run[v] EXCEPT !.base = "old"].failed = run[v].failed
        BY RunTypes DEF Progress
      <4> QED BY <2>1, <4>1, <4>2 DEF Unfailed
    <3> QED BY <3>1, <3>2
  <2> QED BY <2>1 DEF Unfailed
<1>2. ASSUME Alone, mark = FirstMarks, NEW v \in Runs, Passing(run'[v], pc'[v])
      PROVE  Passed(run'[v], pc'[v], ws')
  <2>1. run'[u] = k /\ pc'[u] = stage /\ \A x \in Runs \ {u} : pc'[x] = "idle"
    BY <1>2, OthersRest
  <2>2. v = u
    BY <1>2, <2>1 DEF Passing
  <2> QED BY <1>2, <2>1, <2>2
<1>3. Alone' <=> Alone
  BY DEF Alone
<1> QED BY <1>1, <1>2, <1>3, PassedSame DEF Passes

LEMMA PassesDone ==
    ASSUME Inv, Calling, UNCHANGED <<setting, mark>>, Passes, Unfailed, NEW u \in Runs,
           u \in setting.callers, pc[u] = "write",
           NEW failed \in BOOLEAN, NEW watermark \in 0..MaxMark, Done(u, failed, watermark),
           ~failed => /\ ~run[u].failed
                      /\ LET item == Head(run[u].queue)
                         IN  \A r \in Records : ws'[r] = IF r = item.id THEN item.mark ELSE ws[r]
    PROVE  Passes' /\ Unfailed'
<1> DEFINE queue == run[u].queue
           rest == Tail(queue)
           k == Rest(u, failed, watermark)
           stage == IF rest = <<>> THEN "saveBase" ELSE "base"
<1>1. CASE Moves(u, "idle", NoRun)
  BY <1>1, IdleTypes, MovesPasses DEF Passing
<1>2. CASE ~(rest = <<>> /\ failed) /\ Moves(u, stage, k)
  <2>1. /\ queue # <<>> /\ queue \in Seq(Items) /\ Len(queue) \in Nat \ {0} /\ Head(queue) = queue[1]
        /\ Len(rest) = Len(queue) - 1
        /\ \A i \in 1..Len(rest) : rest[i] = queue[i + 1] /\ i + 1 \in 1..Len(queue)
    BY AtHand, RunTypes
  <2>2. /\ k.start = run[u].start /\ k.cursor = run[u].cursor /\ k.since = run[u].since
        /\ k.queue = rest /\ k.failed = failed /\ k.next = run[u].next
    BY <2>1, RestTypes
  <2>3. Moves(u, stage, k) /\ (stage \in {"request", "saveBase", "save"} => ~failed)
        /\ stage \in {"saveBase", "base"}
    BY <1>2
  <2> HIDE DEF k, stage
  <2>4. ASSUME Alone, mark = FirstMarks, Passing(k, stage) PROVE Passed(k, stage, ws')
    <3> DEFINE list == Listing(run[u].since)
    <3>1. ~failed /\ ~run[u].failed /\ Passed(run[u], "write", ws)
      BY <2>2, <2>4 DEF Passes, Passing
    <3>2. Reached(k, stage) = Reached(run[u], "write")
      BY <2>2, <2>3 DEF Reached
    <3>3. \A r \in Records : ws'[r] = IF r = queue[1].id THEN queue[1].mark ELSE ws[r]
      BY <2>1, <3>1
    <3>4. /\ \A i \in 1..Len(list) : i <= Reached(run[u], "write") =>
                ws[list[i]] = mark[list[i]] \/ \E j \in 1..Len(queue) : queue[j].id = list[i]
          /\ \A j \in 1..Len(queue) : queue[j].mark = mark[queue[j].id]
          /\ run[u].next = 0 /\ ~Unsized => Reached(run[u], "write") >= Len(list)
          /\ run[u].next # 0 => Skipped(list, run[u].next) <= Reached(run[u], "write")
      BY <3>1 DEF Passed
    <3>5. \A i \in 1..Len(list) : list[i] \in Records
      BY Listings DEF Admitted, Inv
    <3> HIDE DEF list, queue, rest
    <3>6. ASSUME NEW i \in 1..Len(list), i <= Reached(run[u], "write")
          PROVE  ws'[list[i]] = mark[list[i]] \/ \E j \in 1..Len(rest) : rest[j].id = list[i]
      <4>1. CASE list[i] = queue[1].id
        BY <2>1, <3>3, <3>4, <3>5, <4>1
      <4>2. CASE list[i] # queue[1].id /\ ws[list[i]] = mark[list[i]]
        BY <3>3, <3>5, <4>2
      <4>3. ASSUME list[i] # queue[1].id, NEW j \in 1..Len(queue), queue[j].id = list[i]
            PROVE  \E x \in 1..Len(rest) : rest[x].id = list[i]
        <5>1. j # 1 /\ j - 1 \in 1..Len(rest) /\ (j - 1) + 1 = j
          BY <2>1, <4>3
        <5>2. rest[j - 1] = queue[j]
          BY <2>1, <5>1
        <5> QED BY <4>3, <5>1, <5>2
      <4> QED BY <3>4, <3>6, <4>1, <4>2, <4>3
    <3>7. \A j \in 1..Len(rest) : rest[j].mark = mark[rest[j].id]
      BY <2>1, <3>4
    <3> QED BY <2>2, <3>2, <3>4, <3>6, <3>7 DEF Passed, list
  <2> QED BY <2>2, <2>3, <2>4, MovesPasses
<1> QED BY <1>1, <1>2 DEF Done

LEMMA PassesPages ==
    ASSUME Inv, Calling, UNCHANGED <<setting, mark>>, Passes, Unfailed, NEW u \in Runs,
           u \in setting.callers, Paged(u)
    PROVE  Passes' /\ Unfailed'
<1> DEFINE since == run[u].since
           cursor == run[u].cursor
           list == Listing(since)
           page == Page(since, cursor)
           from == Skipped(list, cursor)
           next == NextCursor(u, page)
           k == Answered(u, page, next)
           stage == IF page = <<>> THEN "saveBase" ELSE "base"
<1>1. Provided /\ cursor \in Nat /\ pc[u] = "request" /\ run[u].queue = <<>>
  BY RunTypes DEF Inv, Paged, Fits
<1>2. /\ page \in Seq(Items) /\ Len(page) \in Nat /\ from \in Nat
      /\ \A i \in 1..Len(page) : page[i].id = list[from + i] /\ page[i].mark = mark[page[i].id]
  BY <1>1, PageTypes, PagePlaces, SkippedTypes
<1>3. /\ next = 0 /\ ~Unsized => from + Len(page) >= Len(list)
      /\ next # 0 => Skipped(list, next) <= from + Len(page)
  BY NextSkips
<1>4. next \in Nat /\ Len(list) \in Nat
  BY <1>1, NextCursors, Listings
<1>5. Moves(u, stage, k) /\ UNCHANGED ws /\ stage \in {"saveBase", "base"}
  BY DEF Paged, FilesSame
<1> HIDE DEF next
<1>6. /\ k.start = run[u].start /\ k.cursor = cursor /\ k.since = since
      /\ k.queue = page /\ k.failed = run[u].failed /\ k.next = next
  BY <1>2, <1>4, AnsweredTypes
<1>7. ~run[u].failed
  BY <1>1 DEF Unfailed
<1> HIDE DEF k, stage
<1>8. ASSUME Alone, mark = FirstMarks, Passing(k, stage) PROVE Passed(k, stage, ws')
  <2>1. Passed(run[u], "request", ws)
    BY <1>1, <1>6, <1>7, <1>8 DEF Passes, Passing
  <2>2. Reached(k, stage) = from + Len(page) /\ Reached(run[u], "request") = from
    BY <1>2, <1>5, <1>6 DEF Reached
  <2>3. \A i \in 1..Len(list) : i <= from => ws[list[i]] = mark[list[i]]
    BY <1>1, <2>1, <2>2 DEF Passed
  <2> HIDE DEF list, page, from
  <2>4. ASSUME NEW i \in 1..Len(list), i <= from + Len(page)
        PROVE  ws[list[i]] = mark[list[i]] \/ \E j \in 1..Len(page) : page[j].id = list[i]
    <3>1. CASE i <= from
      BY <2>3, <3>1
    <3>2. CASE ~(i <= from)
      <4>1. i - from \in 1..Len(page) /\ from + (i - from) = i
        BY <1>2, <1>4, <2>4, <3>2
      <4> QED BY <1>2, <4>1
    <3> QED BY <3>1, <3>2
  <2> QED BY <1>2, <1>3, <1>5, <1>6, <2>2, <2>4 DEF Passed, list
<1> QED BY <1>5, <1>6, <1>7, <1>8, MovesPasses

LEMMA PassesNext ==
    ASSUME Inv, Calling, UNCHANGED <<setting, mark>>, Passes, Unfailed, NEW u \in Runs, Stepped(u)
    PROVE  Passes' /\ Unfailed'
<1>0. u \in setting.callers
  BY CallingNext
<1>1. CASE Started(u)
  <2>1. PICK c \in {ckpt, NoCheckpoint} : \E limit \in setting.limits :
           Moves(u, "request", Begun(limit, c))
    BY <1>1 DEF Started
  <2>2. PICK limit \in setting.limits : Moves(u, "request", Begun(limit, c))
    BY <2>1
  <2> DEFINE k == Begun(limit, c)
  <2>3. ~k.failed /\ k.start = c.cursor /\ k.cursor = c.cursor /\ k.queue = <<>>
    BY DEF Begun, NoRun
  <2>4. Moves(u, "request", k)
    BY <2>2
  <2> HIDE DEF k
  <2>5. ASSUME Passing(k, "request") PROVE Passed(k, "request", ws')
    <3>1. k.cursor = 0
      BY <2>3, <2>5 DEF Passing
    <3>2. Reached(k, "request") = 0
      <4>1. Skipped(Listing(k.since), 0) = 0
        BY SkippedTypes DEF Inv
      <4> QED BY <3>1, <4>1 DEF Reached
    <3>3. \A j \in 1..Len(k.queue) : FALSE
      BY <2>3
    <3>4. \A i \in 1..Len(Listing(k.since)) : ~(i <= 0)
      OBVIOUS
    <3> QED BY <3>2, <3>3, <3>4 DEF Passed
  <2> QED BY <1>0, <2>3, <2>4, <2>5, MovesPasses
<1>2. CASE Moves(u, "idle", NoRun)
  BY <1>0, <1>2, IdleTypes, MovesPasses DEF Passing
<1>3. CASE Prepared(u)
  <2>1. PICK base \in {"zero", "current"} :
          \/ pc[u] = "base" /\ Moves(u, "write", Based(u, base))
          \/ pc[u] = "saveBase" /\ Moves(u, "save", Based(u, base))
    BY <1>3 DEF Prepared
  <2> DEFINE k == Based(u, base)
  <2>2. /\ k.start = run[u].start /\ k.cursor = run[u].cursor /\ k.since = run[u].since
        /\ k.queue = run[u].queue /\ k.failed = run[u].failed /\ k.next = run[u].next
    BY BasedTypes
  <2>3. UNCHANGED ws
    BY <1>3 DEF Prepared, FilesSame
  <2>4. \/ pc[u] = "base" /\ Moves(u, "write", k)
        \/ pc[u] = "saveBase" /\ Moves(u, "save", k)
    BY <2>1
  <2> HIDE DEF k
  <2>5. ASSUME NEW stage \in {"write", "save"}, pc[u] \in {"base", "saveBase"},
               Alone, mark = FirstMarks, Passing(k, stage)
        PROVE  Passed(k, stage, ws')
    <3>1. Passed(run[u], pc[u], ws)
      BY <2>2, <2>5 DEF Passes, Passing
    <3>2. Reached(k, stage) = Reached(run[u], pc[u])
      BY <2>2, <2>5 DEF Reached
    <3> QED BY <2>2, <2>3, <2>5, <3>1, <3>2 DEF Passed
  <2>6. pc[u] = "saveBase" => ~k.failed
    BY <2>2 DEF Unfailed
  <2> QED BY <1>0, <2>4, <2>5, <2>6, MovesPasses
<1>4. CASE Refused(u)
  <2>1. pc[u] = "write" /\ Done(u, TRUE, run[u].watermark) /\ run[u].watermark \in 0..MaxMark
    BY <1>4, RunTypes DEF Refused
  <2> QED BY <1>0, <2>1, PassesDone
<1>5. CASE Written(u)
  <2> DEFINE item == Head(run[u].queue)
             high == Advance(run[u].watermark, item.mark)
  <2>1. /\ pc[u] = "write" /\ Put(item) /\ UNCHANGED ckpt
        /\ Done(u, run[u].failed, high) \/ Done(u, TRUE, run[u].watermark)
    BY <1>5 DEF Written
  <2>2. item \in Items /\ item.mark <= mark[item.id]
    BY <2>1, AtHand
  <2>3. \A r \in Records : ws'[r] = IF r = item.id THEN item.mark ELSE ws[r]
    BY <2>1, <2>2, PutTypes
  <2>4. item.mark \in 1..MaxMark
    BY <2>2 DEF Items
  <2>5. run[u].failed \in BOOLEAN /\ run[u].watermark \in 0..MaxMark /\ high \in 0..MaxMark
    BY <2>4, RunTypes, Numbers DEF Advance
  <2> HIDE DEF item, high
  <2>6. CASE Done(u, run[u].failed, high)
    BY <1>0, <2>1, <2>3, <2>5, <2>6, PassesDone DEF item
  <2>7. CASE Done(u, TRUE, run[u].watermark)
    BY <1>0, <2>1, <2>5, <2>7, PassesDone
  <2> QED BY <2>1, <2>6, <2>7
<1>6. CASE Saved(u)
  <2>1. CASE HasNext(u, run[u].next) /\ Moves(u, "request", Turned(u))
    <3> DEFINE k == Turned(u)
               list == Listing(run[u].since)
    <3>1. /\ k.start = run[u].start /\ k.cursor = run[u].next /\ k.since = run[u].since
          /\ k.queue = run[u].queue /\ k.failed = run[u].failed
      BY TurnedTypes
    <3>2. UNCHANGED ws /\ pc[u] = "save" /\ run[u].next # 0 /\ run[u].next \in Nat
          /\ run[u].cursor \in Nat /\ Provided
      BY <1>6, <2>1, RunTypes DEF Saved, HasNext, Inv
    <3>3. ~k.failed
      BY <3>1, <3>2 DEF Unfailed
    <3>4. Moves(u, "request", k)
      BY <2>1
    <3> HIDE DEF k
    <3>5. ASSUME Alone, mark = FirstMarks, Passing(k, "request") PROVE Passed(k, "request", ws')
      <4>1. Passed(run[u], "save", ws)
        BY <3>1, <3>2, <3>5 DEF Passes, Passing
      <4>2. Reached(k, "request") = Skipped(list, run[u].next) /\ Skipped(list, run[u].next) \in Nat
        <5>1. Skipped(list, run[u].next) \in Nat
          BY <3>2, SkippedTypes
        <5>2. Reached(k, "request") = Skipped(list, run[u].next) + 0
          BY <3>1 DEF Reached
        <5> QED BY <5>1, <5>2
      <4>3. Reached(run[u], "save") \in Nat
        BY <3>2, ReachedTypes
      <4>4. Reached(k, "request") <= Reached(run[u], "save")
        BY <3>2, <4>1, <4>2 DEF Passed
      <4>5. \A i \in 1..Len(list) : i <= Reached(k, "request") => i <= Reached(run[u], "save")
        BY <4>2, <4>3, <4>4
      <4> QED BY <3>1, <3>2, <4>1, <4>5 DEF Passed
    <3> QED BY <1>0, <3>3, <3>4, <3>5, MovesPasses
  <2> QED BY <1>2, <1>6, <2>1 DEF Saved
<1> QED BY <1>0, <1>1, <1>2, <1>3, <1>4, <1>5, <1>6, PassesPages DEF Stepped, Ended

LEMMA PassesAlways == Spec => [](Passes /\ Unfailed)
<1>1. Init => Grown /\ Passes /\ Unfailed
  <2> SUFFICES ASSUME Init PROVE Grown /\ Passes /\ Unfailed
    OBVIOUS
  <2>1. \A r \in Records : FirstMarks[r] \in Nat
    BY SyncAssumption, Numbers
  <2>2. mark = FirstMarks /\ \A u \in Runs : run[u] = NoRun /\ pc[u] = "idle"
    BY DEF Init
  <2> QED BY <2>1, <2>2 DEF Grown, Passes, Passing, Unfailed
<1>2. ASSUME Inv, Calling, Grown, Passes, Unfailed, [Next]_vars
      PROVE  Grown' /\ Passes' /\ Unfailed'
  <2>1. Grown'
    BY <1>2, GrownNext
  <2>2. CASE UNCHANGED vars
    <3>1. UNCHANGED <<setting, mark>> /\ run' = run /\ pc' = pc /\ ws' = ws
      BY <2>2 DEF vars
    <3>2. \A v \in Runs : /\ Passing(run[v], pc[v])' <=> Passing(run[v], pc[v])
                          /\ Passed(run[v], pc[v], ws)' <=> Passed(run[v], pc[v], ws)
      BY <3>1, PassedSame
    <3>3. Alone' <=> Alone
      BY <3>1 DEF Alone
    <3> QED BY <1>2, <2>1, <3>1, <3>2, <3>3 DEF Passes, Unfailed
  <2>3. CASE \E r \in Records : Touch(r)
    <3>1. Unfailed'
      BY <1>2, <2>3 DEF Touch, Unfailed
    <3>2. mark' # FirstMarks
      <4>1. PICK r \in Records : Touch(r)
        BY <2>3
      <4>2. mark[r] < mark'[r] /\ FirstMarks[r] <= mark[r] /\ mark[r] \in Nat
            /\ mark'[r] \in Nat /\ FirstMarks[r] \in Nat
        BY <1>2, <4>1, InvTouched, KeyTypes, SyncAssumption, Numbers DEF Grown, Inv
      <4> QED BY <4>2
    <3> QED BY <2>1, <3>1, <3>2 DEF Passes
  <2>4. CASE UNCHANGED <<setting, mark>> /\ \E u \in Runs : Stepped(u)
    BY <1>2, <2>1, <2>4, PassesNext
  <2> QED BY <1>2, <2>2, <2>3, <2>4, Steps
<1> QED BY <1>1, <1>2, InvAlways, UnmixedAlways, PTL DEF Spec

(* A run from the first page that comes to the end of the listing has        *)
(* written everything the listing admits, for each kind of pagination and    *)
(* either order (SchemaAdapter.sync advances by nextCursor).                 *)
THEOREM FreshPassCompletes == Spec => FreshPassIsComplete
<1>1. ASSUME Inv, Passes, Unfailed, [Next]_vars
      PROVE  [\A u \in Runs :
                (/\ mark = FirstMarks /\ Alone /\ ~Unsized
                 /\ pc[u] = "save" /\ run[u].start = 0 /\ run[u].next = 0 /\ ckpt' # ckpt)
                   => \A r \in Records : mark[r] >= run[u].since => ws[r] = mark[r]]_vars
  <2> SUFFICES ASSUME NEW u \in Runs, mark = FirstMarks, Alone, ~Unsized, pc[u] = "save",
                      run[u].start = 0, run[u].next = 0, NEW r \in Records, mark[r] >= run[u].since
               PROVE  ws[r] = mark[r]
    OBVIOUS
  <2> DEFINE list == Listing(run[u].since)
  <2>1. Passed(run[u], "save", ws) /\ run[u].queue = <<>>
    BY <1>1, RunTypes DEF Passes, Passing, Unfailed, Fits
  <2>2. PICK i \in 1..Len(list) : list[i] = r
    BY <1>1, Listings DEF Inv, Admitted
  <2>3. Len(list) \in Nat /\ run[u].cursor \in Nat /\ Provided
    BY <1>1, Listings, RunTypes DEF Inv
  <2>4. Reached(run[u], "save") \in Nat
    BY <2>3, ReachedTypes
  <2>5. i <= Reached(run[u], "save")
    BY <2>1, <2>3, <2>4 DEF Passed
  <2>6. \A j \in 1..Len(run[u].queue) : FALSE
    BY <2>1
  <2> QED BY <2>1, <2>2, <2>5, <2>6 DEF Passed
<1> QED BY <1>1, InvAlways, PassesAlways, PTL DEF Spec, FreshPassIsComplete
=============================================================================
