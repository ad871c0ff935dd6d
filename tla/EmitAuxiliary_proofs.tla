------------------------ MODULE EmitAuxiliary_proofs -------------------------
(* For any emitters, records and batches: types; every file that is wrong is *)
(* being dealt with or reported; the index has the rows of the records.      *)
EXTENDS EmitAuxiliary, TLAPS

-----------------------------------------------------------------------------
(* Sequences as sets.                                                        *)

LEMMA Joined ==
    ASSUME NEW T, NEW s \in Seq(T), NEW t \in Seq(T)
    PROVE  ToSet(s \o t) = ToSet(s) \cup ToSet(t) /\ s \o t \in Seq(T)
<1>1. /\ s \o t \in Seq(T) /\ Len(s \o t) = Len(s) + Len(t) /\ {Len(s), Len(t)} \subseteq Nat
      /\ \A i \in 1..Len(s) : (s \o t)[i] = s[i]
      /\ \A i \in 1..Len(t) : (s \o t)[Len(s) + i] = t[i]
  OBVIOUS
<1>2. DOMAIN s = 1..Len(s) /\ DOMAIN t = 1..Len(t) /\ DOMAIN (s \o t) = 1..(Len(s) + Len(t))
  OBVIOUS
<1>3. ASSUME NEW x \in ToSet(s \o t) PROVE x \in ToSet(s) \cup ToSet(t)
  <2>1. PICK i \in 1..(Len(s) + Len(t)) : x = (s \o t)[i]
    BY <1>2 DEF ToSet
  <2>2. CASE i <= Len(s)
    <3>1. i \in 1..Len(s)
      BY <1>1, <2>2
    <3> QED BY <1>1, <1>2, <2>1, <3>1 DEF ToSet
  <2>3. CASE i > Len(s)
    <3>1. i - Len(s) \in 1..Len(t) /\ i = Len(s) + (i - Len(s))
      BY <1>1, <2>3
    <3>2. x = t[i - Len(s)]
      BY <1>1, <2>1, <3>1
    <3> QED BY <1>2, <3>1, <3>2 DEF ToSet
  <2> QED BY <1>1, <2>2, <2>3
<1>4. ASSUME NEW x \in ToSet(s) PROVE x \in ToSet(s \o t)
  <2>1. PICK i \in 1..Len(s) : x = s[i]
    BY <1>2 DEF ToSet
  <2>2. i \in 1..(Len(s) + Len(t)) /\ (s \o t)[i] = x
    BY <1>1, <2>1
  <2> QED BY <1>2, <2>2 DEF ToSet
<1>5. ASSUME NEW x \in ToSet(t) PROVE x \in ToSet(s \o t)
  <2>1. PICK i \in 1..Len(t) : x = t[i]
    BY <1>2 DEF ToSet
  <2>2. Len(s) + i \in 1..(Len(s) + Len(t)) /\ (s \o t)[Len(s) + i] = x
    BY <1>1, <2>1
  <2> QED BY <1>2, <2>2 DEF ToSet
<1> QED BY <1>1, <1>3, <1>4, <1>5

LEMMA HeadTail ==
    ASSUME NEW T, NEW s \in Seq(T), s # <<>>
    PROVE  /\ Head(s) \in T /\ Tail(s) \in Seq(T)
           /\ ToSet(s) = {Head(s)} \cup ToSet(Tail(s))
<1> DEFINE n == Len(s)
<1>1. /\ n \in Nat \ {0} /\ Head(s) = s[1] /\ Tail(s) \in Seq(T) /\ Len(Tail(s)) = n - 1
      /\ s[1] \in T
  OBVIOUS
<1>2. DOMAIN s = 1..n /\ DOMAIN Tail(s) = 1..(n - 1)
  BY <1>1
<1>3. \A i \in 1..(n - 1) : Tail(s)[i] = s[i + 1]
  BY <1>1
<1> HIDE DEF n
<1>4. ASSUME NEW x \in ToSet(s) PROVE x \in {s[1]} \cup ToSet(Tail(s))
  <2>1. PICK i \in 1..n : x = s[i]
    BY <1>2 DEF ToSet
  <2>2. CASE i # 1
    <3>1. i - 1 \in 1..(n - 1) /\ (i - 1) + 1 = i
      BY <1>1, <2>2
    <3>2. Tail(s)[i - 1] = x
      BY <1>3, <2>1, <3>1
    <3> QED BY <1>2, <3>1, <3>2 DEF ToSet
  <2> QED BY <2>1, <2>2
<1>5. ASSUME NEW x \in {s[1]} \cup ToSet(Tail(s)) PROVE x \in ToSet(s)
  <2>1. CASE x = s[1]
    <3>1. 1 \in 1..n
      BY <1>1
    <3> QED BY <1>2, <2>1, <3>1 DEF ToSet
  <2>2. CASE x \in ToSet(Tail(s))
    <3>1. PICK i \in 1..(n - 1) : x = Tail(s)[i]
      BY <1>2, <2>2 DEF ToSet
    <3>2. i + 1 \in 1..n /\ x = s[i + 1]
      BY <1>1, <1>3, <3>1
    <3> QED BY <1>2, <3>2 DEF ToSet
  <2> QED BY <1>5, <2>1, <2>2
<1> QED BY <1>1, <1>4, <1>5

LEMMA Members ==
    ASSUME NEW T, NEW s \in Seq(T)
    PROVE  /\ ToSet(s) \subseteq T /\ Len(s) \in Nat /\ DOMAIN s = 1..Len(s)
           /\ \A i \in 1..Len(s) : s[i] \in T /\ s[i] \in ToSet(s)
           /\ \A x \in ToSet(s) : \E i \in 1..Len(s) : x = s[i]
BY DEF ToSet

LEMMA NoMembers == ToSet(<<>>) = {}
BY DEF ToSet

-----------------------------------------------------------------------------
(* The paths of a space.                                                     *)

One(p, S) == IF p \in S THEN <<>> ELSE <<p>>

SpaceSet(id, name, key) ==
    {<<"space", id, IF name # Blank THEN name ELSE key>>, ById(id)}
    \cup (IF name # Blank THEN {<<"by-title", id, name>>} ELSE {})
    \cup (IF key # Blank THEN {<<"by-key", key>>} ELSE {})

LEMMA Ones ==
    ASSUME NEW p \in Paths, NEW S
    PROVE  One(p, S) \in Seq(Paths) /\ ToSet(One(p, S)) = {p} \ S
<1>1. <<p>> \in Seq(Paths) /\ <<>> \in Seq(Paths) /\ ToSet(<<p>>) = {p} /\ ToSet(<<>>) = {}
  BY DEF ToSet
<1> QED BY <1>1 DEF One

LEMMA SpaceTypes ==
    ASSUME NEW id \in Ids, NEW name \in Titles, NEW key \in Keys \cup {Blank}
    PROVE  /\ <<"space", id, IF name # Blank THEN name ELSE key>> \in Paths
           /\ ById(id) \in Paths /\ <<"by-title", id, name>> \in Paths
           /\ key # Blank => <<"by-key", key>> \in Paths
BY DEF Paths, ById, Titles

LEMMA SpaceListed ==
    ASSUME NEW id \in Ids, NEW name \in Titles, NEW key \in Keys \cup {Blank}, NEW S
    PROVE  /\ SpacePathsBut(id, name, key, S) \in Seq(Paths)
           /\ ToSet(SpacePathsBut(id, name, key, S)) = SpaceSet(id, name, key) \ S
<1> DEFINE p1 == <<"space", id, IF name # Blank THEN name ELSE key>>
           p3 == <<"by-title", id, name>>
           p4 == <<"by-key", key>>
           s3 == IF name # Blank THEN One(p3, S) ELSE <<>>
           s4 == IF key # Blank THEN One(p4, S) ELSE <<>>
<1>1. SpacePathsBut(id, name, key, S) = One(p1, S) \o One(ById(id), S) \o s3 \o s4
  BY DEF SpacePathsBut, One
<1>2. SpaceSet(id, name, key) = {p1, ById(id)} \cup (IF name # Blank THEN {p3} ELSE {})
                                \cup (IF key # Blank THEN {p4} ELSE {})
  BY DEF SpaceSet
<1>3. p1 \in Paths /\ ById(id) \in Paths /\ p3 \in Paths /\ (key # Blank => p4 \in Paths)
  BY SpaceTypes
<1> HIDE DEF p1, p3, p4
<1>4. One(p1, S) \in Seq(Paths) /\ ToSet(One(p1, S)) = {p1} \ S
  BY <1>3, Ones
<1>5. One(ById(id), S) \in Seq(Paths) /\ ToSet(One(ById(id), S)) = {ById(id)} \ S
  BY <1>3, Ones
<1>6. s3 \in Seq(Paths) /\ ToSet(s3) = (IF name # Blank THEN {p3} ELSE {}) \ S
  <2>1. <<>> \in Seq(Paths)
    OBVIOUS
  <2> QED BY <1>3, <2>1, Ones, NoMembers
<1>7. s4 \in Seq(Paths) /\ ToSet(s4) = (IF key # Blank THEN {p4} ELSE {}) \ S
  <2>1. <<>> \in Seq(Paths)
    OBVIOUS
  <2> QED BY <1>3, <2>1, Ones, NoMembers
<1> HIDE DEF s3, s4
<1> DEFINE a == One(p1, S) \o One(ById(id), S)
<1>8. a \in Seq(Paths) /\ ToSet(a) = ({p1} \ S) \cup ({ById(id)} \ S)
  BY <1>4, <1>5, Joined
<1> HIDE DEF a
<1> DEFINE b == a \o s3
<1>9. b \in Seq(Paths) /\ ToSet(b) = ToSet(a) \cup ToSet(s3)
  BY <1>6, <1>8, Joined
<1> HIDE DEF b
<1>10. b \o s4 \in Seq(Paths) /\ ToSet(b \o s4) = ToSet(b) \cup ToSet(s4)
  BY <1>7, <1>9, Joined
<1>11. SpacePathsBut(id, name, key, S) = b \o s4
  BY <1>1 DEF a, b
<1> QED BY <1>2, <1>6, <1>7, <1>8, <1>9, <1>10, <1>11

\* Where a path of a space can be: under its id, or under its key.
LEMMA SpaceWhere ==
    ASSUME NEW id, NEW name, NEW key, NEW p \in SpaceSet(id, name, key)
    PROVE  \/ p[1] # "by-key" /\ p[2] = id
           \/ p[1] = "by-key" /\ p[2] = key /\ key # Blank
BY DEF SpaceSet, ById

-----------------------------------------------------------------------------
(* The paths of a record.                                                    *)

Versions(r) ==
    IF r.version = Gone THEN {}
    ELSE SpaceSet(r.id, IF r.version.name # Blank THEN r.version.name ELSE r.version.key, r.version.key)

LEMMA RecordTypes ==
    ASSUME NEW r \in Records
    PROVE  /\ r.id \in Ids
           /\ r.version # Gone => /\ r.version \in Fields
                                  /\ r.version.name \in Names \cup {Blank}
                                  /\ r.version.key \in Keys \cup {Blank}
<1>1. r.id \in Ids /\ r.version \in Fields \cup {Gone}
  BY DEF Records
<1>2. \A v \in Fields : v.name \in Names \cup {Blank} /\ v.key \in Keys \cup {Blank}
  BY DEF Fields
<1> QED BY <1>1, <1>2

LEMMA RecordPaths ==
    ASSUME NEW r \in Records
    PROVE  NewPaths(r) \in Seq(Paths) /\ ToSet(NewPaths(r)) = Versions(r)
<1>1. CASE r.version = Gone
  <2>1. NewPaths(r) = <<>> /\ <<>> \in Seq(Paths)
    BY <1>1 DEF NewPaths
  <2> QED BY <1>1, <2>1, NoMembers DEF Versions
<1>2. CASE r.version # Gone
  <2> DEFINE name == IF r.version.name # Blank THEN r.version.name ELSE r.version.key
             key == r.version.key
  <2>1. r.id \in Ids /\ name \in Titles /\ key \in Keys \cup {Blank}
    BY <1>2, RecordTypes DEF Titles
  <2> DEFINE S == {}
             id == r.id
  <2>2. NewPaths(r) = SpacePathsBut(id, name, key, S)
    BY <1>2 DEF NewPaths, SpacePaths
  <2>3. Versions(r) = SpaceSet(r.id, name, key)
    BY <1>2 DEF Versions
  <2> HIDE DEF name, key, S, id
  <2>4. /\ SpacePathsBut(id, name, key, S) \in Seq(Paths)
        /\ ToSet(SpacePathsBut(id, name, key, S)) = SpaceSet(id, name, key) \ S
    BY <2>1, SpaceListed DEF id
  <2> QED BY <2>2, <2>3, <2>4 DEF S, id
<1> QED BY <1>1, <1>2

LEMMA RecordContents ==
    ASSUME NEW r \in Records
    PROVE  /\ ContentOf(r) \in Contents \cup {None}
           /\ r.version = Gone <=> ContentOf(r) = None
           /\ r.version # Gone => /\ ContentOf(r) \in Contents /\ ContentOf(r).id = r.id
                                  /\ ContentOf(r).name = r.version.name
                                  /\ ContentOf(r).key = r.version.key
                                  /\ ById(r.id) \in Versions(r)
<1>1. r.version # Gone => ContentOf(r) \in Contents
  BY RecordTypes DEF ContentOf, Contents
<1> QED BY <1>1, AbsenceAssumption DEF ContentOf, Versions, SpaceSet

-----------------------------------------------------------------------------
(* What each emitter is given, and what is therefore its own.                *)

Given(e) == UNION {ToSet(b) : b \in Batches[e]}

Own(e) == UNION {Versions(r) \cup SpaceSet(r.id, Blank, Blank) : r \in Given(e)}

\* Content of a record that some emitter is given, at one of its paths.
Genuine(p, c) ==
    \E e \in Emitters : \E r \in Given(e) :
        r.version # Gone /\ p \in Versions(r) /\ c = ContentOf(r)

LEMMA GivenTypes ==
    ASSUME NEW e \in Emitters
    PROVE  /\ Given(e) \subseteq Records
           /\ \A b \in Batches[e] : b \in Seq(Records) /\ ToSet(b) \subseteq Given(e)
<1>1. \A b \in Batches[e] : b \in Seq(Records)
  BY BatchesAssumption
<1>2. \A b \in Batches[e] : ToSet(b) \subseteq Records
  BY <1>1, Members
<1> QED BY <1>1, <1>2 DEF Given

\* No two emitters share a record or a key, so none touches another's files.
LEMMA Apart ==
    ASSUME NEW e \in Emitters, NEW f \in Emitters, e # f, NEW r \in Given(e), NEW s \in Given(f)
    PROVE  r.id # s.id /\ KeysOf(r) \cap KeysOf(s) = {}
<1>1. PICK b \in Batches[e], d \in Batches[f] : r \in ToSet(b) /\ s \in ToSet(d)
  BY DEF Given
<1> QED BY <1>1, BatchesAssumption

LEMMA VersionWhere ==
    ASSUME NEW r, NEW p \in Versions(r)
    PROVE  /\ r.version # Gone
           /\ \/ p[1] # "by-key" /\ p[2] = r.id
              \/ p[1] = "by-key" /\ p[2] \in KeysOf(r)
<1> DEFINE name == IF r.version.name # Blank THEN r.version.name ELSE r.version.key
<1>1. r.version # Gone /\ p \in SpaceSet(r.id, name, r.version.key)
  BY DEF Versions
<1>2. \/ p[1] # "by-key" /\ p[2] = r.id
      \/ p[1] = "by-key" /\ p[2] = r.version.key /\ r.version.key # Blank
  <2> HIDE DEF name
  <2> QED BY <1>1, SpaceWhere
<1> QED BY <1>1, <1>2 DEF KeysOf

LEMMA Foreign ==
    ASSUME NEW e \in Emitters, NEW f \in Emitters, e # f, NEW s \in Given(f)
    PROVE  Own(e) \cap Versions(s) = {}
<1> SUFFICES ASSUME NEW p \in Own(e), p \in Versions(s) PROVE FALSE
  OBVIOUS
<1>1. PICK r \in Given(e) : p \in Versions(r) \cup SpaceSet(r.id, Blank, Blank)
  BY DEF Own
<1>2. r.id # s.id /\ KeysOf(r) \cap KeysOf(s) = {}
  BY Apart
<1>3. \/ p[1] # "by-key" /\ p[2] = s.id
      \/ p[1] = "by-key" /\ p[2] \in KeysOf(s)
  BY VersionWhere
<1>4. CASE p \in Versions(r)
  <2>1. \/ p[1] # "by-key" /\ p[2] = r.id
        \/ p[1] = "by-key" /\ p[2] \in KeysOf(r)
    BY <1>4, VersionWhere
  <2> QED BY <1>2, <1>3, <2>1
<1>5. CASE p \in SpaceSet(r.id, Blank, Blank)
  <2>1. p[1] # "by-key" /\ p[2] = r.id
    BY <1>5, SpaceWhere
  <2> QED BY <1>2, <1>3, <2>1
<1> QED BY <1>1, <1>4, <1>5

\* What stands at a record's by-id alias is an earlier version of the record.
LEMMA Known ==
    ASSUME NEW e \in Emitters, NEW r \in Given(e), NEW c, Genuine(ById(r.id), c)
    PROVE  \E s \in Given(e) : s.id = r.id /\ s.version # Gone /\ c = ContentOf(s)
<1>1. PICK f \in Emitters : \E s \in Given(f) :
          s.version # Gone /\ ById(r.id) \in Versions(s) /\ c = ContentOf(s)
  BY DEF Genuine
<1>2. PICK s \in Given(f) : s.version # Gone /\ ById(r.id) \in Versions(s) /\ c = ContentOf(s)
  BY <1>1
<1>3. ById(r.id)[1] # "by-key" /\ ById(r.id)[2] = r.id
  BY DEF ById
<1>4. s.id = r.id
  <2> DEFINE p == ById(r.id)
  <2> HIDE DEF p
  <2>1. \/ p[1] # "by-key" /\ p[2] = s.id
        \/ p[1] = "by-key" /\ p[2] \in KeysOf(s)
    BY <1>2, VersionWhere DEF p
  <2> QED BY <1>3, <2>1 DEF p
<1>5. e = f
  BY <1>4, Apart
<1> QED BY <1>2, <1>4, <1>5

LEMMA StaleOwn ==
    ASSUME NEW e \in Emitters, NEW r \in Given(e), NEW prior,
           prior = None \/ Genuine(ById(r.id), prior)
    PROVE  /\ Stale(r, prior) \in Seq(Paths) /\ ToSet(Stale(r, prior)) \subseteq Own(e)
           /\ prior # None => ToSet(Stale(r, prior))
                                = SpaceSet(r.id, prior.name, prior.key) \ Versions(r)
           /\ ToSet(Stale(r, prior)) \cap Versions(r) = {}
<1>1. r \in Records /\ r.id \in Ids /\ Blank \in Titles /\ Blank \in Keys \cup {Blank}
  BY GivenTypes, RecordTypes DEF Titles
<1>2. NewPaths(r) \in Seq(Paths) /\ ToSet(NewPaths(r)) = Versions(r)
  BY <1>1, RecordPaths
<1>3. <<>> \in Seq(Paths)
  OBVIOUS
<1>4. CASE prior = None /\ r.version # Gone
  <2>1. Stale(r, prior) = <<>>
    BY <1>4 DEF Stale, PriorPathsBut
  <2> QED BY <1>3, <1>4, <2>1, NoMembers
<1>5. CASE prior = None /\ r.version = Gone
  <2> DEFINE S == {}
             id == r.id
             name == Blank
             key == Blank
  <2>1. Stale(r, prior) = SpacePathsBut(id, name, key, S)
    BY <1>5 DEF Stale, SpacePaths
  <2>2. SpaceSet(id, name, key) \subseteq Own(e)
    BY DEF Own
  <2>3. id \in Ids /\ name \in Titles /\ key \in Keys \cup {Blank}
    BY <1>1
  <2> HIDE DEF S, id, name, key
  <2>4. /\ SpacePathsBut(id, name, key, S) \in Seq(Paths)
        /\ ToSet(SpacePathsBut(id, name, key, S)) = SpaceSet(id, name, key) \ S
    BY <2>3, SpaceListed
  <2>5. Versions(r) = {}
    BY <1>5 DEF Versions
  <2> QED BY <1>5, <2>1, <2>2, <2>4, <2>5
<1>6. CASE prior # None
  <2> DEFINE S == ToSet(NewPaths(r))
             id == r.id
             name == prior.name
             key == prior.key
  <2>1. PICK s \in Given(e) : s.id = r.id /\ s.version # Gone /\ prior = ContentOf(s)
    BY <1>6, Known
  <2>2. /\ s \in Records /\ name = s.version.name /\ key = s.version.key
        /\ name \in Titles /\ key \in Keys \cup {Blank}
    BY <2>1, GivenTypes, RecordTypes, RecordContents DEF Titles
  <2>3. SpaceSet(id, name, key) \subseteq Versions(s)
    BY <2>1, <2>2 DEF Versions, SpaceSet
  <2>4. Stale(r, prior) = SpacePathsBut(id, name, key, S)
    BY <1>6 DEF Stale, PriorPathsBut
  <2> HIDE DEF S, id, name, key
  <2>5. /\ SpacePathsBut(id, name, key, S) \in Seq(Paths)
        /\ ToSet(SpacePathsBut(id, name, key, S)) = SpaceSet(id, name, key) \ S
    BY <1>1, <2>2, SpaceListed DEF id
  <2>6. Versions(s) \subseteq Own(e)
    BY DEF Own
  <2>7. S = Versions(r)
    BY <1>2 DEF S
  <2> QED BY <2>3, <2>4, <2>5, <2>6, <2>7 DEF id, name, key
<1> QED BY <1>4, <1>5, <1>6

-----------------------------------------------------------------------------
(* The invariant all the theorems rest on.                                   *)

Typed ==
    /\ caps \subseteq {"read", "delete"}
    /\ files \in [Paths -> Contents \cup {None}]
    /\ index \in [Ids -> Contents \cup {None}]
    /\ em \in [Emitters -> Emission]
    /\ emits \in [Emitters -> Nat] /\ \A e \in Emitters : emits[e] <= MaxEmits[e]
    /\ faults \in Nat /\ faults <= MaxFaults
    /\ owed \subseteq Paths \cup {Row(id) : id \in Ids}
    /\ expected \in [Paths -> Contents \cup {None}]
    /\ evicted \subseteq Paths /\ blind \subseteq Ids /\ unsure \subseteq Ids

\* No file, found or expected, holds anything but a version of a record.
Faithful ==
    \A p \in Paths : /\ files[p] = None \/ Genuine(p, files[p])
                     /\ expected[p] = None \/ Genuine(p, expected[p])

\* An emission m of e is within its batch and touches what is its own: it
\* deletes what nothing should be at, or was taken over, and writes what should.
Works(e, m, want, taken) ==
    /\ m.pc = "idle" \/ m.batch \in Batches[e]
    /\ m.at <= Len(m.batch)
    /\ m.pc = "merge" => m.at = Len(m.batch)
    /\ m.pc # "records" => m.deletes = <<>> /\ m.writes = <<>>
    /\ \A p \in ToSet(m.deletes) : p \in Own(e) /\ (want[p] = None \/ p \in taken)
    /\ \A p \in ToSet(m.writes) : p \in Own(e) /\ want[p] = m.content

Working == \A e \in Emitters : Works(e, em[e], expected, evicted)

Base == Typed /\ Faithful /\ Working

LEMMA EmissionTypes ==
    ASSUME NEW m \in Emission
    PROVE  /\ m.pc \in {"idle", "records", "merge"} /\ m.batch \in Seq(Records) /\ m.at \in Nat
           /\ m.deletes \in Seq(Paths) /\ m.writes \in Seq(Paths)
           /\ m.content \in Contents \cup {None} /\ m.upserts \in [Ids -> Contents \cup {None}]
           /\ m.removes \in SUBSET Ids /\ m.existing \in [Ids -> Contents \cup {None}]
BY DEF Emission

LEMMA IdleEmission == Idle \in Emission
BY DEF Idle, Emission

LEMMA Emissions ==
    ASSUME Base, NEW e \in Emitters
    PROVE  em[e] \in Emission /\ Works(e, em[e], expected, evicted)
BY DEF Base, Typed, Working

\* A step of emitter e that plans nothing.
LEMMA Turns ==
    ASSUME Base, NEW e \in Emitters, NEW k \in Emission, em' = [em EXCEPT ![e] = k],
           Works(e, k, expected, evicted), UNCHANGED <<expected, evicted>>
    PROVE  /\ em' \in [Emitters -> Emission] /\ Working'
           /\ em'[e] = k /\ \A f \in Emitters \ {e} : em'[f] = em[f]
<1>1. em' \in [Emitters -> Emission] /\ em'[e] = k /\ \A f \in Emitters \ {e} : em'[f] = em[f]
  BY DEF Base, Typed
<1>2. ASSUME NEW f \in Emitters PROVE Works(f, em'[f], expected, evicted)
  BY <1>1, Emissions
<1>3. Working'
  BY <1>2 DEF Working, Works
<1> QED BY <1>1, <1>3

LEMMA Refiles ==
    ASSUME Base, NEW p \in Paths, NEW c, c = None \/ c = expected[p],
           files' = [files EXCEPT ![p] = c], UNCHANGED expected
    PROVE  files' \in [Paths -> Contents \cup {None}] /\ Faithful'
<1>1. c \in Contents \cup {None} /\ (c = None \/ Genuine(p, c))
  BY DEF Base, Typed, Faithful
<1>2. files' \in [Paths -> Contents \cup {None}] /\ \A q \in Paths : files'[q] = IF q = p THEN c ELSE files[q]
  BY <1>1 DEF Base, Typed
<1>3. ASSUME NEW q \in Paths
      PROVE  /\ files'[q] = None \/ Genuine(q, files'[q])
             /\ expected[q] = None \/ Genuine(q, expected[q])
  BY <1>1, <1>2 DEF Base, Faithful
<1>4. Faithful'
  BY <1>3 DEF Faithful, Genuine
<1> QED BY <1>2, <1>4

LEMMA Faults == Typed /\ Fault => faults' \in Nat /\ faults' <= MaxFaults
<1>1. MaxFaults \in Nat
  BY BatchesAssumption
<1> QED BY <1>1 DEF Typed, Fault

LEMMA Begins ==
    ASSUME Base, NEW e \in Emitters, NEW batch \in Batches[e], Begin(e, batch)
    PROVE  Base'
<1> DEFINE k == [Idle EXCEPT !.pc = "records", !.batch = batch]
<1>1. batch \in Seq(Records) /\ Len(batch) \in Nat
  BY GivenTypes, Members
<1>2. /\ k \in Emission /\ k.pc = "records" /\ k.batch = batch /\ k.at = 0
      /\ k.deletes = <<>> /\ k.writes = <<>>
  BY <1>1, IdleEmission DEF Idle, Emission
<1>3. em' = [em EXCEPT ![e] = k]
  BY DEF Begin
<1> HIDE DEF k
<1>4. Works(e, k, expected, evicted)
  BY <1>1, <1>2, NoMembers DEF Works
<1>5. em' \in [Emitters -> Emission] /\ Working'
  BY <1>2, <1>3, <1>4, Turns DEF Begin, hist
<1>6. Faithful'
  BY DEF Base, Faithful, Begin, hist, Genuine
<1>7. emits' \in [Emitters -> Nat] /\ \A f \in Emitters : emits'[f] <= MaxEmits[f]
  <2>1. MaxEmits[e] \in Nat /\ emits \in [Emitters -> Nat] /\ emits[e] < MaxEmits[e]
    BY BatchesAssumption DEF Begin, Base, Typed
  <2>2. emits' = [emits EXCEPT ![e] = emits[e] + 1]
    BY DEF Begin
  <2> QED BY <2>1, <2>2 DEF Base, Typed
<1>8. Typed'
  BY <1>5, <1>7 DEF Base, Typed, Begin, hist
<1> QED BY <1>5, <1>6, <1>8 DEF Base

\* An emission goes on with another list of deletes or writes.
Kept(m, k) ==
    /\ k.pc = m.pc /\ k.at = m.at /\ k.batch = m.batch /\ k.content = m.content
    /\ k.upserts = m.upserts /\ k.removes = m.removes /\ k.existing = m.existing

\* The next path to delete is taken off the list.
LEMMA TakesDelete ==
    ASSUME Base, NEW e \in Emitters, em[e].pc = "records", em[e].deletes # <<>>,
           NEW k, k = [em[e] EXCEPT !.deletes = Tail(em[e].deletes)],
           NEW p, p = Head(em[e].deletes)
    PROVE  /\ k \in Emission /\ Works(e, k, expected, evicted)
           /\ p \in Paths /\ p \in Own(e) /\ (expected[p] = None \/ p \in evicted)
           /\ ToSet(em[e].deletes) = {p} \cup ToSet(k.deletes)
           /\ k.writes = em[e].writes /\ Kept(em[e], k)
<1> DEFINE m == em[e]
<1>1. m \in Emission /\ Works(e, m, expected, evicted) /\ m.pc = "records" /\ m.deletes # <<>>
  BY Emissions
<1>2. k = [m EXCEPT !.deletes = Tail(m.deletes)] /\ p = Head(m.deletes)
  OBVIOUS
<1> HIDE DEF m
<1>3. m.deletes \in Seq(Paths) /\ m.writes \in Seq(Paths)
  BY <1>1, EmissionTypes
<1>4. /\ p \in Paths /\ Tail(m.deletes) \in Seq(Paths)
      /\ ToSet(m.deletes) = {p} \cup ToSet(Tail(m.deletes))
  BY <1>1, <1>2, <1>3, HeadTail
<1>5. k \in Emission /\ k.deletes = Tail(m.deletes) /\ k.writes = m.writes /\ Kept(m, k)
  BY <1>1, <1>2, <1>4 DEF Emission, Kept
<1>6. Works(e, k, expected, evicted)
  BY <1>1, <1>4, <1>5 DEF Works, Kept
<1>7. p \in Own(e) /\ (expected[p] = None \/ p \in evicted)
  BY <1>1, <1>4 DEF Works
<1> QED BY <1>4, <1>5, <1>6, <1>7 DEF m

LEMMA TakesWrite ==
    ASSUME Base, NEW e \in Emitters, em[e].pc = "records", em[e].writes # <<>>,
           NEW k, k = [em[e] EXCEPT !.writes = Tail(em[e].writes)],
           NEW p, p = Head(em[e].writes)
    PROVE  /\ k \in Emission /\ Works(e, k, expected, evicted)
           /\ p \in Paths /\ p \in Own(e) /\ expected[p] = em[e].content
           /\ ToSet(em[e].writes) = {p} \cup ToSet(k.writes)
           /\ k.deletes = em[e].deletes /\ Kept(em[e], k)
<1> DEFINE m == em[e]
<1>1. m \in Emission /\ Works(e, m, expected, evicted) /\ m.pc = "records" /\ m.writes # <<>>
  BY Emissions
<1>2. k = [m EXCEPT !.writes = Tail(m.writes)] /\ p = Head(m.writes)
  OBVIOUS
<1> HIDE DEF m
<1>3. m.deletes \in Seq(Paths) /\ m.writes \in Seq(Paths)
  BY <1>1, EmissionTypes
<1>4. /\ p \in Paths /\ Tail(m.writes) \in Seq(Paths)
      /\ ToSet(m.writes) = {p} \cup ToSet(Tail(m.writes))
  BY <1>1, <1>2, <1>3, HeadTail
<1>5. k \in Emission /\ k.writes = Tail(m.writes) /\ k.deletes = m.deletes /\ Kept(m, k)
  BY <1>1, <1>2, <1>4 DEF Emission, Kept
<1>6. Works(e, k, expected, evicted)
  BY <1>1, <1>4, <1>5 DEF Works, Kept
<1>7. p \in Own(e) /\ expected[p] = m.content
  BY <1>1, <1>4 DEF Works
<1> QED BY <1>4, <1>5, <1>6, <1>7 DEF m

\* What the four steps that take a path off a list do, in one form.
LEMMA Deletes ==
    ASSUME Base, NEW e \in Emitters, Delete(e) \/ DeleteFails(e)
    PROVE  \E p \in Paths : \E k \in Emission :
              /\ em' = [em EXCEPT ![e] = k] /\ Works(e, k, expected, evicted)
              /\ expected[p] = None \/ p \in evicted
              /\ ToSet(em[e].deletes) = {p} \cup ToSet(k.deletes)
              /\ k.writes = em[e].writes /\ Kept(em[e], k) /\ em[e].pc = "records"
              /\ \/ files' = [files EXCEPT ![p] = None] /\ owed' = owed \ {p} /\ UNCHANGED faults
                 \/ UNCHANGED files /\ owed' = owed \cup {p} /\ (Fault \/ UNCHANGED faults)
              /\ UNCHANGED <<caps, index, emits, expected, evicted, blind, unsure>>
<1> DEFINE p == Head(em[e].deletes)
           k == [em[e] EXCEPT !.deletes = Tail(em[e].deletes)]
<1>1. em[e].pc = "records" /\ em[e].deletes # <<>>
  BY DEF Delete, DeleteFails
<1>2. em' = [em EXCEPT ![e] = k]
  BY DEF Delete, DeleteFails
<1>3. /\ \/ files' = [files EXCEPT ![p] = None] /\ owed' = owed \ {p} /\ UNCHANGED faults
         \/ UNCHANGED files /\ owed' = owed \cup {p} /\ (Fault \/ UNCHANGED faults)
      /\ UNCHANGED <<caps, index, emits, expected, evicted, blind, unsure>>
  BY DEF Delete, DeleteFails
<1>4. k = [em[e] EXCEPT !.deletes = Tail(em[e].deletes)] /\ p = Head(em[e].deletes)
  OBVIOUS
<1> HIDE DEF p, k
<1>5. /\ k \in Emission /\ Works(e, k, expected, evicted)
      /\ p \in Paths /\ p \in Own(e) /\ (expected[p] = None \/ p \in evicted)
      /\ ToSet(em[e].deletes) = {p} \cup ToSet(k.deletes)
      /\ k.writes = em[e].writes /\ Kept(em[e], k)
  BY <1>1, <1>4, TakesDelete
<1> QED BY <1>1, <1>2, <1>3, <1>5

LEMMA Writes ==
    ASSUME Base, NEW e \in Emitters, Write(e) \/ WriteFails(e)
    PROVE  \E p \in Paths : \E k \in Emission :
              /\ em' = [em EXCEPT ![e] = k] /\ Works(e, k, expected, evicted)
              /\ expected[p] = em[e].content
              /\ ToSet(em[e].writes) = {p} \cup ToSet(k.writes)
              /\ k.deletes = em[e].deletes /\ Kept(em[e], k) /\ em[e].pc = "records"
              /\ \/ files' = [files EXCEPT ![p] = expected[p]] /\ owed' = owed \ {p}
                    /\ UNCHANGED faults
                 \/ UNCHANGED files /\ owed' = owed \cup {p} /\ Fault
              /\ UNCHANGED <<caps, index, emits, expected, evicted, blind, unsure>>
<1> DEFINE p == Head(em[e].writes)
           k == [em[e] EXCEPT !.writes = Tail(em[e].writes)]
           c == em[e].content
<1>1. em[e].pc = "records" /\ em[e].writes # <<>>
  BY DEF Write, WriteFails
<1>2. em' = [em EXCEPT ![e] = k]
  BY DEF Write, WriteFails
<1>3. /\ \/ files' = [files EXCEPT ![p] = c] /\ owed' = owed \ {p} /\ UNCHANGED faults
         \/ UNCHANGED files /\ owed' = owed \cup {p} /\ Fault
      /\ UNCHANGED <<caps, index, emits, expected, evicted, blind, unsure>>
  BY DEF Write, WriteFails
<1>4. k = [em[e] EXCEPT !.writes = Tail(em[e].writes)] /\ p = Head(em[e].writes)
  OBVIOUS
<1> HIDE DEF p, k
<1>5. /\ k \in Emission /\ Works(e, k, expected, evicted)
      /\ p \in Paths /\ p \in Own(e) /\ expected[p] = c
      /\ ToSet(em[e].writes) = {p} \cup ToSet(k.writes)
      /\ k.deletes = em[e].deletes /\ Kept(em[e], k)
  BY <1>1, <1>4, TakesWrite
<1> QED BY <1>1, <1>2, <1>3, <1>5

LEMMA DequeueBase ==
    ASSUME Base, NEW e \in Emitters,
           Delete(e) \/ DeleteFails(e) \/ Write(e) \/ WriteFails(e)
    PROVE  Base'
<1>1. PICK p \in Paths, k \in Emission :
          /\ em' = [em EXCEPT ![e] = k] /\ Works(e, k, expected, evicted)
          /\ \/ /\ \/ files' = [files EXCEPT ![p] = None]
                   \/ files' = [files EXCEPT ![p] = expected[p]]
                /\ owed' = owed \ {p} /\ UNCHANGED faults
             \/ UNCHANGED files /\ owed' = owed \cup {p} /\ (Fault \/ UNCHANGED faults)
          /\ UNCHANGED <<caps, index, emits, expected, evicted, blind, unsure>>
  <2>1. CASE Delete(e) \/ DeleteFails(e)
    BY <2>1, Deletes
  <2>2. CASE Write(e) \/ WriteFails(e)
    BY <2>2, Writes
  <2> QED BY <2>1, <2>2
<1>2. em' \in [Emitters -> Emission] /\ Working'
  BY <1>1, Turns
<1>3. files' \in [Paths -> Contents \cup {None}] /\ Faithful'
  <2>1. CASE UNCHANGED files
    BY <1>1, <2>1 DEF Base, Typed, Faithful, Genuine
  <2> DEFINE c == IF files' = [files EXCEPT ![p] = None] THEN None ELSE expected[p]
  <2>2. CASE ~ UNCHANGED files
    <3>1. files' = [files EXCEPT ![p] = c] /\ (c = None \/ c = expected[p]) /\ UNCHANGED expected
      BY <1>1, <2>2
    <3> HIDE DEF c
    <3> QED BY <3>1, Refiles
  <2> QED BY <2>1, <2>2
<1>4. faults' \in Nat /\ faults' <= MaxFaults
  BY <1>1, Faults DEF Base, Typed
<1>5. owed' \subseteq Paths \cup {Row(id) : id \in Ids}
  BY <1>1 DEF Base, Typed
<1>6. Typed'
  BY <1>1, <1>2, <1>3, <1>4, <1>5 DEF Base, Typed
<1> QED BY <1>2, <1>3, <1>6 DEF Base

\* The index is read for the merge, or taken for empty.
LEMMA FlushReadBase ==
    ASSUME Base, NEW e \in Emitters, FlushRead(e) \/ FlushReadFails(e)
    PROVE  \E k \in Emission :
              /\ em' = [em EXCEPT ![e] = k] /\ Works(e, k, expected, evicted)
              /\ k.pc = "merge" /\ k.at = Len(em[e].batch) /\ k.at = em[e].at
              /\ k.batch = em[e].batch /\ k.upserts = em[e].upserts
              /\ k.removes = em[e].removes /\ em[e].pc = "records"
              /\ em[e].deletes = <<>> /\ em[e].writes = <<>>
              /\ k.deletes = <<>> /\ k.writes = <<>>
              /\ k.existing = index \/ k.existing = [id \in Ids |-> None]
              /\ UNCHANGED <<caps, files, index, emits, hist>>
              /\ Base'
<1>1. PICK rows \in {index, [id \in Ids |-> None]} :
          FlushReads(e, rows) /\ (Fault \/ UNCHANGED faults)
  BY DEF FlushRead, FlushReadFails
<1> DEFINE m == em[e]
           k == [m EXCEPT !.pc = "merge", !.existing = rows]
<1>2. /\ m.pc = "records" /\ m.deletes = <<>> /\ m.writes = <<>> /\ m.at = Len(m.batch)
      /\ UNCHANGED <<caps, files, index, emits, hist>>
  BY <1>1 DEF FlushReads, Drained
<1>3. rows \in [Ids -> Contents \cup {None}]
  BY DEF Base, Typed
<1>4. m \in Emission /\ Works(e, m, expected, evicted) /\ m \in Emission
  BY Emissions
<1>5. em' = [em EXCEPT ![e] = k]
  BY <1>1, <1>4 DEF FlushReads, Emission, Base, Typed
<1> HIDE DEF m
<1>6. /\ k \in Emission /\ k.pc = "merge" /\ k.existing = rows /\ k.at = m.at
      /\ k.batch = m.batch /\ k.upserts = m.upserts /\ k.removes = m.removes
      /\ k.deletes = m.deletes /\ k.writes = m.writes /\ k.content = m.content
  BY <1>3, <1>4 DEF Emission
<1> HIDE DEF k
<1>7. Works(e, k, expected, evicted)
  BY <1>2, <1>4, <1>6 DEF Works
<1>8. em' \in [Emitters -> Emission] /\ Working'
  BY <1>2, <1>5, <1>6, <1>7, Turns DEF hist
<1>9. faults' \in Nat /\ faults' <= MaxFaults
  BY <1>1, Faults DEF Base, Typed
<1>10. Base'
  <2>1. Typed'
    BY <1>2, <1>8, <1>9 DEF Base, Typed, hist
  <2>2. Faithful'
    BY <1>2 DEF Base, Faithful, Genuine, hist
  <2> QED BY <1>8, <2>1, <2>2 DEF Base
<1> QED BY <1>2, <1>5, <1>6, <1>7, <1>10 DEF m

LEMMA MergedTypes ==
    ASSUME Base, NEW e \in Emitters
    PROVE  /\ Merged(e) \in [Ids -> Contents \cup {None}]
           /\ Queued(e) \subseteq Ids /\ Mistaken(e) \subseteq Ids
<1>1. em[e] \in Emission
  BY Emissions
<1>2. em[e].upserts \in [Ids -> Contents \cup {None}] /\ em[e].existing \in [Ids -> Contents \cup {None}]
  BY <1>1, EmissionTypes
<1> QED BY <1>2 DEF Merged, Queued, Mistaken

LEMMA FlushWriteBase ==
    ASSUME Base, NEW e \in Emitters, FlushWrite(e) \/ FlushWriteFails(e)
    PROVE  em' = [em EXCEPT ![e] = Idle] /\ Base'
<1>1. /\ em' = [em EXCEPT ![e] = Idle]
      /\ UNCHANGED <<caps, files, emits, expected, evicted, blind>>
      /\ Fault \/ UNCHANGED faults
      /\ index' = Merged(e) \/ UNCHANGED index
      /\ owed' \subseteq owed \cup {Row(id) : id \in Queued(e)}
      /\ unsure' \subseteq unsure \cup Mistaken(e)
  BY DEF FlushWrite, FlushWriteFails
<1>2. Works(e, Idle, expected, evicted)
  BY NoMembers DEF Works, Idle
<1>3. em' \in [Emitters -> Emission] /\ Working'
  <2> DEFINE k == Idle
  <2>1. k \in Emission /\ em' = [em EXCEPT ![e] = k] /\ Works(e, k, expected, evicted)
    BY <1>1, <1>2, IdleEmission
  <2> HIDE DEF k
  <2> QED BY <1>1, <2>1, Turns
<1>4. faults' \in Nat /\ faults' <= MaxFaults
  BY <1>1, Faults DEF Base, Typed
<1>5. Typed'
  BY <1>1, <1>3, <1>4, MergedTypes DEF Base, Typed
<1>6. Faithful'
  BY <1>1 DEF Base, Faithful, Genuine
<1> QED BY <1>1, <1>3, <1>5, <1>6 DEF Base

LEMMA RetryBase ==
    ASSUME Base, NEW p \in Paths, RetryPath(p)
    PROVE  Base'
<1> DEFINE c == expected[p]
<1>1. /\ files' = [files EXCEPT ![p] = c] /\ owed' = owed \ {p}
      /\ UNCHANGED <<caps, index, em, emits, faults, expected, evicted, blind, unsure>>
  BY DEF RetryPath
<1>2. files' \in [Paths -> Contents \cup {None}] /\ Faithful'
  <2>1. c = None \/ c = expected[p]
    OBVIOUS
  <2> HIDE DEF c
  <2> QED BY <1>1, <2>1, Refiles
<1>3. Typed'
  BY <1>1, <1>2 DEF Base, Typed
<1>4. Working'
  BY <1>1 DEF Base, Working, Works
<1> QED BY <1>2, <1>3, <1>4 DEF Base

-----------------------------------------------------------------------------
(* Planning a record.                                                        *)

\* Emitter e plans record r, of which it took prior for the last version, and
\* goes on as k.
Planned(e, r, prior, k) ==
    /\ em[e].pc = "records" /\ em[e].deletes = <<>> /\ em[e].writes = <<>>
    /\ em[e].at + 1 \in 1..Len(em[e].batch) /\ r = em[e].batch[em[e].at + 1]
    /\ prior = None \/ Genuine(ById(r.id), prior)
    /\ em' = [em EXCEPT ![e] = k]
    /\ k.pc = "records" /\ k.batch = em[e].batch /\ k.at = em[e].at + 1
    /\ k.deletes = Stale(r, prior) /\ k.writes = NewPaths(r) /\ k.content = ContentOf(r)
    /\ k.existing = em[e].existing
    /\ k.removes = IF r.version = Gone THEN em[e].removes \cup {r.id} ELSE em[e].removes
    /\ k.upserts = [em[e].upserts EXCEPT ![r.id] =
                      IF r.version = Gone THEN em[e].upserts[r.id] ELSE ContentOf(r)]
    /\ expected' = Publish(expected, r)
    /\ evicted' = (evicted \ Versions(r))
                  \cup {p \in ToSet(Stale(r, prior)) : expected'[p] # None}
    /\ blind' = blind \cup {id \in {r.id} : ~ Published(expected, id)
                                               \subseteq Versions(r) \cup PathsOf(prior)}
    /\ UNCHANGED <<caps, files, index, emits, owed, unsure>>
    /\ Fault \/ UNCHANGED faults

LEMMA Plans ==
    ASSUME Base, NEW e \in Emitters, Plan(e) \/ PlanReadFails(e)
    PROVE  \E r \in Given(e) : \E prior \in Contents \cup {None} : \E k \in Emission :
              Planned(e, r, prior, k)
<1> DEFINE m == em[e]
           r == m.batch[m.at + 1]
           gone == r.version = Gone
<1>1. PICK prior \in {None, files[ById(r.id)]} :
          PlanWith(e, prior) /\ More(e) /\ (Fault \/ UNCHANGED faults)
  BY DEF Plan, PlanReadFails
<1>2. m.pc = "records" /\ m.deletes = <<>> /\ m.writes = <<>> /\ m.at < Len(m.batch)
  BY <1>1 DEF More, Drained
<1>3. m \in Emission /\ Works(e, m, expected, evicted)
  BY Emissions
<1>4. m.batch \in Batches[e] /\ m.batch \in Seq(Records) /\ m.at \in Nat
      /\ m.upserts \in [Ids -> Contents \cup {None}] /\ m.removes \in SUBSET Ids
  BY <1>2, <1>3, EmissionTypes DEF Works
<1>5. m.at + 1 \in 1..Len(m.batch)
  BY <1>2, <1>4
<1>6. r \in ToSet(m.batch) /\ r \in Records /\ r \in Given(e)
  BY <1>4, <1>5, Members, GivenTypes
<1>7. r.id \in Ids /\ ContentOf(r) \in Contents \cup {None} /\ ById(r.id) \in Paths
      /\ NewPaths(r) \in Seq(Paths) /\ ToSet(NewPaths(r)) = Versions(r)
  BY <1>6, RecordTypes, RecordContents, RecordPaths DEF Paths, ById
<1>8. prior \in Contents \cup {None} /\ (prior = None \/ Genuine(ById(r.id), prior))
  BY <1>1, <1>7 DEF Base, Typed, Faithful
<1>9. Stale(r, prior) \in Seq(Paths)
  BY <1>6, <1>8, StaleOwn
<1> DEFINE up == [m.upserts EXCEPT ![r.id] = IF gone THEN m.upserts[r.id] ELSE ContentOf(r)]
           rm == IF gone THEN m.removes \cup {r.id} ELSE m.removes
           k == [m EXCEPT !.at = m.at + 1, !.deletes = Stale(r, prior), !.writes = NewPaths(r),
                          !.content = ContentOf(r), !.upserts = up, !.removes = rm]
<1> DEFINE step == [m EXCEPT !.at = @ + 1,
                             !.deletes = Stale(r, prior),
                             !.writes = NewPaths(r),
                             !.content = ContentOf(r),
                             !.upserts[r.id] = IF gone THEN @ ELSE ContentOf(r),
                             !.removes = IF gone THEN @ \cup {r.id} ELSE @]
<1>10. em' = [em EXCEPT ![e] = step]
  BY <1>1 DEF PlanWith
<1>11. em' = [em EXCEPT ![e] = k]
  <2>1. step = k
    <3> HIDE DEF m, r, gone
    <3> QED BY <1>3 DEF Emission
  <2> QED BY <1>10, <2>1
<1>12. /\ expected' = Publish(expected, r)
       /\ evicted' = (evicted \ Versions(r))
                     \cup {p \in ToSet(Stale(r, prior)) : expected'[p] # None}
       /\ blind' = blind \cup {id \in {r.id} : ~ Published(expected, id)
                                                  \subseteq Versions(r) \cup PathsOf(prior)}
       /\ UNCHANGED <<caps, files, index, emits, owed, unsure>>
  BY <1>1, <1>7 DEF PlanWith
<1> DEFINE at == m.at + 1
           ds == Stale(r, prior)
           ws == NewPaths(r)
           c == ContentOf(r)
<1>13. /\ up \in [Ids -> Contents \cup {None}] /\ rm \in SUBSET Ids /\ at \in Nat
       /\ ds \in Seq(Paths) /\ ws \in Seq(Paths) /\ c \in Contents \cup {None}
  BY <1>4, <1>7, <1>9
<1>14. k = [m EXCEPT !.at = at, !.deletes = ds, !.writes = ws, !.content = c,
                     !.upserts = up, !.removes = rm]
  OBVIOUS
<1> HIDE DEF m, r, gone, up, rm, k, step, at, ds, ws, c
<1>15. /\ k \in Emission /\ k.pc = m.pc /\ k.batch = m.batch /\ k.at = at
       /\ k.deletes = ds /\ k.writes = ws /\ k.content = c
       /\ k.existing = m.existing /\ k.removes = rm /\ k.upserts = up
  BY <1>3, <1>13, <1>14 DEF Emission
<1>16. Planned(e, r, prior, k)
  BY <1>1, <1>2, <1>5, <1>8, <1>11, <1>12, <1>15 DEF Planned, m, r, gone, up, rm, at, ds, ws, c
<1> QED BY <1>6, <1>8, <1>15, <1>16

\* What is published after r, path by path.
LEMMA Publishes ==
    ASSUME Base, NEW e \in Emitters, NEW r \in Given(e), expected' = Publish(expected, r)
    PROVE  /\ expected' \in [Paths -> Contents \cup {None}]
           /\ \A p \in Versions(r) : p \in Paths /\ expected'[p] = ContentOf(r)
           /\ \A p \in Paths \ Versions(r) :
                 /\ expected'[p] \in {None, expected[p]}
                 /\ expected[p] # None =>
                       expected'[p] = IF expected[p].id = r.id THEN None ELSE expected[p]
           /\ \A p \in Paths : expected'[p] = None \/ Genuine(p, expected'[p])
<1>1. r \in Records
  BY GivenTypes
<1>2. ToSet(NewPaths(r)) = Versions(r) /\ Versions(r) \subseteq Paths
  BY <1>1, RecordPaths, Members
<1>3. ContentOf(r) \in Contents \cup {None}
  BY <1>1, RecordContents
<1>4. expected' = [p \in Paths |-> IF p \in Versions(r) THEN ContentOf(r)
                                   ELSE IF expected[p] # None /\ expected[p].id = r.id THEN None
                                   ELSE expected[p]]
  BY <1>2 DEF Publish
<1>5. expected \in [Paths -> Contents \cup {None}]
  BY DEF Base, Typed
<1>6. ASSUME NEW p \in Paths PROVE expected'[p] = None \/ Genuine(p, expected'[p])
  <2>1. expected[p] = None \/ Genuine(p, expected[p])
    BY DEF Base, Faithful
  <2>2. CASE p \in Versions(r)
    <3>1. expected'[p] = ContentOf(r) /\ r.version # Gone
      BY <1>4, <2>2, VersionWhere
    <3> QED BY <2>2, <3>1 DEF Genuine
  <2>3. CASE p \notin Versions(r)
    BY <1>4, <2>1, <2>3
  <2> QED BY <2>2, <2>3
<1> QED BY <1>2, <1>3, <1>4, <1>5, <1>6

\* No other emitter's work is disturbed: it owns none of r's paths, and what
\* it writes is not r's.
LEMMA OthersWork ==
    ASSUME Base, NEW e \in Emitters, NEW r \in Given(e), expected' = Publish(expected, r),
           NEW f \in Emitters, f # e, NEW taken, evicted \ Versions(r) \subseteq taken
    PROVE  Works(f, em[f], expected', taken)
<1> DEFINE m == em[f]
<1>1. m \in Emission /\ Works(f, m, expected, evicted)
  BY Emissions
<1>2. ToSet(m.deletes) \subseteq Paths /\ ToSet(m.writes) \subseteq Paths
  BY <1>1, EmissionTypes, Members
<1>3. Own(f) \cap Versions(r) = {}
  BY Foreign
<1> HIDE DEF m
<1>4. ASSUME NEW p \in ToSet(m.deletes) PROVE p \in Own(f) /\ (expected'[p] = None \/ p \in taken)
  <2>1. p \in Own(f) /\ (expected[p] = None \/ p \in evicted) /\ p \notin Versions(r) /\ p \in Paths
    BY <1>1, <1>2, <1>3 DEF Works
  <2> QED BY <2>1, Publishes
<1>5. ASSUME NEW p \in ToSet(m.writes) PROVE p \in Own(f) /\ expected'[p] = m.content
  <2>1. p \in Own(f) /\ expected[p] = m.content /\ p \notin Versions(r) /\ p \in Paths
    BY <1>1, <1>2, <1>3 DEF Works
  <2>2. CASE expected[p] = None
    BY <2>1, <2>2, Publishes
  <2>3. CASE expected[p] # None
    <3>1. PICK g \in Emitters : \E s \in Given(g) :
              s.version # Gone /\ p \in Versions(s) /\ expected[p] = ContentOf(s)
      BY <2>1, <2>3 DEF Base, Faithful, Genuine
    <3>2. PICK s \in Given(g) : s.version # Gone /\ p \in Versions(s) /\ expected[p] = ContentOf(s)
      BY <3>1
    <3>3. g = f
      BY <2>1, <3>2, Foreign
    <3>4. s.id # r.id
      BY <3>3, Apart
    <3>5. expected[p].id # r.id
      BY <3>2, <3>4, GivenTypes, RecordContents
    <3> QED BY <2>1, <2>3, <3>5, Publishes
  <2> QED BY <2>2, <2>3
<1> QED BY <1>1, <1>4, <1>5 DEF Works, m

LEMMA PlanBase ==
    ASSUME Base, NEW e \in Emitters, NEW r \in Given(e), NEW prior,
           NEW k \in Emission, Planned(e, r, prior, k)
    PROVE  Base'
<1>1. r \in Records /\ r.id \in Ids /\ ToSet(NewPaths(r)) = Versions(r)
  BY GivenTypes, RecordTypes, RecordPaths
<1>2. /\ Stale(r, prior) \in Seq(Paths) /\ ToSet(Stale(r, prior)) \subseteq Own(e)
      /\ ToSet(Stale(r, prior)) \cap Versions(r) = {}
      /\ ToSet(Stale(r, prior)) \subseteq Paths
  <2>1. prior = None \/ Genuine(ById(r.id), prior)
    BY DEF Planned
  <2> QED BY <2>1, StaleOwn, Members
<1>3. expected' = Publish(expected, r)
  BY DEF Planned
<1>4. Works(e, k, expected', evicted')
  <2>1. /\ k.batch \in Batches[e] /\ k.at <= Len(k.batch) /\ k.pc = "records"
        /\ k.deletes = Stale(r, prior) /\ k.writes = NewPaths(r) /\ k.content = ContentOf(r)
    <3>1. em[e].pc = "records" /\ k.batch = em[e].batch /\ k.at \in 1..Len(em[e].batch)
      BY DEF Planned
    <3>2. em[e].batch \in Batches[e]
      BY <3>1, Emissions DEF Works
    <3>3. Len(em[e].batch) \in Nat
      BY <3>2, GivenTypes, Members
    <3>4. k.batch \in Batches[e] /\ k.at <= Len(k.batch)
      BY <3>1, <3>2, <3>3
    <3> QED BY <3>4 DEF Planned
  <2>2. ASSUME NEW p \in ToSet(k.deletes)
        PROVE  p \in Own(e) /\ (expected'[p] = None \/ p \in evicted')
    BY <1>2 DEF Planned
  <2>3. ASSUME NEW p \in ToSet(k.writes) PROVE p \in Own(e) /\ expected'[p] = k.content
    <3>1. p \in Versions(r)
      BY <1>1, <2>1
    <3>2. p \in Own(e)
      BY <3>1 DEF Own
    <3>3. expected'[p] = ContentOf(r)
      BY <1>3, <3>1, Publishes
    <3> QED BY <2>1, <3>2, <3>3
  <2> QED BY <2>1, <2>2, <2>3 DEF Works
<1>5. em' \in [Emitters -> Emission] /\ em'[e] = k /\ \A f \in Emitters \ {e} : em'[f] = em[f]
  BY DEF Base, Typed, Planned
<1>6. ASSUME NEW f \in Emitters PROVE Works(f, em'[f], expected', evicted')
  <2>1. CASE f # e
    <3>1. evicted \ Versions(r) \subseteq evicted'
      BY DEF Planned
    <3> DEFINE taken == evicted'
    <3>2. evicted \ Versions(r) \subseteq taken
      BY <3>1
    <3> HIDE DEF taken
    <3>3. Works(f, em[f], expected', taken)
      BY <1>3, <2>1, <3>2, OthersWork
    <3> QED BY <1>5, <2>1, <3>3 DEF taken
  <2> QED BY <1>4, <1>5, <2>1
<1>7. Working'
  BY <1>6 DEF Working, Works
<1>8. Faithful'
  <2>1. \A p \in Paths : expected'[p] = None \/ Genuine(p, expected'[p])
    BY <1>3, Publishes
  <2>2. UNCHANGED files
    BY DEF Planned
  <2> QED BY <2>1, <2>2 DEF Base, Faithful, Genuine
<1>9. Typed'
  <2>1. evicted' \subseteq Paths /\ blind' \subseteq Ids
    BY <1>1, <1>2 DEF Base, Typed, Planned
  <2>2. faults' \in Nat /\ faults' <= MaxFaults
    BY Faults DEF Base, Typed, Planned
  <2>3. expected' \in [Paths -> Contents \cup {None}]
    BY <1>3, Publishes
  <2> QED BY <1>5, <2>1, <2>2, <2>3 DEF Base, Typed, Planned
<1> QED BY <1>7, <1>8, <1>9 DEF Base

-----------------------------------------------------------------------------
LEMMA Starts == Init => Base
<1> SUFFICES ASSUME Init PROVE Base
  OBVIOUS
<1>1. Typed
  <2>1. \A e \in Emitters : MaxEmits[e] \in Nat /\ MaxFaults \in Nat
    BY BatchesAssumption
  <2>2. MaxFaults \in Nat
    BY BatchesAssumption
  <2> QED BY <2>1, <2>2, IdleEmission DEF Init, Typed
<1>2. Faithful
  BY DEF Init, Faithful
<1>3. Working
  BY NoMembers DEF Init, Working, Works, Idle
<1> QED BY <1>1, <1>2, <1>3 DEF Base

\* What a step can be.
LEMMA Steps ==
    ASSUME Next
    PROVE  \/ \E e \in Emitters :
                 \/ \E batch \in Batches[e] : Begin(e, batch)
                 \/ Plan(e) \/ PlanReadFails(e)
                 \/ Delete(e) \/ DeleteFails(e) \/ Write(e) \/ WriteFails(e)
                 \/ FlushRead(e) \/ FlushReadFails(e) \/ FlushWrite(e) \/ FlushWriteFails(e)
           \/ \E p \in Paths : RetryPath(p)
BY DEF Next, Emitter, Client

LEMMA BaseStep == Base /\ [Next]_vars => Base'
<1> SUFFICES ASSUME Base, [Next]_vars PROVE Base'
  OBVIOUS
<1>1. CASE UNCHANGED vars
  BY <1>1 DEF Base, Typed, Faithful, Genuine, Working, Works, vars
<1>2. ASSUME NEW e \in Emitters, NEW batch \in Batches[e], Begin(e, batch) PROVE Base'
  BY <1>2, Begins
<1>3. ASSUME NEW e \in Emitters, Plan(e) \/ PlanReadFails(e) PROVE Base'
  <2>1. PICK r \in Given(e) : \E prior \in Contents \cup {None} : \E k \in Emission :
            Planned(e, r, prior, k)
    BY <1>3, Plans
  <2>2. PICK prior \in Contents \cup {None}, k \in Emission : Planned(e, r, prior, k)
    BY <2>1
  <2> QED BY <2>2, PlanBase
<1>4. ASSUME NEW e \in Emitters, Delete(e) \/ DeleteFails(e) \/ Write(e) \/ WriteFails(e)
      PROVE  Base'
  BY <1>4, DequeueBase
<1>5. ASSUME NEW e \in Emitters, FlushRead(e) \/ FlushReadFails(e) PROVE Base'
  BY <1>5, FlushReadBase
<1>6. ASSUME NEW e \in Emitters, FlushWrite(e) \/ FlushWriteFails(e) PROVE Base'
  BY <1>6, FlushWriteBase
<1>7. ASSUME NEW p \in Paths, RetryPath(p) PROVE Base'
  BY <1>7, RetryBase
<1>8. CASE Next
  BY <1>2, <1>3, <1>4, <1>5, <1>6, <1>7, <1>8, Steps
<1> QED BY <1>1, <1>8

LEMMA AlwaysBase == Spec => []Base
<1>1. Init => Base
  BY Starts
<1>2. Base /\ [Next]_vars => Base'
  BY BaseStep
<1> QED BY <1>1, <1>2, PTL DEF Spec

\* The files, the index and each emission keep their shape, and an emission
\* stays within its batch, for any emitters and batches (runEmitBatch and the
\* index reconciler's flush).
THEOREM TypeCorrect == Spec => []TypeOK
<1>1. Base => TypeOK
  <2> SUFFICES ASSUME Base PROVE TypeOK
    OBVIOUS
  <2>1. \A e \in Emitters : em[e].at <= Len(em[e].batch)
    BY Emissions DEF Works
  <2>2. \A e \in Emitters : emits[e] \in 0..MaxEmits[e]
    BY BatchesAssumption DEF Base, Typed
  <2>3. faults \in 0..MaxFaults
    BY BatchesAssumption DEF Base, Typed
  <2> QED BY <2>1, <2>2, <2>3 DEF Base, Typed, TypeOK
<1> QED BY <1>1, AlwaysBase, PTL

-----------------------------------------------------------------------------
(* Every file that is wrong is being dealt with or reported.                 *)

\* No record is given that has a key and no name: of such a record the by-id
\* alias does not say which title it was published under.
Named == \A e \in Emitters : \A r \in Given(e) :
            r.version # Gone /\ r.version.name = Blank => r.version.key = Blank

Settled(p) ==
    \/ files[p] = expected[p]
    \/ p \in owed
    \/ Pending(p)
    \/ p \in evicted
    \/ expected[p] = None /\ files[p].id \in blind

Accounted == \A p \in Paths : Settled(p)

Lists(m) == ToSet(m.deletes) \cup ToSet(m.writes)

LEMMA StaysPending ==
    ASSUME Base, NEW e \in Emitters, NEW k, em' = [em EXCEPT ![e] = k], NEW p, Pending(p),
           p \in Lists(em[e]) => p \in Lists(k)
    PROVE  Pending(p)'
<1>1. em'[e] = k /\ \A f \in Emitters \ {e} : em'[f] = em[f]
  BY DEF Base, Typed
<1>2. PICK f \in Emitters : p \in Lists(em[f])
  BY DEF Pending, Lists
<1>3. p \in Lists(em'[f])
  BY <1>1, <1>2
<1> QED BY <1>3 DEF Pending, Lists

LEMMA Undisturbed ==
    ASSUME Base, NEW p \in Paths, Settled(p), Pending(p) => Pending(p)',
           p \in owed => p \in owed', UNCHANGED <<files, expected, evicted, blind>>
    PROVE  Settled(p)'
BY DEF Settled

LEMMA Rowless == \A p \in Paths : \A id : p # Row(id)
<1> SUFFICES ASSUME NEW p \in Paths, NEW id, p = Row(id) PROVE FALSE
  OBVIOUS
<1>1. p[1] \in {"space", "by-title", "by-id", "by-key"}
  BY DEF Paths
<1>2. p[1] = "row"
  BY DEF Row
<1> QED BY <1>1, <1>2

LEMMA DequeueAccounted ==
    ASSUME Base, Accounted, NEW e \in Emitters,
           Delete(e) \/ DeleteFails(e) \/ Write(e) \/ WriteFails(e)
    PROVE  Accounted'
<1>1. PICK p \in Paths, k \in Emission :
          /\ em' = [em EXCEPT ![e] = k] /\ Lists(em[e]) \subseteq {p} \cup Lists(k)
          /\ \/ /\ \/ files' = [files EXCEPT ![p] = None] /\ (expected[p] = None \/ p \in evicted)
                   \/ files' = [files EXCEPT ![p] = expected[p]]
                /\ owed' = owed \ {p}
             \/ UNCHANGED files /\ owed' = owed \cup {p}
          /\ UNCHANGED <<expected, evicted, blind>>
  <2>1. CASE Delete(e) \/ DeleteFails(e)
    <3>1. PICK p \in Paths, k \in Emission :
              /\ em' = [em EXCEPT ![e] = k]
              /\ expected[p] = None \/ p \in evicted
              /\ ToSet(em[e].deletes) = {p} \cup ToSet(k.deletes)
              /\ k.writes = em[e].writes
              /\ \/ files' = [files EXCEPT ![p] = None] /\ owed' = owed \ {p}
                 \/ UNCHANGED files /\ owed' = owed \cup {p}
              /\ UNCHANGED <<expected, evicted, blind>>
      BY <2>1, Deletes
    <3>2. Lists(em[e]) \subseteq {p} \cup Lists(k)
      BY <3>1 DEF Lists
    <3> QED BY <3>1, <3>2
  <2>2. CASE Write(e) \/ WriteFails(e)
    <3>1. PICK p \in Paths, k \in Emission :
              /\ em' = [em EXCEPT ![e] = k]
              /\ ToSet(em[e].writes) = {p} \cup ToSet(k.writes)
              /\ k.deletes = em[e].deletes
              /\ \/ files' = [files EXCEPT ![p] = expected[p]] /\ owed' = owed \ {p}
                 \/ UNCHANGED files /\ owed' = owed \cup {p}
              /\ UNCHANGED <<expected, evicted, blind>>
      BY <2>2, Writes
    <3>2. Lists(em[e]) \subseteq {p} \cup Lists(k)
      BY <3>1 DEF Lists
    <3> QED BY <3>1, <3>2
  <2> QED BY <2>1, <2>2
<1>2. files \in [Paths -> Contents \cup {None}]
  BY DEF Base, Typed
<1>3. Settled(p)'
  BY <1>1, <1>2 DEF Settled
<1>4. ASSUME NEW q \in Paths, q # p PROVE Settled(q)'
  <2>1. Settled(q)
    BY DEF Accounted
  <2>2. Pending(q) => Pending(q)'
    <3>1. q \in Lists(em[e]) => q \in Lists(k)
      BY <1>1, <1>4
    <3> QED BY <1>1, <3>1, StaysPending
  <2>3. files'[q] = files[q] /\ (q \in owed => q \in owed')
    BY <1>1, <1>2, <1>4
  <2> QED BY <1>1, <2>1, <2>2, <2>3 DEF Settled
<1> QED BY <1>3, <1>4 DEF Accounted

\* The paths the history takes a version to have are those the plan deletes.
LEMMA Recalled ==
    ASSUME Named, NEW e \in Emitters, NEW r \in Given(e), NEW prior, prior # None,
           Genuine(ById(r.id), prior)
    PROVE  PathsOf(prior) = SpaceSet(r.id, prior.name, prior.key)
<1>1. PICK s \in Given(e) : s.id = r.id /\ s.version # Gone /\ prior = ContentOf(s)
  BY Known
<1>2. s \in Records
  BY GivenTypes
<1>3. /\ prior \in Contents /\ prior.id = r.id /\ prior.name = s.version.name
      /\ prior.key = s.version.key
  BY <1>1, <1>2, RecordContents
<1>4. prior.name = Blank => prior.key = Blank
  BY <1>1, <1>3 DEF Named
<1> DEFINE v == VersionOf(prior)
<1>5. /\ v.id = r.id /\ v.version.name = prior.name /\ v.version.key = prior.key
      /\ v.version \in Fields /\ v \in Records
  BY <1>3 DEF VersionOf, Contents, Fields, Records
<1>6. v.version # Gone
  BY <1>5, AbsenceAssumption
<1>7. PathsOf(prior) = ToSet(NewPaths(v))
  BY DEF PathsOf
<1> HIDE DEF v
<1>8. ToSet(NewPaths(v)) = Versions(v)
  BY <1>5, RecordPaths
<1>9. (IF v.version.name # Blank THEN v.version.name ELSE v.version.key) = prior.name
  BY <1>4, <1>5
<1>10. Versions(v) = SpaceSet(r.id, prior.name, prior.key)
  BY <1>5, <1>6, <1>9 DEF Versions
<1> QED BY <1>7, <1>8, <1>10

LEMMA PlanAccounted ==
    ASSUME Named, Base, Accounted, NEW e \in Emitters, NEW r \in Given(e), NEW prior,
           NEW k \in Emission, Planned(e, r, prior, k)
    PROVE  Accounted'
<1>1. /\ em' = [em EXCEPT ![e] = k] /\ em[e].deletes = <<>> /\ em[e].writes = <<>>
      /\ k.deletes = Stale(r, prior) /\ k.writes = NewPaths(r)
      /\ expected' = Publish(expected, r) /\ evicted \ Versions(r) \subseteq evicted'
      /\ prior = None \/ Genuine(ById(r.id), prior)
      /\ blind \subseteq blind' /\ UNCHANGED <<files, owed>>
  BY DEF Planned
<1>2. r.id \in blind' \/ Published(expected, r.id) \subseteq Versions(r) \cup PathsOf(prior)
  BY DEF Planned
<1>3. ToSet(NewPaths(r)) = Versions(r)
  BY GivenTypes, RecordPaths
<1>4. Lists(k) = ToSet(Stale(r, prior)) \cup Versions(r) /\ Lists(em[e]) = {}
  BY <1>1, <1>3, NoMembers DEF Lists
<1>5. \A p \in Lists(k) : Pending(p)'
  <2>1. em'[e] = k
    BY <1>1 DEF Base, Typed
  <2> QED BY <2>1 DEF Pending, Lists
<1>6. ASSUME NEW p \in Paths PROVE Settled(p)'
  <2>1. Settled(p)
    BY DEF Accounted
  <2>2. Pending(p) => Pending(p)'
    BY <1>1, <1>4, StaysPending
  <2>3. CASE p \in Versions(r)
    BY <1>4, <1>5, <2>3 DEF Settled
  <2>4. CASE p \notin Versions(r) /\ expected'[p] = expected[p]
    BY <1>1, <2>1, <2>2, <2>4 DEF Settled
  <2>5. CASE p \notin Versions(r) /\ expected'[p] # expected[p]
    <3>1. expected[p] # None /\ expected[p].id = r.id /\ expected'[p] = None
      BY <1>1, <2>5, Publishes
    <3>2. CASE r.id \in blind'
      BY <1>1, <2>1, <2>2, <2>5, <3>1, <3>2 DEF Settled
    <3>3. CASE r.id \notin blind'
      <4>1. p \in PathsOf(prior) /\ prior # None
        BY <1>2, <2>5, <3>1, <3>3 DEF Published, PathsOf
      <4>2. p \in SpaceSet(r.id, prior.name, prior.key) \ Versions(r)
        BY <1>1, <2>5, <4>1, Recalled
      <4>3. p \in ToSet(Stale(r, prior))
        BY <1>1, <4>1, <4>2, StaleOwn
      <4> QED BY <1>4, <1>5, <4>3 DEF Settled
    <3> QED BY <3>2, <3>3
  <2> QED BY <2>3, <2>4, <2>5
<1> QED BY <1>6 DEF Accounted

LEMMA FlushAccounted ==
    ASSUME Base, Accounted, NEW e \in Emitters,
           \/ \E batch \in Batches[e] : Begin(e, batch)
           \/ FlushRead(e) \/ FlushReadFails(e) \/ FlushWrite(e) \/ FlushWriteFails(e)
    PROVE  Accounted'
<1>1. PICK k : /\ em' = [em EXCEPT ![e] = k] /\ Lists(em[e]) = {}
               /\ UNCHANGED <<files, expected, evicted, blind>>
               /\ owed \cap Paths \subseteq owed'
  <2>1. CASE \E batch \in Batches[e] : Begin(e, batch)
    <3>1. em[e].pc = "idle"
      BY <2>1 DEF Begin
    <3>2. Lists(em[e]) = {}
      BY <3>1, Emissions, NoMembers DEF Works, Lists
    <3> QED BY <2>1, <3>2 DEF Begin, hist
  <2>2. CASE FlushRead(e) \/ FlushReadFails(e)
    <3>1. em[e].deletes = <<>> /\ em[e].writes = <<>>
      BY <2>2, FlushReadBase
    <3>2. Lists(em[e]) = {}
      BY <3>1, NoMembers DEF Lists
    <3>3. PICK k \in Emission : em' = [em EXCEPT ![e] = k] /\ UNCHANGED <<caps, files, index, emits, hist>>
      BY <2>2, FlushReadBase
    <3> QED BY <3>2, <3>3 DEF hist
  <2>3. CASE FlushWrite(e) \/ FlushWriteFails(e)
    <3>1. em[e].pc = "merge"
      BY <2>3 DEF FlushWrite, FlushWriteFails
    <3>2. Lists(em[e]) = {}
      BY <3>1, Emissions, NoMembers DEF Works, Lists
    <3>3. owed \cap Paths \subseteq owed'
      BY <2>3, Rowless DEF FlushWrite, FlushWriteFails
    <3> QED BY <2>3, <3>2, <3>3 DEF FlushWrite, FlushWriteFails
  <2> QED BY <2>1, <2>2, <2>3
<1>2. ASSUME NEW p \in Paths PROVE Settled(p)'
  <2>1. Pending(p) => Pending(p)'
    BY <1>1, StaysPending
  <2>2. Settled(p) /\ (p \in owed => p \in owed')
    BY <1>1 DEF Accounted
  <2> QED BY <1>1, <2>1, <2>2, Undisturbed
<1> QED BY <1>2 DEF Accounted

LEMMA RetryAccounted ==
    ASSUME Base, Accounted, NEW p \in Paths, RetryPath(p)
    PROVE  Accounted'
<1>1. /\ files' = [files EXCEPT ![p] = expected[p]] /\ owed' = owed \ {p}
      /\ UNCHANGED <<em, expected, evicted, blind>>
  BY DEF RetryPath
<1>2. files \in [Paths -> Contents \cup {None}]
  BY DEF Base, Typed
<1>3. ASSUME NEW q \in Paths PROVE Settled(q)'
  <2>1. Settled(q)
    BY DEF Accounted
  <2> QED BY <1>1, <1>2, <2>1 DEF Settled, Pending
<1> QED BY <1>3 DEF Accounted

LEMMA AccountedStep == ASSUME Named PROVE Base /\ Accounted /\ [Next]_vars => Accounted'
<1> SUFFICES ASSUME Base, Accounted, [Next]_vars PROVE Accounted'
  OBVIOUS
<1>1. CASE UNCHANGED vars
  BY <1>1 DEF Accounted, Settled, Pending, vars
<1>2. ASSUME NEW e \in Emitters, Plan(e) \/ PlanReadFails(e) PROVE Accounted'
  <2>1. PICK r \in Given(e) : \E prior \in Contents \cup {None} : \E k \in Emission :
            Planned(e, r, prior, k)
    BY <1>2, Plans
  <2>2. PICK prior \in Contents \cup {None}, k \in Emission : Planned(e, r, prior, k)
    BY <2>1
  <2> QED BY <2>2, PlanAccounted
<1>3. ASSUME NEW e \in Emitters, Delete(e) \/ DeleteFails(e) \/ Write(e) \/ WriteFails(e)
      PROVE  Accounted'
  BY <1>3, DequeueAccounted
<1>4. ASSUME NEW e \in Emitters,
             \/ \E batch \in Batches[e] : Begin(e, batch)
             \/ FlushRead(e) \/ FlushReadFails(e) \/ FlushWrite(e) \/ FlushWriteFails(e)
      PROVE  Accounted'
  BY <1>4, FlushAccounted
<1>5. ASSUME NEW p \in Paths, RetryPath(p) PROVE Accounted'
  BY <1>5, RetryAccounted
<1>6. CASE Next
  BY <1>2, <1>3, <1>4, <1>5, <1>6, Steps
<1> QED BY <1>1, <1>6

\* Where every keyed record has a name, a file that is missing, out of date or
\* left over is still to be dealt with or named in an error, whatever fails
\* between the deletes and the writes of a record (runEmitBatch, the space
\* plan of a rename or a tombstone).
THEOREM GapsReported == ASSUME Named PROVE Spec => []GapIsReported
<1>1. Init => Accounted
  BY DEF Init, Accounted, Settled
<1>2. Base /\ Accounted /\ [Next]_vars => Accounted'
  BY AccountedStep
<1>3. Base /\ Accounted => GapIsReported
  <2> SUFFICES ASSUME Base, Accounted, NEW p \in Paths
               PROVE  \/ files[p] = expected[p]
                      \/ p \in owed \/ Pending(p)
                      \/ p \in evicted
                      \/ Holders(p) \cap blind # {}
    BY DEF GapIsReported
  <2>1. Settled(p)
    BY DEF Accounted
  <2>2. CASE files[p] # expected[p] /\ expected[p] = None /\ files[p].id \in blind
    BY <2>2 DEF Holders
  <2> QED BY <2>1, <2>2 DEF Settled
<1> QED BY <1>1, <1>2, <1>3, AlwaysBase, PTL DEF Spec

-----------------------------------------------------------------------------
(* The index has the rows of the records.                                    *)

LEMMA LastOf ==
    ASSUME NEW seq, Len(seq) \in Nat, NEW id, NEW i \in 1..Len(seq), seq[i].id = id,
           \A j \in (i + 1)..Len(seq) : seq[j].id # id
    PROVE  LastAt(seq, id) = i
<1> DEFINE I == {j \in 1..Len(seq) : seq[j].id = id}
<1>1. LastAt(seq, id) = IF I # {} THEN Max(I) ELSE 0
  BY DEF LastAt, SelectLastInSeq
<1>2. i \in I /\ \A j \in I : i >= j
  OBVIOUS
<1>3. \A x \in I : (\A y \in I : x >= y) => x = i
  BY <1>2
<1>4. Max(I) = i
  <2> DEFINE P(x) == \A y \in I : x >= y
  <2>1. Max(I) = CHOOSE x \in I : P(x)
    BY DEF Max
  <2>2. i \in I /\ P(i) /\ \A x \in I : P(x) => x = i
    BY <1>2, <1>3
  <2> HIDE DEF I, P
  <2> QED BY <2>1, <2>2
<1> QED BY <1>1, <1>2, <1>4

\* Only r's own by-id alias changes hands when r is published.
LEMMA ByIds ==
    ASSUME Base, NEW e \in Emitters, NEW r \in Given(e), expected' = Publish(expected, r)
    PROVE  /\ expected'[ById(r.id)] = ContentOf(r)
           /\ \A id \in Ids \ {r.id} : expected'[ById(id)] = expected[ById(id)]
<1>1. r \in Records /\ r.id \in Ids /\ \A id \in Ids : ById(id) \in Paths
  BY GivenTypes, RecordTypes DEF Paths, ById
<1>2. \A id, f : ById(id)[1] # "by-key" /\ ById(id)[2] = id
  BY DEF ById
<1>3. ASSUME NEW id \in Ids, expected[ById(id)] # None PROVE expected[ById(id)].id = id
  <2> DEFINE p == ById(id)
             c == expected[p]
  <2>1. Genuine(p, c)
    BY <1>1, <1>3 DEF Base, Faithful
  <2>2. p[1] # "by-key" /\ p[2] = id
    BY <1>2
  <2> HIDE DEF p, c
  <2>3. PICK f \in Emitters : \E s \in Given(f) :
            s.version # Gone /\ p \in Versions(s) /\ c = ContentOf(s)
    BY <2>1 DEF Genuine
  <2>4. PICK s \in Given(f) : s.version # Gone /\ p \in Versions(s) /\ c = ContentOf(s)
    BY <2>3
  <2>5. p[2] = s.id
    BY <2>2, <2>4, VersionWhere
  <2>6. c.id = id
    BY <2>2, <2>4, <2>5, GivenTypes, RecordContents
  <2> QED BY <2>6 DEF p, c
<1>4. expected'[ById(r.id)] = ContentOf(r)
  <2>1. CASE r.version # Gone
    <3>1. ById(r.id) \in Versions(r)
      BY <1>1, <2>1, RecordContents
    <3> QED BY <3>1, Publishes
  <2>2. CASE r.version = Gone
    <3>1. Versions(r) = {} /\ ContentOf(r) = None
      BY <2>2 DEF Versions, ContentOf
    <3>2. ById(r.id) \in Paths \ Versions(r)
      BY <1>1, <3>1
    <3>3. CASE expected[ById(r.id)] = None
      BY <3>1, <3>2, <3>3, Publishes
    <3>4. CASE expected[ById(r.id)] # None
      <4>1. expected[ById(r.id)].id = r.id
        BY <1>1, <1>3, <3>4
      <4> QED BY <3>1, <3>2, <3>4, <4>1, Publishes
    <3> QED BY <3>3, <3>4
  <2> QED BY <2>1, <2>2
<1>5. ASSUME NEW id \in Ids \ {r.id} PROVE expected'[ById(id)] = expected[ById(id)]
  <2> DEFINE p == ById(id)
  <2>1. p \in Paths /\ p[1] # "by-key" /\ p[2] = id
    BY <1>1, <1>2
  <2>2. expected[p] # None => expected[p].id = id
    BY <1>3
  <2> HIDE DEF p
  <2>3. p \notin Versions(r)
    BY <2>1, VersionWhere
  <2>4. expected'[p] = expected[p]
    BY <2>1, <2>2, <2>3, Publishes
  <2> QED BY <2>4 DEF p
<1> QED BY <1>4, <1>5

\* What emission m has queued says of the records it planned: each is queued,
\* and the last of an id as it should be published.
Latest(m, i) == \A j \in (i + 1)..m.at : m.batch[j].id # m.batch[i].id

Told(m, r) == /\ r.version = Gone => r.id \in m.removes
              /\ r.version # Gone => m.upserts[r.id] # None

Final(m, want, r) == /\ want[ById(r.id)] = ContentOf(r)
                     /\ r.version # Gone => m.upserts[r.id] = ContentOf(r)

Tracks(m, want) ==
    /\ \A i \in 1..m.at : Told(m, m.batch[i])
    /\ \A i \in 1..m.at : Latest(m, i) => Final(m, want, m.batch[i])
    /\ \A i \in 1..m.at : \E j \in 1..m.at : m.batch[j].id = m.batch[i].id /\ Latest(m, j)
    /\ \A id \in Ids : m.upserts[id] # None \/ id \in m.removes =>
          \E i \in 1..m.at : m.batch[i].id = id

Tracking == \A e \in Emitters : em[e].pc # "idle" => Tracks(em[e], expected)

LEMMA BeginTracks ==
    ASSUME NEW batch, NEW k, k = [Idle EXCEPT !.pc = "records", !.batch = batch], NEW want
    PROVE  Tracks(k, want)
<1>1. k.at = 0 /\ k.upserts = [id \in Ids |-> None] /\ k.removes = {}
  BY DEF Idle
<1> QED BY <1>1 DEF Tracks

LEMMA SameTracks ==
    ASSUME NEW m, NEW k, NEW want, Tracks(m, want), k.at = m.at, k.batch = m.batch,
           k.upserts = m.upserts, k.removes = m.removes
    PROVE  Tracks(k, want)
BY DEF Tracks, Told, Final, Latest

\* The ids of the records of a batch under way are one emitter's.
LEMMA BatchIds ==
    ASSUME Base, NEW e \in Emitters, em[e].pc # "idle", NEW i \in 1..Len(em[e].batch)
    PROVE  /\ em[e].batch[i] \in Given(e) /\ em[e].batch[i] \in ToSet(em[e].batch)
           /\ em[e].batch[i] \in Records /\ em[e].batch[i].id \in Ids
<1>1. em[e].batch \in Batches[e]
  BY Emissions DEF Works
<1>2. em[e].batch \in Seq(Records) /\ ToSet(em[e].batch) \subseteq Given(e)
  BY <1>1, GivenTypes
<1> QED BY <1>2, Members, RecordTypes

\* Another emitter's plan leaves e's records where they are.
LEMMA OthersTrack ==
    ASSUME Base, NEW e \in Emitters, NEW r \in Given(e), expected' = Publish(expected, r),
           NEW f \in Emitters, f # e, em[f].pc # "idle", Tracks(em[f], expected)
    PROVE  Tracks(em[f], expected')
<1> DEFINE m == em[f]
<1>1. m \in Emission /\ Works(f, m, expected, evicted)
  BY Emissions
<1>2. m.at \in Nat /\ Len(m.batch) \in Nat /\ m.at <= Len(m.batch)
  BY <1>1, EmissionTypes, Members DEF Works
<1>3. ASSUME NEW i \in 1..m.at
      PROVE  expected'[ById(m.batch[i].id)] = expected[ById(m.batch[i].id)]
  <2>1. i \in 1..Len(m.batch)
    BY <1>2
  <2>2. m.batch[i] \in Given(f) /\ m.batch[i].id \in Ids
    BY <2>1, BatchIds
  <2>3. m.batch[i].id # r.id
    BY <2>2, Apart
  <2> QED BY <2>2, <2>3, ByIds
<1> HIDE DEF m
<1>4. Tracks(m, expected)
  BY DEF m
<1>5. \A i \in 1..m.at : Latest(m, i) => Final(m, expected', m.batch[i])
  BY <1>3, <1>4 DEF Tracks, Final
<1>6. Tracks(m, expected')
  BY <1>4, <1>5 DEF Tracks
<1> QED BY <1>6 DEF m

\* The record just planned is the last of its id.
LEMMA PlanTracks ==
    ASSUME Base, NEW e \in Emitters, NEW r \in Given(e), NEW prior, NEW k \in Emission,
           Planned(e, r, prior, k), Tracks(em[e], expected)
    PROVE  Tracks(k, expected')
<1> DEFINE m == em[e]
           at == m.at
<1>1. /\ m.pc = "records" /\ at + 1 \in 1..Len(m.batch) /\ r = m.batch[at + 1]
      /\ k.at = at + 1 /\ k.batch = m.batch
      /\ k.removes = (IF r.version = Gone THEN m.removes \cup {r.id} ELSE m.removes)
      /\ k.upserts = [m.upserts EXCEPT ![r.id] =
                        IF r.version = Gone THEN m.upserts[r.id] ELSE ContentOf(r)]
      /\ expected' = Publish(expected, r)
  BY DEF Planned
<1>2. m \in Emission
  BY Emissions
<1>3. at \in Nat /\ m.upserts \in [Ids -> Contents \cup {None}] /\ Len(m.batch) \in Nat
  BY <1>2, EmissionTypes, Members
<1>4. r \in Records /\ r.id \in Ids
  BY GivenTypes, RecordTypes
<1>5. \A i \in 1..(at + 1) : i \in 1..Len(m.batch)
  BY <1>1, <1>3
<1>6. \A i \in 1..(at + 1) : m.batch[i].id \in Ids
  BY <1>1, <1>5, BatchIds
<1>7. /\ expected'[ById(r.id)] = ContentOf(r)
      /\ \A id \in Ids \ {r.id} : expected'[ById(id)] = expected[ById(id)]
  BY <1>1, ByIds
<1>8. /\ r.version # Gone => ContentOf(r) # None /\ k.upserts[r.id] = ContentOf(r)
      /\ r.version = Gone => k.upserts = m.upserts
      /\ \A id \in Ids \ {r.id} : k.upserts[id] = m.upserts[id]
      /\ \A id \in Ids : m.upserts[id] # None => k.upserts[id] # None
      /\ \A id \in Ids : id # r.id => (id \in k.removes <=> id \in m.removes)
      /\ m.removes \subseteq k.removes
      /\ r.version = Gone => r.id \in k.removes
  <2> DEFINE c == ContentOf(r)
             u == m.upserts
             v == k.upserts
             a == m.removes
             b == k.removes
  <2>1. (r.version # Gone => c # None) /\ u \in [Ids -> Contents \cup {None}] /\ r.id \in Ids
    BY <1>3, <1>4, RecordContents
  <2>2. /\ v = [u EXCEPT ![r.id] = IF r.version = Gone THEN u[r.id] ELSE c]
        /\ b = IF r.version = Gone THEN a \cup {r.id} ELSE a
    BY <1>1
  <2> HIDE DEF c, u, v, a, b
  <2>3. \A id \in Ids : v[id] = IF id = r.id /\ r.version # Gone THEN c ELSE u[id]
    BY <2>1, <2>2
  <2>4. r.version = Gone => v = u
    BY <2>1, <2>2
  <2>5. /\ \A id \in Ids : id # r.id => (id \in b <=> id \in a)
        /\ a \subseteq b /\ (r.version = Gone => r.id \in b)
    BY <2>2
  <2> QED BY <2>1, <2>3, <2>4, <2>5 DEF c, u, v, a, b
<1> HIDE DEF m, at
<1>9. Tracks(m, expected)
  BY DEF m
<1>10. \A i \in 1..(at + 1) : i \in 1..at \/ i = at + 1
  BY <1>3
<1>11. \A i \in 1..at : i \in 1..(at + 1)
  BY <1>3
<1>12. Latest(k, at + 1)
  BY <1>1, <1>3 DEF Latest
<1>13. ASSUME NEW i \in 1..at
       PROVE  /\ Latest(k, i) => Latest(m, i) /\ m.batch[i].id # r.id
              /\ Latest(m, i) /\ m.batch[i].id # r.id => Latest(k, i)
  <2>1. at + 1 \in (i + 1)..(at + 1) /\ \A j \in (i + 1)..at : j \in (i + 1)..(at + 1)
    BY <1>3
  <2>2. \A j \in (i + 1)..(at + 1) : j \in (i + 1)..at \/ j = at + 1
    BY <1>3
  <2> QED BY <1>1, <2>1, <2>2 DEF Latest, at
<1>14. \A i \in 1..k.at : Told(k, k.batch[i])
  <2>1. ASSUME NEW i \in 1..at PROVE Told(k, m.batch[i])
    <3>1. Told(m, m.batch[i]) /\ m.batch[i].id \in Ids
      BY <1>6, <1>9, <1>11 DEF Tracks, at
    <3> QED BY <1>8, <3>1 DEF Told
  <2>2. Told(k, r)
    BY <1>8 DEF Told
  <2> QED BY <1>1, <1>10, <2>1, <2>2
<1>15. \A i \in 1..k.at : Latest(k, i) => Final(k, expected', k.batch[i])
  <2>1. ASSUME NEW i \in 1..at, Latest(k, i) PROVE Final(k, expected', m.batch[i])
    <3>1. Latest(m, i) /\ m.batch[i].id # r.id /\ m.batch[i].id \in Ids
      BY <1>6, <1>11, <1>13, <2>1
    <3>2. Final(m, expected, m.batch[i])
      BY <1>9, <3>1 DEF Tracks, at
    <3> QED BY <1>7, <1>8, <3>1, <3>2 DEF Final
  <2>2. Final(k, expected', r)
    BY <1>7, <1>8 DEF Final
  <2> QED BY <1>1, <1>10, <2>1, <2>2
<1>16. ASSUME NEW i \in 1..k.at
       PROVE  \E j \in 1..k.at : k.batch[j].id = k.batch[i].id /\ Latest(k, j)
  <2>1. CASE m.batch[i].id = r.id
    <3>1. at + 1 \in 1..k.at
      BY <1>1, <1>3
    <3> QED BY <1>1, <1>12, <2>1, <3>1
  <2>2. CASE m.batch[i].id # r.id
    <3>1. i \in 1..at
      BY <1>1, <1>10, <2>2
    <3>2. PICK j \in 1..at : m.batch[j].id = m.batch[i].id /\ Latest(m, j)
      BY <1>9, <3>1 DEF Tracks, at
    <3>3. Latest(k, j) /\ j \in 1..k.at
      BY <1>1, <1>11, <1>13, <2>2, <3>2
    <3> QED BY <1>1, <3>2, <3>3
  <2> QED BY <2>1, <2>2
<1>17. ASSUME NEW id \in Ids, k.upserts[id] # None \/ id \in k.removes
       PROVE  \E i \in 1..k.at : k.batch[i].id = id
  <2>1. CASE id = r.id
    <3>1. at + 1 \in 1..k.at
      BY <1>1, <1>3
    <3> QED BY <1>1, <2>1, <3>1
  <2>2. CASE id # r.id
    <3>1. m.upserts[id] # None \/ id \in m.removes
      BY <1>8, <1>17, <2>2
    <3>2. PICK i \in 1..at : m.batch[i].id = id
      BY <1>9, <3>1 DEF Tracks, at
    <3> QED BY <1>1, <1>11, <3>2
  <2> QED BY <2>1, <2>2
<1> QED BY <1>14, <1>15, <1>16, <1>17 DEF Tracks

\* A step of e that plans nothing and leaves its queue alone, or ends its batch.
LEMMA StepTracks ==
    ASSUME Base, Tracking, NEW e \in Emitters, NEW k, em' = [em EXCEPT ![e] = k],
           UNCHANGED expected, k.pc = "idle" \/ Tracks(k, expected)
    PROVE  Tracking'
<1>1. em'[e] = k /\ \A f \in Emitters \ {e} : em'[f] = em[f]
  BY DEF Base, Typed
<1>2. ASSUME NEW f \in Emitters, em'[f].pc # "idle" PROVE Tracks(em'[f], expected)
  BY <1>1, <1>2 DEF Tracking
<1>3. ASSUME NEW f \in Emitters, em'[f].pc # "idle" PROVE Tracks(em'[f], expected')
  BY <1>2, <1>3
<1> QED BY <1>3 DEF Tracking, Tracks, Told, Final, Latest

LEMMA TrackingStep == Base /\ Tracking /\ [Next]_vars => Tracking'
<1> SUFFICES ASSUME Base, Tracking, [Next]_vars PROVE Tracking'
  OBVIOUS
<1>1. CASE UNCHANGED vars
  BY <1>1 DEF Tracking, Tracks, Told, Final, Latest, vars
<1>2. ASSUME NEW e \in Emitters, NEW batch \in Batches[e], Begin(e, batch) PROVE Tracking'
  <2> DEFINE k == [Idle EXCEPT !.pc = "records", !.batch = batch]
  <2>1. em' = [em EXCEPT ![e] = k] /\ UNCHANGED expected
    BY <1>2 DEF Begin, hist
  <2>2. k = [Idle EXCEPT !.pc = "records", !.batch = batch]
    OBVIOUS
  <2> HIDE DEF k
  <2>3. Tracks(k, expected)
    BY <2>2, BeginTracks
  <2> QED BY <2>1, <2>3, StepTracks
<1>3. ASSUME NEW e \in Emitters, Plan(e) \/ PlanReadFails(e) PROVE Tracking'
  <2>1. PICK r \in Given(e) : \E prior \in Contents \cup {None} : \E k \in Emission :
            Planned(e, r, prior, k)
    BY <1>3, Plans
  <2>2. PICK prior \in Contents \cup {None}, k \in Emission : Planned(e, r, prior, k)
    BY <2>1
  <2>3. em' = [em EXCEPT ![e] = k] /\ expected' = Publish(expected, r) /\ em[e].pc = "records"
    BY <2>2 DEF Planned
  <2>4. em'[e] = k /\ \A f \in Emitters \ {e} : em'[f] = em[f]
    BY <2>3 DEF Base, Typed
  <2>5. Tracks(k, expected')
    <3>1. Tracks(em[e], expected)
      BY <2>3 DEF Tracking
    <3> QED BY <2>2, <3>1, PlanTracks
  <2>6. ASSUME NEW f \in Emitters, em'[f].pc # "idle" PROVE Tracks(em'[f], expected')
    <3>1. ASSUME f # e PROVE Tracks(em[f], expected')
      <4>1. em[f].pc # "idle" /\ Tracks(em[f], expected)
        BY <2>4, <2>6, <3>1 DEF Tracking
      <4> QED BY <2>3, <3>1, <4>1, OthersTrack
    <3>2. CASE f = e
      BY <2>4, <2>5, <3>2
    <3>3. CASE f # e
      BY <2>4, <3>1, <3>3
    <3> QED BY <3>2, <3>3
  <2> QED BY <2>6 DEF Tracking, Tracks, Told, Final, Latest
<1>4. ASSUME NEW e \in Emitters, Delete(e) \/ DeleteFails(e) \/ Write(e) \/ WriteFails(e)
      PROVE  Tracking'
  <2>1. PICK k \in Emission : /\ em' = [em EXCEPT ![e] = k] /\ Kept(em[e], k)
                              /\ em[e].pc = "records" /\ UNCHANGED expected
    BY <1>4, Deletes, Writes
  <2>2. Tracks(em[e], expected)
    BY <2>1 DEF Tracking
  <2> DEFINE m == em[e]
  <2>3. Tracks(m, expected) /\ Kept(m, k)
    BY <2>1, <2>2
  <2> HIDE DEF m
  <2>4. Tracks(k, expected)
    BY <2>3, SameTracks DEF Kept
  <2> QED BY <2>1, <2>4, StepTracks
<1>5. ASSUME NEW e \in Emitters, FlushRead(e) \/ FlushReadFails(e) PROVE Tracking'
  <2>1. PICK k \in Emission : /\ em' = [em EXCEPT ![e] = k] /\ em[e].pc = "records"
                              /\ k.at = em[e].at /\ k.batch = em[e].batch
                              /\ k.upserts = em[e].upserts /\ k.removes = em[e].removes
                              /\ UNCHANGED expected
    BY <1>5, FlushReadBase DEF hist
  <2>2. Tracks(em[e], expected)
    BY <2>1 DEF Tracking
  <2> DEFINE m == em[e]
  <2>3. /\ Tracks(m, expected) /\ k.at = m.at /\ k.batch = m.batch
        /\ k.upserts = m.upserts /\ k.removes = m.removes
    BY <2>1, <2>2
  <2> HIDE DEF m
  <2>4. Tracks(k, expected)
    BY <2>3, SameTracks
  <2> QED BY <2>1, <2>4, StepTracks
<1>6. ASSUME NEW e \in Emitters, FlushWrite(e) \/ FlushWriteFails(e) PROVE Tracking'
  <2> DEFINE k == Idle
  <2>1. em' = [em EXCEPT ![e] = k] /\ k.pc = "idle" /\ UNCHANGED expected
    BY <1>6 DEF FlushWrite, FlushWriteFails, Idle
  <2> HIDE DEF k
  <2> QED BY <2>1, StepTracks
<1>7. ASSUME NEW p \in Paths, RetryPath(p) PROVE Tracking'
  BY <1>7 DEF RetryPath, Tracking, Tracks, Told, Final, Latest
<1>8. CASE Next
  BY <1>2, <1>3, <1>4, <1>5, <1>6, <1>7, <1>8, Steps
<1> QED BY <1>1, <1>8

\* At the merge every record of the batch is queued, and its row is right, or
\* known to be wrong; the row of another record is the one that was read.
LEMMA Merges ==
    ASSUME Base, Tracking, NEW e \in Emitters, em[e].pc = "merge", NEW id \in Ids
    PROVE  /\ id \in Queued(e) <=> \E r \in ToSet(em[e].batch) : r.id = id
           /\ id \in Queued(e) => Merged(e)[id] = expected[ById(id)] \/ id \in Mistaken(e)
           /\ id \notin Queued(e) => Merged(e)[id] = index[id] \/ id \in Mistaken(e)
<1> DEFINE m == em[e]
<1>1. m \in Emission /\ Works(e, m, expected, evicted) /\ m.pc = "merge"
  BY Emissions
<1>2. m.at = Len(m.batch) /\ m.batch \in Seq(Records) /\ Len(m.batch) \in Nat
  BY <1>1, EmissionTypes, Members DEF Works
<1>3. Tracks(m, expected)
  BY <1>1 DEF Tracking
<1>4. \A i \in 1..Len(m.batch) : m.batch[i] \in Records /\ m.batch[i] \in ToSet(m.batch)
  BY <1>2, Members
<1>5. \A r \in ToSet(m.batch) : \E i \in 1..Len(m.batch) : r = m.batch[i]
  BY <1>2, Members
<1>6. id \in Queued(e) <=> m.upserts[id] # None \/ id \in m.removes
  BY DEF Queued
<1>7. Merged(e)[id] = IF m.upserts[id] # None THEN m.upserts[id]
                      ELSE IF id \in m.removes THEN None
                      ELSE m.existing[id]
  BY DEF Merged
<1> DEFINE last == LastAt(m.batch, id)
<1>8. id \in Mistaken(e) <=>
         IF id \in Queued(e)
         THEN id \in m.removes /\ m.upserts[id] # None /\ m.batch[last].version = Gone
         ELSE m.existing[id] # index[id]
  BY DEF Mistaken
<1> HIDE DEF m, last
<1>9. id \in Queued(e) <=> \E i \in 1..m.at : m.batch[i].id = id
  <2>1. ASSUME id \in Queued(e) PROVE \E i \in 1..m.at : m.batch[i].id = id
    BY <1>3, <1>6, <2>1 DEF Tracks
  <2>2. ASSUME NEW i \in 1..m.at, m.batch[i].id = id PROVE id \in Queued(e)
    <3>1. Told(m, m.batch[i])
      BY <1>3 DEF Tracks
    <3> QED BY <1>6, <2>2, <3>1 DEF Told
  <2> QED BY <2>1, <2>2
<1>10. id \in Queued(e) <=> \E r \in ToSet(m.batch) : r.id = id
  BY <1>2, <1>4, <1>5, <1>9
<1>11. ASSUME id \in Queued(e)
       PROVE  Merged(e)[id] = expected[ById(id)] \/ id \in Mistaken(e)
  <2>1. PICK i \in 1..m.at : m.batch[i].id = id
    BY <1>9, <1>11
  <2>2. PICK j \in 1..m.at : m.batch[j].id = id /\ Latest(m, j)
    BY <1>3, <2>1 DEF Tracks
  <2> DEFINE r == m.batch[j]
  <2>3. Told(m, r) /\ Final(m, expected, r) /\ r \in Records /\ r.id = id
    BY <1>2, <1>3, <1>4, <2>2 DEF Tracks
  <2>4. last = j
    <3> DEFINE seq == m.batch
    <3>1. j \in 1..Len(seq) /\ seq[j].id = id /\ Len(seq) \in Nat
      BY <1>2, <2>2
    <3>2. \A i2 \in (j + 1)..Len(seq) : seq[i2].id # id
      BY <1>2, <2>2 DEF Latest
    <3> HIDE DEF seq
    <3>3. LastAt(seq, id) = j
      BY <3>1, <3>2, LastOf
    <3> QED BY <3>3 DEF last, seq
  <2>5. r.version = m.batch[last].version
    BY <2>4
  <2> HIDE DEF r
  <2>6. CASE r.version # Gone
    <3>1. m.upserts[id] = ContentOf(r) /\ ContentOf(r) # None /\ expected[ById(id)] = ContentOf(r)
      BY <2>3, <2>6, RecordContents DEF Final, Told
    <3> QED BY <1>7, <3>1
  <2>7. CASE r.version = Gone
    <3>1. id \in m.removes /\ expected[ById(id)] = None
      BY <2>3, <2>7 DEF Final, Told, ContentOf
    <3>2. CASE m.upserts[id] = None
      BY <1>7, <3>1, <3>2
    <3>3. CASE m.upserts[id] # None
      BY <1>8, <1>11, <2>5, <2>7, <3>1, <3>3
    <3> QED BY <3>2, <3>3
  <2> QED BY <2>6, <2>7
<1>12. id \notin Queued(e) => Merged(e)[id] = index[id] \/ id \in Mistaken(e)
  BY <1>6, <1>7, <1>8
<1> QED BY <1>10, <1>11, <1>12 DEF m

Follows(id) == \/ InHand(id)
               \/ index[id] = expected[ById(id)]
               \/ Row(id) \in owed
               \/ id \in unsure

Busy(m, id) == m.pc # "idle" /\ \E r \in ToSet(m.batch) : r.id = id

LEMMA StaysInHand ==
    ASSUME Base, NEW e \in Emitters, NEW k, em' = [em EXCEPT ![e] = k], NEW id, InHand(id),
           Busy(em[e], id) => Busy(k, id)
    PROVE  InHand(id)'
<1>1. em'[e] = k /\ \A f \in Emitters \ {e} : em'[f] = em[f]
  BY DEF Base, Typed
<1>2. PICK f \in Emitters : Busy(em[f], id)
  BY DEF InHand, Busy
<1>3. Busy(em'[f], id)
  BY <1>1, <1>2
<1> QED BY <1>3 DEF InHand, Busy

LEMMA FlushFollows ==
    ASSUME Base, Tracking, NEW e \in Emitters, FlushWrite(e) \/ FlushWriteFails(e),
           NEW id \in Ids, Follows(id)
    PROVE  Follows(id)'
<1>1. em[e].pc = "merge" /\ UNCHANGED expected
  BY DEF FlushWrite, FlushWriteFails
<1>2. /\ id \in Queued(e) <=> \E r \in ToSet(em[e].batch) : r.id = id
      /\ id \in Queued(e) => Merged(e)[id] = expected[ById(id)] \/ id \in Mistaken(e)
      /\ id \notin Queued(e) => Merged(e)[id] = index[id] \/ id \in Mistaken(e)
  BY <1>1, Merges
<1>3. \A i, j : Row(i) = Row(j) => i = j
  BY DEF Row
<1>4. ASSUME id \notin Queued(e) PROVE InHand(id) => InHand(id)'
  <2> DEFINE k == Idle
  <2>1. em' = [em EXCEPT ![e] = k] /\ ~ Busy(em[e], id)
    BY <1>2, <1>4 DEF FlushWrite, FlushWriteFails, Busy
  <2> HIDE DEF k
  <2> QED BY <2>1, StaysInHand
<1>5. CASE FlushWrite(e)
  <2>1. /\ index' = Merged(e) /\ owed' = owed \ {Row(i) : i \in Queued(e)}
        /\ unsure' = (unsure \ Queued(e)) \cup Mistaken(e)
    BY <1>5 DEF FlushWrite
  <2>2. CASE id \in Queued(e)
    BY <1>1, <1>2, <2>1, <2>2 DEF Follows
  <2>3. CASE id \notin Queued(e)
    <3>1. Row(id) \in owed => Row(id) \in owed'
      BY <1>3, <2>1, <2>3
    <3> QED BY <1>1, <1>2, <1>4, <2>1, <2>3, <3>1 DEF Follows
  <2> QED BY <2>2, <2>3
<1>6. CASE FlushWriteFails(e)
  <2>1. UNCHANGED <<index, unsure>> /\ owed' = owed \cup {Row(i) : i \in Queued(e)}
    BY <1>6 DEF FlushWriteFails
  <2> QED BY <1>1, <1>4, <2>1 DEF Follows
<1> QED BY <1>5, <1>6

\* The steps that leave the index alone and plan nothing.
LEMMA OthersFollow ==
    ASSUME Base, NEW e \in Emitters, NEW id \in Ids, Follows(id),
           \/ \E batch \in Batches[e] : Begin(e, batch)
           \/ Delete(e) \/ DeleteFails(e) \/ Write(e) \/ WriteFails(e)
           \/ FlushRead(e) \/ FlushReadFails(e)
    PROVE  Follows(id)'
<1>1. PICK k : /\ em' = [em EXCEPT ![e] = k] /\ (Busy(em[e], id) => Busy(k, id))
               /\ UNCHANGED <<index, expected, unsure>>
               /\ owed \ Paths \subseteq owed'
  <2>1. CASE \E batch \in Batches[e] : Begin(e, batch)
    BY <2>1 DEF Begin, hist, Busy
  <2>2. CASE Delete(e) \/ DeleteFails(e) \/ Write(e) \/ WriteFails(e)
    <3>1. PICK p \in Paths, k \in Emission :
              /\ em' = [em EXCEPT ![e] = k] /\ Kept(em[e], k)
              /\ owed' = owed \ {p} \/ owed' = owed \cup {p}
              /\ UNCHANGED <<index, expected, unsure>>
      BY <2>2, Deletes, Writes
    <3> QED BY <3>1 DEF Kept, Busy
  <2>3. CASE FlushRead(e) \/ FlushReadFails(e)
    <3>1. PICK k \in Emission : /\ em' = [em EXCEPT ![e] = k] /\ k.pc = "merge"
                                /\ k.batch = em[e].batch /\ UNCHANGED <<index, hist>>
      BY <2>3, FlushReadBase
    <3> QED BY <3>1 DEF Busy, hist
  <2> QED BY <2>1, <2>2, <2>3
<1>2. InHand(id) => InHand(id)'
  BY <1>1, StaysInHand
<1>3. Row(id) \in owed => Row(id) \in owed'
  BY <1>1, Rowless
<1> QED BY <1>1, <1>2, <1>3 DEF Follows

\* A plan puts its record in hand, and moves no other record's by-id alias.
LEMMA PlanFollows ==
    ASSUME Base, NEW e \in Emitters, NEW r \in Given(e), NEW prior, NEW k \in Emission,
           Planned(e, r, prior, k), NEW id \in Ids, Follows(id)
    PROVE  Follows(id)'
<1>1. /\ em' = [em EXCEPT ![e] = k] /\ em[e].pc = "records" /\ k.pc = "records"
      /\ k.batch = em[e].batch /\ expected' = Publish(expected, r)
      /\ em[e].at + 1 \in 1..Len(em[e].batch) /\ r = em[e].batch[em[e].at + 1]
      /\ UNCHANGED <<index, owed, unsure>>
  BY DEF Planned
<1>2. CASE id = r.id
  <2>1. r \in ToSet(em[e].batch)
    BY <1>1, BatchIds
  <2>2. em'[e] = k
    BY <1>1 DEF Base, Typed
  <2>3. InHand(id)'
    BY <1>1, <1>2, <2>1, <2>2 DEF InHand
  <2> QED BY <2>3 DEF Follows
<1>3. CASE id # r.id
  <2>1. expected'[ById(id)] = expected[ById(id)]
    BY <1>1, <1>3, ByIds
  <2>2. InHand(id) => InHand(id)'
    <3>1. Busy(em[e], id) => Busy(k, id)
      BY <1>1 DEF Busy
    <3> QED BY <1>1, <3>1, StaysInHand
  <2> QED BY <1>1, <2>1, <2>2 DEF Follows
<1> QED BY <1>2, <1>3

LEMMA FollowsStep ==
    Base /\ Tracking /\ IndexFollowsRecords /\ [Next]_vars => IndexFollowsRecords'
<1> SUFFICES ASSUME Base, Tracking, IndexFollowsRecords, [Next]_vars, NEW id \in Ids
             PROVE  Follows(id)'
  BY DEF IndexFollowsRecords, Follows
<1>1. Follows(id)
  BY DEF IndexFollowsRecords, Follows
<1>2. CASE UNCHANGED vars
  BY <1>1, <1>2 DEF Follows, InHand, vars
<1>3. ASSUME NEW e \in Emitters, Plan(e) \/ PlanReadFails(e) PROVE Follows(id)'
  <2>1. PICK r \in Given(e) : \E prior \in Contents \cup {None} : \E k \in Emission :
            Planned(e, r, prior, k)
    BY <1>3, Plans
  <2>2. PICK prior \in Contents \cup {None}, k \in Emission : Planned(e, r, prior, k)
    BY <2>1
  <2> QED BY <1>1, <2>2, PlanFollows
<1>4. ASSUME NEW e \in Emitters,
             \/ \E batch \in Batches[e] : Begin(e, batch)
             \/ Delete(e) \/ DeleteFails(e) \/ Write(e) \/ WriteFails(e)
             \/ FlushRead(e) \/ FlushReadFails(e)
      PROVE  Follows(id)'
  BY <1>1, <1>4, OthersFollow
<1>5. ASSUME NEW e \in Emitters, FlushWrite(e) \/ FlushWriteFails(e) PROVE Follows(id)'
  BY <1>1, <1>5, FlushFollows
<1>6. ASSUME NEW p \in Paths, RetryPath(p) PROVE Follows(id)'
  <2>1. owed' = owed \ {p} /\ UNCHANGED <<index, em, expected, unsure>>
    BY <1>6 DEF RetryPath
  <2>2. p # Row(id)
    BY Rowless
  <2> QED BY <1>1, <2>1, <2>2 DEF Follows, InHand
<1>7. CASE Next
  BY <1>3, <1>4, <1>5, <1>6, <1>7, Steps
<1> QED BY <1>2, <1>7

\* The index has the row of every record that has files, in its last version,
\* and no row of a record without, once its batches are flushed, however they
\* rename, remove and recreate records; a row not written is reported
\* (IndexFileReconciler: removals before upserts, the last of an id wins).
THEOREM IndexFollows == Spec => []IndexFollowsRecords
<1>1. Init => Tracking /\ IndexFollowsRecords
  <2>1. \A id \in Ids : ById(id) \in Paths
    BY DEF Paths, ById
  <2> QED BY <2>1 DEF Init, Tracking, Idle, IndexFollowsRecords
<1>2. Base /\ Tracking /\ [Next]_vars => Tracking'
  BY TrackingStep
<1>3. Base /\ Tracking /\ IndexFollowsRecords /\ [Next]_vars => IndexFollowsRecords'
  BY FollowsStep
<1> QED BY <1>1, <1>2, <1>3, AlwaysBase, PTL DEF Spec
=============================================================================
