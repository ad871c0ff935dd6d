------------------------ MODULE RecordMirror_proofs -------------------------
(* For any number of calls, titles, versions and failures: the mirror's      *)
(* files and the calls keep their types, no index row and no alias of a pull *)
(* request names a record whose canonical file was never stored, the cleanup *)
(* spares the alias just written, and a refresh fails closed.  Calls one     *)
(* after another: renames leave one title alias, an ingest repairs the rest. *)
EXTENDS RecordMirror, SequenceTheorems, TLAPS

AliasPaths == {"by-title", "by-title-collision"} \X Titles

Aliasing == {"previous", "by-id", "probe", "compare", "title", "sweep", "delete"}
Marking == {"pend alias", "pend meta"}
Refreshing == {"mark", "gate", "restore alias", "restore meta"} \cup Marking
Holding == {"verdict", "meta"} \cup Aliasing \cup Refreshing

Progress == [pc : {"idle", "fetch", "verdict", "meta", "previous", "by-id", "probe", "compare",
                   "title", "sweep", "delete", "mark", "pend alias", "pend meta", "gate",
                   "restore alias", "restore meta"},
             rec : Content, prev : Content, path : Paths, stored : BOOLEAN,
             envelope : 0..Len(TitleOf), stale : Seq(Paths)]

\* The canonical file of version v is among the files f.
StoredIn(f, v) == v = 0 \/ f[<<"meta", TitleOf[v]>>] # Missing

\* What a call k under way can count on while the mirror's files are f.
Fits(k, f) ==
    /\ k.pc \in Holding => k.rec.ver \in Versions
    /\ k.pc \in {"fetch", "verdict", "meta"} => ~k.stored
    /\ k.prev = Missing \/ k.prev.ver \in Versions
    /\ \A i \in DOMAIN k.stale : k.stale[i] \in AliasPaths
    /\ k.pc = "delete" => k.stale # <<>>
    /\ k.pc \in Aliasing => (k.stored \/ setting.kind = "pull" => StoredIn(f, k.rec.ver))
    /\ k.pc \in Refreshing =>
          /\ setting.kind = "pull" /\ f[ById] # Missing
          /\ StoredIn(f, k.rec.ver)
    /\ k.pc \in Marking => k.prev.ver \in Versions /\ StoredIn(f, k.prev.ver)

\* What is true of the files themselves.
Sound(f) ==
    /\ f \in [Paths -> Content]
    /\ \A p \in Paths : f[p] = Missing \/ f[p].ver \in Versions
    /\ setting.kind = "pull" => \A p \in Paths : StoredIn(f, f[p].ver)

\* Canonical files and the by-id alias never go away.
Grows(f, g) ==
    /\ \A t \in Titles : f[<<"meta", t>>] # Missing => g[<<"meta", t>>] # Missing
    /\ f[ById] # Missing => g[ById] # Missing

Rest ==
    /\ setting \in Settings
    /\ version \in Versions /\ verdict \in {"blocked", "ready"}
    /\ due \subseteq Versions /\ stirred \in BOOLEAN
    /\ faults \in 0..setting.faults /\ clean \in BOOLEAN /\ untitled \in BOOLEAN

Inv ==
    /\ Rest
    /\ Sound(file)
    /\ row \in 0..Len(TitleOf) /\ StoredIn(file, row)
    /\ call \in [Calls -> Progress]
    /\ \A c \in Calls : Fits(call[c], file)

USE MirrorAssumption

-----------------------------------------------------------------------------
(* Files.                                                                    *)

LEMMA Domains ==
    /\ Versions = 1..Len(TitleOf) /\ Len(TitleOf) \in Nat
    /\ \A v \in Versions : TitleOf[v] \in Titles
    /\ 1 \in Versions
BY DEF Versions

LEMMA PathTypes ==
    /\ ById \in Paths /\ AliasPaths \subseteq Paths
    /\ \A t \in Titles : <<"meta", t>> \in Paths
    /\ \A t \in Titles : <<"meta", t>> \notin AliasPaths /\ <<"meta", t>> # ById
    /\ ById \notin AliasPaths
BY DEF ById, Paths, AliasPaths

LEMMA NamesOfRecords ==
    ASSUME NEW rec \in Content, rec.ver \in Versions
    PROVE  /\ Canonical(rec) \in Paths /\ Canonical(rec) = <<"meta", TitleOf[rec.ver]>>
           /\ Alias(rec) \in AliasPaths /\ Fork(rec) \in AliasPaths
           /\ Alias(rec) # Fork(rec)
           /\ rec # Missing
BY Domains DEF Canonical, Alias, Fork, Paths, AliasPaths, Missing, Content

LEMMA MissingIsContent == Missing \in Content /\ Missing.ver = 0
BY Domains DEF Missing, Content

LEMMA StoredGrows ==
    ASSUME NEW f, NEW g, Grows(f, g), NEW v \in 0..Len(TitleOf), StoredIn(f, v)
    PROVE  StoredIn(g, v)
BY Domains DEF Grows, StoredIn

LEMMA FitsGrows ==
    ASSUME NEW f, NEW g, Grows(f, g), NEW k \in Progress, Fits(k, f)
    PROVE  Fits(k, g)
<1>1. k.rec.ver \in 0..Len(TitleOf) /\ k.prev.ver \in 0..Len(TitleOf)
  BY Domains DEF Progress, Content
<1> QED BY <1>1, StoredGrows DEF Fits, Grows

\* Writing a record, which a pull request only does when its canonical file is
\* there or is what is written.
LEMMA RecordWritten ==
    ASSUME Sound(file), NEW path \in Paths, NEW rec \in Content, rec.ver \in Versions,
           Write(path, rec),
           setting.kind = "pull" => (path = Canonical(rec) \/ StoredIn(file, rec.ver))
    PROVE  /\ Sound(file') /\ Grows(file, file')
           /\ file'[path] = rec
           /\ path = Canonical(rec) => StoredIn(file', rec.ver)
<1>0. rec # Missing /\ Canonical(rec) = <<"meta", TitleOf[rec.ver]>>
  BY NamesOfRecords
<1>1. /\ file' \in [Paths -> Content] /\ file'[path] = rec
      /\ \A p \in Paths : p # path => file'[p] = file[p]
  BY DEF Write, Sound
<1>2. Grows(file, file')
  BY <1>0, <1>1, PathTypes DEF Grows
<1>3. path = Canonical(rec) => StoredIn(file', rec.ver)
  BY <1>0, <1>1 DEF StoredIn
<1>4. \A p \in Paths : file'[p] = Missing \/ file'[p].ver \in Versions
  BY <1>1 DEF Sound
<1>5. ASSUME setting.kind = "pull", NEW p \in Paths PROVE StoredIn(file', file'[p].ver)
  <2>0. rec.ver \in 0..Len(TitleOf) /\ file[p].ver \in 0..Len(TitleOf)
    BY DEF Content, Sound
  <2>1. CASE p = path
    BY <1>1, <1>2, <1>3, <1>5, <2>0, <2>1, StoredGrows
  <2>2. CASE p # path
    BY <1>1, <1>2, <1>5, <2>0, <2>2, StoredGrows DEF Sound
  <2> QED BY <2>1, <2>2
<1> QED BY <1>1, <1>2, <1>3, <1>4, <1>5 DEF Sound

LEMMA AliasDeleted ==
    ASSUME Sound(file), NEW path \in AliasPaths, Write(path, Missing)
    PROVE  Sound(file') /\ Grows(file, file')
<1>1. /\ file' \in [Paths -> Content] /\ file'[path] = Missing
      /\ \A p \in Paths : p # path => file'[p] = file[p]
  BY PathTypes, MissingIsContent DEF Write, Sound
<1>2. Grows(file, file')
  BY <1>1, PathTypes DEF Grows
<1>3. \A p \in Paths : file'[p] = Missing \/ file'[p].ver \in Versions
  BY <1>1 DEF Sound
<1>4. ASSUME setting.kind = "pull", NEW p \in Paths PROVE StoredIn(file', file'[p].ver)
  <2>0. file[p].ver \in 0..Len(TitleOf)
    BY DEF Content, Sound
  <2>1. CASE p = path
    BY <1>1, <2>1, MissingIsContent DEF StoredIn
  <2>2. CASE p # path
    BY <1>1, <1>2, <1>4, <2>0, <2>2, StoredGrows DEF Sound
  <2> QED BY <2>1, <2>2
<1> QED BY <1>1, <1>2, <1>3, <1>4 DEF Sound

LEMMA FilesAlike == Grows(file, file)
BY DEF Grows

-----------------------------------------------------------------------------
(* Steps of a call.                                                          *)

\* Call c goes on, with something it can count on.
Moves(c, g) ==
    \E new \in Progress : call' = [call EXCEPT ![c] = new] /\ Fits(new, g)

LEMMA CallStep ==
    ASSUME Inv, NEW c \in Calls, setting' = setting, Rest', Moves(c, file'),
           Sound(file'), Grows(file, file'), row' \in 0..Len(TitleOf), StoredIn(file', row')
    PROVE  Inv'
<1>1. PICK new \in Progress : call' = [call EXCEPT ![c] = new] /\ Fits(new, file')
  BY DEF Moves
<1>2. call' \in [Calls -> Progress]
  BY <1>1 DEF Inv
<1>3. \A d \in Calls : Fits(call'[d], file')
  <2> SUFFICES ASSUME NEW d \in Calls PROVE Fits(call'[d], file')
    OBVIOUS
  <2>1. CASE d = c
    BY <1>1, <2>1 DEF Inv
  <2>2. CASE d # c
    BY <1>1, <2>2, FitsGrows DEF Inv
  <2> QED BY <2>1, <2>2
<1>4. \A d \in Calls : Fits(call[d], file)'
  BY <1>3 DEF Fits
<1>5. Sound(file)'
  BY DEF Sound
<1> QED BY <1>2, <1>4, <1>5 DEF Inv, StoredIn

\* A step that leaves the files and the index row alone.
LEMMA QuietStep ==
    ASSUME Inv, NEW c \in Calls, setting' = setting, Rest', Moves(c, file), UNCHANGED <<file, row>>
    PROVE  Inv'
BY CallStep, FilesAlike DEF Inv

LEMMA FaultTypes ==
    ASSUME Inv, UNCHANGED Provider, Works \/ Fails
    PROVE  Rest' /\ setting' = setting
<1>1. setting.faults \in Nat /\ faults \in 0..setting.faults
  BY DEF Inv, Rest
<1>2. faults' \in 0..setting.faults
  BY <1>1 DEF Works, Fails
<1>3. clean' \in BOOLEAN /\ untitled' \in BOOLEAN
  BY Zenon DEF Works, Fails, Inv, Rest
<1> QED BY <1>2, <1>3 DEF Inv, Rest, Provider

LEMMA FetchedTypes ==
    ASSUME NEW v \in Versions, setting \in Settings
    PROVE  Fetched(v) \in Content /\ Fetched(v).ver = v
BY Domains DEF Fetched, Content

LEMMA IdleFits ==
    ASSUME NEW f PROVE NoCall \in Progress /\ Fits(NoCall, f)
<1>1. NoCall \in Progress
  BY PathTypes, MissingIsContent, Domains DEF NoCall, Progress
<1> QED BY <1>1 DEF NoCall, Fits, Holding, Aliasing, Refreshing, Marking

\* Calls that set out: with the record of a version, or to fetch it.
LEMMA BeginFits ==
    ASSUME NEW f, setting \in Settings, NEW v \in 0..Len(TitleOf)
    PROVE  /\ [NoCall EXCEPT !.pc = "fetch", !.envelope = v] \in Progress
           /\ Fits([NoCall EXCEPT !.pc = "fetch", !.envelope = v], f)
           /\ v # 0 => /\ [NoCall EXCEPT !.pc = "meta", !.rec = Fetched(v)] \in Progress
                       /\ Fits([NoCall EXCEPT !.pc = "meta", !.rec = Fetched(v)], f)
<1>1. NoCall \in Progress
  BY IdleFits
<1>2. v # 0 => v \in Versions /\ Fetched(v) \in Content /\ Fetched(v).ver = v
  BY Domains, FetchedTypes
<1>3. /\ [NoCall EXCEPT !.pc = "fetch", !.envelope = v] \in Progress
      /\ v # 0 => [NoCall EXCEPT !.pc = "meta", !.rec = Fetched(v)] \in Progress
  BY <1>1, <1>2 DEF NoCall, Progress
<1>4. Fits([NoCall EXCEPT !.pc = "fetch", !.envelope = v], f)
  BY DEF NoCall, Fits, Holding, Aliasing, Refreshing, Marking
<1>5. ASSUME v # 0 PROVE Fits([NoCall EXCEPT !.pc = "meta", !.rec = Fetched(v)], f)
  BY <1>2, <1>5 DEF NoCall, Fits, Holding, Aliasing, Refreshing, Marking
<1> QED BY <1>3, <1>4, <1>5

LEMMA FinishMoves == ASSUME NEW c \in Calls, Finish(c), NEW f PROVE Moves(c, f)
BY IdleFits DEF Finish, Moves

LEMMA ThrowMoves ==
    ASSUME Inv, NEW c \in Calls, Throw(c), NEW f PROVE Moves(c, f)
<1>1. CASE call[c].envelope # 0
  <2>1. call[c].envelope \in 0..Len(TitleOf)
    BY DEF Inv, Progress
  <2> QED BY <1>1, <2>1, BeginFits DEF Throw, Moves, Inv, Rest
<1>2. CASE call[c].envelope = 0
  BY <1>2, FinishMoves DEF Throw
<1> QED BY <1>1, <1>2

LEMMA ThrownStep == ASSUME Inv, NEW c \in Calls, Thrown(c) PROVE Inv'
<1>1. Moves(c, file)
  BY ThrowMoves DEF Thrown
<1> QED BY <1>1, FaultTypes, QuietStep DEF Thrown

LEMMA BeginIngestStep == ASSUME Inv, NEW c \in Calls, BeginIngest(c) PROVE Inv'
<1>1. PICK v \in due, webhook \in BOOLEAN :
          /\ due' = due \ {v}
          /\ call' = [call EXCEPT ![c] =
                [NoCall EXCEPT !.pc = "fetch", !.envelope = IF webhook THEN v ELSE 0]]
  BY DEF BeginIngest
<1>2. v \in 0..Len(TitleOf) /\ 0 \in 0..Len(TitleOf) /\ setting \in Settings
  BY Domains DEF Inv, Rest
<1>3. Moves(c, file)
  BY <1>1, <1>2, BeginFits DEF Moves
<1>4. Rest' /\ setting' = setting
  BY <1>1 DEF BeginIngest, Inv, Rest
<1> QED BY <1>3, <1>4, QuietStep DEF BeginIngest

LEMMA BeginBackfillStep == ASSUME Inv, NEW c \in Calls, BeginBackfill(c) PROVE Inv'
<1>1. 0 \in 0..Len(TitleOf) /\ setting \in Settings
  BY Domains DEF Inv, Rest
<1> DEFINE new == [NoCall EXCEPT !.pc = "fetch"]
<1>2. new \in Progress
  BY IdleFits DEF NoCall, Progress
<1>3. Moves(c, file)
  <2>1. Fits(new, file)
    BY DEF NoCall, Fits, Holding, Aliasing, Refreshing, Marking
  <2> QED BY <1>2, <2>1 DEF Moves, BeginBackfill
<1>4. Rest' /\ setting' = setting
  BY DEF BeginBackfill, Works, Inv, Rest, Provider
<1> QED BY <1>3, <1>4, QuietStep DEF BeginBackfill

LEMMA FetchStep == ASSUME Inv, NEW c \in Calls, Fetch(c) PROVE Inv'
<1> DEFINE k == call[c]
<1>0. /\ k \in Progress /\ Fits(k, file) /\ k.pc = "fetch"
      /\ Fetched(version) \in Content /\ Fetched(version).ver \in Versions
  BY FetchedTypes DEF Inv, Rest, Fetch, At
<1>1. Moves(c, file)
  <2>1. CASE Keep(c, IF setting.kind = "pull" THEN "verdict" ELSE "meta", "rec", Fetched(version))
    <3> DEFINE new == [k EXCEPT !.pc = IF setting.kind = "pull" THEN "verdict" ELSE "meta",
                                !.rec = Fetched(version)]
    <3>1. call' = [call EXCEPT ![c] = new] /\ new \in Progress
      BY <1>0, <2>1 DEF Keep, Progress
    <3>2. Fits(new, file)
      BY <1>0 DEF Fits, Progress, Holding, Aliasing, Refreshing, Marking
    <3> QED BY <3>1, <3>2 DEF Moves
  <2>2. CASE Throw(c)
    BY <2>2, ThrowMoves
  <2> QED BY <2>1, <2>2 DEF Fetch
<1> QED BY <1>1, FaultTypes, QuietStep DEF Fetch

\* The local variables of a call that is past its fetch.
LEMMA Underway ==
    ASSUME Inv, NEW c \in Calls, call[c].pc \in Holding
    PROVE  /\ call[c] \in Progress /\ Fits(call[c], file) /\ Sound(file)
           /\ call[c].rec \in Content /\ call[c].rec.ver \in Versions
           /\ call[c].rec.ver \in 0..Len(TitleOf)
<1>1. call[c] \in Progress /\ Fits(call[c], file) /\ Sound(file)
  BY DEF Inv
<1>2. call[c].rec \in Content
  BY <1>1 DEF Progress
<1>3. call[c].rec.ver \in Versions
  BY <1>1 DEF Fits
<1> QED BY <1>1, <1>2, <1>3, Domains

LEMMA GoMoves ==
    ASSUME NEW c \in Calls, NEW f, NEW pc, Go(c, pc), call \in [Calls -> Progress],
           [call[c] EXCEPT !.pc = pc] \in Progress, Fits([call[c] EXCEPT !.pc = pc], f)
    PROVE  Moves(c, f)
<1> DEFINE new == [call[c] EXCEPT !.pc = pc]
<1>1. call' = [call EXCEPT ![c] = new]
  BY DEF Go
<1> QED BY <1>1 DEF Moves

LEMMA FetchVerdictStep == ASSUME Inv, NEW c \in Calls, FetchVerdict(c) PROVE Inv'
<1> DEFINE k == call[c]
<1>0. k.pc = "verdict" /\ k \in Progress /\ Fits(k, file) /\ k.rec \in Content /\ k.rec.ver \in Versions
  BY Underway DEF FetchVerdict, At, Holding
<1>1. Moves(c, file)
  <2>1. CASE Keep(c, "meta", "rec", [k.rec EXCEPT !.gate = verdict, !.merge = TRUE])
    <3> DEFINE rec == [k.rec EXCEPT !.gate = verdict, !.merge = TRUE]
               new == [k EXCEPT !.pc = "meta", !.rec = rec]
    <3>0. rec \in Content /\ rec.ver \in Versions
      BY <1>0 DEF Content, Inv, Rest
    <3>1. call' = [call EXCEPT ![c] = new] /\ new \in Progress
      BY <1>0, <2>1, <3>0 DEF Keep, Progress
    <3>2. Fits(new, file)
      BY <1>0, <3>0 DEF Fits, Progress, Holding, Aliasing, Refreshing, Marking
    <3> QED BY <3>1, <3>2 DEF Moves
  <2>2. CASE Go(c, "meta")
    <3>1. [k EXCEPT !.pc = "meta"] \in Progress /\ Fits([k EXCEPT !.pc = "meta"], file)
      BY <1>0 DEF Fits, Progress, Holding, Aliasing, Refreshing, Marking
    <3> QED BY <2>2, <3>1, GoMoves DEF Inv
  <2> QED BY <2>1, <2>2 DEF FetchVerdict
<1> QED BY <1>1, FaultTypes, QuietStep DEF FetchVerdict

LEMMA WriteMetaStep == ASSUME Inv, NEW c \in Calls, WriteMeta(c) PROVE Inv'
<1> DEFINE k == call[c]
<1>0. /\ k.pc = "meta" /\ k \in Progress /\ Fits(k, file)
      /\ k.rec \in Content /\ k.rec.ver \in Versions
      /\ Rest' /\ setting' = setting /\ row' = row
  BY Underway, FaultTypes DEF WriteMeta, At, Holding
<1>1. CASE Write(Canonical(k.rec), k.rec) /\ Keep(c, "previous", "stored", TRUE)
  <2>1. Sound(file') /\ Grows(file, file') /\ StoredIn(file', k.rec.ver)
    BY <1>0, <1>1, RecordWritten, NamesOfRecords DEF Inv
  <2> DEFINE new == [k EXCEPT !.pc = "previous", !.stored = TRUE]
  <2>2. call' = [call EXCEPT ![c] = new] /\ new \in Progress
    BY <1>0, <1>1 DEF Keep, Progress
  <2>3. Fits(new, file')
    BY <1>0, <2>1 DEF Fits, Progress, Holding, Aliasing, Refreshing, Marking
  <2> QED BY <1>0, <2>1, <2>2, <2>3, CallStep, StoredGrows DEF Moves, Inv
<1>2. CASE UNCHANGED file /\ (IF setting.kind = "issue" THEN Go(c, "previous") ELSE Finish(c))
  <2>1. Moves(c, file)
    <3>1. CASE setting.kind = "issue"
      <4>1. [k EXCEPT !.pc = "previous"] \in Progress
        BY <1>0 DEF Progress
      <4>2. setting.kind # "pull" /\ Go(c, "previous")
        BY <1>2, <3>1
      <4>3. Fits([k EXCEPT !.pc = "previous"], file)
        BY <1>0, <4>2 DEF Fits, Progress, Holding, Aliasing, Refreshing, Marking
      <4> QED BY <4>1, <4>2, <4>3, GoMoves DEF Inv
    <3>2. CASE setting.kind # "issue"
      BY <1>2, <3>2, FinishMoves
    <3> QED BY <3>1, <3>2
  <2> QED BY <1>0, <1>2, <2>1, QuietStep
<1> QED BY <1>1, <1>2 DEF WriteMeta

LEMMA ReadPreviousStep == ASSUME Inv, NEW c \in Calls, ReadPrevious(c) PROVE Inv'
<1> DEFINE k == call[c]
<1>0. k.pc = "previous" /\ k \in Progress /\ Fits(k, file)
  BY Underway DEF ReadPrevious, At, Holding, Aliasing
<1>1. PICK prev \in {file[ById], Missing} : Keep(c, "by-id", "prev", prev)
  BY DEF ReadPrevious
<1>2. prev \in Content /\ (prev = Missing \/ prev.ver \in Versions)
  BY PathTypes, MissingIsContent DEF Inv, Sound
<1> DEFINE new == [k EXCEPT !.pc = "by-id", !.prev = prev]
<1>3. call' = [call EXCEPT ![c] = new] /\ new \in Progress
  BY <1>0, <1>1, <1>2 DEF Keep, Progress
<1>4. Fits(new, file)
  BY <1>0, <1>2 DEF Fits, Progress, Holding, Aliasing, Refreshing, Marking
<1>5. Moves(c, file)
  BY <1>3, <1>4 DEF Moves
<1> QED BY <1>5, FaultTypes, QuietStep DEF ReadPrevious

\* Of a call that writes aliases: its record may be written to any path.
LEMMA MayAlias ==
    ASSUME Inv, NEW c \in Calls, call[c].pc \in Aliasing
    PROVE  /\ call[c] \in Progress /\ Fits(call[c], file) /\ Sound(file)
           /\ call[c].rec \in Content /\ call[c].rec.ver \in Versions
           /\ setting.kind = "pull" => StoredIn(file, call[c].rec.ver)
           /\ Alias(call[c].rec) \in AliasPaths /\ Fork(call[c].rec) \in AliasPaths
<1>1. call[c].pc \in Holding
  BY DEF Holding
<1>2. /\ call[c] \in Progress /\ Fits(call[c], file) /\ Sound(file)
      /\ call[c].rec \in Content /\ call[c].rec.ver \in Versions
  BY <1>1, Underway
<1> QED BY <1>2, NamesOfRecords DEF Fits

\* A call that writes aliases chooses a path.
LEMMA PathMoves ==
    ASSUME Inv, NEW c \in Calls, call[c].pc \in {"by-id", "probe", "compare"},
           NEW path \in AliasPaths, Keep(c, "title", "path", path),
           NEW f, Grows(file, f)
    PROVE  Moves(c, f)
<1> DEFINE k == call[c]
           new == [k EXCEPT !.pc = "title", !.path = path]
<1>0. k \in Progress /\ Fits(k, f) /\ path \in Paths
  BY PathTypes, MayAlias, FitsGrows DEF Aliasing
<1>1. call' = [call EXCEPT ![c] = new] /\ new \in Progress
  BY <1>0 DEF Keep, Progress
<1>2. Fits(new, f)
  BY <1>0 DEF Fits, Progress, Holding, Aliasing, Refreshing, Marking
<1> QED BY <1>1, <1>2 DEF Moves

\* A call that writes aliases goes on to another step.
LEMMA AliasingMoves ==
    ASSUME Inv, NEW c \in Calls, call[c].pc \in Aliasing,
           NEW pc \in Aliasing \ {"delete"}, Go(c, pc), NEW f, Grows(file, f)
    PROVE  Moves(c, f)
<1> DEFINE k == call[c]
           new == [k EXCEPT !.pc = pc]
<1>0. k \in Progress /\ Fits(k, f)
  BY MayAlias, FitsGrows
<1>1. new \in Progress
  BY <1>0 DEF Progress, Aliasing
<1>2. Fits(new, f)
  BY <1>0 DEF Fits, Progress, Holding, Aliasing, Refreshing, Marking
<1> QED BY <1>1, <1>2, GoMoves DEF Inv

LEMMA WriteByIdStep == ASSUME Inv, NEW c \in Calls, WriteById(c) PROVE Inv'
<1> DEFINE k == call[c]
<1>0. k.pc = "by-id" /\ k.pc \in Aliasing
  BY DEF WriteById, At, Aliasing
<1>1. CASE /\ Works /\ HasAlias(k.rec) /\ Write(ById, k.rec) /\ UNCHANGED <<Provider, row>>
           /\ IF setting.kind = "issue" THEN Go(c, "probe") ELSE Keep(c, "title", "path", Alias(k.rec))
  <2>1. Sound(file') /\ Grows(file, file')
    BY <1>0, <1>1, MayAlias, PathTypes, RecordWritten
  <2>2. Moves(c, file')
    <3>1. CASE setting.kind = "issue"
      BY <1>0, <1>1, <2>1, <3>1, AliasingMoves DEF Aliasing
    <3>2. CASE setting.kind # "issue"
      BY <1>0, <1>1, <2>1, <3>2, MayAlias, PathMoves
    <3> QED BY <3>1, <3>2
  <2> QED BY <1>1, <2>1, <2>2, FaultTypes, CallStep, StoredGrows DEF Inv
<1>2. CASE Thrown(c)
  BY <1>2, ThrownStep
<1> QED BY <1>1, <1>2 DEF WriteById

LEMMA WriteByIdOnlyStep == ASSUME Inv, NEW c \in Calls, WriteByIdOnly(c) PROVE Inv'
<1> DEFINE k == call[c]
<1>0. k.pc = "by-id" /\ k.pc \in Aliasing
  BY DEF WriteByIdOnly, At, Aliasing
<1>1. Write(ById, k.rec) /\ Throw(c) /\ row' = row /\ setting' = setting
  BY DEF WriteByIdOnly, Provider
<1>2. Sound(file') /\ Grows(file, file')
  BY <1>0, <1>1, MayAlias, PathTypes, RecordWritten
<1>3. Moves(c, file')
  BY <1>1, ThrowMoves
<1>4. Rest'
  BY DEF WriteByIdOnly, Provider, Inv, Rest
<1> QED BY <1>1, <1>2, <1>3, <1>4, CallStep, StoredGrows DEF Inv

LEMMA ProbeStep == ASSUME Inv, NEW c \in Calls, Probe(c) PROVE Inv'
<1>0. call[c].pc = "probe" /\ call[c].pc \in Aliasing
  BY DEF Probe, At, Aliasing
<1>1. CASE Thrown(c)
  BY <1>1, ThrownStep
<1>2. CASE ~Thrown(c)
  <2>0. Works /\ UNCHANGED <<Provider, file, row>>
    BY <1>2 DEF Probe
  <2>1. CASE Keep(c, "title", "path", Alias(call[c].rec))
    <3>1. Moves(c, file)
      BY <1>0, <2>1, MayAlias, PathMoves, FilesAlike
    <3> QED BY <2>0, <3>1, FaultTypes, QuietStep
  <2>2. CASE Go(c, "compare")
    <3>1. Moves(c, file)
      BY <1>0, <2>2, AliasingMoves, FilesAlike DEF Aliasing
    <3> QED BY <2>0, <3>1, FaultTypes, QuietStep
  <2> QED BY <1>2, <2>1, <2>2 DEF Probe
<1> QED BY <1>1, <1>2

LEMMA CompareStep == ASSUME Inv, NEW c \in Calls, Compare(c) PROVE Inv'
<1>0. call[c].pc = "compare" /\ call[c].pc \in Aliasing
  BY DEF Compare, At, Aliasing
<1>1. PICK path \in {Alias(call[c].rec), Fork(call[c].rec)} : Keep(c, "title", "path", path)
  BY DEF Compare
<1>2. Moves(c, file)
  BY <1>0, <1>1, MayAlias, PathMoves, FilesAlike
<1> QED BY <1>2, FaultTypes, QuietStep DEF Compare

LEMMA PairOfOnes == \A a, b : <<a>> \o <<b>> = <<a, b>>
<1> TAKE a, b
<1>1. <<a>> \in Seq({a, b}) /\ <<b>> \in Seq({a, b}) /\ <<a, b>> \in Seq({a, b})
  OBVIOUS
<1>2. <<a>> \o <<b>> \in Seq({a, b}) /\ Len(<<a>> \o <<b>>) = 2
  BY <1>1
<1>3. (<<a>> \o <<b>>)[1] = a /\ (<<a>> \o <<b>>)[2] = b
  BY <1>1
<1>4. Len(<<a, b>>) = 2 /\ <<a, b>>[1] = a /\ <<a, b>>[2] = b
  OBVIOUS
<1> DEFINE s == <<a>> \o <<b>>
           t == <<a, b>>
<1>5. s \in Seq({a, b}) /\ t \in Seq({a, b}) /\ Len(s) = Len(t) /\ Len(s) = 2
      /\ s[1] = t[1] /\ s[2] = t[2]
  BY <1>1, <1>2, <1>3, <1>4
<1> HIDE DEF s, t
<1>6. \A i \in 1..Len(s) : s[i] = t[i]
  BY <1>5
<1>7. s = t
  BY <1>5, <1>6, SeqEqual
<1> QED BY <1>7 DEF s, t

LEMMA StaleTypes ==
    ASSUME NEW prev \in Content, prev = Missing \/ prev.ver \in Versions, NEW path
    PROVE  /\ Stale(prev, path) \in Seq(Paths)
           /\ \A i \in DOMAIN Stale(prev, path) :
                 /\ Stale(prev, path)[i] \in AliasPaths
                 /\ Stale(prev, path)[i] # path
<1> DEFINE but(p) == IF p = path THEN <<>> ELSE <<p>>
<1>1. CASE ~(prev # Missing /\ HasAlias(prev) /\ setting.deletes)
  BY <1>1 DEF Stale
<1>2. CASE prev # Missing /\ HasAlias(prev) /\ setting.deletes
  <2> DEFINE a == Alias(prev)
             b == Fork(prev)
  <2>1. a \in AliasPaths /\ b \in AliasPaths /\ a \in Paths /\ b \in Paths /\ a # b
    BY <1>2, NamesOfRecords, PathTypes
  <2>2. Stale(prev, path) = but(a) \o but(b)
    BY <1>2 DEF Stale
  <2> HIDE DEF a, b
  <2>3. CASE a = path
    <3>1. but(a) \o but(b) = <<b>>
      BY <1>2, <2>1, <2>3
    <3> QED BY <2>1, <2>2, <2>3, <3>1
  <2>4. CASE b = path
    <3>1. but(a) \o but(b) = <<a>>
      BY <1>2, <2>1, <2>4
    <3> QED BY <2>1, <2>2, <2>4, <3>1
  <2>5. CASE a # path /\ b # path
    <3>0. but(a) = <<a>> /\ but(b) = <<b>>
      BY <1>2, <2>5
    <3>1. but(a) \o but(b) = <<a, b>>
      BY <3>0, PairOfOnes
    <3> QED BY <2>1, <2>2, <2>5, <3>1
  <2> QED BY <2>3, <2>4, <2>5
<1> QED BY <1>1, <1>2

LEMMA WriteTitleStep == ASSUME Inv, NEW c \in Calls, WriteTitle(c) PROVE Inv'
<1> DEFINE k == call[c]
<1>0. k.pc = "title" /\ k.pc \in Aliasing
  BY DEF WriteTitle, At, Aliasing
<1>1. CASE /\ Works /\ Write(k.path, k.rec) /\ UNCHANGED <<Provider, row>>
           /\ Keep(c, "sweep", "stale", Stale(k.prev, k.path))
  <2>0. k.path \in Paths /\ k.prev \in Content /\ (k.prev = Missing \/ k.prev.ver \in Versions)
    BY <1>0, MayAlias DEF Progress, Fits
  <2>1. Sound(file') /\ Grows(file, file')
    BY <1>0, <1>1, <2>0, MayAlias, RecordWritten
  <2> DEFINE new == [k EXCEPT !.pc = "sweep", !.stale = Stale(k.prev, k.path)]
  <2>2. k \in Progress /\ Fits(k, file')
    BY <1>0, <2>1, MayAlias, FitsGrows
  <2>3. call' = [call EXCEPT ![c] = new] /\ new \in Progress
    BY <1>1, <2>0, <2>2, StaleTypes DEF Keep, Progress
  <2>4. Fits(new, file')
    BY <1>0, <2>0, <2>2, StaleTypes DEF Fits, Progress, Holding, Aliasing, Refreshing, Marking
  <2>5. Moves(c, file')
    BY <2>3, <2>4 DEF Moves
  <2> QED BY <1>1, <2>1, <2>5, FaultTypes, CallStep, StoredGrows DEF Inv
<1>2. CASE Thrown(c)
  BY <1>2, ThrownStep
<1> QED BY <1>1, <1>2 DEF WriteTitle

LEMMA TailMembers ==
    ASSUME NEW S, NEW T, NEW s \in Seq(S), s # <<>>, \A i \in DOMAIN s : s[i] \in T
    PROVE  Tail(s) \in Seq(S) /\ \A i \in DOMAIN Tail(s) : Tail(s)[i] \in T
<1>1. Len(s) \in Nat /\ Len(s) >= 1 /\ DOMAIN s = 1..Len(s)
  OBVIOUS
<1>2. Tail(s) \in Seq(S) /\ Len(Tail(s)) = Len(s) - 1
  BY <1>1
<1>3. ASSUME NEW i \in DOMAIN Tail(s) PROVE i + 1 \in DOMAIN s /\ Tail(s)[i] = s[i + 1]
  BY <1>1, <1>2, <1>3
<1> QED BY <1>2, <1>3

LEMMA DropStaleMoves ==
    ASSUME Inv, NEW c \in Calls, call[c].pc \in {"sweep", "delete"}, call[c].stale # <<>>,
           DropStale(c), NEW f, Grows(file, f)
    PROVE  Moves(c, f)
<1> DEFINE k == call[c]
           new == [k EXCEPT !.pc = "sweep", !.stale = Tail(k.stale)]
<1>0. k \in Progress /\ Fits(k, f)
  BY MayAlias, FitsGrows DEF Aliasing
<1>1. /\ Tail(k.stale) \in Seq(Paths)
      /\ \A i \in DOMAIN Tail(k.stale) : Tail(k.stale)[i] \in AliasPaths
  <2>1. k.stale \in Seq(Paths) /\ \A i \in DOMAIN k.stale : k.stale[i] \in AliasPaths
    BY <1>0 DEF Progress, Fits
  <2> QED BY <2>1, TailMembers
<1>2. call' = [call EXCEPT ![c] = new] /\ new \in Progress
  BY <1>0, <1>1 DEF DropStale, Keep, Progress
<1>3. Fits(new, f)
  BY <1>0, <1>1 DEF Fits, Progress, Holding, Aliasing, Refreshing, Marking
<1> QED BY <1>2, <1>3 DEF Moves

LEMMA ReadStaleStep == ASSUME Inv, NEW c \in Calls, ReadStale(c) PROVE Inv'
<1> DEFINE k == call[c]
<1>0. k.pc = "sweep" /\ k.stale # <<>> /\ k.pc \in Aliasing
  BY DEF ReadStale, At, Aliasing
<1>1. Moves(c, file)
  <2>1. CASE Go(c, "delete")
    <3>0. k \in Progress /\ Fits(k, file)
      BY <1>0, MayAlias
    <3>1. [k EXCEPT !.pc = "delete"] \in Progress
      BY <3>0 DEF Progress
    <3>2. Fits([k EXCEPT !.pc = "delete"], file)
      BY <1>0, <3>0 DEF Fits, Progress, Holding, Aliasing, Refreshing, Marking
    <3> QED BY <2>1, <3>1, <3>2, GoMoves DEF Inv
  <2>2. CASE DropStale(c)
    BY <1>0, <2>2, DropStaleMoves, FilesAlike
  <2> QED BY <2>1, <2>2 DEF ReadStale
<1> QED BY <1>1, FaultTypes, QuietStep DEF ReadStale

LEMMA DeleteStaleStep == ASSUME Inv, NEW c \in Calls, DeleteStale(c) PROVE Inv'
<1> DEFINE k == call[c]
<1>0. k.pc = "delete" /\ k.pc \in Aliasing
  BY DEF DeleteStale, At, Aliasing
<1>1. k.stale \in Seq(Paths) /\ k.stale # <<>> /\ Head(k.stale) \in AliasPaths
  <2>1. /\ k.stale \in Seq(Paths) /\ k.stale # <<>>
        /\ \A i \in DOMAIN k.stale : k.stale[i] \in AliasPaths
    BY <1>0, MayAlias DEF Fits, Progress
  <2> HIDE DEF k
  <2> QED BY <2>1
<1>2. Sound(file') /\ Grows(file, file')
  <2>1. CASE Write(Head(k.stale), Missing)
    BY <1>1, <2>1, AliasDeleted DEF Inv
  <2>2. CASE UNCHANGED file
    BY <2>2, FilesAlike DEF Inv
  <2> QED BY <2>1, <2>2 DEF DeleteStale
<1>3. Moves(c, file')
  BY <1>0, <1>1, <1>2, DropStaleMoves DEF DeleteStale
<1>4. Rest' /\ setting' = setting /\ row' = row
  BY FaultTypes DEF DeleteStale
<1> QED BY <1>2, <1>3, <1>4, CallStep, StoredGrows DEF Inv

LEMMA WriteRowStep == ASSUME Inv, NEW c \in Calls, WriteRow(c) PROVE Inv'
<1> DEFINE k == call[c]
<1>0. k.pc = "sweep" /\ k.pc \in Aliasing
  BY DEF WriteRow, At, Aliasing
<1>1. row' \in 0..Len(TitleOf) /\ StoredIn(file, row')
  <2>1. CASE row' = row
    BY <2>1 DEF Inv
  <2>2. CASE row' = k.rec.ver /\ k.stored
    BY <1>0, <2>2, MayAlias, Domains DEF Fits
  <2> QED BY <2>1, <2>2 DEF WriteRow
<1>2. Rest' /\ setting' = setting /\ file' = file /\ Moves(c, file)
  <2>1. Works \/ Fails
    BY DEF WriteRow
  <2> QED BY <2>1, FaultTypes, FinishMoves DEF WriteRow
<1> QED BY <1>1, <1>2, CallStep, FilesAlike DEF Inv

\* Of a call that refreshes a gate.
LEMMA MayRefresh ==
    ASSUME Inv, NEW c \in Calls, call[c].pc \in Refreshing
    PROVE  /\ call[c] \in Progress /\ Fits(call[c], file) /\ Sound(file)
           /\ call[c].rec \in Content /\ call[c].rec.ver \in Versions
           /\ StoredIn(file, call[c].rec.ver)
           /\ setting.kind = "pull" /\ file[ById] # Missing
           /\ file[ById] \in Content /\ file[ById].ver \in Versions
           /\ StoredIn(file, file[ById].ver)
           /\ call[c].prev \in Content
           /\ call[c].pc \in Marking =>
                 call[c].prev.ver \in Versions /\ StoredIn(file, call[c].prev.ver)
<1>1. call[c].pc \in Holding
  BY DEF Holding
<1>2. /\ call[c] \in Progress /\ Fits(call[c], file) /\ Sound(file)
      /\ call[c].rec \in Content /\ call[c].rec.ver \in Versions
  BY <1>1, Underway
<1>3. setting.kind = "pull" /\ file[ById] # Missing
  BY <1>2 DEF Fits
<1>4. /\ file[ById] \in Content /\ file[ById].ver \in Versions
      /\ StoredIn(file, file[ById].ver)
  BY <1>2, <1>3, PathTypes DEF Sound
<1> QED BY <1>2, <1>3, <1>4 DEF Fits, Progress

LEMMA BeginRefreshStep == ASSUME Inv, NEW c \in Calls, BeginRefresh(c) PROVE Inv'
<1>0. Rest' /\ setting' = setting /\ UNCHANGED <<file, row>>
  BY DEF BeginRefresh, Works, Inv, Rest
<1>1. CASE UNCHANGED call
  BY <1>0, <1>1 DEF Inv, Sound, Fits, StoredIn
<1>2. CASE file[ById] # Missing /\ call' = [call EXCEPT ![c] = [NoCall EXCEPT !.pc = "mark", !.rec = file[ById]]]
  <2> DEFINE new == [NoCall EXCEPT !.pc = "mark", !.rec = file[ById]]
  <2>1. setting.kind = "pull" /\ Sound(file)
    BY DEF BeginRefresh, Inv
  <2>2. file[ById] \in Content /\ file[ById].ver \in Versions /\ StoredIn(file, file[ById].ver)
    BY <1>2, <2>1, PathTypes DEF Sound
  <2>3. new \in Progress
    BY <2>2, IdleFits DEF NoCall, Progress
  <2>4. Fits(new, file)
    BY <1>2, <2>1, <2>2 DEF NoCall, Fits, Holding, Aliasing, Refreshing, Marking
  <2>5. Moves(c, file)
    BY <1>2, <2>3, <2>4 DEF Moves
  <2> QED BY <1>0, <2>5, QuietStep
<1> QED BY <1>1, <1>2 DEF BeginRefresh

LEMMA ReadToMarkStep == ASSUME Inv, NEW c \in Calls, ReadToMark(c) PROVE Inv'
<1> DEFINE k == call[c]
           prev == Pending(file[ById])
<1>0. k.pc = "mark" /\ k.pc \in Refreshing
  BY DEF ReadToMark, At, Refreshing
<1>1. Moves(c, file)
  <2>1. CASE Keep(c, "pend alias", "prev", prev)
    <3>0. k \in Progress /\ Fits(k, file)
      BY <1>0, MayRefresh
    <3>1. prev \in Content /\ prev.ver \in Versions /\ StoredIn(file, prev.ver)
      BY <1>0, MayRefresh DEF Pending, Content
    <3> DEFINE new == [k EXCEPT !.pc = "pend alias", !.prev = prev]
    <3> HIDE DEF prev
    <3>2. call' = [call EXCEPT ![c] = new] /\ new \in Progress
      BY <2>1, <3>0, <3>1 DEF Keep, Progress
    <3>3. Fits(new, file)
      BY <1>0, <3>0, <3>1 DEF Fits, Progress, Holding, Aliasing, Refreshing, Marking
    <3> QED BY <3>2, <3>3 DEF Moves
  <2>2. CASE Finish(c)
    BY <2>2, FinishMoves
  <2> QED BY <2>1, <2>2 DEF ReadToMark
<1> QED BY <1>1, FaultTypes, QuietStep DEF ReadToMark

LEMMA FetchGateStep == ASSUME Inv, NEW c \in Calls, FetchGate(c) PROVE Inv'
<1> DEFINE k == call[c]
           rec == [k.rec EXCEPT !.gate = verdict]
<1>0. k.pc = "gate" /\ k.pc \in Refreshing
  BY DEF FetchGate, At, Refreshing
<1>1. Moves(c, file)
  <2>1. CASE Keep(c, "restore alias", "rec", rec)
    <3>0. k \in Progress /\ Fits(k, file)
      BY <1>0, MayRefresh
    <3>1. rec \in Content /\ rec.ver \in Versions /\ StoredIn(file, rec.ver)
      BY <1>0, MayRefresh DEF Inv, Rest, Content
    <3> DEFINE new == [k EXCEPT !.pc = "restore alias", !.rec = rec]
    <3> HIDE DEF rec
    <3>2. call' = [call EXCEPT ![c] = new] /\ new \in Progress
      BY <2>1, <3>0, <3>1 DEF Keep, Progress
    <3>3. Fits(new, file)
      BY <1>0, <3>0, <3>1 DEF Fits, Progress, Holding, Aliasing, Refreshing, Marking
    <3> QED BY <3>2, <3>3 DEF Moves
  <2>2. CASE Finish(c)
    BY <2>2, FinishMoves
  <2> QED BY <2>1, <2>2 DEF FetchGate
<1> QED BY <1>1, FaultTypes, QuietStep DEF FetchGate

\* A refresh writes a record that is stored, and goes on to a step that keeps
\* what it can count on.
LEMMA RewriteStep ==
    ASSUME Inv, NEW c \in Calls, NEW pc \in Refreshing, NEW path \in Paths, NEW rec \in Content,
           NEW next \in {"pend meta", "gate", "restore meta", "idle"},
           next = "pend meta" => pc \in Marking,
           rec.ver \in Versions, StoredIn(file, rec.ver), Rewrite(c, pc, path, rec, next)
    PROVE  Inv'
<1> DEFINE k == call[c]
<1>0. k.pc = pc /\ Rest' /\ setting' = setting /\ row' = row
  BY FaultTypes DEF Rewrite, At
<1>1. CASE Write(path, rec) /\ (IF next = "idle" THEN Finish(c) ELSE Go(c, next))
  <2>1. Sound(file') /\ Grows(file, file')
    BY <1>1, RecordWritten DEF Inv
  <2>2. Moves(c, file')
    <3>1. CASE next = "idle"
      BY <1>1, <3>1, FinishMoves
    <3>2. CASE next # "idle"
      <4>1. k \in Progress /\ Fits(k, file')
        BY <1>0, <2>1, MayRefresh, FitsGrows
      <4>2. [k EXCEPT !.pc = next] \in Progress
        BY <4>1 DEF Progress
      <4>3. Fits([k EXCEPT !.pc = next], file')
        BY <1>0, <3>2, <4>1 DEF Fits, Progress, Holding, Aliasing, Refreshing, Marking
      <4> QED BY <1>1, <3>2, <4>2, <4>3, GoMoves DEF Inv
    <3> QED BY <3>1, <3>2
  <2> QED BY <1>0, <2>1, <2>2, CallStep, StoredGrows DEF Inv
<1>2. CASE UNCHANGED file /\ Finish(c)
  BY <1>0, <1>2, FinishMoves, QuietStep
<1> QED BY <1>1, <1>2 DEF Rewrite

LEMMA RewriteSteps ==
    ASSUME Inv, NEW c \in Calls, PendAlias(c) \/ PendMeta(c) \/ RestoreAlias(c) \/ RestoreMeta(c)
    PROVE  Inv'
<1> DEFINE k == call[c]
<1>1. CASE PendAlias(c)
  <2>1. k.pc = "pend alias" /\ k.pc \in Refreshing /\ k.pc \in Marking
    BY <1>1 DEF PendAlias, Rewrite, At, Refreshing, Marking
  <2> QED BY <1>1, <2>1, MayRefresh, PathTypes, RewriteStep DEF PendAlias
<1>2. CASE PendMeta(c)
  <2>1. k.pc = "pend meta" /\ k.pc \in Refreshing /\ k.pc \in Marking
    BY <1>2 DEF PendMeta, Rewrite, At, Refreshing, Marking
  <2> QED BY <1>2, <2>1, MayRefresh, NamesOfRecords, RewriteStep DEF PendMeta
<1>3. CASE RestoreAlias(c)
  <2>1. k.pc = "restore alias" /\ k.pc \in Refreshing
    BY <1>3 DEF RestoreAlias, Rewrite, At, Refreshing
  <2> QED BY <1>3, <2>1, MayRefresh, PathTypes, RewriteStep DEF RestoreAlias
<1>4. CASE RestoreMeta(c)
  <2>1. k.pc = "restore meta" /\ k.pc \in Refreshing
    BY <1>4 DEF RestoreMeta, Rewrite, At, Refreshing
  <2> QED BY <1>4, <2>1, MayRefresh, NamesOfRecords, RewriteStep DEF RestoreMeta
<1> QED BY <1>1, <1>2, <1>3, <1>4

LEMMA ProviderStep == ASSUME Inv, Edit \/ Stir PROVE Inv'
<1>1. UNCHANGED <<setting, file, row, call>>
  BY DEF Edit, Stir
<1>2. Rest'
  <2>1. CASE Edit
    <3>1. setting.last \in Versions /\ version \in Versions
      BY DEF Inv, Rest
    <3>2. version + 1 \in Versions
      BY <2>1, <3>1, Domains DEF Edit
    <3> QED BY <2>1, <3>2 DEF Edit, Works, Inv, Rest
  <2>2. CASE Stir
    BY <2>2 DEF Stir, Works, Inv, Rest
  <2> QED BY <2>1, <2>2
<1> QED BY <1>1, <1>2 DEF Inv, Sound, Fits, StoredIn

LEMMA InitInv == Init => Inv
<1> SUFFICES ASSUME Init PROVE Inv
  OBVIOUS
<1>0. setting.faults \in Nat
  BY DEF Init
<1>1. Rest
  <2>1. faults \in 0..setting.faults
    BY <1>0 DEF Init
  <2>2. stirred \in BOOLEAN /\ clean \in BOOLEAN /\ untitled \in BOOLEAN
    BY DEF Init
  <2>3. version \in Versions /\ due \subseteq Versions
    BY Domains DEF Init
  <2> QED BY <2>1, <2>2, <2>3 DEF Init, Rest
<1>2. Sound(file) /\ row \in 0..Len(TitleOf) /\ StoredIn(file, row)
  BY Domains, MissingIsContent DEF Init, Sound, StoredIn
<1>3. call \in [Calls -> Progress] /\ \A c \in Calls : Fits(call[c], file)
  BY IdleFits DEF Init
<1> QED BY <1>1, <1>2, <1>3 DEF Inv

LEMMA NextInv == Inv /\ [Next]_vars => Inv'
<1> SUFFICES ASSUME Inv, [Next]_vars PROVE Inv'
  OBVIOUS
<1>1. CASE UNCHANGED vars
  BY <1>1 DEF vars, Inv, Rest, Sound, Fits, StoredIn
<1>2. ASSUME NEW c \in Calls, Ingest(c) PROVE Inv'
  BY <1>2, BeginIngestStep, BeginBackfillStep, FetchStep, FetchVerdictStep, WriteMetaStep,
     ReadPreviousStep, WriteByIdStep, WriteByIdOnlyStep, ProbeStep, CompareStep, WriteTitleStep,
     ReadStaleStep, DeleteStaleStep, WriteRowStep DEF Ingest
<1>3. ASSUME NEW c \in Calls, Refresh(c) PROVE Inv'
  BY <1>3, BeginRefreshStep, ReadToMarkStep, FetchGateStep, RewriteSteps DEF Refresh
<1> QED BY <1>1, <1>2, <1>3, ProviderStep DEF Next

LEMMA Invariant == Spec => []Inv
BY InitInv, NextInv, PTL DEF Spec

\* Every variable keeps its type, whatever fails and overlaps.
THEOREM TypeCorrect == Spec => []TypeOK
<1>1. Inv => TypeOK
  BY DEF Inv, Rest, Sound, Progress, TypeOK
<1> QED BY <1>1, Invariant, PTL

\* No index row names a record that was never stored, and no alias of a pull
\* request does, whatever fails and overlaps.
THEOREM NamesAreStored == Spec => []NothingDangles
<1>1. Inv => NothingDangles
  BY DEF Inv, Sound, StoredIn, Stored, NothingDangles
<1> QED BY <1>1, Invariant, PTL

-----------------------------------------------------------------------------
(* Calls one after another.                                                  *)

\* Only a caller that is allowed to call is under way.
Called == \A c \in Calls : c \notin setting.callers => call[c].pc = "idle"

\* What the call k under way knows of the files f when it is by itself.
Knows(k, f) ==
    /\ k.pc \in {"sweep", "delete"} =>
          f[k.path] = k.rec /\ \A i \in DOMAIN k.stale : k.stale[i] # k.path
    /\ k.pc \in Marking => k.prev.gate = "pending"
    /\ k.pc = "pend meta" => f[ById] = k.prev
    /\ k.pc = "gate" => ~Ready(f[ById]) /\ ~Ready(f[Canonical(f[ById])])

Solo ==
    /\ Called
    /\ Alone => \A c \in Calls : Knows(call[c], file)

\* The other calls are idle.
LEMMA OthersIdle ==
    ASSUME Called, Alone, NEW c \in Calls, c \in setting.callers
    PROVE  \A d \in Calls \ {c} : call[d].pc = "idle"
BY DEF Called, Alone

LEMMA IdleKnows == ASSUME NEW k, NEW f, k.pc \notin {"sweep", "delete", "gate"} \cup Marking PROVE Knows(k, f)
BY DEF Knows, Marking

LEMMA SoloStep ==
    ASSUME Inv, Inv', Solo, NEW c \in Calls, setting' = setting,
           c \in setting.callers \/ call[c].pc # "idle",
           \A d \in Calls \ {c} : call'[d] = call[d],
           Alone => Knows(call'[c], file')
    PROVE  Solo'
<1>0. c \in setting.callers
  BY DEF Solo, Called
<1>2. Called'
  BY <1>0 DEF Solo, Called
<1>3. ASSUME Alone, NEW d \in Calls PROVE Knows(call'[d], file')
  <2>1. CASE d = c
    BY <1>3, <2>1
  <2>2. CASE d # c
    <3>1. call'[d].pc = "idle"
      BY <1>0, <1>3, <2>2, OthersIdle DEF Solo
    <3> QED BY <3>1, IdleKnows DEF Marking
  <2> QED BY <2>1, <2>2
<1>4. Alone' => Alone
  BY DEF Alone
<1>5. \A d \in Calls : Knows(call[d], file)' = Knows(call'[d], file')
  BY DEF Knows, Ready
<1> QED BY <1>2, <1>3, <1>4, <1>5 DEF Solo

LEMMA CallsElsewhere ==
    ASSUME Inv, NEW c \in Calls, NEW new, call' = [call EXCEPT ![c] = new]
    PROVE  call'[c] = new /\ \A d \in Calls \ {c} : call'[d] = call[d]
BY DEF Inv

\* Each way for a call to go on.
LEMMA WaysOn ==
    ASSUME Inv, NEW c \in Calls
    PROVE  /\ \A pc : Go(c, pc) =>
                 /\ call'[c] = [call[c] EXCEPT !.pc = pc]
                 /\ \A d \in Calls \ {c} : call'[d] = call[d]
           /\ Finish(c) => call'[c] = NoCall /\ \A d \in Calls \ {c} : call'[d] = call[d]
           /\ Throw(c) => /\ call'[c].pc \in {"idle", "meta"}
                          /\ \A d \in Calls \ {c} : call'[d] = call[d]
           /\ NoCall.pc = "idle"
<1>1. ASSUME NEW pc, Go(c, pc)
      PROVE  /\ call'[c] = [call[c] EXCEPT !.pc = pc]
             /\ \A d \in Calls \ {c} : call'[d] = call[d]
  BY <1>1 DEF Go, Inv
<1>2. Finish(c) => call'[c] = NoCall /\ \A d \in Calls \ {c} : call'[d] = call[d]
  BY CallsElsewhere DEF Finish
<1>3. NoCall.pc = "idle"
  BY DEF NoCall
<1>4. ASSUME Throw(c)
      PROVE  call'[c].pc \in {"idle", "meta"} /\ \A d \in Calls \ {c} : call'[d] = call[d]
  <2>1. CASE call[c].envelope # 0
    <3> DEFINE new == [NoCall EXCEPT !.pc = "meta", !.rec = Fetched(call[c].envelope)]
    <3>1. call' = [call EXCEPT ![c] = new] /\ new.pc = "meta"
      BY <1>4, <2>1 DEF Throw, NoCall
    <3> HIDE DEF new
    <3> QED BY <3>1, CallsElsewhere
  <2>2. CASE call[c].envelope = 0
    BY <1>2, <1>3, <1>4, <2>2 DEF Throw
  <2> QED BY <2>1, <2>2
<1> QED BY <1>1, <1>2, <1>3, <1>4

Critical == {"sweep", "delete", "gate"} \cup Marking

\* Steps after which a call has nothing to know.
LEMMA CarefreeStep ==
    ASSUME Inv, Inv', Solo, NEW c \in Calls, setting' = setting,
           c \in setting.callers \/ call[c].pc # "idle",
           \A d \in Calls \ {c} : call'[d] = call[d],
           call'[c].pc \notin Critical
    PROVE  Solo'
<1>1. Knows(call'[c], file')
  BY IdleKnows DEF Critical
<1> QED BY <1>1, SoloStep

LEMMA KeepWay ==
    ASSUME Inv, NEW c \in Calls, NEW pc, NEW value
    PROVE  \A field \in {"rec", "prev", "path", "stored", "stale"} :
              Keep(c, pc, field, value) =>
                  /\ call'[c] = [call[c] EXCEPT !.pc = pc, ![field] = value]
                  /\ call'[c].pc = pc
                  /\ \A d \in Calls \ {c} : call'[d] = call[d]
<1> TAKE field \in {"rec", "prev", "path", "stored", "stale"}
<1> SUFFICES ASSUME Keep(c, pc, field, value)
             PROVE  /\ call'[c] = [call[c] EXCEPT !.pc = pc, ![field] = value]
                    /\ call'[c].pc = pc
                    /\ \A d \in Calls \ {c} : call'[d] = call[d]
  OBVIOUS
<1> DEFINE new == [call[c] EXCEPT !.pc = pc, ![field] = value]
<1>1. call' = [call EXCEPT ![c] = new]
  BY DEF Keep
<1>2. new.pc = pc
  <2>1. call[c] \in Progress
    BY DEF Inv
  <2> QED BY <2>1 DEF Progress
<1> HIDE DEF new
<1>3. call'[c] = new /\ \A d \in Calls \ {c} : call'[d] = call[d]
  BY <1>1, CallsElsewhere
<1> QED BY <1>2, <1>3 DEF new

\* Call c ends, or goes on at one of the steps pcs.
GoesOn(c, pcs) ==
    \/ Finish(c) \/ Throw(c)
    \/ \E pc \in pcs : \/ Go(c, pc)
                       \/ \E value : \/ Keep(c, pc, "rec", value) \/ Keep(c, pc, "prev", value)
                                      \/ Keep(c, pc, "path", value) \/ Keep(c, pc, "stored", value)

Carefree == {"verdict", "meta", "previous", "by-id", "probe", "compare", "title",
             "restore alias", "restore meta"}

LEMMA GoesOnCarefree ==
    ASSUME Inv, NEW c \in Calls, GoesOn(c, Carefree)
    PROVE  call'[c].pc \notin Critical /\ \A d \in Calls \ {c} : call'[d] = call[d]
<1>0. Carefree \cap Critical = {} /\ "idle" \notin Critical /\ "meta" \notin Critical
  BY DEF Carefree, Critical, Marking
<1>1. CASE Finish(c) \/ Throw(c)
  BY <1>0, <1>1, WaysOn
<1>2. ASSUME NEW pc \in Carefree, Go(c, pc)
      PROVE  call'[c].pc = pc /\ \A d \in Calls \ {c} : call'[d] = call[d]
  <2>1. call[c] \in Progress
    BY DEF Inv
  <2>2. call'[c] = [call[c] EXCEPT !.pc = pc] /\ \A d \in Calls \ {c} : call'[d] = call[d]
    BY <1>2, WaysOn
  <2> QED BY <2>1, <2>2 DEF Progress
<1>3. ASSUME NEW pc \in Carefree, NEW value,
             \/ Keep(c, pc, "rec", value) \/ Keep(c, pc, "prev", value)
             \/ Keep(c, pc, "path", value) \/ Keep(c, pc, "stored", value)
      PROVE  call'[c].pc = pc /\ \A d \in Calls \ {c} : call'[d] = call[d]
  BY <1>3, KeepWay
<1> QED BY <1>0, <1>1, <1>2, <1>3 DEF GoesOn

LEMMA SoloIngest ==
    ASSUME Inv, Inv', Solo, NEW c \in Calls,
           \/ BeginIngest(c) \/ BeginBackfill(c) \/ Fetch(c) \/ FetchVerdict(c)
           \/ WriteMeta(c) \/ ReadPrevious(c) \/ WriteById(c) \/ WriteByIdOnly(c)
           \/ Probe(c) \/ Compare(c) \/ WriteRow(c)
    PROVE  Solo'
<1> DEFINE k == call[c]
<1>0. k \in Progress /\ call \in [Calls -> Progress]
  BY DEF Inv
<1>1. CASE BeginIngest(c)
  <2>1. PICK v \in due, webhook \in BOOLEAN :
          call' = [call EXCEPT ![c] = [NoCall EXCEPT !.pc = "fetch", !.envelope = IF webhook THEN v ELSE 0]]
    BY <1>1 DEF BeginIngest
  <2> QED BY <1>0, <1>1, <2>1, CarefreeStep DEF BeginIngest, NoCall, Critical, Marking
<1>2. CASE BeginBackfill(c)
  BY <1>0, <1>2, CarefreeStep DEF BeginBackfill, Provider, NoCall, Critical, Marking
<1>3. CASE Fetch(c)
  <2>1. setting' = setting /\ k.pc # "idle"
    BY <1>3 DEF Fetch, At, Provider
  <2>2. GoesOn(c, Carefree)
    BY <1>3 DEF Fetch, GoesOn, Carefree
  <2> QED BY <2>1, <2>2, GoesOnCarefree, CarefreeStep
<1>4. CASE FetchVerdict(c)
  <2>1. setting' = setting /\ k.pc # "idle"
    BY <1>4 DEF FetchVerdict, At, Provider
  <2>2. GoesOn(c, Carefree)
    BY <1>4 DEF FetchVerdict, GoesOn, Carefree
  <2> QED BY <2>1, <2>2, GoesOnCarefree, CarefreeStep
<1>5. CASE WriteMeta(c)
  <2>1. setting' = setting /\ k.pc # "idle"
    BY <1>5 DEF WriteMeta, At, Provider
  <2>2. GoesOn(c, Carefree)
    BY <1>5 DEF WriteMeta, GoesOn, Carefree
  <2> QED BY <2>1, <2>2, GoesOnCarefree, CarefreeStep
<1>6. CASE ReadPrevious(c)
  <2>1. setting' = setting /\ k.pc # "idle"
    BY <1>6 DEF ReadPrevious, At, Provider
  <2>2. GoesOn(c, Carefree)
    BY <1>6 DEF ReadPrevious, GoesOn, Carefree
  <2> QED BY <2>1, <2>2, GoesOnCarefree, CarefreeStep
<1>7. CASE WriteById(c)
  <2>1. setting' = setting /\ k.pc # "idle"
    BY <1>7 DEF WriteById, Thrown, At, Provider
  <2>2. GoesOn(c, Carefree)
    BY <1>7 DEF WriteById, Thrown, GoesOn, Carefree
  <2> QED BY <2>1, <2>2, GoesOnCarefree, CarefreeStep
<1>8. CASE Probe(c)
  <2>1. setting' = setting /\ k.pc # "idle"
    BY <1>8 DEF Probe, Thrown, At, Provider
  <2>2. GoesOn(c, Carefree)
    BY <1>8 DEF Probe, Thrown, GoesOn, Carefree
  <2> QED BY <2>1, <2>2, GoesOnCarefree, CarefreeStep
<1>9. CASE Compare(c)
  <2>1. setting' = setting /\ k.pc # "idle"
    BY <1>9 DEF Compare, At, Provider
  <2>2. GoesOn(c, Carefree)
    BY <1>9 DEF Compare, GoesOn, Carefree
  <2> QED BY <2>1, <2>2, GoesOnCarefree, CarefreeStep
<1>10. CASE WriteRow(c)
  <2>1. setting' = setting /\ k.pc # "idle"
    BY <1>10 DEF WriteRow, At, Provider
  <2>2. GoesOn(c, Carefree)
    BY <1>10 DEF WriteRow, GoesOn, Carefree
  <2> QED BY <2>1, <2>2, GoesOnCarefree, CarefreeStep
<1>11. CASE WriteByIdOnly(c)
  <2>1. setting' = setting /\ k.pc # "idle"
    BY <1>11 DEF WriteByIdOnly, At, Provider
  <2>2. GoesOn(c, Carefree)
    BY <1>11 DEF WriteByIdOnly, GoesOn
  <2> QED BY <2>1, <2>2, GoesOnCarefree, CarefreeStep
<1> QED BY <1>1, <1>2, <1>3, <1>4, <1>5, <1>6, <1>7, <1>8, <1>9, <1>10, <1>11

LEMMA SoloWriteTitle == ASSUME Inv, Inv', Solo, NEW c \in Calls, WriteTitle(c) PROVE Solo'
<1> DEFINE k == call[c]
<1>0. k.pc # "idle" /\ k \in Progress /\ k.pc \in Aliasing
  BY DEF WriteTitle, At, Inv, Aliasing
<1>1. CASE /\ Works /\ Write(k.path, k.rec) /\ UNCHANGED <<Provider, row>>
           /\ Keep(c, "sweep", "stale", Stale(k.prev, k.path))
  <2>1. /\ call'[c] = [k EXCEPT !.pc = "sweep", !.stale = Stale(k.prev, k.path)]
        /\ \A d \in Calls \ {c} : call'[d] = call[d]
    BY <1>1, KeepWay
  <2>2. k.prev \in Content /\ (k.prev = Missing \/ k.prev.ver \in Versions)
    BY <1>0, MayAlias DEF Progress, Fits
  <2>3. /\ call'[c].pc = "sweep" /\ call'[c].path = k.path /\ call'[c].rec = k.rec
        /\ call'[c].stale = Stale(k.prev, k.path)
    BY <1>0, <2>1 DEF Progress
  <2>4. file'[k.path] = k.rec
    BY <1>0, <1>1 DEF Write, Inv, Sound, Progress
  <2>5. Knows(call'[c], file')
    BY <2>2, <2>3, <2>4, StaleTypes DEF Knows, Marking
  <2> QED BY <1>0, <1>1, <2>1, <2>5, SoloStep DEF Provider
<1>2. CASE Thrown(c)
  <2>1. GoesOn(c, Carefree) /\ setting' = setting
    BY <1>2 DEF Thrown, GoesOn, Provider
  <2> QED BY <1>0, <2>1, GoesOnCarefree, CarefreeStep
<1> QED BY <1>1, <1>2 DEF WriteTitle

\* A candidate is dealt with; what is left still spares the alias just written.
LEMMA DropStaleKnows ==
    ASSUME Inv, Solo, Alone, NEW c \in Calls, call[c].pc \in {"sweep", "delete"},
           call[c].stale # <<>>, DropStale(c), file'[call[c].path] = file[call[c].path]
    PROVE  Knows(call'[c], file')
<1> DEFINE k == call[c]
<1>0. k \in Progress /\ Knows(k, file)
  BY DEF Inv, Solo
<1>1. call'[c] = [k EXCEPT !.pc = "sweep", !.stale = Tail(k.stale)]
  BY CallsElsewhere DEF DropStale, Keep, Inv
<1>2. /\ call'[c].pc = "sweep" /\ call'[c].path = k.path /\ call'[c].rec = k.rec
      /\ call'[c].stale = Tail(k.stale)
  BY <1>0, <1>1 DEF Progress
<1>3. \A i \in DOMAIN Tail(k.stale) : Tail(k.stale)[i] # k.path
  <2>1. k.stale \in Seq(Paths) /\ \A i \in DOMAIN k.stale : k.stale[i] \in Paths \ {k.path}
    <3>1. k.stale \in Seq(Paths)
      BY <1>0 DEF Progress
    <3>2. \A i \in DOMAIN k.stale : k.stale[i] # k.path
      BY <1>0 DEF Knows
    <3>3. \A i \in DOMAIN k.stale : k.stale[i] \in Paths
      BY <3>1
    <3> QED BY <3>1, <3>2, <3>3
  <2>2. \A i \in DOMAIN Tail(k.stale) : Tail(k.stale)[i] \in Paths \ {k.path}
    BY <2>1, TailMembers
  <2> QED BY <2>2
<1>4. file'[k.path] = k.rec
  BY <1>0 DEF Knows
<1> QED BY <1>2, <1>3, <1>4 DEF Knows, Marking

LEMMA SoloReadStale == ASSUME Inv, Inv', Solo, NEW c \in Calls, ReadStale(c) PROVE Solo'
<1> DEFINE k == call[c]
<1>0. k.pc = "sweep" /\ k.stale # <<>> /\ setting' = setting /\ file' = file
  BY DEF ReadStale, At, Provider
<1>1. CASE Go(c, "delete")
  <2>0. k \in Progress
    BY DEF Inv
  <2>1. call'[c] = [k EXCEPT !.pc = "delete"] /\ \A d \in Calls \ {c} : call'[d] = call[d]
    BY <1>1, WaysOn
  <2>2. /\ call'[c].pc = "delete" /\ call'[c].path = k.path /\ call'[c].rec = k.rec
        /\ call'[c].stale = k.stale
    BY <2>0, <2>1 DEF Progress
  <2>3. Alone => Knows(call'[c], file')
    BY <1>0, <2>2 DEF Solo, Knows, Marking
  <2> QED BY <1>0, <2>1, <2>3, SoloStep
<1>2. CASE DropStale(c)
  <2>1. \A d \in Calls \ {c} : call'[d] = call[d]
    BY <1>2, KeepWay DEF DropStale
  <2>2. Alone => Knows(call'[c], file')
    BY <1>0, <1>2, DropStaleKnows
  <2> QED BY <1>0, <2>1, <2>2, SoloStep
<1> QED BY <1>1, <1>2 DEF ReadStale

LEMMA SoloDeleteStale == ASSUME Inv, Inv', Solo, NEW c \in Calls, DeleteStale(c) PROVE Solo'
<1> DEFINE k == call[c]
<1>0. /\ k.pc = "delete" /\ k.pc \in Aliasing /\ k \in Progress
      /\ setting' = setting /\ DropStale(c)
  BY DEF DeleteStale, At, Provider, Aliasing, Inv
<1>1. k.stale \in Seq(Paths) /\ k.stale # <<>> /\ k.path \in Paths
  BY <1>0, MayAlias DEF Fits, Progress
<1>2. \A d \in Calls \ {c} : call'[d] = call[d]
  BY <1>0, KeepWay DEF DropStale
<1>3. ASSUME Alone PROVE Knows(call'[c], file')
  <2>1. \A i \in DOMAIN k.stale : k.stale[i] # k.path
    BY <1>0, <1>3 DEF Solo, Knows
  <2>2. Head(k.stale) # k.path
    BY <1>1, <2>1
  <2>3. file'[k.path] = file[k.path]
    BY <1>1, <2>2 DEF DeleteStale, Write, Inv, Sound
  <2> QED BY <1>0, <1>1, <1>3, <2>3, DropStaleKnows
<1> QED BY <1>0, <1>2, <1>3, SoloStep

LEMMA SoloBeginRefresh == ASSUME Inv, Inv', Solo, NEW c \in Calls, BeginRefresh(c) PROVE Solo'
<1>1. CASE UNCHANGED call
  BY <1>1 DEF BeginRefresh, Solo, Called, Alone, Knows, Ready
<1>2. CASE call' = [call EXCEPT ![c] = [NoCall EXCEPT !.pc = "mark", !.rec = file[ById]]]
  <2> DEFINE new == [NoCall EXCEPT !.pc = "mark", !.rec = file[ById]]
  <2>1. new.pc = "mark"
    BY DEF NoCall
  <2>2. call'[c] = new /\ \A d \in Calls \ {c} : call'[d] = call[d]
    BY <1>2, CallsElsewhere
  <2>3. call'[c].pc \notin Critical
    BY <2>1, <2>2 DEF Critical, Marking
  <2> QED BY <2>2, <2>3, CarefreeStep DEF BeginRefresh
<1> QED BY <1>1, <1>2 DEF BeginRefresh

LEMMA SoloReadToMark == ASSUME Inv, Inv', Solo, NEW c \in Calls, ReadToMark(c) PROVE Solo'
<1> DEFINE k == call[c]
<1>0. k.pc = "mark" /\ k.pc \in Refreshing /\ k \in Progress /\ setting' = setting
  BY DEF ReadToMark, At, Provider, Refreshing, Inv
<1>1. CASE Keep(c, "pend alias", "prev", Pending(file[ById]))
  <2>0. Pending(file[ById]).gate = "pending"
    BY <1>0, MayRefresh DEF Pending, Content
  <2>1. PICK rec : rec.gate = "pending" /\ Keep(c, "pend alias", "prev", rec)
    BY <1>1, <2>0
  <2>2. /\ call'[c] = [k EXCEPT !.pc = "pend alias", !.prev = rec]
        /\ \A d \in Calls \ {c} : call'[d] = call[d]
    BY <2>1 DEF Keep, Inv
  <2>3. call'[c].pc = "pend alias" /\ call'[c].prev.gate = "pending"
    BY <1>0, <2>1, <2>2 DEF Progress
  <2>4. Knows(call'[c], file')
    BY <2>3 DEF Knows
  <2> QED BY <1>0, <2>2, <2>4, SoloStep
<1>2. CASE Finish(c)
  BY <1>0, <1>2, GoesOnCarefree, CarefreeStep DEF GoesOn
<1> QED BY <1>1, <1>2 DEF ReadToMark

\* A write of a refresh that goes on to "next", or the end of the refresh.
LEMMA RewriteEffect ==
    ASSUME Inv, NEW c \in Calls, NEW pc, NEW path \in Paths, NEW rec \in Content, NEW next,
           next # "idle", Rewrite(c, pc, path, rec, next)
    PROVE  /\ setting' = setting
           /\ \/ /\ call'[c] = [call[c] EXCEPT !.pc = next]
                 /\ \A d \in Calls \ {c} : call'[d] = call[d]
                 /\ file' = [file EXCEPT ![path] = rec]
              \/ Finish(c)
BY WaysOn DEF Rewrite, Provider, Write

LEMMA SoloPend ==
    ASSUME Inv, Inv', Solo, NEW c \in Calls, PendAlias(c) \/ PendMeta(c)
    PROVE  Solo'
<1> DEFINE k == call[c]
           path == IF k.pc = "pend alias" THEN ById ELSE Canonical(k.prev)
           next == IF k.pc = "pend alias" THEN "pend meta" ELSE "gate"
<1>0. k.pc \in Marking /\ k.pc \in Refreshing /\ k \in Progress /\ k.pc # "idle"
  BY DEF PendAlias, PendMeta, Rewrite, At, Marking, Refreshing, Inv
<1>1. k.prev \in Content /\ k.prev.ver \in Versions /\ file \in [Paths -> Content]
  BY <1>0, MayRefresh DEF Sound
<1>2. path \in Paths /\ ById \in Paths /\ Canonical(k.prev) \in Paths /\ Canonical(k.prev) # ById
  BY <1>1, NamesOfRecords, PathTypes, Domains
<1>3. Rewrite(c, k.pc, path, k.prev, next)
  BY DEF PendAlias, PendMeta, Rewrite, At
<1>4. CASE Finish(c)
  BY <1>0, <1>1, <1>2, <1>3, <1>4, GoesOnCarefree, CarefreeStep DEF GoesOn, Rewrite, Provider
<1>5. CASE /\ call'[c] = [k EXCEPT !.pc = next] /\ \A d \in Calls \ {c} : call'[d] = call[d]
           /\ file' = [file EXCEPT ![path] = k.prev]
  <2>0. call'[c].pc = next /\ call'[c].prev = k.prev
    BY <1>0, <1>5 DEF Progress
  <2>1. ASSUME Alone PROVE Knows(call'[c], file')
    <3>1. k.prev.gate = "pending" /\ (k.pc = "pend meta" => file[ById] = k.prev)
      BY <1>0, <2>1 DEF Solo, Knows
    <3>2. CASE k.pc = "pend alias"
      <4>1. file'[ById] = k.prev /\ call'[c].pc = "pend meta"
        BY <1>1, <1>2, <1>5, <2>0, <3>2
      <4> QED BY <2>0, <3>1, <4>1 DEF Knows, Marking
    <3>3. CASE k.pc = "pend meta"
      <4>1. /\ file'[ById] = k.prev /\ file'[Canonical(k.prev)] = k.prev
            /\ call'[c].pc = "gate"
        BY <1>1, <1>2, <1>5, <2>0, <3>1, <3>3
      <4> QED BY <3>1, <4>1 DEF Knows, Marking, Ready
    <3> QED BY <1>0, <3>2, <3>3 DEF Marking
  <2>2. setting' = setting
    BY <1>3 DEF Rewrite, Provider
  <2> QED BY <1>0, <1>5, <2>1, <2>2, SoloStep
<1>6. next # "idle"
  OBVIOUS
<1>7. PICK way : way = next
  OBVIOUS
<1>8. PICK to \in Paths, rec \in Content : to = path /\ rec = k.prev
  BY <1>1, <1>2
<1>9. way # "idle" /\ Rewrite(c, k.pc, to, rec, way)
  BY <1>3, <1>6, <1>7, <1>8
<1>10. \/ /\ call'[c] = [k EXCEPT !.pc = way] /\ \A d \in Calls \ {c} : call'[d] = call[d]
          /\ file' = [file EXCEPT ![to] = rec]
       \/ Finish(c)
  <2>1. Rewrite(c, k.pc, to, rec, way) => Finish(c) \/ (Write(to, rec) /\ Go(c, way))
    BY <1>9 DEF Rewrite
  <2> QED BY <1>9, <2>1, WaysOn DEF Write
<1> QED BY <1>4, <1>5, <1>7, <1>8, <1>10

LEMMA SoloRestore ==
    ASSUME Inv, Inv', Solo, NEW c \in Calls, FetchGate(c) \/ RestoreAlias(c) \/ RestoreMeta(c)
    PROVE  Solo'
<1>1. call[c].pc # "idle" /\ setting' = setting
  BY DEF FetchGate, RestoreAlias, RestoreMeta, Rewrite, At, Provider
<1>2. GoesOn(c, Carefree)
  <2>1. CASE FetchGate(c)
    BY <2>1 DEF FetchGate, GoesOn, Carefree
  <2>2. CASE RestoreAlias(c)
    BY <2>2 DEF RestoreAlias, Rewrite, GoesOn, Carefree
  <2>3. CASE RestoreMeta(c)
    BY <2>3 DEF RestoreMeta, Rewrite, GoesOn
  <2> QED BY <2>1, <2>2, <2>3
<1> QED BY <1>1, <1>2, GoesOnCarefree, CarefreeStep

LEMMA NextSolo == Inv /\ Inv' /\ Solo /\ [Next]_vars => Solo'
<1> SUFFICES ASSUME Inv, Inv', Solo, [Next]_vars PROVE Solo'
  OBVIOUS
<1>1. ASSUME UNCHANGED <<setting, file, call>> PROVE Solo'
  BY <1>1 DEF Solo, Called, Alone, Knows, Ready
<1>2. CASE UNCHANGED vars \/ Edit \/ Stir
  BY <1>1, <1>2 DEF vars, Edit, Stir
<1>3. ASSUME NEW c \in Calls, Ingest(c) PROVE Solo'
  BY <1>3, SoloIngest, SoloWriteTitle, SoloReadStale, SoloDeleteStale DEF Ingest
<1>4. ASSUME NEW c \in Calls, Refresh(c) PROVE Solo'
  BY <1>4, SoloBeginRefresh, SoloReadToMark, SoloPend, SoloRestore DEF Refresh
<1> QED BY <1>2, <1>3, <1>4 DEF Next

LEMMA InitSolo == Init => Solo
<1> SUFFICES ASSUME Init PROVE Solo
  OBVIOUS
<1>1. \A c \in Calls : call[c].pc = "idle"
  BY DEF Init, NoCall
<1> QED BY <1>1, IdleKnows DEF Solo, Called, Marking

LEMMA SoloInvariant == Spec => []Solo
BY InitSolo, NextSolo, Invariant, PTL DEF Spec

\* The cleanup of stale aliases spares the alias the call has just written.
THEOREM CleanupSparesFresh == Spec => []FreshAliasSurvives
<1>1. Solo => FreshAliasSurvives
  BY DEF Solo, Knows, FreshAliasSurvives
<1> QED BY <1>1, SoloInvariant, PTL

\* No ready gate is left where a refresh may stop for want of an answer.
THEOREM RefreshFailsClosed == Spec => []FailsClosed
<1>1. Solo => FailsClosed
  BY DEF Solo, Knows, FailsClosed, At
<1> QED BY <1>1, SoloInvariant, PTL

-----------------------------------------------------------------------------
(* Calls one after another that do not fail leave one title alias.           *)

\* Files that show one version of the record: the title aliases are the one of
\* the by-id alias, with its bytes.
Neat(f) ==
    /\ f[ById] # Missing => HasAlias(f[ById])
    /\ \A p \in AliasPaths :
          f[p] = IF f[ById] # Missing /\ p = Alias(f[ById]) THEN f[ById] ELSE Missing

\* Files between the write of the by-id alias and that of the title alias.
Renaming(k, f) ==
    /\ f[ById] = k.rec
    /\ k.prev # Missing => HasAlias(k.prev)
    /\ \A p \in AliasPaths :
          f[p] = IF k.prev # Missing /\ p = Alias(k.prev) THEN k.prev ELSE Missing

\* Every title alias but the one just written is about to be swept.
Sweeping(k, f) ==
    /\ f[ById] = k.rec
    /\ \A p \in AliasPaths \ {k.path} :
          f[p] = Missing \/ (f[p] = k.prev /\ \E i \in DOMAIN k.stale : p = k.stale[i])

\* What is true of the files f while a call k is under way, at each of its steps.
Tends(k, f) ==
    /\ k.pc \in {"idle", "fetch", "verdict", "meta"} \cup Aliasing
    /\ k.pc \in {"idle", "fetch", "verdict", "meta", "previous", "by-id"} => Neat(f)
    /\ k.pc = "by-id" => k.prev = f[ById]
    /\ k.pc \in {"probe", "compare", "title"} => Renaming(k, f)
    /\ k.pc = "compare" => f[Alias(k.rec)] # Missing
    /\ k.pc \in {"probe", "compare", "title", "sweep", "delete"} => HasAlias(k.rec)
    /\ k.pc \in {"title", "sweep", "delete"} => k.path = Alias(k.rec)
    /\ k.pc \in {"sweep", "delete"} => Sweeping(k, f)

Orderly ==
    \A c \in Calls :
        (setting.callers = {c} /\ faults = 0 /\ Cleanable /\ "refresh" \notin setting.jobs)
            => Tends(call[c], file)

\* Each way for a call to go on, and the local variables it keeps.
LEMMA Kept ==
    ASSUME Inv, NEW c \in Calls, NEW pc, NEW value
    PROVE  /\ Go(c, pc) =>
                 /\ call'[c].pc = pc /\ call'[c].rec = call[c].rec /\ call'[c].prev = call[c].prev
                 /\ call'[c].path = call[c].path /\ call'[c].stored = call[c].stored
                 /\ call'[c].stale = call[c].stale
           /\ Keep(c, pc, "rec", value) =>
                 /\ call'[c].pc = pc /\ call'[c].rec = value /\ call'[c].prev = call[c].prev
                 /\ call'[c].path = call[c].path /\ call'[c].stored = call[c].stored
                 /\ call'[c].stale = call[c].stale
           /\ Keep(c, pc, "prev", value) =>
                 /\ call'[c].pc = pc /\ call'[c].rec = call[c].rec /\ call'[c].prev = value
                 /\ call'[c].path = call[c].path /\ call'[c].stored = call[c].stored
                 /\ call'[c].stale = call[c].stale
           /\ Keep(c, pc, "path", value) =>
                 /\ call'[c].pc = pc /\ call'[c].rec = call[c].rec /\ call'[c].prev = call[c].prev
                 /\ call'[c].path = value /\ call'[c].stored = call[c].stored
                 /\ call'[c].stale = call[c].stale
           /\ Keep(c, pc, "stored", value) =>
                 /\ call'[c].pc = pc /\ call'[c].rec = call[c].rec /\ call'[c].prev = call[c].prev
                 /\ call'[c].path = call[c].path /\ call'[c].stored = value
                 /\ call'[c].stale = call[c].stale
           /\ Keep(c, pc, "stale", value) =>
                 /\ call'[c].pc = pc /\ call'[c].rec = call[c].rec /\ call'[c].prev = call[c].prev
                 /\ call'[c].path = call[c].path /\ call'[c].stored = call[c].stored
                 /\ call'[c].stale = value
<1> DEFINE k == call[c]
<1>0. k \in Progress
  BY DEF Inv
<1>1. ASSUME Go(c, pc)
      PROVE  /\ call'[c].pc = pc /\ call'[c].rec = k.rec /\ call'[c].prev = k.prev
             /\ call'[c].path = k.path /\ call'[c].stored = k.stored /\ call'[c].stale = k.stale
  <2>1. call'[c] = [k EXCEPT !.pc = pc]
    BY <1>1, WaysOn
  <2> HIDE DEF k
  <2> QED BY <1>0, <2>1 DEF Progress
<1>2. ASSUME Keep(c, pc, "rec", value)
      PROVE  /\ call'[c].pc = pc /\ call'[c].rec = value /\ call'[c].prev = k.prev
             /\ call'[c].path = k.path /\ call'[c].stored = k.stored /\ call'[c].stale = k.stale
  <2>1. call'[c] = [k EXCEPT !.pc = pc, !.rec = value]
    BY <1>2 DEF Keep, Inv
  <2> HIDE DEF k
  <2> QED BY <1>0, <2>1 DEF Progress
<1>3. ASSUME Keep(c, pc, "prev", value)
      PROVE  /\ call'[c].pc = pc /\ call'[c].rec = k.rec /\ call'[c].prev = value
             /\ call'[c].path = k.path /\ call'[c].stored = k.stored /\ call'[c].stale = k.stale
  <2>1. call'[c] = [k EXCEPT !.pc = pc, !.prev = value]
    BY <1>3 DEF Keep, Inv
  <2> HIDE DEF k
  <2> QED BY <1>0, <2>1 DEF Progress
<1>4. ASSUME Keep(c, pc, "path", value)
      PROVE  /\ call'[c].pc = pc /\ call'[c].rec = k.rec /\ call'[c].prev = k.prev
             /\ call'[c].path = value /\ call'[c].stored = k.stored /\ call'[c].stale = k.stale
  <2>1. call'[c] = [k EXCEPT !.pc = pc, !.path = value]
    BY <1>4 DEF Keep, Inv
  <2> HIDE DEF k
  <2> QED BY <1>0, <2>1 DEF Progress
<1>5. ASSUME Keep(c, pc, "stored", value)
      PROVE  /\ call'[c].pc = pc /\ call'[c].rec = k.rec /\ call'[c].prev = k.prev
             /\ call'[c].path = k.path /\ call'[c].stored = value /\ call'[c].stale = k.stale
  <2>1. call'[c] = [k EXCEPT !.pc = pc, !.stored = value]
    BY <1>5 DEF Keep, Inv
  <2> HIDE DEF k
  <2> QED BY <1>0, <2>1 DEF Progress
<1>6. ASSUME Keep(c, pc, "stale", value)
      PROVE  /\ call'[c].pc = pc /\ call'[c].rec = k.rec /\ call'[c].prev = k.prev
             /\ call'[c].path = k.path /\ call'[c].stored = k.stored /\ call'[c].stale = value
  <2>1. call'[c] = [k EXCEPT !.pc = pc, !.stale = value]
    BY <1>6 DEF Keep, Inv
  <2> HIDE DEF k
  <2> QED BY <1>0, <2>1 DEF Progress
<1> QED BY <1>1, <1>2, <1>3, <1>4, <1>5, <1>6

\* A step of the only caller.
LEMMA OrderlyStep ==
    ASSUME Inv, Solo, Orderly, NEW c \in Calls,
           setting' = setting, faults' = faults, untitled' = untitled,
           c \in setting.callers \/ call[c].pc # "idle",
           (Alone /\ Cleanable /\ Tends(call[c], file)) => Tends(call'[c], file')
    PROVE  Orderly'
<1>0. c \in setting.callers
  BY DEF Solo, Called
<1>1. ASSUME NEW d \in Calls, setting.callers = {d}, faults = 0, Cleanable,
             "refresh" \notin setting.jobs
      PROVE  Tends(call'[d], file')
  <2>1. d = c /\ Alone
    BY <1>0, <1>1 DEF Alone
  <2>2. Tends(call[c], file)
    BY <1>1, <2>1 DEF Orderly
  <2> QED BY <1>1, <2>1, <2>2
<1>2. \A d \in Calls : Tends(call[d], file)' = Tends(call'[d], file')
  BY DEF Tends, Neat, Renaming, Sweeping, Alias, HasAlias
<1> QED BY <1>1, <1>2 DEF Orderly, Cleanable

\* A failure ends the account.
LEMMA OrderlyFails == ASSUME Inv, Fails PROVE Orderly'
<1>1. faults \in Nat
  BY DEF Inv, Rest
<1>2. faults' # 0
  BY <1>1 DEF Fails
<1> QED BY <1>2 DEF Orderly

\* So does a title without an alias.
LEMMA OrderlyWriteByIdOnly == ASSUME NEW c \in Calls, WriteByIdOnly(c) PROVE Orderly'
BY DEF WriteByIdOnly, Orderly, Cleanable

\* Before its aliases are written a call leaves the files neat.
Calm == {"idle", "fetch", "verdict", "meta"}

LEMMA CalmTends ==
    ASSUME NEW f, NEW g, NEW k, NEW new, k.pc \in Calm, new.pc \in Calm \cup {"previous"},
           g[ById] = f[ById], \A p \in AliasPaths : g[p] = f[p], Tends(k, f)
    PROVE  Tends(new, g)
<1>1. Neat(f)
  BY DEF Tends, Calm
<1>2. Neat(g)
  BY <1>1 DEF Neat
<1> QED BY <1>2 DEF Tends, Calm, Aliasing

LEMMA OrderlyFetches ==
    ASSUME Inv, Solo, Orderly, NEW c \in Calls,
           BeginIngest(c) \/ BeginBackfill(c) \/ Fetch(c) \/ FetchVerdict(c) \/ WriteMeta(c)
    PROVE  Orderly'
<1> DEFINE k == call[c]
<1>0. k \in Progress /\ file \in [Paths -> Content]
  BY DEF Inv, Sound
<1>1. CASE BeginIngest(c) \/ BeginBackfill(c)
  <2>1. /\ setting' = setting /\ faults' = faults /\ untitled' = untitled /\ file' = file
        /\ k.pc = "idle" /\ c \in setting.callers
    BY <1>1 DEF BeginIngest, BeginBackfill, Works, Provider, At
  <2>2. call'[c].pc = "fetch"
    <3>1. CASE BeginIngest(c)
      <4>1. PICK v \in due, webhook \in BOOLEAN :
              call' = [call EXCEPT ![c] =
                 [NoCall EXCEPT !.pc = "fetch", !.envelope = IF webhook THEN v ELSE 0]]
        BY <3>1 DEF BeginIngest
      <4> DEFINE new == [NoCall EXCEPT !.pc = "fetch", !.envelope = IF webhook THEN v ELSE 0]
      <4>2. new.pc = "fetch"
        BY DEF NoCall
      <4>3. call' = [call EXCEPT ![c] = new]
        BY <4>1
      <4> HIDE DEF new
      <4> QED BY <4>2, <4>3, CallsElsewhere
    <3>2. CASE BeginBackfill(c)
      <4> DEFINE new == [NoCall EXCEPT !.pc = "fetch"]
      <4>1. new.pc = "fetch" /\ call' = [call EXCEPT ![c] = new]
        BY <3>2 DEF BeginBackfill, NoCall
      <4> HIDE DEF new
      <4> QED BY <4>1, CallsElsewhere
    <3> QED BY <1>1, <3>1, <3>2
  <2>3. k.pc \in Calm /\ call'[c].pc \in Calm \cup {"previous"}
    BY <2>1, <2>2 DEF Calm
  <2>4. Tends(k, file) => Tends(call'[c], file')
    BY <2>1, <2>3, CalmTends
  <2> QED BY <2>1, <2>4, OrderlyStep
<1>2. CASE (Fetch(c) \/ FetchVerdict(c) \/ WriteMeta(c)) /\ ~Fails
  <2>1. /\ setting' = setting /\ faults' = faults /\ untitled' = untitled
        /\ k.pc \in {"fetch", "verdict", "meta"} /\ k.pc \in Calm
    BY <1>2 DEF Fetch, FetchVerdict, WriteMeta, Provider, At, Works, Calm
  <2>2. call'[c].pc \in Calm \cup {"previous"}
    BY <1>2, Kept DEF Fetch, FetchVerdict, WriteMeta, Calm
  <2>3. file'[ById] = file[ById] /\ \A p \in AliasPaths : file'[p] = file[p]
    <3>1. CASE file' = file
      BY <3>1
    <3>2. CASE WriteMeta(c)
      <4>1. k.rec \in Content /\ k.rec.ver \in Versions
        BY <3>2, Underway DEF WriteMeta, At, Holding
      <4>2. \E t \in Titles : Canonical(k.rec) = <<"meta", t>>
        BY <4>1, Domains DEF Canonical
      <4>3. Write(Canonical(k.rec), k.rec)
        BY <1>2, <3>2 DEF WriteMeta
      <4> QED BY <1>0, <4>2, <4>3, PathTypes DEF Write
    <3> QED BY <1>2, <3>1, <3>2 DEF Fetch, FetchVerdict
  <2>4. Tends(k, file) => Tends(call'[c], file')
    BY <2>1, <2>2, <2>3, CalmTends
  <2> QED BY <2>1, <2>4, OrderlyStep
<1> QED BY <1>1, <1>2, OrderlyFails

LEMMA OrderlyReadPrevious ==
    ASSUME Inv, Solo, Orderly, NEW c \in Calls, ReadPrevious(c), ~Fails PROVE Orderly'
<1> DEFINE k == call[c]
<1>1. /\ setting' = setting /\ faults' = faults /\ untitled' = untitled
      /\ file' = file /\ k.pc = "previous"
      /\ Keep(c, "by-id", "prev", file[ById])
  BY DEF ReadPrevious, Provider, At, Works
<1>2. call'[c].pc = "by-id" /\ call'[c].prev = file[ById]
  BY <1>1, Kept
<1>3. Tends(k, file) => Tends(call'[c], file')
  BY <1>1, <1>2 DEF Tends, Aliasing
<1> QED BY <1>1, <1>3, OrderlyStep

LEMMA OrderlyWriteById ==
    ASSUME Inv, Solo, Orderly, NEW c \in Calls, WriteById(c), ~Fails PROVE Orderly'
<1> DEFINE k == call[c]
<1>0. k.pc = "by-id" /\ k.pc \in Aliasing /\ k.pc # "idle"
  BY DEF WriteById, At, Aliasing
<1>1. /\ setting' = setting /\ faults' = faults /\ untitled' = untitled
      /\ HasAlias(k.rec) /\ Write(ById, k.rec)
      /\ Go(c, "probe") \/ Keep(c, "title", "path", Alias(k.rec))
  BY DEF WriteById, Provider, Works, Thrown
<1>2. /\ call'[c].pc \in {"probe", "title"} /\ call'[c].prev = k.prev /\ call'[c].rec = k.rec
      /\ call'[c].pc = "title" => call'[c].path = Alias(k.rec)
  <2> DEFINE path == Alias(k.rec)
  <2>0. Go(c, "probe") \/ Keep(c, "title", "path", path)
    BY <1>1
  <2> HIDE DEF path
  <2>1. CASE Go(c, "probe")
    <3> DEFINE pc == "probe"
    <3>1. Go(c, pc)
      BY <2>1
    <3> HIDE DEF pc
    <3>2. call'[c].pc = pc /\ call'[c].rec = k.rec /\ call'[c].prev = k.prev
      BY <3>1, Kept
    <3> QED BY <3>2 DEF pc
  <2>2. CASE Keep(c, "title", "path", path)
    <3>1. /\ call'[c].pc = "title" /\ call'[c].rec = k.rec /\ call'[c].prev = k.prev
          /\ call'[c].path = path
      BY <2>2, Kept
    <3> QED BY <3>1 DEF path
  <2> QED BY <2>0, <2>1, <2>2
<1>3. file'[ById] = k.rec /\ \A p \in AliasPaths : file'[p] = file[p]
  BY <1>1, PathTypes DEF Write, Inv, Sound
<1>4. ASSUME Tends(k, file) PROVE Tends(call'[c], file')
  <2>1. Neat(file) /\ k.prev = file[ById]
    BY <1>0, <1>4 DEF Tends
  <2>2. Renaming(call'[c], file')
    BY <1>2, <1>3, <2>1 DEF Neat, Renaming
  <2>3. HasAlias(call'[c].rec)
    BY <1>1, <1>2
  <2> QED BY <1>2, <2>2, <2>3 DEF Tends, Aliasing
<1> QED BY <1>0, <1>1, <1>4, OrderlyStep

\* A record of the mirror is not missing, so its alias is there.
LEMMA OrderlyResolve ==
    ASSUME Inv, Solo, Orderly, NEW c \in Calls, Probe(c) \/ Compare(c), ~Fails PROVE Orderly'
<1> DEFINE k == call[c]
<1>0. k.pc \in {"probe", "compare"} /\ k.pc \in Aliasing
  BY DEF Probe, Compare, At, Aliasing
<1>1. setting' = setting /\ faults' = faults /\ untitled' = untitled /\ file' = file
  BY DEF Probe, Compare, Thrown, Provider, Works
<1>2. k.rec \in Content /\ Alias(k.rec) \in AliasPaths
  BY <1>0, MayAlias
<1>3. ASSUME Tends(k, file) PROVE Tends(call'[c], file')
  <2>1. Renaming(k, file) /\ HasAlias(k.rec)
    BY <1>0, <1>3 DEF Tends
  <2>2. \/ /\ call'[c].pc = "title" /\ call'[c].path = Alias(k.rec)
           /\ call'[c].rec = k.rec /\ call'[c].prev = k.prev
        \/ /\ call'[c].pc = "compare" /\ file[Alias(k.rec)] # Missing
           /\ call'[c].rec = k.rec /\ call'[c].prev = k.prev
    <3>1. CASE Probe(c)
      <4>1. CASE Keep(c, "title", "path", Alias(k.rec))
        BY <4>1, Kept
      <4>2. CASE Go(c, "compare") /\ file[Alias(k.rec)] # Missing
        BY <4>2, Kept
      <4> QED BY <3>1, <4>1, <4>2 DEF Probe, Thrown
    <3>2. CASE Compare(c)
      <4>1. file[Alias(k.rec)] # Missing
        BY <1>3, <3>2 DEF Tends, Compare, At
      <4>2. Ours(c, file[Alias(k.rec)])
        BY <1>2, <2>1, <4>1 DEF Renaming, Ours
      <4>3. Keep(c, "title", "path", Alias(k.rec))
        BY <3>2, <4>2 DEF Compare
      <4> QED BY <4>3, Kept
    <3> QED BY <3>1, <3>2
  <2>3. Renaming(call'[c], file')
    BY <1>1, <2>1, <2>2 DEF Renaming
  <2>4. HasAlias(call'[c].rec)
    BY <2>1, <2>2
  <2> QED BY <1>1, <2>2, <2>3, <2>4 DEF Tends, Aliasing
<1> QED BY <1>0, <1>1, <1>3, OrderlyStep

\* The alias of the version before is a candidate, unless it is in use.
LEMMA StaleHasAlias ==
    ASSUME NEW prev \in Content, prev # Missing, HasAlias(prev), setting.deletes,
           NEW path, Alias(prev) # path
    PROVE  \E i \in DOMAIN Stale(prev, path) : Stale(prev, path)[i] = Alias(prev)
<1> DEFINE but(p) == IF p = path THEN <<>> ELSE <<p>>
           a == Alias(prev)
           b == Fork(prev)
<1>1. Stale(prev, path) = but(a) \o but(b)
  BY DEF Stale
<1>2. but(a) = <<a>>
  OBVIOUS
<1> HIDE DEF a, b
<1>3. CASE b = path
  <2>1. but(b) = <<>>
    BY <1>3
  <2>2. <<a>> \o <<>> = <<a>>
    OBVIOUS
  <2>3. Stale(prev, path) = <<a>>
    BY <1>1, <1>2, <2>1, <2>2
  <2> QED BY <2>3 DEF a
<1>4. CASE b # path
  <2>1. but(b) = <<b>>
    BY <1>4
  <2>2. Stale(prev, path) = <<a, b>>
    BY <1>1, <1>2, <2>1, PairOfOnes
  <2> QED BY <2>2 DEF a
<1> QED BY <1>3, <1>4

LEMMA OrderlyWriteTitle ==
    ASSUME Inv, Solo, Orderly, NEW c \in Calls, WriteTitle(c), ~Fails PROVE Orderly'
<1> DEFINE k == call[c]
           stale == Stale(k.prev, k.path)
<1>0. k.pc = "title" /\ k.pc \in Aliasing /\ k.pc # "idle"
  BY DEF WriteTitle, At, Aliasing
<1>1. /\ setting' = setting /\ faults' = faults /\ untitled' = untitled
      /\ Write(k.path, k.rec) /\ Keep(c, "sweep", "stale", stale)
  BY DEF WriteTitle, Provider, Works, Thrown
<1>2. /\ k \in Progress /\ Alias(k.rec) \in AliasPaths
      /\ k.prev \in Content /\ (k.prev = Missing \/ k.prev.ver \in Versions)
      /\ file \in [Paths -> Content]
  BY <1>0, MayAlias DEF Progress, Fits, Sound
<1>3. /\ call'[c].pc = "sweep" /\ call'[c].prev = k.prev /\ call'[c].rec = k.rec
      /\ call'[c].path = k.path /\ call'[c].stale = stale
  <2> HIDE DEF stale
  <2> QED BY <1>1, Kept
<1>4. ASSUME Cleanable, Tends(k, file) PROVE Tends(call'[c], file')
  <2>1. Renaming(k, file) /\ k.path = Alias(k.rec) /\ HasAlias(k.rec)
    BY <1>0, <1>4 DEF Tends
  <2>2. file'[ById] = file[ById] /\ \A p \in AliasPaths \ {k.path} : file'[p] = file[p]
    BY <1>1, <1>2, <2>1, PathTypes DEF Write
  <2>3. ASSUME NEW p \in AliasPaths \ {k.path}
        PROVE  file'[p] = Missing \/ (file'[p] = k.prev /\ \E i \in DOMAIN stale : p = stale[i])
    <3>1. CASE k.prev # Missing /\ p = Alias(k.prev)
      <4>1. file'[p] = k.prev
        BY <2>1, <2>2, <3>1 DEF Renaming
      <4>2. Alias(k.prev) # k.path /\ HasAlias(k.prev) /\ setting.deletes
        BY <1>4, <2>1, <3>1 DEF Renaming, Cleanable
      <4>3. \E i \in DOMAIN stale : stale[i] = Alias(k.prev)
        BY <1>2, <3>1, <4>2, StaleHasAlias
      <4> QED BY <3>1, <4>1, <4>3
    <3>2. CASE ~(k.prev # Missing /\ p = Alias(k.prev))
      BY <2>1, <2>2, <3>2 DEF Renaming
    <3> QED BY <3>1, <3>2
  <2>4. Sweeping(call'[c], file')
    <3> HIDE DEF stale
    <3> QED BY <1>3, <2>1, <2>2, <2>3 DEF Sweeping, Renaming
  <2>5. call'[c].path = Alias(call'[c].rec) /\ HasAlias(call'[c].rec)
    BY <1>3, <2>1
  <2> QED BY <1>3, <2>4, <2>5 DEF Tends, Aliasing
<1> QED BY <1>0, <1>1, <1>4, OrderlyStep

LEMMA HeadOrTail ==
    ASSUME NEW S, NEW s \in Seq(S), s # <<>>, NEW i \in DOMAIN s, s[i] # Head(s)
    PROVE  \E j \in DOMAIN Tail(s) : Tail(s)[j] = s[i]
<1>1. Len(s) \in Nat /\ Len(s) >= 1 /\ DOMAIN s = 1..Len(s) /\ Head(s) = s[1]
  OBVIOUS
<1>2. Tail(s) \in Seq(S) /\ Len(Tail(s)) = Len(s) - 1
  BY <1>1
<1>3. i - 1 \in 1..(Len(s) - 1)
  BY <1>1
<1>4. Tail(s)[i - 1] = s[i]
  BY <1>1, <1>2, <1>3
<1> QED BY <1>2, <1>3, <1>4

\* A candidate that is gone, or never was the old alias, needs no more sweeping.
LEMMA DropStaleTends ==
    ASSUME Inv, NEW c \in Calls, call[c].pc \in {"sweep", "delete"}, call[c].stale # <<>>,
           DropStale(c), Sweeping(call[c], file),
           file'[ById] = file[ById], file'[Head(call[c].stale)] # call[c].prev \/ call[c].prev = Missing,
           \A p \in AliasPaths : file'[p] = file[p] \/ file'[p] = Missing
    PROVE  Sweeping(call'[c], file')
<1> DEFINE k == call[c]
           rest == Tail(k.stale)
<1>1. k.stale \in Seq(Paths)
  BY DEF Inv, Progress
<1>2. call'[c].prev = k.prev /\ call'[c].rec = k.rec /\ call'[c].path = k.path /\ call'[c].stale = rest
  <2>1. Keep(c, "sweep", "stale", rest)
    BY DEF DropStale
  <2> HIDE DEF rest
  <2> QED BY <2>1, Kept
<1>3. ASSUME NEW p \in AliasPaths \ {k.path}
      PROVE  file'[p] = Missing \/ (file'[p] = k.prev /\ \E i \in DOMAIN rest : p = rest[i])
  <2> SUFFICES ASSUME file'[p] # Missing
               PROVE  file'[p] = k.prev /\ \E i \in DOMAIN rest : p = rest[i]
    OBVIOUS
  <2>1. file'[p] = file[p]
    OBVIOUS
  <2>2. file[p] = k.prev /\ \E i \in DOMAIN k.stale : p = k.stale[i]
    BY <2>1 DEF Sweeping
  <2>3. PICK i \in DOMAIN k.stale : p = k.stale[i]
    BY <2>2
  <2>4. p # Head(k.stale)
    BY <2>1, <2>2
  <2>5. \E j \in DOMAIN rest : rest[j] = p
    <3> DEFINE s == k.stale
    <3>1. s \in Seq(Paths) /\ s # <<>> /\ i \in DOMAIN s /\ s[i] # Head(s) /\ s[i] = p
      BY <1>1, <2>3, <2>4
    <3> HIDE DEF s
    <3>2. \E j \in DOMAIN Tail(s) : Tail(s)[j] = s[i]
      BY <3>1, HeadOrTail
    <3> QED BY <3>1, <3>2 DEF s
  <2> QED BY <2>1, <2>2, <2>5
<1> HIDE DEF rest
<1> QED BY <1>2, <1>3 DEF Sweeping

LEMMA OrderlySweep ==
    ASSUME Inv, Solo, Orderly, NEW c \in Calls, ReadStale(c) \/ DeleteStale(c), ~Fails PROVE Orderly'
<1> DEFINE k == call[c]
<1>0. k.pc \in {"sweep", "delete"} /\ k.pc \in Aliasing /\ k.pc # "idle"
  BY DEF ReadStale, DeleteStale, At, Aliasing
<1>1. setting' = setting /\ faults' = faults /\ untitled' = untitled
  BY DEF ReadStale, DeleteStale, Provider, Works
<1>2. k \in Progress /\ Fits(k, file) /\ file \in [Paths -> Content]
  BY <1>0, MayAlias DEF Sound
<1>3. k.stale # <<>>
  BY <1>2 DEF ReadStale, DeleteStale, At, Fits
<1>4. ASSUME Tends(k, file) PROVE Tends(call'[c], file')
  <2>1. Sweeping(k, file) /\ k.path = Alias(k.rec) /\ HasAlias(k.rec)
    BY <1>0, <1>4 DEF Tends
  <2>2. CASE Go(c, "delete") /\ file' = file
    <3> DEFINE pc == "delete"
    <3>1. Go(c, pc)
      BY <2>2
    <3>2. pc = "delete"
      OBVIOUS
    <3> HIDE DEF pc
    <3>3. /\ call'[c].pc = pc /\ call'[c].rec = k.rec /\ call'[c].prev = k.prev
          /\ call'[c].path = k.path /\ call'[c].stale = k.stale
      BY <3>1, Kept
    <3>4. Sweeping(call'[c], file')
      BY <2>1, <2>2, <3>3 DEF Sweeping
    <3> QED BY <2>1, <3>2, <3>3, <3>4 DEF Tends, Aliasing
  <2>3. ASSUME DropStale(c), file'[ById] = file[ById],
               file'[Head(k.stale)] # k.prev \/ k.prev = Missing,
               \A p \in AliasPaths : file'[p] = file[p] \/ file'[p] = Missing
        PROVE  Tends(call'[c], file')
    <3>1. Sweeping(call'[c], file')
      BY <1>0, <1>3, <2>1, <2>3, DropStaleTends
    <3> DEFINE rest == Tail(k.stale)
    <3>2. Keep(c, "sweep", "stale", rest)
      BY <2>3 DEF DropStale
    <3> HIDE DEF rest
    <3>3. call'[c].pc = "sweep" /\ call'[c].rec = k.rec /\ call'[c].path = k.path
      BY <3>2, Kept
    <3> QED BY <2>1, <3>1, <3>3 DEF Tends, Aliasing
  <2>4. CASE ReadStale(c)
    <3>1. \/ Go(c, "delete") /\ file' = file
          \/ DropStale(c) /\ file' = file /\ file[Head(k.stale)] # k.prev
      BY <2>4 DEF ReadStale
    <3> QED BY <2>2, <2>3, <3>1
  <2>5. CASE DeleteStale(c)
    <3>1. DropStale(c) /\ Write(Head(k.stale), Missing)
      BY <2>5 DEF DeleteStale
    <3>2. Head(k.stale) \in AliasPaths /\ Head(k.stale) \in Paths
      <4> DEFINE s == k.stale
      <4>1. s \in Seq(Paths) /\ s # <<>> /\ \A i \in DOMAIN s : s[i] \in AliasPaths
        BY <1>2, <1>3 DEF Fits, Progress
      <4> HIDE DEF s
      <4>2. Head(s) \in AliasPaths
        BY <4>1
      <4> QED BY <4>2, PathTypes DEF s
    <3> DEFINE head == Head(k.stale)
    <3>3. /\ file'[head] = Missing /\ file'[ById] = file[ById]
          /\ \A p \in AliasPaths : file'[p] = file[p] \/ file'[p] = Missing
      <4>1. file' = [file EXCEPT ![head] = Missing] /\ head \in AliasPaths
        BY <3>1, <3>2 DEF Write
      <4> HIDE DEF head
      <4> QED BY <1>2, <4>1, PathTypes
    <3> QED BY <2>3, <3>1, <3>3
  <2> QED BY <2>4, <2>5
<1> QED BY <1>0, <1>1, <1>4, OrderlyStep

LEMMA OrderlyWriteRow ==
    ASSUME Inv, Solo, Orderly, NEW c \in Calls, WriteRow(c), ~Fails PROVE Orderly'
<1> DEFINE k == call[c]
<1>0. k.pc = "sweep" /\ k.pc \in Aliasing /\ k.pc # "idle" /\ k.stale = <<>>
  BY DEF WriteRow, At, Aliasing
<1>1. setting' = setting /\ faults' = faults /\ untitled' = untitled /\ file' = file /\ Finish(c)
  BY DEF WriteRow, Works, Provider
<1>2. (k.rec # Missing /\ k.path \in AliasPaths) \/ k.path # Alias(k.rec)
  BY <1>0, MayAlias, MissingIsContent, Domains
<1>3. call'[c].pc = "idle"
  BY <1>1, WaysOn
<1>4. ASSUME Alone, Tends(k, file) PROVE Tends(call'[c], file')
  <2>1. Sweeping(k, file) /\ k.path = Alias(k.rec) /\ HasAlias(k.rec) /\ k.rec # Missing
    BY <1>0, <1>2, <1>4 DEF Tends
  <2>2. file[k.path] = k.rec
    BY <1>0, <1>4 DEF Solo, Knows
  <2>3. \A p \in AliasPaths \ {k.path} : file[p] = Missing
    BY <1>0, <2>1 DEF Sweeping
  <2>4. Neat(file')
    BY <1>1, <2>1, <2>2, <2>3 DEF Neat, Sweeping
  <2> QED BY <1>3, <2>4 DEF Tends
<1> QED BY <1>0, <1>1, <1>4, OrderlyStep

\* Without refreshes among the jobs nothing refreshes.
LEMMA OrderlyRefreshes ==
    ASSUME Inv, Solo, Orderly, NEW c \in Calls, Refresh(c) PROVE Orderly'
<1> DEFINE k == call[c]
<1>0. /\ setting' = setting /\ c \in setting.callers
      /\ k.pc \in Refreshing \/ "refresh" \in setting.jobs
      /\ (faults' = faults /\ untitled' = untitled) \/ Fails
  <2>1. CASE BeginRefresh(c)
    BY <2>1 DEF BeginRefresh, Works
  <2>2. CASE ~BeginRefresh(c)
    <3>1. /\ k.pc \in Refreshing /\ k.pc # "idle" /\ setting' = setting
          /\ (faults' = faults /\ untitled' = untitled) \/ Fails
      BY <2>2 DEF Refresh, ReadToMark, PendAlias, PendMeta, FetchGate, RestoreAlias, RestoreMeta,
                  Rewrite, At, Provider, Works, Refreshing, Marking
    <3> QED BY <3>1 DEF Solo, Called
  <2> QED BY <2>1, <2>2
<1>1. CASE Fails
  BY <1>1, OrderlyFails
<1>2. CASE faults' = faults /\ untitled' = untitled
  <2>1. ASSUME NEW d \in Calls, setting.callers = {d}, faults = 0, Cleanable,
               "refresh" \notin setting.jobs
        PROVE  FALSE
    <3>1. d = c /\ k.pc \in Refreshing /\ Tends(call[d], file)
      BY <1>0, <2>1 DEF Orderly
    <3>2. k.pc \in {"idle", "fetch", "verdict", "meta"} \cup Aliasing
      BY <3>1 DEF Tends
    <3> QED BY <3>1, <3>2 DEF Refreshing, Marking, Aliasing
  <2> QED BY <1>0, <1>2, <2>1 DEF Orderly, Cleanable
<1> QED BY <1>0, <1>1, <1>2

LEMMA NextOrderly == Inv /\ Solo /\ Orderly /\ [Next]_vars => Orderly'
<1> SUFFICES ASSUME Inv, Solo, Orderly, [Next]_vars PROVE Orderly'
  OBVIOUS
<1>1. CASE UNCHANGED vars \/ Edit \/ Stir
  <2>1. UNCHANGED <<setting, file, call, faults, untitled>>
    BY <1>1 DEF vars, Edit, Stir, Works
  <2> QED BY <2>1 DEF Orderly, Cleanable, Tends, Neat, Renaming, Sweeping, Alias, HasAlias
<1>2. ASSUME NEW c \in Calls, Ingest(c) PROVE Orderly'
  BY <1>2, OrderlyFails, OrderlyFetches, OrderlyReadPrevious, OrderlyWriteById,
     OrderlyWriteByIdOnly, OrderlyResolve, OrderlyWriteTitle, OrderlySweep, OrderlyWriteRow
     DEF Ingest
<1>3. ASSUME NEW c \in Calls, Refresh(c) PROVE Orderly'
  BY <1>3, OrderlyRefreshes
<1> QED BY <1>1, <1>2, <1>3 DEF Next

LEMMA InitOrderly == Init => Orderly
<1> SUFFICES ASSUME Init PROVE Orderly
  OBVIOUS
<1>1. \A c \in Calls : call[c].pc = "idle"
  BY DEF Init, NoCall
<1>2. Neat(file)
  BY PathTypes DEF Init, Neat
<1> QED BY <1>1, <1>2 DEF Orderly, Tends, Aliasing

\* Without failures, calls one after another leave one title alias of the
\* record, the one of the by-id alias, on a VFS that deletes and while every
\* record mirrored has a title alias.
THEOREM RenamesLeaveNothing == Spec => []OneTitleAlias
<1>1. Inv /\ Orderly => OneTitleAlias
  <2> SUFFICES ASSUME Inv, Orderly, Alone, Idle, faults = 0, Cleanable,
                      "refresh" \notin setting.jobs, file[ById] # Missing
               PROVE  /\ {p \in Paths : p[1] # "meta" /\ file[p] # Missing} = {ById, Alias(file[ById])}
                      /\ file[Alias(file[ById])] = file[ById]
    BY DEF OneTitleAlias
  <2> DEFINE alias == Alias(file[ById])
  <2>1. Neat(file)
    BY DEF Alone, Idle, At, Orderly, Tends
  <2>2. alias \in AliasPaths
    BY PathTypes, NamesOfRecords DEF Inv, Sound
  <2>3. \A p \in Paths : p[1] # "meta" <=> (p = ById \/ p \in AliasPaths)
    <3> SUFFICES ASSUME NEW p \in Paths PROVE p[1] # "meta" <=> (p = ById \/ p \in AliasPaths)
      OBVIOUS
    <3>1. CASE p = ById
      BY <3>1 DEF ById
    <3>2. CASE p \in {"meta", "by-title", "by-title-collision"} \X Titles
      <4>1. PICK a \in {"meta", "by-title", "by-title-collision"}, t \in Titles : p = <<a, t>>
        BY <3>2
      <4>2. p[1] = a /\ (p \in AliasPaths <=> a # "meta")
        BY <4>1 DEF AliasPaths
      <4>3. p # ById
        BY <4>1 DEF ById
      <4> QED BY <4>1, <4>2, <4>3
    <3> QED BY <3>1, <3>2 DEF Paths
  <2>4. ById \in Paths /\ AliasPaths \subseteq Paths
    BY PathTypes
  <2> HIDE DEF alias
  <2>5. file[alias] = file[ById] /\ \A p \in AliasPaths \ {alias} : file[p] = Missing
    BY <2>1, <2>2 DEF Neat, alias
  <2>6. {p \in Paths : p[1] # "meta" /\ file[p] # Missing} = {ById, alias}
    BY <2>2, <2>3, <2>4, <2>5
  <2> QED BY <2>5, <2>6 DEF alias
<1> QED BY <1>1, InitOrderly, NextOrderly, Invariant, SoloInvariant, PTL DEF Spec

-----------------------------------------------------------------------------
(* Calls one after another repair what earlier ones left.                    *)

\* A record shows the verdict d, or a refresh is still to be called (s).
Synced(rec, s, d) == setting.kind = "pull" => rec.merge /\ (s \/ rec.gate = d)

\* What a call k under way has achieved, once no change is left untold: the
\* files f, the row r.
Mends(k, f, r, s, d) ==
    /\ k.pc = "idle" =>
          /\ f[ById].ver = version /\ r = version
          /\ Synced(f[ById], s, d) /\ f[Canonical(f[ById])] = f[ById]
    /\ k.pc \in Holding => k.rec.ver = version
    /\ k.pc \in {"meta", "restore alias", "restore meta"} \cup Aliasing => Synced(k.rec, s, d)
    /\ k.pc \in Aliasing => k.stored /\ f[Canonical(k.rec)] = k.rec
    /\ k.pc \in Aliasing \ {"previous", "by-id"} => f[ById] = k.rec
    /\ k.pc \in Refreshing => r = version /\ k.rec.merge
    /\ k.pc = "restore meta" => f[ById] = k.rec

Mending ==
    \A c \in Calls :
        (setting.callers = {c} /\ clean /\ due = {})
            => Mends(call[c], file, row, stirred, verdict)

LEMMA MendingFails == ASSUME Fails PROVE Mending'
BY DEF Fails, Mending

\* So does a title without an alias.
LEMMA MendingWriteByIdOnly == ASSUME NEW c \in Calls, WriteByIdOnly(c) PROVE Mending'
BY DEF WriteByIdOnly, Mending

\* A step of the only caller that neither tells of a change nor starts over.
LEMMA MendingStep ==
    ASSUME Inv, Solo, Mending, NEW c \in Calls, setting' = setting, version' = version,
           c \in setting.callers \/ call[c].pc # "idle", clean' => clean, due' = due,
           Mends(call[c], file, row, stirred, verdict) =>
               Mends(call'[c], file', row', stirred', verdict')
    PROVE  Mending'
<1>0. c \in setting.callers
  BY DEF Solo, Called
<1>1. ASSUME NEW d \in Calls, setting.callers = {d}, clean', due = {}
      PROVE  Mends(call'[d], file', row', stirred', verdict')
  <2>1. d = c /\ clean
    BY <1>0, <1>1
  <2>2. Mends(call[c], file, row, stirred, verdict)
    BY <1>1, <2>1 DEF Mending
  <2> QED BY <2>1, <2>2
<1>2. \A d \in Calls : Mends(call[d], file, row, stirred, verdict)'
                          = Mends(call'[d], file', row', stirred', verdict')
  BY DEF Mends, Synced, Canonical
<1> QED BY <1>1, <1>2 DEF Mending

LEMMA ProviderKept ==
    UNCHANGED Provider => setting' = setting /\ version' = version /\ verdict' = verdict
                          /\ due' = due /\ stirred' = stirred
BY DEF Provider

\* A call that fetches has nothing to show yet.
LEMMA MendingBegin ==
    ASSUME Inv, Solo, Mending, NEW c \in Calls, BeginIngest(c) \/ BeginBackfill(c) PROVE Mending'
<1>1. setting' = setting /\ c \in setting.callers /\ call'[c].pc = "fetch"
  <2>1. CASE BeginIngest(c)
    <3>1. PICK v \in due, webhook \in BOOLEAN :
            call' = [call EXCEPT ![c] =
               [NoCall EXCEPT !.pc = "fetch", !.envelope = IF webhook THEN v ELSE 0]]
      BY <2>1 DEF BeginIngest
    <3> DEFINE new == [NoCall EXCEPT !.pc = "fetch", !.envelope = IF webhook THEN v ELSE 0]
    <3>2. new.pc = "fetch"
      BY DEF NoCall
    <3>3. call' = [call EXCEPT ![c] = new]
      BY <3>1
    <3> HIDE DEF new
    <3> QED BY <2>1, <3>2, <3>3, CallsElsewhere DEF BeginIngest
  <2>2. CASE BeginBackfill(c)
    <3> DEFINE new == [NoCall EXCEPT !.pc = "fetch"]
    <3>1. new.pc = "fetch" /\ call' = [call EXCEPT ![c] = new]
      BY <2>2 DEF BeginBackfill, NoCall
    <3> HIDE DEF new
    <3> QED BY <2>2, <3>1, CallsElsewhere DEF BeginBackfill, Provider
  <2> QED BY <2>1, <2>2
<1>2. ASSUME NEW d \in Calls, setting.callers = {d}
      PROVE  Mends(call[d], file, row, stirred, verdict)'
  <2>1. call'[d].pc = "fetch"
    BY <1>1, <1>2
  <2> QED BY <2>1 DEF Mends, Holding, Aliasing, Refreshing, Marking
<1> QED BY <1>1, <1>2 DEF Mending

LEMMA MendingFetch ==
    ASSUME Inv, Solo, Mending, NEW c \in Calls, Fetch(c) \/ FetchVerdict(c), ~Fails PROVE Mending'
<1> DEFINE k == call[c]
<1>0. /\ setting' = setting /\ version' = version /\ verdict' = verdict /\ due' = due
      /\ stirred' = stirred /\ clean' = clean /\ file' = file /\ row' = row
      /\ k.pc \in {"fetch", "verdict"} /\ k.pc # "idle"
  BY ProviderKept DEF Fetch, FetchVerdict, At, Works
<1>1. CASE Fetch(c)
  <2> DEFINE rec == Fetched(version)
             pc == IF setting.kind = "pull" THEN "verdict" ELSE "meta"
  <2>1. Keep(c, pc, "rec", rec) /\ rec.ver = version
    BY <1>1, FetchedTypes DEF Fetch, Inv, Rest
  <2>2. pc = "verdict" \/ (pc = "meta" /\ setting.kind # "pull")
    OBVIOUS
  <2> HIDE DEF rec, pc
  <2>3. call'[c].pc = pc /\ call'[c].rec = rec
    BY <2>1, Kept
  <2>4. Mends(call'[c], file', row', stirred', verdict')
    BY <2>1, <2>2, <2>3 DEF Mends, Synced, Holding, Aliasing, Refreshing, Marking
  <2> QED BY <1>0, <2>4, MendingStep
<1>2. CASE FetchVerdict(c)
  <2>0. k.rec \in Content /\ k.pc = "verdict"
    BY <1>2, Underway DEF FetchVerdict, At, Holding
  <2> DEFINE rec == [k.rec EXCEPT !.gate = verdict, !.merge = TRUE]
  <2>1. Keep(c, "meta", "rec", rec) /\ rec.ver = k.rec.ver /\ rec.gate = verdict /\ rec.merge
    BY <1>2, <2>0 DEF FetchVerdict, Content
  <2> HIDE DEF rec
  <2>2. call'[c].pc = "meta" /\ call'[c].rec = rec
    BY <2>1, Kept
  <2>3. Mends(k, file, row, stirred, verdict) => Mends(call'[c], file', row', stirred', verdict')
    BY <1>0, <2>0, <2>1, <2>2 DEF Mends, Synced, Holding, Aliasing, Refreshing, Marking
  <2> QED BY <1>0, <2>3, MendingStep
<1> QED BY <1>1, <1>2

LEMMA MendingWriteMeta ==
    ASSUME Inv, Solo, Mending, NEW c \in Calls, WriteMeta(c), ~Fails PROVE Mending'
<1> DEFINE k == call[c]
<1>0. /\ setting' = setting /\ version' = version /\ verdict' = verdict /\ due' = due
      /\ stirred' = stirred /\ clean' = clean /\ row' = row
      /\ k.pc = "meta" /\ k.pc # "idle" /\ k.pc \in Holding
      /\ Write(Canonical(k.rec), k.rec) /\ Keep(c, "previous", "stored", TRUE)
  BY ProviderKept DEF WriteMeta, At, Works, Holding
<1>1. call'[c].pc = "previous" /\ call'[c].rec = k.rec /\ call'[c].stored
  <2> DEFINE value == TRUE
  <2>1. Keep(c, "previous", "stored", value)
    BY <1>0
  <2> HIDE DEF value
  <2>2. call'[c].pc = "previous" /\ call'[c].rec = k.rec /\ call'[c].stored = value
    BY <2>1, Kept
  <2> QED BY <2>2 DEF value
<1>2. file'[Canonical(k.rec)] = k.rec
  BY <1>0, Underway, NamesOfRecords DEF Write, Sound
<1>3. Mends(k, file, row, stirred, verdict) => Mends(call'[c], file', row', stirred', verdict')
  BY <1>0, <1>1, <1>2 DEF Mends, Synced, Holding, Aliasing, Refreshing, Marking
<1> QED BY <1>0, <1>3, MendingStep

LEMMA MendingReadPrevious ==
    ASSUME Inv, Solo, Mending, NEW c \in Calls, ReadPrevious(c), ~Fails PROVE Mending'
<1> DEFINE k == call[c]
<1>0. /\ setting' = setting /\ version' = version /\ verdict' = verdict /\ due' = due
      /\ stirred' = stirred /\ clean' = clean /\ file' = file /\ row' = row
      /\ k.pc = "previous" /\ k.pc # "idle" /\ Keep(c, "by-id", "prev", file[ById])
  BY ProviderKept DEF ReadPrevious, At, Works
<1>1. call'[c].pc = "by-id" /\ call'[c].rec = k.rec /\ call'[c].stored = k.stored
  BY <1>0, Kept
<1>2. Mends(k, file, row, stirred, verdict) => Mends(call'[c], file', row', stirred', verdict')
  BY <1>0, <1>1 DEF Mends, Synced, Holding, Aliasing, Refreshing, Marking
<1> QED BY <1>0, <1>2, MendingStep

LEMMA MendingWriteById ==
    ASSUME Inv, Solo, Mending, NEW c \in Calls, WriteById(c), ~Fails PROVE Mending'
<1> DEFINE k == call[c]
           alias == Alias(k.rec)
<1>0. /\ setting' = setting /\ version' = version /\ verdict' = verdict /\ due' = due
      /\ stirred' = stirred /\ clean' = clean /\ row' = row
      /\ k.pc = "by-id" /\ k.pc # "idle" /\ k.pc \in Holding
      /\ Write(ById, k.rec)
      /\ Go(c, "probe") \/ Keep(c, "title", "path", alias)
  BY ProviderKept DEF WriteById, At, Works, Holding, Aliasing, Thrown
<1> HIDE DEF alias
<1>1. call'[c].pc \in {"probe", "title"} /\ call'[c].rec = k.rec /\ call'[c].stored = k.stored
  <2>1. CASE Go(c, "probe")
    <3> DEFINE pc == "probe"
    <3>1. Go(c, pc)
      BY <2>1
    <3> HIDE DEF pc
    <3>2. call'[c].pc = pc /\ call'[c].rec = k.rec /\ call'[c].stored = k.stored
      BY <3>1, Kept
    <3> QED BY <3>2 DEF pc
  <2>2. CASE Keep(c, "title", "path", alias)
    BY <2>2, Kept
  <2> QED BY <1>0, <2>1, <2>2
<1>2. file'[ById] = k.rec /\ file'[Canonical(k.rec)] = file[Canonical(k.rec)]
  BY <1>0, Underway, NamesOfRecords, PathTypes, Domains DEF Write, Sound
<1>3. Mends(k, file, row, stirred, verdict) => Mends(call'[c], file', row', stirred', verdict')
  BY <1>0, <1>1, <1>2 DEF Mends, Synced, Holding, Aliasing, Refreshing, Marking
<1> QED BY <1>0, <1>3, MendingStep

\* The record at the canonical file and the by-id alias, and the aliases a call
\* writes and deletes after them.
LEMMA MendingAliases ==
    ASSUME Inv, Solo, Mending, NEW c \in Calls, UNCHANGED <<Provider, row, clean>>,
           call[c].pc \in Aliasing \ {"previous", "by-id"},
           call'[c].pc \in Aliasing \ {"previous", "by-id"},
           call'[c].rec = call[c].rec, call'[c].stored = call[c].stored,
           file'[ById] = file[ById] \/ file'[ById] = call[c].rec,
           \/ file'[Canonical(call[c].rec)] = file[Canonical(call[c].rec)]
           \/ file'[Canonical(call[c].rec)] = call[c].rec
    PROVE  Mending'
<1> DEFINE k == call[c]
<1>0. /\ setting' = setting /\ version' = version /\ verdict' = verdict /\ due' = due
      /\ stirred' = stirred /\ clean' = clean /\ row' = row /\ k.pc # "idle"
  BY ProviderKept DEF Aliasing
<1>1. Mends(k, file, row, stirred, verdict) => Mends(call'[c], file', row', stirred', verdict')
  BY <1>0 DEF Mends, Synced, Holding, Aliasing, Refreshing, Marking
<1> QED BY <1>0, <1>1, MendingStep

LEMMA MendingResolve ==
    ASSUME Inv, Solo, Mending, NEW c \in Calls, Probe(c) \/ Compare(c), ~Fails PROVE Mending'
<1> DEFINE k == call[c]
<1>0. UNCHANGED <<Provider, row, clean, file>> /\ k.pc \in Aliasing \ {"previous", "by-id"}
  BY DEF Probe, Compare, Thrown, At, Works, Aliasing
<1>1. PICK path : Go(c, "compare") \/ Keep(c, "title", "path", path)
  <2>1. CASE Probe(c)
    BY <2>1 DEF Probe, Thrown
  <2>2. CASE Compare(c)
    BY <2>2 DEF Compare
  <2> QED BY <2>1, <2>2
<1>2. call'[c].pc \in {"compare", "title"} /\ call'[c].rec = k.rec /\ call'[c].stored = k.stored
  <2>1. CASE Go(c, "compare")
    <3> DEFINE pc == "compare"
    <3>1. Go(c, pc)
      BY <2>1
    <3> HIDE DEF pc
    <3>2. call'[c].pc = pc /\ call'[c].rec = k.rec /\ call'[c].stored = k.stored
      BY <3>1, Kept
    <3> QED BY <3>2 DEF pc
  <2>2. CASE Keep(c, "title", "path", path)
    BY <2>2, Kept
  <2> QED BY <1>1, <2>1, <2>2
<1>3. call'[c].pc \in Aliasing \ {"previous", "by-id"}
  BY <1>2 DEF Aliasing
<1> QED BY <1>0, <1>2, <1>3, MendingAliases

LEMMA MendingWriteTitle ==
    ASSUME Inv, Solo, Mending, NEW c \in Calls, WriteTitle(c), ~Fails PROVE Mending'
<1> DEFINE k == call[c]
           stale == Stale(k.prev, k.path)
<1>0. /\ UNCHANGED <<Provider, row, clean>> /\ k.pc \in Aliasing \ {"previous", "by-id"}
      /\ k.pc \in Holding /\ Write(k.path, k.rec) /\ Keep(c, "sweep", "stale", stale)
  BY DEF WriteTitle, At, Works, Aliasing, Thrown, Holding
<1> HIDE DEF stale
<1>1. call'[c].pc = "sweep" /\ call'[c].rec = k.rec /\ call'[c].stored = k.stored
  BY <1>0, Kept
<1>2. call'[c].pc \in Aliasing \ {"previous", "by-id"}
  BY <1>1 DEF Aliasing
<1>3. \A p \in Paths : file'[p] = file[p] \/ file'[p] = k.rec
  BY <1>0 DEF Write, Inv, Sound
<1>4. ById \in Paths /\ Canonical(k.rec) \in Paths
  BY <1>0, Underway, NamesOfRecords, PathTypes
<1> QED BY <1>0, <1>1, <1>2, <1>3, <1>4, MendingAliases

LEMMA MendingSweep ==
    ASSUME Inv, Solo, Mending, NEW c \in Calls, ReadStale(c) \/ DeleteStale(c), ~Fails PROVE Mending'
<1> DEFINE k == call[c]
           rest == Tail(k.stale)
<1>0. /\ UNCHANGED <<Provider, row, clean>> /\ k.pc \in Aliasing \ {"previous", "by-id"}
      /\ k.pc \in Holding
  BY DEF ReadStale, DeleteStale, At, Works, Aliasing, Holding
<1>1. Go(c, "delete") \/ Keep(c, "sweep", "stale", rest)
  BY DEF ReadStale, DeleteStale, DropStale
<1>2. call'[c].pc \in {"delete", "sweep"} /\ call'[c].rec = k.rec /\ call'[c].stored = k.stored
  <2>1. CASE Go(c, "delete")
    <3> DEFINE pc == "delete"
    <3>1. Go(c, pc)
      BY <2>1
    <3> HIDE DEF pc
    <3>2. call'[c].pc = pc /\ call'[c].rec = k.rec /\ call'[c].stored = k.stored
      BY <3>1, Kept
    <3> QED BY <3>2 DEF pc
  <2>2. CASE Keep(c, "sweep", "stale", rest)
    <3> HIDE DEF rest
    <3> QED BY <2>2, Kept
  <2> QED BY <1>1, <2>1, <2>2
<1>3. call'[c].pc \in Aliasing \ {"previous", "by-id"}
  BY <1>2 DEF Aliasing
<1>4. file'[ById] = file[ById] /\ file'[Canonical(k.rec)] = file[Canonical(k.rec)]
  <2>1. CASE file' = file
    BY <2>1
  <2>2. CASE DeleteStale(c)
    <3> DEFINE s == k.stale
    <3>1. s \in Seq(Paths) /\ s # <<>> /\ \A i \in DOMAIN s : s[i] \in AliasPaths
      BY <1>0, <2>2, Underway DEF Fits, Progress, DeleteStale, At
    <3>2. Write(Head(s), Missing)
      BY <2>2 DEF DeleteStale
    <3> HIDE DEF s
    <3>3. Head(s) \in AliasPaths
      BY <3>1
    <3>4. \E t \in Titles : Canonical(k.rec) = <<"meta", t>>
      BY <1>0, Underway, Domains DEF Canonical
    <3> QED BY <3>2, <3>3, <3>4, PathTypes DEF Write, Inv, Sound
  <2> QED BY <2>1, <2>2 DEF ReadStale
<1> QED BY <1>0, <1>2, <1>3, <1>4, MendingAliases

LEMMA MendingWriteRow ==
    ASSUME Inv, Solo, Mending, NEW c \in Calls, WriteRow(c), ~Fails PROVE Mending'
<1> DEFINE k == call[c]
<1>0. /\ setting' = setting /\ version' = version /\ verdict' = verdict /\ due' = due
      /\ stirred' = stirred /\ clean' = clean /\ file' = file
      /\ k.pc = "sweep" /\ k.pc # "idle" /\ Finish(c)
      /\ k.stored => row' = k.rec.ver
  BY ProviderKept DEF WriteRow, Works, At
<1>1. call'[c].pc = "idle"
  BY <1>0, WaysOn
<1>2. Mends(k, file, row, stirred, verdict) => Mends(call'[c], file', row', stirred', verdict')
  BY <1>0, <1>1 DEF Mends, Synced, Holding, Aliasing, Refreshing, Marking
<1> QED BY <1>0, <1>2, MendingStep

LEMMA MendingBeginRefresh ==
    ASSUME Inv, Solo, Mending, NEW c \in Calls, BeginRefresh(c) PROVE Mending'
<1> DEFINE k == call[c]
<1>0. /\ setting' = setting /\ version' = version /\ verdict' = verdict /\ due' = due
      /\ clean' = clean /\ file' = file /\ row' = row
      /\ k.pc = "idle" /\ c \in setting.callers /\ setting.kind = "pull"
  BY DEF BeginRefresh, Works, At
<1>1. ASSUME Mends(k, file, row, stirred, verdict)
      PROVE  Mends(call'[c], file', row', stirred', verdict')
  <2> DEFINE rec == file[ById]
  <2>1. rec.ver = version /\ row = version /\ rec.merge
    BY <1>0, <1>1 DEF Mends, Synced
  <2>2. rec # Missing
    BY <2>1, Domains DEF Missing, Inv, Rest
  <2> DEFINE new == [NoCall EXCEPT !.pc = "mark", !.rec = rec]
  <2>3. call' = [call EXCEPT ![c] = new] /\ new.pc = "mark" /\ new.rec = rec
    BY <2>2 DEF BeginRefresh, NoCall
  <2> HIDE DEF new
  <2>4. call'[c].pc = "mark" /\ call'[c].rec = rec
    BY <2>3, CallsElsewhere
  <2> HIDE DEF rec
  <2> QED BY <1>0, <2>1, <2>4 DEF Mends, Holding, Aliasing, Refreshing, Marking
<1> QED BY <1>0, <1>1, MendingStep

LEMMA MendingPends ==
    ASSUME Inv, Solo, Mending, NEW c \in Calls, ReadToMark(c) \/ PendAlias(c) \/ PendMeta(c), ~Fails
    PROVE  Mending'
<1> DEFINE k == call[c]
           prev == Pending(file[ById])
<1>0. /\ setting' = setting /\ version' = version /\ verdict' = verdict /\ due' = due
      /\ stirred' = stirred /\ clean' = clean /\ row' = row
      /\ k.pc \in {"mark", "pend alias", "pend meta"} /\ k.pc # "idle"
  BY ProviderKept DEF ReadToMark, PendAlias, PendMeta, Rewrite, At, Works
<1>1. \/ Keep(c, "pend alias", "prev", prev) \/ Go(c, "pend meta") \/ Go(c, "gate")
  BY DEF ReadToMark, PendAlias, PendMeta, Rewrite
<1> HIDE DEF prev
<1>2. call'[c].pc \in {"pend alias", "pend meta", "gate"} /\ call'[c].rec = k.rec
  <2>1. CASE Keep(c, "pend alias", "prev", prev)
    BY <2>1, Kept
  <2>2. ASSUME NEW pc \in {"pend meta", "gate"}, Go(c, pc)
        PROVE  call'[c].pc = pc /\ call'[c].rec = k.rec
    BY <2>2, Kept
  <2> QED BY <1>1, <2>1, <2>2
<1>3. Mends(k, file, row, stirred, verdict) => Mends(call'[c], file', row', stirred', verdict')
  BY <1>0, <1>2 DEF Mends, Holding, Aliasing, Refreshing, Marking
<1> QED BY <1>0, <1>3, MendingStep

LEMMA MendingFetchGate ==
    ASSUME Inv, Solo, Mending, NEW c \in Calls, FetchGate(c), ~Fails PROVE Mending'
<1> DEFINE k == call[c]
           rec == [k.rec EXCEPT !.gate = verdict]
<1>0. /\ setting' = setting /\ version' = version /\ verdict' = verdict /\ due' = due
      /\ stirred' = stirred /\ clean' = clean /\ file' = file /\ row' = row
      /\ k.pc = "gate" /\ k.pc # "idle" /\ k.pc \in Refreshing
      /\ Keep(c, "restore alias", "rec", rec)
  BY ProviderKept DEF FetchGate, At, Works, Refreshing
<1>1. rec.ver = k.rec.ver /\ rec.merge = k.rec.merge /\ rec.gate = verdict
  BY <1>0, MayRefresh DEF Content
<1> HIDE DEF rec
<1>2. call'[c].pc = "restore alias" /\ call'[c].rec = rec
  <2> DEFINE pc == "restore alias"
  <2>1. Keep(c, pc, "rec", rec)
    BY <1>0
  <2> HIDE DEF pc
  <2>2. call'[c].pc = pc /\ call'[c].rec = rec
    BY <2>1, Kept
  <2> QED BY <2>2 DEF pc
<1>3. ASSUME Mends(k, file, row, stirred, verdict)
      PROVE  Mends(call'[c], file', row', stirred', verdict')
  <2>1. k.rec.ver = version /\ row = version /\ k.rec.merge
    BY <1>0, <1>3 DEF Mends, Holding
  <2>2. rec.ver = version /\ rec.merge /\ Synced(rec, stirred, verdict)
    BY <1>1, <2>1 DEF Synced
  <2> QED BY <1>0, <1>2, <2>1, <2>2 DEF Mends, Synced, Holding, Aliasing, Refreshing, Marking
<1> QED BY <1>0, <1>3, MendingStep

LEMMA MendingRestore ==
    ASSUME Inv, Solo, Mending, NEW c \in Calls, RestoreAlias(c) \/ RestoreMeta(c), ~Fails
    PROVE  Mending'
<1> DEFINE k == call[c]
<1>0. /\ setting' = setting /\ version' = version /\ verdict' = verdict /\ due' = due
      /\ stirred' = stirred /\ clean' = clean /\ row' = row
      /\ k.pc \in {"restore alias", "restore meta"} /\ k.pc # "idle" /\ k.pc \in Refreshing
  BY ProviderKept DEF RestoreAlias, RestoreMeta, Rewrite, At, Works, Refreshing
<1>1. k.rec \in Content /\ k.rec.ver \in Versions /\ file \in [Paths -> Content]
  BY <1>0, MayRefresh DEF Sound
<1>2. Canonical(k.rec) \in Paths /\ ById \in Paths /\ Canonical(k.rec) # ById
  BY <1>1, NamesOfRecords, PathTypes, Domains
<1>3. ASSUME Mends(k, file, row, stirred, verdict)
      PROVE  Mends(call'[c], file', row', stirred', verdict')
  <2>0. /\ k.rec.ver = version /\ row = version /\ Synced(k.rec, stirred, verdict) /\ k.rec.merge
        /\ k.pc = "restore meta" => file[ById] = k.rec
    BY <1>0, <1>3 DEF Mends, Holding
  <2>1. CASE RestoreAlias(c)
    <3> DEFINE pc == "restore meta"
    <3>1. Write(ById, k.rec) /\ Go(c, pc)
      BY <2>1 DEF RestoreAlias, Rewrite
    <3>2. pc = "restore meta"
      OBVIOUS
    <3> HIDE DEF pc
    <3>3. call'[c].pc = "restore meta" /\ call'[c].rec = k.rec
      BY <3>1, <3>2, Kept
    <3>4. file'[ById] = k.rec
      BY <1>1, <1>2, <3>1 DEF Write
    <3> QED BY <1>0, <2>0, <3>3, <3>4 DEF Mends, Synced, Holding, Aliasing, Refreshing, Marking
  <2>2. CASE RestoreMeta(c)
    <3>1. k.pc = "restore meta" /\ Write(Canonical(k.rec), k.rec) /\ Finish(c)
      BY <2>2 DEF RestoreMeta, Rewrite, At
    <3>2. call'[c].pc = "idle"
      BY <3>1, WaysOn
    <3>3. file'[ById] = k.rec /\ file'[Canonical(k.rec)] = k.rec
      BY <1>1, <1>2, <2>0, <3>1 DEF Write
    <3> QED BY <1>0, <2>0, <3>2, <3>3 DEF Mends, Synced, Holding, Aliasing, Refreshing, Marking
  <2> QED BY <2>1, <2>2
<1> QED BY <1>0, <1>3, MendingStep

LEMMA MendingProvider == ASSUME Inv, Mending, Edit \/ Stir PROVE Mending'
<1>1. CASE Edit
  BY <1>1 DEF Edit, Mending
<1>2. CASE Stir
  <2>1. /\ setting' = setting /\ version' = version /\ due' = due /\ clean' = clean
        /\ file' = file /\ row' = row /\ call' = call /\ stirred' = TRUE
    BY <1>2 DEF Stir, Works
  <2>2. \A k : Mends(k, file, row, stirred, verdict) => Mends(k, file, row, TRUE, verdict')
    BY DEF Mends, Synced
  <2>3. ASSUME NEW c \in Calls, setting.callers = {c}, clean, due = {}
        PROVE  Mends(call[c], file, row, TRUE, verdict')
    BY <2>2, <2>3 DEF Mending
  <2>4. \A c \in Calls : Mends(call[c], file, row, stirred, verdict)'
                            = Mends(call[c], file, row, TRUE, verdict')
    BY <2>1 DEF Mends, Synced, Canonical
  <2> QED BY <2>1, <2>3, <2>4 DEF Mending
<1> QED BY <1>1, <1>2

LEMMA NextMending == Inv /\ Solo /\ Mending /\ [Next]_vars => Mending'
<1> SUFFICES ASSUME Inv, Solo, Mending, [Next]_vars PROVE Mending'
  OBVIOUS
<1>1. CASE UNCHANGED vars
  BY <1>1 DEF vars, Mending, Mends, Synced, Canonical
<1>2. ASSUME NEW c \in Calls, Ingest(c) PROVE Mending'
  BY <1>2, MendingFails, MendingBegin, MendingFetch, MendingWriteMeta, MendingReadPrevious,
     MendingWriteById, MendingWriteByIdOnly, MendingResolve, MendingWriteTitle, MendingSweep,
     MendingWriteRow DEF Ingest
<1>3. ASSUME NEW c \in Calls, Refresh(c) PROVE Mending'
  BY <1>3, MendingFails, MendingBeginRefresh, MendingPends, MendingFetchGate, MendingRestore
     DEF Refresh
<1> QED BY <1>1, <1>2, <1>3, MendingProvider DEF Next

\* Calls one after another: once an ingest went through and every change was
\* told to a call that went through, the files and the row are up to date,
\* whatever failed before.
THEOREM IngestRepairs == Spec => []Repaired
<1>1. Init => Mending
  BY DEF Init, Mending
<1>2. Mending => Repaired
  BY DEF Mending, Mends, Synced, Repaired, Alone, Idle, At
<1> QED BY <1>1, <1>2, NextMending, Invariant, SoloInvariant, PTL DEF Spec
=============================================================================
