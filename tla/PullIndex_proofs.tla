-------------------------- MODULE PullIndex_proofs --------------------------
(* For any number of callers, repositories, pull requests and failures, and  *)
(* any page size: types; a scan that ends leaves a row for every pull request*)
(* it set out with.  Calls one after another: materialisations fill the root *)
(* index, and no row is older than what the last call set out with.          *)
EXTENDS PullIndex, FiniteSetTheorems, SequenceTheorems, WellFoundedInduction, TLAPS

Pulls == Seq(1..MaxVersion)
Batches == UNION {[S -> 1..MaxVersion] : S \in SUBSET Nat}
Rows(r) == [Numbers(r) -> 0..MaxVersion]
Materialising == {"metadata", "root", "list", "outright"}
Progress == [pc : {"idle", "page", "merge", "fetch", "pull row", "repo row"} \cup Materialising,
             whole : BOOLEAN, repo : Repos, page : Nat \ {0}, batch : Batches,
             todo : SUBSET Nat, known : SUBSET Repos, goal : Pulls]

\* What a call k holds is open.
Fits(k, v) == k.todo \cup DOMAIN k.batch \subseteq 1..Len(v[k.repo])

Provided ==
    /\ setting \in Settings
    /\ version \in [Repos -> Pulls]
    /\ \A r \in Repos : Len(version[r]) <= setting.pulls[r]
Files ==
    /\ DOMAIN rows = Repos /\ rows = [r \in Repos |-> rows[r]]
    /\ \A r \in Repos : rows[r] \in Rows(r)
    /\ root \subseteq Repos /\ done \subseteq Repos
    /\ faults \in 0..setting.faults
Inv ==
    /\ Provided /\ Files
    /\ call \in [Calls -> Progress]
    /\ \A c \in Calls : Fits(call[c], version)

USE PullIndexAssumption

-----------------------------------------------------------------------------
(* Data.                                                                     *)

LEMMA SettingTypes ==
    ASSUME Provided
    PROVE  /\ \A r \in Repos : setting.pulls[r] \in Nat /\ setting.opened[r] \in Nat
           /\ setting.faults \in Nat
           /\ MaxVersion \in Nat \ {0} /\ PageSize \in Nat \ {0}
           /\ \A r \in Repos : Len(version[r]) \in Nat /\ DOMAIN version[r] = 1..Len(version[r])
           /\ \A r \in Repos : 1..Len(version[r]) \subseteq Numbers(r)
BY DEF Provided, Pulls, Numbers

LEMMA NoPullsTypes == NoPulls \in Batches /\ DOMAIN NoPulls = {} /\ <<>> \in Pulls
<1>1. <<>> \in Pulls
  BY DEF Pulls
<1>2. NoPulls \in [1..0 -> 1..MaxVersion]
  BY DEF NoPulls
<1>3. 1..0 = {}
  OBVIOUS
<1> QED BY <1>1, <1>2, <1>3 DEF Batches

LEMMA IdleTypes == NoCall \in Progress /\ NoCall.pc = "idle" /\ ~NoCall.whole /\ \A v : Fits(NoCall, v)
<1>1. (CHOOSE r \in Repos : TRUE) \in Repos
  OBVIOUS
<1> QED BY <1>1, NoPullsTypes DEF NoCall, Progress, Fits

LEMMA GoalTypes ==
    ASSUME NEW k \in Progress
    PROVE  Len(k.goal) \in Nat /\ DOMAIN k.goal = 1..Len(k.goal)
<1>1. k.goal \in Seq(1..MaxVersion)
  BY DEF Progress, Pulls
<1> QED BY <1>1

\* What is listed of a repository is a batch.
LEMMA ListedTypes ==
    ASSUME Provided, NEW r \in Repos, NEW S, S \subseteq 1..Len(version[r])
    PROVE  Listed(r, S) \in Batches /\ DOMAIN Listed(r, S) = S
<1>1. \A p \in S : version[r][p] \in 1..MaxVersion
  BY SettingTypes DEF Provided, Pulls
<1>2. S \subseteq Nat
  BY SettingTypes
<1> QED BY <1>1, <1>2 DEF Listed, Batches

LEMMA PageTypes ==
    ASSUME Provided, NEW r \in Repos, NEW k, NEW order
    PROVE  Page(r, k, order) \subseteq 1..Len(version[r])
<1> DEFINE n == Len(version[r])
           place == {i \in 1..n : (k - 1) * PageSize < i /\ i <= k * PageSize}
<1>1. n \in Nat
  BY SettingTypes
<1>2. place \subseteq 1..n
  OBVIOUS
<1>3. {n + 1 - i : i \in place} \subseteq 1..n
  <2> HIDE DEF place
  <2> QED BY <1>1, <1>2
<1>4. Page(r, k, order) \in {place, {n + 1 - i : i \in place}}
  BY DEF Page
<1> QED BY <1>2, <1>3, <1>4

LEMMA UpsertTypes ==
    ASSUME Inv, NEW r \in Repos, NEW pulls \in Batches, Upsert(r, pulls)
    PROVE  /\ DOMAIN rows' = Repos /\ rows' = [q \in Repos |-> rows'[q]]
           /\ \A q \in Repos : rows'[q] \in Rows(q)
           /\ \A q \in Repos : \A p \in Numbers(q) : rows[q][p] # 0 => rows'[q][p] # 0
           /\ \A p \in Numbers(r) : p \in DOMAIN pulls => rows'[r][p] # 0
<1> DEFINE new == [p \in Numbers(r) |-> IF p \in DOMAIN pulls THEN pulls[p] ELSE rows[r][p]]
<1>1. rows' = [rows EXCEPT ![r] = new]
  BY DEF Upsert
<1>2. \A p \in DOMAIN pulls : pulls[p] \in 1..MaxVersion
  BY DEF Batches
<1>3. \A p \in Numbers(r) : rows[r][p] \in 0..MaxVersion
  BY DEF Inv, Files, Rows
<1>4. new \in Rows(r) /\ \A p \in Numbers(r) : rows[r][p] # 0 \/ p \in DOMAIN pulls => new[p] # 0
  BY <1>2, <1>3 DEF Rows
<1> HIDE DEF new
<1>5. rows'[r] = new /\ \A q \in Repos \ {r} : rows'[q] = rows[q]
  BY <1>1 DEF Inv, Files
<1>6. DOMAIN rows' = Repos /\ rows' = [q \in Repos |-> rows'[q]]
  BY <1>1 DEF Inv, Files
<1> QED BY <1>4, <1>5, <1>6 DEF Inv, Files

LEMMA Newest ==
    ASSUME NEW n \in Nat, NEW S, S \subseteq 1..n, S # {}
    PROVE  Max(S) \in S
<1> DEFINE D == {d \in Nat : n - d \in S}
           R == {xy \in Nat \X Nat : xy[1] < xy[2]}
<1>0. IsWellFoundedOn(R, Nat)
  BY NatLessThanWellFounded, Zenon DEF OpToRel
<1>1. \A i \in S : n - i \in D
  OBVIOUS
<1>2. PICK d \in D : \A e \in D : ~(<<e, d>> \in R)
  <2>1. D \subseteq Nat /\ D # {}
    BY <1>1
  <2> HIDE DEF D, R
  <2> QED BY <1>0, <2>1, WFMin
<1>3. ASSUME NEW e \in D PROVE d <= e
  <2>1. SUFFICES ASSUME e < d PROVE FALSE
    OBVIOUS
  <2>2. <<e, d>> \in R
    BY <2>1
  <2> QED BY <1>2, <2>2
<1>4. n - d \in S /\ \A j \in S : n - d >= j
  BY <1>1, <1>3
<1> QED BY <1>4 DEF Max

-----------------------------------------------------------------------------
(* Types, step by step.                                                      *)

\* A step of call c that leaves k of it, the listings as they are and the files
\* sound.
LEMMA SetStep ==
    ASSUME Inv, NEW c \in Calls, NEW k \in Progress, Fits(k, version), Set(c, k),
           setting' = setting, version' = version, Files'
    PROVE  Inv'
<1>1. call' \in [Calls -> Progress] /\ \A d \in Calls : Fits(call'[d], version')
  BY DEF Inv, Set
<1>2. Provided'
  BY DEF Inv, Provided
<1>3. \A d \in Calls : Fits(call[d], version)' = Fits(call'[d], version')
  OBVIOUS
<1> QED BY <1>1, <1>2, <1>3 DEF Inv

LEMMA CallTypes ==
    ASSUME Inv, NEW c \in Calls
    PROVE  /\ call[c] \in Progress /\ Fits(call[c], version)
           /\ call[c].repo \in Repos /\ call[c].page \in Nat \ {0} /\ call[c].batch \in Batches
           /\ call[c].todo \subseteq Nat /\ call[c].known \subseteq Repos
           /\ call[c].page + 1 \in Nat \ {0}
           /\ DOMAIN call[c].batch \subseteq Nat
           /\ \A p \in DOMAIN call[c].batch : call[c].batch[p] \in 1..MaxVersion
<1>1. /\ call[c] \in Progress /\ Fits(call[c], version)
      /\ call[c].repo \in Repos /\ call[c].page \in Nat \ {0} /\ call[c].batch \in Batches
      /\ call[c].todo \subseteq Nat /\ call[c].known \subseteq Repos
  BY DEF Inv, Progress
<1>2. call[c].page + 1 \in Nat \ {0}
  BY <1>1
<1>3. /\ DOMAIN call[c].batch \subseteq Nat
      /\ \A p \in DOMAIN call[c].batch : call[c].batch[p] \in 1..MaxVersion
  <2>1. PICK S \in SUBSET Nat : call[c].batch \in [S -> 1..MaxVersion]
    BY <1>1 DEF Batches
  <2> QED BY <2>1
<1> QED BY <1>1, <1>2, <1>3

LEMMA FaultTypes ==
    ASSUME Inv, setting' = setting, Works \/ Fails
    PROVE  faults' \in 0..setting'.faults
BY SettingTypes DEF Inv, Files, Works, Fails

\* The files when none of them is written.
LEMMA FilesAlike ==
    ASSUME Inv, setting' = setting, rows' = rows, root' \subseteq Repos, done' \subseteq Repos,
           faults' \in 0..setting'.faults
    PROVE  Files'
BY DEF Inv, Files, Rows, Numbers

LEMMA FilesUpserted ==
    ASSUME Inv, setting' = setting, NEW r \in Repos, NEW pulls \in Batches, Upsert(r, pulls),
           root' = root, done' = done, faults' \in 0..setting'.faults
    PROVE  Files'
BY UpsertTypes DEF Inv, Files, Rows, Numbers

LEMMA BeginStep ==
    ASSUME Inv, NEW c \in Calls, NEW job, NEW r \in Repos, NEW pc \in {"page", "metadata"},
           Begin(c, job, r, pc), UNCHANGED <<setting, version, rows, root, done, faults>>
    PROVE  Inv'
<1> DEFINE k == [NoCall EXCEPT !.pc = pc, !.whole = (job = "materialise"), !.repo = r,
                               !.known = root, !.goal = version[r]]
<1>1. k \in Progress
  BY IdleTypes DEF Inv, Provided, Files, Progress, Materialising
<1>2. Fits(k, version)
  BY NoPullsTypes DEF Fits, NoCall
<1>3. Set(c, k)
  BY DEF Begin
<1>4. Files'
  BY FilesAlike DEF Inv, Files
<1> HIDE DEF k
<1> QED BY <1>1, <1>2, <1>3, <1>4, SetStep

LEMMA QuietFiles ==
    ASSUME Inv, UNCHANGED <<setting, version, rows, root, done>>, Works \/ Fails
    PROVE  Files'
BY FilesAlike, FaultTypes DEF Inv, Files

LEMMA QuietStep ==
    ASSUME Inv, UNCHANGED <<setting, version, call>>, Files'
    PROVE  Inv'
BY DEF Inv, Provided, Fits

LEMMA FetchPageStep == ASSUME Inv, NEW c \in Calls, FetchPage(c) PROVE Inv'
<1> DEFINE page == Page(call[c].repo, call[c].page, "ascending")
           k == [call[c] EXCEPT !.pc = "merge", !.batch = Listed(call[c].repo, page)]
<1>0. UNCHANGED <<setting, version, rows, root, done>> /\ (Works \/ Fails)
  BY DEF FetchPage
<1>1. Files'
  BY <1>0, QuietFiles
<1>2. page \subseteq 1..Len(version[call[c].repo])
  BY CallTypes, PageTypes DEF Inv
<1>3. Listed(call[c].repo, page) \in Batches /\ DOMAIN Listed(call[c].repo, page) = page
  <2> HIDE DEF page
  <2> QED BY <1>2, CallTypes, ListedTypes DEF Inv
<1>4. k \in Progress /\ Fits(k, version)
  <2> HIDE DEF page
  <2>1. k \in Progress
    BY <1>3, CallTypes DEF Progress
  <2>2. k.repo = call[c].repo /\ k.todo = call[c].todo /\ k.batch = Listed(call[c].repo, page)
    BY CallTypes DEF Progress
  <2> QED BY <1>2, <1>3, <2>1, <2>2, CallTypes DEF Fits
<1>5. UNCHANGED call \/ Set(c, NoCall) \/ Set(c, k)
  BY DEF FetchPage
<1> HIDE DEF k
<1> QED BY <1>0, <1>1, <1>4, <1>5, QuietStep, SetStep, IdleTypes

LEMMA MergePageStep == ASSUME Inv, NEW c \in Calls, MergePage(c) PROVE Inv'
<1> DEFINE next == [call[c] EXCEPT !.pc = "page", !.page = @ + 1, !.batch = NoPulls]
           again == [call[c] EXCEPT !.pc = "page", !.batch = NoPulls]
<1>0. UNCHANGED <<setting, version, root, done>> /\ faults' \in 0..setting'.faults
  BY FaultTypes DEF MergePage
<1>1. Files'
  BY <1>0, CallTypes, FilesUpserted, FilesAlike DEF MergePage, Inv, Files
<1>2. next \in Progress /\ again \in Progress
  BY CallTypes, NoPullsTypes DEF Progress
<1>3. Fits(next, version) /\ Fits(again, version)
  <2>1. \A k \in {next, again} : k.repo = call[c].repo /\ k.todo = call[c].todo /\ k.batch = NoPulls
    BY CallTypes DEF Progress
  <2> HIDE DEF next, again
  <2> QED BY <2>1, CallTypes, NoPullsTypes DEF Fits
<1>4. Set(c, NoCall) \/ Set(c, next) \/ Set(c, again)
  BY DEF MergePage
<1> HIDE DEF next, again
<1> QED BY <1>0, <1>1, <1>2, <1>3, <1>4, SetStep, IdleTypes

\* A call that goes on, or drops what it has to do.
LEMMA GoStep ==
    ASSUME Inv, NEW c \in Calls, NEW pc \in {"fetch", "repo row", "root", "list"}, Go(c, pc),
           UNCHANGED <<setting, version>>, Files'
    PROVE  Inv'
<1> DEFINE k == [call[c] EXCEPT !.pc = pc]
<1>1. k \in Progress
  BY CallTypes DEF Progress, Materialising
<1>2. k.repo = call[c].repo /\ k.todo = call[c].todo /\ k.batch = call[c].batch
  BY CallTypes DEF Progress
<1>3. Set(c, k)
  BY DEF Go
<1> HIDE DEF k
<1> QED BY <1>1, <1>2, <1>3, CallTypes, SetStep DEF Fits

LEMMA BeginIngestStep == ASSUME Inv, NEW c \in Calls, BeginIngest(c) PROVE Inv'
<1>1. ASSUME NEW r \in Repos, NEW p \in 1..Len(version[r])
      PROVE  LET k == [NoCall EXCEPT !.pc = "fetch", !.repo = r, !.todo = {p}]
             IN  k \in Progress /\ Fits(k, version)
  <2> DEFINE k == [NoCall EXCEPT !.pc = "fetch", !.repo = r, !.todo = {p}]
  <2>1. {p} \in SUBSET Nat
    BY SettingTypes DEF Inv
  <2>2. k \in Progress
    BY <2>1, IdleTypes DEF Progress
  <2>3. k.repo = r /\ k.todo = {p} /\ k.batch = NoPulls
    BY DEF NoCall
  <2>4. Fits(k, version)
    BY <2>3, NoPullsTypes DEF Fits
  <2> QED BY <2>2, <2>4
<1>2. \E k \in Progress : Fits(k, version) /\ Set(c, k)
  BY <1>1 DEF BeginIngest
<1>3. Files'
  BY FilesAlike DEF BeginIngest, Inv, Files
<1> QED BY <1>2, <1>3, SetStep DEF BeginIngest

LEMMA FetchPullStep == ASSUME Inv, NEW c \in Calls, FetchPull(c) PROVE Inv'
<1> DEFINE p == Max(call[c].todo)
           taken == [call[c] EXCEPT !.pc = "pull row", !.todo = @ \ {p},
                                    !.batch = Listed(call[c].repo, {p})]
           skipped == [call[c] EXCEPT !.todo = @ \ {p}]
<1>0. /\ UNCHANGED <<setting, version, rows, root, done>> /\ (Works \/ Fails)
      /\ call[c].todo # {}
      /\ Set(c, taken) \/ Set(c, skipped) \/ Set(c, NoCall)
  BY DEF FetchPull
<1>1. Files'
  BY <1>0, QuietFiles
<1>2. call[c].todo \subseteq 1..Len(version[call[c].repo]) /\ Len(version[call[c].repo]) \in Nat
  BY CallTypes, SettingTypes DEF Fits, Inv
<1>3. p \in call[c].todo
  BY <1>0, <1>2, Newest
<1> HIDE DEF p
<1>4. Listed(call[c].repo, {p}) \in Batches /\ DOMAIN Listed(call[c].repo, {p}) = {p}
  BY <1>2, <1>3, CallTypes, ListedTypes DEF Inv
<1>5. taken \in Progress /\ skipped \in Progress
  BY <1>4, CallTypes DEF Progress
<1>6. Fits(taken, version) /\ Fits(skipped, version)
  <2>1. /\ taken.repo = call[c].repo /\ taken.todo = call[c].todo \ {p}
        /\ taken.batch = Listed(call[c].repo, {p})
        /\ skipped.repo = call[c].repo /\ skipped.todo = call[c].todo \ {p}
        /\ skipped.batch = call[c].batch
    BY CallTypes DEF Progress
  <2> HIDE DEF taken, skipped
  <2> QED BY <1>2, <1>3, <1>4, <2>1, CallTypes DEF Fits
<1> HIDE DEF taken, skipped
<1> QED BY <1>0, <1>1, <1>5, <1>6, SetStep, IdleTypes

LEMMA RowSteps ==
    ASSUME Inv, NEW c \in Calls, WritePullRow(c) \/ WriteRepoRow(c) \/ WriteRoot(c)
    PROVE  Inv'
<1>1. UNCHANGED <<setting, version>> /\ faults' \in 0..setting'.faults
  BY FaultTypes DEF WritePullRow, WriteRepoRow, WriteRoot
<1>2. CASE WritePullRow(c)
  <2>1. Files'
    BY <1>1, <1>2, CallTypes, FilesUpserted, FilesAlike DEF WritePullRow, Inv, Files
  <2> QED BY <1>1, <1>2, <2>1, GoStep DEF WritePullRow
<1>3. CASE WriteRepoRow(c) \/ WriteRoot(c)
  <2>0. root' \subseteq Repos
    <3>1. root' \in {root, root \cup {call[c].repo}, call[c].known \cup {call[c].repo}}
      BY <1>3 DEF WriteRepoRow, WriteRoot
    <3>2. root \subseteq Repos
      BY DEF Inv, Files
    <3> QED BY <3>1, <3>2, CallTypes
  <2>1. Files'
    BY <1>1, <1>3, <2>0, FilesAlike DEF WriteRepoRow, WriteRoot, Inv, Files
  <2> QED BY <1>1, <1>3, <2>1, GoStep DEF WriteRepoRow, WriteRoot
<1> QED BY <1>2, <1>3

LEMMA FinishStep == ASSUME Inv, NEW c \in Calls, Finish(c) PROVE Inv'
<1>1. Files'
  BY CallTypes, FilesAlike DEF Finish, Inv, Files
<1> QED BY <1>1, SetStep, IdleTypes DEF Finish

LEMMA RootUnreadStep == ASSUME Inv, NEW c \in Calls, RootUnread(c) PROVE Inv'
<1> DEFINE k == [call[c] EXCEPT !.known = {}]
<1>1. k \in Progress
  BY CallTypes DEF Progress
<1>2. k.repo = call[c].repo /\ k.todo = call[c].todo /\ k.batch = call[c].batch
  BY CallTypes DEF Progress
<1>3. Set(c, k) /\ Files' /\ UNCHANGED <<setting, version>>
  BY QuietFiles DEF RootUnread
<1> HIDE DEF k
<1> QED BY <1>1, <1>2, <1>3, CallTypes, SetStep DEF Fits

LEMMA FetchMetadataStep == ASSUME Inv, NEW c \in Calls, FetchMetadata(c) PROVE Inv'
<1>1. Files' /\ UNCHANGED <<setting, version>>
  BY QuietFiles DEF FetchMetadata
<1>2. Set(c, NoCall) \/ Go(c, "list") \/ Go(c, "root")
  BY DEF FetchMetadata
<1> QED BY <1>1, <1>2, GoStep, SetStep, IdleTypes

LEMMA ListPageStep == ASSUME Inv, NEW c \in Calls, ListPage(c) PROVE Inv'
<1> DEFINE r == call[c].repo
           old == call[c].batch
           page == Page(r, call[c].page, "descending")
           batch == [p \in DOMAIN old \cup page |-> IF p \in page THEN version[r][p] ELSE old[p]]
           k == [call[c] EXCEPT
                    !.pc = IF Cardinality(page) < PageSize THEN "outright" ELSE "list",
                    !.page = @ + 1, !.batch = batch]
<1>0. UNCHANGED <<setting, version, rows, root, done>> /\ (Works \/ Fails)
  BY DEF ListPage
<1>1. Files'
  BY <1>0, QuietFiles
<1>2. page \subseteq 1..Len(version[r])
  BY CallTypes, PageTypes DEF Inv
<1>3. Set(c, k) \/ Set(c, NoCall)
  BY DEF ListPage
<1> HIDE DEF page
<1>4. batch \in Batches /\ DOMAIN batch \subseteq 1..Len(version[r])
  <2>1. DOMAIN old \subseteq 1..Len(version[r]) /\ \A p \in DOMAIN old : old[p] \in 1..MaxVersion
    BY CallTypes DEF Fits, Batches
  <2>2. \A p \in page : version[r][p] \in 1..MaxVersion
    <3>1. r \in Repos /\ version[r] \in Seq(1..MaxVersion)
      BY CallTypes DEF Inv, Provided, Pulls
    <3>2. \A p \in 1..Len(version[r]) : version[r][p] \in 1..MaxVersion
      BY <3>1
    <3> QED BY <1>2, <3>2
  <2>3. DOMAIN old \cup page \subseteq Nat
    <3>1. 1..Len(version[r]) \subseteq Nat
      BY CallTypes, SettingTypes DEF Inv
    <3> QED BY <1>2, <2>1, <3>1
  <2>4. batch \in [DOMAIN old \cup page -> 1..MaxVersion]
    BY <2>1, <2>2
  <2>5. DOMAIN batch = DOMAIN old \cup page
    OBVIOUS
  <2> HIDE DEF batch
  <2> QED BY <1>2, <2>1, <2>3, <2>4, <2>5 DEF Batches
<1> HIDE DEF batch
<1>5. k \in Progress /\ k.repo = r /\ k.todo = call[c].todo /\ k.batch = batch
  BY <1>4, CallTypes DEF Progress, Materialising
<1> HIDE DEF k
<1>6. Fits(k, version)
  BY <1>4, <1>5, CallTypes DEF Fits
<1> QED BY <1>0, <1>1, <1>3, <1>5, <1>6, SetStep, IdleTypes

LEMMA WriteOutrightStep == ASSUME Inv, NEW c \in Calls, WriteOutright(c) PROVE Inv'
<1> DEFINE r == call[c].repo
           listed == call[c].batch
           new == [p \in Numbers(r) |-> IF p \in DOMAIN listed THEN listed[p] ELSE 0]
           k == [call[c] EXCEPT !.pc = "fetch", !.todo = DOMAIN listed, !.batch = NoPulls]
<1>0. UNCHANGED <<setting, version, root, done>> /\ faults' \in 0..setting'.faults
  BY FaultTypes DEF WriteOutright
<1>1. ASSUME rows' = [rows EXCEPT ![r] = new] PROVE Files'
  <2>1. new \in Rows(r)
    <3>1. 1..MaxVersion \subseteq 0..MaxVersion /\ 0 \in 0..MaxVersion
      BY SettingTypes DEF Inv
    <3> QED BY <3>1, CallTypes DEF Rows
  <2> HIDE DEF new
  <2>2. rows'[r] = new /\ \A q \in Repos \ {r} : rows'[q] = rows[q]
    BY <1>1, CallTypes DEF Inv, Files
  <2>3. DOMAIN rows' = Repos /\ rows' = [q \in Repos |-> rows'[q]]
    BY <1>1 DEF Inv, Files
  <2>4. \A q \in Repos : rows'[q] \in Rows(q)
    BY <2>1, <2>2 DEF Inv, Files
  <2>5. \A q \in Repos : rows'[q] \in [1..setting'.pulls[q] -> 0..MaxVersion]
    BY <1>0, <2>4 DEF Rows, Numbers
  <2>6. root' \subseteq Repos /\ done' \subseteq Repos
    BY <1>0 DEF Inv, Files
  <2> QED BY <1>0, <2>3, <2>5, <2>6 DEF Files, Rows, Numbers
<1>2. Files'
  BY <1>0, <1>1, FilesAlike DEF WriteOutright, Inv, Files
<1>3. DOMAIN listed \subseteq 1..Len(version[r]) /\ DOMAIN listed \in SUBSET Nat
  BY CallTypes DEF Fits, Batches
<1>4. k \in Progress /\ k.repo = r /\ k.todo = DOMAIN listed /\ k.batch = NoPulls
  BY <1>3, CallTypes, NoPullsTypes DEF Progress
<1>5. Set(c, k)
  BY DEF WriteOutright
<1> HIDE DEF k
<1>6. Fits(k, version)
  BY <1>3, <1>4, NoPullsTypes DEF Fits
<1> QED BY <1>0, <1>2, <1>4, <1>5, <1>6, SetStep

\* Pull requests are opened and changed; what a call holds stays open.
LEMMA ProviderStep == ASSUME Inv, NEW r \in Repos, Open(r) \/ Edit(r) PROVE Inv'
<1>0. UNCHANGED <<setting, rows, root, call, done, faults>>
  BY DEF Open, Edit
<1>1. /\ version' = [version EXCEPT ![r] = version'[r]] /\ version'[r] \in Pulls
      /\ Len(version[r]) <= Len(version'[r]) /\ Len(version'[r]) <= setting.pulls[r]
  <2>0. version = [q \in Repos |-> version[q]]
    BY DEF Inv, Provided
  <2>1. version[r] \in Pulls /\ MaxVersion \in Nat \ {0} /\ Len(version[r]) <= setting.pulls[r]
    BY SettingTypes DEF Inv, Provided
  <2>2. CASE Open(r)
    <3>1. /\ Append(version[r], 1) \in Pulls
          /\ Len(Append(version[r], 1)) = Len(version[r]) + 1
      BY <2>1 DEF Pulls
    <3>2. version' = [version EXCEPT ![r] = Append(version[r], 1)] /\ Len(version[r]) < setting.pulls[r]
      BY <2>2 DEF Open
    <3>3. Len(version[r]) \in Nat /\ setting.pulls[r] \in Nat
      BY SettingTypes DEF Inv
    <3>4. version'[r] = Append(version[r], 1) /\ version' = [version EXCEPT ![r] = version'[r]]
      BY <2>0, <3>2
    <3> QED BY <3>1, <3>2, <3>3, <3>4
  <2>3. CASE Edit(r)
    <3>1. PICK p \in 1..Len(version[r]) :
            version[r][p] < MaxVersion /\ version' = [version EXCEPT ![r][p] = version[r][p] + 1]
      BY <2>3 DEF Edit
    <3> DEFINE new == [version[r] EXCEPT ![p] = version[r][p] + 1]
    <3>2. new \in Pulls /\ Len(new) = Len(version[r])
      BY <2>1, <3>1 DEF Pulls
    <3>3. version' = [version EXCEPT ![r] = new]
      BY <3>1 DEF Inv, Provided
    <3>4. Len(version[r]) \in Nat /\ setting.pulls[r] \in Nat
      BY SettingTypes DEF Inv
    <3> HIDE DEF new
    <3>5. version'[r] = new /\ version' = [version EXCEPT ![r] = version'[r]]
      BY <2>0, <3>3
    <3> QED BY <2>1, <3>2, <3>4, <3>5
  <2> QED BY <2>2, <2>3
<1>2. Provided'
  BY <1>0, <1>1 DEF Inv, Provided
<1>3. \A q \in Repos : 1..Len(version[q]) \subseteq 1..Len(version'[q])
  <2> SUFFICES ASSUME NEW q \in Repos PROVE 1..Len(version[q]) \subseteq 1..Len(version'[q])
    OBVIOUS
  <2>1. q = r \/ version'[q] = version[q]
    BY <1>1 DEF Inv, Provided
  <2>2. Len(version[r]) \in Nat /\ Len(version'[r]) \in Nat
    BY <1>1, SettingTypes DEF Inv, Pulls
  <2> QED BY <1>1, <2>1, <2>2
<1>4. \A c \in Calls : Fits(call'[c], version')
  BY <1>0, <1>3, CallTypes DEF Fits
<1>5. Files'
  BY <1>0 DEF Inv, Files, Rows, Numbers
<1> QED BY <1>0, <1>2, <1>4, <1>5 DEF Inv

LEMMA InitInv == Init => Inv
<1> SUFFICES ASSUME Init PROVE Inv
  OBVIOUS
<1>1. Provided
  BY DEF Init, Provided, Pulls
<1>2. Files
  BY <1>1, SettingTypes DEF Init, Files, Rows, Numbers
<1> QED BY <1>1, <1>2, IdleTypes DEF Init, Inv

LEMMA NextInv == Inv /\ [Next]_vars => Inv'
<1> SUFFICES ASSUME Inv, [Next]_vars PROVE Inv'
  OBVIOUS
<1>1. CASE UNCHANGED vars
  BY <1>1 DEF vars, Inv, Provided, Files, Fits, Rows, Numbers
<1>2. ASSUME NEW c \in Calls, BeginScan(c) \/ BeginMaterialise(c) PROVE Inv'
  BY <1>2, BeginStep DEF BeginScan, BeginMaterialise
<1>3. ASSUME NEW c \in Calls, Step(c) PROVE Inv'
  BY <1>3, FetchPageStep, MergePageStep, FetchPullStep, RowSteps, FinishStep, FetchMetadataStep,
     ListPageStep, WriteOutrightStep DEF Step
<1> QED BY <1>1, <1>2, <1>3, ProviderStep, BeginIngestStep, RootUnreadStep DEF Next

LEMMA Invariant == Spec => []Inv
BY InitInv, NextInv, PTL DEF Spec

\* Every variable keeps its type.
THEOREM TypeCorrect == Spec => []TypeOK
<1>1. Inv => TypeOK
  <2> SUFFICES ASSUME Inv PROVE TypeOK
    OBVIOUS
  <2>1. \A r \in Repos : version[r] \in Seq(1..MaxVersion) /\ rows[r] \in [Numbers(r) -> 0..MaxVersion]
    BY DEF Inv, Provided, Files, Rows, Pulls
  <2>2. ASSUME NEW c \in Calls
        PROVE  /\ call[c].pc \in {"idle", "page", "merge", "fetch", "pull row", "repo row",
                                  "metadata", "root", "list", "outright"}
               /\ call[c].repo \in Repos /\ call[c].known \subseteq Repos
               /\ call[c].page \in Nat \ {0} /\ call[c].whole \in BOOLEAN
               /\ call[c].todo \cup DOMAIN call[c].batch \subseteq Numbers(call[c].repo)
               /\ \A p \in DOMAIN call[c].batch : call[c].batch[p] \in 1..MaxVersion
    <3>1. call[c].todo \cup DOMAIN call[c].batch \subseteq Numbers(call[c].repo)
      <4>1. 1..Len(version[call[c].repo]) \subseteq Numbers(call[c].repo)
        BY CallTypes, SettingTypes DEF Inv
      <4> QED BY <4>1, CallTypes DEF Fits
    <3>2. \A p \in DOMAIN call[c].batch : call[c].batch[p] \in 1..MaxVersion
      BY CallTypes DEF Batches
    <3>3. /\ call[c].pc \in {"idle", "page", "merge", "fetch", "pull row", "repo row",
                             "metadata", "root", "list", "outright"}
          /\ call[c].repo \in Repos /\ call[c].known \subseteq Repos
          /\ call[c].page \in Nat \ {0} /\ call[c].whole \in BOOLEAN
      BY CallTypes DEF Progress, Materialising
    <3> QED BY <3>1, <3>2, <3>3
  <2> QED BY <2>1, <2>2 DEF TypeOK, Inv, Provided, Files
<1> QED BY <1>1, Invariant, PTL

-----------------------------------------------------------------------------
(* Scans.  Without materialisations no row goes away; a scan that reached    *)
(* page k has left rows for all it set out with on the pages before.         *)

Offset(k) == (k - 1) * PageSize

Covers(k, f, v) ==
    /\ k.pc \in {"page", "merge"} =>
          /\ Len(k.goal) <= Len(v[k.repo])
          /\ \A p \in 1..Len(k.goal) : p <= Offset(k.page) => f[k.repo][p] # 0
    /\ k.pc = "merge" =>
          /\ \A p \in 1..Len(k.goal) :
                p <= Offset(k.page + 1) => p <= Offset(k.page) \/ p \in DOMAIN k.batch
          /\ Cardinality(DOMAIN k.batch) < PageSize => Len(k.goal) <= Offset(k.page + 1)

Scans ==
    /\ \A c \in Calls : call[c].pc \in Materialising => "materialise" \in setting.callers[c]
    /\ ~Asks("materialise") => \A c \in Calls : Covers(call[c], rows, version)

LEMMA Offsets ==
    ASSUME NEW k \in Nat \ {0}
    PROVE  /\ Offset(k) \in Nat /\ Offset(k + 1) = k * PageSize /\ Offset(1) = 0
           /\ Offset(k + 1) = Offset(k) + PageSize
<1>1. PageSize \in Nat \ {0}
  OBVIOUS
<1>2. Offset(k + 1) = k * PageSize /\ Offset(1) = 0
  BY <1>1 DEF Offset
<1>3. k * PageSize = (k - 1) * PageSize + PageSize
  BY <1>1
<1>4. (k - 1) * PageSize \in Nat
  BY <1>1
<1> QED BY <1>2, <1>3, <1>4 DEF Offset

\* What the pages of the list hold.
LEMMA Paging ==
    ASSUME Provided, NEW r \in Repos, NEW k \in Nat \ {0}
    PROVE  LET page == Page(r, k, "ascending")
               n == Len(version[r])
           IN  /\ \A p \in 1..n : (Offset(k) < p /\ p <= Offset(k + 1)) => p \in page
               /\ Cardinality(page) < PageSize => n <= Offset(k + 1)
               /\ page = {} => n <= Offset(k)
<1> DEFINE page == Page(r, k, "ascending")
           n == Len(version[r])
<1>0. n \in Nat /\ PageSize \in Nat \ {0} /\ Offset(k) \in Nat /\ Offset(k + 1) = Offset(k) + PageSize
  BY SettingTypes, Offsets
<1>1. page = {i \in 1..n : Offset(k) < i /\ i <= Offset(k + 1)}
  BY Offsets DEF Page, Offset
<1> HIDE DEF page, n
<1>2. \A p \in 1..n : (Offset(k) < p /\ p <= Offset(k + 1)) => p \in page
  BY <1>1
<1>3. ASSUME Cardinality(page) < PageSize PROVE n <= Offset(k + 1)
  <2> SUFFICES ASSUME Offset(k + 1) < n PROVE FALSE
    BY <1>0
  <2>1. page = (Offset(k) + 1)..Offset(k + 1)
    BY <1>0, <1>1
  <2>2. Cardinality((Offset(k) + 1)..Offset(k + 1)) = PageSize
    BY <1>0, FS_Interval
  <2> QED BY <1>0, <1>3, <2>1, <2>2
<1>4. ASSUME page = {} PROVE n <= Offset(k)
  <2> SUFFICES ASSUME Offset(k) < n PROVE FALSE
    BY <1>0
  <2>1. Offset(k) + 1 \in 1..n /\ Offset(k) < Offset(k) + 1 /\ Offset(k) + 1 <= Offset(k + 1)
    BY <1>0
  <2> QED BY <1>2, <1>4, <2>1
<1> QED BY <1>2, <1>3, <1>4 DEF page, n

\* No row goes away and nothing is taken from a list.
Lasting ==
    /\ \A r \in Repos : \A p \in Numbers(r) : rows[r][p] # 0 => rows'[r][p] # 0
    /\ \A r \in Repos : Len(version[r]) <= Len(version'[r])

LEMMA CoversLasts ==
    ASSUME Inv, Inv', Lasting, NEW k \in Progress, Covers(k, rows, version)
    PROVE  Covers(k, rows', version')
<1>1. k.repo \in Repos /\ Len(k.goal) \in Nat
  BY GoalTypes DEF Progress
<1>2. ASSUME k.pc \in {"page", "merge"}
      PROVE  /\ Len(k.goal) <= Len(version'[k.repo])
             /\ \A p \in 1..Len(k.goal) : p <= Offset(k.page) => rows'[k.repo][p] # 0
  <2>1. /\ Len(k.goal) <= Len(version[k.repo]) /\ Len(version[k.repo]) <= Len(version'[k.repo])
        /\ \A p \in 1..Len(k.goal) : p <= Offset(k.page) => rows[k.repo][p] # 0
    BY <1>1, <1>2 DEF Covers, Lasting
  <2>2. /\ Len(version[k.repo]) \in Nat /\ Len(version'[k.repo]) \in Nat
        /\ 1..Len(version[k.repo]) \subseteq Numbers(k.repo)
    BY <1>1, SettingTypes DEF Inv, Provided, Pulls
  <2>3. 1..Len(k.goal) \subseteq Numbers(k.repo)
    BY <1>1, <2>1, <2>2
  <2> QED BY <1>1, <2>1, <2>2, <2>3 DEF Lasting
<1> QED BY <1>2 DEF Covers

LEMMA ScanStep ==
    ASSUME Inv, Inv', Scans, NEW c \in Calls, NEW k \in Progress, Set(c, k), setting' = setting,
           k.pc \in Materialising => "materialise" \in setting.callers[c],
           ~Asks("materialise") => Lasting /\ Covers(k, rows', version')
    PROVE  Scans'
<1>1. call'[c] = k /\ \A d \in Calls \ {c} : call'[d] = call[d]
  BY DEF Set, Inv
<1>2. Asks("materialise")' = Asks("materialise")
  BY DEF Asks
<1>3. \A d \in Calls : call'[d].pc \in Materialising => "materialise" \in setting'.callers[d]
  BY <1>1 DEF Scans
<1>4. ASSUME ~Asks("materialise"), NEW d \in Calls PROVE Covers(call'[d], rows', version')
  <2>1. CASE d = c
    BY <1>1, <1>4, <2>1
  <2>2. CASE d # c
    BY <1>1, <1>4, <2>2, CallTypes, CoversLasts DEF Scans
  <2> QED BY <2>1, <2>2
<1>5. \A d \in Calls : Covers(call[d], rows, version)' = Covers(call'[d], rows', version')
  BY DEF Covers
<1> QED BY <1>2, <1>3, <1>4, <1>5 DEF Scans

LEMMA QuietLasts ==
    ASSUME Inv, UNCHANGED <<rows, version>>
    PROVE  Lasting
<1>1. \A r \in Repos : Len(version[r]) <= Len(version[r])
  BY SettingTypes DEF Inv
<1> QED BY <1>1 DEF Lasting

LEMMA UpsertLasts ==
    ASSUME Inv, NEW r \in Repos, NEW pulls \in Batches, Upsert(r, pulls), version' = version
    PROVE  Lasting
<1>1. \A q \in Repos : Len(version[q]) <= Len(version[q])
  BY SettingTypes DEF Inv
<1> QED BY <1>1, UpsertTypes DEF Lasting

\* A call that scans no more has nothing to cover.
LEMMA NoScan == ASSUME NEW k, NEW f, NEW v, k.pc \notin {"page", "merge"} PROVE Covers(k, f, v)
BY DEF Covers

LEMMA BeginCovers ==
    ASSUME Inv, Inv', Scans, NEW c \in Calls, BeginScan(c) \/ BeginMaterialise(c)
    PROVE  Scans'
<1>1. PICK r \in Repos :
        \/ Begin(c, "converge", r, "page")
        \/ Begin(c, "materialise", r, "metadata")
  BY DEF BeginScan, BeginMaterialise
<1>0. UNCHANGED <<setting, version, rows>>
  BY DEF BeginScan, BeginMaterialise
<1>2. PICK job \in Jobs, pc \in {"page", "metadata"} :
        Begin(c, job, r, pc) /\ (pc = "metadata" => job = "materialise")
  BY <1>1 DEF Jobs
<1> DEFINE k == [NoCall EXCEPT !.pc = pc, !.whole = (job = "materialise"), !.repo = r,
                               !.known = root, !.goal = version[r]]
<1>3. k \in Progress
  BY IdleTypes DEF Inv, Provided, Files, Progress, Materialising
<1>4. k.pc = pc /\ k.page = 1 /\ k.goal = version[r] /\ k.repo = r
  BY DEF NoCall
<1>5. Set(c, k) /\ job \in setting.callers[c]
  BY <1>2 DEF Begin
<1> HIDE DEF k
<1>6. Covers(k, rows', version')
  <2>1. Offset(1) = 0 /\ Len(version[r]) <= Len(version[r]) /\ Len(version[r]) \in Nat
    BY Offsets, SettingTypes DEF Inv
  <2> QED BY <1>0, <1>4, <2>1 DEF Covers
<1>7. k.pc \in Materialising => "materialise" \in setting.callers[c]
  BY <1>2, <1>4, <1>5 DEF Materialising
<1>8. Lasting
  BY <1>0, QuietLasts
<1> QED BY <1>0, <1>3, <1>5, <1>6, <1>7, <1>8, ScanStep

LEMMA FetchPageCovers == ASSUME Inv, Inv', Scans, NEW c \in Calls, FetchPage(c) PROVE Scans'
<1> DEFINE r == call[c].repo
           page == Page(r, call[c].page, "ascending")
           k == [call[c] EXCEPT !.pc = "merge", !.batch = Listed(r, page)]
<1>0. UNCHANGED <<setting, version, rows>> /\ call[c].pc = "page"
  BY DEF FetchPage, At
<1>1. CASE UNCHANGED call
  BY <1>0, <1>1 DEF Scans, Asks, Covers
<1>2. CASE Set(c, NoCall)
  BY <1>0, <1>2, IdleTypes, NoScan, QuietLasts, ScanStep DEF Materialising
<1>3. CASE Set(c, k)
  <2>1. page \subseteq 1..Len(version[r])
    BY CallTypes, PageTypes DEF Inv
  <2>2. /\ \A p \in 1..Len(version[r]) :
              (Offset(call[c].page) < p /\ p <= Offset(call[c].page + 1)) => p \in page
        /\ Cardinality(page) < PageSize => Len(version[r]) <= Offset(call[c].page + 1)
    BY CallTypes, Paging DEF Inv
  <2> HIDE DEF page
  <2>3. Listed(r, page) \in Batches /\ DOMAIN Listed(r, page) = page
    BY <2>1, CallTypes, ListedTypes DEF Inv
  <2>4. /\ k \in Progress /\ k.pc = "merge" /\ k.repo = r /\ k.page = call[c].page
        /\ k.goal = call[c].goal /\ k.batch = Listed(r, page)
    BY <2>3, CallTypes DEF Progress
  <2> HIDE DEF k
  <2>5. ASSUME ~Asks("materialise") PROVE Covers(k, rows', version')
    <3>0. Len(version[r]) \in Nat /\ Len(k.goal) \in Nat
      BY <2>4, CallTypes, GoalTypes, SettingTypes DEF Inv
    <3>1. /\ Len(k.goal) <= Len(version[r]) /\ Len(version[r]) \in Nat /\ Len(k.goal) \in Nat
          /\ \A p \in 1..Len(k.goal) : p <= Offset(k.page) => rows[r][p] # 0
      BY <1>0, <2>4, <2>5, <3>0 DEF Scans, Covers
    <3>2. Offset(k.page) \in Nat /\ Offset(k.page + 1) \in Nat
      BY <2>4, CallTypes, Offsets
    <3>3. \A p \in 1..Len(k.goal) :
              p <= Offset(k.page + 1) => p <= Offset(k.page) \/ p \in DOMAIN k.batch
      BY <2>2, <2>3, <2>4, <3>1, <3>2
    <3>4. Cardinality(DOMAIN k.batch) < PageSize => Len(k.goal) <= Offset(k.page + 1)
      BY <2>2, <2>3, <2>4, <3>1, <3>2
    <3> QED BY <1>0, <2>4, <3>1, <3>3, <3>4 DEF Covers
  <2> QED BY <1>0, <1>3, <2>4, <2>5, QuietLasts, ScanStep DEF Materialising
<1> QED BY <1>1, <1>2, <1>3 DEF FetchPage

\* A page that is stored leaves rows for all of the goal up to its end.
LEMMA PageStored ==
    ASSUME Inv, Scans, ~Asks("materialise"), NEW c \in Calls, call[c].pc = "merge",
           Upsert(call[c].repo, call[c].batch)
    PROVE  \A p \in 1..Len(call[c].goal) :
               p <= Offset(call[c].page + 1) => rows'[call[c].repo][p] # 0
<1> DEFINE r == call[c].repo
<1> SUFFICES ASSUME NEW p \in 1..Len(call[c].goal), p <= Offset(call[c].page + 1)
             PROVE  rows'[r][p] # 0
  OBVIOUS
<1>1. /\ Len(call[c].goal) <= Len(version[r])
      /\ p <= Offset(call[c].page) => rows[r][p] # 0
      /\ p <= Offset(call[c].page) \/ p \in DOMAIN call[c].batch
  BY DEF Scans, Covers
<1>2. p \in Numbers(r)
  <2>1. 1..Len(version[r]) \subseteq Numbers(r) /\ Len(version[r]) \in Nat /\ Len(call[c].goal) \in Nat
    BY CallTypes, GoalTypes, SettingTypes DEF Inv
  <2> QED BY <1>1, <2>1
<1> QED BY <1>1, <1>2, CallTypes, UpsertTypes

LEMMA MergePageCovers == ASSUME Inv, Inv', Scans, NEW c \in Calls, MergePage(c) PROVE Scans'
<1> DEFINE next == [call[c] EXCEPT !.pc = "page", !.page = @ + 1, !.batch = NoPulls]
           again == [call[c] EXCEPT !.pc = "page", !.batch = NoPulls]
<1>0. UNCHANGED <<setting, version>> /\ call[c].pc = "merge"
  BY DEF MergePage, At
<1>1. /\ next \in Progress /\ next.pc = "page" /\ next.repo = call[c].repo
      /\ next.goal = call[c].goal /\ next.page = call[c].page + 1
      /\ again \in Progress /\ again.pc = "page" /\ again.repo = call[c].repo
      /\ again.goal = call[c].goal /\ again.page = call[c].page
  BY CallTypes, NoPullsTypes DEF Progress
<1>2. \/ Upsert(call[c].repo, call[c].batch) /\ (Set(c, NoCall) \/ Set(c, next))
      \/ UNCHANGED rows /\ Set(c, again)
  BY DEF MergePage
<1> HIDE DEF next, again
<1>3. CASE Upsert(call[c].repo, call[c].batch) /\ Set(c, NoCall)
  BY <1>0, <1>3, CallTypes, IdleTypes, NoScan, UpsertLasts, ScanStep DEF Materialising
<1>4. CASE Upsert(call[c].repo, call[c].batch) /\ Set(c, next)
  <2>1. ASSUME ~Asks("materialise") PROVE Covers(next, rows', version')
    <3>1. Len(next.goal) <= Len(version'[next.repo])
      BY <1>0, <1>1, <2>1 DEF Scans, Covers
    <3>2. \A p \in 1..Len(next.goal) : p <= Offset(next.page) => rows'[next.repo][p] # 0
      BY <1>0, <1>1, <1>4, <2>1, PageStored
    <3> QED BY <1>1, <3>1, <3>2 DEF Covers
  <2> QED BY <1>0, <1>1, <1>4, <2>1, CallTypes, UpsertLasts, ScanStep DEF Materialising
<1>5. CASE UNCHANGED rows /\ Set(c, again)
  <2>1. ASSUME ~Asks("materialise") PROVE Covers(again, rows', version')
    BY <1>0, <1>1, <1>5, <2>1 DEF Scans, Covers
  <2> QED BY <1>0, <1>1, <1>5, <2>1, QuietLasts, ScanStep DEF Materialising
<1> QED BY <1>2, <1>3, <1>4, <1>5

LEMMA SetAgain ==
    ASSUME Inv, NEW c \in Calls, NEW k, Set(c, k)
    PROVE  call'[c] = k /\ Set(c, call'[c])
BY DEF Set, Inv

LEMMA GoesTo ==
    ASSUME Inv, NEW c \in Calls, NEW pc, Go(c, pc)
    PROVE  Set(c, call'[c]) /\ call'[c].pc = pc
<1> DEFINE k == [call[c] EXCEPT !.pc = pc]
<1>1. Set(c, k)
  BY DEF Go
<1>2. k.pc = pc
  BY CallTypes DEF Progress
<1> HIDE DEF k
<1> QED BY <1>1, <1>2, SetAgain

\* A call that goes on, but does not scan.
LEMMA OtherCovers ==
    ASSUME Inv, Inv', Scans, NEW c \in Calls, NEW k \in Progress, Set(c, k), setting' = setting,
           k.pc \notin {"page", "merge"},
           k.pc \in Materialising => call[c].pc \in Materialising,
           Lasting \/ call[c].pc \in Materialising
    PROVE  Scans'
<1>1. k.pc \in Materialising => "materialise" \in setting.callers[c]
  BY DEF Scans
<1>2. ~Asks("materialise") => Lasting
  BY DEF Scans, Asks
<1> QED BY <1>1, <1>2, NoScan, ScanStep

LEMMA IngestCovers ==
    ASSUME Inv, Inv', Scans, NEW c \in Calls,
           \/ BeginIngest(c) \/ FetchPull(c) \/ WritePullRow(c) \/ WriteRepoRow(c) \/ Finish(c)
    PROVE  Scans'
<1>0. UNCHANGED <<setting, version>>
  BY DEF BeginIngest, FetchPull, WritePullRow, WriteRepoRow, Finish
<1>1. Lasting
  <2>1. UNCHANGED rows \/ Upsert(call[c].repo, call[c].batch)
    BY DEF BeginIngest, FetchPull, WritePullRow, WriteRepoRow, Finish
  <2> QED BY <1>0, <2>1, CallTypes, QuietLasts, UpsertLasts
<1>2. Set(c, call'[c]) /\ call'[c].pc \in {"idle", "fetch", "pull row", "repo row"}
  <2>1. CASE BeginIngest(c)
    <3>1. ASSUME NEW r \in Repos, NEW p \in 1..Len(version[r]),
                 Set(c, [NoCall EXCEPT !.pc = "fetch", !.repo = r, !.todo = {p}])
          PROVE  Set(c, call'[c]) /\ call'[c].pc = "fetch"
      <4> DEFINE k == [NoCall EXCEPT !.pc = "fetch", !.repo = r, !.todo = {p}]
      <4>1. Set(c, k)
        BY <3>1
      <4>2. k.pc = "fetch"
        BY DEF NoCall
      <4> HIDE DEF k
      <4> QED BY <4>1, <4>2, SetAgain
    <3> QED BY <2>1, <3>1 DEF BeginIngest
  <2>2. CASE FetchPull(c)
    <3> DEFINE p == Max(call[c].todo)
               taken == [call[c] EXCEPT !.pc = "pull row", !.todo = @ \ {p},
                                        !.batch = Listed(call[c].repo, {p})]
               skipped == [call[c] EXCEPT !.todo = @ \ {p}]
    <3>1. (Set(c, taken) \/ Set(c, skipped) \/ Set(c, NoCall)) /\ call[c].pc = "fetch"
      BY <2>2 DEF FetchPull, At
    <3> HIDE DEF p
    <3>2. taken.pc = "pull row" /\ skipped.pc = call[c].pc
      BY CallTypes DEF Progress
    <3> HIDE DEF taken, skipped
    <3> QED BY <3>1, <3>2, SetAgain, IdleTypes
  <2>3. CASE WritePullRow(c) \/ WriteRepoRow(c)
    <3>1. Go(c, "repo row") \/ Go(c, "fetch")
      BY <2>3 DEF WritePullRow, WriteRepoRow
    <3> QED BY <3>1, GoesTo
  <2>4. CASE Finish(c)
    BY <2>4, SetAgain, IdleTypes DEF Finish
  <2> QED BY <2>1, <2>2, <2>3, <2>4
<1>3. call'[c] \in Progress
  BY DEF Inv
<1> QED BY <1>0, <1>1, <1>2, <1>3, OtherCovers DEF Materialising

LEMMA MaterialiseCovers ==
    ASSUME Inv, Inv', Scans, NEW c \in Calls,
           \/ RootUnread(c) \/ FetchMetadata(c) \/ WriteRoot(c) \/ ListPage(c) \/ WriteOutright(c)
    PROVE  Scans'
<1>0. UNCHANGED <<setting, version>> /\ call[c].pc \in Materialising
  BY DEF RootUnread, FetchMetadata, WriteRoot, ListPage, WriteOutright, At, Materialising
<1>1. Set(c, call'[c]) /\ call'[c].pc \in {"idle", "fetch"} \cup Materialising
  <2>1. CASE RootUnread(c)
    <3> DEFINE k == [call[c] EXCEPT !.known = {}]
    <3>1. Set(c, k)
      BY <2>1 DEF RootUnread
    <3>2. k.pc = call[c].pc
      BY CallTypes DEF Progress
    <3> HIDE DEF k
    <3> QED BY <1>0, <3>1, <3>2, SetAgain
  <2>2. CASE FetchMetadata(c) \/ WriteRoot(c)
    <3>1. Set(c, NoCall) \/ Go(c, "list") \/ Go(c, "root")
      BY <2>2 DEF FetchMetadata, WriteRoot
    <3> QED BY <3>1, GoesTo, IdleTypes, SetAgain DEF Materialising
  <2>3. CASE ListPage(c)
    <3> DEFINE page == Page(call[c].repo, call[c].page, "descending")
               k == [call[c] EXCEPT
                        !.pc = IF Cardinality(page) < PageSize THEN "outright" ELSE "list",
                        !.page = @ + 1,
                        !.batch = [p \in DOMAIN @ \cup page |->
                                      IF p \in page THEN version[call[c].repo][p] ELSE @[p]]]
    <3>1. Set(c, k) \/ Set(c, NoCall)
      BY <2>3 DEF ListPage
    <3> HIDE DEF page
    <3>2. k.pc \in {"outright", "list"}
      BY CallTypes DEF Progress
    <3> HIDE DEF k
    <3> QED BY <3>1, <3>2, IdleTypes, SetAgain DEF Materialising
  <2>4. CASE WriteOutright(c)
    <3> DEFINE k == [call[c] EXCEPT !.pc = "fetch", !.todo = DOMAIN call[c].batch, !.batch = NoPulls]
    <3>1. Set(c, k)
      BY <2>4 DEF WriteOutright
    <3>2. k.pc = "fetch"
      BY CallTypes DEF Progress
    <3> HIDE DEF k
    <3> QED BY <3>1, <3>2, SetAgain
  <2> QED BY <2>1, <2>2, <2>3, <2>4
<1>2. call'[c] \in Progress
  BY DEF Inv
<1>3. call'[c].pc \notin {"page", "merge"}
  BY <1>1 DEF Materialising
<1> QED BY <1>0, <1>1, <1>2, <1>3, OtherCovers

LEMMA ProviderCovers == ASSUME Inv, Inv', Scans, NEW r \in Repos, Open(r) \/ Edit(r) PROVE Scans'
<1>0. UNCHANGED <<setting, rows, call>>
  BY DEF Open, Edit
<1>1. \A q \in Repos : Len(version[q]) <= Len(version'[q])
  <2> SUFFICES ASSUME NEW q \in Repos PROVE Len(version[q]) <= Len(version'[q])
    OBVIOUS
  <2>1. version[q] \in Pulls /\ version = [s \in Repos |-> version[s]]
    BY DEF Inv, Provided
  <2>2. \/ version'[q] = version[q] \/ version'[q] = Append(version[q], 1)
        \/ \E p \in 1..Len(version[q]) : version'[q] = [version[q] EXCEPT ![p] = @ + 1]
    BY <2>1 DEF Open, Edit
  <2>3. Len(Append(version[q], 1)) = Len(version[q]) + 1 /\ Len(version[q]) \in Nat
    BY <2>1 DEF Pulls
  <2>4. ASSUME NEW p \in 1..Len(version[q])
        PROVE  Len([version[q] EXCEPT ![p] = @ + 1]) = Len(version[q])
    BY <2>1 DEF Pulls
  <2>5. CASE version'[q] = version[q] \/ version'[q] = Append(version[q], 1)
    BY <2>3, <2>5
  <2>6. ASSUME NEW p \in 1..Len(version[q]), version'[q] = [version[q] EXCEPT ![p] = @ + 1]
        PROVE  Len(version[q]) <= Len(version'[q])
    BY <2>3, <2>4, <2>6
  <2> QED BY <2>2, <2>5, <2>6
<1>2. Lasting
  BY <1>0, <1>1 DEF Lasting
<1>3. \A c \in Calls : Covers(call[c], rows, version) => Covers(call[c], rows', version')
  BY <1>2, CallTypes, CoversLasts
<1>4. Asks("materialise")' = Asks("materialise")
  BY <1>0 DEF Asks
<1>5. \A d \in Calls : Covers(call[d], rows, version)' = Covers(call[d], rows', version')
  BY <1>0 DEF Covers
<1> QED BY <1>0, <1>3, <1>4, <1>5 DEF Scans

LEMMA NextScans == Inv /\ Inv' /\ Scans /\ [Next]_vars => Scans'
<1> SUFFICES ASSUME Inv, Inv', Scans, [Next]_vars PROVE Scans'
  OBVIOUS
<1>1. CASE UNCHANGED vars
  BY <1>1 DEF vars, Scans, Asks, Covers
<1>2. ASSUME NEW c \in Calls, Step(c) PROVE Scans'
  BY <1>2, FetchPageCovers, MergePageCovers, IngestCovers, MaterialiseCovers DEF Step
<1> QED BY <1>1, <1>2, BeginCovers, IngestCovers, MaterialiseCovers, ProviderCovers DEF Next

LEMMA InitScans == Init => Scans
BY IdleTypes, NoScan DEF Init, Scans, Materialising

LEMMA ScansInvariant == Spec => []Scans
BY InitScans, NextScans, Invariant, PTL DEF Spec

\* A call that ends does so by a step of its own.
LEMMA OwnStep ==
    ASSUME Inv, Next, NEW c \in Calls, Ends(c)
    PROVE  Step(c)
<1>1. ASSUME NEW d \in Calls, d # c, NEW k, Set(d, k) PROVE FALSE
  BY <1>1 DEF Set, Ends, At, Inv
<1>2. ASSUME NEW d \in Calls, d # c, NEW pc, Go(d, pc) PROVE FALSE
  BY <1>1, <1>2 DEF Go
<1>3. ~ UNCHANGED call
  BY DEF Ends, At
<1>4. ASSUME NEW r \in Repos, Open(r) \/ Edit(r) PROVE FALSE
  BY <1>3, <1>4 DEF Open, Edit
<1>5. ASSUME NEW d \in Calls, d # c,
             BeginScan(d) \/ BeginIngest(d) \/ BeginMaterialise(d) \/ RootUnread(d) \/ Step(d)
      PROVE  FALSE
  <2>1. CASE BeginScan(d) \/ BeginMaterialise(d)
    BY <1>1, <1>5, <2>1 DEF BeginScan, BeginMaterialise, Begin
  <2>2. CASE BeginIngest(d)
    BY <1>1, <1>5, <2>2 DEF BeginIngest
  <2>3. CASE FetchPage(d) \/ MergePage(d) \/ FetchPull(d)
    BY <1>1, <1>3, <1>5, <2>3 DEF FetchPage, MergePage, FetchPull
  <2>4. CASE WritePullRow(d) \/ WriteRepoRow(d) \/ Finish(d)
    BY <1>1, <1>2, <1>5, <2>4 DEF WritePullRow, WriteRepoRow, Finish
  <2>5. CASE RootUnread(d) \/ FetchMetadata(d) \/ WriteRoot(d)
    BY <1>1, <1>2, <1>5, <2>5 DEF RootUnread, FetchMetadata, WriteRoot
  <2>6. CASE ListPage(d) \/ WriteOutright(d)
    BY <1>1, <1>5, <2>6 DEF ListPage, WriteOutright
  <2> QED BY <1>5, <2>1, <2>2, <2>3, <2>4, <2>5, <2>6 DEF Step
<1>6. ~ (BeginScan(c) \/ BeginIngest(c) \/ BeginMaterialise(c))
  BY DEF BeginScan, BeginIngest, BeginMaterialise, Begin, At, Ends
<1>7. ~ RootUnread(c)
  <2> SUFFICES ASSUME RootUnread(c) PROVE FALSE
    OBVIOUS
  <2> DEFINE k == [call[c] EXCEPT !.known = {}]
  <2>1. Set(c, k) /\ call[c].pc = "metadata"
    BY DEF RootUnread, At
  <2>2. k.pc = call[c].pc
    BY CallTypes DEF Progress
  <2> HIDE DEF k
  <2> QED BY <2>1, <2>2 DEF Set, Ends, Inv
<1> QED BY <1>4, <1>5, <1>6, <1>7 DEF Next

\* The step that ends a scan: there is no such page, or a short one is stored.
LEMMA EndOfScan ==
    ASSUME Inv, Next, NEW c \in Calls, call[c].pc \in {"page", "merge"}, Ends(c)
    PROVE  \/ /\ call[c].pc = "page" /\ rows' = rows
              /\ Len(version[call[c].repo]) <= Offset(call[c].page)
           \/ /\ call[c].pc = "merge" /\ Upsert(call[c].repo, call[c].batch)
              /\ Cardinality(DOMAIN call[c].batch) < PageSize
<1> DEFINE r == call[c].repo
           page == Page(r, call[c].page, "ascending")
<1>1. FetchPage(c) \/ MergePage(c)
  <2>1. ~ (FetchPull(c) \/ WritePullRow(c) \/ WriteRepoRow(c) \/ Finish(c))
    BY DEF FetchPull, WritePullRow, WriteRepoRow, Finish, At
  <2>2. ~ (FetchMetadata(c) \/ WriteRoot(c) \/ ListPage(c) \/ WriteOutright(c))
    BY DEF FetchMetadata, WriteRoot, ListPage, WriteOutright, At
  <2> QED BY <2>1, <2>2, OwnStep DEF Step
<1>2. CASE FetchPage(c)
  <2>1. call'[c].pc = "idle" /\ call[c].pc = "page" /\ rows' = rows
    BY <1>2 DEF Ends, FetchPage, At
  <2>2. ~ UNCHANGED call
    BY <2>1
  <2> DEFINE k == [call[c] EXCEPT !.pc = "merge", !.batch = Listed(r, page)]
  <2>3. k.pc = "merge"
    BY CallTypes DEF Progress
  <2> HIDE DEF k
  <2>4. ~ Set(c, k)
    BY <2>1, <2>3 DEF Set, Inv
  <2>5. page = {}
    BY <1>2, <2>2, <2>4 DEF FetchPage, k
  <2> QED BY <2>1, <2>5, CallTypes, Paging DEF Inv
<1>3. CASE MergePage(c)
  <2> DEFINE next == [call[c] EXCEPT !.pc = "page", !.page = @ + 1, !.batch = NoPulls]
             again == [call[c] EXCEPT !.pc = "page", !.batch = NoPulls]
  <2>1. next.pc = "page" /\ again.pc = "page"
    BY CallTypes DEF Progress
  <2>2. \/ /\ Upsert(r, call[c].batch)
           /\ IF Cardinality(DOMAIN call[c].batch) < PageSize THEN Set(c, NoCall) ELSE Set(c, next)
        \/ Set(c, again)
    BY <1>3 DEF MergePage
  <2> HIDE DEF next, again
  <2>3. ~ Set(c, next) /\ ~ Set(c, again)
    BY <2>1 DEF Set, Ends, Inv
  <2> QED BY <1>3, <2>2, <2>3 DEF MergePage, At
<1> QED BY <1>1, <1>2, <1>3

\* A scan that ends leaves a row for every pull request it set out with.
THEOREM ScanIsComplete == Spec => ScanCovers
<1>1. ASSUME Inv, Scans, Next, NEW c \in Calls, call[c].pc \in {"page", "merge"}, Ends(c),
             ~Asks("materialise")
      PROVE  \A p \in DOMAIN call[c].goal : rows'[call[c].repo][p] # 0
  <2> DEFINE r == call[c].repo
  <2>1. DOMAIN call[c].goal = 1..Len(call[c].goal) /\ Len(call[c].goal) \in Nat
    BY <1>1, CallTypes, GoalTypes
  <2>2. /\ Offset(call[c].page) \in Nat /\ Offset(call[c].page + 1) \in Nat
        /\ Len(version[r]) \in Nat
    BY <1>1, CallTypes, Offsets, SettingTypes DEF Inv
  <2>3. /\ Len(call[c].goal) <= Len(version[r])
        /\ \A p \in 1..Len(call[c].goal) : p <= Offset(call[c].page) => rows[r][p] # 0
    BY <1>1 DEF Scans, Covers
  <2>4. CASE rows' = rows /\ Len(version[r]) <= Offset(call[c].page)
    BY <2>1, <2>2, <2>3, <2>4
  <2>5. CASE /\ call[c].pc = "merge" /\ Upsert(r, call[c].batch)
             /\ Cardinality(DOMAIN call[c].batch) < PageSize
    <3>1. Len(call[c].goal) <= Offset(call[c].page + 1)
      BY <1>1, <2>5 DEF Scans, Covers
    <3> QED BY <1>1, <2>1, <2>2, <2>5, <3>1, PageStored
  <2> QED BY <1>1, <2>4, <2>5, EndOfScan
<1>2. ASSUME UNCHANGED vars, NEW c \in Calls, call[c].pc \in {"page", "merge"} PROVE ~Ends(c)
  BY <1>2 DEF vars, Ends, At
<1>3. Inv /\ Scans /\ [Next]_vars =>
        \A c \in Calls : (call[c].pc \in {"page", "merge"} /\ Ends(c) /\ ~Asks("materialise")) =>
            \A p \in DOMAIN call[c].goal : rows'[call[c].repo][p] # 0
  BY <1>1, <1>2
<1> QED BY <1>3, Invariant, ScansInvariant, PTL DEF Spec, ScanCovers

-----------------------------------------------------------------------------
(* The root index, for calls one after another and as long as nothing failed:*)
(* the copy a materialisation holds is the file, and past its request for the*)
(* metadata and the write its repository is in the file.                     *)

Rooted(k, f) ==
    /\ k.pc \in {"metadata", "root"} => k.known = f
    /\ (k.whole /\ k.pc \in {"list", "outright", "fetch", "pull row", "repo row"}) => k.repo \in f

Roots ==
    /\ \A c \in Calls : call[c].pc # "idle" => setting.callers[c] # {}
    /\ (Alone /\ faults = 0) => done \subseteq root /\ \A c \in Calls : Rooted(call[c], root)

LEMMA OneCaller ==
    ASSUME Alone, NEW c \in Calls, setting.callers[c] # {}, NEW d \in Calls, setting.callers[d] # {}
    PROVE  c = d
<1> DEFINE S == {e \in Calls : setting.callers[e] # {}}
<1>1. IsFiniteSet(S) /\ Cardinality(S) = 1
  BY FS_Subset DEF Alone
<1>2. c \in S /\ d \in S
  OBVIOUS
<1> HIDE DEF S
<1>3. \E e : S = {e}
  BY <1>1, FS_Singleton, Zenon
<1> QED BY <1>2, <1>3

LEMMA RootStep ==
    ASSUME Inv, Inv', Roots, NEW c \in Calls, Set(c, call'[c]), setting' = setting,
           setting.callers[c] # {} \/ call[c].pc # "idle", faults <= faults',
           (Alone /\ faults' = 0 /\ done \subseteq root /\ Rooted(call[c], root)) =>
               done' \subseteq root' /\ Rooted(call'[c], root')
    PROVE  Roots'
<1>1. \A d \in Calls \ {c} : call'[d] = call[d]
  BY DEF Set, Inv
<1>2. setting.callers[c] # {}
  BY DEF Roots
<1>3. \A d \in Calls : call'[d].pc # "idle" => setting'.callers[d] # {}
  BY <1>1, <1>2 DEF Roots
<1>4. faults' = 0 => faults = 0
  BY SettingTypes DEF Inv, Files
<1>5. ASSUME Alone, faults' = 0
      PROVE  done' \subseteq root' /\ \A d \in Calls : Rooted(call'[d], root')
  <2>1. done' \subseteq root' /\ Rooted(call'[c], root')
    BY <1>4, <1>5 DEF Roots
  <2>2. ASSUME NEW d \in Calls \ {c} PROVE Rooted(call'[d], root')
    <3>1. call'[d].pc = "idle"
      BY <1>1, <1>2, <1>5, OneCaller DEF Roots
    <3> QED BY <3>1 DEF Rooted
  <2> QED BY <2>1, <2>2
<1>6. Alone' = Alone
  BY DEF Alone
<1>7. \A d \in Calls : Rooted(call[d], root)' = Rooted(call'[d], root')
  BY DEF Rooted
<1> QED BY <1>3, <1>5, <1>6, <1>7 DEF Roots

\* Failures are counted.
LEMMA Counts == ASSUME Inv PROVE (Works => faults <= faults') /\ (Fails => faults <= faults' /\ faults' # 0)
BY SettingTypes DEF Inv, Files, Works, Fails

\* What stays of a call that goes on.
LEMMA Stays ==
    ASSUME Inv, NEW c \in Calls, NEW pc, Go(c, pc)
    PROVE  /\ Set(c, call'[c]) /\ call'[c].pc = pc /\ call'[c].whole = call[c].whole
           /\ call'[c].repo = call[c].repo /\ call'[c].known = call[c].known
<1> DEFINE k == [call[c] EXCEPT !.pc = pc]
<1>1. Set(c, k)
  BY DEF Go
<1>2. k.pc = pc /\ k.whole = call[c].whole /\ k.repo = call[c].repo /\ k.known = call[c].known
  BY CallTypes DEF Progress
<1> HIDE DEF k
<1> QED BY <1>1, <1>2, SetAgain

LEMMA BeginRoots ==
    ASSUME Inv, Inv', Roots, NEW c \in Calls,
           BeginScan(c) \/ BeginMaterialise(c) \/ BeginIngest(c)
    PROVE  Roots'
<1>0. UNCHANGED <<setting, root, done, faults>> /\ faults <= faults'
  <2>1. faults <= faults
    BY SettingTypes DEF Inv, Files
  <2>2. UNCHANGED <<setting, root, done, faults>>
    BY DEF BeginScan, BeginMaterialise, BeginIngest
  <2> QED BY <2>1, <2>2
<1>1. ASSUME NEW r \in Repos, NEW job, NEW pc \in {"page", "metadata"}, Begin(c, job, r, pc)
      PROVE  Roots'
  <2> DEFINE k == [NoCall EXCEPT !.pc = pc, !.whole = (job = "materialise"), !.repo = r,
                                 !.known = root, !.goal = version[r]]
  <2>1. Set(c, k) /\ setting.callers[c] # {}
    BY <1>1 DEF Begin
  <2>2. k.pc = pc /\ k.known = root
    BY DEF NoCall
  <2> HIDE DEF k
  <2> QED BY <1>0, <2>1, <2>2, SetAgain, RootStep DEF Rooted
<1>2. ASSUME NEW r \in Repos, NEW p \in 1..Len(version[r]), "ingest" \in setting.callers[c],
             Set(c, [NoCall EXCEPT !.pc = "fetch", !.repo = r, !.todo = {p}])
      PROVE  Roots'
  <2> DEFINE k == [NoCall EXCEPT !.pc = "fetch", !.repo = r, !.todo = {p}]
  <2>1. Set(c, k)
    BY <1>2
  <2>2. k.pc = "fetch" /\ ~k.whole
    BY DEF NoCall
  <2> HIDE DEF k
  <2> QED BY <1>0, <1>2, <2>1, <2>2, SetAgain, RootStep DEF Rooted
<1> QED BY <1>1, <1>2 DEF BeginScan, BeginMaterialise, BeginIngest

LEMMA ScanRoots ==
    ASSUME Inv, Inv', Roots, NEW c \in Calls, FetchPage(c) \/ MergePage(c)
    PROVE  Roots'
<1> DEFINE merge == [call[c] EXCEPT !.pc = "merge",
                            !.batch = Listed(call[c].repo, Page(call[c].repo, call[c].page, "ascending"))]
           next == [call[c] EXCEPT !.pc = "page", !.page = @ + 1, !.batch = NoPulls]
           again == [call[c] EXCEPT !.pc = "page", !.batch = NoPulls]
<1>1. /\ UNCHANGED <<setting, root, done>> /\ call[c].pc \in {"page", "merge"}
      /\ faults <= faults'
  BY Counts DEF FetchPage, MergePage, At
<1>2. UNCHANGED call \/ Set(c, NoCall) \/ Set(c, merge) \/ Set(c, next) \/ Set(c, again)
  BY DEF FetchPage, MergePage
<1>3. merge.pc = "merge" /\ next.pc = "page" /\ again.pc = "page"
  BY CallTypes DEF Progress
<1> HIDE DEF merge, next, again
<1>4. Set(c, call'[c]) /\ call'[c].pc \in {"idle", "page", "merge"}
  BY <1>1, <1>2, <1>3, IdleTypes, SetAgain DEF Set, Inv
<1> QED BY <1>1, <1>4, RootStep DEF Rooted

LEMMA IngestRoots ==
    ASSUME Inv, Inv', Roots, NEW c \in Calls,
           FetchPull(c) \/ WritePullRow(c) \/ WriteRepoRow(c) \/ Finish(c)
    PROVE  Roots'
<1>1. /\ setting' = setting /\ call[c].pc \in {"fetch", "pull row", "repo row"}
      /\ faults <= faults'
  <2>1. faults <= faults
    BY SettingTypes DEF Inv, Files
  <2> QED BY <2>1, Counts DEF FetchPull, WritePullRow, WriteRepoRow, Finish, At
<1>2. CASE FetchPull(c)
  <2> DEFINE p == Max(call[c].todo)
             taken == [call[c] EXCEPT !.pc = "pull row", !.todo = @ \ {p},
                                      !.batch = Listed(call[c].repo, {p})]
             skipped == [call[c] EXCEPT !.todo = @ \ {p}]
  <2>1. Set(c, taken) \/ Set(c, skipped) \/ Set(c, NoCall)
    BY <1>2 DEF FetchPull
  <2> HIDE DEF p
  <2>2. /\ taken.pc = "pull row" /\ taken.repo = call[c].repo /\ taken.whole = call[c].whole
        /\ skipped.pc = call[c].pc /\ skipped.repo = call[c].repo /\ skipped.whole = call[c].whole
    BY CallTypes DEF Progress
  <2> HIDE DEF taken, skipped
  <2>3. /\ Set(c, call'[c]) /\ call'[c].pc \in {"idle", "fetch", "pull row", "repo row"}
        /\ call'[c].pc # "idle" =>
              call'[c].repo = call[c].repo /\ call'[c].whole = call[c].whole
    BY <1>1, <2>1, <2>2, SetAgain, IdleTypes
  <2> QED BY <1>1, <1>2, <2>3, RootStep DEF FetchPull, Rooted
<1>3. CASE WritePullRow(c) \/ WriteRepoRow(c)
  <2>1. Go(c, "repo row") \/ Go(c, "fetch")
    BY <1>3 DEF WritePullRow, WriteRepoRow
  <2>2. root \subseteq root' /\ done' = done
    BY <1>3 DEF WritePullRow, WriteRepoRow
  <2>3. /\ Set(c, call'[c]) /\ call'[c].pc \in {"fetch", "repo row"}
        /\ call'[c].repo = call[c].repo /\ call'[c].whole = call[c].whole
    BY <2>1, Stays
  <2> QED BY <1>1, <2>2, <2>3, RootStep DEF Rooted
<1>4. CASE Finish(c)
  <2>1. /\ Set(c, NoCall) /\ root' = root /\ call[c].pc = "fetch"
        /\ done' = IF call[c].whole THEN done \cup {call[c].repo} ELSE done
    BY <1>4 DEF Finish, At
  <2>2. Set(c, call'[c]) /\ call'[c].pc = "idle"
    BY <2>1, IdleTypes, SetAgain
  <2>3. (done \subseteq root /\ Rooted(call[c], root)) => done' \subseteq root'
    BY <2>1 DEF Rooted
  <2> QED BY <1>1, <2>2, <2>3, RootStep DEF Rooted
<1> QED BY <1>2, <1>3, <1>4

LEMMA MaterialiseRoots ==
    ASSUME Inv, Inv', Roots, NEW c \in Calls,
           \/ RootUnread(c) \/ FetchMetadata(c) \/ WriteRoot(c) \/ ListPage(c) \/ WriteOutright(c)
    PROVE  Roots'
<1>1. /\ UNCHANGED <<setting, done>> /\ call[c].pc \in Materialising
      /\ faults <= faults'
  BY Counts DEF RootUnread, FetchMetadata, WriteRoot, ListPage, WriteOutright, At, Materialising
<1>0. call[c].pc # "idle"
  BY <1>1 DEF Materialising
<1>2. CASE RootUnread(c)
  <2>1. Set(c, [call[c] EXCEPT !.known = {}]) /\ Fails
    BY <1>2 DEF RootUnread
  <2>2. Set(c, call'[c]) /\ faults' # 0
    BY <2>1, Counts, SetAgain
  <2> QED BY <1>0, <1>1, <2>2, RootStep
<1>3. CASE FetchMetadata(c)
  <2>1. /\ root' = root /\ call[c].pc = "metadata"
        /\ \/ Set(c, NoCall)
           \/ call[c].repo \in call[c].known /\ Go(c, "list")
           \/ Go(c, "root")
    BY <1>3 DEF FetchMetadata, At
  <2>2. /\ Set(c, call'[c])
        /\ \/ call'[c].pc = "idle"
           \/ /\ call'[c].repo = call[c].repo /\ call'[c].known = call[c].known
              /\ call'[c].pc = "list" => call[c].repo \in call[c].known
              /\ call'[c].pc \in {"list", "root"}
    BY <2>1, IdleTypes, SetAgain, Stays
  <2> QED BY <1>0, <1>1, <2>1, <2>2, RootStep DEF Rooted
<1>4. CASE WriteRoot(c)
  <2>1. /\ Go(c, "list") /\ call[c].pc = "root"
        /\ root' = call[c].known \cup {call[c].repo} \/ faults' # 0
    BY <1>4, Counts DEF WriteRoot, At
  <2>2. Set(c, call'[c]) /\ call'[c].pc = "list" /\ call'[c].repo = call[c].repo
    BY <2>1, Stays
  <2> QED BY <1>0, <1>1, <2>1, <2>2, RootStep DEF Rooted
<1>5. CASE ListPage(c)
  <2> DEFINE page == Page(call[c].repo, call[c].page, "descending")
             k == [call[c] EXCEPT
                      !.pc = IF Cardinality(page) < PageSize THEN "outright" ELSE "list",
                      !.page = @ + 1,
                      !.batch = [p \in DOMAIN @ \cup page |->
                                    IF p \in page THEN version[call[c].repo][p] ELSE @[p]]]
  <2>1. (Set(c, k) \/ Set(c, NoCall)) /\ root' = root /\ call[c].pc = "list"
    BY <1>5 DEF ListPage, At
  <2> HIDE DEF page
  <2>2. k.pc \in {"outright", "list"} /\ k.repo = call[c].repo /\ k.whole = call[c].whole
    BY CallTypes DEF Progress
  <2> HIDE DEF k
  <2>3. /\ Set(c, call'[c])
        /\ \/ call'[c].pc = "idle"
           \/ /\ call'[c].repo = call[c].repo /\ call'[c].whole = call[c].whole
              /\ call'[c].pc \in {"outright", "list"}
    BY <2>1, <2>2, IdleTypes, SetAgain
  <2> QED BY <1>0, <1>1, <2>1, <2>3, RootStep DEF Rooted
<1>6. CASE WriteOutright(c)
  <2> DEFINE k == [call[c] EXCEPT !.pc = "fetch", !.todo = DOMAIN call[c].batch, !.batch = NoPulls]
  <2>1. Set(c, k) /\ root' = root /\ call[c].pc = "outright"
    BY <1>6 DEF WriteOutright, At
  <2>2. k.pc = "fetch" /\ k.repo = call[c].repo /\ k.whole = call[c].whole
    BY CallTypes DEF Progress
  <2> HIDE DEF k
  <2>3. /\ Set(c, call'[c]) /\ call'[c].pc = "fetch"
        /\ call'[c].repo = call[c].repo /\ call'[c].whole = call[c].whole
    BY <2>1, <2>2, SetAgain
  <2> QED BY <1>0, <1>1, <2>1, <2>3, RootStep DEF Rooted
<1> QED BY <1>2, <1>3, <1>4, <1>5, <1>6

LEMMA NextRoots == Inv /\ Inv' /\ Roots /\ [Next]_vars => Roots'
<1> SUFFICES ASSUME Inv, Inv', Roots, [Next]_vars PROVE Roots'
  OBVIOUS
<1>1. CASE UNCHANGED vars
  BY <1>1 DEF vars, Roots, Alone, Rooted
<1>2. ASSUME NEW r \in Repos, Open(r) \/ Edit(r) PROVE Roots'
  BY <1>2 DEF Open, Edit, Roots, Alone, Rooted
<1>3. ASSUME NEW c \in Calls, Step(c) PROVE Roots'
  BY <1>3, ScanRoots, IngestRoots, MaterialiseRoots DEF Step
<1> QED BY <1>1, <1>2, <1>3, BeginRoots, MaterialiseRoots DEF Next

LEMMA InitRoots == Init => Roots
BY IdleTypes DEF Init, Roots, Rooted

\* Materialisations one after another leave every repository in the root index:
\* the copy of the index that each holds across its request is the file.
THEOREM RootIsComplete == Spec => []RootLists
<1>1. Spec => []Roots
  BY InitRoots, NextRoots, Invariant, PTL DEF Spec
<1>2. Roots => RootLists
  BY DEF Roots, RootLists
<1> QED BY <1>1, <1>2, PTL

-----------------------------------------------------------------------------
(* What calls deliver.  Whatever they hold is not older than what they set   *)
(* out with, and the pages that they have read hold all of it.               *)

Holds(k, v) ==
    /\ Len(k.goal) <= Len(v[k.repo])
    /\ \A p \in 1..Len(k.goal) : k.goal[p] <= v[k.repo][p]
    /\ \A p \in 1..Len(k.goal) : p \in DOMAIN k.batch => k.goal[p] <= k.batch[p]
    /\ k.pc = "merge" =>
          /\ \A p \in 1..Len(k.goal) :
                p <= Offset(k.page + 1) => p <= Offset(k.page) \/ p \in DOMAIN k.batch
          /\ Cardinality(DOMAIN k.batch) < PageSize => Len(k.goal) <= Offset(k.page + 1)
    /\ k.pc \in {"metadata", "root"} => k.page = 1
    /\ k.pc = "list" => \A p \in 1..Len(k.goal) :
                            Len(v[k.repo]) < p + Offset(k.page) => p \in DOMAIN k.batch
    /\ k.pc = "outright" => 1..Len(k.goal) \subseteq DOMAIN k.batch

Held == \A c \in Calls : Holds(call[c], version)

LEMMA HeldStep ==
    ASSUME Inv, Held, NEW c \in Calls, NEW k, Set(c, k), version' = version, Holds(k, version)
    PROVE  Held'
<1>1. \A d \in Calls : Holds(call'[d], version')
  BY DEF Set, Inv, Held
<1>2. \A d \in Calls : Holds(call[d], version)' = Holds(call'[d], version')
  BY DEF Holds
<1> QED BY <1>1, <1>2 DEF Held

LEMMA QuietHeld == ASSUME Held, UNCHANGED <<call, version>> PROVE Held'
BY DEF Held, Holds

LEMMA NoGoal ==
    ASSUME Inv, NEW k, k.goal = <<>>, k.repo \in Repos,
           k.pc \notin {"merge", "metadata", "root", "list", "outright"}
    PROVE  Holds(k, version)
<1>1. Len(<<>>) = 0 /\ 1..0 = {}
  OBVIOUS
<1>2. Len(version[k.repo]) \in Nat
  BY SettingTypes DEF Inv
<1> QED BY <1>1, <1>2 DEF Holds

LEMMA IdleHolds == ASSUME Inv PROVE Holds(NoCall, version)
<1>1. NoCall.goal = <<>> /\ NoCall.pc = "idle"
  BY DEF NoCall
<1>2. NoCall.repo \in Repos
  BY IdleTypes DEF Progress
<1> QED BY <1>1, <1>2, NoGoal

\* The numbers of the goal are open.
LEMMA GoalIsOpen ==
    ASSUME Inv, NEW k \in Progress, Len(k.goal) <= Len(version[k.repo])
    PROVE  /\ k.repo \in Repos /\ Len(version[k.repo]) \in Nat /\ Len(k.goal) \in Nat
           /\ 1..Len(k.goal) \subseteq 1..Len(version[k.repo])
           /\ 1..Len(k.goal) \subseteq Numbers(k.repo)
           /\ k.page \in Nat \ {0} /\ Offset(k.page) \in Nat /\ Offset(k.page + 1) \in Nat
           /\ Offset(k.page + 1) = Offset(k.page) + PageSize
           /\ \A p \in 1..Len(k.goal) : k.goal[p] \in Nat \ {0}
<1>1. k.repo \in Repos /\ k.page \in Nat \ {0} /\ k.goal \in Seq(1..MaxVersion)
  BY DEF Progress, Pulls
<1>2. Len(version[k.repo]) \in Nat /\ 1..Len(version[k.repo]) \subseteq Numbers(k.repo)
  BY <1>1, SettingTypes DEF Inv
<1>3. Len(k.goal) \in Nat /\ \A p \in 1..Len(k.goal) : k.goal[p] \in 1..MaxVersion
  BY <1>1
<1>4. /\ Offset(k.page) \in Nat /\ Offset(k.page + 1) \in Nat
      /\ Offset(k.page + 1) = Offset(k.page) + PageSize
  <2> DEFINE g == k.page
  <2>1. g \in Nat \ {0}
    BY <1>1
  <2> HIDE DEF g
  <2>2. /\ Offset(g) \in Nat /\ Offset(g + 1) = g * PageSize
        /\ Offset(g + 1) = Offset(g) + PageSize
    BY <2>1, Offsets
  <2>3. Offset(g + 1) \in Nat
    BY <2>2
  <2> QED BY <2>2, <2>3 DEF g
<1>5. 1..Len(k.goal) \subseteq 1..Len(version[k.repo])
  BY <1>2, <1>3
<1> QED BY <1>1, <1>2, <1>3, <1>4, <1>5

LEMMA BeginHeld ==
    ASSUME Inv, Held, NEW c \in Calls, BeginScan(c) \/ BeginMaterialise(c) \/ BeginIngest(c)
    PROVE  Held'
<1>0. version' = version
  BY DEF BeginScan, BeginMaterialise, BeginIngest
<1>1. ASSUME NEW r \in Repos, NEW job, NEW pc \in {"page", "metadata"}, Begin(c, job, r, pc)
      PROVE  Held'
  <2> DEFINE k == [NoCall EXCEPT !.pc = pc, !.whole = (job = "materialise"), !.repo = r,
                                 !.known = root, !.goal = version[r]]
  <2>1. Set(c, k)
    BY <1>1 DEF Begin
  <2>2. k.pc = pc /\ k.repo = r /\ k.goal = version[r] /\ k.page = 1 /\ k.batch = NoPulls
    BY DEF NoCall
  <2>3. /\ version[r] \in Seq(1..MaxVersion) /\ MaxVersion \in Nat
    BY SettingTypes DEF Inv, Provided, Pulls
  <2>4. /\ Len(version[r]) \in Nat /\ Len(version[r]) <= Len(version[r])
        /\ \A p \in 1..Len(version[r]) : version[r][p] <= version[r][p]
    BY <2>3
  <2> HIDE DEF k
  <2>5. Holds(k, version)
    BY <2>2, <2>4, NoPullsTypes DEF Holds
  <2> QED BY <1>0, <2>1, <2>5, HeldStep
<1>2. ASSUME NEW r \in Repos, NEW p \in 1..Len(version[r]),
             Set(c, [NoCall EXCEPT !.pc = "fetch", !.repo = r, !.todo = {p}])
      PROVE  Held'
  <2> DEFINE k == [NoCall EXCEPT !.pc = "fetch", !.repo = r, !.todo = {p}]
  <2>1. Set(c, k)
    BY <1>2
  <2>2. k.pc = "fetch" /\ k.goal = <<>> /\ k.repo = r
    BY DEF NoCall
  <2> HIDE DEF k
  <2>3. Holds(k, version)
    BY <2>2, NoGoal
  <2> QED BY <1>0, <2>1, <2>3, HeldStep
<1> QED BY <1>1, <1>2 DEF BeginScan, BeginMaterialise, BeginIngest

\* A call that goes on with the pull requests S of its repository.
LEMMA ListedHeld ==
    ASSUME Inv, NEW k \in Progress, Holds(k, version), NEW S, S \subseteq 1..Len(version[k.repo])
    PROVE  /\ Listed(k.repo, S) \in Batches /\ DOMAIN Listed(k.repo, S) = S
           /\ \A p \in 1..Len(k.goal) : p \in S => k.goal[p] <= Listed(k.repo, S)[p]
<1>1. k.repo \in Repos
  BY DEF Progress
<1>2. Listed(k.repo, S) \in Batches /\ DOMAIN Listed(k.repo, S) = S
  BY <1>1, ListedTypes DEF Inv
<1>3. \A p \in S : Listed(k.repo, S)[p] = version[k.repo][p]
  BY DEF Listed
<1> QED BY <1>2, <1>3 DEF Holds

LEMMA FetchPageHeld == ASSUME Inv, Held, NEW c \in Calls, FetchPage(c) PROVE Held'
<1> DEFINE r == call[c].repo
           page == Page(r, call[c].page, "ascending")
           k == [call[c] EXCEPT !.pc = "merge", !.batch = Listed(r, page)]
<1>1. version' = version /\ (UNCHANGED call \/ Set(c, NoCall) \/ Set(c, k))
  BY DEF FetchPage
<1>2. page \subseteq 1..Len(version[r])
  BY CallTypes, PageTypes DEF Inv
<1>3. /\ \A p \in 1..Len(version[r]) :
            (Offset(call[c].page) < p /\ p <= Offset(call[c].page + 1)) => p \in page
      /\ Cardinality(page) < PageSize => Len(version[r]) <= Offset(call[c].page + 1)
  BY CallTypes, Paging DEF Inv
<1> HIDE DEF page
<1>4. /\ DOMAIN Listed(r, page) = page
      /\ \A p \in 1..Len(call[c].goal) : p \in page => call[c].goal[p] <= Listed(r, page)[p]
  BY <1>2, CallTypes, ListedHeld DEF Held
<1>5. /\ k.pc = "merge" /\ k.repo = r /\ k.page = call[c].page
      /\ k.goal = call[c].goal /\ k.batch = Listed(r, page)
  BY CallTypes DEF Progress
<1>6. /\ Len(call[c].goal) <= Len(version[r])
      /\ \A p \in 1..Len(call[c].goal) : call[c].goal[p] <= version[r][p]
  BY DEF Held, Holds
<1>7. /\ Len(version[r]) \in Nat /\ Len(call[c].goal) \in Nat
      /\ Offset(call[c].page) \in Nat /\ Offset(call[c].page + 1) \in Nat
      /\ 1..Len(call[c].goal) \subseteq 1..Len(version[r])
  BY <1>6, CallTypes, GoalIsOpen
<1> HIDE DEF k
<1>8. \A p \in 1..Len(k.goal) : p <= Offset(k.page + 1) => p <= Offset(k.page) \/ p \in DOMAIN k.batch
  BY <1>3, <1>4, <1>5, <1>7
<1>9. Cardinality(DOMAIN k.batch) < PageSize => Len(k.goal) <= Offset(k.page + 1)
  BY <1>3, <1>4, <1>5, <1>6, <1>7
<1>10. Holds(k, version)
  BY <1>4, <1>5, <1>6, <1>8, <1>9 DEF Holds
<1> QED BY <1>1, <1>10, HeldStep, QuietHeld, IdleHolds

LEMMA MergePageHeld == ASSUME Inv, Held, NEW c \in Calls, MergePage(c) PROVE Held'
<1> DEFINE next == [call[c] EXCEPT !.pc = "page", !.page = @ + 1, !.batch = NoPulls]
           again == [call[c] EXCEPT !.pc = "page", !.batch = NoPulls]
<1>1. version' = version /\ (Set(c, NoCall) \/ Set(c, next) \/ Set(c, again))
  BY DEF MergePage
<1>2. \A k \in {next, again} : /\ k.pc = "page" /\ k.repo = call[c].repo
                               /\ k.goal = call[c].goal /\ k.batch = NoPulls
  BY CallTypes DEF Progress
<1> HIDE DEF next, again
<1>3. \A k \in {next, again} : Holds(k, version)
  BY <1>2, NoPullsTypes DEF Held, Holds
<1> QED BY <1>1, <1>3, HeldStep, IdleHolds

\* What the pages of the newest hold: the list has been read from its end down
\* to the numbers before the page.
LEMMA PagingBack ==
    ASSUME Provided, NEW r \in Repos, NEW k \in Nat \ {0}
    PROVE  LET page == Page(r, k, "descending")
               n == Len(version[r])
           IN  /\ \A p \in 1..n : (p + Offset(k) <= n /\ n < p + Offset(k + 1)) => p \in page
               /\ Cardinality(page) < PageSize => n <= Offset(k + 1)
<1> DEFINE page == Page(r, k, "descending")
           n == Len(version[r])
           place == {i \in 1..n : Offset(k) < i /\ i <= Offset(k + 1)}
<1>0. n \in Nat /\ PageSize \in Nat \ {0} /\ Offset(k) \in Nat /\ Offset(k + 1) = Offset(k) + PageSize
  BY SettingTypes, Offsets
<1>1. place = {i \in 1..n : (k - 1) * PageSize < i /\ i <= k * PageSize}
  BY Offsets DEF Offset
<1>2. page = {n + 1 - i : i \in place}
  BY <1>1 DEF Page
<1> HIDE DEF page, n
<1>3. ASSUME NEW p \in 1..n, p + Offset(k) <= n, n < p + Offset(k + 1) PROVE p \in page
  <2> DEFINE i == n + 1 - p
  <2>1. i \in place /\ n + 1 - i = p
    BY <1>0, <1>3
  <2> HIDE DEF place, i
  <2> QED BY <1>2, <2>1
<1>4. ASSUME Cardinality(page) < PageSize PROVE n <= Offset(k + 1)
  <2> SUFFICES ASSUME Offset(k + 1) < n PROVE FALSE
    BY <1>0
  <2> DEFINE a == n + 1 - Offset(k + 1)
             b == n - Offset(k)
  <2>1. a \in Int /\ b \in Int /\ b - a + 1 = PageSize /\ a <= b
    BY <1>0
  <2>2. page = a..b
    <3>1. ASSUME NEW p \in page PROVE p \in a..b
      <4>1. PICK i \in place : p = n + 1 - i
        BY <1>2
      <4> QED BY <1>0, <4>1
    <3>2. ASSUME NEW p \in a..b PROVE p \in page
      <4>1. p \in 1..n /\ p + Offset(k) <= n /\ n < p + Offset(k + 1)
        BY <1>0, <3>2
      <4> QED BY <1>3, <4>1
    <3> QED BY <3>1, <3>2
  <2> HIDE DEF a, b
  <2>3. Cardinality(a..b) = PageSize
    <3>1. Cardinality(a..b) = IF a > b THEN 0 ELSE b - a + 1
      BY <2>1, FS_Interval
    <3>2. ~ (a > b)
      BY <2>1
    <3> QED BY <2>1, <3>1, <3>2
  <2> QED BY <1>0, <1>4, <2>2, <2>3
<1> QED BY <1>3, <1>4 DEF page, n

LEMMA GoHeld ==
    ASSUME Inv, Held, NEW c \in Calls, NEW pc, Go(c, pc), version' = version,
           pc \notin {"merge", "outright", "metadata"},
           pc \in {"root", "list"} => call[c].page = 1
    PROVE  Held'
<1> DEFINE k == [call[c] EXCEPT !.pc = pc]
<1>1. Set(c, k)
  BY DEF Go
<1>2. /\ k.pc = pc /\ k.repo = call[c].repo /\ k.goal = call[c].goal /\ k.page = call[c].page
      /\ k.batch = call[c].batch
  BY CallTypes DEF Progress
<1> HIDE DEF k
<1>3. /\ Len(k.goal) <= Len(version[k.repo])
      /\ \A p \in 1..Len(k.goal) : k.goal[p] <= version[k.repo][p]
      /\ \A p \in 1..Len(k.goal) : p \in DOMAIN k.batch => k.goal[p] <= k.batch[p]
  BY <1>2 DEF Held, Holds
<1>4. k.pc = "list" => \A p \in 1..Len(k.goal) :
                           Len(version[k.repo]) < p + Offset(k.page) => p \in DOMAIN k.batch
  <2>1. Len(k.goal) \in Nat /\ Len(version[k.repo]) \in Nat
    BY <1>2, CallTypes, GoalTypes, SettingTypes DEF Inv
  <2> SUFFICES ASSUME pc = "list", NEW p \in 1..Len(k.goal), Len(version[k.repo]) < p + Offset(k.page)
               PROVE  FALSE
    BY <1>2
  <2>2. Offset(k.page) = 0
    BY <1>2, Offsets
  <2> QED BY <1>3, <2>1, <2>2
<1>5. Holds(k, version)
  BY <1>2, <1>3, <1>4 DEF Holds
<1> QED BY <1>1, <1>5, HeldStep

LEMMA FetchPullHeld == ASSUME Inv, Held, NEW c \in Calls, FetchPull(c) PROVE Held'
<1> DEFINE p == Max(call[c].todo)
           r == call[c].repo
           taken == [call[c] EXCEPT !.pc = "pull row", !.todo = @ \ {p}, !.batch = Listed(r, {p})]
           skipped == [call[c] EXCEPT !.todo = @ \ {p}]
<1>1. /\ version' = version /\ (Set(c, taken) \/ Set(c, skipped) \/ Set(c, NoCall))
      /\ call[c].pc = "fetch" /\ call[c].todo # {}
  BY DEF FetchPull, At
<1>2. {p} \subseteq 1..Len(version[r])
  <2>1. call[c].todo \subseteq 1..Len(version[r]) /\ Len(version[r]) \in Nat
    BY CallTypes, SettingTypes DEF Inv, Fits
  <2> QED BY <1>1, <2>1, Newest
<1> HIDE DEF p
<1>3. /\ DOMAIN Listed(r, {p}) = {p}
      /\ \A q \in 1..Len(call[c].goal) : q \in {p} => call[c].goal[q] <= Listed(r, {p})[q]
  BY <1>2, CallTypes, ListedHeld DEF Held
<1>4. /\ taken.pc = "pull row" /\ taken.repo = r /\ taken.goal = call[c].goal
      /\ taken.batch = Listed(r, {p})
      /\ skipped.pc = call[c].pc /\ skipped.repo = r /\ skipped.goal = call[c].goal
      /\ skipped.batch = call[c].batch
  BY CallTypes DEF Progress
<1> HIDE DEF taken, skipped
<1>5. Holds(call[c], version)
  BY DEF Held
<1>6. Holds(taken, version) /\ Holds(skipped, version)
  BY <1>1, <1>3, <1>4, <1>5 DEF Holds
<1> QED BY <1>1, <1>6, HeldStep, IdleHolds

LEMMA IngestHeld ==
    ASSUME Inv, Held, NEW c \in Calls, WritePullRow(c) \/ WriteRepoRow(c) \/ Finish(c)
    PROVE  Held'
<1>1. version' = version /\ (Go(c, "repo row") \/ Go(c, "fetch") \/ Set(c, NoCall))
  BY DEF WritePullRow, WriteRepoRow, Finish
<1> QED BY <1>1, GoHeld, HeldStep, IdleHolds

LEMMA RequestHeld ==
    ASSUME Inv, Held, NEW c \in Calls, RootUnread(c) \/ FetchMetadata(c) \/ WriteRoot(c)
    PROVE  Held'
<1> DEFINE unread == [call[c] EXCEPT !.known = {}]
<1>1. /\ version' = version /\ call[c].pc \in {"metadata", "root"}
      /\ Set(c, unread) \/ Go(c, "root") \/ Go(c, "list") \/ Set(c, NoCall)
  BY DEF RootUnread, FetchMetadata, WriteRoot, At
<1>2. /\ unread.pc = call[c].pc /\ unread.repo = call[c].repo /\ unread.goal = call[c].goal
      /\ unread.page = call[c].page /\ unread.batch = call[c].batch
  BY CallTypes DEF Progress
<1> HIDE DEF unread
<1>3. Holds(call[c], version)
  BY DEF Held
<1>4. Holds(unread, version) /\ call[c].page = 1
  BY <1>1, <1>2, <1>3 DEF Holds
<1> QED BY <1>1, <1>4, GoHeld, HeldStep, IdleHolds

LEMMA ListPageHeld == ASSUME Inv, Held, NEW c \in Calls, ListPage(c) PROVE Held'
<1> DEFINE r == call[c].repo
           n == Len(version[r])
           page == Page(r, call[c].page, "descending")
           batch == [p \in DOMAIN call[c].batch \cup page |->
                        IF p \in page THEN version[r][p] ELSE call[c].batch[p]]
           k == [call[c] EXCEPT !.pc = IF Cardinality(page) < PageSize THEN "outright" ELSE "list",
                                !.page = @ + 1, !.batch = batch]
<1>1. version' = version /\ (Set(c, k) \/ Set(c, NoCall)) /\ call[c].pc = "list"
  BY DEF ListPage, At
<1>2. /\ \A p \in 1..n : (p + Offset(call[c].page) <= n /\ n < p + Offset(call[c].page + 1)) => p \in page
      /\ Cardinality(page) < PageSize => n <= Offset(call[c].page + 1)
  BY CallTypes, PagingBack DEF Inv
<1>3. /\ Len(call[c].goal) <= n
      /\ \A p \in 1..Len(call[c].goal) : call[c].goal[p] <= version[r][p]
      /\ \A p \in 1..Len(call[c].goal) : p \in DOMAIN call[c].batch => call[c].goal[p] <= call[c].batch[p]
      /\ \A p \in 1..Len(call[c].goal) : n < p + Offset(call[c].page) => p \in DOMAIN call[c].batch
  BY <1>1 DEF Held, Holds
<1>4. /\ n \in Nat /\ Len(call[c].goal) \in Nat
      /\ Offset(call[c].page) \in Nat /\ Offset(call[c].page + 1) \in Nat
      /\ 1..Len(call[c].goal) \subseteq 1..n
  BY <1>3, CallTypes, GoalIsOpen
<1> HIDE DEF page
<1>5. DOMAIN batch = DOMAIN call[c].batch \cup page
  OBVIOUS
<1>6. \A p \in 1..Len(call[c].goal) : p \in DOMAIN batch => call[c].goal[p] <= batch[p]
  BY <1>3
<1> HIDE DEF batch, n
<1>7. \A p \in 1..Len(call[c].goal) : n < p + Offset(call[c].page + 1) => p \in DOMAIN batch
  BY <1>2, <1>3, <1>4, <1>5
<1>8. /\ k.pc = IF Cardinality(page) < PageSize THEN "outright" ELSE "list"
      /\ k.repo = r /\ k.goal = call[c].goal /\ k.page = call[c].page + 1 /\ k.batch = batch
  BY CallTypes DEF Progress
<1> HIDE DEF k
<1>9. k.pc = "outright" => 1..Len(k.goal) \subseteq DOMAIN k.batch
  BY <1>2, <1>4, <1>7, <1>8
<1>10. k.pc \in {"list", "outright"}
  BY <1>8
<1>11. Holds(k, version)
  BY <1>3, <1>6, <1>7, <1>8, <1>9, <1>10 DEF Holds, n
<1> QED BY <1>1, <1>11, HeldStep, IdleHolds

LEMMA WriteOutrightHeld == ASSUME Inv, Held, NEW c \in Calls, WriteOutright(c) PROVE Held'
<1> DEFINE k == [call[c] EXCEPT !.pc = "fetch", !.todo = DOMAIN call[c].batch, !.batch = NoPulls]
<1>1. version' = version /\ Set(c, k)
  BY DEF WriteOutright
<1>2. k.pc = "fetch" /\ k.repo = call[c].repo /\ k.goal = call[c].goal /\ k.batch = NoPulls
  BY CallTypes DEF Progress
<1> HIDE DEF k
<1>3. Holds(k, version)
  BY <1>2, NoPullsTypes DEF Held, Holds
<1> QED BY <1>1, <1>3, HeldStep

\* Pull requests are opened and change: none leaves, none turns older.
LEMMA ProviderHeld == ASSUME Inv, Inv', Held, NEW r \in Repos, Open(r) \/ Edit(r) PROVE Held'
<1>0. call' = call
  BY DEF Open, Edit
<1>1. ASSUME NEW q \in Repos
      PROVE  /\ Len(version[q]) \in Nat /\ Len(version'[q]) \in Nat
             /\ Len(version[q]) <= Len(version'[q])
             /\ \A p \in 1..Len(version[q]) :
                   /\ version[q][p] \in Nat /\ version'[q][p] \in Nat
                   /\ version[q][p] <= version'[q][p]
  <2> DEFINE v == version[q]
             w == version'[q]
  <2>1. v \in Seq(1..MaxVersion) /\ w \in Seq(1..MaxVersion) /\ version = [s \in Repos |-> version[s]]
        /\ MaxVersion \in Nat
    BY SettingTypes DEF Inv, Provided, Pulls
  <2>2. \/ w = v \/ w = Append(v, 1)
        \/ \E p \in 1..Len(v) : w = [v EXCEPT ![p] = @ + 1]
    BY <2>1 DEF Open, Edit
  <2> HIDE DEF v, w
  <2>3. /\ Len(v) \in Nat /\ Len(w) \in Nat
        /\ \A p \in 1..Len(v) : v[p] \in 1..MaxVersion
    BY <2>1
  <2>4. Len(v) <= Len(w) /\ \A p \in 1..Len(v) : v[p] <= w[p]
    <3>1. CASE w = v
      BY <2>1, <2>3, <3>1
    <3>2. CASE w = Append(v, 1)
      BY <2>1, <2>3, <3>2
    <3>3. ASSUME NEW p \in 1..Len(v), w = [v EXCEPT ![p] = @ + 1]
          PROVE  Len(v) <= Len(w) /\ \A s \in 1..Len(v) : v[s] <= w[s]
      BY <2>1, <2>3, <3>3
    <3> QED BY <2>2, <3>1, <3>2, <3>3
  <2>5. \A p \in 1..Len(v) : v[p] \in Nat /\ w[p] \in Nat
    <3>1. \A p \in 1..Len(v) : p \in 1..Len(w)
      BY <2>3, <2>4
    <3> QED BY <2>1, <3>1
  <2> QED BY <2>3, <2>4, <2>5 DEF v, w
<1>2. ASSUME NEW k \in Progress, Holds(k, version) PROVE Holds(k, version')
  <2>1. Len(k.goal) <= Len(version[k.repo])
    BY <1>2 DEF Holds
  <2>2. /\ k.repo \in Repos /\ 1..Len(k.goal) \subseteq 1..Len(version[k.repo])
        /\ Len(k.goal) \in Nat /\ Offset(k.page) \in Nat
        /\ \A p \in 1..Len(k.goal) : k.goal[p] \in Nat
    BY <2>1, GoalIsOpen
  <2>3. Len(k.goal) <= Len(version'[k.repo])
    BY <1>1, <2>1, <2>2
  <2>4. \A p \in 1..Len(k.goal) : k.goal[p] <= version'[k.repo][p]
    <3> SUFFICES ASSUME NEW p \in 1..Len(k.goal) PROVE k.goal[p] <= version'[k.repo][p]
      OBVIOUS
    <3>1. k.goal[p] <= version[k.repo][p] /\ k.goal[p] \in Nat /\ p \in 1..Len(version[k.repo])
      BY <1>2, <2>2 DEF Holds
    <3>2. /\ version[k.repo][p] \in Nat /\ version'[k.repo][p] \in Nat
          /\ version[k.repo][p] <= version'[k.repo][p]
      BY <1>1, <2>2, <3>1
    <3> QED BY <3>1, <3>2
  <2>5. \A p \in 1..Len(k.goal) :
            Len(version'[k.repo]) < p + Offset(k.page) => Len(version[k.repo]) < p + Offset(k.page)
    BY <1>1, <2>2
  <2> QED BY <1>2, <2>3, <2>4, <2>5 DEF Holds
<1>3. \A c \in Calls : Holds(call'[c], version')
  BY <1>0, <1>2, CallTypes DEF Held
<1>4. \A c \in Calls : Holds(call[c], version)' = Holds(call'[c], version')
  BY DEF Holds
<1> QED BY <1>3, <1>4 DEF Held

LEMMA NextHeld == Inv /\ Inv' /\ Held /\ [Next]_vars => Held'
<1> SUFFICES ASSUME Inv, Inv', Held, [Next]_vars PROVE Held'
  OBVIOUS
<1>1. CASE UNCHANGED vars
  BY <1>1, QuietHeld DEF vars
<1>2. ASSUME NEW c \in Calls, Step(c) PROVE Held'
  BY <1>2, FetchPageHeld, MergePageHeld, FetchPullHeld, IngestHeld, RequestHeld, ListPageHeld,
     WriteOutrightHeld DEF Step
<1> QED BY <1>1, <1>2, BeginHeld, RequestHeld, ProviderHeld DEF Next

LEMMA HeldInvariant == Spec => []Held
<1>1. Init => Inv
  BY InitInv
<1>2. Init /\ Inv => Held
  BY IdleHolds DEF Init, Held
<1> QED BY <1>1, <1>2, NextHeld, Invariant, PTL DEF Spec

\* What the file shows of the goal, for calls one after another: the pages that
\* a scan has stored, and all of it once a materialisation in which nothing
\* failed has written its list.
Shows(k, f, n) ==
    /\ k.pc \in {"page", "merge"} =>
          \A p \in 1..Len(k.goal) : p <= Offset(k.page) => k.goal[p] <= f[k.repo][p]
    /\ (k.whole /\ n = 0 /\ k.pc \in {"fetch", "pull row", "repo row"}) =>
          \A p \in 1..Len(k.goal) : k.goal[p] <= f[k.repo][p]

Shown == Alone => \A c \in Calls : Shows(call[c], rows, faults)

LEMMA ShownStep ==
    ASSUME Inv, Roots, Shown, NEW c \in Calls, NEW k, Set(c, k), setting' = setting,
           setting.callers[c] # {} \/ call[c].pc # "idle",
           Shows(call[c], rows, faults) => Shows(k, rows', faults')
    PROVE  Shown'
<1>1. call'[c] = k /\ \A d \in Calls \ {c} : call'[d] = call[d]
  BY DEF Set, Inv
<1>2. setting.callers[c] # {}
  BY DEF Roots
<1>3. Alone' = Alone
  BY DEF Alone
<1>4. ASSUME Alone, NEW d \in Calls PROVE Shows(call'[d], rows', faults')
  <2>1. CASE d = c
    BY <1>1, <1>4, <2>1 DEF Shown
  <2>2. CASE d # c
    <3>1. call'[d].pc = "idle"
      BY <1>1, <1>2, <1>4, <2>2, OneCaller DEF Roots
    <3> QED BY <3>1 DEF Shows
  <2> QED BY <2>1, <2>2
<1>5. \A d \in Calls : Shows(call[d], rows, faults)' = Shows(call'[d], rows', faults')
  BY DEF Shows
<1> QED BY <1>3, <1>4, <1>5 DEF Shown

LEMMA QuietShown == ASSUME Shown, UNCHANGED <<setting, rows, call, faults>> PROVE Shown'
BY DEF Shown, Alone, Shows

\* Calls elsewhere than in a scan or the ingests of a materialisation.
LEMMA NotYet ==
    ASSUME NEW k, NEW f, NEW n, k.pc \notin {"page", "merge", "fetch", "pull row", "repo row"}
    PROVE  Shows(k, f, n)
BY DEF Shows

LEMMA IdleShows == ASSUME NEW f, NEW n PROVE Shows(NoCall, f, n)
BY IdleTypes, NotYet

LEMMA Failures == ASSUME Inv, Works \/ Fails, faults' = 0 PROVE faults = 0 /\ Works
BY SettingTypes DEF Inv, Files, Works, Fails

\* The rows that are written show the goal.
LEMMA UpsertShows ==
    ASSUME Inv, Held, NEW c \in Calls, Upsert(call[c].repo, call[c].batch), NEW p \in 1..Len(call[c].goal),
           call[c].goal[p] <= rows[call[c].repo][p] \/ p \in DOMAIN call[c].batch
    PROVE  call[c].goal[p] <= rows'[call[c].repo][p]
<1> DEFINE r == call[c].repo
           b == call[c].batch
           new == [q \in Numbers(r) |-> IF q \in DOMAIN b THEN b[q] ELSE rows[r][q]]
<1>1. rows' = [rows EXCEPT ![r] = new] /\ r \in Repos /\ DOMAIN rows = Repos
  BY CallTypes DEF Upsert, Inv, Files
<1>2. rows'[r] = new
  BY <1>1
<1>3. p \in Numbers(r)
  BY CallTypes, GoalIsOpen DEF Held, Holds
<1>4. p \in DOMAIN b => call[c].goal[p] <= b[p]
  BY DEF Held, Holds
<1> QED BY <1>2, <1>3, <1>4

LEMMA BeginShown ==
    ASSUME Inv, Roots, Shown, NEW c \in Calls, BeginScan(c) \/ BeginMaterialise(c) \/ BeginIngest(c)
    PROVE  Shown'
<1>0. setting' = setting
  BY DEF BeginScan, BeginMaterialise, BeginIngest
<1>1. ASSUME NEW r \in Repos, NEW job, NEW pc \in {"page", "metadata"}, Begin(c, job, r, pc)
      PROVE  Shown'
  <2> DEFINE k == [NoCall EXCEPT !.pc = pc, !.whole = (job = "materialise"), !.repo = r,
                                 !.known = root, !.goal = version[r]]
  <2>1. Set(c, k) /\ setting.callers[c] # {}
    BY <1>1 DEF Begin
  <2>2. k.pc = pc /\ k.goal = version[r] /\ k.page = 1
    BY DEF NoCall
  <2>3. Len(version[r]) \in Nat /\ Offset(1) = 0
    BY SettingTypes, Offsets DEF Inv
  <2> HIDE DEF k
  <2>4. Shows(k, rows', faults')
    <3>1. \A p \in 1..Len(k.goal) : ~ (p <= Offset(k.page))
      BY <2>2, <2>3
    <3>2. k.pc \notin {"fetch", "pull row", "repo row"}
      BY <2>2
    <3> QED BY <3>1, <3>2 DEF Shows
  <2> QED BY <1>0, <2>1, <2>4, ShownStep
<1>2. ASSUME NEW r \in Repos, NEW p \in 1..Len(version[r]), "ingest" \in setting.callers[c],
             Set(c, [NoCall EXCEPT !.pc = "fetch", !.repo = r, !.todo = {p}])
      PROVE  Shown'
  <2> DEFINE k == [NoCall EXCEPT !.pc = "fetch", !.repo = r, !.todo = {p}]
  <2>1. Set(c, k) /\ setting.callers[c] # {}
    BY <1>2
  <2>2. k.pc = "fetch" /\ ~k.whole
    BY DEF NoCall
  <2> HIDE DEF k
  <2>3. Shows(k, rows', faults')
    BY <2>2 DEF Shows
  <2> QED BY <1>0, <2>1, <2>3, ShownStep
<1> QED BY <1>1, <1>2 DEF BeginScan, BeginMaterialise, BeginIngest

LEMMA FetchPageShown == ASSUME Inv, Roots, Shown, NEW c \in Calls, FetchPage(c) PROVE Shown'
<1> DEFINE k == [call[c] EXCEPT !.pc = "merge",
                     !.batch = Listed(call[c].repo, Page(call[c].repo, call[c].page, "ascending"))]
<1>1. /\ UNCHANGED <<setting, rows>> /\ call[c].pc = "page"
      /\ UNCHANGED call \/ Set(c, NoCall) \/ Set(c, k)
  BY DEF FetchPage, At
<1>2. k.pc = "merge" /\ k.repo = call[c].repo /\ k.goal = call[c].goal /\ k.page = call[c].page
  BY CallTypes DEF Progress
<1> HIDE DEF k
<1>3. Shows(call[c], rows, faults) => Shows(k, rows', faults')
  BY <1>1, <1>2 DEF Shows
<1>4. Shows(call[c], rows, faults) => Shows(call[c], rows', faults')
  BY <1>1 DEF Shows
<1>5. CASE UNCHANGED call
  <2>1. Set(c, call[c])
    BY <1>5 DEF Set, Inv
  <2> QED BY <1>1, <1>4, <2>1, ShownStep
<1> QED BY <1>1, <1>3, <1>5, ShownStep, IdleShows

\* A page that is stored shows the goal up to its end.
LEMMA PageShows ==
    ASSUME Inv, Held, NEW c \in Calls, call[c].pc = "merge", Shows(call[c], rows, faults),
           Upsert(call[c].repo, call[c].batch)
    PROVE  \A p \in 1..Len(call[c].goal) :
               p <= Offset(call[c].page + 1) => call[c].goal[p] <= rows'[call[c].repo][p]
<1> SUFFICES ASSUME NEW p \in 1..Len(call[c].goal), p <= Offset(call[c].page + 1)
             PROVE  call[c].goal[p] <= rows'[call[c].repo][p]
  OBVIOUS
<1>1. p <= Offset(call[c].page) \/ p \in DOMAIN call[c].batch
  BY DEF Held, Holds
<1>2. p <= Offset(call[c].page) => call[c].goal[p] <= rows[call[c].repo][p]
  BY DEF Shows
<1> QED BY <1>1, <1>2, UpsertShows

LEMMA MergePageShown == ASSUME Inv, Roots, Held, Shown, NEW c \in Calls, MergePage(c) PROVE Shown'
<1> DEFINE next == [call[c] EXCEPT !.pc = "page", !.page = @ + 1, !.batch = NoPulls]
           again == [call[c] EXCEPT !.pc = "page", !.batch = NoPulls]
<1>1. setting' = setting /\ call[c].pc = "merge"
  BY DEF MergePage, At
<1>2. \/ Set(c, NoCall)
      \/ Upsert(call[c].repo, call[c].batch) /\ Set(c, next)
      \/ UNCHANGED rows /\ Set(c, again)
  BY DEF MergePage
<1>3. /\ next.pc = "page" /\ next.repo = call[c].repo
      /\ next.goal = call[c].goal /\ next.page = call[c].page + 1
      /\ again.pc = "page" /\ again.repo = call[c].repo
      /\ again.goal = call[c].goal /\ again.page = call[c].page
  BY CallTypes DEF Progress
<1> HIDE DEF next, again
<1>4. CASE Upsert(call[c].repo, call[c].batch) /\ Set(c, next)
  <2>1. Shows(call[c], rows, faults) => Shows(next, rows', faults')
    BY <1>1, <1>3, <1>4, PageShows DEF Shows
  <2> QED BY <1>1, <1>4, <2>1, ShownStep
<1>5. CASE UNCHANGED rows /\ Set(c, again)
  <2>1. Shows(call[c], rows, faults) => Shows(again, rows', faults')
    BY <1>1, <1>3, <1>5 DEF Shows
  <2> QED BY <1>1, <1>5, <2>1, ShownStep
<1> QED BY <1>1, <1>2, <1>4, <1>5, ShownStep, IdleShows

LEMMA IngestShown ==
    ASSUME Inv, Roots, Held, Shown, NEW c \in Calls,
           FetchPull(c) \/ WritePullRow(c) \/ WriteRepoRow(c) \/ Finish(c)
    PROVE  Shown'
<1> DEFINE p == Max(call[c].todo)
           taken == [call[c] EXCEPT !.pc = "pull row", !.todo = @ \ {p},
                                    !.batch = Listed(call[c].repo, {p})]
           skipped == [call[c] EXCEPT !.todo = @ \ {p}]
           written == [call[c] EXCEPT !.pc = "repo row"]
           ingested == [call[c] EXCEPT !.pc = "fetch"]
<1>1. /\ setting' = setting /\ call[c].pc \in {"fetch", "pull row", "repo row"}
      /\ \/ Set(c, NoCall)
         \/ Set(c, skipped) /\ call[c].pc = "fetch"
         \/ Set(c, taken) \/ Set(c, written) \/ Set(c, ingested)
  BY DEF FetchPull, WritePullRow, WriteRepoRow, Finish, At, Go
<1>2. faults' = 0 => faults = 0 /\ (UNCHANGED rows \/ Upsert(call[c].repo, call[c].batch))
  BY Failures DEF FetchPull, WritePullRow, WriteRepoRow, Finish
<1>3. ASSUME Shows(call[c], rows, faults), call[c].whole, faults' = 0, NEW q \in 1..Len(call[c].goal)
      PROVE  call[c].goal[q] <= rows'[call[c].repo][q]
  <2>1. call[c].goal[q] <= rows[call[c].repo][q]
    BY <1>1, <1>2, <1>3 DEF Shows
  <2> QED BY <1>2, <1>3, <2>1, UpsertShows
<1> HIDE DEF p
<1>4. \A k \in {taken, skipped, written, ingested} :
          k.whole = call[c].whole /\ k.repo = call[c].repo /\ k.goal = call[c].goal
  BY CallTypes DEF Progress
<1>5. taken.pc = "pull row" /\ skipped.pc = call[c].pc /\ written.pc = "repo row" /\ ingested.pc = "fetch"
  BY CallTypes DEF Progress
<1> HIDE DEF taken, skipped, written, ingested
<1>6. ASSUME NEW k \in {taken, skipped, written, ingested}, Set(c, k),
             k.pc \in {"fetch", "pull row", "repo row"}
      PROVE  Shown'
  <2>1. k.whole = call[c].whole /\ k.repo = call[c].repo /\ k.goal = call[c].goal
    BY <1>4, <1>6
  <2>2. Shows(call[c], rows, faults) => Shows(k, rows', faults')
    BY <1>6, <1>3, <2>1 DEF Shows
  <2> QED BY <1>1, <1>6, <2>2, ShownStep
<1> QED BY <1>1, <1>5, <1>6, ShownStep, IdleShows

LEMMA MaterialiseShown ==
    ASSUME Inv, Roots, Shown, NEW c \in Calls,
           RootUnread(c) \/ FetchMetadata(c) \/ WriteRoot(c) \/ ListPage(c)
    PROVE  Shown'
<1>1. setting' = setting /\ call[c].pc \in {"metadata", "root", "list"}
  BY DEF RootUnread, FetchMetadata, WriteRoot, ListPage, At
<1>2. ASSUME NEW k, Set(c, k), k.pc \notin {"page", "merge", "fetch", "pull row", "repo row"}
      PROVE  Shown'
  <2>1. Shows(k, rows', faults')
    BY <1>2, NotYet
  <2> QED BY <1>1, <1>2, <2>1, ShownStep
<1>3. ASSUME NEW pc, Go(c, pc), pc \notin {"page", "merge", "fetch", "pull row", "repo row"}
      PROVE  Shown'
  <2> DEFINE k == [call[c] EXCEPT !.pc = pc]
  <2>1. Set(c, k) /\ k.pc = pc
    BY <1>3, CallTypes DEF Go, Progress
  <2> HIDE DEF k
  <2> QED BY <1>2, <1>3, <2>1
<1>4. CASE RootUnread(c)
  <2> DEFINE k == [call[c] EXCEPT !.known = {}]
  <2>1. Set(c, k) /\ k.pc = call[c].pc
    BY <1>4, CallTypes DEF RootUnread, Progress
  <2> HIDE DEF k
  <2> QED BY <1>1, <1>2, <2>1
<1>5. CASE FetchMetadata(c) \/ WriteRoot(c)
  <2>1. Set(c, NoCall) \/ Go(c, "list") \/ Go(c, "root")
    BY <1>5 DEF FetchMetadata, WriteRoot
  <2> QED BY <1>2, <1>3, <2>1, IdleTypes
<1>6. CASE ListPage(c)
  <2> DEFINE page == Page(call[c].repo, call[c].page, "descending")
             k == [call[c] EXCEPT
                      !.pc = IF Cardinality(page) < PageSize THEN "outright" ELSE "list",
                      !.page = @ + 1,
                      !.batch = [p \in DOMAIN @ \cup page |->
                                    IF p \in page THEN version[call[c].repo][p] ELSE @[p]]]
  <2>1. Set(c, k) \/ Set(c, NoCall)
    BY <1>6 DEF ListPage
  <2> HIDE DEF page
  <2>2. k.pc \in {"outright", "list"}
    BY CallTypes DEF Progress
  <2> HIDE DEF k
  <2> QED BY <1>2, <2>1, <2>2, IdleTypes
<1> QED BY <1>4, <1>5, <1>6

\* The list as it is written shows the goal.
LEMMA WriteOutrightShown == ASSUME Inv, Roots, Held, Shown, NEW c \in Calls, WriteOutright(c) PROVE Shown'
<1> DEFINE r == call[c].repo
           b == call[c].batch
           k == [call[c] EXCEPT !.pc = "fetch", !.todo = DOMAIN call[c].batch, !.batch = NoPulls]
           new == [p \in Numbers(r) |-> IF p \in DOMAIN b THEN b[p] ELSE 0]
<1>1. /\ setting' = setting /\ Set(c, k) /\ call[c].pc = "outright"
      /\ (Works /\ rows' = [rows EXCEPT ![r] = new]) \/ Fails
  BY DEF WriteOutright, At
<1>2. k.pc = "fetch" /\ k.repo = r /\ k.goal = call[c].goal
  BY CallTypes DEF Progress
<1> HIDE DEF k
<1>3. ASSUME faults' = 0, NEW p \in 1..Len(call[c].goal) PROVE call[c].goal[p] <= rows'[r][p]
  <2>1. rows' = [rows EXCEPT ![r] = new] /\ r \in Repos /\ DOMAIN rows = Repos
    BY <1>1, <1>3, CallTypes, Counts DEF Inv, Files
  <2>2. rows'[r] = new
    BY <2>1
  <2>3. p \in Numbers(r)
    BY CallTypes, GoalIsOpen DEF Held, Holds
  <2>4. p \in DOMAIN b /\ call[c].goal[p] <= b[p]
    BY <1>1 DEF Held, Holds
  <2> QED BY <2>2, <2>3, <2>4
<1>4. Shows(k, rows', faults')
  BY <1>2, <1>3 DEF Shows
<1> QED BY <1>1, <1>4, ShownStep

LEMMA NextShown == Inv /\ Roots /\ Held /\ Shown /\ [Next]_vars => Shown'
<1> SUFFICES ASSUME Inv, Roots, Held, Shown, [Next]_vars PROVE Shown'
  OBVIOUS
<1>1. CASE UNCHANGED vars
  BY <1>1, QuietShown DEF vars
<1>2. ASSUME NEW c \in Calls, Step(c) PROVE Shown'
  BY <1>2, FetchPageShown, MergePageShown, IngestShown, MaterialiseShown, WriteOutrightShown DEF Step
<1>3. ASSUME NEW r \in Repos, Open(r) \/ Edit(r) PROVE Shown'
  BY <1>3, QuietShown DEF Open, Edit
<1> QED BY <1>1, <1>2, <1>3, BeginShown, MaterialiseShown DEF Next

LEMMA ShownInvariant == Spec => []Shown
<1>1. Init => Shown
  BY IdleShows DEF Init, Shown
<1>2. Spec => []Roots
  BY InitRoots, NextRoots, Invariant, PTL DEF Spec
<1> QED BY <1>1, <1>2, NextShown, Invariant, HeldInvariant, PTL DEF Spec

\* A materialisation in which nothing failed ends behind its ingests.
LEMMA EndOfWhole ==
    ASSUME Inv, Next, NEW c \in Calls, call[c].pc \notin {"page", "merge"}, Ends(c), faults' = 0
    PROVE  rows' = rows /\ faults = 0 /\ call[c].pc = "fetch"
<1>1. Step(c) /\ call'[c].pc = "idle"
  BY OwnStep DEF Ends
<1>2. ASSUME NEW k, Set(c, k), k.pc # "idle" PROVE FALSE
  BY <1>1, <1>2 DEF Set, Inv
<1>3. ASSUME NEW pc, Go(c, pc), pc # "idle" PROVE FALSE
  BY <1>1, <1>3, GoesTo
<1>4. ~ (FetchPage(c) \/ MergePage(c))
  BY DEF FetchPage, MergePage, At
<1>5. ~ FetchPull(c)
  <2> SUFFICES ASSUME FetchPull(c) PROVE FALSE
    OBVIOUS
  <2> DEFINE p == Max(call[c].todo)
             taken == [call[c] EXCEPT !.pc = "pull row", !.todo = @ \ {p},
                                      !.batch = Listed(call[c].repo, {p})]
             skipped == [call[c] EXCEPT !.todo = @ \ {p}]
  <2>1. (Set(c, taken) \/ Set(c, skipped) \/ Fails) /\ call[c].pc = "fetch"
    BY DEF FetchPull, At
  <2> HIDE DEF p
  <2>2. taken.pc = "pull row" /\ skipped.pc = call[c].pc
    BY CallTypes DEF Progress
  <2> HIDE DEF taken, skipped
  <2> QED BY <1>2, <2>1, <2>2, Counts
<1>6. ~ (WritePullRow(c) \/ WriteRepoRow(c) \/ WriteRoot(c))
  BY <1>3 DEF WritePullRow, WriteRepoRow, WriteRoot
<1>7. ~ FetchMetadata(c)
  BY <1>3, Failures DEF FetchMetadata, Fails
<1>8. ~ ListPage(c)
  <2> SUFFICES ASSUME ListPage(c) PROVE FALSE
    OBVIOUS
  <2> DEFINE page == Page(call[c].repo, call[c].page, "descending")
             k == [call[c] EXCEPT
                      !.pc = IF Cardinality(page) < PageSize THEN "outright" ELSE "list",
                      !.page = @ + 1,
                      !.batch = [p \in DOMAIN @ \cup page |->
                                    IF p \in page THEN version[call[c].repo][p] ELSE @[p]]]
  <2>1. Set(c, k) \/ Fails
    BY DEF ListPage
  <2> HIDE DEF page
  <2>2. k.pc \in {"outright", "list"}
    BY CallTypes DEF Progress
  <2> HIDE DEF k
  <2> QED BY <1>2, <2>1, <2>2, Counts
<1>9. ~ WriteOutright(c)
  <2> SUFFICES ASSUME WriteOutright(c) PROVE FALSE
    OBVIOUS
  <2> DEFINE k == [call[c] EXCEPT !.pc = "fetch", !.todo = DOMAIN call[c].batch, !.batch = NoPulls]
  <2>1. Set(c, k)
    BY DEF WriteOutright
  <2>2. k.pc = "fetch"
    BY CallTypes DEF Progress
  <2> HIDE DEF k
  <2> QED BY <1>2, <2>1, <2>2
<1>10. Finish(c)
  BY <1>1, <1>4, <1>5, <1>6, <1>7, <1>8, <1>9 DEF Step
<1> QED BY <1>10 DEF Finish, At

\* What a caller by itself finds at the end of a scan, whatever failed, or of a
\* materialisation in which nothing failed: no row is older than the pull request
\* was when the call began.
THEOREM WorkIsDelivered == Spec => Delivers
<1>1. ASSUME Inv, Held, Shown, Alone, Next, NEW c \in Calls, call[c].pc \in {"page", "merge"}, Ends(c),
             NEW p \in 1..Len(call[c].goal)
      PROVE  call[c].goal[p] <= rows'[call[c].repo][p]
  <2>1. /\ Shows(call[c], rows, faults) /\ Len(call[c].goal) <= Len(version[call[c].repo])
    BY <1>1 DEF Shown, Held, Holds
  <2>2. /\ Offset(call[c].page) \in Nat /\ Offset(call[c].page + 1) \in Nat
        /\ Len(version[call[c].repo]) \in Nat /\ Len(call[c].goal) \in Nat
    BY <1>1, <2>1, CallTypes, GoalIsOpen
  <2>3. CASE rows' = rows /\ Len(version[call[c].repo]) <= Offset(call[c].page)
    <3>1. p <= Offset(call[c].page)
      BY <2>1, <2>2, <2>3
    <3> QED BY <1>1, <2>1, <2>3, <3>1 DEF Shows
  <2>4. CASE /\ call[c].pc = "merge" /\ Upsert(call[c].repo, call[c].batch)
             /\ Cardinality(DOMAIN call[c].batch) < PageSize
    <3>1. Len(call[c].goal) <= Offset(call[c].page + 1)
      BY <1>1, <2>4 DEF Held, Holds
    <3>2. p <= Offset(call[c].page + 1)
      BY <2>2, <3>1
    <3> QED BY <1>1, <2>1, <2>4, <3>2, PageShows
  <2> QED BY <1>1, <2>3, <2>4, EndOfScan
<1>2. ASSUME Inv, Shown, Alone, Next, NEW c \in Calls, call[c].pc \notin {"page", "merge"}, Ends(c),
             call[c].whole, faults' = 0, NEW p \in 1..Len(call[c].goal)
      PROVE  call[c].goal[p] <= rows'[call[c].repo][p]
  BY <1>2, EndOfWhole DEF Shown, Shows
<1>3. ASSUME Inv, Held, Shown, [Next]_vars, NEW c \in Calls,
             Alone, Ends(c), call[c].pc \in {"page", "merge"} \/ (call[c].whole /\ faults' = 0),
             NEW p \in DOMAIN call[c].goal
      PROVE  rows'[call[c].repo][p] >= call[c].goal[p]
  <2>1. Next
    BY <1>3 DEF vars, Ends, At
  <2>2. p \in 1..Len(call[c].goal)
    BY <1>3, CallTypes, GoalTypes
  <2>3. call[c].goal[p] <= rows'[call[c].repo][p]
    BY <1>1, <1>2, <1>3, <2>1, <2>2
  <2> QED BY <2>3
<1>4. Inv /\ Held /\ Shown /\ [Next]_vars =>
        \A c \in Calls :
            (Alone /\ Ends(c) /\ (call[c].pc \in {"page", "merge"} \/ (call[c].whole /\ faults' = 0))) =>
                \A p \in DOMAIN call[c].goal : rows'[call[c].repo][p] >= call[c].goal[p]
  BY <1>3
<1> QED BY <1>4, Invariant, HeldInvariant, ShownInvariant, PTL DEF Spec, Delivers
=============================================================================
