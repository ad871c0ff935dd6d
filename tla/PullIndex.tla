----------------------------- MODULE PullIndex ------------------------------
(* The index files of the GitHub mirror: a row per pull request in each      *)
(* repository's pulls/_index.json and a row per repository in the root       *)
(* index.  Three kinds of calls write them.  A convergence scan lists the    *)
(* pull requests page by page, oldest first, and merges each page into the   *)
(* rows there are (atomically, see AtomicIndex) before its cursor moves on.  *)
(* An ingest replaces the row of one pull request, atomically too.  A        *)
(* materialisation of a repository writes both files outright and then       *)
(* ingests what it listed.  Meanwhile pull requests are opened and changed;  *)
(* none ever leaves the listing.  A row stands for the version it shows.     *)
EXTENDS Integers, Sequences, FiniteSets, SequencesExt

CONSTANTS Calls,      \* the callers, one call each at a time
          Repos,
          PageSize,   \* 100 in the code
          MaxVersion, \* bound on the changes of a pull request
          Settings    \* the workspaces and callers to consider

Jobs == {"converge", "ingest", "materialise"}

ASSUME PullIndexAssumption ==
    /\ {PageSize, MaxVersion} \subseteq Nat \ {0}
    /\ Repos # {} /\ IsFiniteSet(Calls)
    /\ Settings \subseteq
          [opened : [Repos -> Nat],  \* the pull requests at the beginning
           pulls : [Repos -> Nat],   \* and those a repository ends up with
           callers : [Calls -> SUBSET Jobs],  \* what each caller asks for
           faults : Nat]             \* bound on failures
    /\ \A s \in Settings : \A r \in Repos : s.opened[r] <= s.pulls[r]

VARIABLES setting,   \* one of Settings, fixed
          version,   \* of each repository's pull requests, by number
          rows,      \* pulls/_index.json of each repository, 0: no row
          root,      \* the repositories in the root index
          call,      \* the progress and local variables of each call
          done,      \* history: repositories a materialisation went through
          faults     \* failures so far

vars == <<setting, version, rows, root, call, done, faults>>

-----------------------------------------------------------------------------
(* Listings and calls.                                                       *)

Numbers(r) == 1..setting.pulls[r]
Listed(r, numbers) == [p \in numbers |-> version[r][p]]

\* The numbers on a page of GitHub's list, by creation, oldest or newest first.
Page(r, k, order) ==
    LET n == Len(version[r])
        place == {i \in 1..n : (k - 1) * PageSize < i /\ i <= k * PageSize}
    IN  IF order = "ascending" THEN place ELSE {n + 1 - i : i \in place}

NoPulls == <<>>
NoCall == [pc |-> "idle", whole |-> FALSE, repo |-> CHOOSE r \in Repos : TRUE, page |-> 1,
           batch |-> NoPulls, todo |-> {}, known |-> {}, goal |-> <<>>]

Init ==
    /\ setting \in Settings
    /\ version = [r \in Repos |-> [p \in 1..setting.opened[r] |-> 1]]
    /\ rows = [r \in Repos |-> [p \in Numbers(r) |-> 0]]
    /\ root = {} /\ done = {}
    /\ call = [c \in Calls |-> NoCall]
    /\ faults = 0

At(c, pc) == call[c].pc = pc
Set(c, new) == call' = [call EXCEPT ![c] = new]
Go(c, pc) == Set(c, [call[c] EXCEPT !.pc = pc])
Begin(c, job, r, pc) ==
    /\ At(c, "idle") /\ job \in setting.callers[c]
    /\ Set(c, [NoCall EXCEPT !.pc = pc, !.whole = (job = "materialise"), !.repo = r,
                             !.known = root, !.goal = version[r]])

Works == UNCHANGED faults
Fails == faults < setting.faults /\ faults' = faults + 1

(* (mutant) rows that are there already are kept as they are *)
UpsertMissing(r, pulls) ==
    rows' = [rows EXCEPT ![r] =
        [p \in Numbers(r) |-> IF p \in DOMAIN pulls /\ @[p] = 0 THEN pulls[p] ELSE @[p]]]

\* The atomic update of a repository's rows.
Upsert(r, pulls) ==
    rows' = [rows EXCEPT ![r] = [p \in Numbers(r) |-> IF p \in DOMAIN pulls THEN pulls[p] ELSE @[p]]]

-----------------------------------------------------------------------------
(* Convergence: a caller follows the cursor and repeats a call that rejects. *)

BeginScan(c) ==
    /\ \E r \in Repos : setting.pulls[r] > 0 /\ Begin(c, "converge", r, "page")
    /\ UNCHANGED <<setting, version, rows, root, done, faults>>

FetchPage(c) ==
    LET page == Page(call[c].repo, call[c].page, "ascending") IN
    /\ At(c, "page")
    /\ \/ /\ Works
          /\ Set(c, IF page = {} THEN NoCall
                    ELSE [call[c] EXCEPT !.pc = "merge", !.batch = Listed(call[c].repo, page)])
       \/ Fails /\ UNCHANGED call
    /\ UNCHANGED <<setting, version, rows, root, done>>

(* (mutant) the cursor moves on although the rows were not stored *)
MergePageAnyway(c) ==
    /\ At(c, "merge")
    /\ \/ /\ Works
          /\ Upsert(call[c].repo, call[c].batch)
          /\ Set(c, IF Cardinality(DOMAIN call[c].batch) < PageSize THEN NoCall
                    ELSE [call[c] EXCEPT !.pc = "page", !.page = @ + 1, !.batch = NoPulls])
       \/ /\ Fails /\ UNCHANGED rows
          /\ Set(c, [call[c] EXCEPT !.pc = "page", !.page = @ + 1, !.batch = NoPulls])
    /\ UNCHANGED <<setting, version, root, done>>

(* (mutant) the cursor names the page before *)
MergePageBack(c) ==
    /\ At(c, "merge")
    /\ \/ /\ Works
          /\ Upsert(call[c].repo, call[c].batch)
          /\ Set(c, IF Cardinality(DOMAIN call[c].batch) < PageSize THEN NoCall
                    ELSE [call[c] EXCEPT !.pc = "page", !.page = @ - 1, !.batch = NoPulls])
       \/ /\ Fails /\ UNCHANGED rows
          /\ Set(c, [call[c] EXCEPT !.pc = "page", !.batch = NoPulls])
    /\ UNCHANGED <<setting, version, root, done>>

\* The cursor moves on when the rows are in the index; a short page is the last.
MergePage(c) ==
    /\ At(c, "merge")
    /\ \/ /\ Works
          /\ Upsert(call[c].repo, call[c].batch)
          /\ Set(c, IF Cardinality(DOMAIN call[c].batch) < PageSize THEN NoCall
                    ELSE [call[c] EXCEPT !.pc = "page", !.page = @ + 1, !.batch = NoPulls])
       \/ /\ Fails /\ UNCHANGED rows
          /\ Set(c, [call[c] EXCEPT !.pc = "page", !.batch = NoPulls])
    /\ UNCHANGED <<setting, version, root, done>>

-----------------------------------------------------------------------------
(* Ingest of the pull requests to do: one, or those a materialisation listed.*)

BeginIngest(c) ==
    /\ \E r \in Repos : \E p \in 1..Len(version[r]) :
          /\ At(c, "idle") /\ "ingest" \in setting.callers[c]
          /\ Set(c, [NoCall EXCEPT !.pc = "fetch", !.repo = r, !.todo = {p}])
    /\ UNCHANGED <<setting, version, rows, root, done, faults>>

\* The next pull request of the list, newest first.  A request that fails is an
\* error in the result; the next one is ingested.  An alias that cannot be written
\* throws, and takes a materialisation with it.
FetchPull(c) ==
    LET p == Max(call[c].todo) IN
    /\ At(c, "fetch") /\ call[c].todo # {}
    /\ \/ /\ Works
          /\ Set(c, [call[c] EXCEPT !.pc = "pull row", !.todo = @ \ {p},
                                    !.batch = Listed(call[c].repo, {p})])
       \/ Fails /\ (Set(c, [call[c] EXCEPT !.todo = @ \ {p}]) \/ Set(c, NoCall))
    /\ UNCHANGED <<setting, version, rows, root, done>>

WritePullRow(c) ==
    /\ At(c, "pull row")
    /\ \/ Works /\ Upsert(call[c].repo, call[c].batch)
       \/ Fails /\ UNCHANGED rows
    /\ Go(c, "repo row")
    /\ UNCHANGED <<setting, version, root, done>>

WriteRepoRow(c) ==
    /\ At(c, "repo row")
    /\ \/ Works /\ root' = root \cup {call[c].repo}
       \/ Fails /\ UNCHANGED root
    /\ Go(c, "fetch")
    /\ UNCHANGED <<setting, version, rows, done>>

Finish(c) ==
    /\ At(c, "fetch") /\ call[c].todo = {}
    /\ Set(c, NoCall)
    /\ done' = IF call[c].whole THEN done \cup {call[c].repo} ELSE done
    /\ UNCHANGED <<setting, version, rows, root, faults>>

-----------------------------------------------------------------------------
(* Materialisation.                                                          *)

\* A caller that is given the promise of a materialisation in flight, by the same
\* map and with the same plan, is no call of its own; with another map or plan
\* it is, and two materialisations of a repository overlap.
BeginMaterialise(c) ==
    /\ \E r \in Repos : Begin(c, "materialise", r, "metadata")
    /\ UNCHANGED <<setting, version, rows, root, done, faults>>

\* A root index that cannot be read counts as empty.
RootUnread(c) ==
    /\ At(c, "metadata") /\ call[c].known # {}
    /\ Fails /\ Set(c, [call[c] EXCEPT !.known = {}])
    /\ UNCHANGED <<setting, version, rows, root, done>>

FetchMetadata(c) ==
    /\ At(c, "metadata")
    /\ \/ Works /\ Go(c, IF call[c].repo \in call[c].known THEN "list" ELSE "root")
       \/ Fails /\ Set(c, NoCall)
    /\ UNCHANGED <<setting, version, rows, root, done>>

(* (mutant) this repository replaces the others *)
WriteRootAlone(c) ==
    /\ At(c, "root")
    /\ \/ Works /\ root' = {call[c].repo}
       \/ Fails /\ UNCHANGED root
    /\ Go(c, "list")
    /\ UNCHANGED <<setting, version, rows, done>>

\* The root index as it was before the request, with this repository.
WriteRoot(c) ==
    /\ At(c, "root")
    /\ \/ Works /\ root' = call[c].known \cup {call[c].repo}
       \/ Fails /\ UNCHANGED root
    /\ Go(c, "list")
    /\ UNCHANGED <<setting, version, rows, done>>

(* (mutant) the first page is taken for the list *)
ListFirstPage(c) ==
    LET page == Page(call[c].repo, call[c].page, "descending") IN
    /\ At(c, "list")
    /\ \/ /\ Works
          /\ Set(c, [call[c] EXCEPT
                !.pc = "outright",
                !.page = @ + 1,
                !.batch = [p \in DOMAIN @ \cup page |-> IF p \in page THEN version[call[c].repo][p] ELSE @[p]]])
       \/ Fails /\ Set(c, NoCall)
    /\ UNCHANGED <<setting, version, rows, root, done>>

\* The whole list is read before anything of it is written.
ListPage(c) ==
    LET page == Page(call[c].repo, call[c].page, "descending") IN
    /\ At(c, "list")
    /\ \/ /\ Works
          /\ Set(c, [call[c] EXCEPT
                !.pc = IF Cardinality(page) < PageSize THEN "outright" ELSE "list",
                !.page = @ + 1,
                !.batch = [p \in DOMAIN @ \cup page |-> IF p \in page THEN version[call[c].repo][p] ELSE @[p]]])
       \/ Fails /\ Set(c, NoCall)
    /\ UNCHANGED <<setting, version, rows, root, done>>

\* The rows listed, and no others.
WriteOutright(c) ==
    LET listed == call[c].batch IN
    /\ At(c, "outright")
    /\ \/ /\ Works
          /\ rows' = [rows EXCEPT ![call[c].repo] =
                [p \in Numbers(call[c].repo) |-> IF p \in DOMAIN listed THEN listed[p] ELSE 0]]
       \/ Fails /\ UNCHANGED rows
    /\ Set(c, [call[c] EXCEPT !.pc = "fetch", !.todo = DOMAIN listed, !.batch = NoPulls])
    /\ UNCHANGED <<setting, version, root, done>>

-----------------------------------------------------------------------------
(* The provider and the specification.                                       *)

Open(r) ==
    /\ Len(version[r]) < setting.pulls[r]
    /\ version' = [version EXCEPT ![r] = Append(@, 1)]
    /\ UNCHANGED <<setting, rows, root, call, done, faults>>

Edit(r) ==
    /\ \E p \in 1..Len(version[r]) :
          /\ version[r][p] < MaxVersion
          /\ version' = [version EXCEPT ![r][p] = @ + 1]
    /\ UNCHANGED <<setting, rows, root, call, done, faults>>

Step(c) ==
    \/ FetchPage(c) \/ MergePage(c)
    \/ FetchPull(c) \/ WritePullRow(c) \/ WriteRepoRow(c) \/ Finish(c)
    \/ FetchMetadata(c) \/ WriteRoot(c) \/ ListPage(c) \/ WriteOutright(c)

Next ==
    \/ \E r \in Repos : Open(r) \/ Edit(r)
    \/ \E c \in Calls : BeginScan(c) \/ BeginIngest(c) \/ BeginMaterialise(c) \/ RootUnread(c) \/ Step(c)

Spec == Init /\ [][Next]_vars

\* Calls run on, and who scans scans again: a periodic job follows the cursor.
FairSpec == Spec /\ \A c \in Calls : WF_vars(Step(c)) /\ WF_vars(BeginScan(c))

-----------------------------------------------------------------------------
(* Properties.                                                               *)

\* The types of all variables.
TypeOK ==
    /\ setting \in Settings
    /\ \A r \in Repos :
          /\ version[r] \in Seq(1..MaxVersion)
          /\ rows[r] \in [Numbers(r) -> 0..MaxVersion]
    /\ root \subseteq Repos /\ done \subseteq Repos
    /\ \A c \in Calls :
          /\ call[c].pc \in {"idle", "page", "merge", "fetch", "pull row", "repo row",
                             "metadata", "root", "list", "outright"}
          /\ call[c].repo \in Repos /\ call[c].known \subseteq Repos
          /\ call[c].page \in Nat \ {0} /\ call[c].whole \in BOOLEAN
          /\ call[c].todo \cup DOMAIN call[c].batch \subseteq Numbers(call[c].repo)
          /\ \A p \in DOMAIN call[c].batch : call[c].batch[p] \in 1..MaxVersion
    /\ faults \in 0..setting.faults

Asks(job) == \E c \in Calls : job \in setting.callers[c]
Alone == Cardinality({c \in Calls : setting.callers[c] # {}}) = 1
Ends(c) == ~At(c, "idle") /\ call'[c].pc = "idle"

\* "Callers cannot advance past rows that were fetched but not persisted": when
\* a scan ends, every pull request that was open when it began has a row,
\* whatever failed on the way, was opened meanwhile, or scans or ingests beside
\* it.  (Materialisations drop rows they did not list.)
ScanCovers == [][
    \A c \in Calls : (call[c].pc \in {"page", "merge"} /\ Ends(c) /\ ~Asks("materialise")) =>
        \A p \in DOMAIN call[c].goal : rows'[call[c].repo][p] # 0]_vars

\* Calls one after another: a scan, whatever failed, and a materialisation in
\* which nothing failed leave no row older than the pull request was at the start.
Delivers == [][
    \A c \in Calls :
        (Alone /\ Ends(c) /\ (call[c].pc \in {"page", "merge"} \/ (call[c].whole /\ faults' = 0))) =>
            \A p \in DOMAIN call[c].goal : rows'[call[c].repo][p] >= call[c].goal[p]]_vars

\* Materialisations one after another leave every repository in the root index.
RootLists == (Alone /\ faults = 0) => done \subseteq root

\* A caller that scans again and again wins over everything that writes the
\* index beside it, stale rows and dropped rows included: once the provider
\* rests, the index shows each pull request as it is, for good.
IndexConverges == <>[]((\E c \in Calls : setting.callers[c] = {"converge"}) =>
    \A r \in Repos : \A p \in 1..Len(version[r]) : rows[r][p] = version[r][p])
=============================================================================
