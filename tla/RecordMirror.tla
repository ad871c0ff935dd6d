---------------------------- MODULE RecordMirror ----------------------------
(* How the GitHub adapter mirrors one issue or one pull request: a canonical *)
(* meta.json under the number and title, aliases that hold the same bytes    *)
(* under the number and under the title, and a row in the repository's       *)
(* index.  An ingest fetches the record and writes all of them, then deletes *)
(* the title alias of the version before.  A gate refresh (a review, check   *)
(* or status event) rewrites the merge gate of a mirrored pull request: it   *)
(* first marks the gate pending, then asks the provider.  Calls overlap,     *)
(* every request and every write may fail, and the record changes meanwhile. *)
(* The bytes of a file are the version of the record and, of a pull request, *)
(* its gate and whether its mergeability is known.                           *)
EXTENDS Integers, Sequences

CONSTANTS Calls,     \* the calls that may be under way at a time
          Titles,    \* told apart by their slugs
          NoSlug,    \* the title without one (emoji, punctuation)
          TitleOf,   \* of each version of the record, 1..n
          Settings   \* the repositories and callers to consider

Versions == DOMAIN TitleOf
Jobs == {"ingest", "refresh", "backfill"}

ASSUME MirrorAssumption ==
    /\ TitleOf \in Seq(Titles) \ {<<>>}
    /\ Settings \subseteq
          [kind : {"issue", "pull"},
           callers : SUBSET Calls,   \* more than one: calls may overlap
           jobs : SUBSET Jobs,       \* what callers ask for
           deletes : BOOLEAN,        \* the VFS can delete files
           last : Versions,          \* bound on the record's changes
           faults : Nat]             \* bound on failures

VARIABLES setting,   \* one of Settings, fixed
          version,   \* the record's current version at the provider
          verdict,   \* and what its reviews and checks amount to
          due,       \* versions no ingest was called for yet
          stirred,   \* the verdict changed since a refresh was called
          file,      \* the mirror's files
          row,       \* the version in the index row, 0: no row
          call,      \* the progress and local variables of each call
          faults,    \* failures so far
          clean,     \* history: no exception since the start of the last full ingest
          untitled   \* history: a record without a title alias was mirrored

vars == <<setting, version, verdict, due, stirred, file, row, call, faults, clean, untitled>>

-----------------------------------------------------------------------------
(* Paths and bytes.                                                          *)

Content == [ver : 0..Len(TitleOf), gate : {"none", "pending", "blocked", "ready"}, merge : BOOLEAN]
Missing == [ver |-> 0, gate |-> "none", merge |-> FALSE]

ById == <<"by-id", "">>
Canonical(rec) == <<"meta", TitleOf[rec.ver]>>
Alias(rec) == <<"by-title", TitleOf[rec.ver]>>
Fork(rec) == <<"by-title-collision", TitleOf[rec.ver]>>
\* The paths of both throw for a title that has no slug.
HasAlias(rec) == TitleOf[rec.ver] # NoSlug
Paths == ({"meta", "by-title", "by-title-collision"} \X Titles) \cup {ById}

Ready(rec) == rec.gate = "ready"
(* (mutant) the gate is cleared *)
Cleared(rec) == [rec EXCEPT !.gate = "", !.merge = FALSE]
Pending(rec) == [rec EXCEPT !.gate = "pending", !.merge = FALSE]

\* An issue, or the pull request as the first request shows it.
Fetched(v) == [ver |-> v, gate |-> IF setting.kind = "pull" THEN "pending" ELSE "none",
               merge |-> FALSE]

(* (mutant) the alias in use is a candidate like any other *)
StaleAndFresh(prev, path) ==
    IF prev = Missing THEN <<>> ELSE <<Alias(prev), Fork(prev)>>

\* The title aliases the version mirrored before may occupy, but the one in use;
\* none if it could have none, or if nothing can be deleted.
Stale(prev, path) ==
    LET but(p) == IF p = path THEN <<>> ELSE <<p>>
    IN  IF prev # Missing /\ HasAlias(prev) /\ setting.deletes
        THEN but(Alias(prev)) \o but(Fork(prev)) ELSE <<>>

NoCall == [pc |-> "idle", rec |-> Missing, prev |-> Missing, path |-> ById,
           stored |-> FALSE, envelope |-> 0, stale |-> <<>>]

Init ==
    /\ setting \in Settings
    /\ version = 1 /\ verdict = "blocked"
    /\ due = {1} /\ stirred = FALSE
    /\ file = [p \in Paths |-> Missing] /\ row = 0
    /\ call = [c \in Calls |-> NoCall]
    /\ faults = 0 /\ clean = FALSE /\ untitled = FALSE

-----------------------------------------------------------------------------
(* What the steps of a call have in common.                                  *)

At(c, pc) == call[c].pc = pc
Go(c, pc) == call' = [call EXCEPT ![c].pc = pc]
Finish(c) == call' = [call EXCEPT ![c] = NoCall]
Keep(c, pc, field, value) ==
    call' = [call EXCEPT ![c] = [@ EXCEPT !.pc = pc, ![field] = value]]

Works == UNCHANGED <<faults, clean, untitled>>
Fails == /\ faults < setting.faults
         /\ faults' = faults + 1 /\ clean' = FALSE
         /\ UNCHANGED untitled

Write(path, rec) == file' = [file EXCEPT ![path] = rec]

Provider == <<setting, version, verdict, due, stirred>>

\* An exception: a webhook's reconcile writes the envelope's record instead,
\* once; every other call rejects.
Throw(c) ==
    IF call[c].envelope # 0
    THEN call' = [call EXCEPT ![c] = [NoCall EXCEPT !.pc = "meta", !.rec = Fetched(call[c].envelope)]]
    ELSE Finish(c)

\* A step that failed with an exception leaves every file alone.
Thrown(c) == /\ Fails /\ Throw(c)
             /\ UNCHANGED <<Provider, file, row>>

-----------------------------------------------------------------------------
(* Ingest: reconcileIssueRecord of an issue's webhook, ingestIssue and       *)
(* ingestPullRequest of a materialisation.                                   *)

BeginIngest(c) ==
    /\ At(c, "idle") /\ c \in setting.callers /\ "ingest" \in setting.jobs
    /\ \E v \in due, webhook \in BOOLEAN :
          /\ due' = due \ {v}
          /\ setting.kind = "pull" => ~webhook
          /\ call' = [call EXCEPT ![c] =
                [NoCall EXCEPT !.pc = "fetch", !.envelope = IF webhook THEN v ELSE 0]]
    /\ clean' = TRUE
    /\ UNCHANGED <<setting, version, verdict, stirred, file, row, faults, untitled>>

\* A comment on an issue that has no alias yet; there is no envelope to fall back to.
BeginBackfill(c) ==
    /\ At(c, "idle") /\ c \in setting.callers /\ "backfill" \in setting.jobs
    /\ setting.kind = "issue" /\ file[ById] = Missing
    /\ call' = [call EXCEPT ![c] = [NoCall EXCEPT !.pc = "fetch"]]
    /\ Works
    /\ UNCHANGED <<Provider, file, row>>

Fetch(c) ==
    /\ At(c, "fetch")
    /\ \/ /\ Works
          /\ Keep(c, IF setting.kind = "pull" THEN "verdict" ELSE "meta", "rec", Fetched(version))
       \/ Fails /\ Throw(c)
    /\ UNCHANGED <<Provider, file, row>>

\* fetchPullRequestGateMetadata; what is missing of it leaves the gate pending.
FetchVerdict(c) ==
    /\ At(c, "verdict")
    /\ \/ /\ Works
          /\ Keep(c, "meta", "rec", [call[c].rec EXCEPT !.gate = verdict, !.merge = TRUE])
       \/ Fails /\ Go(c, "meta")
    /\ UNCHANGED <<Provider, file, row>>

(* (mutant) the record counts as stored although the write failed *)
WriteMetaUnchecked(c) ==
    /\ At(c, "meta")
    /\ \/ /\ Works
          /\ Write(Canonical(call[c].rec), call[c].rec)
          /\ Keep(c, "previous", "stored", TRUE)
       \/ /\ Fails
          /\ UNCHANGED file
          /\ IF setting.kind = "issue" THEN Keep(c, "previous", "stored", TRUE) ELSE Finish(c)
    /\ UNCHANGED <<Provider, row>>

\* An issue's aliases are written whatever became of meta.json, a pull
\* request's only with it.
WriteMeta(c) ==
    /\ At(c, "meta")
    /\ \/ /\ Works
          /\ Write(Canonical(call[c].rec), call[c].rec)
          /\ Keep(c, "previous", "stored", TRUE)
       \/ /\ Fails
          /\ UNCHANGED file
          /\ IF setting.kind = "issue" THEN Go(c, "previous") ELSE Finish(c)
    /\ UNCHANGED <<Provider, row>>

(* (mutant) the version before is forgotten *)
ReadNothing(c) ==
    /\ At(c, "previous")
    /\ Keep(c, "by-id", "prev", Missing)
    /\ Works
    /\ UNCHANGED <<Provider, file, row>>

\* An alias that cannot be read counts as missing.
ReadPrevious(c) ==
    /\ At(c, "previous")
    /\ \/ Works /\ Keep(c, "by-id", "prev", file[ById])
       \/ Fails /\ Keep(c, "by-id", "prev", Missing)
    /\ UNCHANGED <<Provider, file, row>>

WriteById(c) ==
    /\ At(c, "by-id")
    /\ \/ /\ Works /\ HasAlias(call[c].rec)
          /\ Write(ById, call[c].rec)
          /\ IF setting.kind = "issue" THEN Go(c, "probe")
             ELSE Keep(c, "title", "path", Alias(call[c].rec))
          /\ UNCHANGED <<Provider, row>>
       \/ Thrown(c)

\* A title without a slug throws where its alias path is made, after the by-id
\* alias was written: no title alias, no cleanup, no index row.
WriteByIdOnly(c) ==
    /\ At(c, "by-id") /\ ~HasAlias(call[c].rec)
    /\ Write(ById, call[c].rec)
    /\ Throw(c)
    /\ clean' = FALSE /\ untitled' = TRUE
    /\ UNCHANGED <<Provider, row, faults>>

\* resolveAliasPath of an issue: does the alias exist ...
Probe(c) ==
    /\ At(c, "probe")
    /\ \/ /\ Works
          /\ IF file[Alias(call[c].rec)] = Missing THEN Keep(c, "title", "path", Alias(call[c].rec))
             ELSE Go(c, "compare")
          /\ UNCHANGED <<Provider, file, row>>
       \/ Thrown(c)

\* ... and if so, are its bytes this record's, before or after?
Ours(c, bytes) ==
    /\ bytes # Missing
    /\ bytes \in {call[c].prev, call[c].rec}

Compare(c) ==
    /\ At(c, "compare")
    /\ \/ /\ Works
          /\ Keep(c, "title", "path", IF Ours(c, file[Alias(call[c].rec)])
                                      THEN Alias(call[c].rec) ELSE Fork(call[c].rec))
       \/ /\ Fails
          /\ Keep(c, "title", "path", Fork(call[c].rec))
    /\ UNCHANGED <<Provider, file, row>>

WriteTitle(c) ==
    /\ At(c, "title")
    /\ \/ /\ Works
          /\ Write(call[c].path, call[c].rec)
          /\ Keep(c, "sweep", "stale", Stale(call[c].prev, call[c].path))
          /\ UNCHANGED <<Provider, row>>
       \/ Thrown(c)

\* cleanupStaleAliases: a candidate is deleted if it still holds the bytes of
\* the version before.
DropStale(c) == Keep(c, "sweep", "stale", Tail(call[c].stale))

ReadStale(c) ==
    /\ At(c, "sweep") /\ call[c].stale # <<>>
    /\ \/ /\ Works
          /\ IF file[Head(call[c].stale)] = call[c].prev THEN Go(c, "delete") ELSE DropStale(c)
       \/ Fails /\ DropStale(c)
    /\ UNCHANGED <<Provider, file, row>>

DeleteStale(c) ==
    /\ At(c, "delete")
    /\ \/ Works /\ Write(Head(call[c].stale), Missing)
       \/ Fails /\ UNCHANGED file
    /\ DropStale(c)
    /\ UNCHANGED <<Provider, row>>

\* The index row, an atomic upsert (AtomicIndex) that may come to nothing;
\* none for a record whose meta.json was not stored.
WriteRow(c) ==
    /\ At(c, "sweep") /\ call[c].stale = <<>>
    /\ IF ~call[c].stored THEN UNCHANGED row /\ Works
       ELSE \/ row' = call[c].rec.ver /\ Works
            \/ Fails /\ UNCHANGED row
    /\ Finish(c)
    /\ UNCHANGED <<Provider, file>>

-----------------------------------------------------------------------------
(* Gate refresh: reconcilePullRequestGateRecord, its errors captured by      *)
(* reconcileGateParents.                                                     *)

\* What the pull request's alias holds is kept, to be written back with the
\* new gate; a pull request that is not mirrored is left alone.
BeginRefresh(c) ==
    /\ At(c, "idle") /\ c \in setting.callers /\ "refresh" \in setting.jobs
    /\ setting.kind = "pull"
    /\ stirred /\ stirred' = FALSE
    /\ IF file[ById] = Missing THEN UNCHANGED call
       ELSE call' = [call EXCEPT ![c] = [NoCall EXCEPT !.pc = "mark", !.rec = file[ById]]]
    /\ Works
    /\ UNCHANGED <<setting, version, verdict, due, file, row>>

\* markPullRequestGatePending reads the alias again.
ReadToMark(c) ==
    /\ At(c, "mark")
    /\ \/ Works /\ Keep(c, "pend alias", "prev", Pending(file[ById]))
       \/ Fails /\ Finish(c)
    /\ UNCHANGED <<Provider, file, row>>

\* A write of a refresh; the next step if it succeeds, the end if not.
Rewrite(c, pc, path, rec, next) ==
    /\ At(c, pc)
    /\ \/ /\ Works
          /\ Write(path, rec)
          /\ IF next = "idle" THEN Finish(c) ELSE Go(c, next)
       \/ Fails /\ UNCHANGED file /\ Finish(c)
    /\ UNCHANGED <<Provider, row>>

(* (mutant) only the alias is marked pending *)
PendAliasOnly(c) == Rewrite(c, "pend alias", ById, call[c].prev, "gate")
(* (mutant) only the alias gets the new gate *)
RestoreAliasOnly(c) == Rewrite(c, "restore alias", ById, call[c].rec, "idle")

PendAlias(c) == Rewrite(c, "pend alias", ById, call[c].prev, "pend meta")
PendMeta(c) == Rewrite(c, "pend meta", Canonical(call[c].prev), call[c].prev, "gate")

\* The new gate replaces the one that was read before it was marked pending.
FetchGate(c) ==
    /\ At(c, "gate")
    /\ \/ Works /\ Keep(c, "restore alias", "rec", [call[c].rec EXCEPT !.gate = verdict])
       \/ Fails /\ Finish(c)
    /\ UNCHANGED <<Provider, file, row>>

RestoreAlias(c) == Rewrite(c, "restore alias", ById, call[c].rec, "restore meta")
RestoreMeta(c) == Rewrite(c, "restore meta", Canonical(call[c].rec), call[c].rec, "idle")

-----------------------------------------------------------------------------
(* The provider and the specification.                                       *)

Edit ==
    /\ version < setting.last
    /\ version' = version + 1 /\ due' = due \cup {version + 1}
    /\ Works
    /\ UNCHANGED <<setting, verdict, stirred, file, row, call>>

Stir ==
    /\ setting.kind = "pull" /\ "refresh" \in setting.jobs
    /\ verdict' = IF verdict = "ready" THEN "blocked" ELSE "ready"
    /\ stirred' = TRUE
    /\ Works
    /\ UNCHANGED <<setting, version, due, file, row, call>>

Ingest(c) ==
    \/ BeginIngest(c) \/ BeginBackfill(c) \/ Fetch(c) \/ FetchVerdict(c)
    \/ WriteMeta(c) \/ ReadPrevious(c) \/ WriteById(c) \/ WriteByIdOnly(c)
    \/ Probe(c) \/ Compare(c) \/ WriteTitle(c) \/ ReadStale(c) \/ DeleteStale(c) \/ WriteRow(c)
Refresh(c) ==
    \/ BeginRefresh(c) \/ ReadToMark(c) \/ PendAlias(c) \/ PendMeta(c)
    \/ FetchGate(c) \/ RestoreAlias(c) \/ RestoreMeta(c)

Next == Edit \/ Stir \/ \E c \in Calls : Ingest(c) \/ Refresh(c)

Spec == Init /\ [][Next]_vars

-----------------------------------------------------------------------------
(* Properties.                                                               *)

\* The types of all variables.
TypeOK ==
    /\ setting \in Settings
    /\ version \in Versions /\ verdict \in {"blocked", "ready"}
    /\ due \subseteq Versions /\ stirred \in BOOLEAN
    /\ file \in [Paths -> Content] /\ row \in 0..Len(TitleOf)
    /\ call \in [Calls ->
          [pc : {"idle", "fetch", "verdict", "meta", "previous", "by-id", "probe", "compare",
                 "title", "sweep", "delete", "mark", "pend alias", "pend meta", "gate",
                 "restore alias", "restore meta"},
           rec : Content, prev : Content, path : Paths, stored : BOOLEAN,
           envelope : 0..Len(TitleOf), stale : Seq(Paths)]]
    /\ faults \in 0..setting.faults /\ clean \in BOOLEAN /\ untitled \in BOOLEAN

Alone == \E c \in Calls : setting.callers = {c}
Idle == \A c \in Calls : At(c, "idle")
Stored(v) == v = 0 \/ file[<<"meta", TitleOf[v]>>] # Missing

\* "Failed writes do not leak into the lightweight directory indexes": a
\* record in the index has a canonical file under the title it had, whatever
\* failed and whoever else was writing; and no alias of a pull request points
\* at a canonical file that was never written ("dangling references" in
\* ingestPullRequest).
NothingDangles ==
    /\ Stored(row)
    /\ setting.kind = "pull" => \A p \in Paths : Stored(file[p].ver)

\* Calls one after another, however many of the earlier ones failed: once an
\* ingest went through and every change since was told to a call that went
\* through, the canonical file and the by-id alias hold the record as the
\* provider has it, its gate included, and the index row is its own.  (The
\* ingest of a title without a slug never goes through.)
Repaired ==
    (Alone /\ Idle /\ clean /\ due = {}) =>
        LET rec == file[ById] IN
        /\ rec.ver = version /\ row = version
        /\ setting.kind = "pull" => (rec.merge /\ (stirred \/ rec.gate = verdict))
        /\ file[Canonical(rec)] = rec

\* The cleanup of stale aliases can do its work: the VFS deletes (if not, the
\* cleanup is a no-op, as its comment says), and no record was mirrored of
\* which the alias path throws (path-mapper.ts:581 leaves that open).
Cleanable == setting.deletes /\ ~untitled

\* While nothing fails and no gate is refreshed, calls one after another leave
\* exactly one title alias, under the title and with the bytes of the by-id
\* alias: renames, back and forth, leave nothing behind (issue #106), where
\* the cleanup can do its work.
OneTitleAlias ==
    (/\ Alone /\ Idle /\ faults = 0 /\ Cleanable
     /\ "refresh" \notin setting.jobs /\ file[ById] # Missing) =>
        /\ {p \in Paths : p[1] # "meta" /\ file[p] # Missing} = {ById, Alias(file[ById])}
        /\ file[Alias(file[ById])] = file[ById]

\* The cleanup of a call never deletes the alias the call has just written
\* (cleanupStaleAliases, "(b) the freshly written alias for the current
\* version"), failures included, as long as calls do not overlap.
FreshAliasSurvives ==
    Alone => \A c \in Calls :
        (call[c].pc \in {"sweep", "delete"}) => file[call[c].path] = call[c].rec

\* When a refresh asks the provider, the by-id alias and the canonical file of
\* the pull request do not show a ready gate: a provider that does not answer
\* leaves no stale approval there.
FailsClosed ==
    Alone => \A c \in Calls :
        At(c, "gate") => (~Ready(file[ById]) /\ ~Ready(file[Canonical(file[ById])]))

\* "Invalidate any previously-ready snapshot before the network refresh": the
\* same of every file that mirrors the pull request as it is now.
EverySnapshotInvalidated ==
    Alone => \A c \in Calls :
        At(c, "gate") => \A p \in Paths : (file[p].ver = call[c].rec.ver => ~Ready(file[p]))
=============================================================================
