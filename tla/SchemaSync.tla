----------------------------- MODULE SchemaSync -----------------------------
(* SchemaAdapter.sync: a run pages through a provider's listing, writes each *)
(* record into the workspace and, after every page written in full, stores a *)
(* checkpoint (the next cursor and the highest mark seen) from which the     *)
(* next run resumes.  Runs may overlap, be aborted and meet failing requests *)
(* and writes; the provider's records change meanwhile.                      *)
(* Marks stand for the values of the cursor field (a time stamp), 0 for      *)
(* "none"; a version of a record is named by its mark.                       *)
EXTENDS Integers, Sequences, FiniteSets, SequencesExt

CONSTANTS Runs,        \* the callers that invoke sync, one run each at a time
          Records,     \* the provider's records: a set of numbers 1..n
          FirstMarks,  \* their marks at the beginning
          Settings,    \* the listings and the callers to consider
          PageSize,
          Resume,      \* the values of options.resume callers pass
          MaxMark,     \* the highest mark in any setting
          MaxFaults    \* bound on failures and aborts

Strategies == {"cursor", "page", "offset", "link-header"}
Orders == {"ascending", "descending"}

ASSUME SyncAssumption ==
    /\ Records = 1..Cardinality(Records) /\ IsFiniteSet(Records)
    /\ IsFiniteSet(Runs) /\ PageSize \in Nat \ {0}
    /\ {MaxMark, MaxFaults} \subseteq Nat
    /\ FirstMarks \in [Records -> 1..MaxMark]
    /\ Settings \subseteq
          [strategy : Strategies,          \* of pagination
           order : Orders,                 \* by mark
           stuck : BOOLEAN,                \* the position asked for is ignored
           sized : BOOLEAN,                \* the adapter knows the size of a full page
           callers : SUBSET Runs,          \* more than one: runs may overlap
           limits : SUBSET (Nat \ {0}),    \* the values of options.maxPages
           lastMark : 1..MaxMark]          \* bound on the provider's updates
    /\ Resume \subseteq BOOLEAN

VARIABLES setting,   \* one of Settings, fixed
          mark,      \* the current version of each record at the provider
          ws,        \* the version in the workspace, 0: no file
          seen,      \* history: the newest version the workspace ever held
          ckpt,      \* the checkpoint file
          pc, run,   \* the progress and the local variables of each run
          faults     \* failures so far

vars == <<setting, mark, ws, seen, ckpt, pc, run, faults>>

-----------------------------------------------------------------------------
(* The provider: a listing filtered by "since" (inclusive), cut into pages.  *)

Highest == CHOOSE m \in {mark[r] : r \in Records} : \A r \in Records : mark[r] <= m
Width == Cardinality(Records) + 1
Key(r) == mark[r] * Width + r          \* listings are sorted by mark, then id
CursorBound == (MaxMark + 1) * Width   \* no key is higher; page numbers are cut there

Before(r, s) == IF setting.order = "ascending" THEN Key(r) < Key(s) ELSE Key(r) > Key(s)
Admitted(since) == {r \in Records : mark[r] >= since}
Place(listed, r) == Cardinality({s \in listed : Before(s, r)}) + 1
Listing(since) ==
    LET listed == Admitted(since)
    IN  [i \in 1..Cardinality(listed) |-> CHOOSE r \in listed : Place(listed, r) = i]

Positional == setting.strategy \in {"page", "offset"}

\* The records before the requested position.  An opaque cursor names the last
\* record served, so that what moved meanwhile does not shift the page.
Skipped(list, cursor) ==
    IF setting.stuck \/ cursor = 0 THEN 0
    ELSE CASE setting.strategy = "page" -> (cursor - 1) * PageSize
           [] setting.strategy = "offset" -> cursor
           [] OTHER -> Cardinality({i \in DOMAIN list :
                          IF setting.order = "ascending" THEN Key(list[i]) <= cursor
                                                          ELSE Key(list[i]) >= cursor})

Page(since, cursor) ==
    LET list == Listing(since)
        from == Skipped(list, cursor)
    IN  [i \in 1..(IF from + PageSize <= Len(list) THEN PageSize
                   ELSE IF from >= Len(list) THEN 0 ELSE Len(list) - from)
           |-> [id |-> list[from + i], mark |-> mark[list[from + i]]]]

\* The cursor the provider answers with, 0 at the end of the listing.
ServedCursor(since, cursor, page) ==
    IF page = <<>> \/ Skipped(Listing(since), cursor) + Len(page) >= Len(Listing(since))
    THEN 0 ELSE Key(Last(page).id)

-----------------------------------------------------------------------------
(* A run's view of the listing.                                              *)

(* (mutant) a full page is taken for the last one *)
HasMoreStrict(page) == setting.sized /\ Len(page) > PageSize

\* Numbered pages go on while they come full, which takes a page size (from the
\* mapping or the caller) that the provider fills: without one, the first page
\* is the last.
HasMore(page) == setting.sized /\ Len(page) >= PageSize

NextCursor(u, page) ==
    LET cursor == run[u].cursor
    IN  CASE setting.strategy = "page" ->
               IF HasMore(page) THEN (IF cursor = 0 THEN 1 ELSE cursor) + 1 ELSE 0
          [] setting.strategy = "offset" ->
               IF HasMore(page) THEN cursor + Len(page) ELSE 0
          [] OTHER -> ServedCursor(run[u].since, cursor, page)

(* (mutant) a run stops one page late *)
HasNextLate(u, next) ==
    /\ run[u].pages < run[u].limit
    /\ next # 0
    /\ next # run[u].cursor

HasNext(u, next) ==
    /\ run[u].pages + 1 < run[u].limit
    /\ next # 0
    /\ next # run[u].cursor

RepeatedLink(u, next) ==
    setting.strategy = "link-header" /\ run[u].cursor # 0 /\ next = run[u].cursor

(* (mutant) pages are never recognised *)
RepeatedPageUnseen(u, page) == FALSE

RepeatedPage(u, page) ==
    /\ setting.strategy # "cursor"
    /\ page # <<>>
    /\ page \in run[u].pagesSeen

Advance(watermark, candidate) == IF candidate > watermark THEN candidate ELSE watermark

-----------------------------------------------------------------------------
NoCheckpoint == [stored |-> FALSE, cursor |-> 0, watermark |-> 0]

NoRun == [limit |-> 1, start |-> 0, cursor |-> 0, since |-> 0, watermark |-> 0, pages |-> 0,
          pagesSeen |-> {}, queue |-> <<>>, failed |-> FALSE, base |-> "zero",
          next |-> 0]

Init ==
    /\ setting \in Settings
    /\ mark = FirstMarks
    /\ ws = [r \in Records |-> 0]
    /\ seen = ws
    /\ ckpt = NoCheckpoint
    /\ pc = [u \in Runs |-> "idle"]
    /\ run = [u \in Runs |-> NoRun]
    /\ faults = 0

Fault == faults < MaxFaults /\ faults' = faults + 1
Ok == UNCHANGED faults

\* The run returns its result or throws; only the files outlive it.
Leave(u) == pc' = [pc EXCEPT ![u] = "idle"] /\ run' = [run EXCEPT ![u] = NoRun]

\* The position and the filter come from the checkpoint; the filter stays as
\* it is for the whole run.
Begin(u, c) ==
    /\ pc[u] = "idle"
    /\ c.cursor <= CursorBound
    /\ pc' = [pc EXCEPT ![u] = "request"]
    /\ \E limit \in setting.limits :
          run' = [run EXCEPT ![u] = [NoRun EXCEPT
                    !.limit = limit, !.start = c.cursor, !.cursor = c.cursor,
                    !.since = c.watermark, !.watermark = c.watermark]]
    /\ UNCHANGED <<setting, mark, ws, seen, ckpt>>

Start(u) == u \in setting.callers /\ \E resume \in Resume : Begin(u, IF resume THEN ckpt ELSE NoCheckpoint) /\ Ok

\* A checkpoint that cannot be read counts as none.
StartUnread(u) == u \in setting.callers /\ Begin(u, NoCheckpoint) /\ Fault

Respond(u) ==
    LET page == Page(run[u].since, run[u].cursor)
        next == NextCursor(u, page)
    IN  /\ pc[u] = "request"
        /\ IF RepeatedLink(u, next) \/ RepeatedPage(u, page)
           THEN Leave(u)
           ELSE /\ pc' = [pc EXCEPT ![u] = IF page = <<>> THEN "saveBase" ELSE "base"]
                /\ run' = [run EXCEPT ![u].queue = page, ![u].next = next,
                             ![u].pagesSeen = @ \union {page}]
        /\ Ok
        /\ UNCHANGED <<setting, mark, ws, seen, ckpt>>

\* A request that throws, or answers with an error status, ends the run.
RequestFails(u) ==
    /\ pc[u] = "request"
    /\ Leave(u)
    /\ Fault
    /\ UNCHANGED <<setting, mark, ws, seen, ckpt>>

-----------------------------------------------------------------------------
(* Files.  A write carries the revision read just before; the store accepts  *)
(* it when it is still the file's, or when it is "0" and there is no file.   *)

Base(exists) == IF exists THEN "current" ELSE "zero"
Accepts(exists, base) == base = Base(exists)

\* Runs that read the revision of a file that is now replaced.
Outdate(waiting) ==
    [u \in Runs |-> IF u \in waiting /\ run[u].base = "current"
                    THEN [run[u] EXCEPT !.base = "old"] ELSE run[u]]

WaitingFor(id) == {u \in Runs : pc[u] = "write" /\ Head(run[u].queue).id = id}

(* (mutant) the revision of an existing file is never learnt *)
ReadBaseNever(u) ==
    /\ pc[u] = "base"
    /\ pc' = [pc EXCEPT ![u] = "write"]
    /\ run' = [run EXCEPT ![u].base = "zero"]
    /\ UNCHANGED <<setting, mark, ws, seen, ckpt, faults>>

ReadBase(u) ==
    LET id == Head(run[u].queue).id
    IN  /\ pc[u] = "base"
        /\ pc' = [pc EXCEPT ![u] = "write"]
        /\ \/ run' = [run EXCEPT ![u].base = Base(ws[id] # 0)] /\ Ok
           \/ run' = [run EXCEPT ![u].base = "zero"] /\ Fault
        /\ UNCHANGED <<setting, mark, ws, seen, ckpt>>

(* (mutant) the failure of the page's last record counts only *)
ContinueForgetful(u, failed, watermark, others) ==
    LET rest == Tail(run[u].queue)
    IN  /\ pc' = [pc EXCEPT ![u] = IF rest = <<>> THEN "saveBase" ELSE "base"]
        /\ run' = [others EXCEPT ![u] = [run[u] EXCEPT !.queue = rest, !.base = "zero",
                                           !.failed = failed, !.watermark = watermark]]

\* The head of the queue is done with; a page with a failed record is tried to
\* its end and then ends the run without a checkpoint.
Continue(u, failed, watermark, others) ==
    LET rest == Tail(run[u].queue)
    IN  IF rest = <<>> /\ failed
        THEN /\ pc' = [pc EXCEPT ![u] = "idle"]
             /\ run' = [others EXCEPT ![u] = NoRun]
        ELSE /\ pc' = [pc EXCEPT ![u] = IF rest = <<>> THEN "saveBase" ELSE "base"]
             /\ run' = [others EXCEPT ![u] = [run[u] EXCEPT !.queue = rest, !.base = "zero",
                                                !.failed = failed, !.watermark = watermark]]

Put(item) ==
    /\ ws' = [ws EXCEPT ![item.id] = item.mark]
    /\ seen' = [seen EXCEPT ![item.id] = Advance(@, item.mark)]

WriteRecord(u) ==
    LET item == Head(run[u].queue)
    IN  /\ pc[u] = "write"
        /\ Accepts(ws[item.id] # 0, run[u].base)
        /\ Put(item)
        /\ \/ /\ Continue(u, run[u].failed, Advance(run[u].watermark, item.mark),
                          Outdate(WaitingFor(item.id)))
              /\ Ok
           \/ Continue(u, TRUE, run[u].watermark, Outdate(WaitingFor(item.id))) /\ Fault
        /\ UNCHANGED <<setting, mark, ckpt>>

(* (mutant) a conflict is taken for a record that is already there *)
RecordRefusedLeniently(u) ==
    LET item == Head(run[u].queue)
    IN  /\ pc[u] = "write"
        /\ Continue(u, run[u].failed, Advance(run[u].watermark, item.mark), run)
        /\ IF Accepts(ws[item.id] # 0, run[u].base) THEN Fault ELSE Ok
        /\ UNCHANGED <<setting, mark, ws, seen, ckpt>>

\* The write throws: a conflict, or a failure of the store.
RecordRefused(u) ==
    /\ pc[u] = "write"
    /\ Continue(u, TRUE, run[u].watermark, run)
    /\ IF Accepts(ws[Head(run[u].queue).id] # 0, run[u].base) THEN Fault ELSE Ok
    /\ UNCHANGED <<setting, mark, ws, seen, ckpt>>

-----------------------------------------------------------------------------
ReadCheckpointBase(u) ==
    /\ pc[u] = "saveBase"
    /\ pc' = [pc EXCEPT ![u] = "save"]
    /\ \/ run' = [run EXCEPT ![u].base = Base(ckpt.stored)] /\ Ok
       \/ run' = [run EXCEPT ![u].base = "zero"] /\ Fault
    /\ UNCHANGED <<setting, mark, ws, seen, ckpt>>

\* The run goes on with the next page, or is finished.
Proceed(u, others) ==
    IF HasNext(u, run[u].next)
    THEN /\ pc' = [pc EXCEPT ![u] = "request"]
         /\ run' = [others EXCEPT ![u] = [run[u] EXCEPT !.cursor = run[u].next, !.base = "zero",
                                            !.pages = @ + 1, !.next = 0]]
    ELSE /\ pc' = [pc EXCEPT ![u] = "idle"]
         /\ run' = [others EXCEPT ![u] = NoRun]

\* What is stored: checkpointCursor reads the cursor back.
CheckpointOf(u) == [stored |-> TRUE, cursor |-> run[u].next, watermark |-> run[u].watermark]

SaveCheckpoint(u) ==
    /\ pc[u] = "save"
    /\ Accepts(ckpt.stored, run[u].base)
    /\ ckpt' = CheckpointOf(u)
    /\ LET others == Outdate({v \in Runs : pc[v] = "save"})
       IN  \/ Proceed(u, others) /\ Ok
           \/ /\ pc' = [pc EXCEPT ![u] = "idle"]
              /\ run' = [others EXCEPT ![u] = NoRun]
              /\ Fault
    /\ UNCHANGED <<setting, mark, ws, seen>>

CheckpointRefused(u) ==
    /\ pc[u] = "save"
    /\ Leave(u)
    /\ IF Accepts(ckpt.stored, run[u].base) THEN Fault ELSE Ok
    /\ UNCHANGED <<setting, mark, ws, seen, ckpt>>

\* The caller's signal aborts the run, or its process ends.
Abort(u) ==
    /\ pc[u] # "idle"
    /\ Leave(u)
    /\ Fault
    /\ UNCHANGED <<setting, mark, ws, seen, ckpt>>

\* The provider changes a record, which gives it a mark of its own: two changes
\* at the very same moment are only among the initial marks.
Touch(r) ==
    /\ Highest < setting.lastMark
    /\ mark' = [mark EXCEPT ![r] = Highest + 1]
    /\ UNCHANGED <<setting, ws, seen, ckpt, pc, run, faults>>

Sync(u) ==
    \/ Respond(u) \/ RequestFails(u)
    \/ ReadBase(u) \/ WriteRecord(u) \/ RecordRefused(u)
    \/ ReadCheckpointBase(u) \/ SaveCheckpoint(u) \/ CheckpointRefused(u)

Next ==
    \/ \E u \in Runs : Start(u) \/ StartUnread(u) \/ Sync(u) \/ Abort(u)
    \/ \E r \in Records : Touch(r)

Spec == Init /\ [][Next]_vars

\* A run's awaits return, and somebody calls sync again and again.
FairSpec == Spec /\ \A u \in Runs : WF_vars(Sync(u)) /\ WF_vars(Start(u))

-----------------------------------------------------------------------------
Items == [id : Records, mark : 1..MaxMark]

(* Every field keeps its range; a run that waits for a record has one, and   *)
(* one that is idle has kept nothing.  (A listing that ignores its positions *)
(* may drive them past its end.)                                             *)
TypeOK ==
    /\ setting \in Settings
    /\ mark \in [Records -> 1..MaxMark]
    /\ ws \in [Records -> 0..MaxMark] /\ seen \in [Records -> 0..MaxMark]
    /\ \A r \in Records : ws[r] <= seen[r] /\ seen[r] <= mark[r]
    /\ ckpt \in [stored : BOOLEAN, cursor : Nat, watermark : 0..MaxMark]
    /\ pc \in [Runs -> {"idle", "request", "base", "write", "saveBase", "save"}]
    /\ faults \in 0..MaxFaults
    /\ \A u \in Runs :
          /\ run[u].cursor \in Nat /\ run[u].next \in Nat
          /\ run[u].since \in 0..MaxMark /\ run[u].watermark \in run[u].since..MaxMark
          /\ run[u].limit \in setting.limits \union {1} /\ run[u].pages \in 0..(run[u].limit - 1)
          /\ run[u].base \in {"zero", "current", "old"}
          /\ run[u].queue \in Seq(Items)
          /\ (pc[u] \in {"base", "write"}) = (run[u].queue # <<>>)
          /\ pc[u] = "idle" => run[u] = NoRun

\* Listings that can be resumed with an advanced filter: the oldest change
\* first, and cursors that name a record.
Alone == Cardinality(setting.callers) = 1

Resumable == setting.order = "ascending" /\ ~Positional /\ ~setting.stuck

(* What lies below the watermark of the stored checkpoint is never asked for *)
(* again, so it must be in the workspace in its present version: whatever    *)
(* requests, reads, writes and checkpoints fail and wherever runs stop.      *)
(* (Runs one after another.)                                                 *)
CaughtUp == (Resumable /\ Alone) => \A r \in Records : mark[r] < ckpt.watermark => ws[r] = mark[r]

(* The same where runs overlap: the version was written, though an older     *)
(* page of another run may have replaced it since (see the README).          *)
CheckpointCoversWritten ==
    Resumable => \A r \in Records : mark[r] < ckpt.watermark => seen[r] = mark[r]

\* Numbered pages whose size nobody told the adapter, or told it too high.
Unsized == Positional /\ ~setting.sized

(* A run that began at the first page and stored "no next page" has written  *)
(* everything its filter admits, whatever the order of the listing and also  *)
(* when pages are numbered.  (While the provider does not change.)  Not so   *)
(* where numbered pages have no size: resolveNextPage then ends every pass   *)
(* after one page, as schema-adapter.sync.test.ts:742-791 expects.           *)
FreshPassIsComplete ==
    [][\A u \in Runs :
          (/\ mark = FirstMarks /\ Alone /\ ~Unsized
           /\ pc[u] = "save" /\ run[u].start = 0 /\ run[u].next = 0 /\ ckpt' # ckpt)
             => \A r \in Records : mark[r] >= run[u].since => ws[r] = mark[r]]_vars

(* A provider that ignores the position it is asked for costs a run at most  *)
(* two pages, whatever MaxPages is.  (While it serves the same page.)        *)
StallStopsEarly ==
    setting.stuck /\ mark = FirstMarks => \A u \in Runs : run[u].pages <= 1

(* When changes and failures cease, repeated runs bring the workspace to the *)
(* provider's state, however few pages a run may read.                       *)
EverythingArrives == <>[]((Resumable /\ Alone) => \A r \in Records : ws[r] = mark[r])
=============================================================================
