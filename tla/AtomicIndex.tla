---------------------------- MODULE AtomicIndex -----------------------------
(***************************************************************************)
(* packages/core/src/atomic-index/index.ts: the optimistic                 *)
(* compare-and-swap upsert that github, linear and notion use for every    *)
(* `_index.json`.  Each writer is one call of upsertIndexAtomic on the     *)
(* same path; the steps are cut at its awaits (read, write, sleep), where  *)
(* other calls, in this process or another one, may run.                   *)
(*                                                                         *)
(* The virtual file system is external.  It compares `baseRevision` with   *)
(* the current revision and refuses a stale write ("0" stands for no       *)
(* file); `setting` says what else it may do, once and for all.             *)
(***************************************************************************)
EXTENDS Integers, FiniteSets

CONSTANTS Writers,      \* the calls of upsertIndexAtomic
          Keys,         \* the record keys of the index
          Key,          \* the key of the row a call merges
          NoRow,        \* no row for this key
          OldRow,       \* a row left by an earlier process
          NoContent,    \* `content === undefined`: the reader found no file
          Settings      \* the options of the calls and the faults of the VFS

FaultKinds == {"read_error",       \* every reader throws or returns nothing
               "bare_read",        \* a reader that returns a plain string
               "write_error",      \* refused with a non-conflict error
               "lost_response",    \* applied, but the caller sees an error
               "repeated_put"}     \* applied, then repeated below: a 409

Row == Writers \cup {NoRow, OldRow}

ASSUME WritersAssumption == IsFiniteSet(Writers)
ASSUME KeyAssumption == Key \in [Writers -> Keys]
ASSUME SettingsAssumption ==
    Settings \subseteq [maxAttempts : Nat \ {0}, faults : SUBSET FaultKinds]
ASSUME ValuesAssumption == /\ NoRow \notin Writers
                           /\ OldRow \notin Writers
                           /\ NoRow # OldRow
                           /\ NoContent \notin [Keys -> Row]

VARIABLES rows,     \* the parsed content of the file
          rev,      \* its revision; 0 when there is no file
          pc,       \* where each call stands
          attempt,  \* the loop counter of each call
          seen,     \* the content a call read last
          base,     \* the revision it read with it
          existed,  \* the `existedAtWrite` it returned
          setting   \* options.maxAttempts, and what the VFS may do wrong

vars == <<rows, rev, pc, attempt, seen, base, existed, setting>>

MaxAttempts == setting.maxAttempts
Faults == setting.faults

Index == [Keys -> Row]
EmptyIndex == [k \in Keys |-> NoRow]

Returned == {"done", "failed", "exhausted"}
Done == {w \in Writers : pc[w] = "done"}

TypeOK == /\ rows \in Index
          /\ rev \in Nat
          /\ pc \in [Writers -> {"read", "write", "sleep"} \cup Returned]
          /\ attempt \in [Writers -> 0 .. MaxAttempts - 1]
          /\ seen \in [Writers -> Index \cup {NoContent}]
          /\ base \in [Writers -> Nat]
          /\ existed \in [Writers -> BOOLEAN]
          /\ setting \in Settings
          /\ \A w \in Writers : pc[w] = "sleep" => attempt[w] < MaxAttempts - 1

Init == /\ \/ rows = EmptyIndex /\ rev = 0
           \/ rows \in [Keys -> {NoRow, OldRow}] /\ rev = 1
        /\ pc = [w \in Writers |-> "read"]
        /\ attempt = [w \in Writers |-> 0]
        /\ seen = [w \in Writers |-> NoContent]
        /\ base = [w \in Writers |-> 0]
        /\ existed = [w \in Writers |-> FALSE]
        /\ setting \in Settings

-----------------------------------------------------------------------------
(* readIndexWithRevision: the first reader that answers decides.           *)

ReadReturns(w, content, revision) ==
    /\ pc[w] = "read"
    /\ pc' = [pc EXCEPT ![w] = "write"]
    /\ seen' = [seen EXCEPT ![w] = content]
    /\ base' = [base EXCEPT ![w] = revision]
    /\ UNCHANGED <<rows, rev, attempt, existed>>

\* A reader returned {content, revision}, or the file is missing.
ReadBoth(w) == ReadReturns(w, IF rev = 0 THEN NoContent ELSE rows, rev)

\* A reader returned the text alone: its revision is taken to be "0".
ReadBare(w) == /\ "bare_read" \in Faults
               /\ rev # 0
               /\ ReadReturns(w, rows, 0)

\* (mutant) the revision survives a failed read of the content
ReadFailsKeepsRevision(w) == /\ "read_error" \in Faults
                             /\ ReadReturns(w, NoContent, rev)

\* Every reader threw: the code cannot tell this from a missing file.
ReadFails(w) == /\ "read_error" \in Faults
                /\ ReadReturns(w, NoContent, 0)

-----------------------------------------------------------------------------
(* merge(parse(content)), then writeIndexWithRevision.                     *)

\* (mutant) the write replaces the index instead of merging into it
MergedAlone(w) == [EmptyIndex EXCEPT ![Key[w]] = w]

Merged(w) ==
    [(IF seen[w] = NoContent THEN EmptyIndex ELSE seen[w]) EXCEPT ![Key[w]] = w]

\* (mutant) the positional baseRevision is dropped when it is "0"
FreshOrUnknown(w) == base[w] \in {0, rev}

Fresh(w) == base[w] = rev

Apply(w) == /\ pc[w] = "write"
            /\ Fresh(w)
            /\ rows' = Merged(w)
            /\ rev' = rev + 1

\* The attempt is over: what it read goes out of scope.
Leave(w, next) ==
    /\ pc' = [pc EXCEPT ![w] = next]
    /\ seen' = [seen EXCEPT ![w] = NoContent]
    /\ base' = [base EXCEPT ![w] = 0]
    /\ UNCHANGED attempt

WriteSucceeds(w) ==
    /\ Apply(w)
    /\ Leave(w, "done")
    /\ existed' = [existed EXCEPT ![w] = seen[w] # NoContent]

\* (mutant) one attempt too many, and one too few
RetryOnceMore(w) ==
    /\ Leave(w, IF attempt[w] <= MaxAttempts - 1 THEN "sleep" ELSE "exhausted")
    /\ UNCHANGED existed

RetryOnceLess(w) ==
    /\ Leave(w, IF attempt[w] < MaxAttempts - 2 THEN "sleep" ELSE "exhausted")
    /\ UNCHANGED existed

\* isConflictError: back off and read again, or give up after the last attempt.
RetryOrGiveUp(w) ==
    /\ Leave(w, IF attempt[w] < MaxAttempts - 1 THEN "sleep" ELSE "exhausted")
    /\ UNCHANGED existed

WriteConflicts(w) ==
    /\ pc[w] = "write"
    /\ ~Fresh(w)
    /\ RetryOrGiveUp(w)
    /\ UNCHANGED <<rows, rev>>

\* A non-conflict error is rethrown at once.
WriteRefused(w) ==
    /\ "write_error" \in Faults
    /\ pc[w] = "write"
    /\ Leave(w, "failed")
    /\ UNCHANGED <<rows, rev, existed>>

\* The write was applied but its answer was lost: the same rethrow.
WriteAnswerLost(w) ==
    /\ "lost_response" \in Faults
    /\ Apply(w)
    /\ Leave(w, "failed")
    /\ UNCHANGED existed

\* The write was applied, its answer was lost below the helper and the client
\* repeated the PUT (an idempotent method), which conflicts with itself.
WriteRepeated(w) ==
    /\ "repeated_put" \in Faults
    /\ Apply(w)
    /\ RetryOrGiveUp(w)

\* The linear backoff is over: the next attempt re-reads.
Wake(w) == /\ pc[w] = "sleep"
           /\ pc' = [pc EXCEPT ![w] = "read"]
           /\ attempt' = [attempt EXCEPT ![w] = @ + 1]
           /\ UNCHANGED <<rows, rev, seen, base, existed>>

Step(w) == \/ ReadBoth(w)
           \/ ReadBare(w)
           \/ ReadFails(w)
           \/ WriteSucceeds(w)
           \/ WriteConflicts(w)
           \/ WriteRefused(w)
           \/ WriteAnswerLost(w)
           \/ WriteRepeated(w)
           \/ Wake(w)

Next == /\ \E w \in Writers : Step(w)
        /\ UNCHANGED setting

Spec == Init /\ [][Next]_vars

-----------------------------------------------------------------------------
(* Properties.                                                             *)

\* What makes the ones below inductive: no call holds a revision from the
\* future, an absent file has no rows, and whoever is done has created it.
RevisionsGrow ==
    /\ \A w \in Writers : base[w] <= rev
    /\ rev = 0 => rows = EmptyIndex /\ Done = {}

\* Every attempt a call has lost, and every write it has missed since it read,
\* is another call that is done.
Budget ==
    Faults = {} =>
        \A w \in Writers :
            /\ pc[w] = "read" => attempt[w] <= Cardinality(Done)
            /\ pc[w] = "write" =>
                   attempt[w] + (rev - base[w]) <= Cardinality(Done)
            /\ pc[w] = "sleep" => attempt[w] + 1 <= Cardinality(Done)
            /\ pc[w] = "exhausted" => MaxAttempts <= Cardinality(Done)

\* "The read that produced the winning baseRevision is authoritative": a write
\* the VFS would accept carries the content the file has at that moment, also
\* when the read failed or came back without its revision.
WinningReadIsCurrent ==
    \A w \in Writers : pc[w] = "write" /\ Fresh(w) =>
        IF seen[w] = NoContent THEN rev = 0 ELSE rev > 0 /\ seen[w] = rows

\* A row that a successful upsert merged stays in the index, whatever the
\* other calls read before it and write after it ("concurrent rows added by
\* another writer survive"); only an upsert of the same key replaces it.
NoLostUpdate ==
    \A w \in Done : rows[Key[w]] \in {v \in Writers : Key[v] = Key[w]}

\* At most one upsert reports that it created the file: the accounting of
\* filesWritten against filesUpdated that runAtomicIndexWrite builds on.
OneCreator ==
    \A v, w \in Done : ~existed[v] /\ ~existed[w] => v = w

\* Optimistic retries are lock-free: a conflict is always the success of
\* another call.  So, on a VFS without faults, an attempt budget that covers
\* the number of concurrent writers is never exhausted.
NoExhaustion ==
    (Faults = {} /\ MaxAttempts >= Cardinality(Writers))
        => \A w \in Writers : pc[w] # "exhausted"

\* The abstract index that the compare-and-swap loop implements.
Store == INSTANCE IndexStore WITH created <- rev > 0

RefinesStore == Store!Spec
=============================================================================
