--------------------------- MODULE MCRecordMirror ---------------------------
(* Issues and pull requests that are renamed and renamed back, mirrored by   *)
(* one call after another with failures, and by two calls at a time; renamed *)
(* to a title without a slug and back; on a VFS that cannot delete.          *)
EXTENDS RecordMirror, TLC

CONSTANTS c1, c2

MCTitleOf == <<"A", "B", "A", NoSlug, "A">>

Serial(kind, jobs, n) ==
    [kind |-> kind, callers |-> {c1}, jobs |-> jobs, deletes |-> TRUE, last |-> 3, faults |-> n]
Overlap(kind, jobs, n) ==
    [kind |-> kind, callers |-> {c1, c2}, jobs |-> jobs, deletes |-> TRUE, last |-> 2, faults |-> n]

Slugless(kind, jobs) == [Serial(kind, jobs, 1) EXCEPT !.last = 5]
Undeleting(kind) == [Serial(kind, {"ingest"}, 1) EXCEPT !.deletes = FALSE]

MCSettings == {Serial("issue", {"ingest", "backfill"}, 2), Serial("pull", {"ingest"}, 2),
               Serial("pull", {"ingest", "refresh"}, 2),
               Slugless("issue", {"ingest", "backfill"}), Slugless("pull", {"ingest", "refresh"}),
               Undeleting("issue"), Undeleting("pull"),
               Overlap("issue", {"ingest", "backfill"}, 1),
               Overlap("pull", {"ingest"}, 1), Overlap("pull", {"ingest", "refresh"}, 0)}

MCRefresh == {Serial("pull", {"ingest", "refresh"}, 0)}

CallSymmetry == Permutations(Calls)
=============================================================================
