---------------------------- MODULE MCPullIndex -----------------------------
(* One repository whose pull requests fill a page and more, scanned while it *)
(* is ingested or materialised; two repositories materialised in turn.       *)
EXTENDS PullIndex

CONSTANTS c1, c2, r1, r2

Workspace(first, all1, all2, jobs1, jobs2, n) ==
    [opened |-> [r \in Repos |-> IF r = r1 THEN first ELSE 0],
     pulls |-> [r \in Repos |-> IF r = r1 THEN all1 ELSE all2],
     callers |-> [c \in Calls |-> IF c = c1 THEN jobs1 ELSE jobs2],
     faults |-> n]

MCSettings ==
    {Workspace(1, 3, 0, {"converge"}, {"ingest"}, 1),
     Workspace(1, 3, 0, {"converge"}, {"converge"}, 1),
     Workspace(1, 2, 0, {"converge"}, {"materialise"}, 0),
     Workspace(1, 3, 0, {"converge", "ingest"}, {}, 2),
     Workspace(2, 3, 1, {"materialise"}, {}, 1)}
=============================================================================
