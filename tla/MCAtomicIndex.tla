--------------------------- MODULE MCAtomicIndex ----------------------------
(* Three calls on one index: w1 and w2 upsert the same record, w3 another. *)
EXTENDS AtomicIndex

CONSTANTS w1, w2, w3, kShared, kOther

MCKey == [w \in Writers |-> IF w = w3 THEN kOther ELSE kShared]

\* A VFS that does everything wrong, with a budget that can run out, and one
\* that does nothing wrong, with a budget of one attempt per call.
MCSettings == {[maxAttempts |-> 2, faults |-> FaultKinds],
               [maxAttempts |-> 3, faults |-> {}]}
=============================================================================
