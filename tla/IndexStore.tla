----------------------------- MODULE IndexStore -----------------------------
(***************************************************************************)
(* What `upsertIndexAtomic` promises its callers: an `_index.json` file is *)
(* a map from record keys to rows, and every upsert changes it by ONE      *)
(* atomic merge of its own row.  A merge never reads a stale map, so no    *)
(* upsert can undo the row of another.                                     *)
(***************************************************************************)

CONSTANTS Keys,        \* the record keys of one index file
          Writers,     \* the calls of upsertIndexAtomic
          Key,         \* the record a call upserts
          NoRow,       \* the index has no row for this key
          OldRow       \* a row an earlier process left in the file

VARIABLES rows,        \* the index: Keys -> the writer of the current row
          created      \* the file exists

Merge(index, w) == [index EXCEPT ![Key[w]] = w]

EmptyIndex == [k \in Keys |-> NoRow]

Init == \/ rows = EmptyIndex /\ created = FALSE
        \/ rows \in [Keys -> {NoRow, OldRow}] /\ created = TRUE

Upsert(w) == /\ rows' = Merge(rows, w)
             /\ created' = TRUE

Next == \E w \in Writers : Upsert(w)

Spec == Init /\ [][Next]_<<rows, created>>
=============================================================================
