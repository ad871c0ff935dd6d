--------------------------- MODULE EmitAuxiliary ---------------------------
(* Auxiliary-file emission: runEmitBatch, IndexFileReconciler and            *)
(* PriorAliasReader of core/src/emit-auxiliary, driven by the space emitter  *)
(* of the Confluence adapter, the port the other adapters follow.  Emitters  *)
(* publish batches of records as a canonical file, aliases and an index row, *)
(* finding what a rename or a tombstone leaves behind from the by-id alias.  *)
EXTENDS Naturals, SequencesExt

CONSTANTS Emitters,           \* the workers that emit batches
          Ids, Names, Keys,   \* record ids, their names and their space keys
          Batches,            \* the batches each emitter may be given
          None, Blank, Gone,  \* no file, an absent field, a tombstone
          MaxEmits, MaxFaults \* bounds: batches per emitter, client errors

Fields == [name : Names \cup {Blank}, key : Keys \cup {Blank}]
Records == [id : Ids, version : Fields \cup {Gone}]

KeysOf(r) == IF r.version = Gone THEN {} ELSE {r.version.key} \ {Blank}

\* Emitters share the index, but no record and no space key.
ASSUME BatchesAssumption ==
    /\ Batches \in [Emitters -> SUBSET Seq(Records)]
    /\ \A e, f \in Emitters : \A b \in Batches[e], c \in Batches[f] :
          \A r \in ToSet(b), s \in ToSet(c) :
             e # f => /\ r.id # s.id
                      /\ KeysOf(r) \cap KeysOf(s) = {}
    /\ MaxEmits \in [Emitters -> Nat] /\ MaxFaults \in Nat

Titles == Names \cup Keys \cup {Blank}
ById(id) == <<"by-id", id>>
Row(id) == <<"row", id>>   \* stands for the index file in an error about a row
Paths == ({"space", "by-title"} \X Ids \X Titles)
         \cup ({"by-id"} \X Ids) \cup ({"by-key"} \X Keys)
Contents == [id : Ids, name : Names \cup {Blank}, key : Keys \cup {Blank}]

\* An absent file is not content, a tombstone no version.
ASSUME AbsenceAssumption == None \notin Contents /\ Gone \notin Fields

VARIABLES caps,     \* the optional operations the client has
          files,    \* the content at each path
          index,    \* the row of each record in _index.json
          em,       \* what each emitter is doing
          emits, faults,
          owed,     \* history: reported errors that nothing has made good
          expected, \* history: what the paths should hold by the records given
          evicted,  \* history: keys a record gave up after another took them
          blind,    \* history: records planned without sight of their last version
          unsure    \* history: rows a flush dropped or revived unawares

hist == <<owed, expected, evicted, blind, unsure>>
vars == <<caps, files, index, em, emits, faults,
          owed, expected, evicted, blind, unsure>>

-----------------------------------------------------------------------------
\* The paths of a space but those in S, in the order the plan lists them
\* (spacePathsFor, diffPaths).
SpacePathsBut(id, name, key, S) ==
    LET listed(p) == IF p \in S THEN <<>> ELSE <<p>>
    IN  listed(<<"space", id, IF name # Blank THEN name ELSE key>>) \o listed(ById(id))
        \o (IF name # Blank THEN listed(<<"by-title", id, name>>) ELSE <<>>)
        \o (IF key # Blank THEN listed(<<"by-key", key>>) ELSE <<>>)

SpacePaths(id, name, key) == SpacePathsBut(id, name, key, {})

\* A record without a name is published under its key.
NewPaths(r) ==
    IF r.version = Gone THEN <<>>
    ELSE LET v == r.version
         IN SpacePaths(r.id, IF v.name # Blank THEN v.name ELSE v.key, v.key)

PriorPathsBut(id, prior, S) ==
    IF prior = None THEN <<>> ELSE SpacePathsBut(id, prior.name, prior.key, S)

\* (mutant) only the name's paths are compared
StaleNamesOnly(r, prior) ==
    PriorPathsBut(r.id, prior, ToSet(NewPaths(r)) \cup {p \in Paths : p[1] = "by-key"})

\* What the plan deletes; of a tombstone without a prior, what its id alone names.
Stale(r, prior) ==
    IF r.version = Gone /\ prior = None THEN SpacePaths(r.id, Blank, Blank)
    ELSE PriorPathsBut(r.id, prior, ToSet(NewPaths(r)))

\* (mutant) a tombstone is content of its own
ContentOfTombstone(r) ==
    IF r.version = Gone THEN Gone
    ELSE [id |-> r.id, name |-> r.version.name, key |-> r.version.key]

ContentOf(r) ==
    IF r.version = Gone THEN None
    ELSE [id |-> r.id, name |-> r.version.name, key |-> r.version.key]

\* The published paths after r: its own, and none of those it had before.
Publish(world, r) ==
    [p \in Paths |-> IF p \in ToSet(NewPaths(r)) THEN ContentOf(r)
                     ELSE IF world[p] # None /\ world[p].id = r.id THEN None
                     ELSE world[p]]

VersionOf(c) == [id |-> c.id, version |-> [name |-> c.name, key |-> c.key]]
PathsOf(c) == IF c = None THEN {} ELSE ToSet(NewPaths(VersionOf(c)))

Published(world, id) == {p \in Paths : world[p] # None /\ world[p].id = id}

Idle == [pc |-> "idle", batch |-> <<>>, at |-> 0, deletes |-> <<>>, writes |-> <<>>,
         content |-> None, upserts |-> [id \in Ids |-> None], removes |-> {},
         existing |-> [id \in Ids |-> None]]

Init == /\ caps \in SUBSET {"read", "delete"}
        /\ files = [p \in Paths |-> None]
        /\ index = [id \in Ids |-> None]
        /\ em = [e \in Emitters |-> Idle]
        /\ emits = [e \in Emitters |-> 0]
        /\ faults = 0
        /\ owed = {}
        /\ expected = [p \in Paths |-> None]
        /\ evicted = {}
        /\ blind = {}
        /\ unsure = {}

Fault == faults < MaxFaults /\ faults' = faults + 1

Begin(e, batch) ==
    /\ em[e].pc = "idle"
    /\ emits[e] < MaxEmits[e]
    /\ emits' = [emits EXCEPT ![e] = @ + 1]
    /\ em' = [em EXCEPT ![e] = [Idle EXCEPT !.pc = "records", !.batch = batch]]
    /\ UNCHANGED <<caps, files, index, faults, hist>>

-----------------------------------------------------------------------------
(* One record: read the by-id alias, queue the row, delete, then write.      *)

\* The operations of the records planned so far are done.
Drained(e) == em[e].pc = "records" /\ em[e].deletes = <<>> /\ em[e].writes = <<>>

\* The plan made when the by-id alias read as prior.
PlanWith(e, prior) ==
    LET r == em[e].batch[em[e].at + 1]
        gone == r.version = Gone
    IN /\ em' = [em EXCEPT ![e] =
                   [em[e] EXCEPT !.at = @ + 1,
                                 !.deletes = Stale(r, prior),
                                 !.writes = NewPaths(r),
                                 !.content = ContentOf(r),
                                 !.upserts[r.id] = IF gone THEN @ ELSE ContentOf(r),
                                 !.removes = IF gone THEN @ \cup {r.id} ELSE @]]
       /\ expected' = Publish(expected, r)
       /\ evicted' = (evicted \ ToSet(NewPaths(r)))
                     \cup {p \in ToSet(Stale(r, prior)) : expected'[p] # None}
       /\ blind' = LET known == ToSet(NewPaths(r)) \cup PathsOf(prior)
                   IN blind \cup {id \in {r.id} : ~ Published(expected, id) \subseteq known}
       /\ UNCHANGED <<caps, files, index, emits, owed, unsure>>

More(e) == Drained(e) /\ em[e].at < Len(em[e].batch)

Plan(e) == /\ More(e)
           /\ PlanWith(e, IF "read" \in caps
                          THEN files[ById(em[e].batch[em[e].at + 1].id)] ELSE None)
           /\ UNCHANGED faults

\* PriorAliasReader takes an error for an absent file.
PlanReadFails(e) == More(e) /\ "read" \in caps /\ PlanWith(e, None) /\ Fault

Delete(e) ==
    LET p == Head(em[e].deletes)
    IN /\ em[e].pc = "records" /\ em[e].deletes # <<>>
       /\ "delete" \in caps
       /\ files' = [files EXCEPT ![p] = None]
       /\ em' = [em EXCEPT ![e].deletes = Tail(@)]
       /\ owed' = owed \ {p}
       /\ UNCHANGED <<caps, index, emits, faults, expected, evicted, blind, unsure>>

\* An error, or no deleteFile at all: reported, and the rest goes on.
DeleteFails(e) ==
    /\ em[e].pc = "records" /\ em[e].deletes # <<>>
    /\ IF "delete" \in caps THEN Fault ELSE UNCHANGED faults
    /\ em' = [em EXCEPT ![e].deletes = Tail(@)]
    /\ owed' = owed \cup {Head(em[e].deletes)}
    /\ UNCHANGED <<caps, files, index, emits, expected, evicted, blind, unsure>>

Write(e) ==
    LET p == Head(em[e].writes)
    IN /\ em[e].pc = "records" /\ em[e].deletes = <<>> /\ em[e].writes # <<>>
       /\ files' = [files EXCEPT ![p] = em[e].content]
       /\ em' = [em EXCEPT ![e].writes = Tail(@)]
       /\ owed' = owed \ {p}
       /\ UNCHANGED <<caps, index, emits, faults, expected, evicted, blind, unsure>>

WriteFails(e) ==
    /\ em[e].pc = "records" /\ em[e].deletes = <<>> /\ em[e].writes # <<>>
    /\ Fault
    /\ em' = [em EXCEPT ![e].writes = Tail(@)]
    /\ owed' = owed \cup {Head(em[e].writes)}
    /\ UNCHANGED <<caps, files, index, emits, expected, evicted, blind, unsure>>

-----------------------------------------------------------------------------
(* The index, once per batch: one read, one write, no compare-and-swap.      *)

FlushReads(e, rows) ==
    /\ Drained(e) /\ em[e].at = Len(em[e].batch)
    /\ em' = [em EXCEPT ![e].pc = "merge", ![e].existing = rows]
    /\ UNCHANGED <<caps, files, index, emits, hist>>

FlushRead(e) == "read" \in caps /\ FlushReads(e, index) /\ UNCHANGED faults

\* An unreadable index counts as an empty one, and no error says so.
FlushReadFails(e) == /\ FlushReads(e, [id \in Ids |-> None])
                     /\ IF "read" \in caps THEN Fault ELSE UNCHANGED faults

Queued(e) == {id \in Ids : em[e].upserts[id] # None \/ id \in em[e].removes}

\* (mutant) a removal wins over an upsert of the same flush
MergedRemovesLast(e) ==
    [id \in Ids |-> IF id \in em[e].removes THEN None
                    ELSE IF em[e].upserts[id] # None THEN em[e].upserts[id]
                    ELSE em[e].existing[id]]

\* Removals first, upserts on top.
Merged(e) ==
    [id \in Ids |-> IF em[e].upserts[id] # None THEN em[e].upserts[id]
                    ELSE IF id \in em[e].removes THEN None
                    ELSE em[e].existing[id]]

\* Where the last record of an id is in its batch.
LastAt(batch, id) == SelectLastInSeq(batch, LAMBDA r : r.id = id)

\* Rows of others changed since the read; rows whose tombstone came last.
Mistaken(e) ==
    {id \in Ids : IF id \in Queued(e)
                  THEN /\ id \in em[e].removes /\ em[e].upserts[id] # None
                       /\ em[e].batch[LastAt(em[e].batch, id)].version = Gone
                  ELSE em[e].existing[id] # index[id]}

FlushWrite(e) ==
    /\ em[e].pc = "merge"
    /\ index' = Merged(e)
    /\ em' = [em EXCEPT ![e] = Idle]
    /\ owed' = owed \ {Row(id) : id \in Queued(e)}
    /\ unsure' = (unsure \ Queued(e)) \cup Mistaken(e)
    /\ UNCHANGED <<caps, files, emits, faults, expected, evicted, blind>>

FlushWriteFails(e) ==
    /\ em[e].pc = "merge"
    /\ Fault
    /\ em' = [em EXCEPT ![e] = Idle]
    /\ owed' = owed \cup {Row(id) : id \in Queued(e)}
    /\ UNCHANGED <<caps, files, index, emits, expected, evicted, blind, unsure>>

-----------------------------------------------------------------------------
\* The caller makes good one reported path (see EmitAuxiliaryFilesResult).
RetryPath(p) ==
    /\ p \in owed \cap Paths
    /\ \A e \in Emitters : em[e].pc = "idle"
    /\ files' = [files EXCEPT ![p] = expected[p]]
    /\ owed' = owed \ {p}
    /\ UNCHANGED <<caps, index, em, emits, faults, expected, evicted, blind, unsure>>

Emitter(e) == \/ Plan(e) \/ Delete(e) \/ Write(e)
              \/ FlushRead(e) \/ FlushWrite(e)
              \/ ("delete" \notin caps /\ DeleteFails(e))
              \/ ("read" \notin caps /\ FlushReadFails(e))

Client(e) == \/ PlanReadFails(e) \/ DeleteFails(e) \/ WriteFails(e)
             \/ FlushReadFails(e) \/ FlushWriteFails(e)

Next == \/ \E e \in Emitters : \/ \E batch \in Batches[e] : Begin(e, batch)
                               \/ Emitter(e) \/ Client(e)
        \/ \E p \in Paths : RetryPath(p)

Spec == Init /\ [][Next]_vars

-----------------------------------------------------------------------------
(* Properties                                                                *)

Emission == [pc : {"idle", "records", "merge"}, batch : Seq(Records),
             at : Nat, deletes : Seq(Paths), writes : Seq(Paths),
             content : Contents \cup {None}, upserts : [Ids -> Contents \cup {None}],
             removes : SUBSET Ids, existing : [Ids -> Contents \cup {None}]]

(* The files, the index and each emission keep their shape, and an emission  *)
(* stays within its batch: a record is planned before the batch is flushed.  *)
TypeOK ==
    /\ caps \subseteq {"read", "delete"}
    /\ files \in [Paths -> Contents \cup {None}]
    /\ index \in [Ids -> Contents \cup {None}]
    /\ em \in [Emitters -> Emission]
    /\ \A e \in Emitters : em[e].at <= Len(em[e].batch)
    /\ \A e \in Emitters : emits[e] \in 0..MaxEmits[e]
    /\ faults \in 0..MaxFaults
    /\ owed \subseteq Paths \cup {Row(id) : id \in Ids}
    /\ expected \in [Paths -> Contents \cup {None}]
    /\ evicted \subseteq Paths /\ blind \subseteq Ids /\ unsure \subseteq Ids

Pending(p) == \E e \in Emitters : p \in ToSet(em[e].deletes) \cup ToSet(em[e].writes)

Holders(p) == {c.id : c \in {files[p], expected[p]} \ {None}}

(* A file that is missing, out of date or left over after a rename is either *)
(* still to be dealt with or named in an error: whatever fails between the   *)
(* deletes and the writes of a record, the caller that retries the reported  *)
(* paths repairs all of it.  Not promised where the by-id alias could not    *)
(* tell what was published, nor for a key that changed hands backwards.      *)
GapIsReported ==
    \A p \in Paths : \/ files[p] = expected[p]
                     \/ p \in owed \/ Pending(p)
                     \/ p \in evicted
                     \/ Holders(p) \cap blind # {}

InHand(id) == \E e \in Emitters : /\ em[e].pc # "idle"
                                  /\ \E r \in ToSet(em[e].batch) : r.id = id

(* The index has the row of every record that has files, in its last version,*)
(* and no row of a record without, through batches that rename, remove and   *)
(* recreate records and flush while another emitter does; a row not written  *)
(* is reported.  Not promised for rows that a flush could not see.           *)
IndexFollowsRecords ==
    \A id \in Ids : \/ InHand(id)
                    \/ index[id] = expected[ById(id)]
                    \/ Row(id) \in owed
                    \/ id \in unsure
=============================================================================
