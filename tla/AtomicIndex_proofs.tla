------------------------- MODULE AtomicIndex_proofs -------------------------
(***************************************************************************)
(* What the compare-and-swap upsert guarantees for every set of calls,     *)
(* every set of keys, every attempt budget and every combination of VFS    *)
(* faults.                                                                 *)
(***************************************************************************)
EXTENDS AtomicIndex, FiniteSetTheorems, TLAPS

-----------------------------------------------------------------------------
(* Type correctness.                                                       *)

\* What a call is about to write is a well-formed index, and differs from the
\* content it was computed from in the row of that call alone.
LEMMA MergedType ==
    ASSUME TypeOK, NEW w \in Writers
    PROVE  Merged(w) \in Index
  BY KeyAssumption DEF TypeOK, Merged, Index, Row, EmptyIndex

\* The options leave every call at least one attempt.
LEMMA BudgetType ==
    ASSUME setting \in Settings
    PROVE  MaxAttempts \in Nat /\ MaxAttempts > 0
  BY SettingsAssumption DEF MaxAttempts

\* The options of the calls and the faults of the file system do not change.
LEMMA SettingFixed ==
    ASSUME TypeOK, UNCHANGED setting
    PROVE  /\ MaxAttempts \in Nat /\ MaxAttempts > 0
           /\ MaxAttempts' = MaxAttempts /\ Faults' = Faults
           /\ setting' \in Settings
  BY BudgetType DEF TypeOK, MaxAttempts, Faults

LEMMA InitType == Init => TypeOK
<1> SUFFICES ASSUME Init PROVE TypeOK
  OBVIOUS
<1>0. MaxAttempts \in Nat /\ MaxAttempts > 0
  BY BudgetType DEF Init
<1>1. rows \in Index /\ rev \in Nat
  BY DEF Init, EmptyIndex, Index, Row
<1>2. attempt \in [Writers -> 0 .. MaxAttempts - 1]
  BY <1>0 DEF Init
<1> QED
  BY <1>1, <1>2 DEF Init, TypeOK

\* Reading never changes the file; it only fills the locals of the call.
LEMMA ReadType ==
    ASSUME TypeOK, NEW w \in Writers, NEW content \in Index \cup {NoContent},
           NEW revision \in Nat, ReadReturns(w, content, revision),
           UNCHANGED setting
    PROVE  TypeOK'
  BY SettingFixed DEF TypeOK, ReadReturns

\* Leaving an attempt keeps every local in its type.
LEMMA LeaveType ==
    ASSUME TypeOK, NEW w \in Writers,
           NEW next \in {"sleep"} \cup Returned, Leave(w, next),
           next = "sleep" => attempt[w] < MaxAttempts - 1,
           UNCHANGED setting
    PROVE  /\ pc' \in [Writers -> {"read", "write", "sleep"} \cup Returned]
           /\ attempt' \in [Writers -> 0 .. MaxAttempts' - 1]
           /\ seen' \in [Writers -> Index \cup {NoContent}]
           /\ base' \in [Writers -> Nat]
           /\ \A v \in Writers : pc'[v] = "sleep" => attempt'[v] < MaxAttempts' - 1
  BY SettingFixed DEF TypeOK, Leave, Returned

LEMMA ApplyType ==
    ASSUME TypeOK, NEW w \in Writers, Apply(w)
    PROVE  rows' \in Index /\ rev' \in Nat
  BY MergedType DEF Apply, TypeOK

LEMMA NextType == TypeOK /\ [Next]_vars => TypeOK'
<1> SUFFICES ASSUME TypeOK, [Next]_vars PROVE TypeOK'
  OBVIOUS
<1>1. CASE UNCHANGED vars
  BY <1>1 DEF TypeOK, vars, MaxAttempts
<1>2. ASSUME NEW w \in Writers, Step(w), UNCHANGED setting PROVE TypeOK'
  <2>0. /\ MaxAttempts \in Nat /\ MaxAttempts > 0
        /\ MaxAttempts' = MaxAttempts /\ setting' \in Settings
    BY <1>2, SettingFixed
  <2>1. CASE ReadBoth(w)
    BY <1>2, <2>1, ReadType DEF ReadBoth, TypeOK
  <2>2. CASE ReadBare(w)
    BY <1>2, <2>2, ReadType DEF ReadBare, TypeOK
  <2>3. CASE ReadFails(w)
    BY <1>2, <2>3, ReadType DEF ReadFails
  <2>4. CASE WriteSucceeds(w)
    <3>1. existed' \in [Writers -> BOOLEAN]
      BY <2>4 DEF WriteSucceeds, TypeOK
    <3> QED
      BY <1>2, <2>0, <2>4, <3>1, ApplyType, LeaveType DEF WriteSucceeds, TypeOK, Returned
  <2>5. CASE WriteConflicts(w)
    BY <1>2, <2>0, <2>5, LeaveType DEF WriteConflicts, RetryOrGiveUp, TypeOK, Returned
  <2>6. CASE WriteRefused(w)
    BY <1>2, <2>0, <2>6, LeaveType DEF WriteRefused, TypeOK, Returned
  <2>7. CASE WriteAnswerLost(w)
    BY <1>2, <2>0, <2>7, ApplyType, LeaveType DEF WriteAnswerLost, TypeOK, Returned
  <2>8. CASE WriteRepeated(w)
    BY <1>2, <2>0, <2>8, ApplyType, LeaveType
       DEF WriteRepeated, RetryOrGiveUp, TypeOK, Returned
  <2>9. CASE Wake(w)
    <3>1. attempt[w] + 1 \in 0 .. MaxAttempts - 1
      BY <2>0, <2>9 DEF Wake, TypeOK
    <3> QED
      BY <2>0, <2>9, <3>1 DEF Wake, TypeOK
  <2> QED
    BY <1>2, <2>1, <2>2, <2>3, <2>4, <2>5, <2>6, <2>7, <2>8, <2>9 DEF Step
<1> QED
  BY <1>1, <1>2 DEF Next

\* Every reachable state is well typed.
THEOREM TypeCorrect == Spec => []TypeOK
  BY InitType, NextType, PTL DEF Spec

-----------------------------------------------------------------------------
(* The snapshot a write carries.                                           *)

Snapshots == TypeOK /\ RevisionsGrow /\ WinningReadIsCurrent

\* A write that the VFS accepts is one atomic merge of the caller's row into
\* the index as it is, not as it was.
LEMMA CommitMerges ==
    ASSUME Snapshots, NEW w \in Writers, Apply(w)
    PROVE  rows' = [rows EXCEPT ![Key[w]] = w] /\ rev' = rev + 1 /\ rev' > 0
<1> DEFINE content == IF seen[w] = NoContent THEN EmptyIndex ELSE seen[w]
<1>1. content = rows
  BY DEF Snapshots, RevisionsGrow, WinningReadIsCurrent, Apply
<1>2. rows' = [content EXCEPT ![Key[w]] = w]
  BY DEF Apply, Merged
<1>3. rev' = rev + 1 /\ rev \in Nat
  BY DEF Apply, Snapshots, TypeOK
<1> QED
  BY <1>1, <1>2, <1>3

\* A call that leaves its attempt forgets its snapshot; the file may only have
\* moved on for the others.
LEMMA LeaveSnapshots ==
    ASSUME Snapshots, NEW w \in Writers,
           NEW next \in {"sleep"} \cup Returned, Leave(w, next),
           TypeOK', (rows' = rows /\ rev' = rev) \/ Apply(w)
    PROVE  /\ \A v \in Writers : base'[v] <= rev'
           /\ WinningReadIsCurrent'
           /\ rev' = 0 => rows' = EmptyIndex /\ Done = {}
<1> USE DEF Snapshots
<1>1. \A v \in Writers : base'[v] <= rev'
  BY DEF TypeOK, RevisionsGrow, Leave, Apply
<1>2. WinningReadIsCurrent'
  <2> SUFFICES ASSUME NEW v \in Writers, pc'[v] = "write", base'[v] = rev'
               PROVE  IF seen'[v] = NoContent
                      THEN rev' = 0 ELSE rev' > 0 /\ seen'[v] = rows'
    BY DEF WinningReadIsCurrent, Fresh
  <2>1. v # w /\ pc[v] = "write" /\ seen'[v] = seen[v] /\ base'[v] = base[v]
    BY DEF Leave, TypeOK, Returned
  <2>2. ~Apply(w)
    BY <2>1, CommitMerges DEF TypeOK, RevisionsGrow
  <2> QED
    BY <2>1, <2>2 DEF WinningReadIsCurrent, Fresh
<1>3. rev' = 0 => rows' = EmptyIndex /\ Done = {}
  BY CommitMerges DEF TypeOK, RevisionsGrow
<1> QED
  BY <1>1, <1>2, <1>3

LEMMA InitSnapshots == Init => Snapshots
<1> SUFFICES ASSUME Init PROVE Snapshots
  OBVIOUS
<1>1. RevisionsGrow
  BY DEF Init, RevisionsGrow, Done
<1>2. WinningReadIsCurrent
  BY DEF Init, WinningReadIsCurrent
<1> QED
  BY <1>1, <1>2, InitType DEF Snapshots

LEMMA NextSnapshots == Snapshots /\ [Next]_vars => Snapshots'
<1> SUFFICES ASSUME Snapshots, [Next]_vars PROVE Snapshots'
  OBVIOUS
<1> USE DEF Snapshots
<1>1. TypeOK'
  BY NextType
<1>2. CASE UNCHANGED vars
  BY <1>1, <1>2 DEF RevisionsGrow, WinningReadIsCurrent, Fresh, Done, vars
<1>3. ASSUME NEW w \in Writers, NEW content, NEW revision \in Nat,
             ReadReturns(w, content, revision), revision <= rev,
             revision = rev => IF content = NoContent
                               THEN rev = 0 ELSE rev > 0 /\ content = rows
      PROVE  RevisionsGrow' /\ WinningReadIsCurrent'
  <2>1. RevisionsGrow'
    BY <1>3 DEF ReadReturns, RevisionsGrow, TypeOK, Done
  <2>2. WinningReadIsCurrent'
    BY <1>3 DEF ReadReturns, WinningReadIsCurrent, TypeOK, Fresh
  <2> QED
    BY <2>1, <2>2
<1>4. rows # NoContent
  BY ValuesAssumption DEF TypeOK, Index
<1>5. ASSUME NEW w \in Writers, Step(w)
      PROVE  RevisionsGrow' /\ WinningReadIsCurrent'
  <2>1. CASE ReadBoth(w)
    <3>1. ReadReturns(w, IF rev = 0 THEN NoContent ELSE rows, rev)
      BY <2>1 DEF ReadBoth
    <3> QED
      BY <1>3, <1>4, <3>1 DEF TypeOK
  <2>2. CASE ReadBare(w)
    <3>1. ReadReturns(w, rows, 0) /\ rev # 0
      BY <2>2 DEF ReadBare
    <3> QED
      BY <1>3, <3>1 DEF TypeOK
  <2>3. CASE ReadFails(w)
    <3>1. ReadReturns(w, NoContent, 0)
      BY <2>3 DEF ReadFails
    <3> QED
      BY <1>3, <3>1 DEF TypeOK
  <2>4. CASE WriteSucceeds(w)
    <3>1. Leave(w, "done") /\ Apply(w)
      BY <2>4 DEF WriteSucceeds
    <3>2. rev' # 0
      BY <3>1, CommitMerges DEF TypeOK
    <3> QED
      BY <1>1, <3>1, <3>2, LeaveSnapshots DEF RevisionsGrow, Returned
  <2>5. CASE WriteConflicts(w)
    <3>1. PICK next \in {"sleep", "exhausted"} : Leave(w, next)
      BY <2>5 DEF WriteConflicts, RetryOrGiveUp
    <3>2. Done' = Done
      BY <2>5, <3>1 DEF WriteConflicts, Leave, Done, TypeOK
    <3> QED
      BY <1>1, <2>5, <3>1, <3>2, LeaveSnapshots
      DEF WriteConflicts, RevisionsGrow, Returned
  <2>6. CASE WriteRefused(w)
    <3>1. Leave(w, "failed")
      BY <2>6 DEF WriteRefused
    <3>2. Done' = Done
      BY <2>6, <3>1 DEF WriteRefused, Leave, Done, TypeOK
    <3> QED
      BY <1>1, <2>6, <3>1, <3>2, LeaveSnapshots
      DEF WriteRefused, RevisionsGrow, Returned
  <2>7. CASE WriteAnswerLost(w)
    <3>1. Leave(w, "failed") /\ Apply(w)
      BY <2>7 DEF WriteAnswerLost
    <3>2. rev' # 0
      BY <3>1, CommitMerges DEF TypeOK
    <3> QED
      BY <1>1, <3>1, <3>2, LeaveSnapshots DEF RevisionsGrow, Returned
  <2>8. CASE WriteRepeated(w)
    <3>1. PICK next \in {"sleep", "exhausted"} : Leave(w, next)
      BY <2>8 DEF WriteRepeated, RetryOrGiveUp
    <3>2. Apply(w) /\ rev' # 0
      BY <2>8, CommitMerges DEF WriteRepeated, TypeOK
    <3> QED
      BY <1>1, <3>1, <3>2, LeaveSnapshots DEF RevisionsGrow, Returned
  <2>9. CASE Wake(w)
    BY <2>9 DEF Wake, RevisionsGrow, WinningReadIsCurrent, Fresh, Done, TypeOK
  <2> QED
    BY <1>5, <2>1, <2>2, <2>3, <2>4, <2>5, <2>6, <2>7, <2>8, <2>9 DEF Step
<1> QED
  BY <1>1, <1>2, <1>5 DEF Next

\* The read that produced the winning baseRevision is authoritative.
THEOREM WinningReadIsAuthoritative == Spec => []WinningReadIsCurrent
<1>1. Snapshots => WinningReadIsCurrent
  BY DEF Snapshots
<1> QED
  BY <1>1, InitSnapshots, NextSnapshots, PTL DEF Spec

-----------------------------------------------------------------------------
(* Every step is an atomic merge of the caller's row, or leaves the file.  *)

LEMMA StepEffect ==
    ASSUME Snapshots, NEW w \in Writers, Step(w)
    PROVE  \/ rows' = rows /\ rev' = rev /\ Done' = Done
           \/ /\ rows' = [rows EXCEPT ![Key[w]] = w]
              /\ rev' = rev + 1
              /\ Done' \in {Done, Done \cup {w}}
<1> USE DEF Snapshots
<1>1. CASE ReadBoth(w) \/ ReadBare(w) \/ ReadFails(w)
  BY <1>1 DEF ReadBoth, ReadBare, ReadFails, ReadReturns, Done, TypeOK
<1>2. CASE WriteSucceeds(w)
  <2>1. Done' = Done \cup {w}
    BY <1>2 DEF WriteSucceeds, Leave, Done, TypeOK
  <2> QED
    BY <1>2, <2>1, CommitMerges DEF WriteSucceeds
<1>3. CASE WriteConflicts(w) \/ WriteRefused(w) \/ Wake(w)
  BY <1>3 DEF WriteConflicts, WriteRefused, RetryOrGiveUp, Leave, Wake, Done,
              TypeOK
<1>4. CASE WriteAnswerLost(w) \/ WriteRepeated(w)
  <2>1. Done' = Done
    BY <1>4 DEF WriteAnswerLost, WriteRepeated, RetryOrGiveUp, Leave, Apply,
                Done, TypeOK
  <2> QED
    BY <1>4, <2>1, CommitMerges DEF WriteAnswerLost, WriteRepeated
<1> QED
  BY <1>1, <1>2, <1>3, <1>4 DEF Step

\* The compare-and-swap loop implements the index whose upserts are atomic.
THEOREM Refinement == Spec => RefinesStore
<1>1. Init => Store!Init
  BY DEF Init, Store!Init, EmptyIndex, Store!EmptyIndex
<1>2. Snapshots /\ [Next]_vars => [Store!Next]_<<rows, rev > 0>>
  <2> SUFFICES ASSUME Snapshots, [Next]_vars
               PROVE  [Store!Next]_<<rows, rev > 0>>
    OBVIOUS
  <2>1. CASE UNCHANGED vars
    BY <2>1 DEF vars
  <2>2. ASSUME NEW w \in Writers, Step(w) PROVE [Store!Next]_<<rows, rev > 0>>
    <3>1. CASE rows' = rows /\ rev' = rev
      BY <3>1
    <3>2. CASE rows' = [rows EXCEPT ![Key[w]] = w] /\ rev' = rev + 1
      <4>1. rev' > 0
        BY <3>2 DEF Snapshots, TypeOK
      <4>2. Store!Upsert(w)
        BY <3>2, <4>1 DEF Store!Upsert, Store!Merge
      <4> QED
        BY <4>2 DEF Store!Next
    <3> QED
      BY <2>2, <3>1, <3>2, StepEffect
  <2> QED
    BY <2>1, <2>2 DEF Next
<1> QED
  BY <1>1, <1>2, InitSnapshots, NextSnapshots, PTL
  DEF Spec, RefinesStore, Store!Spec

-----------------------------------------------------------------------------
(* No lost update.                                                         *)

LEMMA NextNoLostUpdate ==
    Snapshots /\ NoLostUpdate /\ [Next]_vars => NoLostUpdate'
<1> SUFFICES ASSUME Snapshots, NoLostUpdate, [Next]_vars PROVE NoLostUpdate'
  OBVIOUS
<1>1. CASE UNCHANGED vars
  BY <1>1 DEF NoLostUpdate, Done, vars
<1>2. ASSUME NEW w \in Writers, Step(w) PROVE NoLostUpdate'
  <2>1. CASE rows' = rows /\ Done' = Done
    BY <2>1 DEF NoLostUpdate
  <2>2. CASE rows' = [rows EXCEPT ![Key[w]] = w] /\ Done' \in {Done, Done \cup {w}}
    <3> SUFFICES ASSUME NEW v \in Done'
                 PROVE  rows'[Key[v]] \in {u \in Writers : Key[u] = Key[v]}
      BY DEF NoLostUpdate
    <3>1. v \in Writers /\ Key[v] \in Keys /\ rows \in [Keys -> Row]
      BY KeyAssumption DEF Done, Snapshots, TypeOK, Index
    <3>2. CASE Key[v] = Key[w]
      BY <2>2, <3>1, <3>2
    <3>3. CASE Key[v] # Key[w]
      BY <2>2, <3>1, <3>3 DEF NoLostUpdate
    <3> QED
      BY <3>2, <3>3
  <2> QED
    BY <1>2, <2>1, <2>2, StepEffect
<1> QED
  BY <1>1, <1>2 DEF Next

\* A row that a successful upsert merged is never lost.
THEOREM NothingLost == Spec => []NoLostUpdate
<1>1. Init => NoLostUpdate
  BY DEF Init, NoLostUpdate, Done
<1> QED
  BY <1>1, InitSnapshots, NextSnapshots, NextNoLostUpdate, PTL DEF Spec

-----------------------------------------------------------------------------
(* One creator.                                                            *)

LEMMA NextOneCreator ==
    Snapshots /\ OneCreator /\ [Next]_vars => OneCreator'
<1> SUFFICES ASSUME Snapshots, OneCreator, [Next]_vars PROVE OneCreator'
  OBVIOUS
<1> USE DEF Snapshots
<1>1. CASE UNCHANGED vars
  BY <1>1 DEF OneCreator, Done, vars
<1>2. ASSUME NEW w \in Writers, Step(w) PROVE OneCreator'
  <2>1. CASE WriteSucceeds(w)
    <3>1. Done' = Done \cup {w}
      BY <2>1 DEF WriteSucceeds, Leave, Done, TypeOK
    <3>2. \A v \in Done : v # w /\ existed'[v] = existed[v]
      BY <2>1 DEF WriteSucceeds, Apply, Done, TypeOK
    <3>3. ~existed'[w] => Done = {}
      BY <2>1 DEF WriteSucceeds, Apply, WinningReadIsCurrent, RevisionsGrow,
                  TypeOK
    <3> QED
      BY <3>1, <3>2, <3>3 DEF OneCreator
  <2>2. CASE ~WriteSucceeds(w)
    <3>1. existed' = existed
      BY <1>2, <2>2 DEF Step, ReadBoth, ReadBare, ReadFails, ReadReturns,
        WriteConflicts, WriteRefused, WriteAnswerLost, WriteRepeated,
        RetryOrGiveUp, Wake
    <3>2. Done' = Done
      BY <1>2, <2>2 DEF Step, ReadBoth, ReadBare, ReadFails, ReadReturns,
        WriteConflicts, WriteRefused, WriteAnswerLost, WriteRepeated,
        RetryOrGiveUp, Leave, Apply, Wake, Done, TypeOK
    <3> QED
      BY <3>1, <3>2 DEF OneCreator
  <2> QED
    BY <2>1, <2>2
<1> QED
  BY <1>1, <1>2 DEF Next

\* At most one successful upsert claims to have created the file.
THEOREM CreatedOnce == Spec => []OneCreator
<1>1. Init => OneCreator
  BY DEF Init, OneCreator, Done
<1> QED
  BY <1>1, InitSnapshots, NextSnapshots, NextOneCreator, PTL DEF Spec

-----------------------------------------------------------------------------
(* The attempt budget.                                                     *)

LEMMA DoneFinite == IsFiniteSet(Done) /\ Cardinality(Done) \in Nat
  BY WritersAssumption, FS_Subset, FS_CardinalityType DEF Done

\* On a VFS without faults a write that is accepted is a call that is done.
LEMMA CommitCounts ==
    ASSUME TypeOK, NEW w \in Writers, WriteSucceeds(w)
    PROVE  Done' = Done \cup {w} /\ Cardinality(Done') = Cardinality(Done) + 1
<1>1. Done' = Done \cup {w} /\ w \notin Done
  BY DEF WriteSucceeds, Apply, Leave, Done, TypeOK
<1> QED
  BY <1>1, DoneFinite, FS_AddElement

LEMMA NextBudget == Snapshots /\ Budget /\ [Next]_vars => Budget'
<1> SUFFICES ASSUME Snapshots, Budget, [Next]_vars, Faults' = {}
             PROVE  Budget'
  BY DEF Budget
<1> USE DEF Snapshots
<1>s. /\ MaxAttempts \in Nat /\ MaxAttempts > 0
      /\ MaxAttempts' = MaxAttempts /\ Faults = {}
  BY SettingFixed DEF Next, vars
<1> DEFINE n == Cardinality(Done)
<1>0. n \in Nat
  BY DoneFinite
<1> HIDE DEF n
<1>1. CASE UNCHANGED vars
  BY <1>1, <1>s DEF Budget, Done, vars
<1>2. ASSUME NEW w \in Writers, Step(w) PROVE Budget'
  <2>1. CASE ReadBoth(w)
    <3>1. Done' = Done
      BY <2>1 DEF ReadBoth, ReadReturns, Done, TypeOK
    <3> QED
      BY <1>0, <1>s, <2>1, <3>1
      DEF ReadBoth, ReadReturns, Budget, TypeOK, Returned, n
  <2>2. CASE WriteSucceeds(w)
    <3>1. Cardinality(Done') = n + 1
      BY <2>2, CommitCounts DEF n
    <3>2. pc'[w] = "done" /\ \A v \in Writers \ {w} : pc'[v] = pc[v]
      BY <2>2 DEF WriteSucceeds, Leave, TypeOK
    <3>3. /\ attempt' = attempt /\ rev' = rev + 1
          /\ \A v \in Writers \ {w} : base'[v] = base[v]
      BY <2>2 DEF WriteSucceeds, Apply, Leave, TypeOK
    <3>4. \A v \in Writers : attempt[v] \in Nat /\ base[v] \in Nat /\ rev \in Nat
      BY <1>s DEF TypeOK
    <3>5. ASSUME NEW v \in Writers \ {w}
          PROVE  /\ pc[v] = "read" => attempt[v] <= n
                 /\ pc[v] = "write" => attempt[v] + (rev - base[v]) <= n
                 /\ pc[v] = "sleep" => attempt[v] + 1 <= n
                 /\ pc[v] = "exhausted" => MaxAttempts <= n
      BY <1>s DEF Budget, n
    <3> QED
      BY <1>0, <3>1, <3>2, <3>3, <3>4, <3>5, <1>s DEF Budget
  <2>3. CASE WriteConflicts(w)
    <3>1. Done' = Done
      BY <2>3 DEF WriteConflicts, RetryOrGiveUp, Leave, Done, TypeOK
    <3>2. attempt[w] + 1 <= n
      BY <1>0, <1>s, <2>3 DEF WriteConflicts, Fresh, Budget, RevisionsGrow, TypeOK, n
    <3>3. attempt[w] < MaxAttempts - 1 \/ MaxAttempts <= n
      BY <1>0, <3>2, <1>s DEF TypeOK
    <3> QED
      BY <1>0, <1>s, <2>3, <3>1, <3>2, <3>3
      DEF WriteConflicts, RetryOrGiveUp, Leave, Budget, TypeOK, Returned, n
  <2>4. CASE Wake(w)
    <3>1. Done' = Done
      BY <2>4 DEF Wake, Done, TypeOK
    <3> QED
      BY <1>0, <1>s, <2>4, <3>1 DEF Wake, Budget, TypeOK, Returned, n
  <2> QED
    BY <1>s, <1>2, <2>1, <2>2, <2>3, <2>4
    DEF Step, ReadBare, ReadFails, WriteRefused, WriteAnswerLost, WriteRepeated
<1> QED
  BY <1>1, <1>2 DEF Next

\* As many attempts as there are concurrent calls are enough.
THEOREM BudgetSuffices == Spec => []NoExhaustion
<1>1. Init => Budget
  BY DoneFinite DEF Init, Budget
<1>2. Budget /\ TypeOK => NoExhaustion
  <2> SUFFICES ASSUME Budget, TypeOK, Faults = {},
                      MaxAttempts >= Cardinality(Writers),
                      NEW w \in Writers, pc[w] = "exhausted"
               PROVE  FALSE
    BY DEF NoExhaustion
  <2>1. MaxAttempts <= Cardinality(Done)
    BY DEF Budget
  <2>2. Done \subseteq Writers \ {w}
    BY DEF Done
  <2>3. /\ IsFiniteSet(Writers \ {w})
        /\ Cardinality(Writers \ {w}) = Cardinality(Writers) - 1
    BY WritersAssumption, FS_RemoveElement
  <2>4. Cardinality(Done) <= Cardinality(Writers) - 1
    BY <2>2, <2>3, FS_Subset
  <2> QED
    BY <2>1, <2>4, DoneFinite, WritersAssumption, FS_CardinalityType,
       BudgetType DEF TypeOK
<1>3. Snapshots => TypeOK
  BY DEF Snapshots
<1> QED
  BY <1>1, <1>2, <1>3, InitSnapshots, NextSnapshots, NextBudget, PTL DEF Spec
=============================================================================
