-------------------------- MODULE Writeback_proofs --------------------------
(* What a writeback call is told is true, for every number of calls, paths   *)
(* and drafts: the fields keep their types, and as long as no two calls      *)
(* share a path, a confirmed draft has been applied, a dropped one never     *)
(* is, and a create draft is applied once.                                   *)
EXTENDS Writeback, TLAPS, NaturalsInduction,
        WellFoundedInduction

Status == {"queued", "running", "succeeded"} \union Terminal
Operation == [path : Paths, body : Bodies, status : Status, result : BOOLEAN]

ClientFields ==
    /\ pc \in [Calls -> {"start", "wait", "put", "answer", "poll", "settled"}]
    /\ puts \in [Calls -> 0..MaxPuts]
    /\ opOf \in [Calls -> Nat]
    /\ outcome \in [Calls -> Outcomes]

WorldFields ==
    /\ ops \in Seq(Operation)
    /\ file \in [Paths -> Content]
    /\ acting \in [Paths -> SUBSET Bodies]
    /\ applied \in [Paths \X Bodies -> Nat]

\* The operations that are the draft of c.
Made(c) == {i \in DOMAIN ops : ops[i].path = Path[c] /\ ops[i].body = Body[c]}

Told == \A c \in Calls : (outcome[c] # "none") = (pc[c] = "settled")
Polls == \A c \in Calls : pc[c] = "poll" => opOf[c] \in Made(c)
\* An answer that names an operation names one that exists.
Answers == \A c \in Calls : (pc[c] = "answer" /\ Path[c] \notin Plain) => Made(c) # {}

TypeInv == ClientFields /\ WorldFields /\ Told /\ Polls /\ Answers

USE CallsAssumption

-----------------------------------------------------------------------------
(* The operation that was minted last exists whenever there is one.          *)
LEMMA LastExists ==
    ASSUME NEW n \in Nat, NEW S, S \subseteq 1..n, S # {}
    PROVE  \E i \in S : \A j \in S : j <= i
<1> DEFINE D == {d \in Nat : n - d \in S}
<1>1. \A i \in S : i \in 1..n /\ n - i \in Nat /\ n - (n - i) = i
  OBVIOUS
<1>2. D # {}
  BY <1>1
<1> DEFINE R == {xy \in Nat \X Nat : xy[1] < xy[2]}
<1>0. IsWellFoundedOn(R, Nat)
  BY NatLessThanWellFounded, Zenon DEF OpToRel
<1>3. PICK d \in D : \A e \in D : ~(<<e, d>> \in R)
  BY <1>0, <1>2, WFMin
<1>4. \A e \in D : d <= e
  <2>1. SUFFICES ASSUME NEW e \in D, ~ d <= e PROVE FALSE
    OBVIOUS
  <2>2. e \in Nat /\ d \in Nat /\ e < d
    BY <2>1
  <2>3. <<e, d>> \in R
    BY <2>2
  <2> QED BY <1>3, <2>3
<1>5. n - d \in S /\ d \in Nat
  OBVIOUS
<1>6. \A j \in S : j <= n - d
  <2>1. SUFFICES ASSUME NEW j \in S PROVE j <= n - d
    OBVIOUS
  <2>2. n - j \in D
    BY <1>1
  <2>3. d <= n - j
    BY <1>4, <2>2
  <2> QED BY <1>1, <2>3, <1>5
<1> QED BY <1>5, <1>6

-----------------------------------------------------------------------------
(* Types.  An operation is never forgotten nor changes its draft, and a call *)
(* polls or awaits an answer only after it was made.                         *)

Kept == \A d \in Calls : Made(d) \subseteq Made(d)'
Stays == \A d \in Calls : pc'[d] \in {"poll", "answer"} =>
                              /\ pc[d] = pc'[d]
                              /\ opOf'[d] = opOf[d]

LEMMA Carried ==
    ASSUME TypeInv, ClientFields', WorldFields', Told', Kept, Stays
    PROVE  TypeInv'
<1>1. Polls'
  <2> SUFFICES ASSUME NEW d \in Calls, pc'[d] = "poll" PROVE opOf'[d] \in Made(d)'
    BY DEF Polls
  <2>1. opOf[d] \in Made(d) /\ opOf'[d] = opOf[d]
    BY DEF TypeInv, Polls, Stays
  <2> QED BY <2>1 DEF Kept
<1>2. Answers'
  <2> SUFFICES ASSUME NEW d \in Calls, pc'[d] = "answer", Path[d] \notin Plain
               PROVE  Made(d)' # {}
    BY DEF Answers
  <2>1. Made(d) # {}
    BY DEF TypeInv, Answers, Stays
  <2> QED BY <2>1 DEF Kept
<1> QED BY <1>1, <1>2 DEF TypeInv

LEMMA SameOps == ASSUME ops' = ops PROVE Kept
BY DEF Kept, Made

LEMMA SettleTypes ==
    ASSUME TypeInv, NEW c \in Calls, NEW from, NEW o \in Outcomes, o # "none",
           Settle(c, from, o), UNCHANGED worldVars
    PROVE  TypeInv'
<1>1. ClientFields'
  BY DEF TypeInv, ClientFields, Settle
<1>2. WorldFields'
  BY DEF TypeInv, WorldFields, worldVars
<1>3. Told'
  BY DEF TypeInv, Told, ClientFields, Settle
<1>4. Stays
  BY DEF TypeInv, ClientFields, Settle, Stays
<1>5. Kept
  BY SameOps DEF worldVars
<1> QED BY <1>1, <1>2, <1>3, <1>4, <1>5, Carried

LEMMA GoesTypes ==
    ASSUME TypeInv, NEW c \in Calls, NEW from, NEW to \in {"wait", "put"},
           from # "settled", Goes(c, from, to), UNCHANGED puts, ops' = ops, WorldFields'
    PROVE  TypeInv'
<1>1. ClientFields'
  BY DEF TypeInv, ClientFields, Goes
<1>3. Told'
  BY DEF TypeInv, Told, ClientFields, Goes
<1>4. Stays
  BY DEF TypeInv, ClientFields, Goes, Stays
<1>5. Kept
  BY SameOps
<1> QED BY <1>1, <1>3, <1>4, <1>5, Carried

LEMMA AdmitTypes ==
    ASSUME TypeInv, NEW c \in Calls, Admit(c)
    PROVE  TypeInv'
<1>1. ClientFields'
  BY DEF TypeInv, ClientFields, Admit, Goes
<1>2. Told'
  BY DEF TypeInv, Told, ClientFields, Admit, Goes
<1> DEFINE op == [path |-> Path[c], body |-> Body[c], status |-> "queued", result |-> FALSE]
<1>3. op \in Operation
  BY DEF Operation, Status
<1>4. ops \in Seq(Operation)
  BY DEF TypeInv, WorldFields
<1>5. ops' = ops \/ ops' = Append(ops, op)
  BY DEF Admit
<1>6. WorldFields'
  <2>1. ops' \in Seq(Operation)
    BY <1>3, <1>4, <1>5
  <2> QED BY <2>1 DEF TypeInv, WorldFields, Admit
<1>7. Kept
  <2>1. CASE ops' = ops
    BY <2>1, SameOps
  <2>2. CASE ops' = Append(ops, op)
    <3>1. \A i \in DOMAIN ops : i \in DOMAIN ops' /\ ops'[i] = ops[i]
      BY <1>3, <1>4, <2>2
    <3> QED BY <3>1 DEF Kept, Made
  <2> QED BY <1>5, <2>1, <2>2
<1>8. Made(c)' # {} \/ Path[c] \in Plain
  <2>1. CASE Identical(c) # {}
    <3>1. Identical(c) \subseteq Made(c)
      BY DEF Identical, Made
    <3> QED BY <2>1, <3>1, <1>7 DEF Kept
  <2>2. CASE Identical(c) = {} /\ Path[c] \notin Plain
    <3>1. ops' = Append(ops, op)
      BY <2>2 DEF Admit
    <3>2. Len(ops) + 1 \in DOMAIN ops' /\ ops'[Len(ops) + 1] = op
      BY <1>3, <1>4, <3>1
    <3>3. Len(ops) + 1 \in Made(c)'
      BY <3>2 DEF Made
    <3> QED BY <3>3
  <2> QED BY <2>1, <2>2
<1>9. \A d \in Calls : d # c => pc'[d] = pc[d] /\ opOf'[d] = opOf[d]
  BY DEF TypeInv, ClientFields, Admit, Goes
<1>10. pc'[c] = "answer"
  BY DEF TypeInv, ClientFields, Admit, Goes
<1>11. Polls'
  <2> SUFFICES ASSUME NEW d \in Calls, pc'[d] = "poll" PROVE opOf'[d] \in Made(d)'
    BY DEF Polls
  <2>1. d # c
    BY <1>10
  <2>2. opOf[d] \in Made(d) /\ opOf'[d] = opOf[d]
    BY <1>9, <2>1 DEF TypeInv, Polls
  <2> QED BY <2>2, <1>7 DEF Kept
<1>12. Answers'
  <2> SUFFICES ASSUME NEW d \in Calls, pc'[d] = "answer", Path[d] \notin Plain
               PROVE  Made(d)' # {}
    BY DEF Answers
  <2>1. CASE d = c
    BY <2>1, <1>8
  <2>2. CASE d # c
    <3>1. Made(d) # {}
      BY <2>2, <1>9 DEF TypeInv, Answers
    <3> QED BY <3>1, <1>7 DEF Kept
  <2> QED BY <2>1, <2>2
<1> QED BY <1>1, <1>2, <1>6, <1>11, <1>12 DEF TypeInv

LEMMA AnsweredTypes ==
    ASSUME TypeInv, NEW c \in Calls, Answered(c)
    PROVE  TypeInv'
<1>1. ops \in Seq(Operation) /\ Made(c) \subseteq 1..Len(ops) /\ Made(c) # {}
  BY DEF TypeInv, WorldFields, Made, Answers, Answered
<1>2. \E i \in Made(c) : \A j \in Made(c) : j <= i
  BY <1>1, LastExists
<1>3. Minted(c) \in Made(c)
  BY <1>2 DEF Minted, Made
<1>4. Minted(c) \in Nat
  BY <1>1, <1>3
<1>5. ops' = ops /\ WorldFields'
  BY DEF TypeInv, WorldFields, Answered, worldVars
<1>6. ClientFields'
  <2>1. opOf' \in [Calls -> Nat]
    BY <1>4 DEF TypeInv, ClientFields, Answered
  <2>2. pc' \in [Calls -> {"start", "wait", "put", "answer", "poll", "settled"}]
    BY DEF TypeInv, ClientFields, Answered
  <2>3. outcome' \in [Calls -> Outcomes]
    BY DEF TypeInv, ClientFields, Answered, Outcomes
  <2> QED BY <2>1, <2>2, <2>3 DEF TypeInv, ClientFields, Answered
<1>7. Told'
  BY DEF TypeInv, Told, ClientFields, Answered
<1>8. \A d \in Calls : d # c => pc'[d] = pc[d] /\ opOf'[d] = opOf[d]
  BY DEF TypeInv, ClientFields, Answered
<1>9. opOf'[c] = Minted(c) /\ pc'[c] # "answer"
  BY DEF TypeInv, ClientFields, Answered
<1>10. Polls'
  <2> SUFFICES ASSUME NEW d \in Calls, pc'[d] = "poll" PROVE opOf'[d] \in Made(d)'
    BY DEF Polls
  <2>0. Made(d)' = Made(d)
    BY <1>5 DEF Made
  <2>1. CASE d = c
    BY <2>0, <2>1, <1>3, <1>9
  <2>2. CASE d # c
    BY <2>0, <2>2, <1>8 DEF TypeInv, Polls
  <2> QED BY <2>1, <2>2
<1>11. Answers'
  <2> SUFFICES ASSUME NEW d \in Calls, pc'[d] = "answer", Path[d] \notin Plain
               PROVE  Made(d)' # {}
    BY DEF Answers
  <2>0. Made(d)' = Made(d)
    BY <1>5 DEF Made
  <2> QED BY <2>0, <1>8, <1>9 DEF TypeInv, Answers
<1> QED BY <1>5, <1>6, <1>7, <1>10, <1>11 DEF TypeInv

LEMMA RetryTypes ==
    ASSUME TypeInv, NEW c \in Calls, Retry(c)
    PROVE  TypeInv'
<1>1. outcome[c] # "none" /\ pc[c] = "settled"
  BY DEF TypeInv, Told, Retry, Retryable
<1>2. ClientFields'
  BY DEF TypeInv, ClientFields, Retry, Outcomes
<1>3. WorldFields' /\ Kept
  BY SameOps DEF TypeInv, WorldFields, Retry, worldVars
<1>4. Told'
  BY DEF TypeInv, Told, ClientFields, Retry
<1>5. Stays
  BY DEF TypeInv, ClientFields, Retry, Stays
<1> QED BY <1>2, <1>3, <1>4, <1>5, Carried

LEMMA Incremented ==
    ASSUME NEW D, NEW f \in [D -> Nat], NEW d \in D
    PROVE  [f EXCEPT ![d] = f[d] + 1] \in [D -> Nat]
OBVIOUS

\* A worker gives one operation a new status; success is an effect.
LEMMA WorkerStep ==
    ASSUME TypeInv, NEW i \in DOMAIN ops,
           WorkerTakes(i) \/ WorkerSucceeds(i) \/ WorkerFails(i)
    PROVE  \E s \in Status, r \in BOOLEAN :
              /\ ops' = [ops EXCEPT ![i] = [ops[i] EXCEPT !.status = s, !.result = r]]
              /\ applied' = IF s = "succeeded"
                            THEN [applied EXCEPT ![<<ops[i].path, ops[i].body>>] =
                                     applied[<<ops[i].path, ops[i].body>>] + 1]
                            ELSE applied
              /\ ops[i].status \in {"queued", "running"}
<1>1. ops[i] \in Operation
  BY DEF TypeInv, WorldFields
<1>2. CASE WorkerTakes(i) \/ WorkerFails(i)
  <2>1. PICK s \in {"running", "canceled", "failed", "dead_lettered"} :
           ops' = [ops EXCEPT ![i].status = s]
    BY <1>2 DEF WorkerTakes, WorkerFails
  <2>2. [ops[i] EXCEPT !.status = s] = [ops[i] EXCEPT !.status = s, !.result = ops[i].result]
    BY <1>1 DEF Operation
  <2>3. ops' = [ops EXCEPT ![i] = [ops[i] EXCEPT !.status = s, !.result = ops[i].result]]
    BY <2>1, <2>2
  <2>4. ops[i].result \in BOOLEAN /\ s \in Status /\ s # "succeeded"
    BY <1>1 DEF Operation, Status, Terminal
  <2>5. applied' = applied /\ ops[i].status \in {"queued", "running"}
    BY <1>2 DEF WorkerTakes, WorkerFails
  <2> QED BY <2>3, <2>4, <2>5
<1>3. CASE WorkerSucceeds(i)
  <2>1. PICK r \in BOOLEAN :
           ops' = [ops EXCEPT ![i] = [ops[i] EXCEPT !.status = "succeeded", !.result = r]]
    BY <1>3 DEF WorkerSucceeds
  <2>2. "succeeded" \in Status
    BY DEF Status
  <2> QED BY <1>3, <2>1, <2>2 DEF WorkerSucceeds
<1> QED BY <1>2, <1>3

LEMMA WorkerTypes ==
    ASSUME TypeInv, NEW i \in DOMAIN ops,
           WorkerTakes(i) \/ WorkerSucceeds(i) \/ WorkerFails(i)
    PROVE  TypeInv'
<1>1. ops \in Seq(Operation) /\ ops[i] \in Operation
  BY DEF TypeInv, WorldFields
<1>3. PICK s \in Status, r \in BOOLEAN :
         ops' = [ops EXCEPT ![i] = [ops[i] EXCEPT !.status = s, !.result = r]]
  BY WorkerStep
<1>4. [ops[i] EXCEPT !.status = s, !.result = r] \in Operation
  BY <1>1 DEF Operation
<1>5. ops' \in Seq(Operation)
  BY <1>1, <1>3, <1>4
<1>6. DOMAIN ops' = DOMAIN ops
      /\ \A j \in DOMAIN ops : ops'[j].path = ops[j].path /\ ops'[j].body = ops[j].body
  BY <1>1, <1>3 DEF Operation
<1>7. Kept
  BY <1>6 DEF Kept, Made
<1>8. applied' \in [Paths \X Bodies -> Nat]
  <2>1. <<ops[i].path, ops[i].body>> \in Paths \X Bodies
    BY <1>1 DEF Operation
  <2>2. applied' = applied
        \/ applied' = [applied EXCEPT ![<<ops[i].path, ops[i].body>>] = @ + 1]
    BY DEF WorkerTakes, WorkerFails, WorkerSucceeds
  <2>3. applied \in [Paths \X Bodies -> Nat]
    BY DEF TypeInv, WorldFields
  <2> QED BY <2>1, <2>2, <2>3, Incremented
<1>9. WorldFields'
  BY <1>5, <1>8 DEF TypeInv, WorldFields, WorkerTakes, WorkerFails, WorkerSucceeds
<1>10. ClientFields' /\ Told' /\ Stays
  BY DEF TypeInv, ClientFields, Told, Stays, clientVars,
         WorkerTakes, WorkerFails, WorkerSucceeds
<1> QED BY <1>7, <1>9, <1>10, Carried

LEMMA MountTypes ==
    ASSUME TypeInv, NEW p \in Paths,
           MountApplies(p) \/ MountAcknowledges(p) \/ MountRefuses(p)
    PROVE  TypeInv'
<1>1. file[p] \in Content /\ acting[p] \subseteq Bodies
  BY DEF TypeInv, WorldFields
<1>2. file[p].body \in Bodies
  BY <1>1 DEF Content
<1>3. \A k \in {"receipt", "refused"} : [file[p] EXCEPT !.kind = k] \in Content
  BY <1>1 DEF Content
<1>4. file' \in [Paths -> Content]
  <2>1. file' = file \/ \E k \in {"receipt", "refused"} : file' = [file EXCEPT ![p].kind = k]
    BY DEF MountApplies, MountAcknowledges, MountRefuses
  <2> QED BY <1>3, <2>1 DEF TypeInv, WorldFields
<1>5. acting' \in [Paths -> SUBSET Bodies]
  <2>1. acting' = acting \/ acting' = [acting EXCEPT ![p] = acting[p] \union {file[p].body}]
    BY DEF MountApplies, MountAcknowledges, MountRefuses
  <2>2. acting[p] \union {file[p].body} \in SUBSET Bodies
    BY <1>1, <1>2
  <2> QED BY <2>1, <2>2 DEF TypeInv, WorldFields
<1>6. applied' \in [Paths \X Bodies -> Nat]
  <2>1. <<p, file[p].body>> \in Paths \X Bodies
    BY <1>2
  <2>2. \/ applied' = applied
        \/ applied' = [applied EXCEPT ![<<p, file[p].body>>] = applied[<<p, file[p].body>>] + 1]
    BY DEF MountApplies, MountAcknowledges, MountRefuses
  <2>3. applied \in [Paths \X Bodies -> Nat]
    BY DEF TypeInv, WorldFields
  <2>4. [applied EXCEPT ![<<p, file[p].body>>] = applied[<<p, file[p].body>>] + 1]
           \in [Paths \X Bodies -> Nat]
    BY <2>1, <2>3, Incremented
  <2> QED BY <2>2, <2>3, <2>4
<1>7. ops' = ops /\ UNCHANGED clientVars
  BY DEF MountApplies, MountAcknowledges, MountRefuses
<1>8. WorldFields' /\ Kept
  BY <1>4, <1>5, <1>6, <1>7, SameOps DEF TypeInv, WorldFields
<1>9. ClientFields' /\ Told' /\ Stays
  BY <1>7 DEF TypeInv, ClientFields, Told, Stays, clientVars
<1> QED BY <1>8, <1>9, Carried

LEMMA InitTypes == Init => TypeInv
<1> SUFFICES ASSUME Init PROVE TypeInv
  OBVIOUS
<1>1. ClientFields
  BY DEF Init, ClientFields, Outcomes
<1>2. file \in [Paths -> Content]
  <2>1. (CHOOSE b \in Bodies : TRUE) \in Bodies
    OBVIOUS
  <2>2. \A p \in Paths : file[p] = [kind |-> "none", body |-> CHOOSE b \in Bodies : TRUE]
    BY DEF Init
  <2> QED BY <2>1, <2>2 DEF Init, Content
<1>3. WorldFields
  BY <1>2 DEF Init, WorldFields
<1>4. Told /\ Polls /\ Answers
  BY DEF Init, Told, Polls, Answers
<1> QED BY <1>1, <1>3, <1>4 DEF TypeInv

LEMMA StutterTypes == ASSUME TypeInv, UNCHANGED vars PROVE TypeInv'
BY DEF TypeInv, ClientFields, WorldFields, Told, Polls, Answers, Made, vars

LEMMA NextTypes == ASSUME TypeInv, Next PROVE TypeInv'
<1>1. ASSUME NEW c \in Calls, MountWrites(c) PROVE TypeInv'
  <2>1. WorldFields'
    <3>1. [kind |-> "draft", body |-> Body[c]] \in Content
      BY DEF Content
    <3> QED BY <1>1, <3>1 DEF TypeInv, WorldFields, MountWrites
  <2> QED BY <1>1, <2>1, GoesTypes DEF MountWrites
<1>2. ASSUME NEW c \in Calls, HttpStart(c) \/ AnswerLost(c) PROVE TypeInv'
  <2>1. ASSUME NEW from \in {"start", "answer"}, Goes(c, from, "put"),
               UNCHANGED puts, UNCHANGED worldVars
        PROVE  TypeInv'
    <3>1. WorldFields' /\ ops' = ops
      BY <2>1 DEF TypeInv, WorldFields, worldVars
    <3> QED BY <2>1, <3>1, GoesTypes
  <2>2. "failed" \in Outcomes
    BY DEF Outcomes
  <2> QED BY <1>2, <2>1, <2>2, SettleTypes DEF HttpStart, AnswerLost
<1>3. ASSUME NEW c \in Calls,
             \/ MountFails(c) \/ MountReceipt(c) \/ MountPending(c) \/ AnsweredPlain(c)
             \/ AnswerWithoutOp(c) \/ Refused(c) \/ AdmissionDeadline(c)
             \/ PollTerminal(c) \/ PollSucceeded(c) \/ PollFails(c) \/ PollDeadline(c)
      PROVE  TypeInv'
  <2>1. \E from \in {"start", "wait", "put", "answer", "poll"}, o \in Outcomes \ {"none"} :
           Settle(c, from, o) /\ UNCHANGED worldVars
    BY <1>3 DEF MountFails, MountReceipt, MountPending, AnsweredPlain, AnswerWithoutOp,
       Refused, AdmissionDeadline, PollTerminal, PollSucceeded, PollFails, PollDeadline, Outcomes
  <2> QED BY <2>1, SettleTypes
<1>4. ASSUME NEW c \in Calls, Admit(c) \/ Answered(c) \/ Retry(c) PROVE TypeInv'
  BY <1>4, AdmitTypes, AnsweredTypes, RetryTypes
<1>5. ASSUME Relayfile PROVE TypeInv'
  BY <1>5, WorkerTypes, MountTypes DEF Relayfile
<1> QED BY <1>1, <1>2, <1>3, <1>4, <1>5 DEF Next, Client, Fails

LEMMA TypesInvariant == Spec => []TypeInv
BY InitTypes, NextTypes, StutterTypes, PTL DEF Spec

(* Every field keeps its range whatever the calls, and only a call that has  *)
(* settled has an outcome.                                                   *)
THEOREM TypeCorrect == Spec => []TypeOK
<1>1. TypeInv => TypeOK
  <2> SUFFICES ASSUME TypeInv PROVE TypeOK
    OBVIOUS
  <2>1. \A i \in DOMAIN ops :
          /\ ops[i].path \in Paths /\ ops[i].body \in Bodies /\ ops[i].result \in BOOLEAN
          /\ ops[i].status \in {"queued", "running", "succeeded"} \union Terminal
    <3>1. \A i \in DOMAIN ops : ops[i] \in Operation
      BY DEF TypeInv, WorldFields
    <3> QED BY <3>1 DEF Operation, Status
  <2>2. \A c \in Calls : pc[c] = "poll" =>
          /\ opOf[c] \in DOMAIN ops
          /\ ops[opOf[c]].path = Path[c] /\ ops[opOf[c]].body = Body[c]
    BY DEF TypeInv, Polls, Made
  <2> QED BY <2>1, <2>2 DEF TypeInv, TypeOK, ClientFields, WorldFields, Told
<1> QED BY <1>1, TypesInvariant, PTL

-----------------------------------------------------------------------------
(* What a call is told.  OwnPaths: no two calls write the same path, and a   *)
(* path written over HTTP names a create draft or concerns no provider.      *)

OwnPaths == /\ \A c, d \in Calls : c # d => Path[c] # Path[d]
            /\ \A c \in Calls : Mode[c] = "http" => Path[c] \in Drafts \union Plain

\* Calls keep to their way; drafts, operations and effects come from a call.
Ways == \A c \in Calls : /\ pc[c] \in {"put", "answer", "poll"} => Mode[c] = "http"
                         /\ pc[c] = "wait" => Mode[c] = "mount"
Origins == /\ \A i \in DOMAIN ops : \E c \in Calls : /\ Mode[c] = "http" /\ Path[c] \in Drafts
                                                    /\ i \in Made(c)
           /\ \A p \in Paths : file[p].kind # "none" =>
                  \E c \in Calls : Mode[c] = "mount" /\ Path[c] = p /\ Body[c] = file[p].body
           /\ \A p \in Paths : acting[p] # {} => \E c \in Calls : Mode[c] = "mount" /\ Path[c] = p

\* A draft has one operation.
OneOp == \A i, j \in DOMAIN ops : ops[i].path = ops[j].path /\ ops[i].body = ops[j].body => i = j

\* An operation has its effect when it succeeds, a mounted draft when it is acted on.
Effect == /\ \A i \in DOMAIN ops :
                applied[<<ops[i].path, ops[i].body>>] = IF ops[i].status = "succeeded" THEN 1 ELSE 0
          /\ \A p \in Paths : \A b \in acting[p] : applied[<<p, b>>] = 1
          /\ \A p \in Paths, b \in Bodies : applied[<<p, b>>] # 0 =>
                b \in acting[p] \/ \E i \in DOMAIN ops : ops[i].path = p /\ ops[i].body = b
          /\ \A p \in Paths : file[p].kind = "receipt" => file[p].body \in acting[p]

\* What the outcomes rest on.
Grounds == \A c \in Calls :
    /\ outcome[c] = "confirmed" =>
          \/ Body[c] \in acting[Path[c]]
          \/ \E i \in Made(c) : ops[i].status = "succeeded"
    /\ outcome[c] = "terminal_error" => \E i \in Made(c) : ops[i].status \in Terminal

Evidence == Ways /\ Origins /\ OneOp /\ Effect /\ Grounds

LEMMA Unmoved ==
    ASSUME Evidence, UNCHANGED worldVars, Ways', Grounds'
    PROVE  Evidence'
<1>1. Origins' /\ OneOp' /\ Effect'
  BY DEF Evidence, Origins, OneOp, Effect, Made, worldVars
<1> QED BY <1>1 DEF Evidence

LEMMA SettleEvidence ==
    ASSUME TypeInv, Evidence, NEW c \in Calls, NEW from, NEW o \in Outcomes,
           Settle(c, from, o), UNCHANGED worldVars,
           o = "confirmed" => \/ Body[c] \in acting[Path[c]]
                              \/ \E i \in Made(c) : ops[i].status = "succeeded",
           o = "terminal_error" => \E i \in Made(c) : ops[i].status \in Terminal
    PROVE  Evidence'
<1>1. \A d \in Calls : /\ pc'[d] = IF d = c THEN "settled" ELSE pc[d]
                       /\ outcome'[d] = IF d = c THEN o ELSE outcome[d]
  BY DEF TypeInv, ClientFields, Settle
<1>2. Ways'
  BY <1>1 DEF Evidence, Ways
<1>3. ops' = ops /\ acting' = acting /\ \A d \in Calls : Made(d)' = Made(d)
  BY DEF Made, worldVars
<1>4. Grounds'
  BY <1>1, <1>3 DEF Evidence, Grounds
<1> QED BY <1>2, <1>4, Unmoved

LEMMA GoesEvidence ==
    ASSUME TypeInv, Evidence, NEW c \in Calls, NEW from \in {"start", "answer"},
           Mode[c] = "http", Goes(c, from, "put"), UNCHANGED worldVars
    PROVE  Evidence'
<1>1. \A d \in Calls : pc'[d] = (IF d = c THEN "put" ELSE pc[d]) /\ outcome'[d] = outcome[d]
  BY DEF TypeInv, ClientFields, Goes
<1>2. Ways'
  BY <1>1 DEF Evidence, Ways
<1>3. ops' = ops /\ acting' = acting /\ \A d \in Calls : Made(d)' = Made(d)
  BY DEF Made, worldVars
<1>4. Grounds'
  BY <1>1, <1>3 DEF Evidence, Grounds
<1> QED BY <1>2, <1>4, Unmoved

LEMMA AnsweredEvidence ==
    ASSUME TypeInv, Evidence, NEW c \in Calls, Answered(c) \/ Retry(c)
    PROVE  Evidence'
<1>0. UNCHANGED worldVars
  BY DEF Answered, Retry
<1>1. \A d \in Calls : /\ pc'[d] = pc[d] \/ pc'[d] \in {"settled", "start"}
                             \/ (pc[d] = "answer" /\ pc'[d] = "poll")
                       /\ outcome'[d] = outcome[d] \/ outcome'[d] \in {"pending", "none"}
  BY DEF TypeInv, ClientFields, Answered, Retry
<1>2. Ways'
  BY <1>1 DEF Evidence, Ways
<1>3. ops' = ops /\ acting' = acting /\ \A d \in Calls : Made(d)' = Made(d)
  BY <1>0 DEF Made, worldVars
<1>4. Grounds'
  BY <1>1, <1>3 DEF Evidence, Grounds
<1> QED BY <1>0, <1>2, <1>4, Unmoved

\* The receipt a mount shows is the own draft's.
LEMMA ReceiptIsOwn ==
    ASSUME OwnPaths, TypeInv, Evidence, NEW c \in Calls, pc[c] = "wait",
           IsReceipt(c, file[Path[c]])
    PROVE  Body[c] \in acting[Path[c]]
<1>1. Mode[c] = "mount" /\ Path[c] \in Paths
  BY DEF Evidence, Ways
<1>2. file[Path[c]].kind # "none"
  BY DEF IsReceipt
<1>3. PICK d \in Calls : Path[d] = Path[c] /\ Body[d] = file[Path[c]].body
  BY <1>1, <1>2 DEF Evidence, Origins
<1>4. d = c
  BY <1>3 DEF OwnPaths
<1>5. file[Path[c]].kind = "receipt"
  BY <1>3, <1>4 DEF IsReceipt
<1> QED BY <1>1, <1>3, <1>4, <1>5 DEF Evidence, Effect

LEMMA ClientEvidence ==
    ASSUME OwnPaths, TypeInv, Evidence, NEW c \in Calls,
           \/ MountFails(c) \/ MountReceipt(c) \/ MountPending(c) \/ HttpStart(c)
           \/ AnsweredPlain(c) \/ AnswerLost(c) \/ AnswerWithoutOp(c) \/ Refused(c)
           \/ AdmissionDeadline(c) \/ PollTerminal(c) \/ PollSucceeded(c) \/ PollFails(c)
           \/ PollDeadline(c)
    PROVE  Evidence'
<1>1. ASSUME NEW from \in {"start", "wait", "put", "answer", "poll"},
             NEW o \in Outcomes \ {"confirmed", "terminal_error"},
             Settle(c, from, o), UNCHANGED worldVars
      PROVE  Evidence'
  BY <1>1, SettleEvidence
<1>2. CASE \/ MountFails(c) \/ MountPending(c) \/ AnsweredPlain(c) \/ AnswerWithoutOp(c)
           \/ Refused(c) \/ AdmissionDeadline(c) \/ PollFails(c) \/ PollDeadline(c)
  <2>1. \E from \in {"start", "wait", "put", "answer", "poll"},
           o \in Outcomes \ {"confirmed", "terminal_error"} :
           Settle(c, from, o) /\ UNCHANGED worldVars
    BY <1>2 DEF MountFails, MountPending, AnsweredPlain, AnswerWithoutOp, Refused,
       AdmissionDeadline, PollFails, PollDeadline, Outcomes
  <2> QED BY <2>1, <1>1
<1>3. CASE MountReceipt(c)
  <2>1. pc[c] = "wait"
    BY <1>3 DEF MountReceipt, Settle
  <2>2. Body[c] \in acting[Path[c]]
    BY <1>3, <2>1, ReceiptIsOwn DEF MountReceipt
  <2>3. "confirmed" \in Outcomes
    BY DEF Outcomes
  <2> QED BY <1>3, <2>2, <2>3, SettleEvidence DEF MountReceipt
<1>4. CASE PollTerminal(c)
  <2>1. opOf[c] \in Made(c)
    BY <1>4 DEF PollTerminal, TypeInv, Polls
  <2>2. "terminal_error" \in Outcomes
    BY DEF Outcomes
  <2> QED BY <1>4, <2>1, <2>2, SettleEvidence DEF PollTerminal
<1>5. CASE PollSucceeded(c)
  <2>1. opOf[c] \in Made(c)
    BY <1>5 DEF PollSucceeded, TypeInv, Polls
  <2>2. "confirmed" \in Outcomes /\ "receipt_error" \in Outcomes
    BY DEF Outcomes
  <2>3. CASE ops[opOf[c]].result
    BY <1>5, <2>1, <2>2, <2>3, SettleEvidence DEF PollSucceeded
  <2>4. CASE ~ ops[opOf[c]].result
    BY <1>5, <2>2, <2>4, <1>1 DEF PollSucceeded
  <2> QED BY <2>3, <2>4
<1>6. CASE HttpStart(c)
  BY <1>6, GoesEvidence DEF HttpStart
<1>7. CASE AnswerLost(c)
  <2>1. CASE Goes(c, "answer", "put")
    <3>1. Mode[c] = "http"
      BY <2>1 DEF Goes, Evidence, Ways
    <3> QED BY <1>7, <2>1, <3>1, GoesEvidence DEF AnswerLost
  <2>2. CASE Settle(c, "answer", "failed")
    BY <1>7, <2>2, <1>1 DEF AnswerLost, Outcomes
  <2> QED BY <1>7, <2>1, <2>2 DEF AnswerLost
<1> QED BY <1>2, <1>3, <1>4, <1>5, <1>6, <1>7

LEMMA MountWritesEvidence ==
    ASSUME TypeInv, Evidence, NEW c \in Calls, MountWrites(c)
    PROVE  Evidence'
<1>1. \A d \in Calls : /\ pc'[d] = (IF d = c THEN "wait" ELSE pc[d])
                       /\ outcome'[d] = outcome[d] /\ Made(d)' = Made(d)
  BY DEF TypeInv, ClientFields, MountWrites, Goes, Made
<1>2. ops' = ops /\ acting' = acting /\ applied' = applied /\ Mode[c] = "mount"
  BY DEF MountWrites
<1>3. Ways'
  BY <1>1, <1>2 DEF Evidence, Ways
<1>4. Grounds'
  BY <1>1, <1>2 DEF Evidence, Grounds
<1>5. \A p \in Paths : file'[p] = IF p = Path[c] THEN [kind |-> "draft", body |-> Body[c]]
                                 ELSE file[p]
  BY DEF TypeInv, WorldFields, MountWrites
<1>6. Origins'
  BY <1>1, <1>2, <1>5 DEF Evidence, Origins
<1>7. OneOp' /\ Effect'
  BY <1>2, <1>5 DEF Evidence, OneOp, Effect
<1> QED BY <1>3, <1>4, <1>6, <1>7 DEF Evidence

LEMMA AdmitEvidence ==
    ASSUME OwnPaths, TypeInv, Evidence, NEW c \in Calls, Admit(c)
    PROVE  Evidence'
<1>1. \A d \in Calls : /\ pc'[d] = (IF d = c THEN "answer" ELSE pc[d])
                       /\ outcome'[d] = outcome[d]
  BY DEF TypeInv, ClientFields, Admit, Goes
<1>2. Mode[c] = "http" /\ file' = file /\ acting' = acting /\ applied' = applied
  BY DEF Admit, Goes, Evidence, Ways
<1>3. Ways'
  BY <1>1, <1>2 DEF Evidence, Ways
<1>4. CASE ops' = ops
  <2>1. \A d \in Calls : Made(d)' = Made(d)
    BY <1>4 DEF Made
  <2>2. Origins' /\ OneOp' /\ Effect'
    BY <1>2, <1>4, <2>1 DEF Evidence, Origins, OneOp, Effect
  <2>3. Grounds'
    BY <1>1, <1>2, <1>4, <2>1 DEF Evidence, Grounds
  <2> QED BY <1>3, <2>2, <2>3 DEF Evidence
<1> DEFINE op == [path |-> Path[c], body |-> Body[c], status |-> "queued", result |-> FALSE]
           n == Len(ops) + 1
<1>5. CASE Path[c] \notin Plain /\ Identical(c) = {} /\ ops' = Append(ops, op)
  <2>0. Path[c] \in Drafts /\ Path[c] \in Paths /\ Body[c] \in Bodies
    BY <1>2, <1>5 DEF OwnPaths
  <2>1. ops \in Seq(Operation)
    BY DEF TypeInv, WorldFields
  <2>2. op \in Operation
    BY DEF Operation, Status
  <2>3. /\ DOMAIN ops' = DOMAIN ops \union {n} /\ n \notin DOMAIN ops /\ ops'[n] = op
        /\ \A i \in DOMAIN ops : ops'[i] = ops[i]
    BY <1>5, <2>1, <2>2
  <2>4. Made(c) = {}
    BY <1>5, <2>0 DEF Identical, Made
  <2>5. \A d \in Calls : Made(d) \subseteq Made(d)' /\ n \in Made(c)'
    BY <2>3 DEF Made
  <2>6. Origins'
    <3>1. \A i \in DOMAIN ops' : \E d \in Calls :
             Mode[d] = "http" /\ Path[d] \in Drafts /\ i \in Made(d)'
      BY <1>2, <2>0, <2>3, <2>5 DEF Evidence, Origins
    <3> QED BY <1>2, <3>1 DEF Evidence, Origins
  <2>7. OneOp'
    <3>1. \A i \in DOMAIN ops : ~(ops[i].path = Path[c] /\ ops[i].body = Body[c])
      BY <2>4 DEF Made
    <3> QED BY <2>3, <3>1 DEF Evidence, OneOp
  <2>8. Effect'
    <3>1. applied[<<Path[c], Body[c]>>] = 0
      <4>1. acting[Path[c]] = {}
        BY <1>2, <2>0 DEF Evidence, Origins, OwnPaths
      <4> QED BY <2>0, <2>4, <4>1 DEF Evidence, Effect, Made
    <3>2. \A i \in DOMAIN ops' : applied'[<<ops'[i].path, ops'[i].body>>]
                                   = IF ops'[i].status = "succeeded" THEN 1 ELSE 0
      BY <1>2, <2>3, <3>1 DEF Evidence, Effect
    <3>3. \A p \in Paths, b \in Bodies : applied'[<<p, b>>] # 0 =>
             b \in acting'[p] \/ \E i \in DOMAIN ops' : ops'[i].path = p /\ ops'[i].body = b
      BY <1>2, <2>3 DEF Evidence, Effect
    <3> QED BY <1>2, <3>2, <3>3 DEF Evidence, Effect
  <2>9. Grounds'
    <3>1. ASSUME NEW d \in Calls, NEW i \in Made(d)
          PROVE  i \in Made(d)' /\ ops'[i].status = ops[i].status
      BY <2>3, <2>5 DEF Made
    <3> QED BY <1>1, <1>2, <3>1 DEF Evidence, Grounds
  <2> QED BY <1>3, <2>6, <2>7, <2>8, <2>9 DEF Evidence
<1> QED BY <1>4, <1>5 DEF Admit

\* A worker changes one operation's status, and its effect when it succeeds.
LEMMA WorkerEvidence ==
    ASSUME OwnPaths, TypeInv, Evidence, NEW i \in DOMAIN ops,
           WorkerTakes(i) \/ WorkerSucceeds(i) \/ WorkerFails(i)
    PROVE  Evidence'
<1> DEFINE e == <<ops[i].path, ops[i].body>>
<1>1. ops \in Seq(Operation) /\ \A j \in DOMAIN ops : ops[j] \in Operation
  BY DEF TypeInv, WorldFields
<1>2. UNCHANGED <<pc, outcome, file, acting>>
  BY DEF WorkerTakes, WorkerSucceeds, WorkerFails, clientVars
<1>0. PICK s \in Status, r \in BOOLEAN :
         /\ ops' = [ops EXCEPT ![i] = [ops[i] EXCEPT !.status = s, !.result = r]]
         /\ applied' = IF s = "succeeded" THEN [applied EXCEPT ![e] = applied[e] + 1] ELSE applied
         /\ ops[i].status \in {"queued", "running"}
  BY WorkerStep
<1>3. /\ ops[i].status \in {"queued", "running"}
      /\ DOMAIN ops' = DOMAIN ops
      /\ \A j \in DOMAIN ops : ops'[j].path = ops[j].path /\ ops'[j].body = ops[j].body
      /\ \A j \in DOMAIN ops \ {i} : ops'[j].status = ops[j].status
      /\ ops'[i].status = s
  BY <1>0, <1>1 DEF Operation
<1>4. applied' = IF ops'[i].status = "succeeded"
                 THEN [applied EXCEPT ![e] = applied[e] + 1] ELSE applied
  BY <1>0, <1>3
<1>5. e \in Paths \X Bodies /\ applied[e] = 0 /\ acting[ops[i].path] = {}
  <2>1. e \in Paths \X Bodies
    BY <1>1 DEF Operation
  <2>2. applied[e] = 0
    BY <1>3 DEF Evidence, Effect
  <2>3. acting[ops[i].path] = {}
    <3>1. PICK c \in Calls : Mode[c] = "http" /\ Path[c] = ops[i].path
      BY DEF Evidence, Origins, Made
    <3> QED BY <3>1, <2>1 DEF Evidence, Origins, OwnPaths
  <2> QED BY <2>1, <2>2, <2>3
<1>6. \A x \in Paths \X Bodies :
         applied'[x] = IF x = e /\ ops'[i].status = "succeeded" THEN 1 ELSE applied[x]
  BY <1>4, <1>5 DEF TypeInv, WorldFields
<1>7. \A d \in Calls : Made(d)' = Made(d)
  BY <1>3 DEF Made
<1>8. Ways' /\ Origins' /\ OneOp'
  <2>1. Ways'
    BY <1>2 DEF Evidence, Ways
  <2>2. Origins'
    BY <1>2, <1>3, <1>7 DEF Evidence, Origins
  <2>3. OneOp'
    BY <1>3 DEF Evidence, OneOp
  <2> QED BY <2>1, <2>2, <2>3
<1>9. Effect'
  <2>1. ASSUME NEW j \in DOMAIN ops'
        PROVE  applied'[<<ops'[j].path, ops'[j].body>>]
                 = IF ops'[j].status = "succeeded" THEN 1 ELSE 0
    <3>1. ops[j] \in Operation /\ <<ops[j].path, ops[j].body>> \in Paths \X Bodies
      BY <1>1, <1>3, <2>1 DEF Operation
    <3>2. CASE j = i
      BY <1>3, <1>5, <1>6, <3>2
    <3>3. CASE j # i
      <4>1. <<ops[j].path, ops[j].body>> # e
        BY <1>3, <3>3 DEF Evidence, OneOp
      <4> QED BY <1>3, <1>6, <3>1, <3>3, <4>1 DEF Evidence, Effect
    <3> QED BY <3>2, <3>3
  <2>2. ASSUME NEW p \in Paths, NEW b \in acting'[p] PROVE applied'[<<p, b>>] = 1
    <3>1. p # ops[i].path /\ b \in Bodies
      BY <1>2, <1>5 DEF TypeInv, WorldFields
    <3>2. <<p, b>> # e
      BY <3>1
    <3> QED BY <1>2, <1>6, <3>1, <3>2 DEF Evidence, Effect
  <2>3. ASSUME NEW p \in Paths, NEW b \in Bodies, applied'[<<p, b>>] # 0
        PROVE  b \in acting'[p] \/ \E j \in DOMAIN ops' : ops'[j].path = p /\ ops'[j].body = b
    <3>1. CASE <<p, b>> = e
      BY <1>3, <3>1
    <3>2. CASE <<p, b>> # e
      BY <1>2, <1>3, <1>6, <2>3, <3>2 DEF Evidence, Effect
    <3> QED BY <3>1, <3>2
  <2> QED BY <1>2, <2>1, <2>2, <2>3 DEF Evidence, Effect
<1>10. Grounds'
  <2>1. \A d \in Calls : \A j \in Made(d) :
           ops[j].status \notin {"queued", "running"} => ops'[j].status = ops[j].status
    BY <1>3 DEF Made
  <2> QED BY <1>2, <1>7, <2>1 DEF Evidence, Grounds, Terminal
<1> QED BY <1>8, <1>9, <1>10 DEF Evidence

LEMMA MountEvidence ==
    ASSUME OwnPaths, TypeInv, Evidence, NEW p \in Paths,
           MountApplies(p) \/ MountAcknowledges(p) \/ MountRefuses(p)
    PROVE  Evidence'
<1> DEFINE b == file[p].body
           e == <<p, b>>
<1>1. UNCHANGED <<pc, outcome, ops>> /\ \A d \in Calls : Made(d)' = Made(d)
  BY DEF MountApplies, MountAcknowledges, MountRefuses, clientVars, Made
<1>2. file[p].kind = "draft" /\ b \in Bodies
  BY DEF MountApplies, MountAcknowledges, MountRefuses, TypeInv, WorldFields, Content
<1>3. PICK c \in Calls : Mode[c] = "mount" /\ Path[c] = p /\ Body[c] = b
  BY <1>2 DEF Evidence, Origins
<1>4. \A i \in DOMAIN ops : ops[i].path # p
  <2>1. ASSUME NEW i \in DOMAIN ops, ops[i].path = p PROVE FALSE
    <3>1. PICK d \in Calls : Mode[d] = "http" /\ Path[d] = p
      BY <2>1 DEF Evidence, Origins, Made
    <3> QED BY <1>3, <3>1 DEF OwnPaths
  <2> QED BY <2>1
<1>5. \A q \in Paths : file'[q].body = file[q].body
         /\ (file'[q].kind = file[q].kind \/ (q = p /\ file'[q].kind \in {"receipt", "refused"}))
         /\ (file'[q].kind = "receipt" => file[q].kind = "receipt" \/ (q = p /\ b \in acting[p]))
  BY DEF MountApplies, MountAcknowledges, MountRefuses, TypeInv, WorldFields, Content
<1>6. Ways'
  BY <1>1 DEF Evidence, Ways
<1>7. OneOp'
  BY <1>1 DEF Evidence, OneOp
<1>8. CASE acting' = acting /\ applied' = applied
  <2>1. Origins'
    BY <1>1, <1>2, <1>5, <1>8 DEF Evidence, Origins
  <2>2. Effect'
    BY <1>1, <1>5, <1>8 DEF Evidence, Effect
  <2>3. Grounds'
    BY <1>1, <1>8 DEF Evidence, Grounds
  <2> QED BY <1>6, <1>7, <2>1, <2>2, <2>3 DEF Evidence
<1>9. CASE MountApplies(p)
  <2>1. \A q \in Paths : acting'[q] = IF q = p THEN acting[p] \union {b} ELSE acting[q]
    BY <1>9 DEF MountApplies, TypeInv, WorldFields
  <2>2. applied[e] = 0
    BY <1>2, <1>4, <1>9 DEF Evidence, Effect, MountApplies
  <2>3. \A x \in Paths \X Bodies : applied'[x] = IF x = e THEN 1 ELSE applied[x]
    <3>1. applied' = [applied EXCEPT ![e] = applied[e] + 1]
      BY <1>9 DEF MountApplies
    <3> QED BY <1>2, <2>2, <3>1 DEF TypeInv, WorldFields
  <2>4. Origins'
    BY <1>1, <1>3, <1>5, <2>1, <1>9 DEF Evidence, Origins, MountApplies
  <2>5. Effect'
    <3>1. ASSUME NEW i \in DOMAIN ops
          PROVE  applied'[<<ops[i].path, ops[i].body>>]
                   = IF ops[i].status = "succeeded" THEN 1 ELSE 0
      <4>1. <<ops[i].path, ops[i].body>> \in Paths \X Bodies
        <5>1. ops[i] \in Operation
          BY DEF TypeInv, WorldFields
        <5> QED BY <5>1 DEF Operation
      <4>2. <<ops[i].path, ops[i].body>> # e
        BY <1>4
      <4> QED BY <2>3, <4>1, <4>2 DEF Evidence, Effect
    <3>2. ASSUME NEW q \in Paths, NEW x \in acting'[q] PROVE applied'[<<q, x>>] = 1
      <4>1. x \in Bodies
        BY <1>2, <2>1, <3>2 DEF TypeInv, WorldFields
      <4>2. x \in acting[q] \/ <<q, x>> = e
        BY <2>1, <3>2
      <4> QED BY <2>3, <3>2, <4>1, <4>2 DEF Evidence, Effect
    <3>3. ASSUME NEW q \in Paths, NEW x \in Bodies, applied'[<<q, x>>] # 0
          PROVE  x \in acting'[q] \/ \E i \in DOMAIN ops : ops[i].path = q /\ ops[i].body = x
      <4>1. CASE <<q, x>> = e
        BY <2>1, <4>1
      <4>2. CASE <<q, x>> # e
        BY <2>1, <2>3, <3>3, <4>2 DEF Evidence, Effect
      <4> QED BY <4>1, <4>2
    <3>4. \A q \in Paths : file'[q].kind = "receipt" => file'[q].body \in acting'[q]
      BY <1>5, <2>1 DEF Evidence, Effect
    <3> QED BY <1>1, <3>1, <3>2, <3>3, <3>4 DEF Effect
  <2>6. Grounds'
    BY <1>1, <2>1 DEF Evidence, Grounds
  <2> QED BY <1>6, <1>7, <2>4, <2>5, <2>6 DEF Evidence
<1> QED BY <1>8, <1>9 DEF MountAcknowledges, MountRefuses

LEMMA InitEvidence == Init => Evidence
<1> SUFFICES ASSUME Init PROVE Evidence
  OBVIOUS
<1>1. Ways /\ Grounds
  BY DEF Init, Ways, Grounds
<1>2. \A p \in Paths : file[p].kind = "none"
  BY DEF Init
<1>3. Origins /\ OneOp
  BY <1>2 DEF Init, Origins, OneOp
<1>4. Effect
  BY <1>2 DEF Init, Effect
<1> QED BY <1>1, <1>3, <1>4 DEF Evidence

LEMMA NextEvidence ==
    ASSUME OwnPaths, TypeInv, Evidence, Next
    PROVE  Evidence'
<1>1. ASSUME NEW c \in Calls, Client(c) \/ Fails(c) \/ Admit(c) \/ Retry(c) PROVE Evidence'
  BY <1>1, ClientEvidence, MountWritesEvidence, AdmitEvidence, AnsweredEvidence
     DEF Client, Fails
<1>2. ASSUME Relayfile PROVE Evidence'
  BY <1>2, WorkerEvidence, MountEvidence DEF Relayfile
<1> QED BY <1>1, <1>2 DEF Next

LEMMA StutterEvidence == ASSUME Evidence, UNCHANGED vars PROVE Evidence'
BY DEF Evidence, Ways, Origins, OneOp, Effect, Grounds, Made, vars

LEMMA EvidenceInvariant == ASSUME OwnPaths PROVE Spec => []Evidence
BY InitEvidence, NextEvidence, StutterEvidence, TypesInvariant, PTL DEF Spec

\* The effects of the draft of c.
LEMMA EffectsOf ==
    ASSUME OwnPaths, TypeInv, Evidence, NEW c \in Calls
    PROVE  /\ Effects(c) \in {0, 1}
           /\ Body[c] \in acting[Path[c]] => Effects(c) = 1
           /\ \A i \in Made(c) : Effects(c) = IF ops[i].status = "succeeded" THEN 1 ELSE 0
<1>1. Path[c] \in Paths /\ Body[c] \in Bodies
  OBVIOUS
<1>2. Body[c] \in acting[Path[c]] => Effects(c) = 1
  BY <1>1 DEF Evidence, Effect, Effects
<1>3. \A i \in Made(c) : Effects(c) = IF ops[i].status = "succeeded" THEN 1 ELSE 0
  BY DEF Evidence, Effect, Effects, Made
<1>4. Effects(c) # 0 => Body[c] \in acting[Path[c]] \/ Made(c) # {}
  BY <1>1 DEF Evidence, Effect, Effects, Made
<1> QED BY <1>2, <1>3, <1>4

(* A write that is reported as confirmed has been applied at the provider,   *)
(* over a mount and over HTTP, when no other call writes its path.           *)
THEOREM ConfirmedIsApplied == ASSUME OwnPaths PROVE Spec => []ConfirmedMeansApplied
<1>1. TypeInv /\ Evidence => ConfirmedMeansApplied
  <2> SUFFICES ASSUME TypeInv, Evidence, NEW c \in Calls, Reported(c) = "confirmed"
               PROVE  Effects(c) > 0
    BY DEF ConfirmedMeansApplied
  <2>1. outcome[c] = "confirmed"
    BY DEF Reported
  <2>2. Body[c] \in acting[Path[c]] \/ \E i \in Made(c) : ops[i].status = "succeeded"
    BY <2>1 DEF Evidence, Grounds
  <2>3. Effects(c) = 1
    BY <2>2, EffectsOf
  <2> QED BY <2>3
<1> QED BY <1>1, TypesInvariant, EvidenceInvariant, PTL

(* A write that is reported as dropped has no effect at the provider, and    *)
(* gets none afterwards.                                                     *)
THEOREM DroppedIsNeverApplied == ASSUME OwnPaths PROVE Spec => []DroppedMeansNeverApplied
<1>1. TypeInv /\ Evidence => DroppedMeansNeverApplied
  <2> SUFFICES ASSUME TypeInv, Evidence, NEW c \in Calls, Reported(c) = "dropped"
               PROVE  Effects(c) = 0
    BY DEF DroppedMeansNeverApplied
  <2>1. outcome[c] = "terminal_error"
    BY DEF Reported
  <2>2. PICK i \in Made(c) : ops[i].status \in Terminal
    BY <2>1 DEF Evidence, Grounds
  <2>3. ops[i].status # "succeeded"
    BY <2>2 DEF Terminal
  <2> QED BY <2>2, <2>3, EffectsOf
<1> QED BY <1>1, TypesInvariant, EvidenceInvariant, PTL

(* However often answers are lost, PUTs repeated and retryable errors        *)
(* retried, a create draft has one effect at most.                           *)
THEOREM DraftsAreAppliedOnce == ASSUME OwnPaths PROVE Spec => []AppliedOnce
<1>1. TypeInv /\ Evidence => AppliedOnce
  <2> SUFFICES ASSUME TypeInv, Evidence, NEW c \in Calls PROVE Effects(c) <= 1
    BY DEF AppliedOnce
  <2>1. Effects(c) \in {0, 1}
    BY EffectsOf
  <2> QED BY <2>1
<1> QED BY <1>1, TypesInvariant, EvidenceInvariant, PTL
=============================================================================
