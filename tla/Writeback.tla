----------------------------- MODULE Writeback ------------------------------
(* writeJsonFile of core/src/vfs-client and created of relay-helpers: a call *)
(* hands a JSON draft to Relayfile, through a mounted directory or over HTTP,*)
(* and waits a bounded time for the receipt of the provider call that        *)
(* Relayfile's worker makes from it.  What the caller is told is compared    *)
(* with what happened at the provider.                                       *)
EXTENDS Naturals, Sequences

CONSTANTS Calls,       \* the calls of writeJsonFile
          Mode,        \* how each one reaches Relayfile: "mount" or "http"
          Paths, Path, \* the draft's path
          Bodies, Body,\* the draft's content
          Drafts,      \* the paths that name a create draft (draftFile)
          Plain,       \* the paths Relayfile writes back to no provider
          ReceiptLike, \* the bodies that have an id, path, ... of their own
          Waits,       \* the calls with writebackTimeoutMs > 0
          MaxOps, MaxPuts \* bounds: operations minted, PUTs of one call

ASSUME CallsAssumption ==
    /\ Mode \in [Calls -> {"mount", "http"}]
    /\ Bodies # {}
    /\ Path \in [Calls -> Paths] /\ Body \in [Calls -> Bodies]
    /\ Drafts \subseteq Paths /\ Plain \subseteq Paths
    /\ ReceiptLike \subseteq Bodies /\ Waits \subseteq Calls
    /\ MaxOps \in Nat /\ MaxPuts \in Nat \ {0}

VARIABLES pc,       \* where each call stands
          puts,     \* the PUTs it has sent, its own and the SDK's retries
          opOf,     \* the operation it polls, 0 before it knows one
          outcome,  \* what it returned or threw
          ops,      \* Relayfile's writeback operations
          file,     \* the mounted files
          acting,   \* the drafts the mount's worker has applied, not yet receipted
          applied   \* history: provider effects per path and body

clientVars == <<pc, puts, opOf, outcome>>
worldVars == <<ops, file, acting, applied>>
vars == <<pc, puts, opOf, outcome, ops, file, acting, applied>>

Content == [kind : {"none", "draft", "refused", "receipt"}, body : Bodies]
Outcomes == {"none", "confirmed", "pending", "pending_error", "terminal_error",
             "receipt_error", "admission_timeout", "busy", "failed"}

\* The errors whose retryable flag is set.
Retryable == {"pending_error", "admission_timeout", "busy"}

Init == /\ pc = [c \in Calls |-> "start"]
        /\ puts = [c \in Calls |-> 0]
        /\ opOf = [c \in Calls |-> 0]
        /\ outcome = [c \in Calls |-> "none"]
        /\ ops = <<>>
        /\ file \in [Paths -> {[kind |-> "none", body |-> b] : b \in {CHOOSE b \in Bodies : TRUE}}]
        /\ acting = [p \in Paths |-> {}]
        /\ applied = [e \in Paths \X Bodies |-> 0]

Goes(c, from, to) ==
    /\ pc[c] = from
    /\ pc' = [pc EXCEPT ![c] = to]
    /\ UNCHANGED <<opOf, outcome>>

Settle(c, from, o) ==
    /\ pc[c] = from
    /\ pc' = [pc EXCEPT ![c] = "settled"]
    /\ outcome' = [outcome EXCEPT ![c] = o]
    /\ UNCHANGED <<puts, opOf>>

-----------------------------------------------------------------------------
(* Over a mount: write to a temporary file, rename it, poll the same path.   *)

MountWrites(c) ==
    /\ Mode[c] = "mount"
    /\ Goes(c, "start", "wait")
    /\ file' = [file EXCEPT ![Path[c]] = [kind |-> "draft", body |-> Body[c]]]
    /\ UNCHANGED <<puts, ops, acting, applied>>

MountFails(c) ==
    /\ Mode[c] = "mount"
    /\ Settle(c, "start", "failed")
    /\ UNCHANGED worldVars

(* (mutant) the draft just written is not told from a receipt *)
IsReceiptEager(c, content) ==
    \/ content.kind = "receipt"
    \/ content.kind = "draft" /\ content.body \in ReceiptLike

\* JSON that differs from the own draft and has a field that receipts have.
IsReceipt(c, content) ==
    \/ content.kind = "receipt"
    \/ /\ content.kind \in {"draft", "refused"}
       /\ content.body # Body[c]
       /\ content.body \in ReceiptLike

MountReceipt(c) ==
    /\ c \in Waits
    /\ IsReceipt(c, file[Path[c]])
    /\ Settle(c, "wait", "confirmed")
    /\ UNCHANGED worldVars

\* The wait is over, or there was none.
MountPending(c) == Settle(c, "wait", "pending") /\ UNCHANGED worldVars

-----------------------------------------------------------------------------
(* Over HTTP, phase one: admission.  The SDK repeats a PUT that was refused  *)
(* or not answered, until the deadline aborts it.                            *)

HttpStart(c) ==
    /\ Mode[c] = "http"
    /\ Goes(c, "start", "put")
    /\ UNCHANGED puts /\ UNCHANGED worldVars

(* (mutant) drafts carry no content identity *)
IdenticalNever(c) == {}

\* Operations the server takes for the same: create drafts carry an identity
\* made of the workspace, the path and the hash of the content.
Identical(c) ==
    {i \in DOMAIN ops : /\ Path[c] \in Drafts
                        /\ ops[i].path = Path[c]
                        /\ ops[i].body = Body[c]}

\* The server accepts the PUT and mints an operation, unless it knows it or no
\* provider is concerned.
Admit(c) ==
    /\ Goes(c, "put", "answer")
    /\ puts[c] < MaxPuts
    /\ puts' = [puts EXCEPT ![c] = @ + 1]
    /\ IF Path[c] \in Plain \/ Identical(c) # {} THEN UNCHANGED ops
       ELSE /\ Len(ops) < MaxOps
            /\ ops' = Append(ops, [path |-> Path[c], body |-> Body[c],
                                   status |-> "queued", result |-> FALSE])
    /\ UNCHANGED <<file, acting, applied>>

\* The operation the answer names: the one minted last that is this draft.
Minted(c) ==
    CHOOSE i \in DOMAIN ops :
        /\ ops[i].path = Path[c] /\ ops[i].body = Body[c]
        /\ \A j \in DOMAIN ops : ops[j].path = Path[c] /\ ops[j].body = Body[c] => j <= i

\* The answer names the operation; without a wait the call returns at once.
Answered(c) ==
    /\ Path[c] \notin Plain
    /\ pc[c] = "answer"
    /\ opOf' = [opOf EXCEPT ![c] = Minted(c)]
    /\ IF c \in Waits
       THEN pc' = [pc EXCEPT ![c] = "poll"] /\ UNCHANGED outcome
       ELSE /\ pc' = [pc EXCEPT ![c] = "settled"]
            /\ outcome' = [outcome EXCEPT ![c] = "pending"]
    /\ UNCHANGED puts /\ UNCHANGED worldVars

\* There is no operation to wait for.
AnsweredPlain(c) ==
    /\ Path[c] \in Plain
    /\ Settle(c, "answer", "pending")
    /\ UNCHANGED worldVars

\* The answer is lost and the SDK sends the PUT again, or gives up.
AnswerLost(c) ==
    /\ \/ Goes(c, "answer", "put") /\ UNCHANGED puts
       \/ Settle(c, "answer", "failed")
    /\ UNCHANGED worldVars

(* (mutant) the missing id goes unnoticed *)
AnswerWithoutOpUnnoticed(c) ==
    /\ Goes(c, "answer", "poll")
    /\ UNCHANGED puts /\ UNCHANGED worldVars

\* The queued answer of a writeback path has no opId.
AnswerWithoutOp(c) ==
    /\ Path[c] \notin Plain
    /\ Settle(c, "answer", "receipt_error")
    /\ UNCHANGED worldVars

\* Write admission is full (429 workspace_busy) beyond the SDK's retries, or
\* the request fails otherwise.
Refused(c) == \E o \in {"busy", "failed"} : Settle(c, "put", o) /\ UNCHANGED worldVars

\* The admission deadline aborts the request that is in flight.
AdmissionDeadline(c) ==
    /\ c \in Waits
    /\ \E from \in {"put", "answer"} : Settle(c, from, "admission_timeout")
    /\ UNCHANGED worldVars

-----------------------------------------------------------------------------
(* Phase two: poll the operation.  An operation that is not terminal, or not *)
(* readable yet (404), leaves everything as it is.                           *)

Terminal == {"failed", "dead_lettered", "canceled"}

(* (mutant) every status but succeeded ends the wait *)
PollTerminalHasty(c) ==
    /\ pc[c] = "poll"
    /\ ops[opOf[c]].status # "succeeded"
    /\ Settle(c, "poll", "terminal_error")
    /\ UNCHANGED worldVars

PollTerminal(c) ==
    /\ pc[c] = "poll"
    /\ ops[opOf[c]].status \in Terminal
    /\ Settle(c, "poll", "terminal_error")
    /\ UNCHANGED worldVars

PollSucceeded(c) ==
    /\ pc[c] = "poll"
    /\ ops[opOf[c]].status = "succeeded"
    /\ Settle(c, "poll", IF ops[opOf[c]].result THEN "confirmed" ELSE "receipt_error")
    /\ UNCHANGED worldVars

\* A poll fails with anything but 404.
PollFails(c) == Settle(c, "poll", "failed") /\ UNCHANGED worldVars

(* (mutant) an operation that was never readable is waited for without end *)
PollDeadlineObserved(c) ==
    /\ pc[c] = "poll"
    /\ ops[opOf[c]].status # "queued"
    /\ Settle(c, "poll", "pending_error")
    /\ UNCHANGED worldVars

\* The code tests the deadline between the answers of getOp only: that this is
\* eventually taken says that each of them comes.
PollDeadline(c) == Settle(c, "poll", "pending_error") /\ UNCHANGED worldVars

\* The caller calls again, with the same draft, what failed as retryable.
Retry(c) ==
    /\ outcome[c] \in Retryable
    /\ puts[c] < MaxPuts
    /\ pc' = [pc EXCEPT ![c] = "start"]
    /\ outcome' = [outcome EXCEPT ![c] = "none"]
    /\ opOf' = [opOf EXCEPT ![c] = 0]
    /\ UNCHANGED puts /\ UNCHANGED worldVars

-----------------------------------------------------------------------------
(* Relayfile's workers: one turns operations into provider calls, one does   *)
(* so with the drafts of a mount and writes the receipts to the same path.   *)

WorkerTakes(i) ==
    /\ ops[i].status = "queued"
    /\ \E s \in {"running", "canceled"} : ops' = [ops EXCEPT ![i].status = s]
    /\ UNCHANGED clientVars /\ UNCHANGED <<file, acting, applied>>

WorkerSucceeds(i) ==
    /\ ops[i].status = "running"
    /\ \E r \in BOOLEAN : ops' = [ops EXCEPT ![i].status = "succeeded", ![i].result = r]
    /\ applied' = [applied EXCEPT ![<<ops[i].path, ops[i].body>>] = @ + 1]
    /\ UNCHANGED clientVars /\ UNCHANGED <<file, acting>>

WorkerFails(i) ==
    /\ ops[i].status = "running"
    /\ \E s \in {"failed", "dead_lettered"} : ops' = [ops EXCEPT ![i].status = s]
    /\ UNCHANGED clientVars /\ UNCHANGED <<file, acting, applied>>

MountApplies(p) ==
    /\ file[p].kind = "draft"
    /\ file[p].body \notin acting[p]
    /\ acting' = [acting EXCEPT ![p] = @ \union {file[p].body}]
    /\ applied' = [applied EXCEPT ![<<p, file[p].body>>] = @ + 1]
    /\ UNCHANGED clientVars /\ UNCHANGED <<ops, file>>

MountAcknowledges(p) ==
    /\ file[p].kind = "draft" /\ file[p].body \in acting[p]
    /\ file' = [file EXCEPT ![p].kind = "receipt"]
    /\ UNCHANGED clientVars /\ UNCHANGED <<ops, acting, applied>>

MountRefuses(p) ==
    /\ file[p].kind = "draft" /\ file[p].body \notin acting[p]
    /\ file' = [file EXCEPT ![p].kind = "refused"]
    /\ UNCHANGED clientVars /\ UNCHANGED <<ops, acting, applied>>

Client(c) ==
    \/ MountWrites(c) \/ MountReceipt(c) \/ MountPending(c)
    \/ HttpStart(c) \/ Answered(c) \/ AnsweredPlain(c) \/ AdmissionDeadline(c)
    \/ PollTerminal(c) \/ PollSucceeded(c) \/ PollDeadline(c)

Fails(c) ==
    \/ MountFails(c) \/ AnswerLost(c) \/ AnswerWithoutOp(c) \/ Refused(c) \/ PollFails(c)

Relayfile ==
    \/ \E i \in DOMAIN ops : WorkerTakes(i) \/ WorkerSucceeds(i) \/ WorkerFails(i)
    \/ \E p \in Paths : MountApplies(p) \/ MountAcknowledges(p) \/ MountRefuses(p)

Next == \/ \E c \in Calls : Client(c) \/ Fails(c) \/ Admit(c) \/ Retry(c)
        \/ Relayfile

Spec == Init /\ [][Next]_vars

\* Timers fire and answers are read, and getOp always has one.  Nothing else is
\* asked of the server and the workers, and nothing needs to fail.
FairSpec == Spec /\ \A c \in Calls : WF_vars(Client(c))

-----------------------------------------------------------------------------
(* What created makes of it for the caller of an ergonomic helper.           *)
Reported(c) ==
    IF outcome[c] \in {"confirmed", "none"} THEN outcome[c]
    ELSE IF outcome[c] \in {"pending", "pending_error"} THEN "pending"
    ELSE IF outcome[c] = "terminal_error" THEN "dropped"
    ELSE "thrown"

Effects(c) == applied[<<Path[c], Body[c]>>]

(* Every field keeps its range; only a call that has settled has an outcome, *)
(* and a call that polls knows an operation made from its own draft.         *)
TypeOK ==
    /\ pc \in [Calls -> {"start", "wait", "put", "answer", "poll", "settled"}]
    /\ puts \in [Calls -> 0..MaxPuts]
    /\ outcome \in [Calls -> Outcomes]
    /\ \A c \in Calls : (outcome[c] # "none") = (pc[c] = "settled")
    /\ \A i \in DOMAIN ops :
          /\ ops[i].path \in Paths /\ ops[i].body \in Bodies /\ ops[i].result \in BOOLEAN
          /\ ops[i].status \in {"queued", "running", "succeeded"} \union Terminal
    /\ \A c \in Calls : pc[c] = "poll" =>
          /\ opOf[c] \in DOMAIN ops
          /\ ops[opOf[c]].path = Path[c] /\ ops[opOf[c]].body = Body[c]
    /\ file \in [Paths -> Content]
    /\ acting \in [Paths -> SUBSET Bodies]
    /\ applied \in [Paths \X Bodies -> Nat]

(* "A provider receipt was observed": what is reported as confirmed has been *)
(* applied at the provider.                                                  *)
ConfirmedMeansApplied == \A c \in Calls : Reported(c) = "confirmed" => Effects(c) > 0

(* "dropped is reserved for positive evidence that the draft will not be     *)
(* handled": no effect was made of it, and as long as the caller is told so  *)
(* none will be.                                                             *)
DroppedMeansNeverApplied == \A c \in Calls : Reported(c) = "dropped" => Effects(c) = 0

(* A create draft is applied once at most, although answers get lost, the    *)
(* SDK repeats PUTs, deadlines abort admitted ones, and the caller retries   *)
(* every error that is flagged retryable.                                    *)
AppliedOnce == \A c \in Calls : Path[c] \in Drafts => Effects(c) <= 1

(* Every call that waits at all returns or throws, whatever the workers do,  *)
(* as long as polls are answered: a getOp without an answer is waited for.   *)
CallSettles == \A c \in Waits : pc[c] \in {"wait", "poll", "put"} ~> pc[c] = "settled"
=============================================================================
