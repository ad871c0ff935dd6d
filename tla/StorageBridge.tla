--------------------------- MODULE StorageBridge ----------------------------
(***************************************************************************)
(* packages/core/src/storage-bridge: a provider notification is expanded   *)
(* into events (the Bridge classes of s3, gcs, box, ...), each event is    *)
(* published once, and every subscribed worker fetches the content and     *)
(* ingests it into Relayfile, retrying and finally dead-lettering.         *)
(*                                                                         *)
(* Several notifications are in flight at once, redeliveries of the same   *)
(* batch among them; every await is a point where another one may run.     *)
(* An event stands for its eventId.                                        *)
(***************************************************************************)
EXTENDS Naturals, Sequences

CONSTANTS Notifications,  \* the deliveries the provider makes
          Events,         \* the event ids
          Batch,          \* the events of each notification, in order
          Deleted,        \* the events whose changeType is "deleted"
          Workers,        \* the adapter workers of the process
          MaxAttempts,    \* retryPolicy.maxAttempts
          Deployments     \* the ways the process is deployed, one of them here

Stores == {"publisher", "workers"}  \* who keeps claims

FaultKinds == {"claim_error",    \* claim rejects, recorded by the store or not
               "fetch_error",    \* fetchContent throws
               "ingest_error",   \* ingestWebhook is refused
               "lost_response",  \* ingestWebhook is applied, its answer lost
               "sink_error",     \* deadLetterSink.push throws
               "hook_error"}     \* onSubscriberError throws

ASSUME BatchAssumption == Batch \in [Notifications -> Seq(Events) \ {<<>>}]
ASSUME DeletedAssumption == Deleted \subseteq Events
ASSUME AttemptsAssumption == MaxAttempts \in Nat /\ MaxAttempts >= 1
ASSUME DeploymentAssumption ==
    Deployments \subseteq
        [ttl : BOOLEAN,             \* idempotencyTtlMs is set: publish claims expire
         durable : SUBSET Stores,   \* the idempotency stores that outlive the process
         workers : SUBSET Workers,  \* the adapter workers it may start
         faults : SUBSET FaultKinds,
         restarts : Nat]            \* bound: how often the process restarts

VARIABLES stage,        \* where each handleNotification stands
          at,           \* the index of its loop over the events
          published,    \* claims of the publisher: storage-bridge:publish:<id>
          subscribers,  \* the workers that are started
          handling,     \* the handleEvent of a worker for a notification
          attempts,     \* its number of calls of ingestWebhook
          claimed,      \* claims of each worker: storage-bridge:ingest:<id>
          outcome,      \* what became of an event at a worker
          received,     \* how often Relayfile has applied it
          crashes,      \* restarts so far
          deployment    \* how the process is deployed

bridgeVars == <<stage, at, published>>
workerVars == <<attempts, claimed, outcome, received>>
vars == <<stage, at, published, subscribers, handling, attempts, claimed,
          outcome, received, crashes, deployment>>

Ttl == deployment.ttl
Durable == "workers" \in deployment.durable
Lasting == "publisher" \in deployment.durable
Faults == deployment.faults

Current(n) == Batch[n][at[n]]
Running == {"claim", "fetch", "ingest", "backoff", "bury"}
Pairs == Workers \X Notifications

TypeOK ==
    /\ stage \in [Notifications ->
                    {"unseen", "publish", "deliver", "answered", "failed", "lost"}]
    /\ at \in [Notifications -> Nat]
    /\ \A n \in Notifications : at[n] \in 1 .. Len(Batch[n])
    /\ published \subseteq Events
    /\ subscribers \subseteq Workers
    /\ handling \in [Pairs -> Running \cup {"none", "resolved", "rejected", "unclaimed"}]
    /\ attempts \in [Pairs -> 0 .. MaxAttempts]
    /\ claimed \in [Workers -> SUBSET Events]
    /\ outcome \in [Workers \X Events ->
                      {"none", "delivered", "dead", "unrecorded"}]
    /\ received \in [Workers \X Events -> Nat]
    /\ deployment \in Deployments
    /\ crashes \in 0 .. deployment.restarts

Init == /\ stage = [n \in Notifications |-> "unseen"]
        /\ at = [n \in Notifications |-> 1]
        /\ published = {}
        /\ subscribers = {}
        /\ handling = [p \in Pairs |-> "none"]
        /\ attempts = [p \in Pairs |-> 0]
        /\ claimed = [w \in Workers |-> {}]
        /\ outcome = [q \in Workers \X Events |-> "none"]
        /\ received = [q \in Workers \X Events |-> 0]
        /\ crashes = 0
        /\ deployment \in Deployments

-----------------------------------------------------------------------------
(* Workers subscribe and unsubscribe; both are idempotent.                 *)

Start(w) == /\ w \in deployment.workers \ subscribers
            /\ subscribers' = subscribers \cup {w}
            /\ UNCHANGED <<bridgeVars, workerVars, handling, crashes>>

Stop(w) == /\ w \in subscribers
           /\ subscribers' = subscribers \ {w}
           /\ UNCHANGED <<bridgeVars, workerVars, handling, crashes>>

-----------------------------------------------------------------------------
(* The bridge: one notification, its events one after the other.           *)

Receive(n) == /\ stage[n] = "unseen"
              /\ stage' = [stage EXCEPT ![n] = "publish"]
              /\ UNCHANGED <<at, published, subscribers, handling, workerVars,
                             crashes>>

\* publish resolved: the loop goes on with the next event, or returns.
Continue(n) ==
    IF at[n] < Len(Batch[n])
    THEN /\ at' = [at EXCEPT ![n] = @ + 1]
         /\ stage' = [stage EXCEPT ![n] = "publish"]
    ELSE /\ stage' = [stage EXCEPT ![n] = "answered"]
         /\ UNCHANGED at

\* The claim was taken before: {published: false, duplicate: true}.
PublishDuplicate(n) ==
    /\ stage[n] = "publish"
    /\ Current(n) \in published
    /\ Continue(n)
    /\ UNCHANGED <<published, subscribers, handling, workerVars, crashes>>

\* (mutant) events are pushed without claiming their id
PublishUnclaimed(n) ==
    /\ stage[n] = "publish"
    /\ handling' = [p \in Pairs |->
                      IF p[2] # n THEN handling[p]
                      ELSE IF p[1] \in subscribers THEN "claim" ELSE "none"]
    /\ attempts' = [p \in Pairs |-> IF p[2] = n THEN 0 ELSE attempts[p]]
    /\ stage' = [stage EXCEPT ![n] = "deliver"]
    /\ UNCHANGED <<at, published, subscribers, claimed, outcome, received, crashes>>

\* The claim is won and the event is handed to the workers subscribed now.
Publish(n) ==
    /\ stage[n] = "publish"
    /\ Current(n) \notin published
    /\ published' = published \cup {Current(n)}
    /\ handling' = [p \in Pairs |->
                      IF p[2] # n THEN handling[p]
                      ELSE IF p[1] \in subscribers THEN "claim" ELSE "none"]
    /\ attempts' = [p \in Pairs |-> IF p[2] = n THEN 0 ELSE attempts[p]]
    /\ stage' = [stage EXCEPT ![n] = "deliver"]
    /\ UNCHANGED <<at, subscribers, claimed, outcome, received, crashes>>

\* claim rejects, which only a store outside the process can: handleNotification
\* rejects without publishing the rest of the batch.
PublishClaimFails(n) ==
    /\ "claim_error" \in Faults /\ Lasting
    /\ stage[n] = "publish"
    /\ stage' = [stage EXCEPT ![n] = "failed"]
    /\ published' \in {published, published \cup {Current(n)}}
    /\ UNCHANGED <<at, subscribers, handling, workerVars, crashes>>

\* Promise.all has seen every subscriber settle; their errors went to the hook.
Published(n) ==
    /\ stage[n] = "deliver"
    /\ \A w \in Workers : handling[<<w, n>>] \notin Running
    /\ Continue(n)
    /\ UNCHANGED <<published, subscribers, handling, workerVars, crashes>>

\* The hook threw: Promise.all rejects at once, the other handlers run on, and
\* handleNotification rejects without publishing the rest of the batch.
PublishRejects(n) ==
    /\ "hook_error" \in Faults
    /\ stage[n] = "deliver"
    /\ \E w \in Workers : handling[<<w, n>>] \in {"rejected", "unclaimed"}
    /\ stage' = [stage EXCEPT ![n] = "failed"]
    /\ UNCHANGED <<at, published, subscribers, handling, workerVars, crashes>>

\* A claim with a time to live is pruned.
Expire(e) == /\ Ttl
             /\ e \in published
             /\ published' = published \ {e}
             /\ UNCHANGED <<stage, at, subscribers, handling, workerVars, crashes>>

-----------------------------------------------------------------------------
(* A worker: handleEvent.                                                  *)

HandlerMoves(w, n, from, to) ==
    /\ handling[<<w, n>>] = from
    /\ handling' = [handling EXCEPT ![<<w, n>>] = to]
    /\ UNCHANGED <<bridgeVars, subscribers, crashes>>

HandlerDuplicate(w, n) ==
    /\ HandlerMoves(w, n, "claim", "resolved")
    /\ Current(n) \in claimed[w]
    /\ UNCHANGED workerVars

\* (mutant) the result of claim is ignored
HandlerClaimsUnchecked(w, n) ==
    /\ HandlerMoves(w, n, "claim", "fetch")
    /\ claimed' = [claimed EXCEPT ![w] = @ \cup {Current(n)}]
    /\ UNCHANGED <<attempts, outcome, received>>

HandlerClaims(w, n) ==
    /\ HandlerMoves(w, n, "claim", "fetch")
    /\ Current(n) \notin claimed[w]
    /\ claimed' = [claimed EXCEPT ![w] = @ \cup {Current(n)}]
    /\ UNCHANGED <<attempts, outcome, received>>

\* claim rejects, outside the try block: nothing is dead-lettered.
HandlerClaimFails(w, n) ==
    /\ "claim_error" \in Faults /\ Durable
    /\ HandlerMoves(w, n, "claim", "unclaimed")
    /\ claimed' \in {claimed, [claimed EXCEPT ![w] = @ \cup {Current(n)}]}
    /\ UNCHANGED <<attempts, outcome, received>>

\* The content is read, except for a deletion, and the envelope is built.
FetchContent(w, n) ==
    /\ HandlerMoves(w, n, "fetch", "ingest")
    /\ UNCHANGED workerVars

\* (mutant) the fetch stands outside the try block
FetchFailsUncaught(w, n) ==
    /\ "fetch_error" \in Faults
    /\ Current(n) \notin Deleted
    /\ HandlerMoves(w, n, "fetch", "rejected")
    /\ UNCHANGED workerVars

FetchFails(w, n) ==
    /\ "fetch_error" \in Faults
    /\ Current(n) \notin Deleted
    /\ HandlerMoves(w, n, "fetch", "bury")
    /\ UNCHANGED workerVars

CountAttempt(w, n) == attempts' = [attempts EXCEPT ![<<w, n>>] = @ + 1]

\* Relayfile applies the webhook; the answer arrives.
IngestDelivers(w, n) ==
    /\ HandlerMoves(w, n, "ingest", "resolved")
    /\ CountAttempt(w, n)
    /\ outcome' = [outcome EXCEPT ![<<w, Current(n)>>] = "delivered"]
    /\ received' = [received EXCEPT ![<<w, Current(n)>>] = @ + 1]
    /\ UNCHANGED claimed

\* (mutant) one attempt too many
AfterFailureOnceMore(w, n) ==
    IF attempts[<<w, n>>] + 1 <= MaxAttempts THEN "backoff" ELSE "bury"

\* retry: sleep and call again, or give the last error to handleEvent.
AfterFailure(w, n) ==
    IF attempts[<<w, n>>] + 1 < MaxAttempts THEN "backoff" ELSE "bury"

IngestFails(w, n) ==
    /\ "ingest_error" \in Faults
    /\ HandlerMoves(w, n, "ingest", AfterFailure(w, n))
    /\ CountAttempt(w, n)
    /\ UNCHANGED <<claimed, outcome, received>>

IngestAnswerLost(w, n) ==
    /\ "lost_response" \in Faults
    /\ HandlerMoves(w, n, "ingest", AfterFailure(w, n))
    /\ CountAttempt(w, n)
    /\ received' = [received EXCEPT ![<<w, Current(n)>>] = @ + 1]
    /\ UNCHANGED <<claimed, outcome>>

Backoff(w, n) == /\ HandlerMoves(w, n, "backoff", "ingest")
                 /\ UNCHANGED workerVars

\* (mutant) the claim is released for a later redelivery
DeadLetterReleases(w, n) ==
    /\ HandlerMoves(w, n, "bury", "rejected")
    /\ outcome' = [outcome EXCEPT ![<<w, Current(n)>>] = "dead"]
    /\ claimed' = [claimed EXCEPT ![w] = @ \ {Current(n)}]
    /\ UNCHANGED <<attempts, received>>

\* (mutant) the error is thrown before the dead letter is recorded
DeadLetterSkipped(w, n) ==
    /\ HandlerMoves(w, n, "bury", "rejected")
    /\ UNCHANGED workerVars

\* The dead letter is recorded and the error is thrown to the publisher.  The
\* claim is kept.
DeadLetter(w, n) ==
    /\ HandlerMoves(w, n, "bury", "rejected")
    /\ outcome' = [outcome EXCEPT ![<<w, Current(n)>>] = "dead"]
    /\ UNCHANGED <<attempts, claimed, received>>

DeadLetterFails(w, n) ==
    /\ "sink_error" \in Faults
    /\ HandlerMoves(w, n, "bury", "rejected")
    /\ outcome' = [outcome EXCEPT ![<<w, Current(n)>>] = "unrecorded"]
    /\ UNCHANGED <<attempts, claimed, received>>

-----------------------------------------------------------------------------
(* The process restarts: what was in flight is gone, and so are the claims *)
(* in a store that is not durable.  Settled events stay settled.           *)

Crash ==
    /\ crashes < deployment.restarts
    /\ crashes' = crashes + 1
    /\ stage' = [n \in Notifications |->
                   IF stage[n] \in {"publish", "deliver"} THEN "lost" ELSE stage[n]]
    /\ handling' = [p \in Pairs |-> "none"]
    /\ attempts' = [p \in Pairs |-> 0]
    /\ subscribers' = {}
    /\ published' = IF Lasting THEN published ELSE {}
    /\ claimed' = IF Durable THEN claimed ELSE [w \in Workers |-> {}]
    /\ UNCHANGED <<at, outcome, received>>

Bridge(n) == \/ PublishDuplicate(n)
             \/ Publish(n)
             \/ PublishClaimFails(n)
             \/ Published(n)
             \/ PublishRejects(n)

Handler(w, n) == \/ HandlerDuplicate(w, n)
                 \/ HandlerClaims(w, n)
                 \/ HandlerClaimFails(w, n)
                 \/ FetchContent(w, n)
                 \/ FetchFails(w, n)
                 \/ IngestDelivers(w, n)
                 \/ IngestFails(w, n)
                 \/ IngestAnswerLost(w, n)
                 \/ Backoff(w, n)
                 \/ DeadLetter(w, n)
                 \/ DeadLetterFails(w, n)

Step == \/ \E w \in Workers : Start(w) \/ Stop(w)
        \/ \E n \in Notifications : Receive(n) \/ Bridge(n)
        \/ \E e \in Events : Expire(e)
        \/ \E w \in Workers, n \in Notifications : Handler(w, n)
        \/ Crash

Next == Step /\ UNCHANGED deployment

Spec == Init /\ [][Next]_vars

\* Promises settle and timers fire: whatever is in flight moves on.
FairSpec == /\ Spec
            /\ \A n \in Notifications : WF_vars(Bridge(n) /\ UNCHANGED deployment)
            /\ \A w \in Workers, n \in Notifications :
                  WF_vars(Handler(w, n) /\ UNCHANGED deployment)

-----------------------------------------------------------------------------
(* Properties.                                                             *)

\* A worker is past the claim of event e in the notification n.
Works(w, n, e) == handling[<<w, n>>] \in Running \ {"claim"} /\ Current(n) = e

\* A claim never outlives the work it guards: a worker that holds the claim of
\* an event, and so answers "duplicate" to every redelivery, is handling that
\* event or has settled it.  (Stores that outlive the process lose this: a
\* crash leaves the claim and takes the work.)
ClaimGuardsWork ==
    ~Durable => \A w \in Workers : \A e \in claimed[w] :
        outcome[<<w, e>>] # "none" \/ \E n \in Notifications : Works(w, n, e)

\* However many deliveries, publishers' expiries and restarts overlap, at most
\* one of them handles an event at a worker.
SingleFlight ==
    \A w \in Workers, m, n \in Notifications :
        Works(w, m, Current(m)) /\ Works(w, n, Current(m)) => m = n

\* Relayfile sees an event from a worker at most maxAttempts times in the life
\* of a process, redeliveries included; durable stores keep the bound over
\* restarts.
BoundedDelivery ==
    \A w \in Workers, e \in Events :
        received[<<w, e>>] <= MaxAttempts * (IF Durable THEN 1 ELSE crashes + 1)

\* publish does not resolve, and the next event of the batch is not published,
\* before every worker has settled this one: delivered it, or done what it can
\* to dead-letter it.  Exempt is a worker whose claim rejected ("unclaimed"): it
\* neither delivers nor dead-letters, and its error goes to the hook.  Publish
\* claims must outlast the workers': where they expire, or die with the process
\* while the workers' survive, a second publish resolves on a "duplicate" of
\* work that is still under way or lost.
ResolvedMeansSettled ==
    ~Ttl /\ (Durable => Lasting) => \A w \in Workers, n \in Notifications :
        /\ stage[n] = "deliver"
        /\ handling[<<w, n>>] \in {"resolved", "rejected"}
        => outcome[<<w, Current(n)>>] # "none"

\* Delivered and dead-lettered exclude each other and are final: no redelivery
\* changes what became of an event, unless the process forgot its claims.
SettlesOnce ==
    [][\A w \in Workers, e \in Events :
          outcome[<<w, e>>] # "none" /\ (Durable \/ crashes = 0)
              => outcome'[<<w, e>>] = outcome[<<w, e>>]]_vars

\* Without a restart, and with in-memory claims, an event handed to a worker is eventually delivered or
\* dead-lettered, also where the worker takes it for a duplicate of one that is
\* still in flight.
HandoverSettles ==
    \A w \in Workers, n \in Notifications, e \in Events :
        (~Durable /\ handling[<<w, n>>] = "claim" /\ Current(n) = e)
            ~> (outcome[<<w, e>>] # "none" \/ crashes > 0)
=============================================================================
