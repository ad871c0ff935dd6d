------------------------ MODULE StorageBridge_proofs ------------------------
(* What the storage bridge guarantees for any number of notifications,       *)
(* events, workers, attempts and restarts, and for every deployment: faults,  *)
(* expiring claims and durable stores.                                       *)
EXTENDS StorageBridge, TLAPS

\* The handler of n is past its claim; n occupies its event.
Past(w, n) == handling[<<w, n>>] \in Running \ {"claim"}
Busy(n) == stage[n] = "deliver" \/ \E w \in Workers : handling[<<w, n>>] \in Running

\* Handlers exist while their event is being delivered, or after the hook threw.
Placed == \A w \in Workers, n \in Notifications :
    handling[<<w, n>>] \in Running => stage[n] \in {"deliver", "failed"}
Held == \A w \in Workers, n \in Notifications : Past(w, n) => Current(n) \in claimed[w]
Tries == \A w \in Workers, n \in Notifications :
    handling[<<w, n>>] \in Running \ {"bury"} => attempts[<<w, n>>] < MaxAttempts

\* What the claims forgotten so far may have sent to Relayfile.
Allowance == MaxAttempts * (IF Durable THEN 0 ELSE crashes)
Counted ==
    /\ \A w \in Workers, e \in Events : received[<<w, e>>] <= Allowance + MaxAttempts
    /\ \A w \in Workers, e \in Events : e \notin claimed[w] => received[<<w, e>>] <= Allowance
    /\ \A w \in Workers, n \in Notifications :
          Past(w, n) => received[<<w, Current(n)>>] <= Allowance + attempts[<<w, n>>]

\* While no claim is forgotten, who is at work on an event has not settled it,
\* and nobody else has.
Fresh == Durable \/ crashes = 0 =>
    /\ \A w \in Workers, n \in Notifications : Past(w, n) => outcome[<<w, Current(n)>>] = "none"
    /\ \A w \in Workers, e \in Events : outcome[<<w, e>>] # "none" => e \in claimed[w]

\* Publish claims that do not expire keep deliveries of an event apart.
Apart == ~Ttl =>
    /\ \A n \in Notifications : Busy(n) => Current(n) \in published
    /\ \A m, n \in Notifications : Busy(m) /\ Busy(n) /\ Current(m) = Current(n) => m = n

\* A restart with durable stores, and a claim that is recorded and rejects,
\* leave claims without work, and no delivery that would take them for settled.
Abandoned(w, e) ==
    /\ e \in published
    /\ \A n \in Notifications :
          Busy(n) /\ Current(n) = e => handling[<<w, n>>] = "unclaimed"
Guarded == (Durable => Lasting /\ ~Ttl) =>
    \A w \in Workers : \A e \in claimed[w] :
        \/ outcome[<<w, e>>] # "none"
        \/ \E n \in Notifications : Works(w, n, e)
        \/ Durable /\ Abandoned(w, e)

Flight == Placed /\ Held /\ SingleFlight
Delivery == Apart /\ Guarded /\ ResolvedMeansSettled

USE BatchAssumption, DeletedAssumption, AttemptsAssumption

-----------------------------------------------------------------------------
(* What the actions do to the handlers.                                      *)

Stages == {"unseen", "publish", "deliver", "answered", "failed", "lost"}
Handlings == Running \cup {"none", "resolved", "rejected", "unclaimed"}
Settled == {"delivered", "dead", "unrecorded"}

\* The deployment is what it was.
LEMMA Deployed == [Next]_vars => /\ deployment' = deployment
                                 /\ Ttl' = Ttl
                                 /\ Durable' = Durable
                                 /\ Lasting' = Lasting
BY DEF Next, vars, Ttl, Durable, Lasting

LEMMA RestartsAreNat == deployment \in Deployments => deployment.restarts \in Nat
BY DeploymentAssumption

LEMMA CurrentIsEvent == TypeOK => \A n \in Notifications : Current(n) \in Events
<1> SUFFICES ASSUME TypeOK, NEW n \in Notifications PROVE Batch[n][at[n]] \in Events
  BY DEF Current
<1>1. Batch[n] \in Seq(Events) /\ at[n] \in 1 .. Len(Batch[n])
  BY DEF TypeOK
<1> QED BY <1>1

\* One handler moves; nothing else of the bridge does.
Moves(w, n, to) ==
    /\ \A v \in Workers, m \in Notifications :
          handling'[<<v, m>>] = IF v = w /\ m = n THEN to ELSE handling[<<v, m>>]
    /\ handling' \in [Pairs -> Handlings]
    /\ UNCHANGED <<bridgeVars, subscribers, crashes>>

LEMMA HandlerMove ==
    ASSUME TypeOK, NEW w \in Workers, NEW n \in Notifications, NEW from, NEW to \in Handlings,
           HandlerMoves(w, n, from, to)
    PROVE  handling[<<w, n>>] = from /\ Moves(w, n, to)
<1>1. handling \in [Pairs -> Handlings]
  BY DEF TypeOK, Handlings
<1>2. handling' \in [Pairs -> Handlings]
  BY <1>1 DEF HandlerMoves
<1>3. ASSUME NEW v \in Workers, NEW m \in Notifications
      PROVE  handling'[<<v, m>>] = IF v = w /\ m = n THEN to ELSE handling[<<v, m>>]
  <2>1. <<v, m>> \in Pairs
    BY DEF Pairs
  <2> QED BY <1>1, <2>1 DEF HandlerMoves
<1> QED BY <1>2, <1>3 DEF HandlerMoves, Moves, bridgeVars

\* The attempts and deliveries of one handler.
Tallies(w, n) ==
    /\ attempts' \in [Pairs -> 0 .. MaxAttempts]
    /\ received' \in [Workers \X Events -> Nat]
    /\ \/ attempts' = attempts /\ received' = received
       \/ /\ attempts[<<w, n>>] < MaxAttempts
          /\ attempts' = [attempts EXCEPT ![<<w, n>>] = attempts[<<w, n>>] + 1]
          /\ \/ received' = received
             \/ received' = [received EXCEPT ![<<w, Current(n)>>] = received[<<w, Current(n)>>] + 1]

Finds(w, n) == /\ handling[<<w, n>>] = "claim"
               /\ Current(n) \in claimed[w]
               /\ Moves(w, n, "resolved")
               /\ UNCHANGED workerVars
Claims(w, n) == /\ handling[<<w, n>>] = "claim"
                /\ Current(n) \notin claimed[w]
                /\ Moves(w, n, "fetch")
                /\ claimed' = [claimed EXCEPT ![w] = claimed[w] \cup {Current(n)}]
                /\ UNCHANGED <<attempts, outcome, received>>
\* The claim rejects, recorded or not.
Gives(w, n) == /\ handling[<<w, n>>] = "claim"
               /\ Durable
               /\ Moves(w, n, "unclaimed")
               /\ \/ claimed' = claimed
                  \/ claimed' = [claimed EXCEPT ![w] = claimed[w] \cup {Current(n)}]
               /\ UNCHANGED <<attempts, outcome, received>>
Labours(w, n) == /\ Past(w, n)
                 /\ \E to \in Running \ {"claim"} :
                       /\ Moves(w, n, to)
                       /\ to # "bury" => attempts'[<<w, n>>] < MaxAttempts
                 /\ Tallies(w, n)
                 /\ UNCHANGED <<claimed, outcome>>
Finishes(w, n) == /\ Past(w, n)
                  /\ \E to \in {"resolved", "rejected"} : Moves(w, n, to)
                  /\ Tallies(w, n)
                  /\ \E o \in Settled : outcome' = [outcome EXCEPT ![<<w, Current(n)>>] = o]
                  /\ UNCHANGED claimed

LEMMA Incremented ==
    ASSUME NEW D, NEW f \in [D -> Nat], NEW d \in D
    PROVE  [f EXCEPT ![d] = f[d] + 1] \in [D -> Nat]
OBVIOUS

LEMMA CountsOne ==
    ASSUME TypeOK, NEW w \in Workers, NEW n \in Notifications,
           attempts[<<w, n>>] < MaxAttempts, CountAttempt(w, n),
           \/ received' = received
           \/ received' = [received EXCEPT ![<<w, Current(n)>>] = @ + 1]
    PROVE  Tallies(w, n) /\ attempts'[<<w, n>>] = attempts[<<w, n>>] + 1
<1>1. Current(n) \in Events
  BY CurrentIsEvent
<1>2. <<w, n>> \in Pairs /\ <<w, Current(n)>> \in Workers \X Events
  BY <1>1 DEF Pairs
<1>3. attempts \in [Pairs -> 0 .. MaxAttempts] /\ received \in [Workers \X Events -> Nat]
  BY DEF TypeOK
<1>4. attempts[<<w, n>>] + 1 \in 0 .. MaxAttempts
  BY <1>2, <1>3
<1>5. attempts' \in [Pairs -> 0 .. MaxAttempts]
  BY <1>3, <1>4 DEF CountAttempt
<1> DEFINE D == Workers \X Events
           d == <<w, Current(n)>>
<1>6. received' \in [Workers \X Events -> Nat]
  <2>1. received \in [D -> Nat] /\ d \in D
    BY <1>2, <1>3
  <2>2. received' = received \/ received' = [received EXCEPT ![d] = received[d] + 1]
    OBVIOUS
  <2> HIDE DEF D, d
  <2>3. received' \in [D -> Nat]
    BY <2>1, <2>2, Incremented
  <2> QED BY <2>3 DEF D
<1> QED BY <1>2, <1>3, <1>5, <1>6 DEF Tallies, CountAttempt

LEMMA HandlerCases ==
    ASSUME TypeOK, Tries, NEW w \in Workers, NEW n \in Notifications, Handler(w, n)
    PROVE  Finds(w, n) \/ Claims(w, n) \/ Gives(w, n) \/ Labours(w, n) \/ Finishes(w, n)
<1>0. /\ "resolved" \in Handlings /\ "rejected" \in Handlings
      /\ "unclaimed" \in Handlings /\ Running \subseteq Handlings
      /\ Running = {"claim", "fetch", "ingest", "backoff", "bury"}
      /\ Settled = {"delivered", "dead", "unrecorded"}
  BY DEF Handlings, Running, Settled
<1>1. ASSUME UNCHANGED <<attempts, received>> PROVE Tallies(w, n)
  BY <1>1 DEF Tallies, TypeOK
<1>2. handling[<<w, n>>] \in Running \ {"bury"} => attempts[<<w, n>>] < MaxAttempts
  BY DEF Tries
<1>3. attempts[<<w, n>>] \in 0 .. MaxAttempts
  <2>1. <<w, n>> \in Pairs
    BY DEF Pairs
  <2> QED BY <2>1 DEF TypeOK
<1>4. CASE HandlerDuplicate(w, n)
  BY <1>0, <1>4, HandlerMove DEF HandlerDuplicate, Finds
<1>5. CASE HandlerClaims(w, n)
  BY <1>0, <1>5, HandlerMove DEF HandlerClaims, Claims
<1>6. CASE FetchContent(w, n) \/ Backoff(w, n)
  <2>1. PICK to \in {"ingest"}, from \in {"fetch", "backoff"} :
           HandlerMoves(w, n, from, to) /\ UNCHANGED workerVars
    BY <1>6 DEF FetchContent, Backoff
  <2>2. handling[<<w, n>>] = from /\ Moves(w, n, to)
    BY <1>0, <2>1, HandlerMove
  <2>3. Past(w, n) /\ to \in Running \ {"claim"} /\ attempts'[<<w, n>>] < MaxAttempts
    BY <1>0, <1>2, <2>1, <2>2 DEF Past, workerVars
  <2> QED BY <1>1, <2>1, <2>2, <2>3 DEF Labours, workerVars
<1>7. CASE FetchFails(w, n)
  <2>1. handling[<<w, n>>] = "fetch" /\ Moves(w, n, "bury")
    BY <1>0, <1>7, HandlerMove DEF FetchFails
  <2> QED BY <1>0, <1>1, <1>7, <2>1 DEF FetchFails, Labours, Past, workerVars
<1>8. CASE IngestFails(w, n) \/ IngestAnswerLost(w, n)
  <2> DEFINE to == AfterFailure(w, n)
  <2>1. /\ HandlerMoves(w, n, "ingest", to) /\ CountAttempt(w, n)
        /\ UNCHANGED <<claimed, outcome>>
        /\ \/ received' = received
           \/ received' = [received EXCEPT ![<<w, Current(n)>>] = @ + 1]
    BY <1>8 DEF IngestFails, IngestAnswerLost
  <2>2. to \in {"backoff", "bury"} /\ (to # "bury" => attempts[<<w, n>>] + 1 < MaxAttempts)
    BY DEF AfterFailure
  <2>3. handling[<<w, n>>] = "ingest" /\ Moves(w, n, to)
    BY <1>0, <2>1, <2>2, HandlerMove
  <2>4. Past(w, n) /\ to \in Running \ {"claim"} /\ attempts[<<w, n>>] < MaxAttempts
    BY <1>0, <1>2, <2>2, <2>3 DEF Past
  <2>5. Tallies(w, n) /\ attempts'[<<w, n>>] = attempts[<<w, n>>] + 1
    BY <2>1, <2>4, CountsOne
  <2> HIDE DEF to
  <2> QED BY <2>1, <2>2, <2>3, <2>4, <2>5 DEF Labours
<1>9. CASE IngestDelivers(w, n)
  <2>1. handling[<<w, n>>] = "ingest" /\ Moves(w, n, "resolved")
    BY <1>0, <1>9, HandlerMove DEF IngestDelivers
  <2>2. Past(w, n) /\ attempts[<<w, n>>] < MaxAttempts
    BY <1>0, <1>2, <2>1 DEF Past
  <2>3. Tallies(w, n)
    BY <1>9, <2>2, CountsOne DEF IngestDelivers
  <2> QED BY <1>0, <1>9, <2>1, <2>2, <2>3 DEF IngestDelivers, Finishes
<1>10. CASE DeadLetter(w, n) \/ DeadLetterFails(w, n)
  <2>1. PICK o \in {"dead", "unrecorded"} :
           /\ HandlerMoves(w, n, "bury", "rejected")
           /\ outcome' = [outcome EXCEPT ![<<w, Current(n)>>] = o]
           /\ UNCHANGED <<attempts, claimed, received>>
    BY <1>10 DEF DeadLetter, DeadLetterFails
  <2>2. handling[<<w, n>>] = "bury" /\ Moves(w, n, "rejected")
    BY <1>0, <2>1, HandlerMove
  <2> QED BY <1>0, <1>1, <2>1, <2>2 DEF Finishes, Past
<1>11. CASE HandlerClaimFails(w, n)
  <2>1. handling[<<w, n>>] = "claim" /\ Moves(w, n, "unclaimed")
    BY <1>0, <1>11, HandlerMove DEF HandlerClaimFails
  <2> QED BY <1>11, <2>1 DEF HandlerClaimFails, Gives
<1> QED BY <1>4, <1>5, <1>6, <1>7, <1>8, <1>9, <1>10, <1>11 DEF Handler

\* An event is handed to the workers.
LEMMA PublishHands ==
    ASSUME TypeOK, NEW n \in Notifications, Publish(n)
    PROVE  /\ \A v \in Workers, m \in Notifications :
                 /\ m # n => handling'[<<v, m>>] = handling[<<v, m>>]
                 /\ m = n => handling'[<<v, m>>] \in {"claim", "none"}
                 /\ attempts'[<<v, m>>] = IF m = n THEN 0 ELSE attempts[<<v, m>>]
           /\ handling' \in [Pairs -> Handlings]
           /\ attempts' \in [Pairs -> 0 .. MaxAttempts]
<1>1. \A p \in Pairs : handling'[p] = IF p[2] # n THEN handling[p]
                      ELSE IF p[1] \in subscribers THEN "claim" ELSE "none"
  BY DEF Publish
<1>2. \A p \in Pairs : attempts'[p] = IF p[2] = n THEN 0 ELSE attempts[p]
  BY DEF Publish
<1>3. \A v \in Workers, m \in Notifications :
          <<v, m>> \in Pairs /\ <<v, m>>[1] = v /\ <<v, m>>[2] = m
  BY DEF Pairs
<1>4. handling' \in [Pairs -> Handlings]
  <2>1. handling \in [Pairs -> Handlings] /\ {"claim", "none"} \subseteq Handlings
    BY DEF TypeOK, Handlings, Running
  <2> QED BY <2>1 DEF Publish
<1>5. attempts' \in [Pairs -> 0 .. MaxAttempts]
  <2>1. attempts \in [Pairs -> 0 .. MaxAttempts] /\ 0 \in 0 .. MaxAttempts
    BY DEF TypeOK
  <2> QED BY <2>1 DEF Publish
<1>6. ASSUME NEW v \in Workers, NEW m \in Notifications
      PROVE  /\ m # n => handling'[<<v, m>>] = handling[<<v, m>>]
             /\ m = n => handling'[<<v, m>>] \in {"claim", "none"}
             /\ attempts'[<<v, m>>] = IF m = n THEN 0 ELSE attempts[<<v, m>>]
  BY <1>1, <1>2, <1>3
<1> QED BY <1>4, <1>5, <1>6

-----------------------------------------------------------------------------
(* Types, and the attempts of a handler.                                     *)

TypeInv == TypeOK /\ Tries

LEMMA InitTypes == Init => TypeInv
<1> SUFFICES ASSUME Init PROVE TypeInv
  OBVIOUS
<1>1. TypeOK
  <2>1. \A n \in Notifications : Len(Batch[n]) \in Nat /\ Len(Batch[n]) >= 1
    OBVIOUS
  <2>2. deployment.restarts \in Nat
    BY RestartsAreNat DEF Init
  <2> QED BY <2>1, <2>2 DEF Init, TypeOK, Running, Pairs
<1>2. Tries
  BY DEF Init, Tries, Running, Pairs
<1> QED BY <1>1, <1>2 DEF TypeInv

LEMMA ContinueTypes ==
    ASSUME TypeOK, NEW n \in Notifications, Continue(n)
    PROVE  /\ stage' \in [Notifications -> Stages]
           /\ at' \in [Notifications -> Nat]
           /\ \A m \in Notifications : at'[m] \in 1 .. Len(Batch[m])
           /\ \A m \in Notifications : m # n => at'[m] = at[m] /\ stage'[m] = stage[m]
           /\ stage'[n] \in {"publish", "answered"}
<1>1. /\ stage \in [Notifications -> Stages] /\ at \in [Notifications -> Nat]
      /\ \A m \in Notifications : at[m] \in 1 .. Len(Batch[m]) /\ Len(Batch[m]) \in Nat
  BY DEF TypeOK, Stages
<1> DEFINE B == [m \in Notifications |-> Len(Batch[m])]
<1>2. \A m \in Notifications : B[m] = Len(Batch[m]) /\ B[m] \in Nat /\ at[m] \in 1 .. B[m]
  BY <1>1
<1>3. \/ /\ at[n] < B[n]
         /\ at' = [at EXCEPT ![n] = at[n] + 1]
         /\ stage' = [stage EXCEPT ![n] = "publish"]
      \/ at' = at /\ stage' = [stage EXCEPT ![n] = "answered"]
  BY DEF Continue
<1> HIDE DEF B
<1>4. stage' \in [Notifications -> Stages] /\ stage'[n] \in {"publish", "answered"}
  BY <1>1, <1>3 DEF Stages
<1>5. at' \in [Notifications -> Nat]
  <2>1. at[n] + 1 \in Nat /\ at \in [Notifications -> Nat]
    BY <1>1
  <2> QED BY <1>3, <2>1
<1>6. \A m \in Notifications : m # n => at'[m] = at[m] /\ stage'[m] = stage[m]
  BY <1>1, <1>3
<1>7. at'[n] \in 1 .. B[n]
  BY <1>1, <1>2, <1>3
<1>8. \A m \in Notifications : at'[m] \in 1 .. B[m]
  BY <1>2, <1>6, <1>7
<1> QED BY <1>2, <1>4, <1>5, <1>6, <1>8

LEMMA HandlerTypes ==
    ASSUME TypeInv, NEW w \in Workers, NEW n \in Notifications, Handler(w, n),
           UNCHANGED deployment
    PROVE  TypeInv'
<1>1. Current(n) \in Events /\ <<w, n>> \in Pairs /\ <<w, Current(n)>> \in Workers \X Events
  BY CurrentIsEvent DEF TypeInv, Pairs
<1>2. /\ handling' \in [Pairs -> Handlings]
      /\ UNCHANGED <<bridgeVars, subscribers, crashes>>
      /\ attempts' \in [Pairs -> 0 .. MaxAttempts]
      /\ received' \in [Workers \X Events -> Nat]
      /\ claimed' \in [Workers -> SUBSET Events]
  <2>0. /\ attempts \in [Pairs -> 0 .. MaxAttempts]
        /\ received \in [Workers \X Events -> Nat]
        /\ claimed \in [Workers -> SUBSET Events]
    BY DEF TypeInv, TypeOK
  <2>1. CASE Finds(w, n)
    BY <2>0, <2>1 DEF Finds, Moves, workerVars
  <2>2. CASE Claims(w, n)
    BY <1>1, <2>0, <2>2 DEF Claims, Moves
  <2>3. CASE Labours(w, n)
    BY <2>0, <2>3 DEF Labours, Moves, Tallies
  <2>4. CASE Finishes(w, n)
    BY <2>0, <2>4 DEF Finishes, Moves, Tallies
  <2>5. CASE Gives(w, n)
    <3>1. Moves(w, n, "unclaimed") /\ UNCHANGED <<attempts, received>>
      BY <2>5 DEF Gives
    <3>2. claimed' = claimed \/ claimed' = [claimed EXCEPT ![w] = @ \cup {Current(n)}]
      BY <2>5 DEF Gives
    <3>3. claimed' \in [Workers -> SUBSET Events]
      BY <1>1, <2>0, <3>2
    <3>4. handling' \in [Pairs -> Handlings] /\ UNCHANGED <<bridgeVars, subscribers, crashes>>
      BY <3>1 DEF Moves
    <3> QED BY <2>0, <3>1, <3>3, <3>4
  <2> QED BY <2>1, <2>2, <2>3, <2>4, <2>5, HandlerCases DEF TypeInv
<1>3. outcome' \in [Workers \X Events -> {"none"} \cup Settled]
  BY <1>1, HandlerCases DEF TypeInv, Finds, Claims, Gives, Labours, Finishes, TypeOK, workerVars, Settled
<1>4. TypeOK'
  BY <1>2, <1>3 DEF TypeInv, TypeOK, bridgeVars, Handlings, Settled
<1>5. Tries'
  <2> SUFFICES ASSUME NEW v \in Workers, NEW m \in Notifications,
                      handling'[<<v, m>>] \in Running \ {"bury"}
               PROVE  attempts'[<<v, m>>] < MaxAttempts
    BY DEF Tries
  <2>1. PICK to : /\ Moves(w, n, to)
                  /\ to \in Running \ {"bury"} => attempts'[<<w, n>>] < MaxAttempts
    <3>0. "resolved" \notin Running /\ "unclaimed" \notin Running
      BY DEF Running
    <3>1. CASE Finds(w, n)
      BY <3>0, <3>1 DEF Finds
    <3>2. CASE Claims(w, n)
      BY <3>2 DEF Claims, Running, TypeInv, Tries
    <3>3. CASE Labours(w, n)
      BY <3>3 DEF Labours, Running
    <3>4. CASE Finishes(w, n)
      BY <3>4 DEF Finishes, Running
    <3>5. CASE Gives(w, n)
      BY <3>0, <3>5 DEF Gives
    <3> QED BY <3>1, <3>2, <3>3, <3>4, <3>5, HandlerCases DEF TypeInv
  <2>2. CASE v = w /\ m = n
    BY <2>1, <2>2 DEF Moves
  <2>3. CASE ~(v = w /\ m = n)
    <3>1. handling[<<v, m>>] \in Running \ {"bury"}
      BY <2>1, <2>3 DEF Moves
    <3>2. <<v, m>> \in Pairs /\ <<v, m>> # <<w, n>>
      BY <2>3 DEF Pairs
    <3>3. Tallies(w, n) \/ attempts' = attempts
      BY HandlerCases DEF TypeInv, Finds, Claims, Gives, Labours, Finishes, workerVars
    <3>4. attempts \in [Pairs -> 0 .. MaxAttempts]
      BY DEF TypeInv, TypeOK
    <3>5. attempts'[<<v, m>>] = attempts[<<v, m>>]
      BY <1>1, <3>2, <3>3, <3>4 DEF Tallies
    <3> QED BY <3>1, <3>5 DEF TypeInv, Tries
  <2> QED BY <2>2, <2>3
<1> QED BY <1>4, <1>5 DEF TypeInv

LEMMA BridgeTypes ==
    ASSUME TypeInv, NEW n \in Notifications,
           \/ Receive(n) \/ PublishDuplicate(n) \/ Publish(n) \/ Published(n)
           \/ PublishRejects(n) \/ PublishClaimFails(n),
           UNCHANGED deployment
    PROVE  TypeInv'
<1>1. CASE Receive(n) \/ PublishRejects(n)
  <2>1. /\ stage' \in [Notifications -> Stages]
        /\ UNCHANGED <<at, published, subscribers, handling, workerVars, crashes>>
    BY <1>1 DEF Receive, PublishRejects, TypeInv, TypeOK, Stages
  <2> QED BY <2>1 DEF TypeInv, TypeOK, Tries, Stages, workerVars
<1>2. CASE PublishDuplicate(n) \/ Published(n)
  <2>1. Continue(n) /\ UNCHANGED <<published, subscribers, handling, workerVars, crashes>>
    BY <1>2 DEF PublishDuplicate, Published
  <2>2. /\ stage' \in [Notifications -> Stages]
        /\ at' \in [Notifications -> Nat]
        /\ \A m \in Notifications : at'[m] \in 1 .. Len(Batch[m])
    BY <2>1, ContinueTypes DEF TypeInv
  <2> QED BY <2>1, <2>2 DEF TypeInv, TypeOK, Tries, Stages, workerVars
<1>3. CASE Publish(n)
  <2>1. Current(n) \in Events
    BY CurrentIsEvent DEF TypeInv
  <2>2. TypeOK'
    <3>1. handling' \in [Pairs -> Handlings] /\ attempts' \in [Pairs -> 0 .. MaxAttempts]
      BY <1>3, PublishHands DEF TypeInv
    <3>2. stage' \in [Notifications -> Stages] /\ published' \subseteq Events
      BY <1>3, <2>1 DEF TypeInv, TypeOK, Publish, Stages
    <3>3. UNCHANGED <<at, subscribers, claimed, outcome, received, crashes>>
      BY <1>3 DEF Publish
    <3> QED BY <3>1, <3>2, <3>3 DEF TypeInv, TypeOK, Handlings, Stages
  <2>3. Tries'
    BY <1>3, PublishHands DEF TypeInv, Tries, Running
  <2> QED BY <2>2, <2>3 DEF TypeInv
<1>4. CASE PublishClaimFails(n)
  <2>1. Current(n) \in Events
    BY CurrentIsEvent DEF TypeInv
  <2>2. /\ stage' \in [Notifications -> Stages] /\ published' \subseteq Events
        /\ UNCHANGED <<at, subscribers, handling, workerVars, crashes>>
    BY <1>4, <2>1 DEF PublishClaimFails, TypeInv, TypeOK, Stages
  <2> QED BY <2>2 DEF TypeInv, TypeOK, Tries, Stages, workerVars
<1> QED BY <1>1, <1>2, <1>3, <1>4

LEMMA OtherTypes ==
    ASSUME TypeInv, \/ \E w \in Workers : Start(w) \/ Stop(w)
                    \/ \E e \in Events : Expire(e)
                    \/ Crash
                    \/ UNCHANGED vars,
           UNCHANGED deployment
    PROVE  TypeInv'
<1>1. CASE \E w \in Workers : Start(w) \/ Stop(w)
  BY <1>1 DEF TypeInv, TypeOK, Tries, Start, Stop, bridgeVars, workerVars
<1>2. CASE \E e \in Events : Expire(e)
  BY <1>2 DEF TypeInv, TypeOK, Tries, Expire, workerVars
<1>3. CASE Crash
  <2>1. stage' \in [Notifications -> Stages]
    BY <1>3 DEF Crash, TypeInv, TypeOK, Stages
  <2>2. handling' \in [Pairs -> {"none"}] /\ attempts' \in [Pairs -> 0 .. MaxAttempts]
    BY <1>3 DEF Crash
  <2>3. \A v \in Workers, m \in Notifications : handling'[<<v, m>>] \notin Running
    BY <2>2 DEF Pairs, Running
  <2>4. TypeOK'
    BY <1>3, <2>1, <2>2, RestartsAreNat DEF Crash, TypeInv, TypeOK, Stages
  <2> QED BY <2>3, <2>4 DEF TypeInv, Tries
<1>4. CASE UNCHANGED vars
  BY <1>4 DEF TypeInv, TypeOK, Tries, vars
<1> QED BY <1>1, <1>2, <1>3, <1>4

LEMMA NextTypes == TypeInv /\ [Next]_vars => TypeInv'
BY Deployed, HandlerTypes, BridgeTypes, OtherTypes DEF Next, Step, Bridge

LEMMA TypesInvariant == Spec => []TypeInv
BY InitTypes, NextTypes, PTL DEF Spec

(* Every field keeps its range; no handler attempts more than maxAttempts.   *)
THEOREM TypeCorrect == Spec => []TypeOK
<1>1. TypeInv => TypeOK
  BY DEF TypeInv
<1> QED BY <1>1, TypesInvariant, PTL

-----------------------------------------------------------------------------
(* One handler of an event at a time.                                        *)

\* The actions that leave the handlers, the claims and the outcomes alone.
Aside == /\ UNCHANGED <<at, handling, attempts, claimed, outcome, received, crashes>>
         /\ ~Ttl => published \subseteq published'

\* What the actions of the bridge do, seen from the handlers.
Quiet == \/ UNCHANGED stage
         \/ \E n \in Notifications : /\ stage' = [stage EXCEPT ![n] = "publish"]
                                     /\ stage[n] = "unseen"
         \/ \E n \in Notifications : /\ stage' = [stage EXCEPT ![n] = "failed"]
                                     /\ stage[n] \in {"publish", "deliver"}
Continues(n) ==
    /\ Continue(n)
    /\ \A w \in Workers : handling[<<w, n>>] \notin Running
    /\ UNCHANGED <<published, subscribers, handling, workerVars, crashes>>

LEMMA NextCases ==
    ASSUME TypeInv, Placed, [Next]_vars
    PROVE  \/ Aside /\ Quiet
           \/ \E n \in Notifications : Continues(n)
           \/ \E n \in Notifications : Publish(n)
           \/ \E w \in Workers, n \in Notifications :
                 Finds(w, n) \/ Claims(w, n) \/ Gives(w, n) \/ Labours(w, n) \/ Finishes(w, n)
           \/ Crash
<1>1. CASE UNCHANGED vars
  BY <1>1 DEF vars, Aside, Quiet
<1>2. CASE \E w \in Workers : Start(w) \/ Stop(w)
  BY <1>2 DEF Start, Stop, bridgeVars, workerVars, Aside, Quiet
<1>3. CASE \E e \in Events : Expire(e)
  BY <1>3 DEF Expire, workerVars, Aside, Quiet
<1>4. CASE \E n \in Notifications : Receive(n) \/ PublishRejects(n) \/ PublishClaimFails(n)
  BY <1>4 DEF Receive, PublishRejects, PublishClaimFails, workerVars, Aside, Quiet
<1>5. ASSUME NEW n \in Notifications, PublishDuplicate(n) PROVE Continues(n)
  <2>1. \A w \in Workers : handling[<<w, n>>] \notin Running
    BY <1>5 DEF PublishDuplicate, Placed
  <2> QED BY <1>5, <2>1 DEF PublishDuplicate, Continues
<1>6. ASSUME NEW n \in Notifications, Published(n) PROVE Continues(n)
  BY <1>6 DEF Published, Continues
<1>7. ASSUME NEW w \in Workers, NEW n \in Notifications, Handler(w, n)
      PROVE  Finds(w, n) \/ Claims(w, n) \/ Gives(w, n) \/ Labours(w, n) \/ Finishes(w, n)
  BY <1>7, HandlerCases DEF TypeInv
<1> QED BY <1>1, <1>2, <1>3, <1>4, <1>5, <1>6, <1>7 DEF Next, Step, Bridge

LEMMA FlightNext ==
    ASSUME TypeInv, Flight, [Next]_vars
    PROVE  Flight'
<1>f. Ttl' = Ttl /\ Durable' = Durable /\ Lasting' = Lasting
  BY Deployed
<1> USE <1>f
<1>0. /\ stage \in [Notifications -> Stages] /\ claimed \in [Workers -> SUBSET Events]
      /\ \A n \in Notifications : Current(n) \in Events
  BY CurrentIsEvent DEF TypeInv, TypeOK, Stages
<1>1. CASE Aside /\ Quiet
  <2>1. Placed'
    BY <1>0, <1>1 DEF Aside, Quiet, Flight, Placed
  <2>2. Held' /\ SingleFlight'
    BY <1>1 DEF Aside, Flight, Held, Past, SingleFlight, Works, Current
  <2> QED BY <2>1, <2>2 DEF Flight
<1>2. ASSUME NEW n \in Notifications, Continues(n)
      PROVE  Flight'
  <2>1. /\ \A m \in Notifications : m # n => at'[m] = at[m] /\ stage'[m] = stage[m]
        /\ \A w \in Workers : handling[<<w, n>>] \notin Running
        /\ handling' = handling /\ claimed' = claimed
    BY <1>2, ContinueTypes DEF TypeInv, Continues, workerVars
  <2>2. Placed'
    BY <2>1 DEF Flight, Placed
  <2>3. \A m \in Notifications : m # n => Current(m)' = Current(m)
    BY <2>1 DEF Current
  <2>4. Held' /\ SingleFlight'
    BY <2>1, <2>3 DEF Flight, Held, Past, SingleFlight, Works
  <2> QED BY <2>2, <2>4 DEF Flight
<1>3. ASSUME NEW n \in Notifications, Publish(n)
      PROVE  Flight'
  <2>1. /\ \A w \in Workers, m \in Notifications :
              /\ m # n => handling'[<<w, m>>] = handling[<<w, m>>]
              /\ m = n => handling'[<<w, m>>] \in {"claim", "none"}
        /\ at' = at /\ claimed' = claimed /\ stage' = [stage EXCEPT ![n] = "deliver"]
    <3>1. at' = at /\ claimed' = claimed /\ stage' = [stage EXCEPT ![n] = "deliver"]
      BY <1>3 DEF Publish
    <3> QED BY <1>3, <3>1, PublishHands DEF TypeInv
  <2>2. Placed'
    BY <1>0, <2>1 DEF Flight, Placed
  <2>3. \A m \in Notifications : Current(m)' = Current(m)
    BY <2>1 DEF Current
  <2>4. \A w \in Workers, m \in Notifications : Past(w, m)' => m # n /\ Past(w, m)
    BY <2>1 DEF Past, Running
  <2>5. Held'
    BY <2>1, <2>3, <2>4 DEF Flight, Held
  <2>6. SingleFlight'
    BY <2>3, <2>4 DEF Flight, SingleFlight, Works, Past
  <2> QED BY <2>2, <2>5, <2>6 DEF Flight
<1>4. ASSUME NEW w \in Workers, NEW n \in Notifications,
             Finds(w, n) \/ Claims(w, n) \/ Gives(w, n) \/ Labours(w, n) \/ Finishes(w, n)
      PROVE  Flight'
  <2>1. PICK to : Moves(w, n, to)
    BY <1>4 DEF Finds, Claims, Gives, Labours, Finishes
  <2>2. stage' = stage /\ \A m \in Notifications : Current(m)' = Current(m)
    BY <2>1 DEF Moves, bridgeVars, Current
  <2>3. handling[<<w, n>>] \in Running
    BY <1>4 DEF Finds, Claims, Gives, Labours, Finishes, Past, Running
  <2>4. Placed'
    BY <2>1, <2>2, <2>3 DEF Moves, Flight, Placed
  <2>5. \/ /\ \A v \in Workers : claimed[v] \subseteq claimed'[v]
           /\ \A v \in Workers, m \in Notifications : Past(v, m)' => Past(v, m)
        \/ Claims(w, n)
    <3>1. CASE Finds(w, n)
      BY <3>1 DEF Finds, Moves, Past, Running, workerVars
    <3>2. CASE Labours(w, n)
      BY <3>2 DEF Labours, Moves, Past
    <3>3. CASE Finishes(w, n)
      BY <3>3 DEF Finishes, Moves, Past, Running
    <3>4. CASE Gives(w, n)
      BY <1>0, <3>4 DEF Gives, Moves, Past, Running
    <3> QED BY <1>4, <3>1, <3>2, <3>3, <3>4
  <2>6. CASE /\ \A v \in Workers : claimed[v] \subseteq claimed'[v]
             /\ \A v \in Workers, m \in Notifications : Past(v, m)' => Past(v, m)
    <3>1. Held'
      BY <2>2, <2>6 DEF Flight, Held
    <3>2. SingleFlight'
      BY <2>2, <2>6 DEF Flight, SingleFlight, Works, Past
    <3> QED BY <2>4, <3>1, <3>2 DEF Flight
  <2>7. CASE Claims(w, n)
    <3>1. \A v \in Workers, m \in Notifications :
              Past(v, m)' => (v = w /\ m = n) \/ Past(v, m)
      BY <2>7 DEF Claims, Moves, Past
    <3>2. \A v \in Workers : claimed'[v] = claimed[v] \cup (IF v = w THEN {Current(n)} ELSE {})
      BY <1>0, <2>7 DEF Claims
    <3>3. Held'
      BY <2>2, <3>1, <3>2 DEF Flight, Held
    <3>4. \A m \in Notifications : Past(w, m) => Current(m) # Current(n)
      BY <2>7 DEF Claims, Flight, Held
    <3>5. SingleFlight'
      <4> SUFFICES ASSUME NEW v \in Workers, NEW l \in Notifications, NEW m \in Notifications,
                          Past(v, l)', Past(v, m)', Current(l) = Current(m)
                   PROVE  l = m
        BY <2>2 DEF SingleFlight, Works, Past
      <4>1. CASE Past(v, l) /\ Past(v, m)
        BY <4>1 DEF Flight, SingleFlight, Works, Past
      <4>2. CASE ~(Past(v, l) /\ Past(v, m))
        BY <3>1, <3>4, <4>2
      <4> QED BY <4>1, <4>2
    <3> QED BY <2>4, <3>3, <3>5 DEF Flight
  <2> QED BY <2>5, <2>6, <2>7
<1>5. CASE Crash
  <2>1. \A w \in Workers, m \in Notifications : handling'[<<w, m>>] = "none"
    BY <1>5 DEF Crash, Pairs
  <2> QED BY <2>1 DEF Flight, Placed, Held, SingleFlight, Past, Works, Running
<1> QED BY <1>1, <1>2, <1>3, <1>4, <1>5, NextCases DEF Flight

LEMMA InitIsIdle == Init => \A w \in Workers, n \in Notifications : handling[<<w, n>>] = "none"
BY DEF Init, Pairs

LEMMA FlightInvariant == Spec => []Flight
<1>1. Init => Flight
  BY InitIsIdle DEF Flight, Placed, Held, SingleFlight, Past, Works, Running
<1> QED BY <1>1, FlightNext, TypesInvariant, PTL DEF Spec

(* However many deliveries of an event overlap and however publish claims    *)
(* expire, a worker handles it once at a time.                               *)
THEOREM HandlesAlone == Spec => []SingleFlight
<1>1. Flight => SingleFlight
  BY DEF Flight
<1> QED BY <1>1, FlightInvariant, PTL

-----------------------------------------------------------------------------
(* How often Relayfile sees an event.                                        *)

LEMMA Distributes ==
    ASSUME NEW a \in Nat, NEW b \in Nat
    PROVE  a * b \in Nat /\ a * (b + 1) = a * b + a
OBVIOUS

LEMMA AllowanceIsNat == TypeInv => Allowance \in Nat
<1> SUFFICES ASSUME TypeInv PROVE Allowance \in Nat
  OBVIOUS
<1>1. crashes \in Nat /\ MaxAttempts \in Nat
  BY RestartsAreNat DEF TypeInv, TypeOK
<1> QED BY <1>1, Distributes DEF Allowance

LEMMA CountedNext ==
    ASSUME TypeInv, Flight, Counted, [Next]_vars
    PROVE  Counted'
<1>f. Ttl' = Ttl /\ Durable' = Durable /\ Lasting' = Lasting
  BY Deployed
<1> USE <1>f
<1>0. /\ claimed \in [Workers -> SUBSET Events] /\ MaxAttempts \in Nat
      /\ \A n \in Notifications : Current(n) \in Events
      /\ attempts \in [Pairs -> 0 .. MaxAttempts]
      /\ received \in [Workers \X Events -> Nat]
      /\ Allowance \in Nat
  BY CurrentIsEvent, AllowanceIsNat DEF TypeInv, TypeOK
<1>1. CASE Aside
  BY <1>1 DEF Aside, Counted, Past, Allowance, Current
<1>2. ASSUME NEW n \in Notifications, Continues(n)
      PROVE  Counted'
  <2>1. /\ \A m \in Notifications : m # n => at'[m] = at[m]
        /\ \A w \in Workers : ~Past(w, n)
        /\ UNCHANGED <<handling, claimed, received, attempts, crashes>>
    BY <1>2, ContinueTypes DEF TypeInv, Continues, Past, workerVars
  <2>2. \A m \in Notifications : m # n => Current(m)' = Current(m)
    BY <2>1 DEF Current
  <2>3. Allowance' = Allowance /\ \A w \in Workers, m \in Notifications : Past(w, m)' = Past(w, m)
    BY <2>1 DEF Past, Allowance
  <2> QED BY <2>1, <2>2, <2>3 DEF Counted
<1>3. ASSUME NEW n \in Notifications, Publish(n)
      PROVE  Counted'
  <2>1. at' = at /\ UNCHANGED <<claimed, received, crashes>>
    BY <1>3 DEF Publish
  <2>2. \A w \in Workers, m \in Notifications :
            Past(w, m)' => m # n /\ Past(w, m) /\ attempts'[<<w, m>>] = attempts[<<w, m>>]
    BY <1>3, PublishHands DEF TypeInv, Past, Running
  <2>3. Allowance' = Allowance /\ \A m \in Notifications : Current(m)' = Current(m)
    BY <2>1 DEF Current, Allowance
  <2> QED BY <2>1, <2>2, <2>3 DEF Counted
<1>4. ASSUME NEW w \in Workers, NEW n \in Notifications,
             Finds(w, n) \/ Claims(w, n) \/ Gives(w, n)
      PROVE  Counted'
  <2>1. /\ at' = at /\ UNCHANGED <<received, attempts, crashes>>
        /\ \A v \in Workers : claimed[v] \subseteq claimed'[v]
    BY <1>0, <1>4 DEF Finds, Claims, Gives, Moves, bridgeVars, workerVars
  <2>2. Allowance' = Allowance /\ \A m \in Notifications : Current(m)' = Current(m)
    BY <2>1 DEF Current, Allowance
  <2>3. \A v \in Workers, m \in Notifications :
            Past(v, m)' => Past(v, m) \/ (v = w /\ m = n /\ Current(n) \notin claimed[w])
    BY <1>4 DEF Finds, Claims, Gives, Moves, Past, Running
  <2>4. attempts[<<w, n>>] \in Nat /\ received[<<w, Current(n)>>] \in Nat
    BY <1>0 DEF Pairs
  <2>5. ASSUME NEW v \in Workers, NEW m \in Notifications, Past(v, m)'
        PROVE  received[<<v, Current(m)>>] <= Allowance + attempts[<<v, m>>]
    <3>1. CASE Past(v, m)
      BY <3>1 DEF Counted
    <3>2. CASE v = w /\ m = n /\ Current(n) \notin claimed[w]
      <4>1. received[<<w, Current(n)>>] <= Allowance
        BY <1>0, <3>2 DEF Counted
      <4> QED BY <1>0, <2>4, <3>2, <4>1
    <3> QED BY <2>3, <2>5, <3>1, <3>2
  <2> QED BY <2>1, <2>2, <2>5 DEF Counted
<1>5. ASSUME NEW w \in Workers, NEW n \in Notifications, Labours(w, n) \/ Finishes(w, n)
      PROVE  Counted'
  <2> DEFINE e == Current(n)
  <2>1. /\ Past(w, n) /\ Tallies(w, n) /\ claimed' = claimed
        /\ at' = at /\ crashes' = crashes
        /\ \A v \in Workers, m \in Notifications : Past(v, m)' => Past(v, m)
    <3>1. CASE Labours(w, n)
      BY <3>1 DEF Labours, Moves, Past, bridgeVars
    <3>2. CASE Finishes(w, n)
      BY <3>2 DEF Finishes, Moves, Past, Running, bridgeVars
    <3> QED BY <1>5, <3>1, <3>2
  <2>2. Allowance' = Allowance /\ \A m \in Notifications : Current(m)' = Current(m)
    BY <2>1 DEF Current, Allowance
  <2>3. \A v \in Workers, m \in Notifications : <<v, m>> \in Pairs
    BY DEF Pairs
  <2>4. \A v \in Workers, d \in Events : <<v, d>> \in Workers \X Events
    OBVIOUS
  <2>5. e \in claimed[w] /\ e \in Events
    BY <1>0, <2>1 DEF Flight, Held
  <2>6. \A v \in Workers, d \in Events :
            <<v, d>> # <<w, e>> => received'[<<v, d>>] = received[<<v, d>>]
    BY <1>0, <2>1, <2>4, <2>5 DEF Tallies
  <2>7. \A v \in Workers, m \in Notifications :
            <<v, m>> # <<w, n>> => attempts'[<<v, m>>] = attempts[<<v, m>>]
    BY <1>0, <2>1, <2>3 DEF Tallies
  <2>8. /\ received[<<w, e>>] \in Nat /\ received'[<<w, e>>] \in Nat
        /\ attempts[<<w, n>>] \in 0 .. MaxAttempts /\ attempts'[<<w, n>>] \in 0 .. MaxAttempts
    BY <1>0, <2>1, <2>3, <2>4, <2>5 DEF Tallies
  <2>9. received'[<<w, e>>] - attempts'[<<w, n>>] <= received[<<w, e>>] - attempts[<<w, n>>]
    BY <1>0, <2>1, <2>3, <2>4, <2>5 DEF Tallies
  <2>10. received'[<<w, e>>] <= Allowance + attempts'[<<w, n>>]
    <3>1. received[<<w, e>>] <= Allowance + attempts[<<w, n>>]
      BY <2>1 DEF Counted
    <3> HIDE DEF e
    <3> QED BY <1>0, <2>8, <2>9, <3>1
  <2>11. received'[<<w, e>>] <= Allowance + MaxAttempts
    <3> HIDE DEF e
    <3> QED BY <1>0, <2>8, <2>10
  <2>12. ASSUME NEW v \in Workers, NEW d \in Events
         PROVE  /\ received'[<<v, d>>] <= Allowance + MaxAttempts
                /\ d \notin claimed[v] => received'[<<v, d>>] <= Allowance
    <3>1. CASE v = w /\ d = e
      BY <2>5, <2>11, <3>1
    <3>2. CASE ~(v = w /\ d = e)
      BY <2>6, <3>2 DEF Counted
    <3> QED BY <3>1, <3>2
  <2>13. ASSUME NEW v \in Workers, NEW m \in Notifications, Past(v, m)'
         PROVE  received'[<<v, Current(m)>>] <= Allowance + attempts'[<<v, m>>]
    <3>1. Past(v, m)
      BY <2>1, <2>13
    <3>2. CASE v = w /\ m = n
      BY <2>10, <3>2
    <3>3. CASE ~(v = w /\ m = n)
      <4>1. v = w => Current(m) # e
        BY <2>1, <3>1, <3>3 DEF Flight, SingleFlight, Works, Past
      <4>2. received'[<<v, Current(m)>>] = received[<<v, Current(m)>>]
        BY <1>0, <2>6, <4>1
      <4> QED BY <2>7, <3>1, <3>3, <4>2 DEF Counted
    <3> QED BY <3>2, <3>3
  <2> QED BY <2>1, <2>2, <2>12, <2>13 DEF Counted
<1>6. CASE Crash
  <2>1. /\ \A w \in Workers, m \in Notifications : ~Past(w, m)'
        /\ received' = received /\ crashes' = crashes + 1
    BY <1>6 DEF Crash, Pairs, Past, Running
  <2>2. crashes \in Nat
    BY RestartsAreNat DEF TypeInv, TypeOK
  <2>3. \A w \in Workers, e \in Events : received[<<w, e>>] \in Nat
    BY <1>0
  <2>4. CASE Durable
    <3>1. claimed' = claimed /\ Allowance' = Allowance
      BY <1>6, <2>4 DEF Crash, Allowance
    <3> QED BY <2>1, <3>1 DEF Counted
  <2>5. CASE ~Durable
    <3>1. Allowance' = Allowance + MaxAttempts
      BY <1>0, <2>1, <2>2, <2>5, Distributes DEF Allowance
    <3>2. \A w \in Workers, e \in Events : received[<<w, e>>] <= Allowance'
      BY <3>1 DEF Counted
    <3>3. \A w \in Workers, e \in Events : received[<<w, e>>] <= Allowance' + MaxAttempts
      <4> SUFFICES ASSUME NEW w \in Workers, NEW e \in Events
                   PROVE  received[<<w, e>>] <= Allowance' + MaxAttempts
        OBVIOUS
      <4>1. received[<<w, e>>] <= Allowance + MaxAttempts
        BY DEF Counted
      <4>2. Allowance' \in Nat /\ received[<<w, e>>] \in Nat
        BY <1>0, <2>3, <3>1
      <4> QED BY <1>0, <3>1, <4>1, <4>2
    <3> QED BY <2>1, <3>2, <3>3 DEF Counted
  <2> QED BY <2>4, <2>5
<1> QED BY <1>1, <1>2, <1>3, <1>4, <1>5, <1>6, NextCases DEF Flight

LEMMA CountedInvariant == Spec => []Counted
<1>1. Init => Counted
  <2> SUFFICES ASSUME Init PROVE Counted
    OBVIOUS
  <2>1. \A w \in Workers, e \in Events : received[<<w, e>>] = 0
    BY DEF Init
  <2>2. Allowance \in Nat
    BY InitTypes, AllowanceIsNat
  <2>3. \A w \in Workers, n \in Notifications : ~Past(w, n)
    BY InitIsIdle DEF Past, Running
  <2> QED BY <2>1, <2>2, <2>3 DEF Counted
<1> QED BY <1>1, CountedNext, TypesInvariant, FlightInvariant, PTL DEF Spec

(* A worker sends an event to Relayfile maxAttempts times at most, whatever  *)
(* is lost or redelivered; a restart that forgets the claims adds as many.   *)
THEOREM DeliveryIsBounded == Spec => []BoundedDelivery
<1>1. TypeInv /\ Counted => BoundedDelivery
  <2> SUFFICES ASSUME TypeInv, Counted, NEW w \in Workers, NEW e \in Events
               PROVE  received[<<w, e>>] <= MaxAttempts * (IF Durable THEN 1 ELSE crashes + 1)
    BY DEF BoundedDelivery
  <2>1. received[<<w, e>>] <= Allowance + MaxAttempts
    BY DEF Counted
  <2>2. crashes \in Nat /\ MaxAttempts \in Nat
    BY RestartsAreNat DEF TypeInv, TypeOK
  <2>3. Allowance + MaxAttempts = MaxAttempts * (IF Durable THEN 1 ELSE crashes + 1)
    BY <2>2, Distributes DEF Allowance
  <2> QED BY <2>1, <2>3
<1> QED BY <1>1, TypesInvariant, CountedInvariant, PTL

-----------------------------------------------------------------------------
(* What became of an event is final.                                         *)

LEMMA FreshNext ==
    ASSUME TypeInv, Flight, Fresh, [Next]_vars
    PROVE  Fresh'
<1>f. Ttl' = Ttl /\ Durable' = Durable /\ Lasting' = Lasting
  BY Deployed
<1> USE <1>f
<1> SUFFICES ASSUME (Durable \/ crashes = 0)'
             PROVE  /\ \A w \in Workers, n \in Notifications :
                          Past(w, n)' => outcome'[<<w, Current(n)'>>] = "none"
                    /\ \A w \in Workers, e \in Events :
                          outcome'[<<w, e>>] # "none" => e \in claimed'[w]
  BY DEF Fresh
<1>0. /\ claimed \in [Workers -> SUBSET Events]
      /\ outcome \in [Workers \X Events -> {"none"} \cup Settled]
      /\ \A n \in Notifications : Current(n) \in Events
  BY CurrentIsEvent DEF TypeInv, TypeOK, Settled
<1>1. CASE Aside
  BY <1>1 DEF Aside, Fresh, Past, Current
<1>2. ASSUME NEW n \in Notifications, Continues(n) \/ Publish(n)
      PROVE  /\ \A w \in Workers, m \in Notifications :
                   Past(w, m)' => outcome'[<<w, Current(m)'>>] = "none"
             /\ \A w \in Workers, e \in Events :
                   outcome'[<<w, e>>] # "none" => e \in claimed'[w]
  <2>1. UNCHANGED <<claimed, outcome, crashes>>
    BY <1>2 DEF Continues, Publish, workerVars
  <2>2. \A m \in Notifications : m # n => Current(m)' = Current(m)
    <3>1. at' = at \/ \A m \in Notifications : m # n => at'[m] = at[m]
      BY <1>2, ContinueTypes DEF TypeInv, Continues, Publish
    <3> QED BY <3>1 DEF Current
  <2>3. \A w \in Workers, m \in Notifications : Past(w, m)' => m # n /\ Past(w, m)
    <3>1. CASE Continues(n)
      BY <3>1 DEF Continues, Past
    <3>2. CASE Publish(n)
      BY <3>2, PublishHands DEF TypeInv, Past, Running
    <3> QED BY <1>2, <3>1, <3>2
  <2> QED BY <2>1, <2>2, <2>3 DEF Fresh
<1>4. ASSUME NEW w \in Workers, NEW n \in Notifications,
             Finds(w, n) \/ Claims(w, n) \/ Gives(w, n) \/ Labours(w, n) \/ Finishes(w, n)
      PROVE  /\ \A v \in Workers, m \in Notifications :
                   Past(v, m)' => outcome'[<<v, Current(m)'>>] = "none"
             /\ \A v \in Workers, e \in Events :
                   outcome'[<<v, e>>] # "none" => e \in claimed'[v]
  <2>1. PICK to : Moves(w, n, to)
    BY <1>4 DEF Finds, Claims, Gives, Labours, Finishes
  <2>2. crashes' = crashes /\ \A m \in Notifications : Current(m)' = Current(m)
    BY <2>1 DEF Moves, bridgeVars, Current
  <2>3. /\ \A v \in Workers, m \in Notifications : Past(v, m) => outcome[<<v, Current(m)>>] = "none"
        /\ \A v \in Workers, e \in Events : outcome[<<v, e>>] # "none" => e \in claimed[v]
    BY <2>2 DEF Fresh
  <2>4. CASE Finds(w, n) \/ Labours(w, n)
    <3>1. UNCHANGED <<claimed, outcome>>
      BY <2>4 DEF Finds, Labours, workerVars
    <3>2. \A v \in Workers, m \in Notifications : Past(v, m)' => Past(v, m)
      BY <2>4 DEF Finds, Labours, Moves, Past, Running
    <3> QED BY <2>2, <2>3, <3>1, <3>2
  <2>5. CASE Claims(w, n)
    <3>1. outcome' = outcome /\ \A v \in Workers : claimed[v] \subseteq claimed'[v]
      BY <1>0, <2>5 DEF Claims
    <3>2. \A v \in Workers, m \in Notifications :
              Past(v, m)' => Past(v, m) \/ (v = w /\ m = n)
      BY <2>5 DEF Claims, Moves, Past
    <3>3. outcome[<<w, Current(n)>>] = "none"
      BY <1>0, <2>3, <2>5 DEF Claims
    <3> QED BY <2>2, <2>3, <3>1, <3>2, <3>3
  <2>6. CASE Finishes(w, n)
    <3>1. claimed' = claimed /\ Past(w, n) /\ Current(n) \in claimed[w]
      BY <2>6 DEF Finishes, Flight, Held
    <3>2. \A v \in Workers, m \in Notifications :
              Past(v, m)' => Past(v, m) /\ ~(v = w /\ m = n)
      BY <2>6 DEF Finishes, Moves, Past, Running
    <3>3. \A v \in Workers, e \in Events :
              ~(v = w /\ e = Current(n)) => outcome'[<<v, e>>] = outcome[<<v, e>>]
      BY <1>0, <2>6 DEF Finishes
    <3>4. \A m \in Notifications : Past(w, m) /\ m # n => Current(m) # Current(n)
      BY <3>1 DEF Flight, SingleFlight, Works, Past
    <3> QED BY <1>0, <2>2, <2>3, <3>1, <3>2, <3>3, <3>4
  <2>7. CASE Gives(w, n)
    <3>1. outcome' = outcome /\ \A v \in Workers : claimed[v] \subseteq claimed'[v]
      BY <1>0, <2>7 DEF Gives
    <3>2. \A v \in Workers, m \in Notifications : Past(v, m)' => Past(v, m)
      BY <2>7 DEF Gives, Moves, Past, Running
    <3> QED BY <2>2, <2>3, <3>1, <3>2
  <2> QED BY <1>4, <2>4, <2>5, <2>6, <2>7
<1>5. CASE Crash
  <2>1. \A w \in Workers, m \in Notifications : ~Past(w, m)'
    BY <1>5 DEF Crash, Pairs, Past, Running
  <2>2. crashes \in Nat /\ crashes' = crashes + 1
    BY <1>5, RestartsAreNat DEF Crash, TypeInv, TypeOK
  <2>3. Durable /\ claimed' = claimed /\ outcome' = outcome
    BY <1>5, <2>2 DEF Crash
  <2> QED BY <2>1, <2>3 DEF Fresh
<1> QED BY <1>1, <1>2, <1>4, <1>5, NextCases DEF Flight

LEMMA FreshInvariant == Spec => []Fresh
<1>1. Init => Fresh
  <2> SUFFICES ASSUME Init PROVE Fresh
    OBVIOUS
  <2>1. \A w \in Workers, e \in Events : outcome[<<w, e>>] = "none"
    BY DEF Init
  <2>2. \A w \in Workers, n \in Notifications : ~Past(w, n)
    BY InitIsIdle DEF Past, Running
  <2> QED BY <2>1, <2>2 DEF Fresh
<1> QED BY <1>1, FreshNext, TypesInvariant, FlightInvariant, PTL DEF Spec

(* Delivered and dead-lettered are final and exclude each other, unless a    *)
(* restart has forgotten the claims.                                         *)
THEOREM OutcomeIsFinal == Spec => SettlesOnce
<1> DEFINE Final == \A w \in Workers, e \in Events :
                        outcome[<<w, e>>] # "none" /\ (Durable \/ crashes = 0)
                            => outcome'[<<w, e>>] = outcome[<<w, e>>]
<1>1. TypeInv /\ Flight /\ Fresh /\ [Next]_vars => [Final]_vars
  <2> SUFFICES ASSUME TypeInv, Flight, Fresh, [Next]_vars,
                      NEW w \in Workers, NEW e \in Events,
                      outcome[<<w, e>>] # "none", Durable \/ crashes = 0
               PROVE  outcome'[<<w, e>>] = outcome[<<w, e>>]
    OBVIOUS
  <2>1. ASSUME NEW v \in Workers, NEW n \in Notifications, Finishes(v, n)
        PROVE  outcome'[<<w, e>>] = outcome[<<w, e>>]
    <3>1. outcome[<<v, Current(n)>>] = "none"
      BY <2>1 DEF Finishes, Fresh
    <3>2. <<v, Current(n)>> # <<w, e>>
      BY <3>1
    <3>3. outcome \in [Workers \X Events -> {"none"} \cup Settled]
      BY DEF TypeInv, TypeOK, Settled
    <3> QED BY <2>1, <3>2, <3>3 DEF Finishes
  <2>2. outcome' = outcome \/ \E v \in Workers, n \in Notifications : Finishes(v, n)
    BY NextCases
       DEF Flight, Aside, Continues, Publish, Finds, Claims, Gives, Labours, Crash, workerVars
  <2> QED BY <2>1, <2>2
<1> QED BY <1>1, TypesInvariant, FlightInvariant, FreshInvariant, PTL DEF Spec, SettlesOnce

-----------------------------------------------------------------------------
(* publish resolves when the work is done, and claims guard work.            *)

\* Nobody starts to deliver.
Shrinks == /\ \A m \in Notifications : Busy(m)' => Busy(m) /\ Current(m)' = Current(m)
           /\ \A v \in Workers, m \in Notifications : handling[<<v, m>>] = "unclaimed"
                                                     => handling'[<<v, m>>] = "unclaimed"
           /\ ~Ttl => published \subseteq published'

LEMMA ShrinksKeeps ==
    ASSUME Shrinks, Ttl' = Ttl
    PROVE  /\ Apart => Apart'
           /\ \A w \in Workers, e \in Events : ~Ttl /\ Abandoned(w, e) => Abandoned(w, e)'
BY DEF Shrinks, Apart, Abandoned

LEMMA CasesShrink ==
    ASSUME TypeInv, Flight
    PROVE  /\ Aside /\ Quiet => Shrinks
           /\ \A n \in Notifications : Continues(n) => Shrinks
           /\ \A w \in Workers, n \in Notifications :
                 Finds(w, n) \/ Claims(w, n) \/ Gives(w, n) \/ Labours(w, n) \/ Finishes(w, n) => Shrinks
<1>0. stage \in [Notifications -> Stages]
  BY DEF TypeInv, TypeOK, Stages
<1>1. ASSUME Aside, Quiet PROVE Shrinks
  BY <1>0, <1>1 DEF Aside, Quiet, Shrinks, Busy, Current
<1>2. ASSUME NEW n \in Notifications, Continues(n) PROVE Shrinks
  <2>1. /\ \A m \in Notifications : m # n => at'[m] = at[m] /\ stage'[m] = stage[m]
        /\ stage'[n] \in {"publish", "answered"}
        /\ \A w \in Workers : handling[<<w, n>>] \notin Running
        /\ handling' = handling /\ published' = published
    BY <1>2, ContinueTypes DEF TypeInv, Continues
  <2>2. \A m \in Notifications : m # n => Current(m)' = Current(m)
    BY <2>1 DEF Current
  <2> QED BY <2>1, <2>2 DEF Shrinks, Busy
<1>3. ASSUME NEW w \in Workers, NEW n \in Notifications,
             Finds(w, n) \/ Claims(w, n) \/ Gives(w, n) \/ Labours(w, n) \/ Finishes(w, n)
      PROVE  Shrinks
  <2>1. PICK to : Moves(w, n, to)
    BY <1>3 DEF Finds, Claims, Gives, Labours, Finishes
  <2>2. /\ UNCHANGED <<stage, published>> /\ \A m \in Notifications : Current(m)' = Current(m)
        /\ handling[<<w, n>>] \in Running
    <3>1. UNCHANGED <<stage, published, at>>
      BY <2>1 DEF Moves, bridgeVars
    <3>2. handling[<<w, n>>] \in Running
      BY <1>3 DEF Finds, Claims, Gives, Labours, Finishes, Past, Running
    <3> QED BY <3>1, <3>2 DEF Current
  <2>3. handling[<<w, n>>] # "unclaimed"
    BY <2>2 DEF Running
  <2> QED BY <2>1, <2>2, <2>3 DEF Shrinks, Busy, Moves
<1> QED BY <1>1, <1>2, <1>3

LEMMA ApartNext ==
    ASSUME TypeInv, Flight, Apart, [Next]_vars
    PROVE  Apart'
<1>f. Ttl' = Ttl /\ Durable' = Durable /\ Lasting' = Lasting
  BY Deployed
<1> USE <1>f
<1>1. CASE \E n \in Notifications : Publish(n)
  <2>1. PICK n \in Notifications : Publish(n)
    BY <1>1
  <2>2. /\ at' = at /\ published' = published \cup {Current(n)}
        /\ Current(n) \notin published /\ stage' = [stage EXCEPT ![n] = "deliver"]
    BY <2>1 DEF Publish
  <2>3. \A m \in Notifications : Current(m)' = Current(m)
    BY <2>2 DEF Current
  <2>4. \A m \in Notifications : m # n /\ Busy(m)' => Busy(m)
    <3>1. \A v \in Workers, m \in Notifications : m # n => handling'[<<v, m>>] = handling[<<v, m>>]
      BY <2>1, PublishHands DEF TypeInv
    <3>2. stage \in [Notifications -> Stages]
      BY DEF TypeInv, TypeOK, Stages
    <3> QED BY <2>2, <3>1, <3>2 DEF Busy
  <2> QED BY <2>2, <2>3, <2>4 DEF Apart
<1>2. CASE Crash
  <2>1. \A n \in Notifications : ~Busy(n)'
    BY <1>2 DEF Crash, Busy, Pairs, Running
  <2> QED BY <2>1 DEF Apart
<1> QED BY <1>1, <1>2, NextCases, CasesShrink, ShrinksKeeps DEF Flight

LEMMA GuardedNext ==
    ASSUME TypeInv, Flight, Apart, Guarded, [Next]_vars
    PROVE  Guarded'
<1>f. Ttl' = Ttl /\ Durable' = Durable /\ Lasting' = Lasting
  BY Deployed
<1> USE <1>f
<1> SUFFICES ASSUME Durable => Lasting /\ ~Ttl, NEW w \in Workers, NEW e \in Events, e \in claimed'[w]
             PROVE  \/ outcome'[<<w, e>>] # "none"
                    \/ \E n \in Notifications : Works(w, n, e)'
                    \/ Durable /\ Abandoned(w, e)'
  <2>1. claimed' \in [Workers -> SUBSET Events]
    BY NextTypes DEF TypeInv, TypeOK
  <2> QED BY <2>1 DEF Guarded
<1>0. /\ claimed \in [Workers -> SUBSET Events]
      /\ outcome \in [Workers \X Events -> {"none"} \cup Settled]
      /\ \A n \in Notifications : Current(n) \in Events
      /\ <<w, e>> \in Workers \X Events
  BY CurrentIsEvent DEF TypeInv, TypeOK, Settled
<1>a. e \in claimed[w] => \/ outcome[<<w, e>>] # "none"
                          \/ \E n \in Notifications : Works(w, n, e)
                          \/ Durable /\ ~Ttl /\ Abandoned(w, e)
  BY DEF Guarded
<1>1. CASE Aside /\ Quiet
  <2>1. UNCHANGED <<at, handling, claimed, outcome>>
    BY <1>1 DEF Aside
  <2>2. \A n \in Notifications : Works(w, n, e)' <=> Works(w, n, e)
    BY <2>1 DEF Works, Current
  <2> QED BY <1>1, <1>a, <2>1, <2>2, CasesShrink, ShrinksKeeps
<1>2. ASSUME NEW n \in Notifications, Continues(n)
      PROVE  \/ outcome'[<<w, e>>] # "none"
             \/ \E m \in Notifications : Works(w, m, e)'
             \/ Durable /\ Abandoned(w, e)'
  <2>1. UNCHANGED <<handling, claimed, outcome>> /\ handling[<<w, n>>] \notin Running
    BY <1>2 DEF Continues, workerVars
  <2>2. \A m \in Notifications : m # n => Current(m)' = Current(m)
    BY <1>2, ContinueTypes DEF TypeInv, Continues, Current
  <2>3. \A m \in Notifications : Works(w, m, e) => Works(w, m, e)'
    BY <2>1, <2>2 DEF Works
  <2> QED BY <1>2, <1>a, <2>1, <2>3, CasesShrink, ShrinksKeeps
<1>3. ASSUME NEW n \in Notifications, Publish(n)
      PROVE  \/ outcome'[<<w, e>>] # "none"
             \/ \E m \in Notifications : Works(w, m, e)'
             \/ Durable /\ Abandoned(w, e)'
  <2>1. /\ UNCHANGED <<at, claimed, outcome>> /\ published' = published \cup {Current(n)}
        /\ Current(n) \notin published /\ stage' = [stage EXCEPT ![n] = "deliver"]
        /\ stage[n] = "publish"
    BY <1>3 DEF Publish
  <2>2. \A m \in Notifications : Current(m)' = Current(m)
    BY <2>1 DEF Current
  <2>3. \A v \in Workers, m \in Notifications : m # n => handling'[<<v, m>>] = handling[<<v, m>>]
    BY <1>3, PublishHands DEF TypeInv
  <2>4. handling[<<w, n>>] \notin Running
    BY <2>1 DEF Flight, Placed
  <2>5. \A m \in Notifications : Works(w, m, e) => Works(w, m, e)'
    BY <2>2, <2>3, <2>4 DEF Works
  <2>6. Abandoned(w, e) => Abandoned(w, e)'
    <3>1. stage \in [Notifications -> Stages]
      BY DEF TypeInv, TypeOK, Stages
    <3>2. \A m \in Notifications : m # n /\ Busy(m)' => Busy(m)
      BY <2>1, <2>3, <3>1 DEF Busy
    <3> QED BY <2>1, <2>2, <2>3, <3>2 DEF Abandoned
  <2> QED BY <1>a, <2>1, <2>5, <2>6
<1>4. ASSUME NEW v \in Workers, NEW n \in Notifications,
             Finds(v, n) \/ Claims(v, n) \/ Gives(v, n) \/ Labours(v, n) \/ Finishes(v, n)
      PROVE  \/ outcome'[<<w, e>>] # "none"
             \/ \E m \in Notifications : Works(w, m, e)'
             \/ Durable /\ Abandoned(w, e)'
  <2>1. PICK to : Moves(v, n, to)
    BY <1>4 DEF Finds, Claims, Gives, Labours, Finishes
  <2>2. \A m \in Notifications : Current(m)' = Current(m)
    BY <2>1 DEF Moves, bridgeVars, Current
  <2>3. Abandoned(w, e) /\ ~Ttl => Abandoned(w, e)'
    BY <1>4, CasesShrink, ShrinksKeeps
  <2>4. CASE Finds(v, n) \/ Labours(v, n)
    <3>1. UNCHANGED <<claimed, outcome>>
      BY <2>4 DEF Finds, Labours, workerVars
    <3>2. \A m \in Notifications : Works(w, m, e) => Works(w, m, e)'
      BY <2>2, <2>4 DEF Finds, Labours, Moves, Works
    <3> QED BY <1>a, <2>3, <3>1, <3>2
  <2>5. CASE Claims(v, n)
    <3>1. outcome' = outcome /\ claimed'[w] = claimed[w] \cup (IF v = w THEN {Current(n)} ELSE {})
      BY <1>0, <2>5 DEF Claims
    <3>2. \A m \in Notifications : Works(w, m, e) => Works(w, m, e)'
      BY <2>2, <2>5 DEF Claims, Moves, Works
    <3>3. v = w /\ e = Current(n) => Works(w, n, e)'
      BY <2>2, <2>5 DEF Claims, Moves, Works, Running
    <3> QED BY <1>a, <2>3, <3>1, <3>2, <3>3
  <2>6. CASE Finishes(v, n)
    <3>1. PICK o \in Settled : outcome' = [outcome EXCEPT ![<<v, Current(n)>>] = o]
      BY <2>6 DEF Finishes
    <3>2. o # "none"
      BY DEF Settled
    <3>3. claimed' = claimed
      BY <2>6 DEF Finishes
    <3>4. CASE v = w /\ e = Current(n)
      BY <1>0, <3>1, <3>2, <3>4
    <3>5. CASE ~(v = w /\ e = Current(n))
      <4>1. outcome'[<<w, e>>] = outcome[<<w, e>>]
        BY <1>0, <3>1, <3>5
      <4>2. \A m \in Notifications : Works(w, m, e) => Works(w, m, e)'
        BY <2>1, <2>2, <3>5 DEF Moves, Works
      <4> QED BY <1>a, <2>3, <3>3, <4>1, <4>2
    <3> QED BY <3>4, <3>5
  <2>7. CASE Gives(v, n)
    <3>1. outcome' = outcome /\ (claimed'[w] = claimed[w]
                               \/ claimed'[w] = claimed[w] \cup (IF v = w THEN {Current(n)} ELSE {}))
      BY <1>0, <2>7 DEF Gives
    <3>2. \A m \in Notifications : Works(w, m, e) => Works(w, m, e)'
      BY <2>2, <2>7 DEF Gives, Moves, Works
    <3>3. ASSUME v = w, e = Current(n) PROVE Durable /\ Abandoned(w, e)'
      <4>1. Durable /\ ~Ttl /\ Busy(n) /\ published' = published
        BY <2>1, <2>7 DEF Gives, Busy, Running, Moves, bridgeVars
      <4>2. \A m \in Notifications : Busy(m)' => Busy(m)
        BY <1>4, CasesShrink DEF Shrinks
      <4>3. \A m \in Notifications : Busy(m)' /\ Current(m)' = e => m = n
        BY <2>2, <3>3, <4>1, <4>2 DEF Apart
      <4>4. handling'[<<w, n>>] = "unclaimed"
        BY <2>7, <3>3 DEF Gives, Moves
      <4>5. e \in published
        BY <3>3, <4>1 DEF Apart
      <4> QED BY <4>1, <4>3, <4>4, <4>5 DEF Abandoned
    <3> QED BY <1>a, <2>3, <3>1, <3>2, <3>3
  <2> QED BY <1>4, <2>4, <2>5, <2>6, <2>7
<1>5. CASE Crash
  <2>1. Durable /\ ~Ttl /\ claimed' = claimed /\ published' = published /\ outcome' = outcome
    BY <1>5 DEF Crash
  <2>2. \A n \in Notifications : ~Busy(n)'
    BY <1>5 DEF Crash, Busy, Pairs, Running
  <2>3. \A n \in Notifications : Works(w, n, e) => e \in published
    BY <2>1 DEF Works, Apart, Busy
  <2>4. Abandoned(w, e) => e \in published
    BY DEF Abandoned
  <2> QED BY <1>a, <2>1, <2>2, <2>3, <2>4 DEF Abandoned
<1> QED BY <1>1, <1>2, <1>3, <1>4, <1>5, NextCases DEF Flight

LEMMA ResolvedNext ==
    ASSUME TypeInv, Flight, Apart, Guarded, ResolvedMeansSettled, [Next]_vars
    PROVE  ResolvedMeansSettled'
<1>f. Ttl' = Ttl /\ Durable' = Durable /\ Lasting' = Lasting
  BY Deployed
<1> USE <1>f
<1> SUFFICES ASSUME ~Ttl, Durable => Lasting,
                    NEW w \in Workers, NEW n \in Notifications, stage'[n] = "deliver",
                    handling'[<<w, n>>] \in {"resolved", "rejected"}
             PROVE  outcome'[<<w, Current(n)'>>] # "none"
  BY DEF ResolvedMeansSettled
<1>0. /\ stage \in [Notifications -> Stages] /\ Current(n) \in Events
      /\ claimed \in [Workers -> SUBSET Events]
      /\ outcome \in [Workers \X Events -> {"none"} \cup Settled]
  BY CurrentIsEvent DEF TypeInv, TypeOK, Stages, Settled
<1>a. stage[n] = "deliver" /\ handling[<<w, n>>] \in {"resolved", "rejected"}
          => outcome[<<w, Current(n)>>] # "none"
  BY DEF ResolvedMeansSettled
<1>1. CASE Aside /\ Quiet
  BY <1>0, <1>a, <1>1 DEF Aside, Quiet, Current
<1>2. ASSUME NEW m \in Notifications, Continues(m) PROVE outcome'[<<w, Current(n)'>>] # "none"
  <2>1. n # m /\ at'[n] = at[n] /\ stage'[n] = stage[n] /\ UNCHANGED <<handling, outcome>>
    BY <1>2, ContinueTypes DEF TypeInv, Continues, workerVars
  <2> QED BY <1>a, <2>1 DEF Current
<1>3. ASSUME NEW m \in Notifications, Publish(m) PROVE outcome'[<<w, Current(n)'>>] # "none"
  <2>1. n # m /\ handling'[<<w, n>>] = handling[<<w, n>>]
    BY <1>3, PublishHands DEF TypeInv
  <2>2. at' = at /\ outcome' = outcome /\ stage'[n] = stage[n]
    BY <1>0, <1>3, <2>1 DEF Publish
  <2> QED BY <1>a, <2>1, <2>2 DEF Current
<1>4. ASSUME NEW v \in Workers, NEW m \in Notifications,
             Finds(v, m) \/ Claims(v, m) \/ Gives(v, m) \/ Labours(v, m) \/ Finishes(v, m)
      PROVE  outcome'[<<w, Current(n)'>>] # "none"
  <2>1. PICK to : Moves(v, m, to)
    BY <1>4 DEF Finds, Claims, Gives, Labours, Finishes
  <2>2. stage' = stage /\ Current(n)' = Current(n)
    BY <2>1 DEF Moves, bridgeVars, Current
  <2>3. outcome[<<w, Current(n)>>] # "none" => outcome'[<<w, Current(n)>>] # "none"
    BY <1>0, <1>4 DEF Finds, Claims, Gives, Labours, Finishes, Settled, workerVars
  <2>4. CASE ~(v = w /\ m = n)
    BY <1>a, <2>1, <2>2, <2>3, <2>4 DEF Moves
  <2>5. CASE v = w /\ m = n
    <3>1. CASE Finds(w, n)
      <4>1. /\ Current(n) \in claimed[w] /\ handling[<<w, n>>] = "claim" /\ Busy(n)
            /\ outcome' = outcome
        BY <3>1 DEF Finds, Busy, Running, workerVars
      <4>2. ~Abandoned(w, Current(n))
        BY <4>1 DEF Abandoned
      <4>3. ASSUME NEW l \in Notifications, Works(w, l, Current(n)) PROVE FALSE
        <5>1. Busy(l) /\ Current(l) = Current(n) /\ l # n
          BY <4>1, <4>3 DEF Works, Busy
        <5> QED BY <4>1, <5>1 DEF Apart
      <4> QED BY <2>2, <4>1, <4>2, <4>3 DEF Guarded
    <3>2. CASE Finishes(w, n)
      BY <1>0, <2>2, <3>2 DEF Finishes, Settled
    <3>3. CASE Claims(w, n) \/ Gives(w, n) \/ Labours(w, n)
      BY <3>3 DEF Claims, Gives, Labours, Moves, Running
    <3> QED BY <1>4, <2>5, <3>1, <3>2, <3>3
  <2> QED BY <2>4, <2>5
<1>5. CASE Crash
  BY <1>5 DEF Crash
<1> QED BY <1>1, <1>2, <1>3, <1>4, <1>5, NextCases DEF Flight

LEMMA DeliveryInvariant == Spec => []Delivery
<1>1. Init => Delivery
  <2> SUFFICES ASSUME Init PROVE Delivery
    OBVIOUS
  <2>1. /\ \A w \in Workers, n \in Notifications : handling[<<w, n>>] = "none"
        /\ \A n \in Notifications : stage[n] = "unseen"
        /\ \A w \in Workers : claimed[w] = {}
    BY InitIsIdle DEF Init
  <2> QED BY <2>1 DEF Delivery, Apart, Guarded, ResolvedMeansSettled, Busy, Running
<1>2. TypeInv /\ Flight /\ Delivery /\ [Next]_vars => Delivery'
  BY ApartNext, GuardedNext, ResolvedNext DEF Delivery
<1> QED BY <1>1, <1>2, TypesInvariant, FlightInvariant, PTL DEF Spec

(* publish resolves, and the next event is published, only when every worker *)
(* has settled this one, as long as publish claims do not expire.            *)
THEOREM ResolvesWhenSettled == Spec => []ResolvedMeansSettled
<1>1. Delivery => ResolvedMeansSettled
  BY DEF Delivery
<1> QED BY <1>1, DeliveryInvariant, PTL

(* Where stores do not outlive the process, an event that is a duplicate for *)
(* every redelivery is being handled or settled.                             *)
THEOREM ClaimsGuardWork == Spec => []ClaimGuardsWork
<1>1. Delivery => ClaimGuardsWork
  BY DEF Delivery, Guarded, ClaimGuardsWork
<1> QED BY <1>1, DeliveryInvariant, PTL
=============================================================================
