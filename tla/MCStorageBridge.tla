-------------------------- MODULE MCStorageBridge ---------------------------
(* n1 and n2 deliver the same batch (a redelivery).  A race is two workers   *)
(* with in-memory stores and an error hook that throws.  Of one worker: all   *)
(* claims are durable, and publish claims expire or (Kept) do not, over      *)
(* restarts and with every fault; only the worker's claims are durable; or   *)
(* none is, with every fault but a throwing hook.                            *)
EXTENDS StorageBridge

CONSTANTS n1, n2, created, removed

MCBatch == [n \in Notifications |-> <<created, removed>>]

Race == [ttl |-> FALSE, durable |-> {}, workers |-> {"w1", "w2"},
         faults |-> {"fetch_error", "lost_response", "hook_error"},
         restarts |-> 0]

Surviving == [ttl |-> TRUE, durable |-> Stores, workers |-> {"w1"},
              faults |-> FaultKinds, restarts |-> 2]

Kept == [Surviving EXCEPT !.ttl = FALSE]

Forgetful == [Kept EXCEPT !.durable = {"workers"}]

InMemory == [ttl |-> FALSE, durable |-> {}, workers |-> {"w1"},
             faults |-> FaultKinds \ {"hook_error"}, restarts |-> 1]

MCRaces == {Race, Surviving, Kept, Forgetful}
MCInMemory == {InMemory}
=============================================================================
