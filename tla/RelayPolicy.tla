---------------------------- MODULE RelayPolicy -----------------------------
(* What scoped write authorizers promise.  An execution context is under the *)
(* bindings made in it or in the contexts it descends from, as long as they  *)
(* are not released.  A write asks those it was under when it began, in the  *)
(* order of binding: one denial denies it, the earliest that names a         *)
(* transport decides where it goes, otherwise the client's own choice does.  *)
EXTENDS Integers, FiniteSets, FiniteSetsExt

CONSTANTS Contexts, Main, Transports
Vfs == "vfs"        \* no transport: the write goes to the workspace's files
Nowhere == "none"

VARIABLES policy,   \* the bindings each context is under
          bound,    \* how many bindings were ever made; they are numbered
          begun,    \* the contexts that exist
          write     \* the write of each context

NoWrite == [pc |-> "idle", must |-> {}, allowed |-> {}, override |-> Nowhere, chosen |-> Vfs]

Init ==
    /\ policy = [c \in Contexts |-> {}] /\ bound = 0 /\ begun = {Main}
    /\ write = [c \in Contexts |-> NoWrite]

Bind(c) ==
    /\ c \in begun
    /\ bound' = bound + 1
    /\ policy' = [policy EXCEPT ![c] = @ \cup {bound + 1}]
    /\ UNCHANGED <<begun, write>>

\* A released binding is gone from every context, for good.
Release(b) ==
    /\ policy' = [c \in Contexts |-> policy[c] \ {b}]
    /\ UNCHANGED <<bound, begun, write>>

\* A new context inherits; a scope adds a binding to what it inherits.
Spawn(c, d, scoped) ==
    /\ c \in begun /\ d \notin begun
    /\ begun' = begun \cup {d}
    /\ bound' = IF scoped THEN bound + 1 ELSE bound
    /\ policy' = [policy EXCEPT ![d] = policy[c] \cup (IF scoped THEN {bound + 1} ELSE {})]
    /\ UNCHANGED write

Start(c) ==
    /\ c \in begun /\ write[c].pc # "asking"
    /\ \E t \in Transports \cup {Vfs} :
          write' = [write EXCEPT ![c] =
              [NoWrite EXCEPT !.pc = "asking", !.must = policy[c], !.chosen = t]]
    /\ UNCHANGED <<policy, bound, begun>>

Ask(c) ==
    LET w == write[c]
        b == Min(w.must \ w.allowed)
    IN  /\ w.pc = "asking" /\ w.allowed # w.must
        /\ \/ write' = [write EXCEPT ![c].pc = "denied"]
           \/ \E t \in Transports \cup {Nowhere} :
                 write' = [write EXCEPT ![c] = [w EXCEPT !.allowed = @ \cup {b},
                              !.override = IF @ = Nowhere THEN t ELSE @]]
        /\ UNCHANGED <<policy, bound, begun>>

Send(c) ==
    LET w == write[c] IN
    /\ w.pc = "asking" /\ w.allowed = w.must
    /\ write' = [write EXCEPT ![c] = [w EXCEPT !.pc = "sent",
                    !.chosen = IF w.override = Nowhere THEN @ ELSE w.override]]
    /\ UNCHANGED <<policy, bound, begun>>

Next ==
    \/ \E c \in Contexts : Bind(c) \/ Start(c) \/ Ask(c) \/ Send(c)
    \/ \E b \in 1..bound : Release(b)
    \/ \E c, d \in Contexts, scoped \in BOOLEAN : Spawn(c, d, scoped)

Spec == Init /\ [][Next]_<<policy, bound, begun, write>>
=============================================================================
