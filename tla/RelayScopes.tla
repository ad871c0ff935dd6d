---------------------------- MODULE RelayScopes -----------------------------
(* The scopes that decide where a helper's write goes.  Authorizers are bound*)
(* in asynchronous contexts: a binding is a frame that points to the frame   *)
(* it was made under; a context holds one frame and passes it on to what it  *)
(* starts; whoever holds a binding's restore callback may call it, once and  *)
(* in any order.  Transports are bound for the whole process: a binding      *)
(* remembers the transport before it and puts it back if its own is still    *)
(* there.  A write picks a transport, then asks the authorizers above it one *)
(* after another; other contexts go on meanwhile.                            *)
EXTENDS Integers, Sequences, FiniteSets, SequencesExt

CONSTANTS Contexts,   \* asynchronous execution contexts
          Main,       \* the one the process begins with
          Transports,
          Explicit,   \* transports clients were constructed with
          Settings    \* the processes considered: which contexts write, and how
                      \* many authorizer and transport bindings are made at most

Vfs == "vfs"            \* no transport: the write goes to the workspace's files
Nowhere == "none"

ASSUME ScopesAssumption ==
    /\ Main \in Contexts
    /\ Settings \subseteq [writers : SUBSET Contexts, bindings : Nat, transports : Nat]
    /\ Explicit \subseteq Transports /\ {Vfs, Nowhere} \cap Transports = {}

VARIABLES setting, \* the process this is
          store,   \* the frame in each context's storage, 0: none
          frame,   \* the frames made so far
          begun,   \* the contexts that exist
          process, \* the process transport
          bound,   \* the transport bindings made so far
          nested,  \* history: they were restored once each, the newest first
          write    \* progress and local variables of the write of each context

vars == <<setting, store, frame, begun, process, bound, nested, write>>

Frames == 1..setting.bindings

-----------------------------------------------------------------------------
(* Frames.                                                                   *)

\* activeFrame: the nearest frame, from f upwards, that is still active.
ActiveFrame(f) ==
    LET up[g \in 0..Len(frame)] ==
            IF g = 0 \/ frame[g].active THEN g ELSE up[frame[g].previous]
    IN  up[f]

(* (mutant) The frames' own state is ignored on the way up. *)
AuthorizersReleasedToo(f) ==
    LET chain[g \in 0..Len(frame)] ==
            IF g = 0 THEN <<>> ELSE Append(chain[frame[g].previous], g)
    IN  chain[ActiveFrame(f)]

\* activeAuthorizers: the active frames above f, the outermost first.
Chain(f) ==
    LET chain[g \in 0..Len(frame)] ==
            IF g = 0 THEN <<>>
            ELSE chain[frame[g].previous] \o (IF frame[g].active THEN <<g>> ELSE <<>>)
    IN  chain[f]

Authorizers(f) == Chain(ActiveFrame(f))

NewFrame(c, scoped) == [previous |-> ActiveFrame(store[c]), active |-> TRUE, scoped |-> scoped]

NoWrite == [pc |-> "idle", left |-> <<>>, asked |-> {}, override |-> Nowhere, chosen |-> Vfs]

Init ==
    /\ setting \in Settings
    /\ store = [c \in Contexts |-> 0] /\ frame = <<>> /\ begun = {Main}
    /\ process = Vfs /\ bound = <<>> /\ nested = TRUE
    /\ write = [c \in Contexts |-> NoWrite]

Scopes == <<setting, store, frame, begun>>
Processwide == <<setting, process, bound, nested>>

-----------------------------------------------------------------------------
(* bindRelayWriteAuthorizer, runWithRelayWriteAuthorizer and what starts an  *)
(* asynchronous context.                                                     *)

Bind(c) ==
    /\ c \in begun /\ Len(frame) < setting.bindings
    /\ frame' = Append(frame, NewFrame(c, FALSE))
    /\ store' = [store EXCEPT ![c] = Len(frame) + 1]
    /\ UNCHANGED <<begun, Processwide, write>>

\* The restore callback of binding f, called in context c.
Restore(c, f) ==
    /\ c \in begun /\ frame[f].active /\ ~frame[f].scoped
    /\ frame' = [frame EXCEPT ![f].active = FALSE]
    /\ store' = IF store[c] = f
                THEN [store EXCEPT ![c] = ActiveFrame(frame[f].previous)] ELSE store
    /\ UNCHANGED <<begun, Processwide, write>>

\* An operation started in context c goes on in a context of its own.
Spawn(c, d) ==
    /\ c \in begun /\ d \notin begun
    /\ begun' = begun \cup {d}
    /\ store' = [store EXCEPT ![d] = store[c]]
    /\ UNCHANGED <<frame, Processwide, write>>

\* The same under an authorizer; the frame is never restored.
RunScoped(c, d) ==
    /\ c \in begun /\ d \notin begun /\ Len(frame) < setting.bindings
    /\ begun' = begun \cup {d}
    /\ frame' = Append(frame, NewFrame(c, TRUE))
    /\ store' = [store EXCEPT ![d] = Len(frame) + 1]
    /\ UNCHANGED <<Processwide, write>>

-----------------------------------------------------------------------------
(* bindRelayTransport.                                                       *)

BindTransport(t) ==
    /\ Len(bound) < setting.transports
    /\ bound' = Append(bound, [own |-> t, previous |-> process, open |-> TRUE])
    /\ process' = t
    /\ UNCHANGED <<Scopes, nested, write>>

Newest(i) == bound[i].open /\ \A j \in DOMAIN bound : j > i => ~bound[j].open

(* (mutant) A release puts back what it saw, whatever is in force now. *)
RestoreTransportBlindly(i) ==
    /\ process' = bound[i].previous
    /\ bound' = [bound EXCEPT ![i].open = FALSE]
    /\ nested' = (nested /\ Newest(i))
    /\ UNCHANGED <<Scopes, write>>

\* Nothing stops a callback from being called in any order, and again.
RestoreTransport(i) ==
    /\ process' = IF process = bound[i].own THEN bound[i].previous ELSE process
    /\ bound' = [bound EXCEPT ![i].open = FALSE]
    /\ nested' = (nested /\ Newest(i))
    /\ UNCHANGED <<Scopes, write>>

-----------------------------------------------------------------------------
(* A write: relayClient(...).write and executeRelayWrite.                    *)

\* The transport and the list of authorizers are those of this moment.
StartWrite(c) ==
    /\ c \in begun \cap setting.writers /\ write[c].pc # "asking"
    /\ \E t \in Explicit \cup {process} :
          write' = [write EXCEPT ![c] = [NoWrite EXCEPT
              !.pc = "asking", !.left = Authorizers(store[c]), !.chosen = t]]
    /\ UNCHANGED <<Scopes, Processwide>>

\* An authorizer that throws or answers nonsense ends the write like a denial.
Deny(c) ==
    /\ write[c].pc = "asking" /\ write[c].left # <<>>
    /\ write' = [write EXCEPT ![c].pc = "denied"]
    /\ UNCHANGED <<Scopes, Processwide>>

Allow(c) ==
    /\ write[c].pc = "asking" /\ write[c].left # <<>>
    /\ \E t \in Transports \cup {Nowhere} :
          write' = [write EXCEPT ![c] = [write[c] EXCEPT
              !.left = Tail(@), !.asked = @ \cup {Head(write[c].left)},
              !.override = IF @ = Nowhere THEN t ELSE @]]
    /\ UNCHANGED <<Scopes, Processwide>>

(* (mutant) The authorizers' transport is used although none named one. *)
SendOverridden(c) ==
    /\ write[c].pc = "asking" /\ write[c].left = <<>>
    /\ write' = [write EXCEPT ![c] = [write[c] EXCEPT !.pc = "sent", !.chosen = write[c].override]]
    /\ UNCHANGED <<Scopes, Processwide>>

\* Every client passes a fallback, the workspace's files, so that there is always
\* somewhere to send to.
Send(c) ==
    /\ write[c].pc = "asking" /\ write[c].left = <<>>
    /\ write' = [write EXCEPT ![c] = [write[c] EXCEPT !.pc = "sent",
          !.chosen = IF write[c].override = Nowhere THEN @ ELSE write[c].override]]
    /\ UNCHANGED <<Scopes, Processwide>>

Next ==
    \/ \E c \in Contexts : Bind(c) \/ StartWrite(c) \/ Deny(c) \/ Allow(c) \/ Send(c)
    \/ \E c \in Contexts, f \in DOMAIN frame : Restore(c, f)
    \/ \E c, d \in Contexts : Spawn(c, d) \/ RunScoped(c, d)
    \/ \E t \in Transports : BindTransport(t)
    \/ \E i \in DOMAIN bound : RestoreTransport(i)

Spec == Init /\ [][Next]_vars

-----------------------------------------------------------------------------
(* Properties.                                                               *)

\* The types of all variables; a frame points to an older one.
TypeOK ==
    /\ setting \in Settings /\ store \in [Contexts -> 0..Len(frame)] /\ begun \subseteq Contexts
    /\ frame \in Seq([previous : 0..setting.bindings, active : BOOLEAN, scoped : BOOLEAN])
    /\ Len(frame) <= setting.bindings /\ \A f \in DOMAIN frame : frame[f].previous < f
    /\ process \in Transports \cup {Vfs} /\ nested \in BOOLEAN
    /\ bound \in Seq([own : Transports, previous : Transports \cup {Vfs}, open : BOOLEAN])
    /\ Len(bound) <= setting.transports
    /\ write \in [Contexts ->
          [pc : {"idle", "asking", "sent", "denied"}, left : Seq(Frames), asked : SUBSET Frames,
           override : Transports \cup {Nowhere}, chosen : Transports \cup {Vfs}]]

\* The last binding made, if it is the only one of its transport: a release can
\* tell another binding from its own by nothing but the transport.
Distinct(i) == i = Len(bound) /\ \A j \in 1..(i - 1) : bound[j].own # bound[i].own

\* "Nested bindings restore correctly; the callback will not overwrite a newer
\* binding": as long as transport bindings are restored once each and the newest
\* first, the process transport is that of the newest binding in force, also if
\* several bindings have the same one; and in whatever order callbacks are called
\* and repeated, the last binding, if Distinct, stays in force till its own one is.
TransportOfNewest ==
    /\ nested => IF \E i \in DOMAIN bound : Newest(i)
                 THEN \A i \in DOMAIN bound : Newest(i) => process = bound[i].own
                 ELSE process = Vfs
    /\ \A i \in DOMAIN bound : Distinct(i) /\ bound[i].open => process = bound[i].own

\* "Any denial wins and the earliest transport override remains authoritative";
\* restoring "is safe to call out of order and never resurrects inactive
\* policy"; "concurrent scopes do not observe or mutate one another": the frames
\* behave like a set of bindings per context, whatever the order of restoring.
Policy == INSTANCE RelayPolicy WITH
    policy <- [c \in Contexts |-> ToSet(Authorizers(store[c]))],
    bound <- Len(frame),
    write <- [c \in Contexts |->
                [pc |-> write[c].pc, must |-> write[c].asked \cup ToSet(write[c].left),
                 allowed |-> write[c].asked, override |-> write[c].override,
                 chosen |-> write[c].chosen]]
RefinesPolicy == Policy!Spec
=============================================================================
