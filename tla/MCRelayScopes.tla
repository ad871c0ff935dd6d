--------------------------- MODULE MCRelayScopes ----------------------------
(* Three processes: two contexts that both write under authorizers, three    *)
(* contexts with more bindings of which one writes, and one that only binds  *)
(* transports.                                                               *)
EXTENDS RelayScopes, TLC

CONSTANTS main, d1, d2, preview, other

Process(writers, bindings, transports) ==
    [writers |-> writers, bindings |-> bindings, transports |-> transports]

MCSettings == {Process({main, d1}, 2, 0), Process({d1}, 3, 0), Process({main}, 0, 4)}
=============================================================================
