---------------------------- MODULE MCSchemaSync ----------------------------
(* Three records, the last two changed at the same moment.  Runs one after   *)
(* another see every listing, numbered pages also without a known size;      *)
(* overlapping ones resume over an ascending listing with opaque links.      *)
EXTENDS SchemaSync

CONSTANTS u1, u2

MCMarks == [r \in Records |-> IF r = 1 THEN 1 ELSE 2]

Serial(order, stuck, lastMark) ==
    [strategy : Strategies, order : {order}, stuck : {stuck}, sized : {TRUE},
     callers : {{u1}}, limits : {{1, 3}}, lastMark : {lastMark}]

Sizeless(order, stuck) ==
    [strategy : {"page", "offset"}, order : {order}, stuck : {stuck}, sized : {FALSE},
     callers : {{u1}}, limits : {{1, 3}}, lastMark : {3}]

Overlap == [strategy |-> "link-header", order |-> "ascending", stuck |-> FALSE,
            sized |-> TRUE, callers |-> {u1, u2}, limits |-> {3}, lastMark |-> 3]

MCSettings ==
    UNION {Serial("ascending", FALSE, 4), Serial("descending", FALSE, 3),
           Serial("ascending", TRUE, 3), Sizeless("ascending", FALSE),
           Sizeless("descending", FALSE), Sizeless("ascending", TRUE), {Overlap}}
=============================================================================
