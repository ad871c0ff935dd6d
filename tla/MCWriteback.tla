---------------------------- MODULE MCWriteback ----------------------------
(* h1 sends a create draft over HTTP and p1 a file that concerns no provider;*)
(* m1 and m2 write over a mount drafts with ids of their own.                *)
EXTENDS Writeback

CONSTANTS h1, p1, m1, m2, draft, other, upsert

MCMode == [c \in Calls |-> IF c \in {h1, p1} THEN "http" ELSE "mount"]

\* Every mounted draft has a path of its own, or one file is written by both.
MCPath == [c \in Calls |-> CASE c = h1 -> draft [] c = m1 -> other [] OTHER -> upsert]
MCShared == [c \in Calls |-> upsert]
MCBody == [c \in Calls |-> IF c = p1 THEN h1 ELSE c]
=============================================================================
