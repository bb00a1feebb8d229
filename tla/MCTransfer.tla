----------------------------- MODULE MCTransfer -----------------------------
(* Instances of Transfer for TLC: who connects, what is sent, what is read. *)
EXTENDS Transfer

CONSTANTS c1, c2, s1, s2, p1, p2

(* Session numbers: distinct, or equal as two rand() calls may make them. *)
OneSession == (c1 :> s1)
TwoSessions == (c1 :> s1) @@ (c2 :> s2)
SameSession == (c1 :> s1) @@ (c2 :> s1)

(* Chunks are sequences of bytes; all bytes differ, so that a byte lost,    *)
(* repeated or out of place shows.                                          *)
TwoChunks == (c1 :> <<<<1>>, <<2>>>>)
ThreeChunks == (c1 :> <<<<1>>, <<2>>, <<3>>>>)
WideChunks == (c1 :> <<<<1, 2>>, <<3, 4>>>>)
PairChunks == (c1 :> <<<<1>>>>) @@ (c2 :> <<<<11>>>>)
MisfitChunks == (c1 :> <<<<1>>>>) @@ (c2 :> <<<<11, 12>>>>)
=============================================================================
