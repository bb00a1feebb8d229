------------------------------ MODULE MCCalls --------------------------------
(***************************************************************************)
(* Proj1's calls alone, for the runs in which their datagrams mix.  Of     *)
(* what the calls have returned only the opened sockets decide what may    *)
(* happen next, so states that differ in the rest are the same state.      *)
(***************************************************************************)
EXTENDS FrontCalls, TLC

Symmetry == Permutations(Process)
Present == <<front, inbox, reading, answers, daemon, phase, given.opened>>
=============================================================================
