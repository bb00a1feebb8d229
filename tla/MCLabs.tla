------------------------------- MODULE MCLabs --------------------------------
(***************************************************************************)
(* The three smaller systems, each on its own: lab says which of them runs *)
(* in a behaviour, and the other two do not move; files is then a list of  *)
(* which FilesArrive says nothing.                                         *)
(***************************************************************************)
EXTENDS FrontCalls, Relay, TurnerTimer

VARIABLE lab

Lists == {<<0, 3>>, <<5>>, <<Missing, 1>>}

Init ==
    /\ lab \in {"calls", "relay", "timer"}
    /\ CallsInit /\ RelayInit /\ TurnerInit
    /\ lab # "relay" => files = <<Missing, 1>>

Next ==
    \/ lab = "calls" /\ CallsNext /\ UNCHANGED <<relayVars, turnerVars, lab>>
    \/ lab = "relay" /\ RelayNext /\ UNCHANGED <<callsVars, turnerVars, lab>>
    \/ lab = "timer" /\ TurnerNext /\ UNCHANGED <<callsVars, relayVars, lab>>

Spec ==
    /\ Init /\ [][Next]_<<callsVars, relayVars, turnerVars, lab>>
    \* A process runs, or troll passes the next package.
    /\ WF_relayVars(lab = "relay" /\ Progress)
    \* Time passes, and the loop comes round.
    /\ WF_turnerVars(lab = "timer" /\ Second) /\ WF_turnerVars(lab = "timer" /\ Loop)
=============================================================================
