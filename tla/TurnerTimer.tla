----------------------------- MODULE TurnerTimer -----------------------------
(***************************************************************************)
(* The other timer process of the repository (Turner/timer.c): a delta     *)
(* list again, in a loop that wakes up every second or for a request,      *)
(* serves the request first and then takes the whole seconds since its     *)
(* last round from the first node, of which it drops at most one a round.  *)
(*                                                                         *)
(* addNode() and deleteNode() follow the next pointer of a node that is    *)
(* not there when the list has one node: the process crashes.  clockLeft   *)
(* is a history variable: the seconds left, by the clock, of each timer.   *)
(***************************************************************************)
EXTENDS Integers, FiniteSets, SequencesExt

CONSTANTS
    TimerSeqs,  \* the sequence numbers that are timed
    Seconds,    \* the times asked for
    MaxSlow,    \* bound: seconds from one round to the next
    MaxWaiting  \* bound: requests in the receive buffer

ASSUME TurnerAssumption ==
    /\ IsFiniteSet(TimerSeqs)
    /\ Seconds \subseteq Nat \ {0} /\ MaxSlow \in Nat \ {0} /\ MaxWaiting \in Nat

VARIABLES
    packs,      \* the requests in the receive buffer
    list,       \* the nodes from head on
    since,      \* the seconds since lasttime
    crashed,
    clockLeft

turnerVars == <<packs, list, since, crashed, clockLeft>>

Node(k, t) == [seq |-> k, timeDiff |-> t]
Timed == {list[i].seq : i \in DOMAIN list}

(* The seconds from lasttime to the expiry of the i-th node. *)
Expiry(l, i) ==
    LET sum[j \in 0..i] == IF j = 0 THEN 0 ELSE sum[j - 1] + l[j].timeDiff IN sum[i]

-----------------------------------------------------------------------------
(* addNode(): a new first node, or the place before the first node from the *)
(* second on that does not expire earlier, or the end.                      *)
Place(l, t) ==
    IF l = <<>> \/ l[1].timeDiff > t THEN 1
    ELSE CHOOSE p \in 2..Len(l) + 1 :
             /\ p <= Len(l) => t <= Expiry(l, p)
             /\ \A q \in 2..p - 1 : Expiry(l, q) < t

(* Fault: the next node keeps its difference. *)
Added_Kept(l, k, t) == InsertAt(l, Place(l, t), Node(k, t - Expiry(l, Place(l, t) - 1)))
Added(l, k, t) ==
    LET p == Place(l, t)
        d == t - Expiry(l, p - 1)
        rest == IF p \in DOMAIN l THEN [l EXCEPT ![p].timeDiff = @ - d] ELSE l IN
    InsertAt(rest, p, Node(k, d))

AddCrashes(l, t) == Len(l) = 1 /\ l[1].timeDiff <= t

(* deleteNode() *)
Deleted(l, k) ==
    LET i == CHOOSE j \in DOMAIN l : l[j].seq = k
        rest == IF i < Len(l) THEN [l EXCEPT ![i + 1].timeDiff = @ + l[i].timeDiff] ELSE l IN
    RemoveAt(rest, i)

DeleteCrashes(l, k) == Len(l) = 1 /\ l[1].seq # k

(* updateNodes().  A first node that is overdue leaves what it is overdue   *)
(* by to the next.  Fault: lasttime is set before it is read.               *)
Passed_Never(l) == l
Passed(l) == IF l = <<>> THEN l ELSE [l EXCEPT ![1].timeDiff = @ - since]
Updated(l) ==
    IF l # <<>> /\ Passed(l)[1].timeDiff <= 0 THEN Deleted(Passed(l), l[1].seq) ELSE Passed(l)

-----------------------------------------------------------------------------
TurnerInit ==
    /\ packs = <<>> /\ list = <<>> /\ since = 0 /\ crashed = FALSE
    /\ clockLeft = [k \in TimerSeqs |-> 0]

(* The driver or tcpd sends any request. *)
Driver ==
    /\ Len(packs) < MaxWaiting /\ ~crashed
    /\ \E k \in TimerSeqs :
         \/ \E t \in Seconds : packs' = Append(packs, [start |-> TRUE, seq |-> k, time |-> t])
         \/ packs' = Append(packs, [start |-> FALSE, seq |-> k, time |-> 0])
    /\ UNCHANGED <<list, since, crashed, clockLeft>>

(* Bound: a timer that is later than it may ever be is not followed on. *)
Overdue(k) == clockLeft[k] < -(MaxSlow * Cardinality(TimerSeqs))

Second ==
    /\ since < MaxSlow /\ ~crashed
    /\ since' = since + 1
    /\ clockLeft' = [k \in TimerSeqs |-> clockLeft[k] - IF k \in Timed /\ ~Overdue(k) THEN 1 ELSE 0]
    /\ UNCHANGED <<packs, list, crashed>>

(* The rest of the round, with the list the request left (bound by \E so    *)
(* that TLC evaluates it once).                                             *)
UpdateNodes(l, left) ==
    /\ \E served \in {l} : list' = Updated(served)
    /\ clockLeft' = [k \in TimerSeqs |-> IF k \in Timed' THEN left[k] ELSE 0]
    /\ since' = 0 /\ UNCHANGED crashed

CrashNow == crashed' = TRUE /\ UNCHANGED <<list, since, clockLeft>>

TimedOut == packs = <<>> /\ since > 0 /\ UpdateNodes(list, clockLeft) /\ UNCHANGED packs

Request(start) == packs # <<>> /\ Head(packs).start = start /\ packs' = Tail(packs)

StartTimer ==
    /\ Request(TRUE)
    /\ LET k == Head(packs).seq
           t == Head(packs).time IN
         \/ k \in Timed /\ UpdateNodes(list, clockLeft)
         \/ k \notin Timed /\ AddCrashes(list, t) /\ CrashNow
         \/ /\ k \notin Timed /\ ~AddCrashes(list, t)
            /\ UpdateNodes(Added(list, k, t), [clockLeft EXCEPT ![k] = t])

EndTimer ==
    /\ Request(FALSE)
    /\ LET k == Head(packs).seq IN
         \/ DeleteCrashes(list, k) /\ CrashNow
         \/ k \in Timed /\ UpdateNodes(Deleted(list, k), clockLeft)
         \/ k \notin Timed /\ ~DeleteCrashes(list, k) /\ UpdateNodes(list, clockLeft)

Loop == ~crashed /\ (TimedOut \/ StartTimer \/ EndTimer)

TurnerNext == Driver \/ Second \/ Loop

TurnerSpec == TurnerInit /\ [][TurnerNext]_turnerVars

-----------------------------------------------------------------------------
(***************************************************************************)
(* The list stays in order, and every node expires at its own time: no     *)
(* later by the list than by the clock, and earlier by no more than the    *)
(* time since the last round, which addNode() does not take into account.  *)
(***************************************************************************)
TimesKept ==
    /\ \A i \in 2..Len(list) : list[i].timeDiff >= 0
    /\ \A i \in DOMAIN list :
         clockLeft[list[i].seq] - (Expiry(list, i) - since) \in 0..MaxSlow

(***************************************************************************)
(* One node a round is dropped, however many are due: still no timer waits *)
(* after its time for more rounds than there are timers, and the bound of  *)
(* Second cuts nothing off.                                                *)
(***************************************************************************)
NeverOverdue == \A k \in TimerSeqs : ~Overdue(k)

(***************************************************************************)
(* One node a round is enough: while the process lives, every timer is     *)
(* dropped some time, cancelled or expired.                                *)
(***************************************************************************)
TimersDrop == \A k \in TimerSeqs : k \in Timed ~> (k \notin Timed \/ crashed)

(***************************************************************************)
(* What addNode() and deleteNode() would have to keep and do not.          *)
(***************************************************************************)
NeverCrashes == ~crashed
=============================================================================
