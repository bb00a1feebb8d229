------------------------------ MODULE TimerList ------------------------------
(***************************************************************************)
(* The timer process (timer.c): a delta list, in which every node holds    *)
(* the seconds from the expiry of the node before it to its own.           *)
(*                                                                         *)
(* A round of the main loop waits in select() for a request or for the     *)
(* first node's time, takes the time that passed from the list, serves one *)
(* request if there is one, and reports the nodes that are due.  Time is   *)
(* discrete.  due is a history variable: the time left, by the clock,      *)
(* until each started timer should expire.                                 *)
(***************************************************************************)
EXTENDS Integers, SequencesExt

CONSTANTS
    Keys,       \* the pairs of Session and SeqNum that are timed
    Durations,  \* the seconds asked for
    MaxLate,    \* bound: how long after its timeout select() returns
    MaxQueue    \* bound: datagrams waiting in either socket

ASSUME TimerListAssumption ==
    Durations \subseteq Nat \ {0} /\ MaxLate \in Nat /\ MaxQueue \in Nat

VARIABLES
    requests,   \* TimerRequestStruct datagrams waiting
    nodes,      \* TimerList
    expired,    \* TimerExpiredStruct datagrams tcpd has not fetched
    phase,      \* where the main loop is
    due

vars == <<requests, nodes, expired, phase, due>>

-----------------------------------------------------------------------------
Node(k, r) == [key |-> k, remain |-> r]

Listed == {nodes[i].key : i \in DOMAIN nodes}

(* The seconds until the i-th node expires. *)
Delay(list, i) ==
    LET delay[j \in 0..Len(list)] ==
            IF j = 0 THEN 0 ELSE delay[j - 1] + list[j].remain
    IN delay[i]

(* UpdateTimerList: the time that passed is taken from the first node, what *)
(* it has too little of from the next, and so on.  Fault: not carried on.   *)
Carry_Dropped(left) == 0
Carry(left) == IF left < 0 THEN -left ELSE 0

Elapsed(list, e) ==
    LET left[i \in DOMAIN list] ==
            list[i].remain - IF i = 1 THEN e ELSE Carry(left[i - 1])
    IN [i \in DOMAIN list |->
           Node(list[i].key, IF left[i] > 0 THEN left[i] ELSE 0)]

(* Where InsertRequest puts a node: before the first that expires later.    *)
(* Fault: always at the end.                                                *)
Position_Last(list, s) == Len(list) + 1
Position(list, s) ==
    CHOOSE p \in 1..Len(list) + 1 :
        /\ p <= Len(list) => s < Delay(list, p)
        /\ \A q \in 1..p - 1 : Delay(list, q) <= s

(* The list in which the node at position p has d seconds more. *)
Shifted(list, p, d) ==
    IF p \in DOMAIN list THEN [list EXCEPT ![p].remain = @ + d] ELSE list

(* Fault: a key that is listed already is inserted again. *)
Refused_Never(k) == FALSE
Refused(k) == k \in Listed

Inserted(list, k, s) ==
    LET p == Position(list, s)
        r == s - Delay(list, p - 1) IN
    InsertAt(Shifted(list, p, -r), p, Node(k, r))

(* Fault: the next node does not get the cancelled node's seconds. *)
Cancelled_Lost(list, i) == RemoveAt(list, i)
Cancelled(list, i) == RemoveAt(Shifted(list, i + 1, list[i].remain), i)

-----------------------------------------------------------------------------
RequestType == [type : {"Start", "Cancel"}, key : Keys, seconds : Durations \cup {0}]

TypeOK ==
    /\ requests \in Seq(RequestType)
    /\ nodes \in Seq([key : Keys, remain : Nat])
    /\ expired \in Seq(Keys)
    /\ phase \in {"select", "fetch", "callbacks"}
    /\ due \in [Keys -> Int]

Init ==
    /\ requests = <<>> /\ nodes = <<>> /\ expired = <<>>
    /\ phase = "select"
    /\ due = [k \in Keys |-> 0]

(* Bound: a timer that is later than it may ever be is not followed on. *)
Overdue(k) == due[k] < -MaxLate

(* select() returns after e seconds: a request is waiting, or the time of   *)
(* the first node is over.                                                  *)
WakeUp(e) ==
    /\ phase = "select"
    /\ requests = <<>> => nodes # <<>> /\ e >= Head(nodes).remain
    /\ e <= IF nodes = <<>> THEN 0 ELSE Head(nodes).remain + MaxLate
    /\ nodes' = Elapsed(nodes, e)
    /\ due' = [k \in Keys |-> due[k] - IF k \in Listed /\ ~Overdue(k) THEN e ELSE 0]
    /\ phase' = IF requests # <<>> THEN "fetch" ELSE "callbacks"
    /\ UNCHANGED <<requests, expired>>

Fetching(type) ==
    /\ phase = "fetch" /\ Head(requests).type = type
    /\ requests' = Tail(requests)
    /\ phase' = "callbacks"
    /\ UNCHANGED expired

InsertRequest ==
    /\ Fetching("Start")
    /\ LET r == Head(requests) IN
         IF Refused(r.key) THEN UNCHANGED <<nodes, due>>
         ELSE /\ nodes' = Inserted(nodes, r.key, r.seconds)
              /\ due' = [due EXCEPT ![r.key] = r.seconds]

CancelRequest ==
    /\ Fetching("Cancel")
    /\ LET k == Head(requests).key IN
         \/ k \notin Listed /\ UNCHANGED <<nodes, due>>
         \/ /\ \E i \in DOMAIN nodes : nodes[i].key = k /\ nodes' = Cancelled(nodes, i)
            /\ due' = [due EXCEPT ![k] = 0]

(* SendCallbacks reports the first node, if it is due, and looks again.     *)
(* Fault: no time left counts as some.                                      *)
Due_Strict == nodes # <<>> /\ Head(nodes).remain < 0
Due == nodes # <<>> /\ Head(nodes).remain <= 0

SendCallback ==
    /\ phase = "callbacks" /\ Due /\ Len(expired) < MaxQueue
    /\ expired' = Append(expired, Head(nodes).key)
    /\ nodes' = Tail(nodes)
    /\ due' = [due EXCEPT ![Head(nodes).key] = 0]
    /\ UNCHANGED <<requests, phase>>

NextRound ==
    /\ phase = "callbacks" /\ ~Due
    /\ phase' = "select"
    /\ UNCHANGED <<requests, nodes, expired, due>>

(* tcpd, or driver, at the other end. *)
Request(type, k, s) ==
    /\ Len(requests) < MaxQueue
    /\ requests' = Append(requests, [type |-> type, key |-> k, seconds |-> s])
    /\ UNCHANGED <<nodes, expired, phase, due>>

RecvExpired ==
    /\ expired # <<>>
    /\ expired' = Tail(expired)
    /\ UNCHANGED <<requests, nodes, phase, due>>

Elapses == 0..(MaxLate + Delay(nodes, Len(nodes)))

Timer ==
    \/ \E e \in Elapses : WakeUp(e)
    \/ InsertRequest \/ CancelRequest \/ SendCallback \/ NextRound

Next ==
    \/ Timer
    \/ \E k \in Keys : Request("Cancel", k, 0) \/ \E s \in Durations : Request("Start", k, s)
    \/ RecvExpired

Spec == Init /\ [][Next]_vars

-----------------------------------------------------------------------------
(***************************************************************************)
(* The deltas add up: whatever was inserted, cancelled and reported        *)
(* before, in whatever order, every listed timer is as far from its        *)
(* expiry as the clock says, or is due, and is listed once.                *)
(***************************************************************************)
DelaysExact ==
    \A i \in DOMAIN nodes :
        /\ Delay(nodes, i) = IF due[nodes[i].key] > 0 THEN due[nodes[i].key] ELSE 0
        /\ \A j \in 1..i - 1 : nodes[j].key # nodes[i].key

(***************************************************************************)
(* A timer is never reported before its seconds have passed, nor later     *)
(* than select() may oversleep once: other timers do not shift it.         *)
(***************************************************************************)
Reported == IF Len(expired') > Len(expired) THEN {Last(expired')} ELSE {}

OnTime == [][\A k \in Reported : -MaxLate <= due[k] /\ due[k] <= 0]_vars

(***************************************************************************)
(* The delta list is what tcpd takes the timer process for.                *)
(***************************************************************************)
Service == INSTANCE TimerService WITH
    toTimer <- [i \in DOMAIN requests |-> [type |-> requests[i].type,
                                           key |-> requests[i].key]],
    armed <- Listed,
    fromTimer <- expired

ImplementsService ==
    Service!TimerInit /\ [][Service!ServiceNext(Keys)]_(Service!timerVars)

(***************************************************************************)
(* The process keeps running, time passes, and tcpd fetches its reports.   *)
(***************************************************************************)
FairSpec ==
    /\ Spec
    /\ WF_vars(Timer) /\ WF_vars(RecvExpired)
    /\ SF_vars(\E e \in Elapses \ {0} : WakeUp(e))

(***************************************************************************)
(* Every listed timer is reported or cancelled in the end, also when       *)
(* requests keep coming faster than one per round.                         *)
(***************************************************************************)
TimersEnd == \A k \in Keys : k \in Listed ~> k \notin Listed
=============================================================================
