------------------------------- MODULE Troll -------------------------------
(***************************************************************************)
(* The path between two tcpd daemons: a troll process on each host, which  *)
(* may delay, reorder, duplicate, garble or drop the datagrams that cross  *)
(* it.  troll itself is a binary; what it may do is taken from how tcpd.c  *)
(* defends against it (checksum, duplicate and outdated tests, timers).    *)
(*                                                                         *)
(* A duplicating troll never removes a datagram from its set: it may be    *)
(* received any number of times, in any order, as late as one likes, or    *)
(* never.  A troll that does not duplicate drops a datagram or delivers it *)
(* once; this is the one liveness is about.                                *)
(***************************************************************************)
EXTENDS Naturals, Sequences

CONSTANTS
    Conn,       \* the fds of the connected sockets of the sending daemon
    Session,    \* the values rand() may return for a connection
    SeqNum,     \* the sequence numbers that can be read in a datagram
    Duplicating \* whether troll is run with duplication

ASSUME TrollAssumption == SeqNum \subseteq Nat /\ Duplicating \in BOOLEAN

VARIABLES
    dataNet,    \* TrollMessageStruct datagrams in flight
    ackNet      \* TrollAckStruct datagrams in flight

net == <<dataNet, ackNet>>

-----------------------------------------------------------------------------
(* TrollMessageStruct: conn is the socket the datagram was sent from, where *)
(* the acknowledgement goes back to; intact abstracts CheckSum.             *)
DataMessage(c, x, s, b) ==
    [conn |-> c, session |-> x, seq |-> s, body |-> b, intact |-> TRUE]

(* TrollAckStruct *)
AckMessage(c, x, s) == [conn |-> c, session |-> x, seq |-> s, intact |-> TRUE]

Body == Seq(Nat)
DataType == [conn : Conn, session : Session, seq : Nat, body : Body, intact : {TRUE}]
AckType == [conn : Conn, session : Session, seq : Nat, intact : {TRUE}]

(* A garbled copy: some covered field is altered and the sum disagrees. *)
Garbled(m) ==
    {[m EXCEPT !.seq = s, !.intact = FALSE] : s \in SeqNum}

(* Whether the receiver computes the sum the datagram carries.  Fault: it   *)
(* does not look.                                                           *)
Intact_Unchecked(m) == TRUE
Intact(m) == m.intact

(* What a receive can return for a set of datagrams in flight. *)
Arrivals(msgs) == msgs \cup UNION {Garbled(m) : m \in msgs}

-----------------------------------------------------------------------------
NetTypeOK == dataNet \subseteq DataType /\ ackNet \subseteq AckType

NetInit == dataNet = {} /\ ackNet = {}

(* The datagrams in flight after sendto() of m, and after m was received. *)
Sent(msgs, m) ==
    {msgs \cup {m}} \cup IF Duplicating THEN {} ELSE {msgs}

Taken(msgs, m) == IF Duplicating THEN msgs ELSE msgs \ {m}
=============================================================================
