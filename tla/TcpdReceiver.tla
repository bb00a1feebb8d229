---------------------------- MODULE TcpdReceiver ----------------------------
(***************************************************************************)
(* tcpd on the host of the ftps processes (tcpd.c): one bound socket, the  *)
(* sessions that wait to be accepted, the accepted sessions with their     *)
(* reassembly list, and the blocking ACCEPT and RECV calls of the front    *)
(* processes.                                                              *)
(*                                                                         *)
(* A handler runs only when the callbacks of the round before have nothing *)
(* left to do (Quiet).  The callbacks only add to what the handlers did,   *)
(* so rounds that handle several datagrams are sequences of rounds that    *)
(* handle one.  Any front process may call ACCEPT or RECV on any session.  *)
(***************************************************************************)
EXTENDS Naturals, Sequences, FiniteSets, Troll

CONSTANTS
    Ftps,      \* front processes on the receiving host
    RecvLens,   \* the lengths they ask for
    MaxRecv,    \* BUF_LEN, the longest request tcpd serves
    NoFtps     \* no process

ASSUME ReceiverAssumption == RecvLens \subseteq Nat /\ MaxRecv \in Nat /\ NoFtps \notin Ftps

VARIABLES
    running,            \* FALSE once the daemon called exit()
    bound,              \* the socket is in BindedSockets
    accepting,          \* the process whose ACCEPT is pending, or NoFtps
    waiting,            \* WaitingAcceptSocketsList, a sequence of sessions
    accepted,           \* keys of AcceptedSockets
    rBase,              \* per session, the next sequence number to hand over
    rPackages,          \* per session, packages received out of order
    receiving,          \* per session, ReceivingLength
    receivingFor,       \* per session, the process at ReceivingAddr
    recvBuffer,         \* per session, RecvBuffer up to RecvBufferSize
    status,             \* per process, what its library call waits for
    returned            \* history: bytes RECV returned, per session

receiverVars == <<running, bound, accepting, waiting, accepted, rBase,
                  rPackages, receiving, receivingFor, recvBuffer, status,
                  returned>>

-----------------------------------------------------------------------------
Waiting == {waiting[i] : i \in DOMAIN waiting}

Known == accepted \cup Waiting

(* The receiver has package s of session x, or handed it over already.      *)
(* Faults: the OUTDATED test is off by one; it is missing.                  *)
HasPackage_OffByOne(x, s) == s <= rBase[x] \/ \E p \in rPackages[x] : p.seq = s
HasPackage_NoOutdated(x, s) == \E p \in rPackages[x] : p.seq = s
HasPackage(x, s) == s < rBase[x] \/ \E p \in rPackages[x] : p.seq = s

(* g_list_first: the list is sorted by sequence number. *)
IsFirst(x, p) == p \in rPackages[x] /\ \A q \in rPackages[x] : p.seq <= q.seq

(* The package SolveRecvCallback may consume.  Fault: gaps are ignored. *)
NextPackage_Gap(x, p) == IsFirst(x, p)
NextPackage(x, p) == IsFirst(x, p) /\ p.seq = rBase[x]

(* What the SolveRecvCallback loop does next for session x. *)
Oversized(x) == x \in accepted /\ receiving[x] > MaxRecv
Filling(x) ==
    /\ x \in accepted /\ receiving[x] <= MaxRecv
    /\ Len(recvBuffer[x]) < receiving[x]
    /\ \E p \in rPackages[x] : NextPackage(x, p)
Filled(x) ==
    /\ x \in accepted /\ receiving[x] \in 1..MaxRecv
    /\ Len(recvBuffer[x]) = receiving[x]

Acceptable == accepting # NoFtps /\ waiting # <<>>

(* A request that is not answered at once.  Fault: a second request on a    *)
(* session replaces the first.                                              *)
Servable_Again(x, n) == n > 0 /\ x \in accepted
Servable(x, n) == n > 0 /\ x \in accepted /\ receiving[x] = 0

Quiet ==
    /\ running
    /\ ~Acceptable
    /\ \A x \in Session : ~Oversized(x) /\ ~Filling(x) /\ ~Filled(x)

(* The process is not blocked in a call; "error" tells the last one failed. *)
Free(f) == status[f] \in {"idle", "error"}

-----------------------------------------------------------------------------
ReceiverTypeOK ==
    /\ running \in BOOLEAN /\ bound \in BOOLEAN
    /\ accepting \in Ftps \cup {NoFtps}
    /\ waiting \in Seq(Session) /\ accepted \subseteq Session
    /\ rBase \in [Session -> Nat]
    /\ rPackages \in [Session -> SUBSET [seq : Nat, body : Body]]
    /\ receiving \in [Session -> Nat]
    /\ receivingFor \in [Session -> Ftps \cup {NoFtps}]
    /\ recvBuffer \in [Session -> Body] /\ returned \in [Session -> Body]
    /\ status \in [Ftps -> {"idle", "accept", "recv", "error"}]

ReceiverInit ==
    /\ running = TRUE /\ bound = FALSE
    /\ accepting = NoFtps
    /\ waiting = <<>> /\ accepted = {}
    /\ rBase = [x \in Session |-> 0]
    /\ rPackages = [x \in Session |-> {}]
    /\ receiving = [x \in Session |-> 0]
    /\ receivingFor = [x \in Session |-> NoFtps]
    /\ recvBuffer = [x \in Session |-> <<>>]
    /\ status = [f \in Ftps |-> "idle"]
    /\ returned = [x \in Session |-> <<>>]

TcpdBIND(f) ==
    /\ Quiet /\ Free(f) /\ ~bound
    /\ bound' = TRUE
    /\ UNCHANGED <<running, accepting, waiting, accepted, rBase, rPackages,
                   receiving, receivingFor, recvBuffer, status, returned, net>>

(* The socket is marked as accepting; the call stays unanswered. *)
TcpdACCEPT(f) ==
    /\ Quiet /\ Free(f)
    /\ IF bound /\ accepting = NoFtps
       THEN accepting' = f /\ status' = [status EXCEPT ![f] = "accept"]
       ELSE status' = [status EXCEPT ![f] = "error"] /\ UNCHANGED accepting
    /\ UNCHANGED <<running, bound, waiting, accepted, rBase, rPackages,
                   receiving, receivingFor, recvBuffer, returned, net>>

(* An empty request is answered at once, one on an unknown session or on a  *)
(* session that has a request already is refused.                           *)
TcpdRECV(f, x, n) ==
    /\ Quiet /\ Free(f)
    /\ IF Servable(x, n)
       THEN /\ receiving' = [receiving EXCEPT ![x] = n]
            /\ receivingFor' = [receivingFor EXCEPT ![x] = f]
            /\ status' = [status EXCEPT ![f] = "recv"]
       ELSE /\ status' = [status EXCEPT ![f] = IF n = 0 THEN "idle" ELSE "error"]
            /\ UNCHANGED <<receiving, receivingFor>>
    /\ UNCHANGED <<running, bound, accepting, waiting, accepted, rBase,
                   rPackages, recvBuffer, returned, net>>

(* Every package that is not garbled is acknowledged, also one that is      *)
(* outdated or a duplicate; the first package of a session, whatever its    *)
(* number, creates the session.                                             *)
RecvData(m) ==
    /\ Quiet /\ bound
    /\ m \in Arrivals(dataNet) /\ Intact(m)
    /\ waiting' = IF m.session \in Known THEN waiting
                                         ELSE Append(waiting, m.session)
    /\ rPackages' =
         IF HasPackage(m.session, m.seq) THEN rPackages
         ELSE [rPackages EXCEPT ![m.session] =
                 @ \cup {[seq |-> m.seq, body |-> m.body]}]
    /\ dataNet' = Taken(dataNet, m)
    /\ ackNet' \in Sent(ackNet, AckMessage(m.conn, m.session, m.seq))
    /\ UNCHANGED <<running, bound, accepting, accepted, rBase, receiving,
                   receivingFor, recvBuffer, status, returned>>

-----------------------------------------------------------------------------
SolveAccept ==
    /\ running /\ Acceptable
    /\ accepted' = accepted \cup {Head(waiting)}
    /\ waiting' = Tail(waiting)
    /\ status' = [status EXCEPT ![accepting] = "idle"]
    /\ accepting' = NoFtps
    /\ UNCHANGED <<running, bound, rBase, rPackages, receiving, receivingFor,
                   recvBuffer, returned, net>>

(* The first package fits into what is left of the request. *)
TakePackage(x) ==
    /\ running /\ Filling(x)
    /\ \E p \in rPackages[x] :
         /\ NextPackage(x, p)
         /\ Len(recvBuffer[x]) + Len(p.body) <= receiving[x]
         /\ recvBuffer' = [recvBuffer EXCEPT ![x] = @ \o p.body]
         /\ rPackages' = [rPackages EXCEPT ![x] = @ \ {p}]
    /\ rBase' = [rBase EXCEPT ![x] = @ + 1]
    /\ UNCHANGED <<running, bound, accepting, waiting, accepted, receiving,
                   receivingFor, status, returned, net>>

(* It does not fit: the bytes that would fit are cut from its front and     *)
(* copied behind the buffer's end, but RecvBufferSize is not advanced.      *)
TakePart(x) ==
    /\ running /\ Filling(x)
    /\ \E p \in rPackages[x] :
         LET remain == receiving[x] - Len(recvBuffer[x])
             rest == [p EXCEPT !.body = SubSeq(@, remain + 1, Len(@))] IN
           /\ NextPackage(x, p)
           /\ Len(p.body) > remain
           /\ rPackages' = [rPackages EXCEPT ![x] = (@ \ {p}) \cup {rest}]
    /\ UNCHANGED <<running, bound, accepting, waiting, accepted, rBase,
                   receiving, receivingFor, recvBuffer, status, returned, net>>

ReplyRecv(x) ==
    /\ running /\ Filled(x)
    /\ returned' = [returned EXCEPT ![x] = @ \o recvBuffer[x]]
    /\ recvBuffer' = [recvBuffer EXCEPT ![x] = <<>>]
    /\ receiving' = [receiving EXCEPT ![x] = 0]
    /\ status' = [status EXCEPT ![receivingFor[x]] = "idle"]
    /\ UNCHANGED <<running, bound, accepting, waiting, accepted, rBase,
                   rPackages, receivingFor, net>>

(* A request longer than the buffer makes the daemon exit. *)
RecvExits(x) ==
    /\ running /\ Oversized(x)
    /\ running' = FALSE
    /\ UNCHANGED <<bound, accepting, waiting, accepted, rBase, rPackages,
                   receiving, receivingFor, recvBuffer, status, returned, net>>

-----------------------------------------------------------------------------
FrontCall(f) ==
    \/ TcpdBIND(f) \/ TcpdACCEPT(f)
    \/ \E x \in Session, n \in RecvLens : TcpdRECV(f, x, n)

Callback ==
    \/ SolveAccept
    \/ \E x \in Session :
         TakePackage(x) \/ TakePart(x) \/ ReplyRecv(x) \/ RecvExits(x)

ReceiverNext ==
    \/ \E f \in Ftps : FrontCall(f)
    \/ \E m \in Arrivals(dataNet) : RecvData(m)
    \/ Callback
=============================================================================
