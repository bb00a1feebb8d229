--------------------------- MODULE TcpConnection ---------------------------
(***************************************************************************)
(* Two sockets of Proj2/proj2/tcp-socket-base.cc over the network of       *)
(* scratch/tcpchain/tcpchain.cc: the client connects, the server listens;  *)
(* the routers between them keep the order, drop what their queues do not  *)
(* hold and what the error model damages.  Time is not modelled: an event  *)
(* that was scheduled 1 ns ahead happens before anything arrives, and a    *)
(* patient timer waits until nothing is on its way.                        *)
(***************************************************************************)
EXTENDS TcpInput

Peer(e) == IF e = Client THEN Server ELSE Client

VARIABLES
    sock,      \* the socket of each end; the server's starts as the listener
    link,      \* the segments on their way to each end
    called,    \* the calls each application makes only once, and made
    resized,   \* how many of Resizes were given
    lost, timeouts,
    now        \* 0 or 1: flips with every event the simulator runs, if Patient

vars == <<setting, sock, link, called, resized, lost, timeouts, now>>

-----------------------------------------------------------------------------
NewSocket(e) ==
    FreshSocket(RcvBufSize[e], WindowScaling[e], e = Client /\ ChainBytes > 0,
                IF e = Client THEN ChainBytes ELSE 0, e \in EagerEnds)

Listener == [NewSocket(Server) EXCEPT !.state = "LISTEN"]

Init ==
    /\ setting \in DOMAIN Settings
    /\ sock = [e \in End |-> IF e = Client THEN NewSocket(e) ELSE Listener]
    /\ link = [e \in End |-> <<>>]
    /\ called = [e \in End |-> {}]
    /\ resized = 0
    /\ lost = 0
    /\ timeouts = 0
    /\ now = 0

(* A queue takes what it has room for. *)
Enqueue(queue, segs) ==
    queue \o SubSeq(segs, 1, Min({Len(segs), Larger(0, QueueLen - Len(queue))}))

(* Anything but a loss and a call of an application on its own is an event. *)
Event == now' = IF Patient THEN 1 - now ELSE now

(* The socket of e becomes k; what it sent enters the network. *)
Becomes(e, k, coming) ==
    /\ sock' = [sock EXCEPT ![e] = [k EXCEPT !.out = <<>>]]
    /\ link' = [link EXCEPT ![e] = coming, ![Peer(e)] = Enqueue(@, k.out)]

(* An assertion that fails, or an endpoint that is followed and is not     *)
(* there, ends the program.                                                *)
Running == \A e \in End : sock[e].asserted = {}

(* Events that are due now come before segments that are still under way. *)
Quiet == Running /\ \A e \in End : ~sock[e].sendPending

-----------------------------------------------------------------------------
(* tcpchain.cc, StartFlow: writes right after connecting. *)
StartFlow ==
    /\ Running
    /\ "Connect" \notin called[Client]
    /\ called' = [called EXCEPT ![Client] = @ \cup {"Connect"}]
    /\ LET k == Connect(sock[Client])
       IN  Becomes(Client, IF k.chain THEN WriteUntilBufferFull(k) ELSE k, link[Client])
    /\ Event
    /\ UNCHANGED <<setting, resized, lost, timeouts>>

SendPending(e) ==
    LET k == [sock[e] EXCEPT !.sendPending = FALSE]
    IN  /\ Running
        /\ sock[e].sendPending
        /\ Becomes(e, SendPendingData(k, k.connected), link[e])
        /\ Event
        /\ UNCHANGED <<setting, called, resized, lost, timeouts>>

-----------------------------------------------------------------------------
(* TcpL4Protocol finds the socket of the connection; a server that has none *)
(* has the listener, a client that has none answers with RST.              *)
RstFor(h) ==
    IF "ACK" \in h.flags
    THEN [flags |-> {"RST"}, seq |-> h.ack, ack |-> 0, wnd |-> 0,
          wscale |-> NoOption, data |-> <<>>]
    ELSE [flags |-> {"RST", "ACK"}, seq |-> 0, ack |-> h.seq + 1, wnd |-> 0,
          wscale |-> NoOption, data |-> <<>>]

AtNoEndPoint(k, h) ==
    IF "RST" \in h.flags THEN k ELSE [k EXCEPT !.out = <<RstFor(h)>>]

(* Each SYN finds the listener as it was set up: what an earlier one       *)
(* changed in it, scaling switched off or a persist timer started, is not  *)
(* kept.  With one connection only a SYN that comes again could tell.      *)
AtListener(k, h) ==
    IF h.flags = {"SYN"} THEN ProcessListen(Listener, h) ELSE k

Receive(e, h) ==
    LET k == sock[e]
    IN  IF k.endPoint /\ k.state # "LISTEN" THEN DoForwardUp(k, h)
        ELSE IF e = Server THEN AtListener(k, h) ELSE AtNoEndPoint(k, h)

Deliver(e) ==
    /\ Quiet
    /\ link[e] # <<>>
    /\ sock[e].dupAckCount < MaxDupAcks
    /\ Becomes(e, Receive(e, Head(link[e])), Tail(link[e]))
    /\ Event
    /\ UNCHANGED <<setting, called, resized, lost, timeouts>>

(* The error model takes a segment on its way. *)
Lose(e) ==
    /\ Quiet
    /\ link[e] # <<>>
    /\ lost < MaxLoss
    /\ lost' = lost + 1
    /\ link' = [link EXCEPT ![e] = Tail(@)]
    /\ UNCHANGED <<setting, sock, called, resized, timeouts, now>>

-----------------------------------------------------------------------------
(* Timers.  Those of a round trip or more are patient if Patient is set. *)
Idle == \A e \in End : link[e] = <<>> /\ ~sock[e].delAck

MayExpire ==
    /\ Quiet
    /\ IF Patient THEN Idle /\ timeouts' = timeouts
       ELSE timeouts < MaxTimeouts /\ timeouts' = timeouts + 1

RetxTimer(e) ==
    /\ sock[e].retx # {}
    /\ MayExpire
    /\ Becomes(e, RetxEvent(sock[e]), link[e])
    /\ Event
    /\ UNCHANGED <<setting, called, resized, lost>>

PersistTimer(e) ==
    /\ Quiet
    /\ sock[e].persist
    /\ Patient => Idle
    /\ timeouts < MaxTimeouts
    /\ timeouts' = timeouts + 1
    /\ Becomes(e, PersistTimeout(sock[e]), link[e])
    /\ Event
    /\ UNCHANGED <<setting, called, resized, lost>>

LastAckTimer(e) ==
    /\ sock[e].lastAck
    /\ MayExpire
    /\ Becomes(e, LastAckTimeout(sock[e]), link[e])
    /\ Event
    /\ UNCHANGED <<setting, called, resized, lost>>

DelAckTimer(e) ==
    /\ Quiet
    /\ sock[e].delAck
    /\ Becomes(e, DelAckTimeout(sock[e]), link[e])
    /\ Event
    /\ UNCHANGED <<setting, called, resized, lost, timeouts>>

(* Twice the longest life of a segment: none is left. *)
TimeWaitTimer(e) ==
    /\ Quiet
    /\ sock[e].timeWait
    /\ Idle
    /\ Becomes(e, CloseAndNotify([sock[e] EXCEPT !.timeWait = FALSE]), link[e])
    /\ Event
    /\ UNCHANGED <<setting, called, resized, lost, timeouts>>

-----------------------------------------------------------------------------
(* The calls an application makes on its own. *)
HasSocket(e) ==
    /\ Running
    /\ IF e = Client THEN "Connect" \in called[e]
       ELSE sock[e].state \notin {"LISTEN", "SYN_RCVD"}

Calls(e, call, k) ==
    /\ call \in AppCalls[e]
    /\ HasSocket(e)
    /\ Becomes(e, k, link[e])
    /\ UNCHANGED <<setting, lost, timeouts, now>>

CallsOnce(e, call, k) ==
    /\ call \notin called[e]
    /\ called' = [called EXCEPT ![e] = @ \cup {call}]
    /\ Calls(e, call, k)
    /\ UNCHANGED resized

AppSend(e) ==
    \E n \in 1 .. Min({Chunk, Larger(0, AppBytes[e] - sock[e].written)}) :
        /\ "Close" \notin called[e]
        /\ Calls(e, "Send", Send(sock[e], n))
        /\ UNCHANGED <<called, resized>>

AppRecv(e) ==
    \E n \in 1 .. Min({Chunk, Len(sock[e].inOrder)}) :
        Calls(e, "Recv", Recv(sock[e], n)) /\ UNCHANGED <<called, resized>>

AppClose(e) == CallsOnce(e, "Close", Close(sock[e]))
AppShutdownSend(e) == CallsOnce(e, "ShutdownSend", ShutdownSend(sock[e]))
AppShutdownRecv(e) ==
    CallsOnce(e, "ShutdownRecv", [sock[e] EXCEPT !.shutdownRecv = TRUE])

AppResize(e) ==
    /\ resized < Len(Resizes)
    /\ resized' = resized + 1
    /\ Calls(e, "Resize", SetRcvBufSize(sock[e], Resizes[resized + 1]))
    /\ UNCHANGED called

-----------------------------------------------------------------------------
Timer(e) ==
    \/ RetxTimer(e) \/ PersistTimer(e) \/ LastAckTimer(e)
    \/ DelAckTimer(e) \/ TimeWaitTimer(e)

App(e) ==
    \/ AppSend(e) \/ AppRecv(e) \/ AppClose(e) \/ AppShutdownSend(e)
    \/ AppShutdownRecv(e) \/ AppResize(e)

Next ==
    \/ StartFlow
    \/ \E e \in End : SendPending(e) \/ Deliver(e) \/ Lose(e) \/ Timer(e) \/ App(e)

Spec == Init /\ [][Next]_vars

(* Some event is scheduled: the simulation is not over. *)
Scheduled ==
    /\ Running
    /\ \/ "Connect" \notin called[Client]
       \/ \E e \in End :
            \/ link[e] # <<>> \/ sock[e].sendPending
            \/ sock[e].retx # {} \/ sock[e].delAck
            \/ sock[e].lastAck \/ sock[e].timeWait

(* The simulator goes on to the next event as long as one is scheduled. An *)
(* application may stop calling, a patient timer does wait.                *)
RunEvent == Scheduled /\ now' = 1 - now

FairSpec == Spec /\ WF_now(RunEvent)

-----------------------------------------------------------------------------
ConnStates == Unconnected \cup {"ESTABLISHED", "CLOSE_WAIT", "LAST_ACK",
    "FIN_WAIT_1", "FIN_WAIT_2", "CLOSING", "TIME_WAIT"}

(***************************************************************************)
(* Every field keeps its type: the counters and windows are uint32_t in    *)
(* the code, a difference below zero would be a huge number.               *)
(***************************************************************************)
TypeOK ==
    \A e \in End : LET k == sock[e] IN
        /\ k.state \in ConnStates
        /\ k.congState \in {"OPEN", "DISORDER", "RECOVERY", "LOSS"}
        /\ {k.nextTx, k.highTxMark, k.head, k.written, k.nextRx, k.rWnd, k.cWnd,
            k.ssThresh, k.dupAckCount, k.retransOut, k.recover, k.ackedRest,
            k.delAckCount, k.synCount, k.dataRetrCount, k.left} \subseteq Nat
        /\ k.out = <<>>
        /\ Len(link[e]) <= QueueLen

(***************************************************************************)
(* A connection is two byte streams, one from each end to the other: what  *)
(* an application reads is a prefix of what the other one wrote, whatever  *)
(* is lost, repeated, resized or closed meanwhile.                         *)
(***************************************************************************)
Stream == INSTANCE ByteStream WITH
    Chan <- End,
    sent <- [e \in End |-> [i \in 1 .. sock[e].written |-> i]],
    received <- [e \in End |-> sock[Peer(e)].read]

StreamSpec == Stream!Spec

(***************************************************************************)
(* The transmit buffer forgets only bytes the peer has in order.           *)
(***************************************************************************)
AckedIsReceived == \A e \in End : sock[e].head <= sock[Peer(e)].nextRx

(***************************************************************************)
(* A receiver never holds more than its buffer, whoever reads how slowly:  *)
(* the window it offers is the whole buffer, so only Add() can refuse.     *)
(* That is of a buffer that is not made smaller than what it holds, and of *)
(* segments that an empty buffer has room for, as in all settings here.    *)
(***************************************************************************)
RoomIsKept == \A e \in End : RxSize(sock[e]) <= sock[e].rcvBuf

(***************************************************************************)
(* No end takes the window of the other for larger than its buffer, also   *)
(* when the factors of the two ends differ, a SYN is repeated or one end   *)
(* does not scale: a window read with the wrong factor is never corrected. *)
(***************************************************************************)
WindowHonest ==
    Resizes = <<>> => \A e \in End : sock[e].rWnd <= sock[Peer(e)].rcvBuf

(***************************************************************************)
(* m_nextTxSequence stays between the ends of the transmit buffer, through *)
(* timeouts that come early and acknowledgements that come late: UnAckData-*)
(* Count() and SizeFromSequence() are unsigned differences with it.        *)
(***************************************************************************)
BufferCovers ==
    \A e \in End :
        /\ sock[e].head <= sock[e].nextTx
        /\ sock[e].nextTx <= TailSequence(sock[e])

(***************************************************************************)
(* Recovery ends when what was outstanding at its start is acknowledged,   *)
(* and its end is never beyond what was sent.                              *)
(***************************************************************************)
LossCovers ==
    \A e \in End : LET k == sock[e] IN
        /\ k.congState = "RECOVERY" => k.head < k.recover
        /\ k.congState \in {"RECOVERY", "LOSS"} => k.recover <= k.highTxMark

(***************************************************************************)
(* What TcpFixed promises: never more outstanding than the window it       *)
(* starts with, also after losses, timeouts and recoveries.                *)
(***************************************************************************)
FixedOutstanding ==
    Algorithm = "Fixed" =>
    \A e \in End : sock[e].highTxMark - sock[e].head <= ConstantWindow

(***************************************************************************)
(* No NS_ASSERT of the socket fails, and no endpoint is followed that is   *)
(* gone: a connection is dropped, closed or reset with timers running and  *)
(* data that still waits to be sent, or that its application still writes. *)
(***************************************************************************)
AssertionsHold == \A e \in End : sock[e].asserted = {}

(* Data that was sent and is not acknowledged is timed, probed for or      *)
(* going to be sent again.                                                 *)
Timed(k) ==
    /\ k.endPoint
    /\ k.state \in {"ESTABLISHED", "CLOSE_WAIT", "FIN_WAIT_1"}
    /\ k.head < k.highTxMark
    => k.retx # {} \/ k.persist \/ k.sendPending

(***************************************************************************)
(* Outstanding data is timed as long as no receiver closes its window:     *)
(* otherwise one lost segment stops a connection.                          *)
(***************************************************************************)
OutstandingIsTimed == Resizes = <<>> => \A e \in End : Timed(sock[e])

(***************************************************************************)
(* A sender whose peer has closed its window keeps probing while it has    *)
(* data: the segment that opens the window again may be lost.              *)
(***************************************************************************)
StalledIsProbed ==
    \A e \in End : LET k == sock[e] IN
        k.endPoint /\ k.state = "ESTABLISHED" /\ k.rWnd = 0 /\ k.tx # <<>> => k.persist

(***************************************************************************)
(* Once both ends are connected, all that tcpchain writes is read by the   *)
(* sink, whichever segments are lost: by fast retransmission, or by the    *)
(* timer before its retries are used up.                                   *)
(***************************************************************************)
AllRead ==
    sock[Server].connected ~> (sock[Server].read = [i \in 1..ChainBytes |-> i])

(***************************************************************************)
(* And behind it the sink sees the end, also if the FIN is lost with the   *)
(* byte it came with: the timer sends that byte again, and the FIN.        *)
(***************************************************************************)
FinArrives == sock[Server].connected ~> [](sock[Server].state = "CLOSE_WAIT")

-----------------------------------------------------------------------------
(* What comments and assertions of the code say, and the code does not do. *)

(* A FIN is counted once, in ESTABLISHED or SYN_RCVD: the assertion of     *)
(* DoPeerClose().                                                          *)
PeerCloseExpected == \A e \in End : "peerClose" \notin sock[e].asserted

(* "Deallocate the end point and cancel all the timers": after that        *)
(* nothing sends data through the endpoint.                                *)
NoEndPointIsMissed == \A e \in End : "endPoint" \notin sock[e].asserted

(* "This ACK corresponds to the FIN sent. This socket closed peacefully."  *)
PeacefulClose ==
    [][\A e \in End : LET k == sock[e] IN
        /\ k.state = "LAST_ACK" /\ sock'[e].state = "CLOSED"
        /\ link[e] # <<>> /\ link'[e] = Tail(link[e])
        /\ Head(link[e]).flags = {"ACK"}
        => sock[Peer(e)].nextRx > TailSequence(k)]_vars

(* "Got FIN, respond with ACK and move to next state": an end that keeps   *)
(* the connection open does not leave the other one waiting for that ACK.  *)
FinIsAnswered ==
    \A e \in End : (sock[e].state = "FIN_WAIT_1") ~> (sock[e].state # "FIN_WAIT_1")

(* "No retransmit timer if no data to retransmit": but one if there is.    *)
TimedUnlessEmpty == \A e \in End : Timed(sock[e])

(* A retransmitted SYN+ACK guards "against lost" acknowledgements of it.   *)
LostAckIsRepaired ==
    (sock[Client].state = "ESTABLISHED") ~> sock[Server].connected

(* "if buffer is already empty, send a fin now otherwise fin will go when  *)
(* buffer empties."                                                        *)
FinWhenEmpty ==
    \A e \in End :
        ("ShutdownSend" \in called[e] /\ sock[e].connected /\ sock[e].tx = <<>>)
            ~> (sock[e].state \notin {"ESTABLISHED", "CLOSE_WAIT"})

(* "we want to avoid the case when a cumulative ACK increases cWnd more    *)
(* than a segment size".                                                   *)
OneSegmentPerAck ==
    [][\A e \in End : LET k == sock[e] IN
        k.state = "ESTABLISHED" /\ k.congState = "OPEN"
        => sock'[e].cWnd <= k.cWnd + SegSize]_vars

(* InitialCwnd "sets the number of packets initialized for the congestion  *)
(* window": how a timeout reduces the window does not depend on it.        *)
TimeoutReducesWindow ==
    [][\A e \in End :
        sock[e].congState # "LOSS" /\ sock'[e].congState = "LOSS"
        => sock'[e].cWnd = SegSize]_vars

(* "this prevents data from being added to the buffer".                    *)
ShutdownStopsData ==
    [][\A e \in End : "ShutdownSend" \in called[e] =>
            sock'[e].written = sock[e].written]_vars
=============================================================================
