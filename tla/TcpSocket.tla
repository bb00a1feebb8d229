------------------------------ MODULE TcpSocket ------------------------------
(***************************************************************************)
(* The socket of Proj2/proj2/tcp-socket-base.cc: its members as a record,  *)
(* its methods as operators from the socket before a call to the socket    *)
(* after it.  The segments a method hands to TcpL4Protocol are appended to *)
(* the field out.  This module holds the calls of the application, sending *)
(* and the timers; TcpInput holds the handlers of arriving segments.       *)
(***************************************************************************)
EXTENDS TcpCongestionOps, Sequences, SequencesExt

(* The states below ESTABLISHED in the order of the enumeration. *)
Unconnected == {"CLOSED", "LISTEN", "SYN_SENT", "SYN_RCVD"}

NoFin == -1

-----------------------------------------------------------------------------
(* A socket that was created and bound.  left is what its application has  *)
(* still to write if it is tcpchain's (chain); eager is an application     *)
(* that reads all there is whenever it is notified, as PacketSink does.    *)
FreshSocket(rcvBuf, scaling, chain, left, eager) == [
    state |-> "CLOSED", endPoint |-> TRUE, connected |-> FALSE,
    closeNotified |-> FALSE, errorNotified |-> FALSE,
    closeOnEmpty |-> FALSE, shutdownSend |-> FALSE, shutdownRecv |-> FALSE,
    nextTx |-> 0, highTxMark |-> 0, head |-> 0, tx |-> <<>>, written |-> 0,
    nextRx |-> 0, finSeq |-> NoFin, store |-> <<>>, inOrder |-> <<>>,
    rcvBuf |-> rcvBuf, read |-> <<>>,
    rWnd |-> 0, highRxMark |-> 0, highRxAckMark |-> 0,
    scaling |-> scaling, rcvShift |-> 0, sndShift |-> 0,
    cWnd |-> 0, ssThresh |-> 0, congState |-> "OPEN",
    dupAckCount |-> 0, retransOut |-> 0, recover |-> 0,
    firstPartialAck |-> TRUE, ackedRest |-> 0, delAckCount |-> 0,
    synCount |-> 0, dataRetrCount |-> 0,
    retx |-> {}, persist |-> FALSE, delAck |-> FALSE, lastAck |-> FALSE,
    timeWait |-> FALSE, sendPending |-> FALSE,
    asserted |-> {}, out |-> <<>>,
    chain |-> chain, left |-> left, eager |-> eager]

(* NS_ASSERT: the place of an assertion that does not hold is noted. *)
NsAssert(k, place, holds) ==
    IF holds THEN k ELSE [k EXCEPT !.asserted = @ \cup {place}]

(* Ports and addresses are read from the endpoint without a look at whether *)
(* it is there: a null pointer is followed if it is not.                    *)
UsesEndPoint(k) == NsAssert(k, "endPoint", k.endPoint)

-----------------------------------------------------------------------------
(* TcpTxBuffer: the bytes tx from the sequence number head on. *)
TailSequence(k) == k.head + Len(k.tx)
TxAvailable(k) == SndBuf - Len(k.tx)
SizeFromSequence(k, seq) == TailSequence(k) - seq

(* Fault: always from the head of the buffer. *)
CopyFromSequence_Fault(k, n, seq) == SubSeq(k.tx, 1, n)

CopyFromSequence(k, n, seq) ==
    SubSeq(k.tx, seq - k.head + 1, seq - k.head + n)

DiscardUpTo(k, seq) ==
    IF seq <= k.head THEN k
    ELSE [k EXCEPT !.tx = SubSeq(@, seq - k.head + 1, Len(@)), !.head = seq]

(* TcpRxBuffer: inOrder waits for the application, store holds bytes that  *)
(* arrived ahead of nextRx, by sequence number.                            *)
Held(k) == DOMAIN k.store
RxSize(k) == Len(k.inOrder) + Cardinality(Held(k))

FirstHeld(k) ==
    IF k.inOrder # <<>> THEN k.nextRx - Len(k.inOrder)
    ELSE IF Held(k) # {} THEN Min(Held(k)) ELSE k.nextRx

MaxRxSequence(k) ==
    IF k.finSeq # NoFin THEN k.finSeq ELSE FirstHeld(k) + k.rcvBuf

(* The last byte was received and the FIN counted behind it. *)
Finished(k) == k.finSeq # NoFin /\ k.finSeq < k.nextRx

CountFin(k) == IF k.finSeq = k.nextRx THEN [k EXCEPT !.nextRx = @ + 1] ELSE k

SetFinSequence(k, seq) == CountFin([k EXCEPT !.finSeq = seq])

(* Fault: the room is counted from nextRx, not from the first byte held. *)
NewBytes_Fault(k, h) ==
    {s \in k.nextRx .. h.seq + Len(h.data) - 1 :
        s >= h.seq /\ s < k.nextRx + k.rcvBuf} \ Held(k)

(* The sequence numbers of a segment's data that are in the buffer's range *)
(* and not there yet.                                                      *)
NewBytes(k, h) ==
    LET past == h.seq + Len(h.data)
        limit == IF RxSize(k) = 0 THEN past ELSE FirstHeld(k) + k.rcvBuf
    IN  {s \in k.nextRx .. past - 1 : s >= h.seq /\ s < limit} \ Held(k)

Stored(k, h, new) ==
    [s \in Held(k) \cup new |->
        IF s \in new THEN h.data[s - h.seq + 1] ELSE k.store[s]]

(* Of all bytes stored those before upTo have no gap behind nextRx. *)
MoveOn(k, all, upTo) ==
    [k EXCEPT !.inOrder = @ \o [i \in 1 .. upTo - k.nextRx |-> all[k.nextRx + i - 1]],
              !.store = [s \in {t \in DOMAIN all : t > upTo} |-> all[s]],
              !.nextRx = upTo]

FirstGap(k, all) ==
    Min({s \in k.nextRx .. (k.nextRx + Cardinality(DOMAIN all)) : s \notin DOMAIN all})

InOrderOf(k, all) == MoveOn(k, all, FirstGap(k, all))

AddToRx(k, h) == CountFin(InOrderOf(k, Stored(k, h, NewBytes(k, h))))

(* The window offered to the peer is the size of the buffer, full or not.  *)
AdvertisedWindowSize(k) == Min({k.rcvBuf \div 2^k.rcvShift, MaxWin})

(* How often the buffer is halved until a header can carry it. *)
MaxShift == 14
CalculateWScale(k) ==
    Min({s \in 0..MaxShift : k.rcvBuf \div 2^s <= MaxWin} \cup {MaxShift})

AddOptionWScale(k) == [k EXCEPT !.rcvShift = CalculateWScale(k)]

(* Only a SYN carries the option; it is added before the window is written *)
(* to the header.                                                          *)
AddOptions(k, flags) ==
    IF "SYN" \in flags /\ k.scaling THEN AddOptionWScale(k) ELSE k

NoOption == -1
WScaleOption(k, flags) ==
    IF "SYN" \in flags /\ k.scaling THEN k.rcvShift ELSE NoOption

OutOfRange(k, first, past) ==
    CASE k.state \in {"LISTEN", "SYN_SENT", "SYN_RCVD"} -> FALSE
      [] k.state \in {"LAST_ACK", "CLOSING", "CLOSE_WAIT"} -> k.nextRx # first
      [] OTHER -> past < k.nextRx \/ MaxRxSequence(k) <= first

-----------------------------------------------------------------------------
(* Closing down. *)
CancelAllTimers(k) ==
    [k EXCEPT !.retx = {}, !.persist = FALSE, !.delAck = FALSE,
              !.lastAck = FALSE, !.timeWait = FALSE, !.sendPending = FALSE]

DeallocateEndPoint(k) ==
    IF k.endPoint THEN [CancelAllTimers(k) EXCEPT !.endPoint = FALSE] ELSE k

CloseAndNotify(k) ==
    DeallocateEndPoint([k EXCEPT !.closeNotified = TRUE, !.state = "CLOSED"])

NotifyErrorClose(k) == [k EXCEPT !.errorNotified = TRUE]

TimeWait(k) == [CancelAllTimers(k) EXCEPT !.state = "TIME_WAIT", !.timeWait = TRUE]

-----------------------------------------------------------------------------
(* Fault: bytes that were received ahead are acknowledged. *)
Segment_Fault(k, flags, seq, data) ==
    [flags |-> flags, seq |-> seq, ack |-> k.nextRx + Cardinality(Held(k)),
     wnd |-> AdvertisedWindowSize(k), wscale |-> WScaleOption(k, flags), data |-> data]

(* Sending. *)
Segment(k, flags, seq, data) ==
    [flags |-> flags, seq |-> seq, ack |-> k.nextRx,
     wnd |-> AdvertisedWindowSize(k), wscale |-> WScaleOption(k, flags), data |-> data]

(* A FIN always carries an ACK; other segments of a closing socket come    *)
(* behind its FIN.                                                         *)
EmptySegment(k, flags) ==
    IF "FIN" \in flags
    THEN Segment(k, flags \cup {"ACK"}, k.nextTx, <<>>)
    ELSE Segment(k, flags,
                 IF k.state \in {"FIN_WAIT_1", "LAST_ACK", "CLOSING"}
                 THEN k.nextTx + 1 ELSE k.nextTx, <<>>)

Emit(k, seg) ==
    [k EXCEPT !.out = Append(@, seg),
              !.synCount = IF "SYN" \in seg.flags THEN @ - 1 ELSE @,
              !.delAck = @ /\ "ACK" \notin seg.flags,
              !.delAckCount = IF "ACK" \in seg.flags THEN 0 ELSE @,
              !.retx = IF @ = {} /\ seg.flags \cap {"SYN", "FIN"} # {}
                       THEN seg.flags ELSE @]

EmitEmpty(k, flags) == Emit(k, EmptySegment(k, flags))

(* Fault: a SYN is sent as often as its timer fires. *)
SendEmptyPacket_Endless(k, flags) == EmitEmpty(AddOptions(k, flags), flags)

(* Fault: a SYN and a FIN are not timed. *)
SendEmptyPacket_Fault(k, flags) ==
    IF ~k.endPoint THEN k
    ELSE [k EXCEPT !.out = Append(@, EmptySegment(k, flags)),
                   !.delAck = FALSE, !.delAckCount = 0]

SendEmptyPacket(k, flags) ==
    IF ~k.endPoint THEN k
    ELSE IF "SYN" \in flags /\ k.synCount = 0 THEN CloseAndNotify(k)
    ELSE EmitEmpty(AddOptions(k, flags), flags)

SendRST(k) ==
    DeallocateEndPoint(NotifyErrorClose(SendEmptyPacket(k, {"RST"})))

UnAckDataCount(k) == k.nextTx - k.head

BytesInFlight(k) ==
    LET flight == UnAckDataCount(k)
        twice == (k.retransOut - k.dupAckCount) * SegSize
    IN  Larger(0, flight + twice)

AvailableWindow(k) == Larger(0, Min({k.rWnd, k.cWnd}) - UnAckDataCount(k))

FinWith(past, k) == k.closeOnEmpty /\ SizeFromSequence(k, past) = 0

EmitData(k, seg, past, fin, withAck) ==
    [k EXCEPT !.out = Append(@, seg),
              !.state = CASE fin /\ @ = "ESTABLISHED" -> "FIN_WAIT_1"
                          [] fin /\ @ = "CLOSE_WAIT" -> "LAST_ACK"
                          [] OTHER -> @,
              !.delAck = @ /\ ~withAck,
              !.delAckCount = IF withAck THEN 0 ELSE @,
              !.retx = IF @ = {} THEN {"DATA"} ELSE @,
              !.highTxMark = Larger(@, past)]

(* The FIN goes with the last byte if the application closed before. *)
SendDataPacket(k, seq, maxSize, withAck) ==
    LET size == Min({maxSize, SizeFromSequence(k, seq)})
        fin == FinWith(seq + size, k)
        flags == (IF withAck THEN {"ACK"} ELSE {}) \cup (IF fin THEN {"FIN"} ELSE {})
    IN  EmitData(UsesEndPoint(k), Segment(k, flags, seq, CopyFromSequence(k, size, seq)),
                 seq + size, fin, withAck)

(* Not now: to avoid a silly window, or for Nagle's algorithm. *)
MustWait(k) ==
    LET pending == SizeFromSequence(k, k.nextTx)
        w == AvailableWindow(k)
    IN  \/ w < SegSize /\ pending > w
        \/ ~NoDelay /\ UnAckDataCount(k) > 0 /\ pending < SegSize

(* m_nextTxSequence moves behind the segment that was sent last. *)
Advance(sent) == [sent EXCEPT !.nextTx = @ + Len(Last(sent.out).data)]

SendNext(k, withAck) ==
    Advance(SendDataPacket(k, k.nextTx, Min({AvailableWindow(k), SegSize}), withAck))

SendIfAny(k, withAck) ==
    IF SizeFromSequence(k, k.nextTx) = 0 \/ MustWait(k) THEN k ELSE SendNext(k, withAck)

(* Fault: a socket without an endpoint sends. *)
SendPendingData_Fault(k, withAck) ==
    LET after[n \in 0..Len(k.tx)] ==
            IF n = 0 THEN k ELSE SendIfAny(after[n - 1], withAck)
    IN  after[Len(k.tx)]

(* As long as there is something to send: once for every byte at most. *)
SendPendingData(k, withAck) ==
    IF k.tx = <<>> \/ ~k.endPoint THEN k
    ELSE LET after[n \in 0..Len(k.tx)] ==
                 IF n = 0 THEN k ELSE SendIfAny(after[n - 1], withAck)
         IN  after[Len(k.tx)]

LimitedTransmit(k) ==
    IF LimitedTx /\ SizeFromSequence(k, k.nextTx) > 0
    THEN Advance(SendDataPacket(k, k.nextTx, SegSize, TRUE))
    ELSE k

-----------------------------------------------------------------------------
(* Calls of the application. *)
DoConnect(k) ==
    CASE k.state \in {"CLOSED", "LISTEN", "SYN_SENT", "LAST_ACK", "CLOSE_WAIT"} ->
            [SendEmptyPacket(k, {"SYN"}) EXCEPT !.state = "SYN_SENT"]
      [] k.state = "TIME_WAIT" -> k
      [] OTHER -> CloseAndNotify(SendRST(k))

Connect(k) ==
    DoConnect([k EXCEPT !.synCount = SynRetries, !.dataRetrCount = DataRetries])

DoClose(k) ==
    CASE k.state \in {"SYN_RCVD", "ESTABLISHED"} ->
            [SendEmptyPacket(k, {"FIN"}) EXCEPT !.state = "FIN_WAIT_1"]
      [] k.state = "CLOSE_WAIT" ->
            [SendEmptyPacket(k, {"FIN", "ACK"}) EXCEPT !.state = "LAST_ACK"]
      [] k.state \in {"SYN_SENT", "CLOSING"} -> CloseAndNotify(SendRST(k))
      [] k.state \in {"LISTEN", "LAST_ACK"} -> CloseAndNotify(k)
      [] OTHER -> k

Close(k) ==
    IF RxSize(k) # 0 THEN SendRST(k)
    ELSE IF SizeFromSequence(k, k.nextTx) > 0 THEN [k EXCEPT !.closeOnEmpty = TRUE]
    ELSE DoClose(k)

ShutdownSend(k) ==
    LET s == [k EXCEPT !.shutdownSend = TRUE, !.closeOnEmpty = TRUE]
    IN  CASE s.tx = <<>> /\ s.state = "ESTABLISHED" ->
                [SendEmptyPacket(s, {"FIN"}) EXCEPT !.state = "FIN_WAIT_1"]
          [] s.tx = <<>> /\ s.state = "CLOSE_WAIT" ->
                [SendEmptyPacket(s, {"FIN"}) EXCEPT !.state = "LAST_ACK"]
          [] OTHER -> s

(* The bytes a socket takes are numbered, so that each can be told apart. *)
MaySend(k) == k.state \in {"ESTABLISHED", "SYN_SENT", "CLOSE_WAIT"}
Refuses(k, n) == ~MaySend(k) \/ n > TxAvailable(k) \/ k.shutdownSend

(* The data is added before m_shutdownSend is looked at. *)
Send(k, n) ==
    IF ~MaySend(k) \/ n > TxAvailable(k) THEN k
    ELSE [k EXCEPT !.tx = @ \o [i \in 1..n |-> k.written + i],
                   !.written = @ + n,
                   !.sendPending = @ \/ (/\ ~k.shutdownSend
                                         /\ k.state # "SYN_SENT")]

Recv(k, n) ==
    [k EXCEPT !.read = @ \o SubSeq(k.inOrder, 1, n),
              !.inOrder = SubSeq(@, n + 1, Len(@))]

(* A grown buffer is reported to the peer at once. *)
SetRcvBufSize(k, size) ==
    LET s == [k EXCEPT !.rcvBuf = size]
    IN  IF size > k.rcvBuf /\ k.connected THEN SendEmptyPacket(s, {"ACK"}) ELSE s

(* tcpchain.cc: writes what fits and closes, whether or not that was all. *)
WriteUntilBufferFull(k) ==
    LET n == Min({k.left, TxAvailable(k)})
        full == [Send(k, n) EXCEPT !.left = @ - n]
    IN  IF n = 0 THEN Close(k)
        ELSE IF Refuses(k, n) THEN Send(k, n) ELSE Close(full)

NotifySend(k) == IF k.chain /\ TxAvailable(k) > 0 THEN WriteUntilBufferFull(k) ELSE k

NotifyDataRecv(k) ==
    IF k.eager /\ ~k.shutdownRecv THEN Recv(k, Len(k.inOrder)) ELSE k

-----------------------------------------------------------------------------
(* Timers.  A timer that fires is no longer pending when its handler runs. *)
CountResent(resent) ==
    [resent EXCEPT !.retransOut = @ + 1,
                   !.nextTx = Larger(@, resent.head + Len(Last(resent.out).data))]

DoRetransmit(k) ==
    IF k.state = "SYN_SENT" THEN IF k.synCount > 0 THEN SendEmptyPacket(k, {"SYN"}) ELSE k
    ELSE IF k.dataRetrCount = 0 THEN DeallocateEndPoint(NotifyErrorClose(k))
    ELSE LET s == [k EXCEPT !.dataRetrCount = @ - 1]
         IN  CASE s.tx = <<>> /\ s.state \in {"FIN_WAIT_1", "CLOSING"} ->
                     SendEmptyPacket(s, {"FIN"})
               [] s.tx = <<>> /\ s.state \notin {"FIN_WAIT_1", "CLOSING"} -> s
               [] OTHER -> CountResent(SendDataPacket(s, s.head, SegSize, TRUE))

(* The window is left alone by losses if it started with several segments. *)
ReducesWindow == InitialCwnd <= 1

NothingToRetransmit(k) ==
    \/ k.state \in {"CLOSED", "TIME_WAIT"}
    \/ k.state \in Unconnected \cup {"ESTABLISHED"} /\ k.head >= k.highTxMark

EnterLoss(k) ==
    IF k.congState = "LOSS" THEN k
    ELSE [k EXCEPT !.congState = "LOSS", !.ssThresh = GetSsThresh(BytesInFlight(k)),
                   !.cWnd = IF ReducesWindow THEN SegSize ELSE @]

Retransmit(k) ==
    DoRetransmit([EnterLoss(k) EXCEPT !.nextTx = k.head, !.dupAckCount = 0])

ReTxTimeout(k) ==
    IF NothingToRetransmit(k) THEN k
    ELSE Retransmit([k EXCEPT !.recover = k.highTxMark])

(* The event that is pending: ReTxTimeout, or SendEmptyPacket with flags. *)
RetxEvent(k) ==
    LET s == [k EXCEPT !.retx = {}]
    IN  IF k.retx = {"DATA"} THEN ReTxTimeout(s) ELSE SendEmptyPacket(s, k.retx)

DelAckTimeout(k) ==
    SendEmptyPacket([k EXCEPT !.delAck = FALSE, !.delAckCount = 0], {"ACK"})

LastAckTimeout(k) ==
    LET s == [k EXCEPT !.lastAck = FALSE]
    IN  [(IF s.state = "LAST_ACK" THEN CloseAndNotify(s) ELSE s)
            EXCEPT !.closeNotified = TRUE]

(* A probe of one byte, which nextTx and highTxMark do not count. *)
PersistTimeout(k) ==
    [UsesEndPoint(k) EXCEPT !.out = Append(@, Segment(k, {}, k.nextTx,
                CopyFromSequence(k, Min({1, SizeFromSequence(k, k.nextTx)}), k.nextTx)))]
=============================================================================
