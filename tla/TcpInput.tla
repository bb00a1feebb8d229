------------------------------ MODULE TcpInput ------------------------------
(***************************************************************************)
(* The handlers of arriving segments in Proj2/proj2/tcp-socket-base.cc,    *)
(* each from the socket k before the segment h to the socket after it.     *)
(***************************************************************************)
EXTENDS TcpSocket

OnlyFlags(h, flags) == h.flags = flags
IsFin(h) == h.flags \in {{"FIN"}, {"FIN", "ACK"}}
IsSyn(h) == h.flags \in {{"SYN"}, {"SYN", "ACK"}}

NotifyIfRoom(k) == IF TxAvailable(k) > 0 THEN NotifySend(k) ELSE k

(* A segment the state has no use for is answered with RST, but for a RST. *)
Refuse(k, h) ==
    CloseAndNotify(IF OnlyFlags(h, {"RST"}) THEN k ELSE SendRST(k))

-----------------------------------------------------------------------------
(* Data and FIN. *)
TimeLastAck(k) == [k EXCEPT !.lastAck = @ \/ k.state = "LAST_ACK"]

DoPeerClose(k) ==
    LET waiting == [NsAssert(k, "peerClose", k.state \in {"ESTABLISHED", "SYN_RCVD"})
                        EXCEPT !.state = "CLOSE_WAIT", !.closeNotified = TRUE]
    IN  TimeLastAck(IF k.shutdownSend THEN Close(waiting)
                                      ELSE SendEmptyPacket(waiting, {"ACK"}))

(* In-sequence data is acknowledged every DelAckMax segments, a gap or a   *)
(* filled gap at once.                                                     *)
DelayAck(k) ==
    IF k.delAckCount + 1 >= DelAckMax
    THEN SendEmptyPacket([k EXCEPT !.delAck = FALSE, !.delAckCount = 0], {"ACK"})
    ELSE [k EXCEPT !.delAckCount = @ + 1, !.delAck = TRUE]

OutOfOrder(k, h, added) ==
    \/ RxSize(added) > Len(added.inOrder)
    \/ added.nextRx > k.nextRx + Len(h.data)

AckData(k, h, added) ==
    IF OutOfOrder(k, h, added) THEN SendEmptyPacket(added, {"ACK"}) ELSE DelayAck(added)

(* Fault: a FIN that came before the data in front of it is forgotten. *)
FinInOrder_Fault(told, h) == told

(* A filled gap may bring an earlier FIN in order. *)
FinInOrder(told, h) ==
    IF Finished(told) /\ "FIN" \notin h.flags THEN DoPeerClose(told) ELSE told

TellApplication(k, h, acked) ==
    IF acked.nextRx = k.nextRx THEN acked ELSE FinInOrder(NotifyDataRecv(acked), h)

ReceivedData(k, h) ==
    IF NewBytes(k, h) = {} THEN SendEmptyPacket(k, {"ACK"})
    ELSE TellApplication(k, h, AckData(k, h, AddToRx(k, h)))

TakeData(k, h) == IF h.data = <<>> THEN k ELSE ReceivedData(k, h)

CloseIfFinished(k) ==
    IF ~Finished(k) THEN k
    ELSE IF k.state = "FIN_WAIT_1" THEN [k EXCEPT !.state = "CLOSING"]
    ELSE DoPeerClose(k)

(* Data before the FIN is stored first, and the FIN waits for the rest. *)
PeerClose(k, h) ==
    IF h.seq < k.nextRx \/ h.seq > MaxRxSequence(k) THEN k
    ELSE CloseIfFinished(TakeData(SetFinSequence(k, h.seq + Len(h.data)), h))

-----------------------------------------------------------------------------
(* Acknowledgements. *)
(* Fault: the factor this end has sent is applied to what it receives. *)
ReceivedWindow_Fault(k, h) == h.wnd * 2^k.rcvShift

ReceivedWindow(k, h) == h.wnd * 2^k.sndShift

UpdateWindowSize(k, h) ==
    LET wnd == ReceivedWindow(k, h)
        grows == h.ack = k.highRxAckMark /\ wnd > k.rWnd
        acks == h.ack > k.highRxAckMark
        newer == h.seq > k.highRxMark
    IN  IF k.state \in Unconnected THEN [k EXCEPT !.rWnd = wnd]
        ELSE [k EXCEPT !.highRxAckMark = Larger(@, h.ack),
                       !.highRxMark = Larger(@, h.seq),
                       !.rWnd = IF grows \/ acks \/ newer THEN wnd ELSE @]

(* Fault: m_nextTxSequence is left behind. *)
NewAck_Behind(k, ack, resetRTO) ==
    NotifyIfRoom(DiscardUpTo([k EXCEPT !.retx = {"DATA"}], ack))

(* Fault: the timer is cancelled whatever is still outstanding. *)
NewAck_Untimed(k, ack, resetRTO) ==
    [NotifyIfRoom(DiscardUpTo(k, ack)) EXCEPT !.nextTx = Larger(@, ack), !.retx = {}]

NothingToTime(k) == k.tx = <<>> /\ k.state \notin {"FIN_WAIT_1", "CLOSING"}

SkipAcked(told, ack) ==
    [told EXCEPT !.nextTx = Larger(@, ack),
                 !.retx = IF NothingToTime(told) THEN {} ELSE @]

(* Before the retry counter is reset by the caller of NewAck. *)
NewAck(k, ack, resetRTO) ==
    LET timed == IF resetRTO /\ k.state # "SYN_RCVD"
                 THEN [k EXCEPT !.retx = {"DATA"}] ELSE k
    IN  SkipAcked(NotifyIfRoom(DiscardUpTo(timed, ack)), ack)

Inflate(k, bytes) == IF ReducesWindow THEN [k EXCEPT !.cWnd = @ + bytes] ELSE k

EnterRecovery(k) ==
    LET thresh == GetSsThresh(BytesInFlight(k))
    IN  DoRetransmit([k EXCEPT
            !.recover = k.highTxMark, !.congState = "RECOVERY", !.ssThresh = thresh,
            !.cWnd = IF ReducesWindow THEN thresh + k.dupAckCount * SegSize ELSE @])

DuplicateAck(k) ==
    LET s == [k EXCEPT !.dupAckCount = @ + 1]
        first == NsAssert(s, "firstDupAck", s.dupAckCount = 1)
        done == CASE s.congState = "OPEN" ->
                        LimitedTransmit([first EXCEPT !.congState = "DISORDER"])
                  [] s.congState = "DISORDER" ->
                        IF s.dupAckCount = RetxThresh /\ s.highRxAckMark >= s.recover
                        THEN EnterRecovery(s) ELSE LimitedTransmit(s)
                  [] s.congState = "RECOVERY" ->
                        SendPendingData(Inflate(s, SegSize), s.connected)
                  [] s.congState = "LOSS" -> s
    IN  [done EXCEPT !.cWnd = PktsAcked(@)]

SafeSubtraction(a, b) == Larger(0, a - b)

(* Retransmits the next segment and deflates the window. *)
PartialAck(k, h, bytesAcked, segsAcked) ==
    LET deflated == IF ReducesWindow
                    THEN [k EXCEPT !.cWnd = SafeSubtraction(@, bytesAcked) + SegSize]
                    ELSE k
        s == DiscardUpTo([deflated EXCEPT
                            !.dupAckCount = SafeSubtraction(@, segsAcked),
                            !.retransOut = SafeSubtraction(@, 1)], h.ack)
    IN  [DoRetransmit(s) EXCEPT !.firstPartialAck = FALSE, !.cWnd = PktsAcked(@)]

(* Fault: the next recovery finds its first partial acknowledgement taken. *)
FullAck_Fault(k) ==
    [k EXCEPT !.cWnd = Min({k.ssThresh, BytesInFlight(k) + SegSize}),
              !.dupAckCount = 0, !.retransOut = 0, !.congState = "OPEN"]

FullAck(k) ==
    [k EXCEPT !.cWnd = PktsAcked(IF ReducesWindow
                        THEN Min({k.ssThresh, BytesInFlight(k) + SegSize}) ELSE @),
              !.firstPartialAck = TRUE, !.dupAckCount = 0, !.retransOut = 0,
              !.congState = "OPEN"]

(* Fault: the acknowledgement of recover itself does not end the recovery. *)
AckInCongState_Fault(k, h, bytesAcked, segsAcked) ==
    IF k.congState = "RECOVERY" THEN PartialAck(k, h, bytesAcked, segsAcked)
    ELSE [k EXCEPT !.congState = "OPEN", !.dupAckCount = 0, !.retransOut = 0]

AckInCongState(k, h, bytesAcked, segsAcked) ==
    CASE k.congState = "OPEN" -> [k EXCEPT !.cWnd = PktsAcked(@)]
      [] k.congState = "DISORDER" ->
            [k EXCEPT !.congState = "OPEN", !.cWnd = PktsAcked(@),
                      !.dupAckCount = 0, !.retransOut = 0]
      [] k.congState = "RECOVERY" ->
            IF h.ack < k.recover THEN PartialAck(k, h, bytesAcked, segsAcked)
                                 ELSE FullAck(k)
      [] k.congState = "LOSS" ->
            [k EXCEPT !.congState = "OPEN", !.cWnd = PktsAcked(@),
                      !.firstPartialAck = TRUE, !.dupAckCount = 0, !.retransOut = 0]

Grow(k, segs) == [k EXCEPT !.cWnd = IncreaseWindow(@, k.ssThresh, segs)]

ResetRetries(k) ==
    NsAssert([k EXCEPT !.dataRetrCount = DataRetries], "partialAck",
             k.firstPartialAck \/ k.congState = "RECOVERY")

NewlyAcked(k, h, bytesAcked, segsAcked) ==
    LET partial == k.congState = "RECOVERY" /\ h.ack < k.recover
        full == k.congState = "RECOVERY" /\ h.ack >= k.recover
        uncounted == IF segsAcked > k.dupAckCount THEN segsAcked - k.dupAckCount ELSE 1
        s == AckInCongState(k, h, bytesAcked, uncounted)
        grown == IF partial THEN s
                 ELSE Grow(s, IF full THEN (h.ack - k.recover) \div SegSize ELSE segsAcked)
    IN  [NewAck(ResetRetries(grown), h.ack, ~partial \/ k.firstPartialAck)
            EXCEPT !.sendPending = TRUE]

(* bytesAcked is unsigned: an old acknowledgement counts as a huge one. *)
ReceivedAck(k, h) ==
    LET bytesAcked == (h.ack - k.head) % Word
        rest == k.ackedRest + (bytesAcked % SegSize)
        segsAcked == (bytesAcked \div SegSize) + (rest \div SegSize)
        s == [NsAssert(k, "ackFlag", "ACK" \in h.flags)
                EXCEPT !.ackedRest = rest % SegSize]
        isDup == h.ack = k.head /\ h.ack < k.nextTx /\ h.data = <<>>
    IN  TakeData(IF isDup THEN DuplicateAck(s)
                 ELSE IF h.ack > k.head THEN NewlyAcked(s, h, bytesAcked, segsAcked)
                 ELSE s, h)

-----------------------------------------------------------------------------
(* One handler for each state of the socket. *)
CloseAfter(k, h) == IF Finished(k) THEN PeerClose(k, h) ELSE k

ProcessEstablished(k, h) ==
    CASE OnlyFlags(h, {"ACK"}) ->
            IF h.ack < k.head THEN k
            ELSE IF h.ack > k.highTxMark THEN SendEmptyPacket(k, {"ACK"})
            ELSE ReceivedAck(k, h)
      [] IsSyn(h) -> k
      [] IsFin(h) -> PeerClose(k, h)
      [] OnlyFlags(h, {}) ->
            CloseAfter(ReceivedData(k, h), h)
      [] OTHER -> Refuse(k, h)

(* The SYN is counted: data starts behind it. *)
HandshakeDone(k) ==
    LET first == k.nextTx + 1
    IN  [k EXCEPT !.connected = TRUE, !.retx = {}, !.nextTx = first,
                  !.highTxMark = first, !.head = first]

ProcessSynSent(k, h) ==
    CASE OnlyFlags(h, {}) ->
            ReceivedData([k EXCEPT !.state = "ESTABLISHED", !.connected = TRUE,
                                   !.retx = {}, !.delAckCount = DelAckMax], h)
      [] OnlyFlags(h, {"ACK"}) -> k
      [] OnlyFlags(h, {"SYN"}) ->
            SendEmptyPacket([k EXCEPT !.state = "SYN_RCVD", !.synCount = SynRetries,
                                      !.nextRx = h.seq + 1], {"SYN", "ACK"})
      [] OnlyFlags(h, {"SYN", "ACK"}) /\ h.ack = k.nextTx + 1 ->
            LET s == SendEmptyPacket([HandshakeDone(k) EXCEPT
                        !.state = "ESTABLISHED", !.nextRx = h.seq + 1], {"ACK"})
            IN  [SendPendingData(s, TRUE) EXCEPT !.delAckCount = DelAckMax]
      [] OTHER -> Refuse(k, h)

ConnectionSucceeded(k) == NotifyIfRoom(k)

ProcessSynRcvd(k, h) ==
    CASE OnlyFlags(h, {}) \/ (OnlyFlags(h, {"ACK"}) /\ h.ack = k.nextTx + 1) ->
            NotifyIfRoom(ReceivedAck([HandshakeDone(k) EXCEPT
                !.state = "ESTABLISHED", !.delAckCount = DelAckMax], h))
      [] OnlyFlags(h, {"SYN"}) ->
            SendEmptyPacket([k EXCEPT !.nextRx = h.seq + 1], {"SYN", "ACK"})
      [] OnlyFlags(h, {"FIN", "ACK"}) ->
            IF h.seq = k.nextRx THEN PeerClose(HandshakeDone(k), h) ELSE k
      [] OTHER -> Refuse(k, h)

(* The FIN is acknowledged: nothing is left in the buffer. *)
AcksFin(k, h) == k.tx = <<>> /\ h.ack = k.highTxMark + 1

FinAcked(k, h) ==
    IF k.state = "FIN_WAIT_1" /\ AcksFin(k, h) THEN [k EXCEPT !.state = "FIN_WAIT_2"] ELSE k

WaitInput(k, h) ==
    CASE h.data # <<>> /\ h.flags # {"ACK"} -> ReceivedData(k, h)
      [] OnlyFlags(h, {"ACK"}) ->
            FinAcked(ReceivedAck(k, h), h)
      [] OTHER -> SetFinSequence(IF "ACK" \in h.flags THEN ReceivedAck(k, h) ELSE k, h.seq)

(* Both ends have sent a FIN when the peer's is counted. *)
WaitFinished(k, h) ==
    LET next == CASE k.state = "FIN_WAIT_2" -> TimeWait(k)
                  [] k.state = "FIN_WAIT_1" /\ AcksFin(k, h) -> TimeWait(k)
                  [] OTHER -> [k EXCEPT !.state = "CLOSING"]
    IN  IF k.state \in {"FIN_WAIT_1", "FIN_WAIT_2"} /\ Finished(k)
        THEN NotifyDataRecv(SendEmptyPacket(next, {"ACK"})) ELSE k

ProcessWait(k, h) ==
    IF h.data # <<>> \/ OnlyFlags(h, {"ACK"}) \/ IsFin(h) THEN WaitFinished(WaitInput(k, h), h)
    ELSE IF IsSyn(h) THEN k ELSE Refuse(k, h)

(* An acknowledgement of anything closes: only its place is looked at. *)
ProcessClosing(k, h) ==
    CASE OnlyFlags(h, {"ACK"}) -> IF h.seq = k.nextRx THEN TimeWait(k) ELSE k
      [] IsFin(h) -> CloseAndNotify(SendEmptyPacket(k, {"ACK"}))
      [] OTHER -> Refuse(k, h)

ProcessLastAck(k, h) ==
    CASE OnlyFlags(h, {}) -> ReceivedData(k, h)
      [] OnlyFlags(h, {"ACK"}) -> IF h.seq = k.nextRx THEN CloseAndNotify(k) ELSE k
      [] OnlyFlags(h, {"FIN"}) -> SendEmptyPacket(k, {"FIN", "ACK"})
      [] OnlyFlags(h, {"FIN", "ACK"}) -> CloseAndNotify(k)
      [] OTHER -> Refuse(k, h)

ProcessClosed(k, h) ==
    IF OnlyFlags(h, {"RST"}) THEN k
    ELSE [k EXCEPT !.out = Append(@, Segment(k, {"RST"}, k.nextTx, <<>>))]

-----------------------------------------------------------------------------
(* What every segment does before the handler of the state is called. *)
ProcessOptionWScale(k, h) ==
    IF h.wscale # NoOption /\ k.scaling THEN [k EXCEPT !.sndShift = Min({h.wscale, MaxShift})]
                                       ELSE [k EXCEPT !.scaling = FALSE]

ResetOnSyn(k, h) ==
    [ProcessOptionWScale(k, h) EXCEPT
              !.rWnd = h.wnd, !.cWnd = InitialCwnd * SegSize,
              !.ssThresh = InitialSsThresh,
              !.highRxAckMark = IF "ACK" \in h.flags THEN h.ack ELSE @]

ReadHeader(k, h) ==
    CASE "SYN" \in h.flags -> ResetOnSyn(k, h)
      [] "SYN" \notin h.flags /\ "ACK" \in h.flags -> UpdateWindowSize(k, h)
      [] OTHER -> k

EnterPersist(k) ==
    IF k.rWnd = 0 /\ ~k.persist THEN [k EXCEPT !.retx = {}, !.persist = TRUE] ELSE k

(* Fault: probing ends with the data, though the window stays closed. *)
LeavePersist_Fault(k) ==
    IF k.persist /\ (k.rWnd # 0 \/ k.tx = <<>>)
    THEN [k EXCEPT !.persist = FALSE, !.sendPending = TRUE] ELSE k

LeavePersist(k) ==
    IF k.rWnd # 0 /\ k.persist
    THEN [NsAssert(k, "persistConnected", k.connected)
            EXCEPT !.persist = FALSE, !.sendPending = TRUE]
    ELSE k

ProcessState(k, h) ==
    CASE k.state = "ESTABLISHED" -> ProcessEstablished(k, h)
      [] k.state = "CLOSED" -> ProcessClosed(k, h)
      [] k.state = "SYN_SENT" -> ProcessSynSent(k, h)
      [] k.state = "SYN_RCVD" -> ProcessSynRcvd(k, h)
      [] k.state \in {"FIN_WAIT_1", "FIN_WAIT_2", "CLOSE_WAIT"} -> ProcessWait(k, h)
      [] k.state = "CLOSING" -> ProcessClosing(k, h)
      [] k.state = "LAST_ACK" -> ProcessLastAck(k, h)
      [] k.state = "TIME_WAIT" -> k

(* The notifications of a connection that was made come last, also if it   *)
(* took the FIN with the data that waited for it.                          *)
Forwarded(k, s) ==
    IF k.state = "SYN_SENT" /\ ~k.connected /\ s.connected THEN ConnectionSucceeded(s) ELSE s

DoForwardUp(k, h) ==
    IF h.data # <<>> /\ OutOfRange(k, h.seq, h.seq + Len(h.data))
    THEN IF k.state = "ESTABLISHED" /\ "RST" \notin h.flags
         THEN SendEmptyPacket(k, {"ACK"}) ELSE k
    ELSE Forwarded(k, LeavePersist(ProcessState(EnterPersist(ReadHeader(k, h)), h)))

(* A SYN that reaches the listener: the listener reads the header, and the *)
(* socket it forks has a copy of what it read.                             *)
Fork(listener) == [listener EXCEPT !.endPoint = FALSE, !.delAckCount = 0]

CompleteFork(k, h) ==
    SendEmptyPacket([k EXCEPT !.endPoint = TRUE, !.state = "SYN_RCVD",
        !.synCount = SynRetries, !.dataRetrCount = DataRetries, !.nextRx = h.seq + 1],
        {"SYN", "ACK"})

ProcessListen(listener, h) == CompleteFork(Fork(ReadHeader(listener, h)), h)
=============================================================================
