------------------------------- MODULE MCTcp -------------------------------
(* Settings of TcpConnection for TLC.  Base is a connection on which        *)
(* nothing is sent; the others say what differs.                            *)
EXTENDS TcpConnection

Both(c, s) == [e \in End |-> IF e = Client THEN c ELSE s]

Base == [
    algorithm |-> "NewReno", segSize |-> 1, initialCwnd |-> 1, initialSsThresh |-> 4,
    synRetries |-> 2, dataRetries |-> 3, delAckMax |-> 2, retxThresh |-> 2,
    limitedTx |-> FALSE, noDelay |-> TRUE, sndBuf |-> 2, maxWin |-> 8,
    windowScaling |-> Both(TRUE, TRUE), rcvBufSize |-> Both(2, 2), word |-> 1024,
    chainBytes |-> 0, appCalls |-> Both({}, {}), appBytes |-> Both(0, 0), chunk |-> 1,
    resizes |-> <<>>, eagerEnds |-> End,
    queueLen |-> 3, maxLoss |-> 1, maxDupAcks |-> 4, maxTimeouts |-> 0, patient |-> TRUE]

Chain(bytes, sndBuf, rcvBuf) ==
    [Base EXCEPT !.chainBytes = bytes, !.sndBuf = sndBuf,
                 !.rcvBufSize = Both(rcvBuf, rcvBuf)]

SendClose == Both({"Send", "Close"}, {"Send", "Close"})
SendResize == Both({"Send"}, {"Resize"})
SendShutdown == Both({"Send", "ShutdownSend"}, {})

(* An application that reads, closes or stops reading when it likes.       *)
Talk == [Base EXCEPT
    !.appCalls = Both({"Send", "ShutdownSend"}, {"Recv", "Close", "ShutdownRecv"}),
    !.appBytes = Both(3, 0), !.initialCwnd = 2, !.eagerEnds = {}]

(* Timers that fire while an acknowledgement is on its way, both ends send *)
(* and close.                                                              *)
Early == [Base EXCEPT
    !.appCalls = SendClose, !.appBytes = Both(2, 1),
    !.maxLoss = 0, !.patient = FALSE, !.maxTimeouts = 1]

(* Fast recovery with partial acknowledgements, limited transmit.          *)
Recovery == [Chain(6, 5, 4) EXCEPT !.maxLoss = 2, !.limitedTx = TRUE, !.queueLen = 4]

(* A receiver that closes its window and opens it again.                   *)
Pause == [Base EXCEPT
    !.appCalls = SendResize, !.appBytes = Both(2, 0), !.resizes = <<0, 2>>,
    !.maxTimeouts = 2]

Fixed == [Chain(6, 6, 4) EXCEPT
    !.algorithm = "Fixed", !.initialCwnd = 3, !.maxLoss = 2,
    !.synRetries = 3, !.dataRetries = 4, !.queueLen = 4]

(* Receive buffers larger than a header can say, of different size.        *)
Scaled == [Chain(5, 5, 5) EXCEPT !.maxWin = 2, !.rcvBufSize = Both(2, 5)]
HalfScaled == [Scaled EXCEPT !.windowScaling = Both(TRUE, FALSE)]

(* A lost segment uses up the retries of a connection, its application     *)
(* goes on writing.                                                        *)
Drop == [Base EXCEPT
    !.appCalls = SendClose, !.appBytes = Both(3, 1), !.dataRetries = 0, !.sndBuf = 3]

SafeSettings == [
    talk |-> Talk, early |-> Early, recovery |-> Recovery, pause |-> Pause,
    fixed |-> Fixed, scaled |-> Scaled, halfScaled |-> HalfScaled, drop |-> Drop]

LiveSettings == [
    short |-> Chain(4, 3, 2), scaled |-> Scaled, halfScaled |-> HalfScaled,
    recovery |-> Recovery, fixed |-> Fixed]

-----------------------------------------------------------------------------
(* The settings of the disagreements.                                      *)
OneEach == [Base EXCEPT !.appCalls = SendClose, !.appBytes = Both(1, 1)]
Shutdown == [Base EXCEPT
    !.appCalls = SendShutdown, !.appBytes = Both(1, 1), !.maxLoss = 0]

PeerCloseSettings == [one |-> OneEach]
LostAckSettings == [base |-> Base]
ZeroWindowSettings == [pause |-> [Pause EXCEPT !.resizes = <<0, 2, 0, 2>>]]
ShutdownSettings == [shutdown |-> Shutdown]
ShortChainSettings == [short |-> [Chain(4, 2, 3) EXCEPT !.maxLoss = 0]]
FinAckSettings == [closes |-> [Base EXCEPT !.appCalls = Both({"Close"}, {})]]
GrowthSettings == [eight |-> [Chain(8, 8, 4) EXCEPT !.maxLoss = 0, !.queueLen = 6]]
LastRetrySettings == [last |-> [Recovery EXCEPT !.dataRetries = 1]]
InitialCwndSettings == [two |-> [Chain(4, 4, 4) EXCEPT !.initialCwnd = 2]]
=============================================================================
