----------------------------- MODULE TcpProofs -----------------------------
(***************************************************************************)
(* The sockets of Proj2: their types, the places in the transmit buffer,   *)
(* the marks of a loss, the persist timer, and the window of TcpFixed, for *)
(* every setting, any number of losses, timeouts and calls.                *)
(*                                                                         *)
(* A method is an operator from socket to socket, so the proof has a lemma *)
(* for each: from a sound socket it makes a sound one (Follows), and most  *)
(* of them without touching the transmit buffer or the windows (Leaves).   *)
(* A lemma is named for the method and for which of the two it shows.      *)
(***************************************************************************)
EXTENDS TcpConnection, Recursion, FiniteSetTheorems, TLAPS

(* The types: the fields of a socket, a segment, and what each field       *)
(* holds.                                                                  *)
Fields == {
    "state", "endPoint", "connected", "closeNotified", "errorNotified",
    "closeOnEmpty", "shutdownSend", "shutdownRecv",
    "nextTx", "highTxMark", "head", "tx", "written",
    "nextRx", "finSeq", "store", "inOrder", "rcvBuf", "read",
    "rWnd", "highRxMark", "highRxAckMark", "scaling", "rcvShift", "sndShift",
    "cWnd", "ssThresh", "congState", "dupAckCount", "retransOut", "recover",
    "firstPartialAck", "ackedRest", "delAckCount", "synCount", "dataRetrCount",
    "retx", "persist", "delAck", "lastAck", "timeWait", "sendPending",
    "asserted", "out", "chain", "left", "eager"}

Flags == {"SYN", "ACK", "FIN", "RST"}

(* What the retransmission timer may stand for. *)
Timings == {{"DATA"}} \cup SUBSET Flags

Segments ==
    [flags : SUBSET Flags, seq : Nat, ack : Nat, wnd : Nat,
     wscale : {NoOption} \cup 0..MaxShift, data : Seq(Nat)]

CongStates == {"OPEN", "DISORDER", "RECOVERY", "LOSS"}

Counts(k) ==
    /\ k.nextTx \in Nat /\ k.highTxMark \in Nat /\ k.head \in Nat /\ k.written \in Nat
    /\ k.nextRx \in Nat /\ k.rWnd \in Nat /\ k.cWnd \in Nat /\ k.ssThresh \in Nat
    /\ k.dupAckCount \in Nat /\ k.retransOut \in Nat /\ k.recover \in Nat
    /\ k.ackedRest \in Nat /\ k.delAckCount \in Nat /\ k.synCount \in Nat
    /\ k.dataRetrCount \in Nat /\ k.left \in Nat /\ k.rcvBuf \in Nat
    /\ k.rcvShift \in 0..MaxShift /\ k.sndShift \in 0..MaxShift

Others(k) ==
    /\ k.state \in ConnStates /\ k.congState \in CongStates /\ k.retx \in Timings
    /\ k.tx \in Seq(Nat) /\ k.out \in Seq(Segments)
    /\ DOMAIN k.store \in SUBSET Nat /\ IsFiniteSet(DOMAIN k.store)

Typed(k) == DOMAIN k = Fields /\ Counts(k) /\ Others(k)

-----------------------------------------------------------------------------
(* Before ESTABLISHED. *)
Young == {"LISTEN", "SYN_SENT", "SYN_RCVD"}

(* The transmit buffer holds what it may, and the places in it are in it.  *)
(* The next place to send from is not beyond what was sent, or is the      *)
(* head.                                                                   *)
SentIsHeld(k) ==
    /\ Len(k.tx) <= SndBuf
    /\ k.nextTx <= TailSequence(k) /\ k.highTxMark <= TailSequence(k)
    /\ k.nextTx <= Larger(k.head, k.highTxMark)

(* LossCovers, of one socket. *)
LossIsMarked(k) ==
    /\ k.congState = "RECOVERY" => k.head < k.recover
    /\ k.congState \in {"RECOVERY", "LOSS"} => k.recover <= k.highTxMark

(* Before ESTABLISHED no data was sent. There is none, or, after the SYN   *)
(* of the client, no window to send it in: m_cWnd starts at 0 and is set   *)
(* at the end of the handshake.                                            *)
NothingSent(k) ==
    k.state \in Young =>
        /\ k.nextTx = k.head /\ k.highTxMark = k.head /\ k.congState = "OPEN"
        /\ IF k.state = "SYN_SENT" THEN k.cWnd = 0 ELSE k.tx = <<>>

(* StalledIsProbed, of one socket, also when it has no data. *)
ZeroIsProbed(k) ==
    k.endPoint /\ k.state = "ESTABLISHED" /\ k.rWnd = 0 => k.persist

(* The window of TcpFixed is a promise if it has several segments: only    *)
(* then do losses leave it alone; and limited transmit sends outside of it.*)
Careful == InitialCwnd > 1 /\ ~LimitedTx

(* FixedOutstanding, of one socket, with what keeps it. *)
WindowIsFixed(k) ==
    Algorithm = "Fixed" /\ Careful =>
        /\ k.cWnd <= ConstantWindow
        /\ k.highTxMark <= k.head + ConstantWindow

(* What every method keeps. *)
Kept(k) ==
    /\ SentIsHeld(k) /\ LossIsMarked(k) /\ NothingSent(k) /\ ZeroIsProbed(k)
    /\ WindowIsFixed(k)

(* An end that did not connect sends no SYN of its own. *)
Answering(k) ==
    /\ k.state # "SYN_SENT" /\ k.retx # {"SYN"}
    /\ \A i \in 1..Len(k.out) : k.out[i].flags # {"SYN"}

(* A socket of the client (a), or of the server. *)
Sound(a, k) == Typed(k) /\ Kept(k) /\ (a \/ Answering(k))

(* The head is not beyond the next place to send from. It is beyond it for *)
(* a moment, between the removal of what was acknowledged and SkipAcked,   *)
(* so it is no part of Sound.                                              *)
Behind(k) == k.head <= k.nextTx

(* Nothing has happened at the client, or the listener, before StartFlow. *)
Still ==
    "Connect" \notin called[Client] =>
        /\ sock = [e \in End |-> IF e = Client THEN NewSocket(e) ELSE Listener]
        /\ link = [e \in End |-> <<>>]

(* The inductive invariant. Beyond the five properties it says that a      *)
(* server never repeats a lone SYN and the client never receives one,      *)
(* since a SYN in SYN_SENT opens a connection with bytes already in the    *)
(* buffer, and that nothing moves before StartFlow.                        *)
TcpInv ==
    /\ setting \in DOMAIN Settings
    /\ DOMAIN sock = End /\ DOMAIN link = End /\ DOMAIN called = End
    /\ resized \in Nat
    /\ Still
    /\ \A e \in End :
         /\ Sound(e = Client, sock[e]) /\ Behind(sock[e]) /\ sock[e].out = <<>>
         /\ link[e] \in Seq(Segments) /\ Len(link[e]) <= QueueLen
    /\ \A i \in 1..Len(link[Client]) : link[Client][i].flags # {"SYN"}

(* What every operation does to a socket. *)
Follows(a, k, s) ==
    /\ Sound(a, s)
    /\ k.state \notin Young => s.state \notin Young
    /\ Behind(k) => Behind(s)

LEMMA Together ==
    ASSUME NEW a, NEW k, NEW s, NEW t, Follows(a, k, s), Follows(a, s, t)
    PROVE  Follows(a, k, t)
  BY Zenon DEF Follows

LEMMA Stays ==
    ASSUME NEW a, NEW k, Sound(a, k)
    PROVE  Follows(a, k, k)
  BY Zenon DEF Follows

(* Of most operations only that much is needed. *)
Keeps(k, s) ==
    /\ s.head = k.head /\ s.nextTx = k.nextTx /\ s.highTxMark = k.highTxMark /\ s.tx = k.tx
    /\ s.recover = k.recover /\ s.congState = k.congState /\ s.cWnd = k.cWnd /\ s.rWnd = k.rWnd
    /\ s.state = k.state \/ s.state \notin Young \cup {"ESTABLISHED"}
    /\ s.endPoint /\ s.state = "ESTABLISHED" => k.endPoint /\ s.persist = k.persist

(* An operation that sends no segment. *)
Silent(k, s) == s.out = k.out /\ s.retx \in {k.retx, {}, {"DATA"}}

LEMMA KeepsAll ==
    ASSUME NEW k, NEW s, NEW t, Keeps(k, s), Keeps(s, t)
    PROVE  Keeps(k, t)
  BY DEF Keeps

LEMMA KeptByAll ==
    ASSUME NEW k, Kept(k), NEW s, Keeps(k, s)
    PROVE  Kept(s) /\ (k.state \notin Young => s.state \notin Young) /\ (Behind(k) => Behind(s))
  <1>1. SentIsHeld(s)
    BY DEF Kept, Keeps, SentIsHeld, TailSequence
  <1>2. LossIsMarked(s)
    BY DEF Kept, Keeps, LossIsMarked
  <1>3. NothingSent(s)
    BY DEF Kept, Keeps, NothingSent
  <1>4. ZeroIsProbed(s)
    BY DEF Kept, Keeps, ZeroIsProbed
  <1>5. WindowIsFixed(s)
    BY DEF Kept, Keeps, WindowIsFixed
  <1>6. (k.state \notin Young => s.state \notin Young) /\ (Behind(k) => Behind(s))
    BY DEF Keeps, Behind
  <1>. QED BY <1>1, <1>2, <1>3, <1>4, <1>5, <1>6 DEF Kept

LEMMA SilentFollows ==
    ASSUME NEW a, NEW k, Sound(a, k), NEW s, Typed(s), Keeps(k, s), Silent(k, s)
    PROVE  Follows(a, k, s)
  <1>1. Answering(k) => Answering(s)
    BY DEF Answering, Keeps, Silent, Young
  <1>. QED BY <1>1, KeptByAll DEF Follows, Sound

-----------------------------------------------------------------------------
(* What the assumption on settings gives. *)
Configured == setting \in DOMAIN Settings

LEMMA Configuration ==
    ASSUME Configured
    PROVE  /\ Algorithm \in {"NewReno", "Fixed"}
           /\ SegSize \in Nat /\ SegSize > 0 /\ InitialCwnd \in Nat /\ InitialCwnd > 0
           /\ DelAckMax \in Nat /\ DelAckMax > 0 /\ Word \in Nat /\ Word > 0
           /\ InitialSsThresh \in Nat /\ SynRetries \in Nat /\ DataRetries \in Nat
           /\ RetxThresh \in Nat /\ SndBuf \in Nat /\ MaxWin \in Nat /\ ChainBytes \in Nat
           /\ QueueLen \in Nat /\ Chunk \in Nat
           /\ RcvBufSize \in [End -> Nat] /\ AppBytes \in [End -> Nat] /\ Resizes \in Seq(Nat)
  <1>1. PICK a : a = Settings[setting] /\ IsSetting(a)
    BY SettingsAssumption DEF Configured, SettingsAssumption
  <1>2. /\ a.segSize \in Nat \ {0} /\ a.initialCwnd \in Nat \ {0}
        /\ a.delAckMax \in Nat \ {0} /\ a.word \in Nat \ {0} /\ a.chunk \in Nat \ {0}
    BY <1>1, Zenon DEF IsSetting
  <1>3. /\ a.initialSsThresh \in Nat /\ a.synRetries \in Nat /\ a.dataRetries \in Nat
        /\ a.retxThresh \in Nat /\ a.sndBuf \in Nat /\ a.maxWin \in Nat
        /\ a.chainBytes \in Nat /\ a.queueLen \in Nat
    BY <1>1, Zenon DEF IsSetting
  <1>4. /\ a.algorithm \in {"NewReno", "Fixed"} /\ a.resizes \in Seq(Nat)
        /\ a.rcvBufSize \in [End -> Nat] /\ a.appBytes \in [End -> Nat]
    BY <1>1, Zenon DEF IsSetting
  <1>. HIDE DEF IsSetting
  <1>5. /\ SegSize \in Nat \ {0} /\ InitialCwnd \in Nat \ {0} /\ DelAckMax \in Nat \ {0}
        /\ Word \in Nat \ {0} /\ Chunk \in Nat \ {0}
    BY <1>1, <1>2, Zenon DEF Attributes, SegSize, InitialCwnd, DelAckMax, Word, Chunk
  <1>6. /\ InitialSsThresh \in Nat /\ SynRetries \in Nat /\ DataRetries \in Nat
        /\ RetxThresh \in Nat /\ SndBuf \in Nat /\ MaxWin \in Nat
        /\ ChainBytes \in Nat /\ QueueLen \in Nat
    BY <1>1, <1>3, Zenon DEF Attributes, InitialSsThresh, SynRetries, DataRetries, RetxThresh,
                             SndBuf, MaxWin, ChainBytes, QueueLen
  <1>7. /\ Algorithm \in {"NewReno", "Fixed"} /\ Resizes \in Seq(Nat)
        /\ RcvBufSize \in [End -> Nat] /\ AppBytes \in [End -> Nat]
    BY <1>1, <1>4, Zenon DEF Attributes, Algorithm, Resizes, RcvBufSize, AppBytes
  <1>. QED BY <1>5, <1>6, <1>7

LEMMA ConstantWindowFacts ==
    ASSUME Configured
    PROVE  ConstantWindow \in Nat /\ SegSize <= ConstantWindow /\ (InitialCwnd > 1 => ~ReducesWindow)
  <1>1. ASSUME NEW i \in Nat, i > 0, NEW g \in Nat, g > 0 PROVE i * g \in Nat /\ g <= i * g
    BY <1>1
  <1>2. InitialCwnd * SegSize \in Nat /\ SegSize <= InitialCwnd * SegSize
    BY <1>1, Configuration
  <1>3. InitialCwnd > 1 => ~(InitialCwnd <= 1)
    BY Configuration, SMTT(30)
  <1>. QED BY <1>2, <1>3, Zenon DEF ConstantWindow, ReducesWindow


LEMMA Powers == \A s \in 0..MaxShift : 2^s \in Nat /\ 2^s > 0
  <1>1. /\ 2^0 \in Nat /\ 2^0 > 0
        /\ 2^1 \in Nat /\ 2^1 > 0
        /\ 2^2 \in Nat /\ 2^2 > 0
        /\ 2^3 \in Nat /\ 2^3 > 0
        /\ 2^4 \in Nat /\ 2^4 > 0
        /\ 2^5 \in Nat /\ 2^5 > 0
        /\ 2^6 \in Nat /\ 2^6 > 0
        /\ 2^7 \in Nat /\ 2^7 > 0
        /\ 2^8 \in Nat /\ 2^8 > 0
        /\ 2^9 \in Nat /\ 2^9 > 0
        /\ 2^10 \in Nat /\ 2^10 > 0
        /\ 2^11 \in Nat /\ 2^11 > 0
        /\ 2^12 \in Nat /\ 2^12 > 0
        /\ 2^13 \in Nat /\ 2^13 > 0
        /\ 2^14 \in Nat /\ 2^14 > 0
    OBVIOUS
  <1>2. 0..MaxShift \subseteq {0, 1, 2, 3, 4, 5, 6, 7, 8, 9, 10, 11, 12, 13, 14}
    BY DEF MaxShift
  <1>. QED BY <1>1, <1>2, Zenon

LEMMA MinOfTwo ==
    ASSUME NEW m \in Int, NEW n \in Int
    PROVE  Min({m, n}) = IF m <= n THEN m ELSE n
  BY DEF Min

LEMMA LargerOfTwo ==
    ASSUME NEW m \in Int, NEW n \in Int
    PROVE  Larger(m, n) \in Int /\ Larger(m, n) >= m /\ Larger(m, n) >= n
           /\ Larger(m, n) \in {m, n}
  BY DEF Larger

(* An operation that touches neither the transmit buffer nor the windows. *)
Leaves(a, k, s) == Follows(a, k, s) /\ Keeps(k, s)

LEMMA LeavesAll ==
    ASSUME NEW a, NEW k, NEW s, NEW t, Leaves(a, k, s), Leaves(a, s, t)
    PROVE  Leaves(a, k, t)
  BY KeepsAll, Together, Zenon DEF Leaves

LEMMA LeavesSame ==
    ASSUME NEW a, NEW k, Sound(a, k)
    PROVE  Leaves(a, k, k)
  BY Stays DEF Leaves, Keeps

LEMMA LeavesSound ==
    ASSUME NEW a, NEW k, NEW s, Leaves(a, k, s)
    PROVE  Sound(a, s)
  BY Zenon DEF Leaves, Follows

LEMMA SilentLeaves ==
    ASSUME NEW a, NEW k, Sound(a, k), NEW s, Typed(s), Keeps(k, s), Silent(k, s)
    PROVE  Leaves(a, k, s)
  BY SilentFollows, Zenon DEF Leaves

-----------------------------------------------------------------------------

(* An assertion, and the end of a connection. *)
LEMMA NsAssertLeaves ==
    ASSUME NEW a, NEW k, Sound(a, k), NEW place, NEW holds
    PROVE  Leaves(a, k, NsAssert(k, place, holds))
  <1>1. PICK s : s = [k EXCEPT !.asserted = @ \cup {place}]
    OBVIOUS
  <1>2. Typed(s)
    BY <1>1 DEF Sound, Typed, Counts, Others, Fields
  <1>3. Keeps(k, s) /\ Silent(k, s)
    BY <1>1 DEF Sound, Typed, Fields, Keeps, Silent
  <1>4. NsAssert(k, place, holds) = k \/ NsAssert(k, place, holds) = s
    BY <1>1, Zenon DEF NsAssert
  <1>. QED BY <1>2, <1>3, <1>4, SilentLeaves, LeavesSame, Zenon

LEMMA UsesEndPointLeaves ==
    ASSUME NEW a, NEW k, Sound(a, k)
    PROVE  Leaves(a, k, UsesEndPoint(k))
  BY NsAssertLeaves, Zenon DEF UsesEndPoint

LEMMA DeallocateLeaves ==
    ASSUME NEW a, NEW k, Sound(a, k)
    PROVE  Leaves(a, k, DeallocateEndPoint(k)) /\ ~DeallocateEndPoint(k).endPoint
  <1>1. PICK s : s = [CancelAllTimers(k) EXCEPT !.endPoint = FALSE]
    OBVIOUS
  <1>2. Typed(s)
    BY <1>1 DEF Sound, Typed, Counts, Others, Fields, Timings, CancelAllTimers
  <1>3. Keeps(k, s)
    BY <1>1 DEF Sound, Typed, Fields, Keeps, CancelAllTimers
  <1>4. Silent(k, s) /\ ~s.endPoint
    BY <1>1 DEF Sound, Typed, Fields, Silent, CancelAllTimers
  <1>5. Leaves(a, k, s) /\ Leaves(a, k, k)
    BY <1>2, <1>3, <1>4, SilentLeaves, LeavesSame, Zenon
  <1>. QED BY <1>1, <1>4, <1>5, Zenon DEF DeallocateEndPoint

LEMMA CloseAndNotifyLeaves ==
    ASSUME NEW a, NEW k, Sound(a, k)
    PROVE  Leaves(a, k, CloseAndNotify(k)) /\ CloseAndNotify(k).state \notin Young
  <1>1. PICK s : s = [k EXCEPT !.closeNotified = TRUE, !.state = "CLOSED"]
    OBVIOUS
  <1>2. Typed(s)
    BY <1>1 DEF Sound, Typed, Counts, Others, Fields, ConnStates, Unconnected
  <1>3. Keeps(k, s) /\ s.state \notin Young
    BY <1>1 DEF Sound, Typed, Fields, Keeps, Young
  <1>4. Silent(k, s)
    BY <1>1 DEF Sound, Typed, Fields, Silent
  <1>5. Leaves(a, k, s)
    BY <1>2, <1>3, <1>4, SilentLeaves, Zenon
  <1>6. Leaves(a, s, DeallocateEndPoint(s))
    BY <1>5, LeavesSound, DeallocateLeaves, Zenon
  <1>7. DeallocateEndPoint(s).state \notin Young
    BY <1>3, <1>6, Zenon DEF Leaves, Follows
  <1>. QED BY <1>1, <1>5, <1>6, <1>7, LeavesAll, Zenon DEF CloseAndNotify

LEMMA NotifyErrorCloseLeaves ==
    ASSUME NEW a, NEW k, Sound(a, k)
    PROVE  Leaves(a, k, NotifyErrorClose(k))
  <1>1. Typed(NotifyErrorClose(k))
    BY DEF Sound, Typed, Counts, Others, Fields, NotifyErrorClose
  <1>2. Keeps(k, NotifyErrorClose(k)) /\ Silent(k, NotifyErrorClose(k))
    BY DEF Sound, Typed, Fields, Keeps, Silent, NotifyErrorClose
  <1>. QED BY <1>1, <1>2, SilentLeaves, Zenon

LEMMA TimeWaitLeaves ==
    ASSUME NEW a, NEW k, Sound(a, k)
    PROVE  Leaves(a, k, TimeWait(k))
  <1>1. PICK s : s = TimeWait(k)
    OBVIOUS
  <1>2. Typed(s)
    BY <1>1 DEF Sound, Typed, Counts, Others, Fields, Timings, TimeWait, CancelAllTimers,
                ConnStates, Unconnected
  <1>3. Keeps(k, s)
    BY <1>1 DEF Sound, Typed, Fields, Keeps, TimeWait, CancelAllTimers, Young
  <1>4. Silent(k, s)
    BY <1>1 DEF Sound, Typed, Fields, Silent, TimeWait, CancelAllTimers
  <1>. QED BY <1>1, <1>2, <1>3, <1>4, SilentLeaves, Zenon

-----------------------------------------------------------------------------
(* What a socket sends. *)
LEMMA LeastOf ==
    ASSUME NEW S, S \subseteq Nat, S # {}
    PROVE  Min(S) \in S /\ \A y \in S : Min(S) <= y
  <1>1. PICK m \in S : \A t \in S : ~ (<<t, m>> \in OpToRel(<, Nat))
    BY NatLessThanWellFounded, WFMin
  <1>2. ASSUME NEW y \in S PROVE m <= y
    <2>1. ~(y < m)
      BY <1>1, Zenon DEF OpToRel
    <2>. QED BY <2>1
  <1>. QED BY <1>2 DEF Min

LEMMA ShiftTyped ==
    ASSUME NEW k
    PROVE  CalculateWScale(k) \in 0..MaxShift
  <1>. DEFINE S == {s \in 0..MaxShift : k.rcvBuf \div 2^s <= MaxWin} \cup {MaxShift}
  <1>1. MaxShift \in 0..MaxShift /\ 0..MaxShift \subseteq Nat
    BY DEF MaxShift
  <1>2. S \subseteq Nat /\ S # {} /\ S \subseteq 0..MaxShift
    BY <1>1
  <1>. HIDE DEF S
  <1>3. Min(S) \in 0..MaxShift
    BY <1>2, LeastOf
  <1>. QED BY <1>3 DEF CalculateWScale, S

LEMMA WindowTyped ==
    ASSUME Configured, NEW k, Typed(k)
    PROVE  AdvertisedWindowSize(k) \in Nat
  <1>1. k.rcvBuf \in Nat /\ k.rcvShift \in 0..MaxShift
    BY Zenon DEF Typed, Counts
  <1>2. 2^k.rcvShift \in Nat /\ 2^k.rcvShift > 0 /\ MaxWin \in Nat
    BY <1>1, Powers, Configuration, Zenon
  <1>3. PICK d \in Nat : d = 2^k.rcvShift /\ d > 0
    BY <1>2
  <1>4. k.rcvBuf \div d \in Nat
    BY <1>1, <1>3
  <1>. QED BY <1>2, <1>3, <1>4, MinOfTwo DEF AdvertisedWindowSize

LEMMA SegmentTyped ==
    ASSUME Configured, NEW k, Typed(k), NEW flags \in SUBSET Flags, NEW seq \in Nat,
           NEW data \in Seq(Nat)
    PROVE  /\ Segment(k, flags, seq, data) \in Segments
           /\ Segment(k, flags, seq, data).flags = flags
           /\ Segment(k, flags, seq, data).data = data
  <1>1. k.nextRx \in Nat /\ AdvertisedWindowSize(k) \in Nat /\ k.rcvShift \in 0..MaxShift
    BY WindowTyped, Zenon DEF Typed, Counts
  <1>2. WScaleOption(k, flags) \in {NoOption} \cup 0..MaxShift
    BY <1>1, Zenon DEF WScaleOption
  <1>. QED BY <1>1, <1>2 DEF Segment, Segments

LEMMA EmptySegmentTyped ==
    ASSUME Configured, NEW k, Typed(k), NEW flags \in SUBSET Flags
    PROVE  /\ EmptySegment(k, flags) \in Segments
           /\ EmptySegment(k, flags).flags \in SUBSET Flags
           /\ ("SYN" \in EmptySegment(k, flags).flags) <=> ("SYN" \in flags)
           /\ flags # {"SYN"} => EmptySegment(k, flags).flags # {"SYN"}
  <1>1. k.nextTx \in Nat /\ k.nextTx + 1 \in Nat
    <2>1. k.nextTx \in Nat
      BY Zenon DEF Typed, Counts
    <2>. QED BY <2>1
  <1>2. PICK empty \in Seq(Nat) : empty = <<>>
    <2>1. <<>> \in Seq(Nat)
      OBVIOUS
    <2>. QED BY <2>1, Zenon
  <1>3. CASE "FIN" \in flags
    <2>1. EmptySegment(k, flags) = Segment(k, flags \cup {"ACK"}, k.nextTx, empty)
      BY <1>2, <1>3, Zenon DEF EmptySegment
    <2>2. /\ flags \cup {"ACK"} \in SUBSET Flags /\ flags \cup {"ACK"} # {"SYN"}
          /\ ("SYN" \in flags \cup {"ACK"}) <=> ("SYN" \in flags)
      <3>1. flags \cup {"ACK"} \in SUBSET Flags
        BY DEF Flags
      <3>2. "ACK" \in flags \cup {"ACK"} /\ "ACK" \notin {"SYN"}
        OBVIOUS
      <3>3. ("SYN" \in flags \cup {"ACK"}) <=> ("SYN" \in flags)
        OBVIOUS
      <3>. QED BY <3>1, <3>2, <3>3, Zenon
    <2>3. /\ EmptySegment(k, flags) \in Segments
          /\ EmptySegment(k, flags).flags = flags \cup {"ACK"}
      BY <1>1, <2>1, <2>2, SegmentTyped
    <2>. QED BY <2>2, <2>3, Zenon
  <1>4. CASE "FIN" \notin flags
    <2>1. PICK n \in Nat : EmptySegment(k, flags) = Segment(k, flags, n, empty)
      BY <1>1, <1>2, <1>4, Zenon DEF EmptySegment
    <2>2. EmptySegment(k, flags) \in Segments /\ EmptySegment(k, flags).flags = flags
      BY <2>1, SegmentTyped
    <2>. QED BY <2>2, Zenon
  <1>. QED BY <1>3, <1>4, Zenon

LEMMA Appended ==
    ASSUME NEW S, NEW out \in Seq(S), NEW e \in S
    PROVE  /\ Append(out, e) \in Seq(S) /\ Len(Append(out, e)) = Len(out) + 1
           /\ Append(out, e)[Len(out) + 1] = e
           /\ \A i \in 1..Len(out) : Append(out, e)[i] = out[i]
           /\ Last(Append(out, e)) = e
  BY DEF Last

(* One more segment is none with just a SYN. *)
LEMMA OneMoreSent ==
    ASSUME NEW out \in Seq(Segments), NEW seg \in Segments, seg.flags # {"SYN"},
           \A i \in 1..Len(out) : out[i].flags # {"SYN"}
    PROVE  \A i \in 1..Len(Append(out, seg)) : Append(out, seg)[i].flags # {"SYN"}
  <1>1. PICK new : new = Append(out, seg)
    OBVIOUS
  <1>2. /\ Len(out) \in Nat /\ Len(new) = Len(out) + 1 /\ new[Len(out) + 1] = seg
        /\ \A i \in 1..Len(out) : new[i] = out[i]
    BY <1>1
  <1>3. \A i \in 1..Len(new) : new[i].flags # {"SYN"}
    BY <1>2
  <1>. QED BY <1>1, <1>3, Zenon

LEMMA EmitLeaves ==
    ASSUME NEW a, NEW k, Sound(a, k), NEW seg \in Segments, seg.flags \in SUBSET Flags,
           "SYN" \in seg.flags => k.synCount # 0, a \/ seg.flags # {"SYN"}
    PROVE  Leaves(a, k, Emit(k, seg))
  <1>0. k.synCount \in Nat /\ k.delAckCount \in Nat
    BY DEF Sound, Typed, Counts
  <1>1. PICK out \in Seq(Segments) : out = Append(k.out, seg)
    BY Appended, Zenon DEF Sound, Typed, Others
  <1>2. PICK synCount \in Nat : synCount = IF "SYN" \in seg.flags THEN k.synCount - 1 ELSE k.synCount
    BY <1>0
  <1>3. PICK delAckCount \in Nat : delAckCount = IF "ACK" \in seg.flags THEN 0 ELSE k.delAckCount
    BY <1>0
  <1>4. PICK delAck : delAck = (k.delAck /\ "ACK" \notin seg.flags)
    OBVIOUS
  <1>5. PICK retx \in Timings :
           retx = IF k.retx = {} /\ seg.flags \cap {"SYN", "FIN"} # {} THEN seg.flags ELSE k.retx
    BY DEF Sound, Typed, Others, Timings
  <1>6. PICK s : s = [k EXCEPT !.out = out, !.synCount = synCount, !.delAck = delAck,
                               !.delAckCount = delAckCount, !.retx = retx]
    OBVIOUS
  <1>7. Emit(k, seg) = s
    BY <1>1, <1>2, <1>3, <1>4, <1>5, <1>6, Zenon DEF Emit
  <1>8. Typed(s) /\ s.out = out /\ s.retx = retx
    BY <1>6 DEF Sound, Typed, Counts, Others, Fields
  <1>9. Keeps(k, s)
    BY <1>6 DEF Sound, Typed, Fields, Keeps
  <1>10. a \/ Answering(s)
    <2>1. SUFFICES ASSUME Answering(k), seg.flags # {"SYN"} PROVE Answering(s)
      BY DEF Sound
    <2>2. \A i \in 1..Len(out) : out[i].flags # {"SYN"}
      BY <1>1, <2>1, OneMoreSent, Zenon DEF Answering, Sound, Typed, Others
    <2>3. retx # {"SYN"}
      BY <1>5, <2>1, Zenon DEF Answering
    <2>4. s.state = k.state \/ s.state \notin Young
      BY <1>9 DEF Keeps
    <2>. QED BY <1>8, <2>1, <2>2, <2>3, <2>4 DEF Answering, Young
  <1>11. Kept(s) /\ (k.state \notin Young => s.state \notin Young) /\ (Behind(k) => Behind(s))
    BY <1>9, KeptByAll DEF Sound
  <1>. QED BY <1>7, <1>8, <1>9, <1>10, <1>11, Zenon DEF Leaves, Follows, Sound

LEMMA AddOptionsLeaves ==
    ASSUME NEW a, NEW k, Sound(a, k), NEW flags
    PROVE  Leaves(a, k, AddOptions(k, flags)) /\ AddOptions(k, flags).synCount = k.synCount
  <1>1. PICK shift \in 0..MaxShift : shift = CalculateWScale(k)
    BY ShiftTyped
  <1>2. PICK s : s = [k EXCEPT !.rcvShift = shift]
    OBVIOUS
  <1>3. Typed(s)
    BY <1>2 DEF Sound, Typed, Counts, Others, Fields
  <1>4. Keeps(k, s) /\ Silent(k, s) /\ s.synCount = k.synCount
    BY <1>2 DEF Sound, Typed, Fields, Keeps, Silent
  <1>5. AddOptions(k, flags) = k \/ AddOptions(k, flags) = s
    BY <1>1, <1>2, Zenon DEF AddOptions, AddOptionWScale
  <1>6. Leaves(a, k, s) /\ Leaves(a, k, k)
    BY <1>3, <1>4, SilentLeaves, LeavesSame, Zenon
  <1>. QED BY <1>4, <1>5, <1>6, Zenon

LEMMA SendEmptyPacketLeaves ==
    ASSUME Configured, NEW a, NEW k, Sound(a, k), NEW flags \in SUBSET Flags, a \/ flags # {"SYN"}
    PROVE  Leaves(a, k, SendEmptyPacket(k, flags))
  <1>1. CASE ~k.endPoint
    BY <1>1, LeavesSame, Zenon DEF SendEmptyPacket
  <1>2. CASE k.endPoint /\ "SYN" \in flags /\ k.synCount = 0
    BY <1>2, CloseAndNotifyLeaves, Zenon DEF SendEmptyPacket
  <1>3. CASE k.endPoint /\ ~("SYN" \in flags /\ k.synCount = 0)
    <2>1. PICK s : s = AddOptions(k, flags) /\ Leaves(a, k, s) /\ s.synCount = k.synCount
      BY AddOptionsLeaves, Zenon
    <2>2. Sound(a, s)
      BY <2>1, LeavesSound, Zenon
    <2>3. PICK seg \in Segments : /\ seg = EmptySegment(s, flags)
                                  /\ seg.flags \in SUBSET Flags
                                  /\ ("SYN" \in seg.flags) <=> ("SYN" \in flags)
                                  /\ flags # {"SYN"} => seg.flags # {"SYN"}
      <3>1. Typed(s)
        BY <2>2, Zenon DEF Sound
      <3>. QED BY <3>1, EmptySegmentTyped, Zenon
    <2>4. Leaves(a, s, Emit(s, seg))
      BY <1>3, <2>1, <2>2, <2>3, EmitLeaves, Zenon
    <2>5. SendEmptyPacket(k, flags) = Emit(s, seg)
      BY <1>3, <2>1, <2>3, Zenon DEF SendEmptyPacket, EmitEmpty
    <2>. QED BY <2>1, <2>4, <2>5, LeavesAll, Zenon
  <1>. QED BY <1>1, <1>2, <1>3, Zenon

LEMMA SendRSTLeaves ==
    ASSUME Configured, NEW a, NEW k, Sound(a, k)
    PROVE  Leaves(a, k, SendRST(k)) /\ ~SendRST(k).endPoint
  <1>1. {"RST"} \in SUBSET Flags /\ {"RST"} # {"SYN"}
    BY DEF Flags
  <1>2. PICK s : s = SendEmptyPacket(k, {"RST"}) /\ Leaves(a, k, s)
    BY <1>1, SendEmptyPacketLeaves, Zenon
  <1>3. PICK t : t = NotifyErrorClose(s) /\ Leaves(a, s, t)
    BY <1>2, LeavesSound, NotifyErrorCloseLeaves, Zenon
  <1>4. Leaves(a, t, DeallocateEndPoint(t)) /\ ~DeallocateEndPoint(t).endPoint
    BY <1>3, LeavesSound, DeallocateLeaves, Zenon
  <1>. QED BY <1>2, <1>3, <1>4, LeavesAll, Zenon DEF SendRST

(* The segments without data that are sent. *)
LEMMA Acknowledges ==
    ASSUME Configured, NEW a, NEW k, Sound(a, k)
    PROVE  /\ Leaves(a, k, SendEmptyPacket(k, {"ACK"}))
           /\ Leaves(a, k, SendEmptyPacket(k, {"FIN"}))
           /\ Leaves(a, k, SendEmptyPacket(k, {"FIN", "ACK"}))
           /\ Leaves(a, k, SendEmptyPacket(k, {"SYN", "ACK"}))
  <1>1. /\ {"ACK"} \in SUBSET Flags /\ {"ACK"} # {"SYN"}
        /\ {"FIN"} \in SUBSET Flags /\ {"FIN"} # {"SYN"}
        /\ {"FIN", "ACK"} \in SUBSET Flags /\ {"FIN", "ACK"} # {"SYN"}
        /\ {"SYN", "ACK"} \in SUBSET Flags /\ {"SYN", "ACK"} # {"SYN"}
    BY DEF Flags
  <1>. QED BY <1>1, SendEmptyPacketLeaves, Zenon

(* A socket that changed what it has sent or how much it may send. *)
LEMMA FollowsBy ==
    ASSUME NEW a, NEW k, Sound(a, k), NEW s, Typed(s), Kept(s), Silent(k, s),
           s.state = k.state \/ s.state \notin Young, Behind(k) => Behind(s)
    PROVE  Follows(a, k, s)
  <1>1. Answering(k) => Answering(s)
    BY DEF Answering, Silent, Young
  <1>. QED BY <1>1 DEF Follows, Sound

LEMMA FollowsSound ==
    ASSUME NEW a, NEW k, NEW s, Follows(a, k, s)
    PROVE  /\ Sound(a, s) /\ Typed(s) /\ Kept(s)
           /\ (k.state \notin Young => s.state \notin Young) /\ (Behind(k) => Behind(s))
  BY Zenon DEF Follows, Sound

LEMMA LeavesFollows ==
    ASSUME NEW a, NEW k, NEW s, Leaves(a, k, s)
    PROVE  Follows(a, k, s) /\ Keeps(k, s) /\ Sound(a, s) /\ Typed(s)
  BY Zenon DEF Leaves, Follows, Sound

(* The numbers of a socket. *)
LEMMA Numbers ==
    ASSUME NEW k, Typed(k)
    PROVE  /\ k.head \in Nat /\ k.nextTx \in Nat /\ k.highTxMark \in Nat /\ k.recover \in Nat
           /\ k.cWnd \in Nat /\ k.rWnd \in Nat /\ k.retransOut \in Nat /\ k.dupAckCount \in Nat
           /\ k.dataRetrCount \in Nat /\ k.written \in Nat /\ k.left \in Nat /\ k.nextRx \in Nat
           /\ k.ssThresh \in Nat
           /\ k.tx \in Seq(Nat) /\ Len(k.tx) \in Nat /\ TailSequence(k) \in Nat
           /\ TailSequence(k) = k.head + Len(k.tx)
  <1>1. /\ k.head \in Nat /\ k.nextTx \in Nat /\ k.highTxMark \in Nat /\ k.recover \in Nat
        /\ k.cWnd \in Nat /\ k.rWnd \in Nat /\ k.retransOut \in Nat /\ k.dupAckCount \in Nat
        /\ k.dataRetrCount \in Nat /\ k.written \in Nat /\ k.left \in Nat /\ k.nextRx \in Nat
        /\ k.ssThresh \in Nat
    BY Zenon DEF Typed, Counts
  <1>2. k.tx \in Seq(Nat)
    BY Zenon DEF Typed, Others
  <1>3. Len(k.tx) \in Nat
    BY <1>2
  <1>4. k.head + Len(k.tx) \in Nat
    BY <1>1, <1>3, SMTT(30)
  <1>. QED BY <1>1, <1>2, <1>3, <1>4, Zenon DEF TailSequence

LEMMA Copied ==
    ASSUME NEW tx \in Seq(Nat), NEW i \in Nat, NEW n \in Nat, i + n <= Len(tx)
    PROVE  SubSeq(tx, i + 1, i + n) \in Seq(Nat) /\ Len(SubSeq(tx, i + 1, i + n)) = n
  OBVIOUS

(* Data from seq on was sent: it is marked as sent. *)
Transmits(k, s, seq) ==
    /\ s.head = k.head /\ s.nextTx = k.nextTx /\ s.tx = k.tx
    /\ Len(Last(s.out).data) \in Nat /\ seq + Len(Last(s.out).data) <= s.highTxMark

LEMMA EmitDataFollows ==
    ASSUME NEW a, NEW k, Sound(a, k), k.state \notin Young,
           NEW seg \in Segments, seg.flags # {"SYN"},
           NEW past \in Nat, past <= TailSequence(k),
           Algorithm = "Fixed" /\ Careful => past <= k.head + ConstantWindow,
           NEW fin, NEW withAck, NEW sent, sent = EmitData(k, seg, past, fin, withAck)
    PROVE  /\ Follows(a, k, sent)
           /\ sent.head = k.head /\ sent.nextTx = k.nextTx /\ sent.tx = k.tx
           /\ Last(sent.out) = seg /\ past <= sent.highTxMark
  <1>0. Typed(k) /\ Kept(k)
    BY Zenon DEF Sound
  <1>1. PICK out \in Seq(Segments) : out = Append(k.out, seg) /\ Last(out) = seg
    <2>1. k.out \in Seq(Segments)
      BY <1>0, Zenon DEF Typed, Others
    <2>2. Append(k.out, seg) \in Seq(Segments) /\ Last(Append(k.out, seg)) = seg
      BY <2>1, Appended
    <2>. QED BY <2>2, Zenon
  <1>2. PICK state \in ConnStates : /\ state \notin Young
                                    /\ state = CASE fin /\ k.state = "ESTABLISHED" -> "FIN_WAIT_1"
                                                 [] fin /\ k.state = "CLOSE_WAIT" -> "LAST_ACK"
                                                 [] OTHER -> k.state
                                    /\ state = "ESTABLISHED" => k.state = "ESTABLISHED"
    <2>1. k.state \in ConnStates
      BY <1>0, Zenon DEF Typed, Others
    <2>. QED BY <2>1 DEF Young, ConnStates, Unconnected
  <1>3. PICK delAckCount \in Nat : delAckCount = IF withAck THEN 0 ELSE k.delAckCount
    BY <1>0 DEF Typed, Counts
  <1>4. PICK delAck : delAck = (k.delAck /\ ~withAck)
    OBVIOUS
  <1>5. PICK retx \in Timings : retx = IF k.retx = {} THEN {"DATA"} ELSE k.retx
    BY <1>0 DEF Typed, Others, Timings
  <1>6. PICK mark \in Nat : /\ mark = Larger(k.highTxMark, past)
                            /\ mark >= past /\ mark >= k.highTxMark /\ mark \in {k.highTxMark, past}
    <2>1. k.highTxMark \in Nat
      BY <1>0, Numbers, Zenon
    <2>2. /\ Larger(k.highTxMark, past) \in Nat /\ Larger(k.highTxMark, past) >= past
          /\ Larger(k.highTxMark, past) >= k.highTxMark
          /\ Larger(k.highTxMark, past) \in {k.highTxMark, past}
      BY <2>1 DEF Larger
    <2>. QED BY <2>2, Zenon
  <1>7. PICK s : s = [k EXCEPT !.out = out, !.state = state, !.delAck = delAck,
                               !.delAckCount = delAckCount, !.retx = retx, !.highTxMark = mark]
    OBVIOUS
  <1>8. EmitData(k, seg, past, fin, withAck) = s
    BY <1>1, <1>2, <1>3, <1>4, <1>5, <1>6, <1>7, Zenon DEF EmitData
  <1>9. Typed(s) /\ s.out = out /\ s.retx = retx /\ s.state = state /\ s.highTxMark = mark
    BY <1>0, <1>7 DEF Typed, Counts, Others, Fields
  <1>10. /\ s.head = k.head /\ s.nextTx = k.nextTx /\ s.tx = k.tx
         /\ s.recover = k.recover /\ s.congState = k.congState /\ s.cWnd = k.cWnd
         /\ s.rWnd = k.rWnd /\ s.endPoint = k.endPoint /\ s.persist = k.persist
    BY <1>0, <1>7 DEF Typed, Fields
  <1>11. Kept(s)
    <2>1. SentIsHeld(s)
      BY <1>0, <1>6, <1>9, <1>10, Numbers, LargerOfTwo, SMTT(30) DEF Kept, SentIsHeld, TailSequence, Larger
    <2>2. LossIsMarked(s)
      BY <1>0, <1>6, <1>9, <1>10, Numbers, SMTT(30) DEF Kept, LossIsMarked
    <2>3. NothingSent(s)
      BY <1>2, <1>9 DEF NothingSent
    <2>4. ZeroIsProbed(s)
      BY <1>0, <1>2, <1>9, <1>10 DEF Kept, ZeroIsProbed
    <2>5. WindowIsFixed(s)
      BY <1>0, <1>6, <1>9, <1>10 DEF Kept, WindowIsFixed
    <2>. QED BY <2>1, <2>2, <2>3, <2>4, <2>5, Zenon DEF Kept
  <1>12. a \/ Answering(s)
    <2>1. SUFFICES ASSUME Answering(k) PROVE Answering(s)
      BY DEF Sound
    <2>2. \A i \in 1..Len(out) : out[i].flags # {"SYN"}
      BY <1>0, <1>1, <2>1, OneMoreSent, Zenon DEF Answering, Typed, Others
    <2>. QED BY <1>2, <1>5, <1>9, <2>1, <2>2 DEF Answering, Young
  <1>13. Follows(a, k, s)
    <2>1. Behind(k) => Behind(s)
      BY <1>10 DEF Behind
    <2>. QED BY <1>2, <1>9, <1>11, <1>12, <2>1, Zenon DEF Follows, Sound
  <1>14. sent = s
    BY <1>8, Zenon
  <1>. QED BY <1>1, <1>6, <1>9, <1>10, <1>13, <1>14, Zenon

LEMMA SendDataPacketFollows ==
    ASSUME Configured, NEW a, NEW k, Sound(a, k), k.state \notin Young,
           NEW seq \in Nat, k.head <= seq, seq <= TailSequence(k), NEW maxSize \in Nat,
           Algorithm = "Fixed" /\ Careful => seq + maxSize <= k.head + ConstantWindow,
           NEW withAck
    PROVE  /\ Follows(a, k, SendDataPacket(k, seq, maxSize, withAck))
           /\ Transmits(k, SendDataPacket(k, seq, maxSize, withAck), seq)
  <1>0. Typed(k)
    BY Zenon DEF Sound
  <1>1. PICK size \in Nat : /\ size = Min({maxSize, SizeFromSequence(k, seq)})
                            /\ size <= maxSize /\ seq + size <= TailSequence(k)
    <2>1. TailSequence(k) \in Nat /\ TailSequence(k) - seq \in Nat
      BY <1>0, Numbers
    <2>. QED BY <2>1, MinOfTwo DEF SizeFromSequence
  <1>2. PICK data \in Seq(Nat) : data = CopyFromSequence(k, size, seq) /\ Len(data) = size
    <2>1. PICK i \in Nat : i = seq - k.head /\ i + size <= Len(k.tx)
      BY <1>0, <1>1, Numbers, SMTT(30)
    <2>2. k.tx \in Seq(Nat)
      BY <1>0, Numbers, Zenon
    <2>. QED BY <2>1, <2>2, Copied, ZenonT(40) DEF CopyFromSequence
  <1>3. PICK fin : fin = FinWith(seq + size, k)
    OBVIOUS
  <1>4. PICK flags \in SUBSET Flags :
           /\ flags = (IF withAck THEN {"ACK"} ELSE {}) \cup (IF fin THEN {"FIN"} ELSE {})
           /\ flags # {"SYN"}
    <2>1. PICK f : f = (IF withAck THEN {"ACK"} ELSE {}) \cup (IF fin THEN {"FIN"} ELSE {})
      OBVIOUS
    <2>2. f \in SUBSET Flags
      BY <2>1 DEF Flags
    <2>3. "SYN" \notin f
      BY <2>1
    <2>4. f # {"SYN"}
      BY <2>3
    <2>. QED BY <2>1, <2>2, <2>4, Zenon
  <1>5. PICK seg \in Segments : /\ seg = Segment(k, flags, seq, data)
                                /\ seg.flags = flags /\ seg.data = data
    BY <1>0, SegmentTyped
  <1>6. PICK past \in Nat : past = seq + size
    OBVIOUS
  <1>7. PICK u : /\ u = UsesEndPoint(k) /\ Follows(a, k, u)
                 /\ u.head = k.head /\ u.nextTx = k.nextTx /\ u.tx = k.tx
    BY UsesEndPointLeaves, Zenon DEF Leaves, Keeps
  <1>8. PICK s : /\ s = EmitData(u, seg, past, fin, withAck)
                 /\ s = SendDataPacket(k, seq, maxSize, withAck)
    BY <1>1, <1>2, <1>3, <1>4, <1>5, <1>6, <1>7, Zenon DEF SendDataPacket
  <1>9. past <= TailSequence(u) /\ (Algorithm = "Fixed" /\ Careful => past <= u.head + ConstantWindow)
    <2>1. past <= TailSequence(k)
      BY <1>1, <1>6, Zenon
    <2>2. Algorithm = "Fixed" /\ Careful => past <= k.head + ConstantWindow
      BY <1>0, <1>1, <1>6, Numbers, ConstantWindowFacts
    <2>. QED BY <1>7, <2>1, <2>2, Zenon DEF TailSequence
  <1>10. /\ Follows(a, k, s) /\ s.head = k.head /\ s.nextTx = k.nextTx /\ s.tx = k.tx
         /\ Last(s.out) = seg /\ past <= s.highTxMark
    <2>1. seg.flags # {"SYN"}
      BY <1>4, <1>5, Zenon
    <2>2. Sound(a, u) /\ u.state \notin Young
      BY <1>7, Zenon DEF Follows
    <2>3. s = EmitData(u, seg, past, fin, withAck)
      BY <1>8, Zenon
    <2>4. past <= TailSequence(u)
      BY <1>9, Zenon
    <2>5. Algorithm = "Fixed" /\ Careful => past <= u.head + ConstantWindow
      BY <1>9, Zenon
    <2>6. /\ Follows(a, u, s) /\ s.head = u.head /\ s.nextTx = u.nextTx /\ s.tx = u.tx
          /\ Last(s.out) = seg /\ past <= s.highTxMark
      BY <2>1, <2>2, <2>3, <2>4, <2>5, EmitDataFollows, SMTT(30)
    <2>. QED BY <1>7, <2>6, Together, Zenon
  <1>11. Transmits(k, s, seq)
    BY <1>2, <1>5, <1>6, <1>10 DEF Transmits
  <1>. QED BY <1>8, <1>10, <1>11, Zenon

(* m_nextTxSequence moves on over what was sent, and maybe a counter.      *)
Moved(k, s, next, count) == s = [k EXCEPT !.nextTx = next, !.retransOut = count]

LEMMA MovesOn ==
    ASSUME NEW a, NEW k, Sound(a, k), k.state \notin Young,
           NEW next \in Nat, next <= Larger(k.head, k.highTxMark), NEW count \in Nat,
           Behind(k) => k.head <= next,
           NEW s, Moved(k, s, next, count)
    PROVE  Follows(a, k, s) /\ s.nextTx = next
  <1>0. Typed(k) /\ Kept(k)
    BY Zenon DEF Sound
  <1>1. Typed(s)
    BY <1>0 DEF Typed, Counts, Others, Fields, Moved
  <1>2. /\ s.head = k.head /\ s.nextTx = next /\ s.highTxMark = k.highTxMark /\ s.tx = k.tx
        /\ s.recover = k.recover /\ s.congState = k.congState /\ s.cWnd = k.cWnd /\ s.rWnd = k.rWnd
        /\ s.endPoint = k.endPoint /\ s.persist = k.persist /\ s.state = k.state
    BY <1>0 DEF Typed, Fields, Moved
  <1>3. Silent(k, s)
    BY <1>0 DEF Typed, Fields, Silent, Moved
  <1>4. Kept(s)
    <2>1. SentIsHeld(s)
      BY <1>0, <1>2, Numbers DEF Kept, SentIsHeld, TailSequence, Larger
    <2>2. LossIsMarked(s) /\ NothingSent(s) /\ ZeroIsProbed(s) /\ WindowIsFixed(s)
      BY <1>0, <1>2, Zenon DEF Kept, LossIsMarked, NothingSent, ZeroIsProbed, WindowIsFixed
    <2>. QED BY <2>1, <2>2, Zenon DEF Kept
  <1>5. Behind(k) => Behind(s)
    BY <1>2 DEF Behind
  <1>. QED BY <1>1, <1>2, <1>3, <1>4, <1>5, FollowsBy, Zenon

LEMMA AdvanceFollows ==
    ASSUME NEW a, NEW k, k.state \notin Young, NEW s, Follows(a, k, s), Transmits(k, s, k.nextTx),
           Typed(k)
    PROVE  Follows(a, k, Advance(s))
  <1>1. /\ Sound(a, s) /\ Typed(s) /\ s.state \notin Young
        /\ s.nextTx \in Nat /\ s.highTxMark \in Nat /\ s.retransOut \in Nat /\ s.head \in Nat
    BY FollowsSound, Numbers, Zenon
  <1>2. PICK sent \in Nat : sent = Len(Last(s.out).data) /\ s.nextTx + sent <= s.highTxMark
    BY Zenon DEF Transmits
  <1>3. PICK next \in Nat : /\ next = s.nextTx + sent /\ next <= Larger(s.head, s.highTxMark)
                            /\ Behind(s) => s.head <= next
    BY <1>1, <1>2 DEF Larger, Behind
  <1>4. PICK count \in Nat : count = s.retransOut
    BY <1>1, Zenon
  <1>5. PICK t : Moved(s, t, next, count)
    BY DEF Moved
  <1>6. Follows(a, s, t)
    BY <1>1, <1>3, <1>5, MovesOn, Zenon
  <1>7. Advance(s) = t
    <2>1. [s EXCEPT !.nextTx = next] = t
      BY <1>1, <1>4, <1>5 DEF Typed, Fields, Moved
    <2>. QED BY <1>2, <1>3, <2>1, Zenon DEF Advance
  <1>. QED BY <1>6, <1>7, Together, Zenon

-----------------------------------------------------------------------------
(* Sending as much as the windows allow. *)
LEMMA AvailableFits ==
    ASSUME Configured, NEW k, Typed(k), Kept(k), Behind(k)
    PROVE  /\ AvailableWindow(k) \in Nat
           /\ Algorithm = "Fixed" /\ Careful =>
                k.nextTx + AvailableWindow(k) <= k.head + ConstantWindow
  <1>1. /\ k.rWnd \in Nat /\ k.cWnd \in Nat /\ k.nextTx \in Nat /\ k.head \in Nat
        /\ k.highTxMark \in Nat /\ ConstantWindow \in Nat
    BY Numbers, ConstantWindowFacts, Zenon
  <1>2. PICK least \in Nat : least = Min({k.rWnd, k.cWnd}) /\ least <= k.cWnd
    BY <1>1, MinOfTwo
  <1>3. AvailableWindow(k) = Larger(0, least - (k.nextTx - k.head))
    BY <1>2, Zenon DEF AvailableWindow, UnAckDataCount
  <1>4. AvailableWindow(k) \in Nat
    BY <1>1, <1>2, <1>3 DEF Larger
  <1>5. ASSUME Algorithm = "Fixed", Careful
        PROVE  k.nextTx + AvailableWindow(k) <= k.head + ConstantWindow
    <2>1. k.cWnd <= ConstantWindow /\ k.highTxMark <= k.head + ConstantWindow
      BY <1>5, Zenon DEF Kept, WindowIsFixed
    <2>2. k.nextTx <= k.head + ConstantWindow
      BY <1>1, <2>1 DEF Kept, SentIsHeld, Larger
    <2>. QED BY <1>1, <1>2, <1>3, <2>1, <2>2 DEF Larger
  <1>. QED BY <1>4, <1>5

LEMMA SendNextFollows ==
    ASSUME Configured, NEW a, NEW k, Sound(a, k), Behind(k), k.state \notin Young, NEW withAck
    PROVE  Follows(a, k, SendNext(k, withAck))
  <1>1. Typed(k) /\ Kept(k)
    BY Zenon DEF Sound
  <1>2. /\ k.nextTx \in Nat /\ k.head \in Nat /\ k.head <= k.nextTx /\ k.nextTx <= TailSequence(k)
        /\ SegSize \in Nat /\ ConstantWindow \in Nat
    BY <1>1, Numbers, Configuration, ConstantWindowFacts, Zenon DEF Behind, Kept, SentIsHeld
  <1>3. PICK w \in Nat : /\ w = AvailableWindow(k)
                         /\ Algorithm = "Fixed" /\ Careful => k.nextTx + w <= k.head + ConstantWindow
    BY <1>1, AvailableFits, Zenon
  <1>4. PICK size \in Nat : size = Min({w, SegSize}) /\ size <= w
    BY <1>2, <1>3, MinOfTwo
  <1>5. Algorithm = "Fixed" /\ Careful => k.nextTx + size <= k.head + ConstantWindow
    BY <1>2, <1>3, <1>4
  <1>6. PICK s : /\ s = SendDataPacket(k, k.nextTx, size, withAck)
                 /\ Follows(a, k, s) /\ Transmits(k, s, k.nextTx)
    BY <1>2, <1>5, SendDataPacketFollows, Zenon
  <1>7. Follows(a, k, Advance(s))
    BY <1>1, <1>6, AdvanceFollows, Zenon
  <1>. QED BY <1>3, <1>4, <1>6, <1>7, Zenon DEF SendNext

(* Before the handshake is done there is no window to send in. *)
LEMMA YoungWaits ==
    ASSUME Configured, NEW k, Typed(k), Kept(k), k.state \in Young, k.tx # <<>>
    PROVE  MustWait(k)
  <1>1. k.cWnd = 0 /\ k.nextTx = k.head
    BY Zenon DEF Kept, NothingSent
  <1>2. /\ k.rWnd \in Nat /\ k.nextTx \in Nat /\ k.head \in Nat /\ Len(k.tx) \in Nat
        /\ SegSize \in Nat /\ SegSize > 0 /\ k.tx \in Seq(Nat)
    BY Numbers, Configuration, Zenon
  <1>3. Len(k.tx) # 0
    BY <1>2
  <1>4. PICK least \in Nat : least = Min({k.rWnd, k.cWnd}) /\ least = 0
    BY <1>1, <1>2, MinOfTwo
  <1>5. AvailableWindow(k) = 0
    BY <1>1, <1>2, <1>4 DEF AvailableWindow, UnAckDataCount, Larger
  <1>6. SizeFromSequence(k, k.nextTx) > 0
    BY <1>1, <1>2, <1>3 DEF SizeFromSequence, TailSequence
  <1>. QED BY <1>2, <1>5, <1>6 DEF MustWait

LEMMA SendIfAnyFollows ==
    ASSUME Configured, NEW a, NEW k, Sound(a, k), Behind(k), NEW withAck
    PROVE  Follows(a, k, SendIfAny(k, withAck))
  <1>1. CASE SizeFromSequence(k, k.nextTx) = 0 \/ MustWait(k)
    BY <1>1, Stays, Zenon DEF SendIfAny
  <1>2. CASE ~(SizeFromSequence(k, k.nextTx) = 0 \/ MustWait(k))
    <2>1. Typed(k) /\ Kept(k)
      BY Zenon DEF Sound
    <2>2. k.state \notin Young
      <3>1. SUFFICES ASSUME k.state \in Young PROVE k.tx # <<>>
        BY <1>2, <2>1, YoungWaits, Zenon
      <3>2. SUFFICES ASSUME k.tx = <<>> PROVE SizeFromSequence(k, k.nextTx) = 0
        BY <1>2, Zenon
      <3>3. k.nextTx = k.head /\ k.head \in Nat
        BY <2>1, <3>1, Numbers, Zenon DEF Kept, NothingSent
      <3>4. Len(k.tx) = 0
        BY <3>2
      <3>. QED BY <3>3, <3>4 DEF SizeFromSequence, TailSequence
    <2>3. Follows(a, k, SendNext(k, withAck))
      BY <2>2, SendNextFollows, Zenon
    <2>. QED BY <1>2, <2>3, Zenon DEF SendIfAny
  <1>. QED BY <1>1, <1>2, Zenon

(* The recursive function of SendPendingData, up to the n-th byte. *)
Rounds(f, k, withAck, n) ==
    f = [i \in 0..n |-> IF i = 0 THEN k ELSE SendIfAny(f[i - 1], withAck)]

LEMMA RoundsAt ==
    ASSUME NEW f, NEW k, NEW withAck, NEW n \in Nat, Rounds(f, k, withAck, n), NEW i \in 0..n
    PROVE  f[i] = IF i = 0 THEN k ELSE SendIfAny(f[i - 1], withAck)
  <1>1. [j \in 0..n |-> IF j = 0 THEN k ELSE SendIfAny(f[j - 1], withAck)][i]
        = IF i = 0 THEN k ELSE SendIfAny(f[i - 1], withAck)
    OBVIOUS
  <1>. QED BY <1>1, Zenon DEF Rounds

LEMMA RoundsExist ==
    ASSUME NEW k, NEW withAck, NEW n \in Nat
    PROVE  \E f : Rounds(f, k, withAck, n)
  <1>. DEFINE S == {m \in Nat : \E f : Rounds(f, k, withAck, m)}
  <1>1. 0 \in S
    <2>. DEFINE f == [i \in 0..0 |-> k]
    <2>1. f = [i \in 0..0 |-> IF i = 0 THEN k ELSE SendIfAny(f[i - 1], withAck)]
      OBVIOUS
    <2>. QED BY <2>1 DEF Rounds
  <1>2. ASSUME NEW m \in Nat, m \in S PROVE m + 1 \in S
    <2>1. PICK f : Rounds(f, k, withAck, m)
      BY <1>2
    <2>. DEFINE h == [i \in 0..m + 1 |-> IF i <= m THEN f[i] ELSE SendIfAny(f[m], withAck)]
    <2>2. ASSUME NEW i \in 0..m + 1
          PROVE  h[i] = IF i = 0 THEN k ELSE SendIfAny(h[i - 1], withAck)
      <3>1. CASE i <= m
        <4>1. h[i] = f[i] /\ i \in 0..m /\ (i # 0 => h[i - 1] = f[i - 1])
          BY <3>1
        <4>2. f[i] = IF i = 0 THEN k ELSE SendIfAny(f[i - 1], withAck)
          BY <2>1, <4>1, RoundsAt
        <4>. QED BY <4>1, <4>2, Zenon
      <3>2. CASE ~(i <= m)
        <4>1. i # 0 /\ i - 1 = m /\ h[i] = SendIfAny(f[m], withAck) /\ h[m] = f[m]
          BY <3>2
        <4>. QED BY <4>1, Zenon
      <3>. QED BY <3>1, <3>2, Zenon
    <2>3. h = [i \in 0..m + 1 |-> IF i = 0 THEN k ELSE SendIfAny(h[i - 1], withAck)]
      <3>1. h = [i \in 0..m + 1 |-> h[i]]
        OBVIOUS
      <3>. HIDE DEF h
      <3>. QED BY <2>2, <3>1
    <2>4. Rounds(h, k, withAck, m + 1)
      BY <2>3, Zenon DEF Rounds
    <2>. HIDE DEF h
    <2>. QED BY <2>4
  <1>. HIDE DEF S
  <1>3. Nat \subseteq S
    BY <1>1, <1>2, SetInduction, Zenon
  <1>. QED BY <1>3, Zenon DEF S

LEMMA SendPendingDataFollows ==
    ASSUME Configured, NEW a, NEW k, Sound(a, k), Behind(k), NEW withAck
    PROVE  Follows(a, k, SendPendingData(k, withAck))
  <1>1. CASE k.tx = <<>> \/ ~k.endPoint
    BY <1>1, Stays, Zenon DEF SendPendingData
  <1>2. CASE ~(k.tx = <<>> \/ ~k.endPoint)
    <2>1. PICK n \in Nat : n = Len(k.tx)
      BY Numbers, Zenon DEF Sound
    <2>2. PICK f : Rounds(f, k, withAck, n) /\ SendPendingData(k, withAck) = f[n]
      <3>1. \E f : Rounds(f, k, withAck, n)
        BY RoundsExist, Zenon
      <3>. QED BY <1>2, <2>1, <3>1, Zenon DEF SendPendingData, Rounds
    <2>. DEFINE S == {i \in Nat : i <= n => Follows(a, k, f[i])}
    <2>3. 0 \in S
      <3>1. f[0] = k
        BY <2>2, RoundsAt
      <3>. QED BY <3>1, Stays
    <2>4. ASSUME NEW i \in Nat, i \in S PROVE i + 1 \in S
      <3>1. SUFFICES ASSUME i + 1 <= n PROVE Follows(a, k, f[i + 1])
        OBVIOUS
      <3>2. Follows(a, k, f[i])
        BY <2>4, <3>1
      <3>3. f[i + 1] = SendIfAny(f[i], withAck)
        <4>1. i + 1 \in 0..n /\ i + 1 # 0 /\ (i + 1) - 1 = i
          BY <3>1
        <4>. QED BY <2>2, <4>1, RoundsAt
      <3>4. Follows(a, f[i], SendIfAny(f[i], withAck))
        BY <3>2, FollowsSound, SendIfAnyFollows, Zenon
      <3>. QED BY <3>2, <3>3, <3>4, Together, Zenon
    <2>. HIDE DEF S
    <2>5. Nat \subseteq S
      BY <2>3, <2>4, SetInduction, Zenon
    <2>. QED BY <2>2, <2>5 DEF S
  <1>. QED BY <1>1, <1>2, Zenon

(* A segment more than the windows allow, with limited transmit. *)
LEMMA LimitedTransmitFollows ==
    ASSUME Configured, NEW a, NEW k, Sound(a, k), Behind(k), k.state \notin Young
    PROVE  Follows(a, k, LimitedTransmit(k))
  <1>1. CASE ~(LimitedTx /\ SizeFromSequence(k, k.nextTx) > 0)
    BY <1>1, Stays, Zenon DEF LimitedTransmit
  <1>2. CASE LimitedTx /\ SizeFromSequence(k, k.nextTx) > 0
    <2>1. Typed(k) /\ Kept(k)
      BY Zenon DEF Sound
    <2>2. /\ k.nextTx \in Nat /\ k.head <= k.nextTx /\ k.nextTx <= TailSequence(k)
          /\ SegSize \in Nat
      BY <2>1, Numbers, Configuration, Zenon DEF Behind, Kept, SentIsHeld
    <2>3. ~Careful
      BY <1>2, Zenon DEF Careful
    <2>4. PICK s : /\ s = SendDataPacket(k, k.nextTx, SegSize, TRUE)
                   /\ Follows(a, k, s) /\ Transmits(k, s, k.nextTx)
      BY <2>2, <2>3, SendDataPacketFollows, Zenon
    <2>5. Follows(a, k, Advance(s))
      BY <2>1, <2>4, AdvanceFollows, Zenon
    <2>. QED BY <1>2, <2>4, <2>5, Zenon DEF LimitedTransmit
  <1>. QED BY <1>1, <1>2, Zenon

-----------------------------------------------------------------------------
(* Sending again. *)
LEMMA Product == \A m, n \in Int : m * n \in Int
  OBVIOUS

LEMMA ThreshTyped ==
    ASSUME Configured, NEW k, Typed(k)
    PROVE  BytesInFlight(k) \in Nat /\ GetSsThresh(BytesInFlight(k)) \in Nat
  <1>1. /\ k.nextTx \in Nat /\ k.head \in Nat /\ k.retransOut \in Nat /\ k.dupAckCount \in Nat
        /\ SegSize \in Nat /\ ConstantWindow \in Nat
    BY Numbers, Configuration, ConstantWindowFacts, Zenon
  <1>2. k.retransOut - k.dupAckCount \in Int /\ SegSize \in Int
    BY <1>1
  <1>3. PICK twice \in Int : twice = (k.retransOut - k.dupAckCount) * SegSize
    BY <1>2, Product, Zenon
  <1>4. BytesInFlight(k) = Larger(0, (k.nextTx - k.head) + twice)
    BY <1>3, Zenon DEF BytesInFlight, UnAckDataCount
  <1>5. PICK flight \in Nat : flight = BytesInFlight(k)
    BY <1>1, <1>3, <1>4 DEF Larger
  <1>6. 2 * SegSize \in Nat /\ flight \div 2 \in Nat
    BY <1>1
  <1>7. Larger(2 * SegSize, flight \div 2) \in Nat
    BY <1>6 DEF Larger
  <1>. QED BY <1>1, <1>5, <1>7, Zenon DEF GetSsThresh

LEMMA RetryLeaves ==
    ASSUME NEW a, NEW k, Sound(a, k), NEW n \in Nat
    PROVE  /\ Leaves(a, k, [k EXCEPT !.dataRetrCount = n])
           /\ [k EXCEPT !.dataRetrCount = n].state = k.state
  <1>1. PICK s : s = [k EXCEPT !.dataRetrCount = n]
    OBVIOUS
  <1>2. Typed(s)
    BY <1>1 DEF Sound, Typed, Counts, Others, Fields
  <1>3. Keeps(k, s) /\ Silent(k, s) /\ s.state = k.state
    BY <1>1 DEF Sound, Typed, Fields, Keeps, Silent
  <1>. QED BY <1>1, <1>2, <1>3, SilentLeaves, Zenon

LEMMA ResendFollows ==
    ASSUME Configured, NEW a, NEW k, Sound(a, k), k.state \notin Young
    PROVE  Follows(a, k, CountResent(SendDataPacket(k, k.head, SegSize, TRUE)))
  <1>1. Typed(k) /\ Kept(k)
    BY Zenon DEF Sound
  <1>2. /\ k.head \in Nat /\ k.head <= k.head /\ k.head <= TailSequence(k) /\ SegSize \in Nat
        /\ Algorithm = "Fixed" /\ Careful => k.head + SegSize <= k.head + ConstantWindow
    <2>1. /\ k.head \in Nat /\ Len(k.tx) \in Nat /\ TailSequence(k) = k.head + Len(k.tx)
          /\ SegSize \in Nat /\ ConstantWindow \in Nat /\ SegSize <= ConstantWindow
      BY <1>1, Numbers, Configuration, ConstantWindowFacts, Zenon
    <2>. QED BY <2>1
  <1>3. PICK s : /\ s = SendDataPacket(k, k.head, SegSize, TRUE)
                 /\ Follows(a, k, s) /\ Transmits(k, s, k.head)
    BY <1>2, SendDataPacketFollows, Zenon
  <1>4. /\ Sound(a, s) /\ Typed(s) /\ Kept(s) /\ s.state \notin Young
        /\ s.nextTx \in Nat /\ s.highTxMark \in Nat /\ s.retransOut \in Nat /\ s.head \in Nat
    BY <1>3, FollowsSound, Numbers, Zenon
  <1>5. PICK sent \in Nat : sent = Len(Last(s.out).data) /\ s.head + sent <= s.highTxMark
    BY <1>3, Zenon DEF Transmits
  <1>6. PICK next \in Nat : /\ next = Larger(s.nextTx, s.head + sent)
                            /\ next <= Larger(s.head, s.highTxMark)
                            /\ Behind(s) => s.head <= next
    <2>1. s.nextTx <= Larger(s.head, s.highTxMark)
      BY <1>4, Zenon DEF Kept, SentIsHeld
    <2>. QED BY <1>4, <1>5, <2>1 DEF Larger, Behind
  <1>7. PICK count \in Nat : count = s.retransOut + 1
    BY <1>4
  <1>8. PICK t : Moved(s, t, next, count)
    BY DEF Moved
  <1>9. Follows(a, s, t)
    BY <1>4, <1>6, <1>8, MovesOn, Zenon
  <1>10. CountResent(s) = t
    <2>1. t = [s EXCEPT !.retransOut = count, !.nextTx = next]
      BY <1>4, <1>8 DEF Typed, Fields, Moved
    <2>. QED BY <1>5, <1>6, <1>7, <2>1, Zenon DEF CountResent
  <1>. QED BY <1>3, <1>9, <1>10, Together, Zenon

LEMMA DoRetransmitFollows ==
    ASSUME Configured, NEW a, NEW k, Sound(a, k)
    PROVE  Follows(a, k, DoRetransmit(k))
  <1>1. CASE k.state = "SYN_SENT"
    <2>1. a /\ {"SYN"} \in SUBSET Flags
      BY <1>1 DEF Sound, Answering, Flags
    <2>2. Leaves(a, k, SendEmptyPacket(k, {"SYN"})) /\ Leaves(a, k, k)
      BY <2>1, SendEmptyPacketLeaves, LeavesSame, Zenon
    <2>. QED BY <1>1, <2>2, Zenon DEF DoRetransmit, Leaves
  <1>2. CASE k.state # "SYN_SENT" /\ k.dataRetrCount = 0
    <2>1. Leaves(a, k, NotifyErrorClose(k)) /\ Sound(a, NotifyErrorClose(k))
      BY NotifyErrorCloseLeaves, LeavesSound, Zenon
    <2>2. Leaves(a, NotifyErrorClose(k), DeallocateEndPoint(NotifyErrorClose(k)))
      BY <2>1, DeallocateLeaves, Zenon
    <2>. QED BY <1>2, <2>1, <2>2, LeavesAll, Zenon DEF DoRetransmit, Leaves
  <1>3. CASE k.state # "SYN_SENT" /\ k.dataRetrCount # 0
    <2>1. PICK n \in Nat : n = k.dataRetrCount - 1
      <3>1. k.dataRetrCount \in Nat
        BY Zenon DEF Sound, Typed, Counts
      <3>. QED BY <1>3, <3>1
    <2>2. PICK s : s = [k EXCEPT !.dataRetrCount = n] /\ Leaves(a, k, s) /\ s.state = k.state
      BY RetryLeaves, Zenon
    <2>3. Sound(a, s) /\ Follows(a, k, s) /\ Kept(s)
      <3>1. Sound(a, s) /\ Follows(a, k, s)
        BY <2>2, LeavesFollows, Zenon
      <3>. QED BY <3>1, Zenon DEF Sound
    <2>4. CASE s.tx = <<>> /\ s.state \in {"FIN_WAIT_1", "CLOSING"}
      <3>1. Follows(a, s, SendEmptyPacket(s, {"FIN"}))
        BY <2>3, Acknowledges, Zenon DEF Leaves
      <3>2. DoRetransmit(k) = SendEmptyPacket(s, {"FIN"})
        BY <1>3, <2>1, <2>2, <2>4 DEF DoRetransmit
      <3>. QED BY <2>3, <3>1, <3>2, Together, Zenon
    <2>5. CASE s.tx = <<>> /\ s.state \notin {"FIN_WAIT_1", "CLOSING"}
      <3>1. DoRetransmit(k) = s
        BY <1>3, <2>1, <2>2, <2>5 DEF DoRetransmit
      <3>. QED BY <2>3, <3>1, Zenon
    <2>6. CASE s.tx # <<>>
      <3>1. s.state \notin Young
        BY <1>3, <2>2, <2>3, <2>6, Zenon DEF Kept, NothingSent
      <3>2. Follows(a, s, CountResent(SendDataPacket(s, s.head, SegSize, TRUE)))
        BY <2>3, <3>1, ResendFollows, Zenon
      <3>3. DoRetransmit(k) = CountResent(SendDataPacket(s, s.head, SegSize, TRUE))
        BY <1>3, <2>1, <2>2, <2>6 DEF DoRetransmit
      <3>. QED BY <2>3, <3>2, <3>3, Together, Zenon
    <2>. QED BY <2>4, <2>5, <2>6, Zenon
  <1>. QED BY <1>1, <1>2, <1>3, Zenon

LEMMA MarksRecovery ==
    ASSUME NEW a, NEW k, Sound(a, k), NEW s, s = [k EXCEPT !.recover = k.highTxMark]
    PROVE  Follows(a, k, s) /\ s.state = k.state
  <1>0. Typed(k) /\ Kept(k) /\ k.highTxMark \in Nat /\ k.head \in Nat /\ k.recover \in Nat
    BY Numbers, Zenon DEF Sound
  <1>1. Typed(s)
    BY <1>0 DEF Typed, Counts, Others, Fields
  <1>2. /\ s.head = k.head /\ s.nextTx = k.nextTx /\ s.highTxMark = k.highTxMark /\ s.tx = k.tx
        /\ s.recover = k.highTxMark /\ s.congState = k.congState /\ s.cWnd = k.cWnd
        /\ s.rWnd = k.rWnd
        /\ s.endPoint = k.endPoint /\ s.persist = k.persist /\ s.state = k.state
    BY <1>0 DEF Typed, Fields
  <1>3. Silent(k, s)
    BY <1>0 DEF Typed, Fields, Silent
  <1>4. Kept(s)
    <2>1. LossIsMarked(s)
      BY <1>0, <1>2 DEF Kept, LossIsMarked
    <2>2. SentIsHeld(s) /\ NothingSent(s) /\ ZeroIsProbed(s) /\ WindowIsFixed(s)
      BY <1>0, <1>2, Zenon DEF Kept, SentIsHeld, TailSequence, NothingSent, ZeroIsProbed,
                               WindowIsFixed
    <2>. QED BY <2>1, <2>2, Zenon DEF Kept
  <1>5. Behind(k) => Behind(s)
    BY <1>2 DEF Behind
  <1>. QED BY <1>1, <1>2, <1>3, <1>4, <1>5, FollowsBy, Zenon

LEMMA EnterLossFollows ==
    ASSUME Configured, NEW a, NEW k, Sound(a, k), k.state \notin Young, k.recover <= k.highTxMark
    PROVE  Follows(a, k, EnterLoss(k))
  <1>0. Typed(k) /\ Kept(k) /\ k.cWnd \in Nat /\ SegSize \in Nat
    BY Numbers, Configuration, Zenon DEF Sound
  <1>1. PICK th \in Nat : th = GetSsThresh(BytesInFlight(k))
    BY <1>0, ThreshTyped, Zenon
  <1>2. PICK w \in Nat : w = (IF ReducesWindow THEN SegSize ELSE k.cWnd) /\ (Careful => w = k.cWnd)
    <2>1. Careful => ~ReducesWindow
      BY ConstantWindowFacts, Zenon DEF Careful
    <2>. QED BY <1>0, <2>1, Zenon
  <1>3. PICK s : s = [k EXCEPT !.congState = "LOSS", !.ssThresh = th, !.cWnd = w]
    OBVIOUS
  <1>4. Typed(s)
    BY <1>0, <1>3 DEF Typed, Counts, Others, Fields, CongStates
  <1>5. /\ s.head = k.head /\ s.nextTx = k.nextTx /\ s.highTxMark = k.highTxMark /\ s.tx = k.tx
        /\ s.recover = k.recover /\ s.congState = "LOSS" /\ s.cWnd = w
        /\ s.rWnd = k.rWnd
        /\ s.endPoint = k.endPoint /\ s.persist = k.persist /\ s.state = k.state
    BY <1>0, <1>3 DEF Typed, Fields
  <1>6. Silent(k, s)
    BY <1>0, <1>3 DEF Typed, Fields, Silent
  <1>7. Kept(s)
    <2>1. LossIsMarked(s)
      BY <1>5 DEF LossIsMarked
    <2>2. SentIsHeld(s) /\ NothingSent(s) /\ ZeroIsProbed(s) /\ WindowIsFixed(s)
      BY <1>0, <1>2, <1>5, Zenon DEF Kept, SentIsHeld, TailSequence, NothingSent, ZeroIsProbed,
                                     WindowIsFixed
    <2>. QED BY <2>1, <2>2, Zenon DEF Kept
  <1>8. Behind(k) => Behind(s)
    BY <1>5 DEF Behind
  <1>9. Follows(a, k, s)
    BY <1>4, <1>5, <1>6, <1>7, <1>8, FollowsBy, Zenon
  <1>10. EnterLoss(k) = k \/ EnterLoss(k) = s
    BY <1>1, <1>2, <1>3, Zenon DEF EnterLoss
  <1>. QED BY <1>9, <1>10, Stays, Zenon

LEMMA RewindFollows ==
    ASSUME NEW a, NEW k, Sound(a, k), NEW s, s = [k EXCEPT !.nextTx = k.head, !.dupAckCount = 0]
    PROVE  Follows(a, k, s)
  <1>0. Typed(k) /\ Kept(k) /\ k.highTxMark \in Nat /\ k.head \in Nat /\ k.nextTx \in Nat
        /\ Len(k.tx) \in Nat
    BY Numbers, Zenon DEF Sound
  <1>1. Typed(s)
    BY <1>0 DEF Typed, Counts, Others, Fields
  <1>2. /\ s.head = k.head /\ s.nextTx = k.head /\ s.highTxMark = k.highTxMark /\ s.tx = k.tx
        /\ s.recover = k.recover /\ s.congState = k.congState /\ s.cWnd = k.cWnd
        /\ s.rWnd = k.rWnd
        /\ s.endPoint = k.endPoint /\ s.persist = k.persist /\ s.state = k.state
    BY <1>0 DEF Typed, Fields
  <1>3. Silent(k, s)
    BY <1>0 DEF Typed, Fields, Silent
  <1>4. Kept(s)
    <2>1. SentIsHeld(s)
      BY <1>0, <1>2 DEF Kept, SentIsHeld, TailSequence, Larger
    <2>2. LossIsMarked(s) /\ NothingSent(s) /\ ZeroIsProbed(s) /\ WindowIsFixed(s)
      BY <1>0, <1>2, Zenon DEF Kept, LossIsMarked, NothingSent, ZeroIsProbed, WindowIsFixed
    <2>. QED BY <2>1, <2>2, Zenon DEF Kept
  <1>5. Behind(s)
    BY <1>0, <1>2 DEF Behind
  <1>. QED BY <1>1, <1>2, <1>3, <1>4, <1>5, FollowsBy, Zenon

LEMMA ReTxTimeoutFollows ==
    ASSUME Configured, NEW a, NEW k, Sound(a, k)
    PROVE  Follows(a, k, ReTxTimeout(k))
  <1>1. CASE NothingToRetransmit(k)
    BY <1>1, Stays, Zenon DEF ReTxTimeout
  <1>2. CASE ~NothingToRetransmit(k)
    <2>1. k.state \notin Young
      <3>1. Kept(k) /\ k.head \in Nat
        BY Numbers, Zenon DEF Sound
      <3>. QED BY <1>2, <3>1 DEF NothingToRetransmit, Kept, NothingSent, Young, Unconnected
    <2>2. PICK s : s = [k EXCEPT !.recover = k.highTxMark] /\ Follows(a, k, s) /\ s.state = k.state
      BY MarksRecovery, Zenon
    <2>3. s.recover <= s.highTxMark
      <3>1. Typed(k) /\ k.highTxMark \in Nat
        BY Numbers, Zenon DEF Sound
      <3>. QED BY <2>2, <3>1 DEF Typed, Fields
    <2>4. PICK t : t = EnterLoss(s) /\ Follows(a, s, t) /\ Sound(a, t)
      BY <2>1, <2>2, <2>3, FollowsSound, EnterLossFollows, Zenon
    <2>5. PICK u : u = [t EXCEPT !.nextTx = t.head, !.dupAckCount = 0] /\ Follows(a, t, u) /\ Sound(a, u)
      BY <2>4, FollowsSound, RewindFollows, Zenon
    <2>6. t.head = s.head
      <3>1. Typed(s)
        BY <2>2, FollowsSound, Zenon
      <3>. QED BY <2>4, <3>1 DEF EnterLoss, Typed, Fields
    <2>7. ReTxTimeout(k) = DoRetransmit(u)
      BY <1>2, <2>2, <2>4, <2>5, <2>6, Zenon DEF ReTxTimeout, Retransmit
    <2>8. Follows(a, u, DoRetransmit(u))
      BY <2>5, DoRetransmitFollows, Zenon
    <2>9. Follows(a, k, u)
      <3>1. Follows(a, s, u)
        BY <2>4, <2>5, Together, Zenon
      <3>. QED BY <2>2, <3>1, Together, Zenon
    <2>. QED BY <2>7, <2>8, <2>9, Together, Zenon
  <1>. QED BY <1>1, <1>2, Zenon

LEMMA RetxEventFollows ==
    ASSUME Configured, NEW a, NEW k, Sound(a, k)
    PROVE  Follows(a, k, RetxEvent(k))
  <1>1. PICK s : s = [k EXCEPT !.retx = {}]
    OBVIOUS
  <1>2. Typed(s)
    BY <1>1 DEF Sound, Typed, Counts, Others, Fields, Timings
  <1>3. Keeps(k, s)
    BY <1>1 DEF Sound, Typed, Fields, Keeps
  <1>4. Silent(k, s)
    BY <1>1 DEF Sound, Typed, Fields, Silent
  <1>5. Follows(a, k, s) /\ Sound(a, s)
    BY <1>2, <1>3, <1>4, SilentFollows, FollowsSound, Zenon
  <1>6. CASE k.retx = {"DATA"}
    BY <1>1, <1>5, <1>6, ReTxTimeoutFollows, Together, Zenon DEF RetxEvent
  <1>7. CASE k.retx # {"DATA"}
    <2>1. k.retx \in SUBSET Flags /\ (a \/ k.retx # {"SYN"})
      BY <1>7, Zenon DEF Sound, Typed, Others, Timings, Answering
    <2>2. Follows(a, s, SendEmptyPacket(s, k.retx))
      BY <1>5, <2>1, SendEmptyPacketLeaves, Zenon DEF Leaves
    <2>. QED BY <1>1, <1>5, <1>7, <2>2, Together, Zenon DEF RetxEvent
  <1>. QED BY <1>6, <1>7, Zenon

-----------------------------------------------------------------------------
(* Calls of the application. *)

(* What an operation without a segment changes besides. *)
LEMMA MarksLeave ==
    ASSUME NEW a, NEW k, Sound(a, k), NEW b
    PROVE  /\ Leaves(a, k, [k EXCEPT !.closeOnEmpty = TRUE])
           /\ Leaves(a, k, [k EXCEPT !.shutdownSend = TRUE, !.closeOnEmpty = TRUE])
           /\ Leaves(a, k, [k EXCEPT !.shutdownRecv = TRUE])
           /\ Leaves(a, k, [k EXCEPT !.sendPending = b])
           /\ Leaves(a, k, [k EXCEPT !.closeNotified = TRUE])
           /\ Leaves(a, k, [k EXCEPT !.lastAck = b])
           /\ Leaves(a, k, [k EXCEPT !.timeWait = FALSE])
           /\ Leaves(a, k, [k EXCEPT !.firstPartialAck = b])
  <1>1. ASSUME NEW s, s = [k EXCEPT !.closeOnEmpty = TRUE] PROVE Leaves(a, k, s)
    <2>1. Typed(s)
      BY <1>1 DEF Sound, Typed, Counts, Others, Fields
    <2>2. Keeps(k, s) /\ Silent(k, s)
      BY <1>1 DEF Sound, Typed, Fields, Keeps, Silent
    <2>. QED BY <2>1, <2>2, SilentLeaves, Zenon
  <1>2. ASSUME NEW s, s = [k EXCEPT !.shutdownSend = TRUE, !.closeOnEmpty = TRUE]
        PROVE  Leaves(a, k, s)
    <2>1. Typed(s)
      BY <1>2 DEF Sound, Typed, Counts, Others, Fields
    <2>2. Keeps(k, s) /\ Silent(k, s)
      BY <1>2 DEF Sound, Typed, Fields, Keeps, Silent
    <2>. QED BY <2>1, <2>2, SilentLeaves, Zenon
  <1>3. ASSUME NEW s, s = [k EXCEPT !.shutdownRecv = TRUE] PROVE Leaves(a, k, s)
    <2>1. Typed(s)
      BY <1>3 DEF Sound, Typed, Counts, Others, Fields
    <2>2. Keeps(k, s) /\ Silent(k, s)
      BY <1>3 DEF Sound, Typed, Fields, Keeps, Silent
    <2>. QED BY <2>1, <2>2, SilentLeaves, Zenon
  <1>4. ASSUME NEW s, s = [k EXCEPT !.sendPending = b] PROVE Leaves(a, k, s)
    <2>1. Typed(s)
      BY <1>4 DEF Sound, Typed, Counts, Others, Fields
    <2>2. Keeps(k, s) /\ Silent(k, s)
      BY <1>4 DEF Sound, Typed, Fields, Keeps, Silent
    <2>. QED BY <2>1, <2>2, SilentLeaves, Zenon
  <1>5. ASSUME NEW s, s = [k EXCEPT !.closeNotified = TRUE] PROVE Leaves(a, k, s)
    <2>1. Typed(s)
      BY <1>5 DEF Sound, Typed, Counts, Others, Fields
    <2>2. Keeps(k, s) /\ Silent(k, s)
      BY <1>5 DEF Sound, Typed, Fields, Keeps, Silent
    <2>. QED BY <2>1, <2>2, SilentLeaves, Zenon
  <1>6. ASSUME NEW s, s = [k EXCEPT !.lastAck = b] PROVE Leaves(a, k, s)
    <2>1. Typed(s)
      BY <1>6 DEF Sound, Typed, Counts, Others, Fields
    <2>2. Keeps(k, s) /\ Silent(k, s)
      BY <1>6 DEF Sound, Typed, Fields, Keeps, Silent
    <2>. QED BY <2>1, <2>2, SilentLeaves, Zenon
  <1>7. ASSUME NEW s, s = [k EXCEPT !.timeWait = FALSE] PROVE Leaves(a, k, s)
    <2>1. Typed(s)
      BY <1>7 DEF Sound, Typed, Counts, Others, Fields
    <2>2. Keeps(k, s) /\ Silent(k, s)
      BY <1>7 DEF Sound, Typed, Fields, Keeps, Silent
    <2>. QED BY <2>1, <2>2, SilentLeaves, Zenon
  <1>8. ASSUME NEW s, s = [k EXCEPT !.firstPartialAck = b] PROVE Leaves(a, k, s)
    <2>1. Typed(s)
      BY <1>8 DEF Sound, Typed, Counts, Others, Fields
    <2>2. Keeps(k, s) /\ Silent(k, s)
      BY <1>8 DEF Sound, Typed, Fields, Keeps, Silent
    <2>. QED BY <2>1, <2>2, SilentLeaves, Zenon
  <1>. QED BY <1>1, <1>2, <1>3, <1>4, <1>5, <1>6, <1>7, <1>8, Zenon

LEMMA RcvBufLeaves ==
    ASSUME NEW a, NEW k, Sound(a, k), NEW n \in Nat
    PROVE  Leaves(a, k, [k EXCEPT !.rcvBuf = n])
  <1>1. PICK s : s = [k EXCEPT !.rcvBuf = n]
    OBVIOUS
  <1>2. Typed(s)
    BY <1>1 DEF Sound, Typed, Counts, Others, Fields
  <1>3. Keeps(k, s) /\ Silent(k, s)
    BY <1>1 DEF Sound, Typed, Fields, Keeps, Silent
  <1>. QED BY <1>1, <1>2, <1>3, SilentLeaves, Zenon

LEMMA DelAckLeaves ==
    ASSUME NEW a, NEW k, Sound(a, k), NEW n \in Nat, NEW b
    PROVE  Leaves(a, k, [k EXCEPT !.delAckCount = n, !.delAck = b])
           /\ Leaves(a, k, [k EXCEPT !.delAck = b, !.delAckCount = n])
  <1>1. ASSUME NEW s, s = [k EXCEPT !.delAckCount = n, !.delAck = b] PROVE Leaves(a, k, s)
    <2>1. Typed(s)
      BY <1>1 DEF Sound, Typed, Counts, Others, Fields
    <2>2. Keeps(k, s) /\ Silent(k, s)
      BY <1>1 DEF Sound, Typed, Fields, Keeps, Silent
    <2>. QED BY <2>1, <2>2, SilentLeaves, Zenon
  <1>2. [k EXCEPT !.delAckCount = n, !.delAck = b] = [k EXCEPT !.delAck = b, !.delAckCount = n]
    BY DEF Sound, Typed, Fields
  <1>. QED BY <1>1, <1>2, Zenon

(* Leaving ESTABLISHED: a connection that is being closed. *)
Closing == {"FIN_WAIT_1", "FIN_WAIT_2", "LAST_ACK", "CLOSE_WAIT", "CLOSING", "TIME_WAIT", "CLOSED"}

LEMMA StateLeaves ==
    ASSUME NEW a, NEW k, Sound(a, k), NEW st \in Closing
    PROVE  Leaves(a, k, [k EXCEPT !.state = st]) /\ [k EXCEPT !.state = st].state = st
  <1>1. PICK s : s = [k EXCEPT !.state = st]
    OBVIOUS
  <1>2. st \in ConnStates /\ st \notin Young \cup {"ESTABLISHED"}
    BY DEF Closing, ConnStates, Unconnected, Young
  <1>3. Typed(s) /\ s.state = st
    BY <1>1, <1>2 DEF Sound, Typed, Counts, Others, Fields
  <1>4. Keeps(k, s)
    BY <1>1, <1>2 DEF Sound, Typed, Fields, Keeps
  <1>5. Silent(k, s)
    BY <1>1 DEF Sound, Typed, Fields, Silent
  <1>. QED BY <1>1, <1>3, <1>4, <1>5, SilentLeaves, Zenon

LEMMA FinLeaves ==
    ASSUME Configured, NEW a, NEW k, Sound(a, k), NEW st \in Closing
    PROVE  /\ Leaves(a, k, [SendEmptyPacket(k, {"FIN"}) EXCEPT !.state = st])
           /\ Leaves(a, k, [SendEmptyPacket(k, {"FIN", "ACK"}) EXCEPT !.state = st])
  <1>1. PICK s : s = SendEmptyPacket(k, {"FIN"}) /\ Leaves(a, k, s)
    BY Acknowledges, Zenon
  <1>2. PICK t : t = SendEmptyPacket(k, {"FIN", "ACK"}) /\ Leaves(a, k, t)
    BY Acknowledges, Zenon
  <1>3. Sound(a, s) /\ Sound(a, t)
    BY <1>1, <1>2, LeavesSound, Zenon
  <1>4. Leaves(a, s, [s EXCEPT !.state = st]) /\ Leaves(a, t, [t EXCEPT !.state = st])
    BY <1>3, StateLeaves, Zenon
  <1>. QED BY <1>1, <1>2, <1>4, LeavesAll, ZenonT(40)

LEMMA ResetAndNotifyLeaves ==
    ASSUME Configured, NEW a, NEW k, Sound(a, k)
    PROVE  Leaves(a, k, CloseAndNotify(SendRST(k)))
  <1>1. Leaves(a, k, SendRST(k)) /\ Sound(a, SendRST(k))
    BY SendRSTLeaves, LeavesSound, Zenon
  <1>. QED BY <1>1, CloseAndNotifyLeaves, LeavesAll, Zenon

LEMMA DoCloseLeaves ==
    ASSUME Configured, NEW a, NEW k, Sound(a, k)
    PROVE  Leaves(a, k, DoClose(k))
  <1>1. {"FIN_WAIT_1", "LAST_ACK"} \subseteq Closing
    BY DEF Closing
  <1>2. /\ Leaves(a, k, [SendEmptyPacket(k, {"FIN"}) EXCEPT !.state = "FIN_WAIT_1"])
        /\ Leaves(a, k, [SendEmptyPacket(k, {"FIN", "ACK"}) EXCEPT !.state = "LAST_ACK"])
        /\ Leaves(a, k, CloseAndNotify(SendRST(k)))
        /\ Leaves(a, k, CloseAndNotify(k)) /\ Leaves(a, k, k)
    BY <1>1, FinLeaves, ResetAndNotifyLeaves, CloseAndNotifyLeaves, LeavesSame
  <1>. QED BY <1>2 DEF DoClose

LEMMA CloseLeaves ==
    ASSUME Configured, NEW a, NEW k, Sound(a, k)
    PROVE  Leaves(a, k, Close(k))
  <1>1. Leaves(a, k, SendRST(k)) /\ Leaves(a, k, [k EXCEPT !.closeOnEmpty = TRUE])
        /\ Leaves(a, k, DoClose(k))
    BY SendRSTLeaves, MarksLeave, DoCloseLeaves, Zenon
  <1>. QED BY <1>1, Zenon DEF Close

LEMMA ShutdownSendLeaves ==
    ASSUME Configured, NEW a, NEW k, Sound(a, k)
    PROVE  Leaves(a, k, ShutdownSend(k))
  <1>1. PICK s : s = [k EXCEPT !.shutdownSend = TRUE, !.closeOnEmpty = TRUE] /\ Leaves(a, k, s)
    BY MarksLeave, Zenon
  <1>2. Sound(a, s) /\ {"FIN_WAIT_1", "LAST_ACK"} \subseteq Closing
    BY <1>1, LeavesSound DEF Closing
  <1>3. /\ Leaves(a, s, [SendEmptyPacket(s, {"FIN"}) EXCEPT !.state = "FIN_WAIT_1"])
        /\ Leaves(a, s, [SendEmptyPacket(s, {"FIN"}) EXCEPT !.state = "LAST_ACK"])
        /\ Leaves(a, s, s)
    BY <1>2, FinLeaves, LeavesSame
  <1>4. \/ ShutdownSend(k) = [SendEmptyPacket(s, {"FIN"}) EXCEPT !.state = "FIN_WAIT_1"]
        \/ ShutdownSend(k) = [SendEmptyPacket(s, {"FIN"}) EXCEPT !.state = "LAST_ACK"]
        \/ ShutdownSend(k) = s
    BY <1>1 DEF ShutdownSend
  <1>. QED BY <1>1, <1>3, <1>4, LeavesAll, Zenon

LEMMA RecvLeaves ==
    ASSUME NEW a, NEW k, Sound(a, k), NEW n
    PROVE  Leaves(a, k, Recv(k, n))
  <1>1. PICK s : s = Recv(k, n)
    OBVIOUS
  <1>2. PICK read, waits : s = [k EXCEPT !.read = read, !.inOrder = waits]
    BY <1>1, Zenon DEF Recv
  <1>3. Typed(s)
    BY <1>2 DEF Sound, Typed, Counts, Others, Fields
  <1>4. Keeps(k, s) /\ Silent(k, s)
    BY <1>2 DEF Sound, Typed, Fields, Keeps, Silent
  <1>. QED BY <1>1, <1>3, <1>4, SilentLeaves, Zenon

LEMMA NotifyDataRecvLeaves ==
    ASSUME NEW a, NEW k, Sound(a, k)
    PROVE  Leaves(a, k, NotifyDataRecv(k))
  BY RecvLeaves, LeavesSame, Zenon DEF NotifyDataRecv

LEMMA SetRcvBufSizeLeaves ==
    ASSUME Configured, NEW a, NEW k, Sound(a, k), NEW size \in Nat
    PROVE  Leaves(a, k, SetRcvBufSize(k, size))
  <1>1. PICK s : s = [k EXCEPT !.rcvBuf = size] /\ Leaves(a, k, s)
    BY RcvBufLeaves, Zenon
  <1>2. Leaves(a, s, SendEmptyPacket(s, {"ACK"}))
    BY <1>1, LeavesSound, Acknowledges, Zenon
  <1>3. Leaves(a, k, SendEmptyPacket(s, {"ACK"}))
    BY <1>1, <1>2, LeavesAll, Zenon
  <1>. QED BY <1>1, <1>3, Zenon DEF SetRcvBufSize

(* Bytes are added behind the ones in the buffer; in SYN_SENT no window    *)
(* lets them go.                                                           *)
LEMMA SendFollows ==
    ASSUME Configured, NEW a, NEW k, Sound(a, k), NEW n \in Nat
    PROVE  Follows(a, k, Send(k, n))
  <1>0. Typed(k) /\ Kept(k) /\ k.written \in Nat /\ k.tx \in Seq(Nat) /\ Len(k.tx) \in Nat
        /\ SndBuf \in Nat
    BY Numbers, Configuration, Zenon DEF Sound
  <1>1. CASE ~MaySend(k) \/ n > TxAvailable(k)
    BY <1>1, Stays, Zenon DEF Send
  <1>2. CASE ~(~MaySend(k) \/ n > TxAvailable(k))
    <2>1. PICK more \in Seq(Nat) : more = [i \in 1..n |-> k.written + i] /\ Len(more) = n
      <3>1. PICK w \in Nat : w = k.written
        BY <1>0, Zenon
      <3>2. [i \in 1..n |-> w + i] \in Seq(Nat)
        OBVIOUS
      <3>3. Len([i \in 1..n |-> w + i]) = n
        OBVIOUS
      <3>. QED BY <3>1, <3>2, <3>3, Zenon
    <2>2. PICK tx \in Seq(Nat) : tx = k.tx \o more /\ Len(tx) = Len(k.tx) + n
      <3>1. k.tx \o more \in Seq(Nat) /\ Len(k.tx \o more) = Len(k.tx) + n
        BY <1>0, <2>1
      <3>. QED BY <3>1, Zenon
    <2>3. PICK written \in Nat : written = k.written + n
      BY <1>0
    <2>4. PICK pending : pending = (k.sendPending \/ (~k.shutdownSend /\ k.state # "SYN_SENT"))
      OBVIOUS
    <2>5. PICK s : s = [k EXCEPT !.tx = tx, !.written = written, !.sendPending = pending]
      OBVIOUS
    <2>6. Send(k, n) = s
      BY <1>2, <2>1, <2>2, <2>3, <2>4, <2>5, Zenon DEF Send
    <2>7. Typed(s)
      BY <1>0, <2>5 DEF Typed, Counts, Others, Fields
    <2>8. /\ s.head = k.head /\ s.nextTx = k.nextTx /\ s.highTxMark = k.highTxMark /\ s.tx = tx
          /\ s.recover = k.recover /\ s.congState = k.congState /\ s.cWnd = k.cWnd
          /\ s.rWnd = k.rWnd
          /\ s.endPoint = k.endPoint /\ s.persist = k.persist /\ s.state = k.state
      BY <1>0, <2>5 DEF Typed, Fields
    <2>9. Silent(k, s)
      BY <1>0, <2>5 DEF Typed, Fields, Silent
    <2>10. Kept(s)
      <3>1. Len(tx) <= SndBuf
        BY <1>0, <1>2, <2>2 DEF TxAvailable
      <3>2. SentIsHeld(s)
        <4>1. k.head \in Nat /\ k.nextTx \in Nat /\ k.highTxMark \in Nat
          BY <1>0, Numbers, Zenon
        <4>. QED BY <1>0, <2>2, <2>8, <3>1, <4>1, SMTT(30) DEF Kept, SentIsHeld, TailSequence
      <3>3. k.state \in {"ESTABLISHED", "SYN_SENT", "CLOSE_WAIT"}
        BY <1>2, Zenon DEF MaySend
      <3>4. NothingSent(s)
        BY <1>0, <2>8, <3>3 DEF Kept, NothingSent, Young
      <3>5. LossIsMarked(s) /\ ZeroIsProbed(s) /\ WindowIsFixed(s)
        BY <1>0, <2>8, Zenon DEF Kept, LossIsMarked, ZeroIsProbed, WindowIsFixed
      <3>. QED BY <3>2, <3>4, <3>5, Zenon DEF Kept
    <2>11. Behind(k) => Behind(s)
      BY <2>8 DEF Behind
    <2>. QED BY <2>6, <2>7, <2>8, <2>9, <2>10, <2>11, FollowsBy, Zenon
  <1>. QED BY <1>1, <1>2, Zenon

LEMMA LeftLeaves ==
    ASSUME NEW a, NEW k, Sound(a, k), NEW n \in Nat
    PROVE  Leaves(a, k, [k EXCEPT !.left = n])
  <1>1. PICK s : s = [k EXCEPT !.left = n]
    OBVIOUS
  <1>2. Typed(s)
    BY <1>1 DEF Sound, Typed, Counts, Others, Fields
  <1>3. Keeps(k, s) /\ Silent(k, s)
    BY <1>1 DEF Sound, Typed, Fields, Keeps, Silent
  <1>. QED BY <1>1, <1>2, <1>3, SilentLeaves, Zenon

LEMMA WriteFollows ==
    ASSUME Configured, NEW a, NEW k, Sound(a, k)
    PROVE  Follows(a, k, WriteUntilBufferFull(k)) /\ WriteUntilBufferFull(k).head = k.head
  <1>0. k.left \in Nat /\ Len(k.tx) \in Nat /\ SndBuf \in Nat /\ Len(k.tx) <= SndBuf
    BY Numbers, Configuration, Zenon DEF Sound, Kept, SentIsHeld
  <1>1. PICK n \in Nat : n = Min({k.left, TxAvailable(k)}) /\ n <= k.left
    <2>1. TxAvailable(k) \in Nat
      BY <1>0 DEF TxAvailable
    <2>. QED BY <1>0, <2>1, MinOfTwo
  <1>2. PICK s : s = Send(k, n) /\ Follows(a, k, s) /\ Sound(a, s)
    BY SendFollows, FollowsSound, Zenon
  <1>3. s.left = k.left /\ s.head = k.head
    BY <1>2 DEF Send, Sound, Typed, Fields
  <1>4. PICK left \in Nat : left = s.left - n
    BY <1>0, <1>1, <1>3
  <1>5. PICK full : full = [s EXCEPT !.left = left] /\ Leaves(a, s, full) /\ Sound(a, full)
    BY <1>2, LeftLeaves, LeavesSound, Zenon
  <1>6. Leaves(a, full, Close(full)) /\ Leaves(a, k, Close(k))
    BY <1>5, CloseLeaves, Zenon
  <1>7. Follows(a, k, Close(full)) /\ Follows(a, k, Close(k))
    BY <1>2, <1>5, <1>6, Together, Zenon DEF Leaves
  <1>9. Close(full).head = k.head /\ Close(k).head = k.head
    BY <1>3, <1>5, <1>6, Zenon DEF Leaves, Keeps
  <1>8. \/ WriteUntilBufferFull(k) = Close(k)
        \/ WriteUntilBufferFull(k) = s
        \/ WriteUntilBufferFull(k) = Close(full)
    BY <1>1, <1>2, <1>4, <1>5, Zenon DEF WriteUntilBufferFull
  <1>. QED BY <1>2, <1>3, <1>7, <1>8, <1>9, Zenon

LEMMA NotifyIfRoomFollows ==
    ASSUME Configured, NEW a, NEW k, Sound(a, k)
    PROVE  Follows(a, k, NotifyIfRoom(k)) /\ NotifyIfRoom(k).head = k.head
  BY WriteFollows, Stays, Zenon DEF NotifyIfRoom, NotifySend

-----------------------------------------------------------------------------
(* The other timers. *)
LEMMA DelAckTimeoutLeaves ==
    ASSUME Configured, NEW a, NEW k, Sound(a, k)
    PROVE  Leaves(a, k, DelAckTimeout(k))
  <1>1. PICK zero \in Nat : zero = 0
    OBVIOUS
  <1>2. PICK s : s = [k EXCEPT !.delAck = FALSE, !.delAckCount = zero] /\ Leaves(a, k, s)
    BY DelAckLeaves, Zenon
  <1>3. Leaves(a, s, SendEmptyPacket(s, {"ACK"}))
    BY <1>2, LeavesSound, Acknowledges, Zenon
  <1>. QED BY <1>1, <1>2, <1>3, LeavesAll, Zenon DEF DelAckTimeout

LEMMA LastAckTimeoutLeaves ==
    ASSUME NEW a, NEW k, Sound(a, k)
    PROVE  Leaves(a, k, LastAckTimeout(k))
  <1>1. PICK s : s = [k EXCEPT !.lastAck = FALSE] /\ Leaves(a, k, s)
    BY MarksLeave, Zenon
  <1>2. PICK t : t = (IF s.state = "LAST_ACK" THEN CloseAndNotify(s) ELSE s) /\ Leaves(a, s, t)
    BY <1>1, LeavesSound, CloseAndNotifyLeaves, LeavesSame, Zenon
  <1>3. Leaves(a, t, [t EXCEPT !.closeNotified = TRUE])
    BY <1>2, LeavesSound, MarksLeave, Zenon
  <1>4. Leaves(a, k, t)
    BY <1>1, <1>2, LeavesAll, Zenon
  <1>. QED BY <1>1, <1>2, <1>3, <1>4, LeavesAll, Zenon DEF LastAckTimeout

LEMMA TimeWaitTimeoutLeaves ==
    ASSUME NEW a, NEW k, Sound(a, k)
    PROVE  Leaves(a, k, CloseAndNotify([k EXCEPT !.timeWait = FALSE]))
  <1>1. PICK s : s = [k EXCEPT !.timeWait = FALSE] /\ Leaves(a, k, s)
    BY MarksLeave, Zenon
  <1>2. Leaves(a, s, CloseAndNotify(s))
    BY <1>1, LeavesSound, CloseAndNotifyLeaves, Zenon
  <1>. QED BY <1>1, <1>2, LeavesAll, Zenon

LEMMA OutLeaves ==
    ASSUME NEW a, NEW k, Sound(a, k), NEW seg \in Segments, seg.flags # {"SYN"}
    PROVE  Leaves(a, k, [k EXCEPT !.out = Append(@, seg)])
  <1>1. PICK out \in Seq(Segments) : out = Append(k.out, seg)
    BY Appended, Zenon DEF Sound, Typed, Others
  <1>2. PICK s : s = [k EXCEPT !.out = out]
    OBVIOUS
  <1>3. Typed(s) /\ s.out = out /\ s.retx = k.retx /\ s.state = k.state
    BY <1>2 DEF Sound, Typed, Counts, Others, Fields
  <1>4. Keeps(k, s)
    BY <1>2 DEF Sound, Typed, Fields, Keeps
  <1>5. a \/ Answering(s)
    <2>1. SUFFICES ASSUME Answering(k) PROVE Answering(s)
      BY DEF Sound
    <2>2. \A i \in 1..Len(out) : out[i].flags # {"SYN"}
      BY <1>1, <2>1, OneMoreSent, Zenon DEF Answering, Sound, Typed, Others
    <2>. QED BY <1>3, <2>1, <2>2 DEF Answering
  <1>6. Kept(s) /\ (k.state \notin Young => s.state \notin Young) /\ (Behind(k) => Behind(s))
    BY <1>4, KeptByAll, Zenon DEF Sound
  <1>7. Leaves(a, k, s)
    BY <1>3, <1>4, <1>5, <1>6, Zenon DEF Leaves, Follows, Sound
  <1>. QED BY <1>1, <1>2, <1>7, Zenon

LEMMA PersistTimeoutLeaves ==
    ASSUME Configured, NEW a, NEW k, Sound(a, k), Behind(k)
    PROVE  Leaves(a, k, PersistTimeout(k))
  <1>0. /\ Typed(k) /\ k.nextTx \in Nat /\ k.head \in Nat /\ Len(k.tx) \in Nat /\ k.tx \in Seq(Nat)
        /\ TailSequence(k) = k.head + Len(k.tx)
        /\ k.head <= k.nextTx /\ k.nextTx <= TailSequence(k)
    BY Numbers, Zenon DEF Sound, Kept, SentIsHeld, Behind
  <1>1. PICK size \in Nat : /\ size = Min({1, SizeFromSequence(k, k.nextTx)})
                            /\ k.nextTx + size <= TailSequence(k)
    <2>1. SizeFromSequence(k, k.nextTx) \in Nat
      BY <1>0 DEF SizeFromSequence
    <2>2. PICK size \in Nat : /\ size = Min({1, SizeFromSequence(k, k.nextTx)})
                              /\ size <= SizeFromSequence(k, k.nextTx)
      BY <2>1, MinOfTwo
    <2>. QED BY <1>0, <2>2 DEF SizeFromSequence
  <1>2. PICK data \in Seq(Nat) : data = CopyFromSequence(k, size, k.nextTx)
    <2>1. PICK i \in Nat : i = k.nextTx - k.head /\ i + size <= Len(k.tx)
      BY <1>0, <1>1
    <2>. QED BY <1>0, <2>1, Copied, Zenon DEF CopyFromSequence
  <1>3. PICK none \in SUBSET Flags : none = {} /\ none # {"SYN"}
    <2>1. {} \in SUBSET Flags
      OBVIOUS
    <2>2. {} # {"SYN"}
      OBVIOUS
    <2>. QED BY <2>1, <2>2, Zenon
  <1>4. PICK seg \in Segments : seg = Segment(k, none, k.nextTx, data) /\ seg.flags = none
    BY <1>0, SegmentTyped
  <1>5. PICK u : u = UsesEndPoint(k) /\ Leaves(a, k, u) /\ Sound(a, u)
    BY UsesEndPointLeaves, LeavesSound, Zenon
  <1>6. Leaves(a, u, [u EXCEPT !.out = Append(@, seg)])
    BY <1>3, <1>4, <1>5, OutLeaves
  <1>7. Leaves(a, k, [u EXCEPT !.out = Append(@, seg)])
    BY <1>5, <1>6, LeavesAll, Zenon
  <1>. QED BY <1>1, <1>2, <1>3, <1>4, <1>5, <1>7, Zenon DEF PersistTimeout

-----------------------------------------------------------------------------
(* The receive buffer. *)

(* What a handler of data changes: the bytes that came, and what is next. *)
LEMMA ReceivesLeave ==
    ASSUME NEW a, NEW k, Sound(a, k), NEW s,
           NEW next \in Nat, NEW all, DOMAIN all \in SUBSET Nat, IsFiniteSet(DOMAIN all),
           NEW waits, NEW fin,
           s = [k EXCEPT !.inOrder = waits, !.store = all, !.nextRx = next, !.finSeq = fin]
    PROVE  Leaves(a, k, s)
  <1>1. Typed(s)
    <2>1. Typed(k)
      BY Zenon DEF Sound
    <2>2. s.store = all /\ DOMAIN s = Fields /\ Counts(s)
      BY <2>1 DEF Typed, Counts, Fields
    <2>3. /\ s.state \in ConnStates /\ s.congState \in CongStates /\ s.retx \in Timings
          /\ s.tx \in Seq(Nat) /\ s.out \in Seq(Segments)
      BY <2>1 DEF Typed, Others, Fields
    <2>. QED BY <2>2, <2>3, Zenon DEF Typed, Others
  <1>2. Keeps(k, s)
    BY DEF Sound, Typed, Fields, Keeps
  <1>3. Silent(k, s)
    BY DEF Sound, Typed, Fields, Silent
  <1>. QED BY <1>1, <1>2, <1>3, SilentLeaves, Zenon

LEMMA CountFinLeaves ==
    ASSUME NEW a, NEW k, Sound(a, k)
    PROVE  Leaves(a, k, CountFin(k))
  <1>0. k.nextRx \in Nat /\ DOMAIN k.store \in SUBSET Nat /\ IsFiniteSet(DOMAIN k.store)
    BY Zenon DEF Sound, Typed, Counts, Others
  <1>1. PICK next \in Nat : next = k.nextRx + 1
    BY <1>0
  <1>2. PICK s : s = [k EXCEPT !.inOrder = k.inOrder, !.store = k.store, !.nextRx = next,
                               !.finSeq = k.finSeq]
    OBVIOUS
  <1>3. Leaves(a, k, s)
    BY <1>0, <1>2, ReceivesLeave
  <1>4. [k EXCEPT !.nextRx = next] = s
    BY <1>2 DEF Sound, Typed, Fields
  <1>5. CountFin(k) = k \/ CountFin(k) = s
    BY <1>1, <1>4, Zenon DEF CountFin
  <1>. QED BY <1>3, <1>5, LeavesSame, Zenon

LEMMA SetFinSequenceLeaves ==
    ASSUME NEW a, NEW k, Sound(a, k), NEW seq
    PROVE  Leaves(a, k, SetFinSequence(k, seq))
  <1>0. k.nextRx \in Nat /\ DOMAIN k.store \in SUBSET Nat /\ IsFiniteSet(DOMAIN k.store)
    BY Zenon DEF Sound, Typed, Counts, Others
  <1>1. PICK s : s = [k EXCEPT !.inOrder = k.inOrder, !.store = k.store, !.nextRx = k.nextRx,
                               !.finSeq = seq]
    OBVIOUS
  <1>2. Leaves(a, k, s)
    BY <1>0, <1>1, ReceivesLeave
  <1>3. [k EXCEPT !.finSeq = seq] = s
    BY <1>1 DEF Sound, Typed, Fields
  <1>4. Leaves(a, s, CountFin(s))
    BY <1>2, LeavesSound, CountFinLeaves, Zenon
  <1>. QED BY <1>2, <1>3, <1>4, LeavesAll, Zenon DEF SetFinSequence

(* Behind the bytes that are there is one that is not. *)
LEMMA FirstGapTyped ==
    ASSUME NEW k, k.nextRx \in Nat, NEW all, IsFiniteSet(DOMAIN all)
    PROVE  FirstGap(k, all) \in Nat
  <1>. DEFINE D == DOMAIN all
              c == Cardinality(D)
              near == k.nextRx .. (k.nextRx + c)
              free == {s \in near : s \notin D}
  <1>1. c \in Nat
    BY FS_CardinalityType
  <1>2. IsFiniteSet(near) /\ Cardinality(near) = c + 1
    <2>1. k.nextRx \in Int /\ k.nextRx + c \in Int /\ ~(k.nextRx > k.nextRx + c)
      BY <1>1
    <2>2. IsFiniteSet(near) /\ Cardinality(near) = (k.nextRx + c) - k.nextRx + 1
      BY <2>1, FS_Interval
    <2>. HIDE DEF c, near
    <2>. QED BY <1>1, <2>2
  <1>3. ~(near \subseteq D)
    <2>1. SUFFICES ASSUME near \subseteq D PROVE FALSE
      OBVIOUS
    <2>2. Cardinality(near) <= c
      BY <2>1, FS_Subset
    <2>. HIDE DEF c, near
    <2>. QED BY <1>1, <1>2, <2>2
  <1>4. free # {} /\ free \subseteq Nat
    <2>1. near \subseteq Nat
      <3>. HIDE DEF c
      <3>. QED BY <1>1
    <2>. HIDE DEF near, D
    <2>. QED BY <1>3, <2>1
  <1>5. Min(free) \in Nat
    <2>. HIDE DEF free
    <2>. QED BY <1>4, LeastOf
  <1>. QED BY <1>5, Zenon DEF FirstGap

LEMMA AddToRxLeaves ==
    ASSUME NEW a, NEW k, Sound(a, k), NEW h \in Segments
    PROVE  Leaves(a, k, AddToRx(k, h))
  <1>0. k.nextRx \in Nat /\ DOMAIN k.store \in SUBSET Nat /\ IsFiniteSet(DOMAIN k.store)
    BY Zenon DEF Sound, Typed, Counts, Others
  <1>1. PICK past \in Nat : past = h.seq + Len(h.data)
    <2>1. h.seq \in Nat /\ h.data \in Seq(Nat)
      BY DEF Segments
    <2>. QED BY <2>1
  <1>2. PICK new \in SUBSET Nat : new = NewBytes(k, h) /\ IsFiniteSet(new)
    <2>1. k.nextRx .. past - 1 \subseteq Nat
      BY <1>0, <1>1
    <2>2. IsFiniteSet(k.nextRx .. past - 1)
      <3>1. k.nextRx \in Int /\ past - 1 \in Int
        BY <1>0, <1>1
      <3>. QED BY <3>1, FS_Interval
    <2>3. NewBytes(k, h) \subseteq k.nextRx .. past - 1
      BY <1>1 DEF NewBytes
    <2>4. IsFiniteSet(NewBytes(k, h))
      BY <2>2, <2>3, FS_Subset, Zenon
    <2>. QED BY <2>1, <2>3, <2>4
  <1>3. PICK all : all = Stored(k, h, new)
    OBVIOUS
  <1>4. DOMAIN all \in SUBSET Nat /\ IsFiniteSet(DOMAIN all)
    <2>1. DOMAIN all = DOMAIN k.store \cup new
      BY <1>3 DEF Stored, Held
    <2>2. IsFiniteSet(DOMAIN k.store \cup new)
      BY <1>0, <1>2, FS_Union
    <2>. QED BY <1>0, <1>2, <2>1, <2>2
  <1>5. PICK next \in Nat : next = FirstGap(k, all)
    BY <1>0, <1>4, FirstGapTyped
  <1>6. PICK waits : waits = k.inOrder \o [i \in 1 .. next - k.nextRx |-> all[k.nextRx + i - 1]]
    OBVIOUS
  <1>7. PICK rest : rest = [s \in {t \in DOMAIN all : t > next} |-> all[s]]
    OBVIOUS
  <1>8. DOMAIN rest \in SUBSET Nat /\ IsFiniteSet(DOMAIN rest)
    <2>1. DOMAIN rest \subseteq DOMAIN all
      BY <1>7
    <2>2. IsFiniteSet(DOMAIN rest)
      BY <1>4, <2>1, FS_Subset, Zenon
    <2>. QED BY <1>4, <2>1, <2>2
  <1>9. PICK s : s = [k EXCEPT !.inOrder = waits, !.store = rest, !.nextRx = next,
                               !.finSeq = k.finSeq]
    OBVIOUS
  <1>10. Leaves(a, k, s)
    BY <1>8, <1>9, ReceivesLeave
  <1>11. MoveOn(k, all, next) = s
    <2>1. MoveOn(k, all, next) = [k EXCEPT !.inOrder = waits, !.store = rest, !.nextRx = next]
      BY <1>6, <1>7, Zenon DEF MoveOn
    <2>2. [k EXCEPT !.inOrder = waits, !.store = rest, !.nextRx = next] = s
      BY <1>9 DEF Sound, Typed, Fields
    <2>. QED BY <2>1, <2>2, Zenon
  <1>12. AddToRx(k, h) = CountFin(s)
    BY <1>2, <1>3, <1>5, <1>11, Zenon DEF AddToRx, InOrderOf
  <1>13. Leaves(a, s, CountFin(s))
    BY <1>10, LeavesSound, CountFinLeaves, Zenon
  <1>. QED BY <1>10, <1>12, <1>13, LeavesAll, Zenon

-----------------------------------------------------------------------------
(* Data and FIN. *)
LEMMA DoPeerCloseLeaves ==
    ASSUME Configured, NEW a, NEW k, Sound(a, k)
    PROVE  Leaves(a, k, DoPeerClose(k))
  <1>1. PICK n : /\ n = NsAssert(k, "peerClose", k.state \in {"ESTABLISHED", "SYN_RCVD"})
                 /\ Leaves(a, k, n) /\ Sound(a, n)
    BY NsAssertLeaves, LeavesSound, Zenon
  <1>2. PICK c : c = [n EXCEPT !.state = "CLOSE_WAIT"] /\ Leaves(a, n, c) /\ Sound(a, c)
    <2>1. "CLOSE_WAIT" \in Closing
      BY DEF Closing
    <2>. QED BY <1>1, <2>1, StateLeaves, LeavesSound, ZenonT(40)
  <1>3. PICK w : w = [c EXCEPT !.closeNotified = TRUE] /\ Leaves(a, c, w) /\ Sound(a, w)
    BY <1>2, MarksLeave, LeavesSound, Zenon
  <1>4. w = [n EXCEPT !.state = "CLOSE_WAIT", !.closeNotified = TRUE]
    BY <1>1, <1>2, <1>3 DEF Sound, Typed, Fields
  <1>5. PICK t : /\ t = (IF k.shutdownSend THEN Close(w) ELSE SendEmptyPacket(w, {"ACK"}))
                 /\ Leaves(a, w, t) /\ Sound(a, t)
    BY <1>3, CloseLeaves, Acknowledges, LeavesSound, Zenon
  <1>6. PICK b : b = (t.lastAck \/ t.state = "LAST_ACK")
    OBVIOUS
  <1>7. Leaves(a, t, [t EXCEPT !.lastAck = b])
    BY <1>5, MarksLeave, Zenon
  <1>8. DoPeerClose(k) = [t EXCEPT !.lastAck = b]
    BY <1>1, <1>4, <1>5, <1>6, Zenon DEF DoPeerClose, TimeLastAck
  <1>9. Leaves(a, k, c)
    BY <1>1, <1>2, LeavesAll, Zenon
  <1>10. Leaves(a, k, w)
    BY <1>3, <1>9, LeavesAll, Zenon
  <1>11. Leaves(a, k, t)
    BY <1>5, <1>10, LeavesAll, Zenon
  <1>. QED BY <1>7, <1>8, <1>11, LeavesAll, Zenon

LEMMA DelayAckLeaves ==
    ASSUME Configured, NEW a, NEW k, Sound(a, k)
    PROVE  Leaves(a, k, DelayAck(k))
  <1>1. PICK zero \in Nat : zero = 0
    OBVIOUS
  <1>2. PICK s : s = [k EXCEPT !.delAck = FALSE, !.delAckCount = zero] /\ Leaves(a, k, s)
    BY DelAckLeaves, Zenon
  <1>3. Leaves(a, s, SendEmptyPacket(s, {"ACK"}))
    BY <1>2, LeavesSound, Acknowledges, Zenon
  <1>4. PICK more \in Nat : more = k.delAckCount + 1
    <2>1. k.delAckCount \in Nat
      BY Zenon DEF Sound, Typed, Counts
    <2>. QED BY <2>1
  <1>5. PICK t : t = [k EXCEPT !.delAckCount = more, !.delAck = TRUE] /\ Leaves(a, k, t)
    BY DelAckLeaves, Zenon
  <1>6. DelayAck(k) = SendEmptyPacket(s, {"ACK"}) \/ DelayAck(k) = t
    BY <1>1, <1>2, <1>4, <1>5, Zenon DEF DelayAck
  <1>. QED BY <1>2, <1>3, <1>5, <1>6, LeavesAll, Zenon

LEMMA ReceivedDataLeaves ==
    ASSUME Configured, NEW a, NEW k, Sound(a, k), NEW h \in Segments
    PROVE  Leaves(a, k, ReceivedData(k, h))
  <1>1. Leaves(a, k, SendEmptyPacket(k, {"ACK"}))
    BY Acknowledges, Zenon
  <1>2. PICK new : new = AddToRx(k, h) /\ Leaves(a, k, new) /\ Sound(a, new)
    BY AddToRxLeaves, LeavesSound, Zenon
  <1>3. PICK acked : acked = AckData(k, h, new) /\ Leaves(a, new, acked) /\ Sound(a, acked)
    BY <1>2, DelayAckLeaves, Acknowledges, LeavesSound, Zenon DEF AckData
  <1>4. PICK told : told = NotifyDataRecv(acked) /\ Leaves(a, acked, told) /\ Sound(a, told)
    BY <1>3, NotifyDataRecvLeaves, LeavesSound, Zenon
  <1>5. PICK fin : fin = FinInOrder(told, h) /\ Leaves(a, told, fin)
    BY <1>4, DoPeerCloseLeaves, LeavesSame, Zenon DEF FinInOrder
  <1>6. Leaves(a, k, acked)
    BY <1>2, <1>3, LeavesAll, Zenon
  <1>7. Leaves(a, k, told)
    BY <1>4, <1>6, LeavesAll, Zenon
  <1>8. Leaves(a, k, fin)
    BY <1>5, <1>7, LeavesAll, Zenon
  <1>9. ReceivedData(k, h) \in {SendEmptyPacket(k, {"ACK"}), acked, fin}
    BY <1>2, <1>3, <1>4, <1>5, Zenon DEF ReceivedData, TellApplication
  <1>. QED BY <1>1, <1>6, <1>8, <1>9, Zenon

LEMMA TakeDataLeaves ==
    ASSUME Configured, NEW a, NEW k, Sound(a, k), NEW h \in Segments
    PROVE  Leaves(a, k, TakeData(k, h))
  BY ReceivedDataLeaves, LeavesSame, Zenon DEF TakeData

LEMMA PeerCloseLeaves ==
    ASSUME Configured, NEW a, NEW k, Sound(a, k), NEW h \in Segments
    PROVE  Leaves(a, k, PeerClose(k, h))
  <1>1. PICK s : s = SetFinSequence(k, h.seq + Len(h.data)) /\ Leaves(a, k, s) /\ Sound(a, s)
    BY SetFinSequenceLeaves, LeavesSound, Zenon
  <1>2. PICK t : t = TakeData(s, h) /\ Leaves(a, s, t) /\ Sound(a, t)
    BY <1>1, TakeDataLeaves, LeavesSound, Zenon
  <1>3. Leaves(a, t, CloseIfFinished(t))
    <2>1. Leaves(a, t, [t EXCEPT !.state = "CLOSING"])
      <3>1. "CLOSING" \in Closing
        BY DEF Closing
      <3>. QED BY <1>2, <3>1, StateLeaves, Zenon
    <2>. QED BY <1>2, <2>1, DoPeerCloseLeaves, LeavesSame, Zenon DEF CloseIfFinished
  <1>4. Leaves(a, k, t)
    BY <1>1, <1>2, LeavesAll, Zenon
  <1>5. PeerClose(k, h) = k \/ PeerClose(k, h) = CloseIfFinished(t)
    BY <1>1, <1>2, Zenon DEF PeerClose
  <1>. QED BY <1>3, <1>4, <1>5, LeavesAll, LeavesSame, Zenon

LEMMA RefuseLeaves ==
    ASSUME Configured, NEW a, NEW k, Sound(a, k), NEW h
    PROVE  Leaves(a, k, Refuse(k, h))
  BY CloseAndNotifyLeaves, ResetAndNotifyLeaves, Zenon DEF Refuse

LEMMA CloseAfterLeaves ==
    ASSUME Configured, NEW a, NEW k, Sound(a, k), NEW h \in Segments
    PROVE  Leaves(a, k, CloseAfter(k, h))
  BY PeerCloseLeaves, LeavesSame, Zenon DEF CloseAfter

-----------------------------------------------------------------------------
(* Acknowledgements. *)

(* What the congestion control changes: the window and its own state. *)
Adapts(k, s) ==
    /\ s.head = k.head /\ s.nextTx = k.nextTx /\ s.highTxMark = k.highTxMark /\ s.tx = k.tx
    /\ s.rWnd = k.rWnd /\ s.state = k.state /\ s.endPoint = k.endPoint /\ s.persist = k.persist
    /\ LossIsMarked(s)
    /\ Algorithm = "Fixed" /\ Careful => s.cWnd <= ConstantWindow

(* What a loss is told by. *)
Steady(k, s) ==
    s.head = k.head /\ s.recover = k.recover /\ s.congState = k.congState /\ s.state = k.state

LEMMA AdaptsFollows ==
    ASSUME NEW a, NEW k, Sound(a, k), k.state \notin Young, NEW s, Typed(s), Adapts(k, s),
           Silent(k, s)
    PROVE  Follows(a, k, s)
  <1>0. Kept(k)
    BY Zenon DEF Sound
  <1>1. SentIsHeld(s) /\ NothingSent(s) /\ ZeroIsProbed(s)
    BY <1>0, Zenon DEF Kept, SentIsHeld, TailSequence, NothingSent, ZeroIsProbed, Adapts
  <1>2. WindowIsFixed(s)
    BY <1>0, Zenon DEF Kept, WindowIsFixed, Adapts
  <1>3. Kept(s)
    BY <1>1, <1>2, Zenon DEF Kept, Adapts
  <1>4. Behind(k) => Behind(s)
    BY Zenon DEF Behind, Adapts
  <1>5. s.state = k.state
    BY Zenon DEF Adapts
  <1>. QED BY <1>3, <1>4, <1>5, FollowsBy, Zenon

(* The window a socket has after a step of its congestion control. *)
Fits(w) == w \in Nat /\ (Algorithm = "Fixed" /\ Careful => w <= ConstantWindow)

LEMMA OwnWindowFits ==
    ASSUME Configured, NEW k, Typed(k), Kept(k)
    PROVE  /\ Fits(k.cWnd) /\ Fits(PktsAcked(k.cWnd))
           /\ \A w \in Nat : ReducesWindow => Fits(w)
  <1>1. k.cWnd \in Nat /\ ConstantWindow \in Nat /\ (Careful => ~ReducesWindow)
    BY Numbers, ConstantWindowFacts, Zenon DEF Careful
  <1>2. Algorithm = "Fixed" /\ Careful => k.cWnd <= ConstantWindow
    BY Zenon DEF Kept, WindowIsFixed
  <1>3. ConstantWindow <= ConstantWindow
    BY <1>1
  <1>. QED BY <1>1, <1>2, <1>3, Zenon DEF Fits, PktsAcked

LEMMA PktsAckedFits ==
    ASSUME Configured, NEW k, NEW w, Fits(w)
    PROVE  Fits(PktsAcked(w))
  <1>1. ConstantWindow \in Nat /\ ConstantWindow <= ConstantWindow
    BY ConstantWindowFacts
  <1>. QED BY <1>1, Zenon DEF Fits, PktsAcked

LEMMA WindowFollows ==
    ASSUME NEW a, NEW k, Sound(a, k), k.state \notin Young, NEW w, Fits(w)
    PROVE  Follows(a, k, [k EXCEPT !.cWnd = w]) /\ Steady(k, [k EXCEPT !.cWnd = w])
  <1>0. Typed(k) /\ Kept(k) /\ w \in Nat
    BY Zenon DEF Sound, Fits
  <1>1. PICK s : s = [k EXCEPT !.cWnd = w]
    OBVIOUS
  <1>2. Typed(s)
    BY <1>0, <1>1 DEF Typed, Counts, Others, Fields
  <1>3. Silent(k, s)
    BY <1>0, <1>1 DEF Typed, Fields, Silent
  <1>4. /\ s.head = k.head /\ s.nextTx = k.nextTx /\ s.highTxMark = k.highTxMark /\ s.tx = k.tx
        /\ s.recover = k.recover /\ s.congState = k.congState /\ s.cWnd = w
        /\ s.rWnd = k.rWnd
        /\ s.endPoint = k.endPoint /\ s.persist = k.persist /\ s.state = k.state
    BY <1>0, <1>1 DEF Typed, Fields
  <1>5. Adapts(k, s)
    BY <1>0, <1>4, Zenon DEF Adapts, Fits, Kept, LossIsMarked
  <1>6. Steady(k, s)
    BY <1>4, Zenon DEF Steady
  <1>. QED BY <1>1, <1>2, <1>3, <1>5, <1>6, AdaptsFollows, Zenon

(* The state of the congestion control and the counters of a loss. *)
Adjusted(k, s, w, cong, dups, resent, mark) ==
    s = [k EXCEPT !.cWnd = w, !.congState = cong, !.dupAckCount = dups,
                  !.retransOut = resent, !.firstPartialAck = mark]

LEMMA CongestionFollows ==
    ASSUME NEW a, NEW k, Sound(a, k), k.state \notin Young, NEW w, Fits(w),
           NEW cong, cong = k.congState \/ cong = "OPEN" \/ cong = "DISORDER",
           NEW dups \in Nat, NEW resent \in Nat, NEW mark,
           NEW s, Adjusted(k, s, w, cong, dups, resent, mark)
    PROVE  /\ Follows(a, k, s) /\ s.head = k.head /\ s.recover = k.recover /\ s.congState = cong
           /\ s.state = k.state
  <1>0. Typed(k) /\ Kept(k) /\ w \in Nat
    BY Zenon DEF Sound, Fits
  <1>1. cong \in CongStates
    BY <1>0 DEF CongStates, Typed, Others
  <1>2. Typed(s)
    BY <1>0, <1>1 DEF Typed, Counts, Others, Fields, Adjusted
  <1>3. Silent(k, s)
    BY <1>0 DEF Typed, Fields, Silent, Adjusted
  <1>4. /\ s.head = k.head /\ s.nextTx = k.nextTx /\ s.highTxMark = k.highTxMark /\ s.tx = k.tx
        /\ s.recover = k.recover /\ s.congState = cong /\ s.cWnd = w
        /\ s.rWnd = k.rWnd
        /\ s.endPoint = k.endPoint /\ s.persist = k.persist /\ s.state = k.state
    BY <1>0 DEF Typed, Fields, Adjusted
  <1>5. LossIsMarked(s)
    BY <1>0, <1>4 DEF Kept, LossIsMarked
  <1>6. Adapts(k, s)
    BY <1>4, <1>5, Zenon DEF Adapts, Fits
  <1>. QED BY <1>2, <1>3, <1>4, <1>6, AdaptsFollows, Zenon

LEMMA DuplicatesLeave ==
    ASSUME NEW a, NEW k, Sound(a, k), NEW n \in Nat
    PROVE  /\ Leaves(a, k, [k EXCEPT !.dupAckCount = n])
           /\ [k EXCEPT !.dupAckCount = n].state = k.state
  <1>1. PICK s : s = [k EXCEPT !.dupAckCount = n]
    OBVIOUS
  <1>2. Typed(s)
    BY <1>1 DEF Sound, Typed, Counts, Others, Fields
  <1>3. Keeps(k, s) /\ Silent(k, s) /\ s.state = k.state
    BY <1>1 DEF Sound, Typed, Fields, Keeps, Silent
  <1>. QED BY <1>1, <1>2, <1>3, SilentLeaves, Zenon

LEMMA EnterRecoveryFollows ==
    ASSUME Configured, NEW a, NEW k, Sound(a, k), k.state \notin Young, k.head < k.highTxMark
    PROVE  Follows(a, k, EnterRecovery(k))
  <1>0. /\ Typed(k) /\ Kept(k) /\ k.cWnd \in Nat /\ k.dupAckCount \in Nat /\ SegSize \in Nat
        /\ k.highTxMark \in Nat
    BY Numbers, Configuration, Zenon DEF Sound
  <1>1. PICK thresh \in Nat : thresh = GetSsThresh(BytesInFlight(k))
    BY <1>0, ThreshTyped, Zenon
  <1>2. PICK w : /\ w = (IF ReducesWindow THEN thresh + k.dupAckCount * SegSize ELSE k.cWnd)
                 /\ Fits(w)
    <2>1. PICK more \in Nat : more = k.dupAckCount * SegSize
      <3>1. \A m, n \in Nat : m * n \in Nat
        OBVIOUS
      <3>. QED BY <1>0, <3>1
    <2>2. thresh + more \in Nat
      OBVIOUS
    <2>. QED BY <1>0, <2>1, <2>2, OwnWindowFits, Zenon
  <1>3. PICK s : s = [k EXCEPT !.recover = k.highTxMark, !.congState = "RECOVERY",
                               !.ssThresh = thresh, !.cWnd = w]
    OBVIOUS
  <1>4. w \in Nat /\ "RECOVERY" \in CongStates
    BY <1>2, Zenon DEF Fits, CongStates
  <1>5. Typed(s)
    BY <1>0, <1>3, <1>4 DEF Typed, Counts, Others, Fields
  <1>6. Silent(k, s)
    BY <1>0, <1>3 DEF Typed, Fields, Silent
  <1>7. /\ s.head = k.head /\ s.nextTx = k.nextTx /\ s.highTxMark = k.highTxMark /\ s.tx = k.tx
        /\ s.recover = k.highTxMark /\ s.congState = "RECOVERY" /\ s.cWnd = w
        /\ s.rWnd = k.rWnd
        /\ s.endPoint = k.endPoint /\ s.persist = k.persist /\ s.state = k.state
    BY <1>0, <1>3 DEF Typed, Fields
  <1>8. LossIsMarked(s)
    BY <1>0, <1>7 DEF LossIsMarked
  <1>9. Adapts(k, s)
    BY <1>2, <1>7, <1>8, Zenon DEF Adapts, Fits
  <1>10. Follows(a, k, s) /\ Sound(a, s)
    BY <1>5, <1>6, <1>9, AdaptsFollows, FollowsSound, Zenon
  <1>11. Follows(a, s, DoRetransmit(s))
    BY <1>10, DoRetransmitFollows, Zenon
  <1>12. EnterRecovery(k) = DoRetransmit(s)
    BY <1>1, <1>2, <1>3, Zenon DEF EnterRecovery
  <1>. QED BY <1>10, <1>11, <1>12, Together, Zenon

LEMMA InflateFollows ==
    ASSUME Configured, NEW a, NEW k, Sound(a, k), k.state \notin Young, NEW bytes \in Nat
    PROVE  Follows(a, k, Inflate(k, bytes))
  <1>0. Typed(k) /\ Kept(k) /\ k.cWnd \in Nat
    BY Numbers, Zenon DEF Sound
  <1>1. k.cWnd + bytes \in Nat
    BY <1>0
  <1>2. ASSUME ReducesWindow PROVE Follows(a, k, [k EXCEPT !.cWnd = k.cWnd + bytes])
    BY <1>0, <1>1, <1>2, OwnWindowFits, WindowFollows, Zenon
  <1>3. Inflate(k, bytes) = IF ReducesWindow THEN [k EXCEPT !.cWnd = k.cWnd + bytes] ELSE k
    BY DEF Inflate
  <1>. QED BY <1>2, <1>3, Stays, Zenon

LEMMA DuplicateAckFollows ==
    ASSUME Configured, NEW a, NEW k, Sound(a, k), Behind(k), k.state \notin Young,
           k.head < k.highTxMark
    PROVE  Follows(a, k, DuplicateAck(k))
  <1>0. Typed(k) /\ Kept(k) /\ k.dupAckCount \in Nat /\ k.congState \in CongStates /\ SegSize \in Nat
    BY Numbers, Configuration, Zenon DEF Sound, Typed, Others
  <1>1. PICK n \in Nat : n = k.dupAckCount + 1
    BY <1>0
  <1>2. PICK s : s = [k EXCEPT !.dupAckCount = n] /\ Leaves(a, k, s) /\ s.state = k.state
    BY DuplicatesLeave, Zenon
  <1>3. Follows(a, k, s) /\ Keeps(k, s) /\ Sound(a, s) /\ Typed(s) /\ Behind(s)
    BY <1>2, LeavesFollows, FollowsSound, Zenon
  <1>4. PICK first : /\ first = NsAssert(s, "firstDupAck", s.dupAckCount = 1)
                     /\ Leaves(a, s, first)
    BY <1>3, NsAssertLeaves, Zenon
  <1>5. /\ Follows(a, s, first) /\ Sound(a, first) /\ Typed(first) /\ Behind(first)
        /\ first.state \notin Young
    <2>1. Follows(a, s, first)
      BY <1>4, LeavesFollows, Zenon
    <2>2. s.state \notin Young
      BY <1>2, Zenon
    <2>. QED BY <1>3, <2>1, <2>2, FollowsSound, Zenon
  <1>6. Follows(a, k, LimitedTransmit([first EXCEPT !.congState = "DISORDER"]))
    <2>1. PICK w, r, d, p : w = first.cWnd /\ r = first.retransOut /\ d = first.dupAckCount
                            /\ p = first.firstPartialAck
      OBVIOUS
    <2>2. r \in Nat /\ d \in Nat /\ Fits(w)
      <3>1. Kept(first)
        BY <1>5, Zenon DEF Sound
      <3>. QED BY <1>5, <2>1, <3>1, Numbers, OwnWindowFits, Zenon
    <2>c. PICK cong : cong = "DISORDER"
      OBVIOUS
    <2>3. PICK t : Adjusted(first, t, w, cong, d, r, p)
      BY DEF Adjusted
    <2>4. Follows(a, first, t) /\ t.state = first.state
      BY <1>5, <2>2, <2>c, <2>3, CongestionFollows
    <2>5. [first EXCEPT !.congState = "DISORDER"] = t
      BY <1>5, <2>1, <2>c, <2>3 DEF Typed, Fields, Adjusted
    <2>6. Follows(a, t, LimitedTransmit(t))
      BY <1>5, <2>4, FollowsSound, LimitedTransmitFollows, Zenon
    <2>7. Follows(a, k, first)
      BY <1>3, <1>5, Together, Zenon
    <2>8. Follows(a, k, t)
      BY <2>4, <2>7, Together, Zenon
    <2>. QED BY <2>5, <2>6, <2>8, Together, Zenon
  <1>7. Follows(a, k, EnterRecovery(s))
    <2>1. s.head < s.highTxMark
      BY <1>3 DEF Keeps
    <2>2. Follows(a, s, EnterRecovery(s))
      BY <1>2, <1>3, <2>1, EnterRecoveryFollows, Zenon
    <2>. QED BY <1>3, <2>2, Together, Zenon
  <1>8. Follows(a, k, LimitedTransmit(s))
    <2>1. Follows(a, s, LimitedTransmit(s))
      BY <1>2, <1>3, LimitedTransmitFollows, Zenon
    <2>. QED BY <1>3, <2>1, Together, Zenon
  <1>9. Follows(a, k, SendPendingData(Inflate(s, SegSize), s.connected))
    <2>1. PICK i : i = Inflate(s, SegSize) /\ Follows(a, s, i)
      BY <1>0, <1>2, <1>3, InflateFollows, Zenon
    <2>2. Follows(a, i, SendPendingData(i, s.connected))
      BY <1>3, <2>1, FollowsSound, SendPendingDataFollows, Zenon
    <2>3. Follows(a, k, i)
      BY <1>3, <2>1, Together, Zenon
    <2>. QED BY <2>1, <2>2, <2>3, Together, Zenon
  <1>. DEFINE done == CASE s.congState = "OPEN" ->
                        LimitedTransmit([first EXCEPT !.congState = "DISORDER"])
                  [] s.congState = "DISORDER" ->
                        IF s.dupAckCount = RetxThresh /\ s.highRxAckMark >= s.recover
                        THEN EnterRecovery(s) ELSE LimitedTransmit(s)
                  [] s.congState = "RECOVERY" ->
                        SendPendingData(Inflate(s, SegSize), s.connected)
                  [] s.congState = "LOSS" -> s
  <1>10. PICK d : d = done /\ Follows(a, k, d)
    <2>1. s.congState \in {"OPEN", "DISORDER", "RECOVERY", "LOSS"}
      BY <1>0, <1>3 DEF Keeps, CongStates
    <2>2. done \in {LimitedTransmit([first EXCEPT !.congState = "DISORDER"]), EnterRecovery(s),
                    LimitedTransmit(s), SendPendingData(Inflate(s, SegSize), s.connected), s}
      BY <2>1
    <2>. HIDE DEF done
    <2>. QED BY <1>3, <1>6, <1>7, <1>8, <1>9, <2>2, Zenon
  <1>11. Sound(a, d) /\ Typed(d) /\ Kept(d) /\ d.state \notin Young
    BY <1>10, FollowsSound, Zenon
  <1>12. Follows(a, d, [d EXCEPT !.cWnd = PktsAcked(d.cWnd)])
    BY <1>11, OwnWindowFits, WindowFollows, Zenon
  <1>13. DuplicateAck(k) = [d EXCEPT !.cWnd = PktsAcked(d.cWnd)]
    BY <1>1, <1>2, <1>4, <1>10 DEF DuplicateAck
  <1>. QED BY <1>10, <1>12, <1>13, Together, Zenon

(* What was acknowledged leaves the transmit buffer; the next place to     *)
(* send from may be behind it for a while.                                 *)
LEMMA SoundBy ==
    ASSUME NEW a, NEW k, Sound(a, k), NEW s, Typed(s), Kept(s), Silent(k, s),
           s.state = k.state \/ s.state \notin Young
    PROVE  Sound(a, s)
  <1>1. Answering(k) => Answering(s)
    BY DEF Answering, Silent, Young
  <1>. QED BY <1>1 DEF Sound

LEMMA DiscardUpToSound ==
    ASSUME Configured, NEW a, NEW k, Sound(a, k), k.state \notin Young, NEW ack \in Nat, k.head <= ack,
           k.congState = "RECOVERY" => ack < k.recover
    PROVE  /\ Sound(a, DiscardUpTo(k, ack)) /\ DiscardUpTo(k, ack).head = ack
           /\ DiscardUpTo(k, ack).state = k.state /\ DiscardUpTo(k, ack).recover = k.recover
           /\ DiscardUpTo(k, ack).congState = k.congState
  <1>0. /\ Typed(k) /\ Kept(k) /\ k.head \in Nat /\ k.nextTx \in Nat /\ k.highTxMark \in Nat
        /\ k.tx \in Seq(Nat) /\ Len(k.tx) \in Nat /\ TailSequence(k) = k.head + Len(k.tx)
    BY Numbers, Zenon DEF Sound
  <1>1. CASE ack <= k.head
    <2>1. ack = k.head
      BY <1>0, <1>1
    <2>. QED BY <1>1, <2>1, Zenon DEF DiscardUpTo
  <1>2. CASE ~(ack <= k.head)
    <2>1. PICK n \in Nat : n = ack - k.head
      BY <1>0, <1>2
    <2>2. PICK tx \in Seq(Nat) : /\ tx = SubSeq(k.tx, ack - k.head + 1, Len(k.tx))
                                 /\ Len(tx) = IF n <= Len(k.tx) THEN Len(k.tx) - n ELSE 0
      <3>1. PICK old \in Seq(Nat) : old = k.tx
        BY <1>0, Zenon
      <3>2. SubSeq(old, n + 1, Len(old)) \in Seq(Nat)
        OBVIOUS
      <3>3. Len(SubSeq(old, n + 1, Len(old))) = IF n <= Len(old) THEN Len(old) - n ELSE 0
        BY SMTT(30)
      <3>. QED BY <2>1, <3>1, <3>2, <3>3, Zenon
    <2>3. PICK s : s = [k EXCEPT !.tx = tx, !.head = ack]
      OBVIOUS
    <2>4. DiscardUpTo(k, ack) = s
      BY <1>2, <2>2, <2>3, Zenon DEF DiscardUpTo
    <2>5. Typed(s)
      BY <1>0, <2>3 DEF Typed, Counts, Others, Fields
    <2>6. /\ s.head = ack /\ s.nextTx = k.nextTx /\ s.highTxMark = k.highTxMark /\ s.tx = tx
          /\ s.recover = k.recover /\ s.congState = k.congState /\ s.cWnd = k.cWnd
          /\ s.rWnd = k.rWnd
          /\ s.endPoint = k.endPoint /\ s.persist = k.persist /\ s.state = k.state
      BY <1>0, <2>3 DEF Typed, Fields
    <2>7. Silent(k, s)
      BY <1>0, <2>3 DEF Typed, Fields, Silent
    <2>8. SentIsHeld(s)
      <3>1. Len(k.tx) <= SndBuf /\ k.nextTx <= k.head + Len(k.tx)
            /\ k.highTxMark <= k.head + Len(k.tx)
        BY <1>0, Zenon DEF Kept, SentIsHeld
      <3>2. k.nextTx <= Larger(k.head, k.highTxMark)
        BY <1>0, Zenon DEF Kept, SentIsHeld
      <3>3. Len(tx) <= Len(k.tx) /\ k.head + Len(k.tx) <= ack + Len(tx)
        <4>1. PICK m \in Nat, l \in Nat : m = Len(k.tx) /\ l = Len(tx)
          BY <1>0, <2>2
        <4>2. l = IF n <= m THEN m - n ELSE 0
          BY <2>2, <4>1, Zenon
        <4>3. l <= m /\ k.head + m <= ack + l
          BY <1>0, <1>2, <2>1, <4>2, SMTT(30)
        <4>. QED BY <4>1, <4>3, Zenon
      <3>4. k.nextTx <= Larger(ack, k.highTxMark)
        BY <1>0, <1>2, <3>2 DEF Larger
      <3>5. Len(tx) \in Nat
        BY <2>2
      <3>6. SndBuf \in Nat
        BY Configuration, Zenon
      <3>7. Len(tx) <= SndBuf /\ k.nextTx <= ack + Len(tx) /\ k.highTxMark <= ack + Len(tx)
        BY <1>0, <3>1, <3>3, <3>5, <3>6
      <3>. QED BY <2>6, <3>4, <3>7, Zenon DEF SentIsHeld, TailSequence
    <2>9. LossIsMarked(s)
      BY <1>0, <2>6 DEF Kept, LossIsMarked
    <2>10. NothingSent(s)
      BY <2>6, Zenon DEF NothingSent
    <2>11. ZeroIsProbed(s)
      BY <1>0, <2>6, Zenon DEF Kept, ZeroIsProbed
    <2>12. WindowIsFixed(s)
      <3>1. ASSUME Algorithm = "Fixed", Careful
            PROVE  k.cWnd <= ConstantWindow /\ k.highTxMark <= ack + ConstantWindow
        <4>1. k.cWnd <= ConstantWindow /\ k.highTxMark <= k.head + ConstantWindow
          BY <1>0, <3>1, Zenon DEF Kept, WindowIsFixed
        <4>. QED BY <1>0, <4>1, ConstantWindowFacts
      <3>. QED BY <2>6, <3>1, Zenon DEF WindowIsFixed
    <2>13. Kept(s)
      BY <2>8, <2>9, <2>10, <2>11, <2>12, Zenon DEF Kept
    <2>. QED BY <2>4, <2>5, <2>6, <2>7, <2>13, SoundBy, Zenon
  <1>. QED BY <1>1, <1>2, Zenon

(* The timer is set for data again, or cancelled. *)
LEMMA TimingLeaves ==
    ASSUME NEW a, NEW k, Sound(a, k), NEW retx \in {k.retx, {}, {"DATA"}}
    PROVE  Leaves(a, k, [k EXCEPT !.retx = retx]) /\ [k EXCEPT !.retx = retx].state = k.state
  <1>1. PICK s : s = [k EXCEPT !.retx = retx]
    OBVIOUS
  <1>2. retx \in Timings
    BY DEF Sound, Typed, Others, Timings
  <1>3. Typed(s)
    BY <1>1, <1>2 DEF Sound, Typed, Counts, Others, Fields
  <1>4. Keeps(k, s) /\ s.state = k.state
    BY <1>1 DEF Sound, Typed, Fields, Keeps
  <1>5. Silent(k, s)
    BY <1>1 DEF Sound, Typed, Fields, Silent
  <1>. QED BY <1>1, <1>3, <1>4, <1>5, SilentLeaves, Zenon

LEMMA SkipAckedSound ==
    ASSUME NEW a, NEW k, Sound(a, k), k.state \notin Young, NEW ack \in Nat, k.head = ack
    PROVE  Sound(a, SkipAcked(k, ack)) /\ Behind(SkipAcked(k, ack))
           /\ SkipAcked(k, ack).state = k.state
  <1>0. Typed(k) /\ Kept(k) /\ k.nextTx \in Nat /\ k.highTxMark \in Nat /\ k.retransOut \in Nat
    BY Numbers, Zenon DEF Sound
  <1>1. PICK next \in Nat : /\ next = Larger(k.nextTx, ack) /\ k.head <= next
                            /\ next <= Larger(k.head, k.highTxMark)
    <2>1. k.nextTx <= Larger(k.head, k.highTxMark)
      BY <1>0, Zenon DEF Kept, SentIsHeld
    <2>. QED BY <1>0, <2>1 DEF Larger
  <1>2. PICK count \in Nat : count = k.retransOut
    BY <1>0, Zenon
  <1>3. PICK s : Moved(k, s, next, count)
    BY DEF Moved
  <1>4. Follows(a, k, s) /\ s.nextTx = next
    <2>1. Behind(k) => k.head <= next
      BY <1>1, Zenon
    <2>. QED BY <1>1, <1>2, <1>3, <2>1, MovesOn
  <1>5. s.head = k.head /\ s.retx = k.retx /\ s.state = k.state
    BY <1>0, <1>3 DEF Typed, Fields, Moved
  <1>6. PICK retx : /\ retx = (IF NothingToTime(k) THEN {} ELSE k.retx)
                    /\ retx \in {s.retx, {}, {"DATA"}}
    BY <1>5
  <1>7. PICK t : t = [s EXCEPT !.retx = retx] /\ Leaves(a, s, t) /\ t.state = s.state
    BY <1>4, <1>6, FollowsSound, TimingLeaves, Zenon
  <1>8. SkipAcked(k, ack) = t
    <2>1. SkipAcked(k, ack) = [k EXCEPT !.nextTx = next, !.retx = retx]
      BY <1>1, <1>6, Zenon DEF SkipAcked
    <2>2. [k EXCEPT !.nextTx = next, !.retx = retx] = t
      BY <1>0, <1>2, <1>3, <1>7 DEF Typed, Fields, Moved
    <2>. QED BY <2>1, <2>2, Zenon
  <1>9. Sound(a, t) /\ Behind(t)
    <2>1. Behind(s)
      BY <1>1, <1>4, <1>5 DEF Behind
    <2>. QED BY <1>7, <2>1, LeavesFollows, FollowsSound, Zenon
  <1>. QED BY <1>5, <1>7, <1>8, <1>9, Zenon

LEMMA NewAckFollows ==
    ASSUME Configured, NEW a, NEW k, Sound(a, k), k.state \notin Young, NEW ack \in Nat,
           k.head <= ack, k.congState = "RECOVERY" => ack < k.recover, NEW resetRTO
    PROVE  Follows(a, k, NewAck(k, ack, resetRTO)) /\ Behind(NewAck(k, ack, resetRTO))
  <1>1. PICK timed : /\ timed = (IF resetRTO /\ k.state # "SYN_RCVD"
                                 THEN [k EXCEPT !.retx = {"DATA"}] ELSE k)
                     /\ Leaves(a, k, timed) /\ timed.state = k.state
    <2>1. {"DATA"} \in {k.retx, {}, {"DATA"}}
      OBVIOUS
    <2>2. /\ Leaves(a, k, [k EXCEPT !.retx = {"DATA"}])
          /\ [k EXCEPT !.retx = {"DATA"}].state = k.state
      BY <2>1, TimingLeaves
    <2>. QED BY <2>2, LeavesSame, Zenon
  <1>2. /\ Sound(a, timed) /\ timed.state \notin Young /\ timed.head <= ack
        /\ timed.congState = "RECOVERY" => ack < timed.recover
    <2>1. Sound(a, timed) /\ Keeps(k, timed)
      BY <1>1, LeavesFollows, Zenon
    <2>2. timed.head = k.head /\ timed.recover = k.recover /\ timed.congState = k.congState
      BY <2>1, Zenon DEF Keeps
    <2>. QED BY <1>1, <2>1, <2>2, Zenon
  <1>3. PICK d : /\ d = DiscardUpTo(timed, ack) /\ Sound(a, d) /\ d.head = ack
                 /\ d.state \notin Young
    BY <1>2, DiscardUpToSound, ZenonT(40)
  <1>4. PICK n : /\ n = NotifyIfRoom(d) /\ Sound(a, n) /\ n.head = ack /\ n.state \notin Young
    BY <1>3, NotifyIfRoomFollows, FollowsSound, Zenon
  <1>5. Sound(a, SkipAcked(n, ack)) /\ Behind(SkipAcked(n, ack))
        /\ SkipAcked(n, ack).state \notin Young
    BY <1>4, SkipAckedSound, Zenon
  <1>6. NewAck(k, ack, resetRTO) = SkipAcked(n, ack)
    BY <1>1, <1>3, <1>4, Zenon DEF NewAck
  <1>. QED BY <1>5, <1>6, Zenon DEF Follows

LEMMA DoRetransmitSteady ==
    ASSUME Configured, NEW a, NEW k, Sound(a, k), k.state \notin Young
    PROVE  /\ DoRetransmit(k).head = k.head /\ DoRetransmit(k).recover = k.recover
           /\ DoRetransmit(k).congState = k.congState
  <1>0. k.state # "SYN_SENT"
    BY DEF Young
  <1>1. CASE k.dataRetrCount = 0
    <2>1. Leaves(a, k, NotifyErrorClose(k)) /\ Sound(a, NotifyErrorClose(k))
      BY NotifyErrorCloseLeaves, LeavesSound, Zenon
    <2>2. Leaves(a, NotifyErrorClose(k), DeallocateEndPoint(NotifyErrorClose(k)))
      BY <2>1, DeallocateLeaves, Zenon
    <2>3. Leaves(a, k, DeallocateEndPoint(NotifyErrorClose(k)))
      BY <2>1, <2>2, LeavesAll, Zenon
    <2>. QED BY <1>0, <1>1, <2>3, Zenon DEF DoRetransmit, Leaves, Keeps
  <1>2. CASE k.dataRetrCount # 0
    <2>1. PICK n \in Nat : n = k.dataRetrCount - 1
      <3>1. k.dataRetrCount \in Nat
        BY Zenon DEF Sound, Typed, Counts
      <3>. QED BY <1>2, <3>1
    <2>2. PICK s : s = [k EXCEPT !.dataRetrCount = n] /\ Leaves(a, k, s)
      BY RetryLeaves, Zenon
    <2>3. s.head = k.head /\ s.recover = k.recover /\ s.congState = k.congState
      BY <2>2, Zenon DEF Leaves, Keeps
    <2>4. Sound(a, s) /\ Typed(s)
      BY <2>2, LeavesFollows, Zenon
    <2>5. PICK f : f = SendEmptyPacket(s, {"FIN"}) /\ Leaves(a, s, f)
      BY <2>4, Acknowledges, Zenon
    <2>6. f.head = s.head /\ f.recover = s.recover /\ f.congState = s.congState
      BY <2>5, Zenon DEF Leaves, Keeps
    <2>7. PICK t : t = SendDataPacket(s, s.head, SegSize, TRUE)
      OBVIOUS
    <2>8. t.head = s.head /\ t.recover = s.recover /\ t.congState = s.congState /\ DOMAIN t = Fields
      BY <2>4, <2>7 DEF SendDataPacket, EmitData, UsesEndPoint, NsAssert, Typed, Fields
    <2>9. /\ CountResent(t).head = t.head /\ CountResent(t).recover = t.recover
          /\ CountResent(t).congState = t.congState
      BY <2>8 DEF CountResent, Fields
    <2>10. DoRetransmit(k) \in {f, s, CountResent(t)}
      BY <1>0, <1>2, <2>1, <2>2, <2>5, <2>7 DEF DoRetransmit
    <2>. QED BY <2>3, <2>6, <2>8, <2>9, <2>10, Zenon
  <1>. QED BY <1>1, <1>2, Zenon

LEMMA Subtracted ==
    ASSUME NEW m \in Nat, NEW n \in Nat
    PROVE  SafeSubtraction(m, n) \in Nat
  BY DEF SafeSubtraction, Larger

(* The acknowledgement a recovery goes on with. *)
LEMMA PartialAckSound ==
    ASSUME Configured, NEW a, NEW k, Sound(a, k), k.state \notin Young, k.congState = "RECOVERY",
           NEW h \in Segments, k.head <= h.ack, h.ack < k.recover,
           NEW bytes \in Nat, NEW segs \in Nat
    PROVE  /\ Sound(a, PartialAck(k, h, bytes, segs))
           /\ PartialAck(k, h, bytes, segs).state \notin Young
           /\ PartialAck(k, h, bytes, segs).head = h.ack
           /\ PartialAck(k, h, bytes, segs).recover = k.recover
  <1>0. /\ Typed(k) /\ Kept(k) /\ k.cWnd \in Nat /\ k.dupAckCount \in Nat /\ k.retransOut \in Nat
        /\ SegSize \in Nat /\ h.ack \in Nat
    <2>1. h.ack \in Nat
      BY DEF Segments
    <2>. QED BY <2>1, Numbers, Configuration, Zenon DEF Sound
  <1>1. PICK w : /\ w = (IF ReducesWindow THEN SafeSubtraction(k.cWnd, bytes) + SegSize ELSE k.cWnd)
                 /\ Fits(w)
    <2>1. PICK less \in Nat : less = SafeSubtraction(k.cWnd, bytes)
      BY <1>0, Subtracted
    <2>2. less + SegSize \in Nat
      BY <1>0
    <2>. QED BY <1>0, <2>1, <2>2, OwnWindowFits, Zenon
  <1>2. PICK dups \in Nat, resent \in Nat :
           dups = SafeSubtraction(k.dupAckCount, segs) /\ resent = SafeSubtraction(k.retransOut, 1)
    <2>1. 1 \in Nat
      OBVIOUS
    <2>. QED BY <1>0, <2>1, Subtracted, Zenon
  <1>3. PICK cong, mark : cong = k.congState /\ mark = k.firstPartialAck
    OBVIOUS
  <1>4. PICK s : Adjusted(k, s, w, cong, dups, resent, mark)
    BY DEF Adjusted
  <1>5. /\ Follows(a, k, s) /\ s.head = k.head /\ s.recover = k.recover /\ s.congState = cong
        /\ s.state = k.state
    BY <1>1, <1>3, <1>4, CongestionFollows
  <1>6. PICK d : /\ d = DiscardUpTo(s, h.ack) /\ Sound(a, d) /\ d.head = h.ack
                 /\ d.state \notin Young /\ d.recover = k.recover /\ d.congState = cong
    <2>1. Sound(a, s) /\ s.state \notin Young
      BY <1>5, FollowsSound, Zenon
    <2>2. s.head <= h.ack /\ h.ack < s.recover
      BY <1>5, Zenon
    <2>3. /\ Sound(a, DiscardUpTo(s, h.ack)) /\ DiscardUpTo(s, h.ack).head = h.ack
          /\ DiscardUpTo(s, h.ack).state = s.state /\ DiscardUpTo(s, h.ack).recover = s.recover
          /\ DiscardUpTo(s, h.ack).congState = s.congState
      BY <1>0, <2>1, <2>2, DiscardUpToSound, ZenonT(40)
    <2>. QED BY <1>5, <2>1, <2>3, Zenon
  <1>7. PICK r : /\ r = DoRetransmit(d) /\ Sound(a, r) /\ r.state \notin Young
                 /\ r.head = h.ack /\ r.recover = k.recover /\ r.congState = cong
    <2>1. Follows(a, d, DoRetransmit(d))
      BY <1>6, DoRetransmitFollows, Zenon
    <2>2. Sound(a, DoRetransmit(d)) /\ DoRetransmit(d).state \notin Young
      BY <1>6, <2>1, FollowsSound, Zenon
    <2>3. /\ DoRetransmit(d).head = d.head /\ DoRetransmit(d).recover = d.recover
          /\ DoRetransmit(d).congState = d.congState
      BY <1>6, DoRetransmitSteady, Zenon
    <2>. QED BY <1>6, <2>2, <2>3, Zenon
  <1>8. Typed(r) /\ Kept(r)
    BY <1>7, Zenon DEF Sound
  <1>9. PICK w2, c2, d2, r2, m2 : /\ w2 = PktsAcked(r.cWnd) /\ c2 = r.congState
                                  /\ d2 = r.dupAckCount /\ r2 = r.retransOut /\ m2 = FALSE
    OBVIOUS
  <1>10. Fits(w2) /\ d2 \in Nat /\ r2 \in Nat
    BY <1>8, <1>9, OwnWindowFits, Numbers, Zenon
  <1>11. PICK p : Adjusted(r, p, w2, c2, d2, r2, m2)
    BY DEF Adjusted
  <1>12. Follows(a, r, p) /\ p.head = r.head /\ p.recover = r.recover /\ p.state = r.state
    BY <1>7, <1>9, <1>10, <1>11, CongestionFollows
  <1>13. PartialAck(k, h, bytes, segs) = p
    <2>1. PICK deflated : deflated = (IF ReducesWindow
              THEN [k EXCEPT !.cWnd = SafeSubtraction(@, bytes) + SegSize] ELSE k)
      OBVIOUS
    <2>2. (deflated = k /\ w = k.cWnd) \/ deflated = [k EXCEPT !.cWnd = w]
      BY <1>1, <2>1, Zenon
    <2>3. [deflated EXCEPT !.dupAckCount = SafeSubtraction(@, segs),
                           !.retransOut = SafeSubtraction(@, 1)] = s
      <3>1. deflated.dupAckCount = k.dupAckCount /\ deflated.retransOut = k.retransOut
        BY <1>0, <2>2 DEF Typed, Fields
      <3>2. [deflated EXCEPT !.dupAckCount = dups, !.retransOut = resent] = s
        <4>1. CASE deflated = k /\ w = k.cWnd
          BY <1>0, <1>3, <1>4, <4>1 DEF Typed, Fields, Adjusted
        <4>2. CASE deflated = [k EXCEPT !.cWnd = w]
          BY <1>0, <1>3, <1>4, <4>2 DEF Typed, Fields, Adjusted
        <4>. QED BY <2>2, <4>1, <4>2
      <3>. QED BY <1>2, <3>1, <3>2, Zenon
    <2>4. PartialAck(k, h, bytes, segs)
          = [r EXCEPT !.firstPartialAck = FALSE, !.cWnd = PktsAcked(@)]
      BY <1>6, <1>7, <2>1, <2>3, Zenon DEF PartialAck
    <2>5. [r EXCEPT !.firstPartialAck = FALSE, !.cWnd = w2] = p
      BY <1>8, <1>9, <1>11 DEF Typed, Fields, Adjusted
    <2>. QED BY <1>9, <2>4, <2>5, Zenon
  <1>. QED BY <1>7, <1>12, <1>13, FollowsSound, Zenon

(* The acknowledgement a recovery, a loss or some disorder ends with. *)
Opened(k, s, w, mark) ==
    s = [k EXCEPT !.congState = "OPEN", !.cWnd = w, !.firstPartialAck = mark,
                  !.dupAckCount = 0, !.retransOut = 0]

LEMMA OpensAgain ==
    ASSUME Configured, NEW a, NEW k, Sound(a, k), k.state \notin Young, NEW w, Fits(w), NEW mark,
           NEW s, Opened(k, s, w, mark)
    PROVE  /\ Follows(a, k, s) /\ s.head = k.head /\ s.congState = "OPEN" /\ s.state = k.state
  <1>0. PICK zero \in Nat : zero = 0
    OBVIOUS
  <1>1. PICK cong : cong = "OPEN"
    OBVIOUS
  <1>2. PICK t : Adjusted(k, t, w, cong, zero, zero, mark)
    BY DEF Adjusted
  <1>3. Follows(a, k, t) /\ t.head = k.head /\ t.congState = cong /\ t.state = k.state
    BY <1>1, <1>2, CongestionFollows
  <1>4. s = t
    BY <1>0, <1>1, <1>2 DEF Sound, Typed, Fields, Adjusted, Opened
  <1>. QED BY <1>1, <1>3, <1>4, Zenon

LEMMA Quotients ==
    ASSUME NEW m \in Int, NEW d \in Nat, d > 0
    PROVE  m % d \in Nat /\ (m >= 0 => m \div d \in Nat)
  OBVIOUS

LEMMA FullAckSound ==
    ASSUME Configured, NEW a, NEW k, Sound(a, k), k.state \notin Young
    PROVE  /\ Follows(a, k, FullAck(k)) /\ FullAck(k).head = k.head
           /\ FullAck(k).congState = "OPEN" /\ FullAck(k).state = k.state
  <1>0. Typed(k) /\ Kept(k) /\ k.ssThresh \in Nat /\ SegSize \in Nat /\ k.cWnd \in Nat
    BY Numbers, Configuration, Zenon DEF Sound
  <1>1. PICK flight \in Nat : flight = BytesInFlight(k)
    BY <1>0, ThreshTyped, Zenon
  <1>2. PICK least \in Nat : least = Min({k.ssThresh, flight + SegSize})
    <2>1. flight + SegSize \in Nat
      BY <1>0
    <2>. QED BY <1>0, <2>1, MinOfTwo
  <1>3. PICK w : w = (IF ReducesWindow THEN least ELSE k.cWnd) /\ Fits(w)
    BY <1>0, OwnWindowFits, Zenon
  <1>4. PICK v : v = PktsAcked(w) /\ Fits(v)
    BY <1>3, PktsAckedFits, Zenon
  <1>t. PICK mark : mark = TRUE
    OBVIOUS
  <1>5. PICK s : Opened(k, s, v, mark)
    BY DEF Opened
  <1>6. /\ Follows(a, k, s) /\ s.head = k.head /\ s.congState = "OPEN" /\ s.state = k.state
    BY <1>4, <1>5, OpensAgain
  <1>7. FullAck(k) = s
    <2>1. FullAck(k) = [k EXCEPT !.cWnd = v, !.firstPartialAck = TRUE, !.dupAckCount = 0,
                                 !.retransOut = 0, !.congState = "OPEN"]
      BY <1>1, <1>2, <1>3, <1>4, Zenon DEF FullAck
    <2>2. [k EXCEPT !.cWnd = v, !.firstPartialAck = TRUE, !.dupAckCount = 0,
                    !.retransOut = 0, !.congState = "OPEN"] = s
      BY <1>0, <1>t, <1>5 DEF Typed, Fields, Opened
    <2>. QED BY <2>1, <2>2, Zenon
  <1>. QED BY <1>6, <1>7, Zenon

(* What is known when the state of the congestion control has taken an     *)
(* acknowledgement.                                                        *)
Took(a, s, ack) ==
    /\ Sound(a, s) /\ s.state \notin Young /\ s.head <= ack
    /\ s.congState = "RECOVERY" => ack < s.recover

LEMMA AckInCongStateTakes ==
    ASSUME Configured, NEW a, NEW k, Sound(a, k), k.state \notin Young,
           NEW h \in Segments, k.head <= h.ack, NEW bytes \in Nat, NEW segs \in Nat
    PROVE  Took(a, AckInCongState(k, h, bytes, segs), h.ack)
  <1>0. Typed(k) /\ Kept(k) /\ k.cWnd \in Nat /\ h.ack \in Nat /\ k.head \in Nat
        /\ k.congState \in CongStates /\ k.recover \in Nat
    <2>1. h.ack \in Nat
      BY DEF Segments
    <2>. QED BY <2>1, Numbers, Zenon DEF Sound, Typed, Others
  <1>1. PICK w : w = PktsAcked(k.cWnd) /\ Fits(w)
    BY <1>0, OwnWindowFits, Zenon
  <1>2. ASSUME NEW mark, NEW s, Opened(k, s, w, mark) PROVE Took(a, s, h.ack)
    <2>1. Follows(a, k, s) /\ s.head = k.head /\ s.congState = "OPEN" /\ s.state = k.state
      BY <1>1, <1>2, OpensAgain
    <2>2. s.congState # "RECOVERY"
      BY <2>1
    <2>. QED BY <2>1, <2>2, FollowsSound, Zenon DEF Took
  <1>3. CASE k.congState = "OPEN"
    <2>1. /\ Follows(a, k, [k EXCEPT !.cWnd = w]) /\ Steady(k, [k EXCEPT !.cWnd = w])
      BY <1>1, WindowFollows, Zenon
    <2>2. AckInCongState(k, h, bytes, segs) = [k EXCEPT !.cWnd = w]
      BY <1>1, <1>3 DEF AckInCongState
    <2>3. [k EXCEPT !.cWnd = w].congState # "RECOVERY"
      BY <1>3, <2>1 DEF Steady
    <2>. QED BY <2>1, <2>2, <2>3, FollowsSound, Zenon DEF Took, Steady
  <1>4. CASE k.congState = "DISORDER"
    <2>1. PICK mark : mark = k.firstPartialAck
      OBVIOUS
    <2>2. PICK s : Opened(k, s, w, mark)
      BY DEF Opened
    <2>3. AckInCongState(k, h, bytes, segs) = [k EXCEPT !.congState = "OPEN", !.cWnd = w,
                                                        !.dupAckCount = 0, !.retransOut = 0]
      BY <1>1, <1>4 DEF AckInCongState
    <2>4. [k EXCEPT !.congState = "OPEN", !.cWnd = w, !.dupAckCount = 0, !.retransOut = 0] = s
      BY <1>0, <2>1, <2>2 DEF Typed, Fields, Opened
    <2>. QED BY <1>2, <2>2, <2>3, <2>4, Zenon
  <1>5. CASE k.congState = "RECOVERY" /\ h.ack < k.recover
    <2>1. /\ Sound(a, PartialAck(k, h, bytes, segs))
          /\ PartialAck(k, h, bytes, segs).state \notin Young
          /\ PartialAck(k, h, bytes, segs).head = h.ack
          /\ PartialAck(k, h, bytes, segs).recover = k.recover
      BY <1>5, PartialAckSound, ZenonT(40)
    <2>2. AckInCongState(k, h, bytes, segs) = PartialAck(k, h, bytes, segs)
      BY <1>5 DEF AckInCongState
    <2>3. h.ack <= h.ack
      BY <1>0
    <2>. QED BY <1>5, <2>1, <2>2, <2>3, Zenon DEF Took
  <1>6. CASE k.congState = "RECOVERY" /\ ~(h.ack < k.recover)
    <2>1. AckInCongState(k, h, bytes, segs) = FullAck(k)
      BY <1>6 DEF AckInCongState
    <2>2. /\ Follows(a, k, FullAck(k)) /\ FullAck(k).head = k.head
          /\ FullAck(k).congState = "OPEN" /\ FullAck(k).state = k.state
      BY FullAckSound, Zenon
    <2>3. FullAck(k).congState # "RECOVERY"
      BY <2>2
    <2>. QED BY <2>1, <2>2, <2>3, FollowsSound, Zenon DEF Took
  <1>7. CASE k.congState = "LOSS"
    <2>1. AckInCongState(k, h, bytes, segs)
          = [k EXCEPT !.congState = "OPEN", !.cWnd = w, !.firstPartialAck = TRUE,
                      !.dupAckCount = 0, !.retransOut = 0]
      BY <1>1, <1>7 DEF AckInCongState
    <2>. QED BY <1>2, <2>1 DEF Opened
  <1>. QED BY <1>0, <1>3, <1>4, <1>5, <1>6, <1>7 DEF CongStates

LEMMA IncreasedFits ==
    ASSUME Configured, NEW k, Typed(k), Kept(k), NEW segs \in Nat
    PROVE  Fits(IncreaseWindow(k.cWnd, k.ssThresh, segs))
  <1>0. /\ k.cWnd \in Nat /\ k.ssThresh \in Nat /\ SegSize \in Nat /\ SegSize > 0
        /\ ConstantWindow \in Nat
    BY Numbers, Configuration, ConstantWindowFacts, Zenon
  <1>1. CASE Algorithm = "Fixed"
    <2>1. ConstantWindow <= ConstantWindow
      BY <1>0
    <2>. QED BY <1>0, <1>1, <2>1, Zenon DEF IncreaseWindow, Fits
  <1>2. CASE Algorithm # "Fixed"
    <2>1. ASSUME NEW c \in Nat PROVE Adder(c) \in Nat
      <3>1. PICK square \in Nat : square = SegSize * SegSize
        <4>1. \A m, n \in Nat : m * n \in Nat
          OBVIOUS
        <4>. QED BY <1>0, <4>1, Zenon
      <3>2. CASE c = 0
        BY <3>2 DEF Adder
      <3>3. CASE c # 0
        <4>1. PICK q \in Nat : q = square \div c
          <5>1. square \in Int /\ square >= 0 /\ c > 0
            BY <3>3
          <5>2. square \div c \in Nat
            BY <5>1, Quotients
          <5>. QED BY <5>2
        <4>2. Larger(1, q) \in Nat
          BY DEF Larger
        <4>. QED BY <3>1, <3>3, <4>1, <4>2, Zenon DEF Adder
      <3>. QED BY <3>2, <3>3
    <2>2. ASSUME NEW c \in Nat, NEW n \in Nat PROVE CongestionAvoidance(c, n) \in Nat
      <3>1. PICK add \in Nat : add = Adder(c)
        BY <2>1
      <3>2. c + add \in Nat
        OBVIOUS
      <3>. QED BY <3>1, <3>2, Zenon DEF CongestionAvoidance
    <2>3. PICK s : /\ s = IF k.cWnd < k.ssThresh THEN SlowStart(k.cWnd, segs)
                          ELSE [cWnd |-> k.cWnd, segs |-> segs]
                   /\ s.cWnd \in Nat /\ s.segs \in Nat
      <3>1. SlowStart(k.cWnd, segs).cWnd \in Nat /\ SlowStart(k.cWnd, segs).segs \in Nat
        BY <1>0 DEF SlowStart
      <3>2. /\ [cWnd |-> k.cWnd, segs |-> segs].cWnd \in Nat
            /\ [cWnd |-> k.cWnd, segs |-> segs].segs \in Nat
        BY <1>0
      <3>. QED BY <3>1, <3>2, Zenon
    <2>4. RenoIncrease(k.cWnd, k.ssThresh, segs) \in Nat
      BY <2>2, <2>3, Zenon DEF RenoIncrease
    <2>. QED BY <1>2, <2>4, Zenon DEF IncreaseWindow, Fits
  <1>. QED BY <1>1, <1>2

LEMMA GrowTakes ==
    ASSUME Configured, NEW a, NEW k, NEW ack, Took(a, k, ack), NEW segs \in Nat
    PROVE  Took(a, Grow(k, segs), ack)
  <1>1. Sound(a, k) /\ Typed(k) /\ Kept(k) /\ k.state \notin Young
    BY Zenon DEF Took, Sound
  <1>2. PICK w : w = IncreaseWindow(k.cWnd, k.ssThresh, segs) /\ Fits(w)
    BY <1>1, IncreasedFits, Zenon
  <1>3. /\ Follows(a, k, [k EXCEPT !.cWnd = w]) /\ Steady(k, [k EXCEPT !.cWnd = w])
    BY <1>1, <1>2, WindowFollows, Zenon
  <1>4. Grow(k, segs) = [k EXCEPT !.cWnd = w]
    BY <1>2, Zenon DEF Grow
  <1>. QED BY <1>1, <1>3, <1>4, FollowsSound, Zenon DEF Took, Steady

LEMMA LeavesTook ==
    ASSUME NEW a, NEW k, NEW ack, Took(a, k, ack), NEW s, Leaves(a, k, s)
    PROVE  Took(a, s, ack)
  <1>1. Sound(a, s) /\ s.state \notin Young
    BY LeavesFollows, FollowsSound, Zenon DEF Took
  <1>2. s.head = k.head /\ s.recover = k.recover /\ s.congState = k.congState
    BY Zenon DEF Leaves, Keeps
  <1>. QED BY <1>1, <1>2, Zenon DEF Took

LEMMA ResetRetriesTakes ==
    ASSUME Configured, NEW a, NEW k, NEW ack, Took(a, k, ack)
    PROVE  Took(a, ResetRetries(k), ack)
  <1>1. PICK n \in Nat : n = DataRetries
    BY Configuration, Zenon
  <1>2. Sound(a, k)
    BY Zenon DEF Took
  <1>3. PICK s : s = [k EXCEPT !.dataRetrCount = n] /\ Leaves(a, k, s)
    BY <1>2, RetryLeaves, Zenon
  <1>4. Sound(a, s)
    BY <1>3, LeavesFollows, Zenon
  <1>5. PICK t : /\ t = NsAssert(s, "partialAck", k.firstPartialAck \/ k.congState = "RECOVERY")
                 /\ Leaves(a, s, t)
    BY <1>4, NsAssertLeaves, Zenon
  <1>6. Took(a, s, ack)
    BY <1>3, LeavesTook, Zenon
  <1>7. Took(a, t, ack)
    BY <1>5, <1>6, LeavesTook, Zenon
  <1>. QED BY <1>1, <1>3, <1>5, <1>7, Zenon DEF ResetRetries

LEMMA NewlyAckedFollows ==
    ASSUME Configured, NEW a, NEW k, Sound(a, k), k.state \notin Young,
           NEW h \in Segments, k.head < h.ack, NEW bytes \in Nat, NEW segs \in Nat
    PROVE  Follows(a, k, NewlyAcked(k, h, bytes, segs))
  <1>0. /\ k.dupAckCount \in Nat /\ h.ack \in Nat /\ k.head \in Nat /\ k.recover \in Nat
        /\ SegSize \in Nat /\ SegSize > 0
    <2>1. h.ack \in Nat
      BY DEF Segments
    <2>. QED BY <2>1, Numbers, Configuration, Zenon DEF Sound
  <1>1. PICK partial, full : /\ partial = (k.congState = "RECOVERY" /\ h.ack < k.recover)
                             /\ full = (k.congState = "RECOVERY" /\ h.ack >= k.recover)
    OBVIOUS
  <1>2. PICK uncounted \in Nat :
           uncounted = IF segs > k.dupAckCount THEN segs - k.dupAckCount ELSE 1
    BY <1>0
  <1>3. PICK s : s = AckInCongState(k, h, bytes, uncounted) /\ Took(a, s, h.ack)
    <2>1. k.head <= h.ack
      BY <1>0
    <2>. QED BY <2>1, AckInCongStateTakes, Zenon
  <1>4. PICK more \in Nat : full = TRUE => more = (h.ack - k.recover) \div SegSize
    <2>1. CASE h.ack >= k.recover
      <3>1. PICK m \in Int : m = h.ack - k.recover /\ m >= 0
        BY <1>0, <2>1
      <3>2. m \div SegSize \in Nat
        BY <1>0, <3>1, Quotients
      <3>. QED BY <3>1, <3>2, Zenon
    <2>2. CASE ~(h.ack >= k.recover)
      <3>1. full # TRUE
        BY <1>1, <2>2
      <3>2. 0 \in Nat
        OBVIOUS
      <3>. QED BY <3>1, <3>2, Zenon
    <2>. QED BY <2>1, <2>2
  <1>5. PICK grown : /\ grown = (IF partial THEN s
                                 ELSE Grow(s, IF full THEN more ELSE segs))
                     /\ Took(a, grown, h.ack)
    <2>1. Took(a, Grow(s, more), h.ack) /\ Took(a, Grow(s, segs), h.ack)
      BY <1>3, GrowTakes, Zenon
    <2>. QED BY <1>3, <2>1, Zenon
  <1>6. PICK r : r = ResetRetries(grown) /\ Took(a, r, h.ack)
    BY <1>5, ResetRetriesTakes, Zenon
  <1>7. PICK n : /\ n = NewAck(r, h.ack, ~partial \/ k.firstPartialAck)
                 /\ Follows(a, r, n) /\ Behind(n)
    BY <1>0, <1>6, NewAckFollows, Zenon DEF Took
  <1>8. Sound(a, n) /\ n.state \notin Young
    BY <1>6, <1>7, FollowsSound, ZenonT(40) DEF Took
  <1>9. Follows(a, n, [n EXCEPT !.sendPending = TRUE])
    BY <1>8, MarksLeave, Zenon DEF Leaves
  <1>10. NewlyAcked(k, h, bytes, segs) = [n EXCEPT !.sendPending = TRUE]
    BY <1>1, <1>2, <1>3, <1>4, <1>5, <1>6, <1>7, Zenon DEF NewlyAcked
  <1>. QED BY <1>7, <1>8, <1>9, <1>10, Zenon DEF Follows

LEMMA AckRestLeaves ==
    ASSUME NEW a, NEW k, Sound(a, k), NEW n \in Nat
    PROVE  Leaves(a, k, [k EXCEPT !.ackedRest = n]) /\ [k EXCEPT !.ackedRest = n].state = k.state
  <1>1. PICK s : s = [k EXCEPT !.ackedRest = n]
    OBVIOUS
  <1>2. Typed(s)
    BY <1>1 DEF Sound, Typed, Counts, Others, Fields
  <1>3. Keeps(k, s) /\ Silent(k, s) /\ s.state = k.state
    BY <1>1 DEF Sound, Typed, Fields, Keeps, Silent
  <1>. QED BY <1>1, <1>2, <1>3, SilentLeaves, Zenon

LEMMA NsAssertState ==
    ASSUME NEW k, Typed(k), NEW place, NEW holds
    PROVE  NsAssert(k, place, holds).state = k.state
  BY DEF NsAssert, Typed, Fields

LEMMA ReceivedAckFollows ==
    ASSUME Configured, NEW a, NEW k, Sound(a, k), Behind(k), k.state \notin Young,
           NEW h \in Segments
    PROVE  Follows(a, k, ReceivedAck(k, h))
  <1>0. /\ Typed(k) /\ Kept(k) /\ h.ack \in Nat /\ k.head \in Nat /\ k.nextTx \in Nat
        /\ k.highTxMark \in Nat
        /\ SegSize \in Nat /\ SegSize > 0 /\ Word \in Nat /\ Word > 0 /\ k.ackedRest \in Nat
    <2>1. h.ack \in Nat
      BY DEF Segments
    <2>. QED BY <2>1, Numbers, Configuration, Zenon DEF Sound, Typed, Counts
  <1>1. PICK bytes \in Nat : bytes = (h.ack - k.head) % Word
    <2>1. PICK m \in Int : m = h.ack - k.head
      BY <1>0
    <2>2. m % Word \in Nat
      BY <1>0, Quotients
    <2>. QED BY <2>1, <2>2, Zenon
  <1>2. PICK rest \in Nat : rest = k.ackedRest + (bytes % SegSize)
    <2>1. bytes % SegSize \in Nat
      BY <1>0, Quotients
    <2>. QED BY <1>0, <2>1
  <1>3. PICK segs \in Nat : segs = (bytes \div SegSize) + (rest \div SegSize)
    <2>1. bytes \div SegSize \in Nat
      BY <1>0, Quotients
    <2>2. rest \div SegSize \in Nat
      BY <1>0, Quotients
    <2>. QED BY <2>1, <2>2
  <1>4. PICK n \in Nat : n = rest % SegSize
    BY <1>0, Quotients
  <1>5. PICK f : f = NsAssert(k, "ackFlag", "ACK" \in h.flags) /\ Leaves(a, k, f)
                 /\ f.state = k.state
    BY <1>0, NsAssertLeaves, NsAssertState, Zenon
  <1>6. PICK s : s = [f EXCEPT !.ackedRest = n] /\ Leaves(a, f, s) /\ s.state = f.state
    <2>1. Sound(a, f)
      BY <1>5, LeavesSound, Zenon
    <2>2. n \in Nat
      BY <1>4
    <2>. QED BY <2>1, <2>2, AckRestLeaves, Zenon
  <1>7. Leaves(a, k, s)
    BY <1>5, <1>6, LeavesAll, Zenon
  <1>8. Follows(a, k, s) /\ Keeps(k, s) /\ Sound(a, s) /\ Behind(s) /\ s.state \notin Young
    BY <1>5, <1>6, <1>7, LeavesFollows, FollowsSound, Zenon
  <1>9. PICK isDup : isDup = (h.ack = k.head /\ h.ack < k.nextTx /\ h.data = <<>>)
    OBVIOUS
  <1>10. isDup => Follows(a, s, DuplicateAck(s))
    <2>1. SUFFICES ASSUME k.head < k.nextTx PROVE Follows(a, s, DuplicateAck(s))
      BY <1>9
    <2>2. k.nextTx <= Larger(k.head, k.highTxMark)
      BY <1>0, Zenon DEF Kept, SentIsHeld
    <2>3. k.head < k.highTxMark
      BY <1>0, <2>1, <2>2 DEF Larger
    <2>4. s.head < s.highTxMark
      BY <1>8, <2>3, Zenon DEF Keeps
    <2>. QED BY <1>8, <2>4, DuplicateAckFollows, Zenon
  <1>11. h.ack > k.head => Follows(a, s, NewlyAcked(s, h, bytes, segs))
    <2>1. SUFFICES ASSUME k.head < h.ack PROVE Follows(a, s, NewlyAcked(s, h, bytes, segs))
      BY <1>0
    <2>2. s.head < h.ack
      BY <1>8, <2>1, Zenon DEF Keeps
    <2>. QED BY <1>8, <2>2, NewlyAckedFollows, Zenon
  <1>12. PICK t : /\ t = (IF isDup THEN DuplicateAck(s)
                          ELSE IF h.ack > k.head THEN NewlyAcked(s, h, bytes, segs) ELSE s)
                  /\ Follows(a, s, t)
    BY <1>8, <1>10, <1>11, Stays, Zenon
  <1>13. Follows(a, t, TakeData(t, h))
    BY <1>12, FollowsSound, TakeDataLeaves, Zenon DEF Leaves
  <1>14. Follows(a, k, t)
    BY <1>8, <1>12, Together, Zenon
  <1>15. ReceivedAck(k, h) = TakeData(t, h)
    BY <1>1, <1>2, <1>3, <1>4, <1>5, <1>6, <1>9, <1>12, Zenon DEF ReceivedAck
  <1>. QED BY <1>13, <1>14, <1>15, Together, Zenon

-----------------------------------------------------------------------------
(* One handler for each state of the socket. *)
LEMMA ProcessEstablishedFollows ==
    ASSUME Configured, NEW a, NEW k, Sound(a, k), Behind(k), k.state \notin Young,
           NEW h \in Segments
    PROVE  Follows(a, k, ProcessEstablished(k, h))
  <1>1. /\ Follows(a, k, k) /\ Follows(a, k, SendEmptyPacket(k, {"ACK"}))
        /\ Follows(a, k, ReceivedAck(k, h))
    BY Stays, Acknowledges, ReceivedAckFollows, Zenon DEF Leaves
  <1>2. Follows(a, k, PeerClose(k, h)) /\ Follows(a, k, Refuse(k, h))
    BY PeerCloseLeaves, RefuseLeaves, Zenon DEF Leaves
  <1>3. Follows(a, k, CloseAfter(ReceivedData(k, h), h))
    <2>1. PICK s : s = ReceivedData(k, h) /\ Leaves(a, k, s)
      BY ReceivedDataLeaves, Zenon
    <2>2. Leaves(a, s, CloseAfter(s, h))
      BY <2>1, LeavesSound, CloseAfterLeaves, Zenon
    <2>. QED BY <2>1, <2>2, LeavesAll, Zenon DEF Leaves
  <1>. QED BY <1>1, <1>2, <1>3, Zenon DEF ProcessEstablished

LEMMA ProcessClosedLeaves ==
    ASSUME Configured, NEW a, NEW k, Sound(a, k), NEW h
    PROVE  Leaves(a, k, ProcessClosed(k, h))
  <1>1. k.nextTx \in Nat /\ Typed(k)
    BY Numbers, Zenon DEF Sound
  <1>2. PICK empty \in Seq(Nat) : empty = <<>>
    <2>1. <<>> \in Seq(Nat)
      OBVIOUS
    <2>. QED BY <2>1, Zenon
  <1>3. PICK flags \in SUBSET Flags : flags = {"RST"} /\ flags # {"SYN"}
    <2>1. {"RST"} \in SUBSET Flags /\ {"RST"} # {"SYN"}
      BY DEF Flags
    <2>. QED BY <2>1, Zenon
  <1>4. PICK seg \in Segments : seg = Segment(k, flags, k.nextTx, empty) /\ seg.flags # {"SYN"}
    <2>1. /\ Segment(k, flags, k.nextTx, empty) \in Segments
          /\ Segment(k, flags, k.nextTx, empty).flags = flags
      <3>1. flags \in SUBSET Flags /\ empty \in Seq(Nat)
        BY <1>2, <1>3
      <3>. QED BY <1>1, <3>1, SegmentTyped, ZenonT(40)
    <2>. QED BY <1>3, <2>1, Zenon
  <1>5. Leaves(a, k, [k EXCEPT !.out = Append(@, seg)])
    BY <1>4, OutLeaves, Zenon
  <1>. QED BY <1>2, <1>3, <1>4, <1>5, LeavesSame, Zenon DEF ProcessClosed

LEMMA ProcessClosingLeaves ==
    ASSUME Configured, NEW a, NEW k, Sound(a, k), NEW h
    PROVE  Leaves(a, k, ProcessClosing(k, h))
  <1>1. Leaves(a, k, CloseAndNotify(SendEmptyPacket(k, {"ACK"})))
    <2>1. PICK s : s = SendEmptyPacket(k, {"ACK"}) /\ Leaves(a, k, s)
      BY Acknowledges, Zenon
    <2>2. Leaves(a, s, CloseAndNotify(s))
      BY <2>1, LeavesSound, CloseAndNotifyLeaves, Zenon
    <2>. QED BY <2>1, <2>2, LeavesAll, Zenon
  <1>2. Leaves(a, k, TimeWait(k)) /\ Leaves(a, k, k) /\ Leaves(a, k, Refuse(k, h))
    BY TimeWaitLeaves, LeavesSame, RefuseLeaves, Zenon
  <1>. QED BY <1>1, <1>2, Zenon DEF ProcessClosing

LEMMA ProcessLastAckLeaves ==
    ASSUME Configured, NEW a, NEW k, Sound(a, k), NEW h \in Segments
    PROVE  Leaves(a, k, ProcessLastAck(k, h))
  <1>1. /\ Leaves(a, k, ReceivedData(k, h)) /\ Leaves(a, k, CloseAndNotify(k))
        /\ Leaves(a, k, SendEmptyPacket(k, {"FIN", "ACK"}))
    BY ReceivedDataLeaves, CloseAndNotifyLeaves, Acknowledges, Zenon
  <1>2. Leaves(a, k, k) /\ Leaves(a, k, Refuse(k, h))
    BY LeavesSame, RefuseLeaves, Zenon
  <1>. QED BY <1>1, <1>2, Zenon DEF ProcessLastAck

LEMMA WaitInputFollows ==
    ASSUME Configured, NEW a, NEW k, Sound(a, k), Behind(k), k.state \notin Young,
           NEW h \in Segments
    PROVE  Follows(a, k, WaitInput(k, h))
  <1>1. Follows(a, k, ReceivedData(k, h)) /\ Follows(a, k, k)
    BY ReceivedDataLeaves, Stays, Zenon DEF Leaves
  <1>2. PICK s : s = ReceivedAck(k, h) /\ Follows(a, k, s)
    BY ReceivedAckFollows, Zenon
  <1>3. Sound(a, s)
    BY <1>2, FollowsSound, Zenon
  <1>4. Follows(a, s, FinAcked(s, h))
    <2>1. "FIN_WAIT_2" \in Closing
      BY DEF Closing
    <2>2. Follows(a, s, [s EXCEPT !.state = "FIN_WAIT_2"]) /\ Follows(a, s, s)
      BY <1>3, <2>1, StateLeaves, Stays, Zenon DEF Leaves
    <2>. QED BY <2>2, Zenon DEF FinAcked
  <1>5. PICK t : t = (IF "ACK" \in h.flags THEN s ELSE k) /\ Follows(a, k, t)
    BY <1>1, <1>2, Zenon
  <1>6. Follows(a, t, SetFinSequence(t, h.seq))
    BY <1>5, FollowsSound, SetFinSequenceLeaves, Zenon DEF Leaves
  <1>7. Follows(a, k, FinAcked(s, h)) /\ Follows(a, k, SetFinSequence(t, h.seq))
    BY <1>2, <1>4, <1>5, <1>6, Together, Zenon
  <1>. QED BY <1>1, <1>2, <1>5, <1>7, Zenon DEF WaitInput

LEMMA WaitFinishedLeaves ==
    ASSUME Configured, NEW a, NEW k, Sound(a, k), NEW h
    PROVE  Leaves(a, k, WaitFinished(k, h))
  <1>1. "CLOSING" \in Closing
    BY DEF Closing
  <1>2. Leaves(a, k, TimeWait(k)) /\ Leaves(a, k, [k EXCEPT !.state = "CLOSING"])
    BY <1>1, TimeWaitLeaves, StateLeaves, Zenon
  <1>3. PICK next : /\ next = (CASE k.state = "FIN_WAIT_2" -> TimeWait(k)
                                 [] k.state = "FIN_WAIT_1" /\ AcksFin(k, h) -> TimeWait(k)
                                 [] OTHER -> [k EXCEPT !.state = "CLOSING"])
                    /\ Leaves(a, k, next)
    BY <1>2, Zenon
  <1>4. PICK s : s = SendEmptyPacket(next, {"ACK"}) /\ Leaves(a, next, s)
    BY <1>3, LeavesSound, Acknowledges, Zenon
  <1>5. Leaves(a, s, NotifyDataRecv(s))
    BY <1>4, LeavesSound, NotifyDataRecvLeaves, Zenon
  <1>6. Leaves(a, k, NotifyDataRecv(s))
    BY <1>3, <1>4, <1>5, LeavesAll, Zenon
  <1>. QED BY <1>3, <1>4, <1>6, LeavesSame, Zenon DEF WaitFinished

LEMMA ProcessWaitFollows ==
    ASSUME Configured, NEW a, NEW k, Sound(a, k), Behind(k), k.state \notin Young,
           NEW h \in Segments
    PROVE  Follows(a, k, ProcessWait(k, h))
  <1>1. PICK s : s = WaitInput(k, h) /\ Follows(a, k, s)
    BY WaitInputFollows, Zenon
  <1>2. Follows(a, s, WaitFinished(s, h))
    BY <1>1, FollowsSound, WaitFinishedLeaves, Zenon DEF Leaves
  <1>3. Follows(a, k, WaitFinished(WaitInput(k, h), h))
    BY <1>1, <1>2, Together, Zenon
  <1>4. Follows(a, k, k) /\ Follows(a, k, Refuse(k, h))
    BY Stays, RefuseLeaves, Zenon DEF Leaves
  <1>. QED BY <1>3, <1>4, Zenon DEF ProcessWait

-----------------------------------------------------------------------------
(* The end of the handshake. *)
(* A socket that has sent nothing but its SYN and knows the window of its  *)
(* peer.                                                                   *)
Ready(a, r) ==
    /\ Typed(r) /\ r.nextTx = r.head /\ r.highTxMark = r.head /\ Len(r.tx) <= SndBuf
    /\ r.congState = "OPEN" /\ Fits(r.cWnd) /\ (r.rWnd = 0 => r.persist)
    /\ a \/ \A i \in 1..Len(r.out) : r.out[i].flags # {"SYN"}

Established(r, s, first, conn, next, del) ==
    s = [r EXCEPT !.state = "ESTABLISHED", !.connected = conn, !.retx = {}, !.nextTx = first,
                  !.highTxMark = first, !.head = first, !.nextRx = next, !.delAckCount = del]

LEMMA EstablishedSound ==
    ASSUME Configured, NEW a, NEW r, Ready(a, r), NEW first \in Nat, NEW conn, NEW next \in Nat,
           NEW del \in Nat, NEW s, Established(r, s, first, conn, next, del)
    PROVE  Sound(a, s) /\ Behind(s) /\ s.state = "ESTABLISHED"
  <1>1. /\ s.state = "ESTABLISHED" /\ s.nextTx = first /\ s.highTxMark = first /\ s.head = first
        /\ s.tx = r.tx /\ s.congState = r.congState /\ s.cWnd = r.cWnd /\ s.rWnd = r.rWnd
        /\ s.persist = r.persist /\ s.out = r.out /\ s.retx = {}
    BY DEF Established, Ready, Typed, Fields
  <1>2. Typed(s)
    BY DEF Established, Ready, Typed, Counts, Others, Fields, ConnStates, Timings
  <1>3. SentIsHeld(s) /\ Behind(s)
    <2>1. Len(s.tx) \in Nat /\ Len(s.tx) <= SndBuf
      BY <1>1, <1>2, Numbers DEF Ready
    <2>. QED BY <1>1, <2>1 DEF SentIsHeld, TailSequence, Larger, Behind
  <1>4. LossIsMarked(s) /\ NothingSent(s) /\ ZeroIsProbed(s)
    BY <1>1 DEF Ready, LossIsMarked, NothingSent, ZeroIsProbed, Young
  <1>5. WindowIsFixed(s)
    <2>1. ConstantWindow \in Nat
      BY ConstantWindowFacts
    <2>. QED BY <1>1, <2>1 DEF Ready, WindowIsFixed, Fits
  <1>6. a \/ Answering(s)
    BY <1>1 DEF Ready, Answering
  <1>. QED BY <1>1, <1>2, <1>3, <1>4, <1>5, <1>6 DEF Sound, Kept

LEMMA FollowsFrom ==
    ASSUME NEW a, NEW k, k.state \in Young, NEW s, Sound(a, s), Behind(s), NEW t, Follows(a, s, t)
    PROVE  Follows(a, k, t) /\ Behind(t)
  BY Zenon DEF Follows

(* Before the handshake is done a socket knows its peer's window, or has   *)
(* no window of its own.                                                   *)
Probes(k) == k.rWnd = 0 => k.persist

LEMMA YoungIsReady ==
    ASSUME Configured, NEW a, NEW k, Sound(a, k), k.state \in {"SYN_SENT", "SYN_RCVD"}, Probes(k)
    PROVE  Ready(a, k)
  <1>1. Typed(k) /\ Kept(k) /\ Len(k.tx) <= SndBuf
    BY Zenon DEF Sound, Kept, SentIsHeld
  <1>2. k.nextTx = k.head /\ k.highTxMark = k.head /\ k.congState = "OPEN"
    BY <1>1 DEF Kept, NothingSent, Young
  <1>3. Fits(k.cWnd)
    BY <1>1, OwnWindowFits, Zenon
  <1>4. a \/ \A i \in 1..Len(k.out) : k.out[i].flags # {"SYN"}
    BY Zenon DEF Sound, Answering
  <1>. QED BY <1>1, <1>2, <1>3, <1>4 DEF Ready, Probes

LEMMA NextRxLeaves ==
    ASSUME NEW a, NEW k, Sound(a, k), NEW n \in Nat
    PROVE  Leaves(a, k, [k EXCEPT !.nextRx = n])
  <1>1. PICK s : s = [k EXCEPT !.nextRx = n]
    OBVIOUS
  <1>2. Typed(s)
    BY <1>1 DEF Sound, Typed, Counts, Others, Fields
  <1>3. Keeps(k, s) /\ Silent(k, s)
    BY <1>1 DEF Sound, Typed, Fields, Keeps, Silent
  <1>. QED BY <1>1, <1>2, <1>3, SilentLeaves, Zenon

LEMMA HandshakeDoneSound ==
    ASSUME Configured, NEW a, NEW k, Sound(a, k), k.state = "SYN_RCVD"
    PROVE  Sound(a, HandshakeDone(k)) /\ Behind(HandshakeDone(k))
  <1>0. /\ Typed(k) /\ Kept(k) /\ k.nextTx \in Nat /\ k.nextTx = k.head /\ k.highTxMark = k.head
        /\ k.congState = "OPEN" /\ k.tx = <<>> /\ Len(k.tx) <= SndBuf
    <2>1. Typed(k) /\ Kept(k) /\ Len(k.tx) <= SndBuf
      BY Zenon DEF Sound, Kept, SentIsHeld
    <2>2. k.nextTx = k.head /\ k.highTxMark = k.head /\ k.congState = "OPEN" /\ k.tx = <<>>
      BY <2>1 DEF Kept, NothingSent, Young
    <2>. QED BY <2>1, <2>2, Numbers, Zenon
  <1>1. PICK first \in Nat : first = k.nextTx + 1
    BY <1>0
  <1>2. PICK s : s = [k EXCEPT !.connected = TRUE, !.retx = {}, !.nextTx = first,
                               !.highTxMark = first, !.head = first]
    OBVIOUS
  <1>3. Typed(s)
    BY <1>0, <1>2, ZenonT(40) DEF Typed, Counts, Others, Fields, Timings
  <1>4. /\ s.nextTx = first /\ s.highTxMark = first /\ s.head = first /\ s.tx = k.tx
        /\ s.congState = k.congState /\ s.state = k.state /\ s.cWnd = k.cWnd /\ Silent(k, s)
    BY <1>0, <1>2 DEF Typed, Fields, Silent
  <1>5. Len(s.tx) = 0 /\ Len(s.tx) <= SndBuf
    BY <1>0, <1>4
  <1>6. SentIsHeld(s) /\ Behind(s)
    BY <1>4, <1>5 DEF SentIsHeld, TailSequence, Larger, Behind
  <1>7. LossIsMarked(s) /\ NothingSent(s) /\ ZeroIsProbed(s)
    BY <1>0, <1>4 DEF LossIsMarked, NothingSent, ZeroIsProbed, Young
  <1>8. WindowIsFixed(s)
    <2>1. ConstantWindow \in Nat
      BY ConstantWindowFacts
    <2>2. Algorithm = "Fixed" /\ Careful => s.cWnd <= ConstantWindow
      BY <1>0, <1>4, Zenon DEF Kept, WindowIsFixed
    <2>3. s.highTxMark <= s.head + ConstantWindow
      BY <1>4, <2>1
    <2>. QED BY <2>2, <2>3, Zenon DEF WindowIsFixed
  <1>9. Sound(a, s)
    BY <1>3, <1>4, <1>6, <1>7, <1>8, SoundBy, Zenon DEF Kept
  <1>10. HandshakeDone(k) = s
    BY <1>1, <1>2, Zenon DEF HandshakeDone
  <1>. QED BY <1>6, <1>9, <1>10

LEMMA ProcessSynRcvdFollows ==
    ASSUME Configured, NEW a, NEW k, Sound(a, k), Probes(k), k.state = "SYN_RCVD", NEW h \in Segments
    PROVE  Follows(a, k, ProcessSynRcvd(k, h))
  <1>0. /\ Typed(k) /\ k.nextTx \in Nat /\ k.nextRx \in Nat /\ h.seq \in Nat /\ h.seq + 1 \in Nat
        /\ DelAckMax \in Nat /\ k.state \in Young
    <2>1. h.seq \in Nat /\ k.state \in Young
      BY DEF Segments, Young
    <2>. QED BY <2>1, Numbers, Configuration, SMTT(30) DEF Sound
  <1>1. PICK s : s = [HandshakeDone(k) EXCEPT !.state = "ESTABLISHED", !.delAckCount = DelAckMax]
    OBVIOUS
  <1>2. Established(k, s, k.nextTx + 1, TRUE, k.nextRx, DelAckMax)
    BY <1>0, <1>1, ZenonT(40) DEF Established, HandshakeDone, Typed, Fields
  <1>3. Sound(a, s) /\ Behind(s) /\ s.state \notin Young
    <2>1. Ready(a, k)
      BY YoungIsReady
    <2>2. k.nextTx + 1 \in Nat /\ "ESTABLISHED" \notin Young
      BY <1>0 DEF Young
    <2>3. Sound(a, s) /\ Behind(s)
      BY <1>0, <1>2, <2>1, <2>2, EstablishedSound, Zenon
    <2>4. s.state = "ESTABLISHED"
      BY <1>0, <1>2 DEF Established, Typed, Fields
    <2>. QED BY <2>2, <2>3, <2>4
  <1>4. PICK t : t = ReceivedAck(s, h) /\ Follows(a, s, t)
    BY <1>3, ReceivedAckFollows, Zenon
  <1>5. Follows(a, t, NotifyIfRoom(t))
    BY <1>4, FollowsSound, NotifyIfRoomFollows, Zenon
  <1>6. Follows(a, k, NotifyIfRoom(t))
    <2>1. Follows(a, s, NotifyIfRoom(t))
      BY <1>4, <1>5, Together, Zenon
    <2>. QED BY <1>0, <1>3, <2>1, FollowsFrom, Zenon
  <1>7. Follows(a, k, SendEmptyPacket([k EXCEPT !.nextRx = h.seq + 1], {"SYN", "ACK"}))
    <2>1. PICK n : n = [k EXCEPT !.nextRx = h.seq + 1] /\ Leaves(a, k, n)
      BY <1>0, NextRxLeaves, Zenon
    <2>2. Leaves(a, n, SendEmptyPacket(n, {"SYN", "ACK"}))
      BY <2>1, LeavesSound, Acknowledges, Zenon
    <2>3. Leaves(a, k, SendEmptyPacket([k EXCEPT !.nextRx = h.seq + 1], {"SYN", "ACK"}))
      BY <2>1, <2>2, LeavesAll, Zenon
    <2>. QED BY <2>3, Zenon DEF Leaves
  <1>8. Follows(a, k, PeerClose(HandshakeDone(k), h))
    <2>1. PICK d : d = HandshakeDone(k) /\ Sound(a, d) /\ Behind(d)
      BY HandshakeDoneSound, Zenon
    <2>2. Follows(a, d, PeerClose(d, h))
      BY <2>1, PeerCloseLeaves, Zenon DEF Leaves
    <2>. QED BY <1>0, <2>1, <2>2, FollowsFrom, Zenon
  <1>9. Follows(a, k, k) /\ Follows(a, k, Refuse(k, h))
    BY Stays, RefuseLeaves, Zenon DEF Leaves
  <1>. QED BY <1>1, <1>4, <1>6, <1>7, <1>8, <1>9, Zenon DEF ProcessSynRcvd

-----------------------------------------------------------------------------
(* The answers to the SYN of the client. *)
LEMMA AcceptedFollows ==
    ASSUME Configured, NEW a, NEW r, Ready(a, r), NEW h \in Segments
    PROVE  LET s == SendEmptyPacket([HandshakeDone(r) EXCEPT
                        !.state = "ESTABLISHED", !.nextRx = h.seq + 1], {"ACK"})
               t == [SendPendingData(s, TRUE) EXCEPT !.delAckCount = DelAckMax]
           IN  Sound(a, t) /\ Behind(t)
  <1>0. /\ Typed(r) /\ r.nextTx \in Nat /\ r.delAckCount \in Nat /\ h.seq + 1 \in Nat
        /\ DelAckMax \in Nat /\ r.nextTx + 1 \in Nat
    <2>1. h.seq \in Nat
      BY DEF Segments
    <2>2. Typed(r)
      BY Zenon DEF Ready
    <2>3. r.nextTx \in Nat /\ r.delAckCount \in Nat
      BY <2>2, Zenon DEF Typed, Counts
    <2>4. h.seq + 1 \in Nat /\ r.nextTx + 1 \in Nat
      BY <2>1, <2>3
    <2>. QED BY <2>2, <2>3, <2>4, Configuration, Zenon
  <1>1. PICK d : d = [HandshakeDone(r) EXCEPT !.state = "ESTABLISHED", !.nextRx = h.seq + 1]
    OBVIOUS
  <1>2. Established(r, d, r.nextTx + 1, TRUE, h.seq + 1, r.delAckCount)
    BY <1>0, <1>1, ZenonT(40) DEF Established, HandshakeDone, Typed, Fields
  <1>3. Sound(a, d) /\ Behind(d)
    BY <1>0, <1>2, EstablishedSound, Zenon
  <1>4. PICK s : s = SendEmptyPacket(d, {"ACK"}) /\ Leaves(a, d, s)
    BY <1>3, Acknowledges, Zenon
  <1>5. Sound(a, s) /\ Behind(s)
    BY <1>3, <1>4, LeavesFollows, FollowsSound, Zenon
  <1>6. PICK p : p = SendPendingData(s, TRUE) /\ Follows(a, s, p)
    BY <1>5, SendPendingDataFollows, Zenon
  <1>7. Sound(a, p) /\ Behind(p)
    BY <1>5, <1>6, FollowsSound, Zenon
  <1>8. PICK n \in Nat : n = DelAckMax
    BY <1>0
  <1>9. Sound(a, [p EXCEPT !.delAckCount = n]) /\ Behind([p EXCEPT !.delAckCount = n])
    <2>1. PICK q : q = [p EXCEPT !.delAckCount = n]
      OBVIOUS
    <2>2. Typed(q)
      BY <1>7, <2>1 DEF Sound, Typed, Counts, Others, Fields
    <2>3. Keeps(p, q) /\ Silent(p, q)
      BY <1>7, <2>1 DEF Sound, Typed, Fields, Keeps, Silent
    <2>4. Leaves(a, p, q)
      BY <1>7, <2>2, <2>3, SilentLeaves, Zenon
    <2>. QED BY <1>7, <2>1, <2>4, LeavesFollows, FollowsSound, Zenon
  <1>. QED BY <1>1, <1>4, <1>6, <1>8, <1>9, Zenon

(* The window does not matter to a socket that is reset. *)
Shrunk(k) == [k EXCEPT !.cWnd = 0]

Commutes(k, s, t) == t = Shrunk(s) /\ s.cWnd = k.cWnd /\ DOMAIN s = Fields

(* ResetOnSyn, in SYN_SENT, and the end of the handshake give the socket a *)
(* window; a refusal after it closes the socket all the same.              *)
LEMMA ShrunkFields ==
    ASSUME NEW k, DOMAIN k = Fields
    PROVE  /\ DOMAIN Shrunk(k) = Fields /\ Shrunk(k).cWnd = 0
           /\ \A f \in Fields \ {"cWnd"} : Shrunk(k)[f] = k[f]
  BY DEF Shrunk, Fields

LEMMA DeallocateCommutes ==
    ASSUME NEW k, DOMAIN k = Fields
    PROVE  Commutes(k, DeallocateEndPoint(k), DeallocateEndPoint(Shrunk(k)))
  <1>1. PICK s : s = [CancelAllTimers(k) EXCEPT !.endPoint = FALSE]
    OBVIOUS
  <1>2. [CancelAllTimers(Shrunk(k)) EXCEPT !.endPoint = FALSE] = Shrunk(s)
    BY <1>1 DEF CancelAllTimers, Shrunk, Fields
  <1>3. s.cWnd = k.cWnd /\ DOMAIN s = Fields
    BY <1>1 DEF CancelAllTimers, Fields
  <1>4. Shrunk(k).endPoint = k.endPoint
    BY DEF Shrunk, Fields
  <1>. QED BY <1>1, <1>2, <1>3, <1>4, Zenon DEF DeallocateEndPoint, Commutes

LEMMA CloseAndNotifyCommutes ==
    ASSUME NEW k, DOMAIN k = Fields
    PROVE  Commutes(k, CloseAndNotify(k), CloseAndNotify(Shrunk(k)))
  <1>1. PICK s : s = [k EXCEPT !.closeNotified = TRUE, !.state = "CLOSED"]
    OBVIOUS
  <1>2. [Shrunk(k) EXCEPT !.closeNotified = TRUE, !.state = "CLOSED"] = Shrunk(s)
    BY <1>1 DEF Shrunk, Fields
  <1>3. s.cWnd = k.cWnd /\ DOMAIN s = Fields
    BY <1>1 DEF Fields
  <1>4. Commutes(s, DeallocateEndPoint(s), DeallocateEndPoint(Shrunk(s)))
    BY <1>3, DeallocateCommutes, Zenon
  <1>. QED BY <1>1, <1>2, <1>3, <1>4, Zenon DEF CloseAndNotify, Commutes

LEMMA SendRSTCommutes ==
    ASSUME NEW k, DOMAIN k = Fields
    PROVE  Commutes(k, SendRST(k), SendRST(Shrunk(k)))
  <1>1. PICK seg : seg = EmptySegment(k, {"RST"})
    OBVIOUS
  <1>2. EmptySegment(Shrunk(k), {"RST"}) = seg
    <2>1. AdvertisedWindowSize(Shrunk(k)) = AdvertisedWindowSize(k)
      BY DEF AdvertisedWindowSize, Shrunk, Fields
    <2>2. /\ Shrunk(k).nextTx = k.nextTx /\ Shrunk(k).nextRx = k.nextRx
          /\ Shrunk(k).state = k.state
      BY DEF Shrunk, Fields
    <2>3. \A n : Segment(Shrunk(k), {"RST"}, n, <<>>) = Segment(k, {"RST"}, n, <<>>)
      BY <2>1, <2>2 DEF Segment, WScaleOption
    <2>4. "FIN" \notin {"RST"}
      OBVIOUS
    <2>. QED BY <1>1, <2>2, <2>3, <2>4, Zenon DEF EmptySegment
  <1>3. PICK e : e = SendEmptyPacket(k, {"RST"})
    OBVIOUS
  <1>4. Commutes(k, e, SendEmptyPacket(Shrunk(k), {"RST"}))
    <2>1. "SYN" \notin {"RST"}
      OBVIOUS
    <2>2. SendEmptyPacket(k, {"RST"}) = IF ~k.endPoint THEN k ELSE Emit(k, seg)
      BY <1>1, <2>1, Zenon DEF SendEmptyPacket, EmitEmpty, AddOptions
    <2>3. SendEmptyPacket(Shrunk(k), {"RST"})
            = IF ~Shrunk(k).endPoint THEN Shrunk(k) ELSE Emit(Shrunk(k), seg)
      BY <1>2, <2>1, Zenon DEF SendEmptyPacket, EmitEmpty, AddOptions
    <2>4. Shrunk(k).endPoint = k.endPoint
      BY DEF Shrunk, Fields
    <2>5. Emit(Shrunk(k), seg) = Shrunk(Emit(k, seg))
      <3>1. PICK out, synCount, delAck, delAckCount, retx :
               /\ out = Append(k.out, seg)
               /\ synCount = (IF "SYN" \in seg.flags THEN k.synCount - 1 ELSE k.synCount)
               /\ delAck = (k.delAck /\ "ACK" \notin seg.flags)
               /\ delAckCount = (IF "ACK" \in seg.flags THEN 0 ELSE k.delAckCount)
               /\ retx = (IF k.retx = {} /\ seg.flags \cap {"SYN", "FIN"} # {}
                          THEN seg.flags ELSE k.retx)
        OBVIOUS
      <3>2. PICK m : m = Shrunk(k)
        OBVIOUS
      <3>3. /\ m.out = k.out /\ m.synCount = k.synCount /\ m.delAck = k.delAck
            /\ m.delAckCount = k.delAckCount /\ m.retx = k.retx
        BY <3>2 DEF Shrunk, Fields
      <3>4. Emit(k, seg) = [k EXCEPT !.out = out, !.synCount = synCount, !.delAck = delAck,
                                     !.delAckCount = delAckCount, !.retx = retx]
        BY <3>1, Zenon DEF Emit
      <3>5. Emit(m, seg) = [m EXCEPT !.out = out, !.synCount = synCount, !.delAck = delAck,
                                     !.delAckCount = delAckCount, !.retx = retx]
        BY <3>1, <3>3, Zenon DEF Emit
      <3>6. [Shrunk(k) EXCEPT !.out = out, !.synCount = synCount, !.delAck = delAck,
                              !.delAckCount = delAckCount, !.retx = retx]
              = Shrunk([k EXCEPT !.out = out, !.synCount = synCount, !.delAck = delAck,
                                 !.delAckCount = delAckCount, !.retx = retx])
        BY ZenonT(40) DEF Shrunk, Fields
      <3>. QED BY <3>2, <3>4, <3>5, <3>6, Zenon
    <2>6. Emit(k, seg).cWnd = k.cWnd /\ DOMAIN Emit(k, seg) = Fields
      BY DEF Emit, Fields
    <2>. QED BY <1>3, <2>2, <2>3, <2>4, <2>5, <2>6, Zenon DEF Commutes
  <1>5. PICK n : n = NotifyErrorClose(e)
    OBVIOUS
  <1>6. Commutes(e, n, NotifyErrorClose(Shrunk(e)))
    <2>1. DOMAIN e = Fields
      BY <1>4, Zenon DEF Commutes
    <2>. QED BY <1>5, <2>1 DEF NotifyErrorClose, Commutes, Shrunk, Fields
  <1>7. Commutes(n, DeallocateEndPoint(n), DeallocateEndPoint(Shrunk(n)))
    BY <1>6, DeallocateCommutes, Zenon DEF Commutes
  <1>. QED BY <1>3, <1>4, <1>5, <1>6, <1>7, Zenon DEF SendRST, Commutes

LEMMA RefuseCommutes ==
    ASSUME NEW k, DOMAIN k = Fields, NEW h
    PROVE  Commutes(k, Refuse(k, h), Refuse(Shrunk(k), h))
  <1>1. PICK s : s = (IF OnlyFlags(h, {"RST"}) THEN k ELSE SendRST(k))
    OBVIOUS
  <1>2. Commutes(k, s, IF OnlyFlags(h, {"RST"}) THEN Shrunk(k) ELSE SendRST(Shrunk(k)))
    BY <1>1, SendRSTCommutes, Zenon DEF Commutes
  <1>3. Commutes(s, CloseAndNotify(s), CloseAndNotify(Shrunk(s)))
    BY <1>2, CloseAndNotifyCommutes, Zenon DEF Commutes
  <1>. QED BY <1>1, <1>2, <1>3, Zenon DEF Refuse, Commutes

-----------------------------------------------------------------------------
(* What is read from every header. *)
Heeds(k, r) ==
    /\ r.head = k.head /\ r.nextTx = k.nextTx /\ r.highTxMark = k.highTxMark /\ r.tx = k.tx
    /\ r.recover = k.recover /\ r.congState = k.congState /\ r.state = k.state
    /\ r.endPoint = k.endPoint /\ r.out = k.out /\ r.retx \in {k.retx, {}}

LEMMA HeedsAll ==
    ASSUME NEW k, NEW r, NEW s, Heeds(k, r), Heeds(r, s)
    PROVE  Heeds(k, s)
  BY DEF Heeds

LEMMA ResetOnSynHeeds ==
    ASSUME Configured, NEW k, Typed(k), NEW h \in Segments
    PROVE  /\ Typed(ResetOnSyn(k, h)) /\ Heeds(k, ResetOnSyn(k, h))
           /\ ResetOnSyn(k, h).cWnd = ConstantWindow
  <1>0. /\ h.wnd \in Nat /\ h.wscale \in {NoOption} \cup 0..MaxShift
        /\ ConstantWindow \in Nat /\ InitialSsThresh \in Nat /\ DOMAIN k = Fields
    <2>1. h.wnd \in Nat /\ h.wscale \in {NoOption} \cup 0..MaxShift
      BY DEF Segments
    <2>. QED BY <2>1, ConstantWindowFacts, Configuration, Zenon DEF Typed
  <1>1. PICK o : o = ProcessOptionWScale(k, h)
    OBVIOUS
  <1>2. Typed(o) /\ Heeds(k, o)
    <2>1. CASE h.wscale # NoOption /\ k.scaling
      <3>1. h.wscale \in Int /\ MaxShift \in Int /\ h.wscale \in 0..MaxShift
        BY <1>0, <2>1 DEF NoOption, MaxShift
      <3>2. Min({h.wscale, MaxShift}) = h.wscale
        BY <3>1, MinOfTwo
      <3>3. PICK n \in 0..MaxShift : n = h.wscale
        BY <3>1
      <3>4. o = [k EXCEPT !.sndShift = n]
        BY <1>1, <2>1, <3>2, <3>3, Zenon DEF ProcessOptionWScale
      <3>5. Typed(o)
        BY <3>4 DEF Typed, Counts, Others, Fields
      <3>6. Heeds(k, o)
        BY <1>0, <3>4 DEF Heeds, Fields
      <3>. QED BY <3>5, <3>6
    <2>2. CASE ~(h.wscale # NoOption /\ k.scaling)
      <3>1. o = [k EXCEPT !.scaling = FALSE]
        BY <1>1, <2>2, Zenon DEF ProcessOptionWScale
      <3>2. Typed(o)
        BY <3>1 DEF Typed, Counts, Others, Fields
      <3>3. Heeds(k, o)
        BY <1>0, <3>1 DEF Heeds, Fields
      <3>. QED BY <3>2, <3>3
    <2>. QED BY <2>1, <2>2, Zenon
  <1>3. PICK w \in Nat : w = ConstantWindow
    BY <1>0
  <1>4. PICK mark : mark = IF "ACK" \in h.flags THEN h.ack ELSE o.highRxAckMark
    OBVIOUS
  <1>5. PICK s : s = [o EXCEPT !.rWnd = h.wnd, !.cWnd = w, !.ssThresh = InitialSsThresh,
                               !.highRxAckMark = mark]
    OBVIOUS
  <1>6. Typed(s)
    BY <1>0, <1>2, <1>5 DEF Typed, Counts, Others, Fields
  <1>7. Heeds(o, s) /\ s.cWnd = w
    BY <1>2, <1>5 DEF Heeds, Typed, Fields
  <1>8. ResetOnSyn(k, h) = s
    BY <1>1, <1>3, <1>4, <1>5, Zenon DEF ResetOnSyn, ConstantWindow
  <1>. QED BY <1>2, <1>3, <1>6, <1>7, <1>8, HeedsAll, Zenon

LEMMA UpdateWindowSizeHeeds ==
    ASSUME NEW k, Typed(k), NEW h \in Segments
    PROVE  /\ Typed(UpdateWindowSize(k, h)) /\ Heeds(k, UpdateWindowSize(k, h))
           /\ UpdateWindowSize(k, h).cWnd = k.cWnd
  <1>0. h.wnd \in Nat /\ k.sndShift \in 0..MaxShift /\ DOMAIN k = Fields /\ k.rWnd \in Nat
    <2>1. h.wnd \in Nat
      BY DEF Segments
    <2>. QED BY <2>1, Zenon DEF Typed, Counts
  <1>1. PICK wnd \in Nat : wnd = ReceivedWindow(k, h)
    <2>1. PICK p \in Nat : p = 2^k.sndShift
      BY <1>0, Powers
    <2>2. h.wnd * p \in Nat
      BY <1>0, <2>1
    <2>. QED BY <2>1, <2>2, Zenon DEF ReceivedWindow
  <1>2. PICK s : s = [k EXCEPT !.rWnd = wnd]
    OBVIOUS
  <1>3. Typed(s)
    BY <1>2 DEF Typed, Counts, Others, Fields
  <1>4. Heeds(k, s) /\ s.cWnd = k.cWnd
    BY <1>0, <1>2 DEF Heeds, Fields
  <1>5. PICK heard : heard = (\/ h.ack = k.highRxAckMark /\ wnd > k.rWnd
                              \/ h.ack > k.highRxAckMark
                              \/ h.seq > k.highRxMark)
    OBVIOUS
  <1>6. PICK n \in Nat : n = IF heard THEN wnd ELSE k.rWnd
    BY <1>0
  <1>7. PICK mark, next : mark = Larger(k.highRxAckMark, h.ack) /\ next = Larger(k.highRxMark, h.seq)
    OBVIOUS
  <1>8. PICK t : t = [k EXCEPT !.highRxAckMark = mark, !.highRxMark = next, !.rWnd = n]
    OBVIOUS
  <1>9. Typed(t)
    BY <1>8 DEF Typed, Counts, Others, Fields
  <1>10. Heeds(k, t) /\ t.cWnd = k.cWnd
    BY <1>0, <1>8 DEF Heeds, Fields
  <1>11. UpdateWindowSize(k, h) = IF k.state \in Unconnected THEN s ELSE t
    BY <1>1, <1>2, <1>5, <1>6, <1>7, <1>8, Zenon DEF UpdateWindowSize
  <1>. QED BY <1>3, <1>4, <1>9, <1>10, <1>11, Zenon

LEMMA EnterPersistHeeds ==
    ASSUME NEW k, Typed(k)
    PROVE  /\ Typed(EnterPersist(k)) /\ Heeds(k, EnterPersist(k))
           /\ EnterPersist(k).cWnd = k.cWnd /\ Probes(EnterPersist(k))
  <1>1. PICK s : s = [k EXCEPT !.retx = {}, !.persist = TRUE]
    OBVIOUS
  <1>2. Typed(s)
    BY <1>1 DEF Typed, Counts, Others, Fields, Timings
  <1>3. Heeds(k, s) /\ s.cWnd = k.cWnd /\ Probes(s)
    BY <1>1 DEF Heeds, Typed, Fields, Probes
  <1>4. Heeds(k, k)
    BY DEF Heeds
  <1>. QED BY <1>1, <1>2, <1>3, <1>4 DEF EnterPersist, Probes

LEMMA HeaderHeeds ==
    ASSUME Configured, NEW k, Typed(k), NEW h \in Segments, NEW r,
           r = EnterPersist(ReadHeader(k, h))
    PROVE  /\ Typed(r) /\ Heeds(k, r) /\ Probes(r)
           /\ r.cWnd = IF "SYN" \in h.flags THEN ConstantWindow ELSE k.cWnd
  <1>1. Heeds(k, k)
    BY DEF Heeds
  <1>2. PICK s : /\ s = ReadHeader(k, h) /\ Typed(s) /\ Heeds(k, s)
                 /\ s.cWnd = IF "SYN" \in h.flags THEN ConstantWindow ELSE k.cWnd
    BY <1>1, ResetOnSynHeeds, UpdateWindowSizeHeeds, Zenon DEF ReadHeader
  <1>3. Typed(r) /\ Heeds(s, r) /\ r.cWnd = s.cWnd /\ Probes(r)
    BY <1>2, EnterPersistHeeds, Zenon
  <1>. QED BY <1>2, <1>3, HeedsAll, Zenon

LEMMA HeedsFollows ==
    ASSUME Configured, NEW a, NEW k, Sound(a, k), NEW s, Typed(s), Heeds(k, s), Probes(s),
           Fits(s.cWnd), s.state = "SYN_SENT" => s.cWnd = 0
    PROVE  Follows(a, k, s)
  <1>1. SentIsHeld(s) /\ (Behind(k) => Behind(s))
    BY DEF Sound, Kept, Heeds, SentIsHeld, TailSequence, Behind
  <1>2. LossIsMarked(s)
    BY DEF Sound, Kept, Heeds, LossIsMarked
  <1>3. NothingSent(s)
    BY DEF Sound, Kept, Heeds, NothingSent
  <1>4. ZeroIsProbed(s)
    BY DEF Probes, ZeroIsProbed
  <1>5. WindowIsFixed(s)
    BY DEF Sound, Kept, Heeds, WindowIsFixed, Fits
  <1>6. Silent(k, s)
    BY DEF Heeds, Silent
  <1>7. s.state = k.state
    BY DEF Heeds
  <1>. QED BY <1>1, <1>2, <1>3, <1>4, <1>5, <1>6, <1>7, FollowsBy, Zenon DEF Kept

LEMMA HeaderFollows ==
    ASSUME Configured, NEW a, NEW k, Sound(a, k), NEW h \in Segments,
           k.state # "SYN_SENT" \/ "SYN" \notin h.flags,
           NEW r, r = EnterPersist(ReadHeader(k, h))
    PROVE  Follows(a, k, r) /\ Probes(r) /\ r.state = k.state
  <1>1. Typed(k) /\ Kept(k)
    BY Zenon DEF Sound
  <1>2. /\ Typed(r) /\ Heeds(k, r) /\ Probes(r)
        /\ r.cWnd = IF "SYN" \in h.flags THEN ConstantWindow ELSE k.cWnd
    BY <1>1, HeaderHeeds, Zenon
  <1>3. Fits(r.cWnd)
    <2>1. Fits(ConstantWindow)
      BY ConstantWindowFacts DEF Fits
    <2>2. Fits(k.cWnd)
      BY <1>1, OwnWindowFits, Zenon
    <2>. QED BY <1>2, <2>1, <2>2, Zenon
  <1>4. r.state = k.state
    BY <1>2 DEF Heeds
  <1>5. r.state = "SYN_SENT" => r.cWnd = 0
    BY <1>1, <1>2, <1>4 DEF Kept, NothingSent, Young
  <1>. QED BY <1>2, <1>3, <1>4, <1>5, HeedsFollows, Zenon

(* The SYN that answers a SYN: the window is set before the socket knows   *)
(* whether it is connected.                                                *)
LEMMA AnswerIsReady ==
    ASSUME Configured, NEW a, NEW k, Sound(a, k), Behind(k), NEW h \in Segments,
           k.state = "SYN_SENT", "SYN" \in h.flags,
           NEW r, r = EnterPersist(ReadHeader(k, h))
    PROVE  /\ Ready(a, r) /\ r.state = "SYN_SENT"
           /\ Sound(a, Shrunk(r)) /\ Behind(Shrunk(r))
  <1>1. Typed(k) /\ Kept(k) /\ a
    BY Zenon DEF Sound, Answering
  <1>2. Typed(r) /\ Heeds(k, r) /\ Probes(r) /\ r.cWnd = ConstantWindow
    BY <1>1, HeaderHeeds, Zenon
  <1>3. Fits(r.cWnd) /\ Fits(0)
    BY <1>2, ConstantWindowFacts DEF Fits
  <1>4. /\ r.state = "SYN_SENT" /\ r.nextTx = r.head /\ r.highTxMark = r.head
        /\ r.congState = "OPEN" /\ Len(r.tx) <= SndBuf
    BY <1>1, <1>2 DEF Heeds, Kept, NothingSent, Young, SentIsHeld
  <1>5. Ready(a, r)
    BY <1>1, <1>2, <1>3, <1>4, Zenon DEF Ready, Probes
  <1>6. PICK z : z = Shrunk(r)
    OBVIOUS
  <1>7. Typed(z) /\ z.cWnd = 0
    BY <1>2, <1>6 DEF Typed, Counts, Others, Fields, Shrunk
  <1>8. Heeds(k, z) /\ Probes(z)
    BY <1>2, <1>6 DEF Heeds, Typed, Fields, Shrunk, Probes
  <1>9. Follows(a, k, z)
    BY <1>3, <1>7, <1>8, HeedsFollows, Zenon
  <1>. QED BY <1>4, <1>5, <1>6, <1>9, FollowsSound, Zenon

LEMMA RefuseCloses ==
    ASSUME Configured, NEW a, NEW k, Sound(a, k), NEW h
    PROVE  Refuse(k, h).state \notin Young
  <1>1. PICK s : s = (IF OnlyFlags(h, {"RST"}) THEN k ELSE SendRST(k)) /\ Sound(a, s)
    BY SendRSTLeaves, LeavesSound, Zenon
  <1>. QED BY <1>1, CloseAndNotifyLeaves, Zenon DEF Refuse

LEMMA RefusedSound ==
    ASSUME Configured, NEW a, NEW r, Ready(a, r), Sound(a, Shrunk(r)), Behind(Shrunk(r)), NEW h
    PROVE  Sound(a, Refuse(r, h)) /\ Behind(Refuse(r, h))
  <1>1. PICK x : x = Refuse(r, h)
    OBVIOUS
  <1>2. DOMAIN r = Fields /\ Fits(r.cWnd)
    BY Zenon DEF Ready, Typed
  <1>3. Refuse(Shrunk(r), h) = Shrunk(x) /\ x.cWnd = r.cWnd /\ DOMAIN x = Fields
    BY <1>1, <1>2, RefuseCommutes, Zenon DEF Commutes
  <1>4. PICK z : z = Shrunk(x)
    OBVIOUS
  <1>5. Sound(a, z) /\ Behind(z) /\ z.state \notin Young
    BY <1>3, <1>4, RefuseLeaves, RefuseCloses, LeavesFollows, FollowsSound, Zenon
  <1>6. DOMAIN z = Fields /\ \A f \in Fields \ {"cWnd"} : z[f] = x[f]
    BY <1>3, <1>4, ShrunkFields, Zenon
  <1>7. Fits(x.cWnd)
    BY <1>2, <1>3, Zenon
  <1>8. /\ x.head = z.head /\ x.nextTx = z.nextTx /\ x.highTxMark = z.highTxMark /\ x.tx = z.tx
        /\ x.recover = z.recover /\ x.congState = z.congState /\ x.state = z.state
        /\ x.endPoint = z.endPoint /\ x.rWnd = z.rWnd /\ x.persist = z.persist
        /\ x.out = z.out /\ x.retx = z.retx
    BY <1>6 DEF Fields
  <1>9. Typed(x)
    <2>1. x.cWnd \in Nat
      BY <1>7, Zenon DEF Fits
    <2>2. Counts(z) /\ Others(z)
      BY <1>5, Zenon DEF Sound, Typed
    <2>3. Counts(x)
      BY <1>6, <2>1, <2>2 DEF Counts, Fields
    <2>4. Others(x)
      BY <1>6, <2>2 DEF Others, Fields
    <2>. QED BY <1>3, <2>3, <2>4, Zenon DEF Typed
  <1>10. SentIsHeld(x) /\ Behind(x)
    BY <1>5, <1>8 DEF Sound, Kept, SentIsHeld, TailSequence, Behind
  <1>11. LossIsMarked(x) /\ ZeroIsProbed(x)
    BY <1>5, <1>8 DEF Sound, Kept, LossIsMarked, ZeroIsProbed
  <1>12. NothingSent(x)
    BY <1>5, <1>8, Zenon DEF NothingSent
  <1>13. WindowIsFixed(x)
    BY <1>5, <1>7, <1>8 DEF Sound, Kept, WindowIsFixed, Fits
  <1>14. a \/ Answering(x)
    BY <1>5, <1>8, Zenon DEF Sound, Answering
  <1>. QED BY <1>1, <1>9, <1>10, <1>11, <1>12, <1>13, <1>14, Zenon DEF Sound, Kept

-----------------------------------------------------------------------------
LEMMA SynSentFollows ==
    ASSUME Configured, NEW a, NEW k, Sound(a, k), Probes(k), k.state = "SYN_SENT",
           NEW h \in Segments, "SYN" \notin h.flags
    PROVE  Follows(a, k, ProcessSynSent(k, h))
  <1>0. /\ Typed(k) /\ k.nextTx \in Nat /\ k.nextRx \in Nat /\ DelAckMax \in Nat /\ k.state \in Young
        /\ k.nextTx = k.head /\ k.highTxMark = k.head
    <2>1. k.state \in Young
      BY DEF Young
    <2>2. Typed(k) /\ Kept(k)
      BY Zenon DEF Sound
    <2>3. k.nextTx = k.head /\ k.highTxMark = k.head
      BY <2>1, <2>2, Zenon DEF Kept, NothingSent
    <2>. QED BY <2>1, <2>2, <2>3, Numbers, Configuration, Zenon
  <1>1. PICK s : s = [k EXCEPT !.state = "ESTABLISHED", !.connected = TRUE, !.retx = {},
                               !.delAckCount = DelAckMax]
    OBVIOUS
  <1>2. Established(k, s, k.nextTx, TRUE, k.nextRx, DelAckMax)
    BY <1>0, <1>1, ZenonT(40) DEF Established, Typed, Fields
  <1>3. Sound(a, s) /\ Behind(s)
    <2>1. Ready(a, k)
      BY YoungIsReady
    <2>. QED BY <1>0, <1>2, <2>1, EstablishedSound, Zenon
  <1>4. Follows(a, s, ReceivedData(s, h))
    BY <1>3, ReceivedDataLeaves, Zenon DEF Leaves
  <1>5. Follows(a, k, ReceivedData(s, h))
    BY <1>0, <1>3, <1>4, FollowsFrom, Zenon
  <1>6. Follows(a, k, k) /\ Follows(a, k, Refuse(k, h))
    BY Stays, RefuseLeaves, Zenon DEF Leaves
  <1>7. h.flags # {"SYN"} /\ h.flags # {"SYN", "ACK"}
    OBVIOUS
  <1>. QED BY <1>1, <1>5, <1>6, <1>7, Zenon DEF ProcessSynSent, OnlyFlags

LEMMA SynSentSound ==
    ASSUME Configured, NEW a, NEW r, Ready(a, r), Sound(a, Shrunk(r)), Behind(Shrunk(r)),
           NEW h \in Segments, "SYN" \in h.flags, h.flags # {"SYN"}
    PROVE  Sound(a, ProcessSynSent(r, h)) /\ Behind(ProcessSynSent(r, h))
  <1>1. PICK s : s = SendEmptyPacket([HandshakeDone(r) EXCEPT
                        !.state = "ESTABLISHED", !.nextRx = h.seq + 1], {"ACK"})
    OBVIOUS
  <1>2. PICK t : t = [SendPendingData(s, TRUE) EXCEPT !.delAckCount = DelAckMax]
    OBVIOUS
  <1>3. Sound(a, t) /\ Behind(t)
    BY <1>1, <1>2, AcceptedFollows, Zenon
  <1>4. Sound(a, Refuse(r, h)) /\ Behind(Refuse(r, h))
    BY RefusedSound, Zenon
  <1>5. h.flags # {} /\ h.flags # {"ACK"} /\ h.flags # {"SYN"}
    OBVIOUS
  <1>6. ProcessSynSent(r, h) = t \/ ProcessSynSent(r, h) = Refuse(r, h)
    BY <1>1, <1>2, <1>5, Zenon DEF ProcessSynSent, OnlyFlags
  <1>. QED BY <1>3, <1>4, <1>6, Zenon

-----------------------------------------------------------------------------
(* A segment that reaches its socket. *)
LEMMA LeavePersistFollows ==
    ASSUME Configured, NEW a, NEW k, Sound(a, k)
    PROVE  Follows(a, k, LeavePersist(k)) /\ LeavePersist(k).state = k.state
  <1>1. CASE ~(k.rWnd # 0 /\ k.persist)
    BY <1>1, Stays, Zenon DEF LeavePersist
  <1>2. CASE k.rWnd # 0 /\ k.persist
    <2>1. PICK f : f = NsAssert(k, "persistConnected", k.connected) /\ Leaves(a, k, f)
                   /\ f.state = k.state
      BY NsAssertLeaves, NsAssertState, Zenon DEF Sound
    <2>2. Sound(a, f) /\ f.rWnd # 0
      <3>1. Sound(a, f) /\ Keeps(k, f)
        BY <2>1, LeavesFollows, Zenon
      <3>. QED BY <1>2, <3>1 DEF Keeps
    <2>3. PICK s : s = [f EXCEPT !.persist = FALSE, !.sendPending = TRUE]
      OBVIOUS
    <2>4. Typed(s)
      BY <2>2, <2>3 DEF Sound, Typed, Counts, Others, Fields
    <2>5. Heeds(f, s) /\ s.cWnd = f.cWnd /\ Probes(s)
      BY <2>2, <2>3 DEF Sound, Typed, Fields, Heeds, Probes
    <2>6. Fits(s.cWnd) /\ (s.state = "SYN_SENT" => s.cWnd = 0) /\ s.state = f.state
      <3>1. Fits(f.cWnd)
        BY <2>2, OwnWindowFits, Zenon DEF Sound
      <3>2. f.state = "SYN_SENT" => f.cWnd = 0
        BY <2>2 DEF Sound, Kept, NothingSent, Young
      <3>. QED BY <2>5, <3>1, <3>2, Zenon DEF Heeds
    <2>7. Follows(a, f, s)
      BY <2>2, <2>4, <2>5, <2>6, HeedsFollows, Zenon
    <2>8. Follows(a, k, s)
      BY <2>1, <2>7, Together, Zenon DEF Leaves
    <2>. QED BY <1>2, <2>1, <2>3, <2>6, <2>8, Zenon DEF LeavePersist
  <1>. QED BY <1>1, <1>2

LEMMA ForwardedFollows ==
    ASSUME Configured, NEW a, NEW k, NEW s, Sound(a, s)
    PROVE  Follows(a, s, Forwarded(k, s))
  <1>1. Follows(a, s, NotifyIfRoom(s)) /\ Follows(a, s, s)
    BY NotifyIfRoomFollows, Stays, Zenon
  <1>. QED BY <1>1, Zenon DEF Forwarded, ConnectionSucceeded

LEMMA ProcessStateFollows ==
    ASSUME Configured, NEW a, NEW k, Sound(a, k), Behind(k), Probes(k), NEW h \in Segments,
           k.state # "LISTEN", k.state = "SYN_SENT" => "SYN" \notin h.flags
    PROVE  Follows(a, k, ProcessState(k, h))
  <1>1. k.state \in ConnStates
    BY Zenon DEF Sound, Typed, Others
  <1>2. CASE k.state = "ESTABLISHED"
    <2>1. k.state \notin Young
      BY <1>2 DEF Young
    <2>2. Follows(a, k, ProcessEstablished(k, h))
      BY <2>1, ProcessEstablishedFollows, Zenon
    <2>. QED BY <1>2, <2>2 DEF ProcessState
  <1>3. CASE k.state = "CLOSED"
    <2>1. Follows(a, k, ProcessClosed(k, h))
      BY ProcessClosedLeaves, Zenon DEF Leaves
    <2>. QED BY <1>3, <2>1 DEF ProcessState
  <1>4. CASE k.state = "SYN_SENT"
    <2>1. Follows(a, k, ProcessSynSent(k, h))
      BY <1>4, SynSentFollows, Zenon
    <2>. QED BY <1>4, <2>1 DEF ProcessState
  <1>5. CASE k.state = "SYN_RCVD"
    <2>1. Follows(a, k, ProcessSynRcvd(k, h))
      BY <1>5, ProcessSynRcvdFollows, Zenon
    <2>. QED BY <1>5, <2>1 DEF ProcessState
  <1>6. CASE k.state \in {"FIN_WAIT_1", "FIN_WAIT_2", "CLOSE_WAIT"}
    <2>1. k.state \notin Young
      BY <1>6 DEF Young
    <2>2. Follows(a, k, ProcessWait(k, h))
      BY <2>1, ProcessWaitFollows, Zenon
    <2>. QED BY <1>6, <2>2 DEF ProcessState
  <1>7. CASE k.state = "CLOSING"
    <2>1. Follows(a, k, ProcessClosing(k, h))
      BY ProcessClosingLeaves, Zenon DEF Leaves
    <2>. QED BY <1>7, <2>1 DEF ProcessState
  <1>8. CASE k.state = "LAST_ACK"
    <2>1. Follows(a, k, ProcessLastAck(k, h))
      BY ProcessLastAckLeaves, Zenon DEF Leaves
    <2>. QED BY <1>8, <2>1 DEF ProcessState
  <1>9. CASE k.state = "TIME_WAIT"
    <2>1. Follows(a, k, k)
      BY Stays, Zenon
    <2>. QED BY <1>9, <2>1 DEF ProcessState
  <1>. QED BY <1>1, <1>2, <1>3, <1>4, <1>5, <1>6, <1>7, <1>8, <1>9 DEF ConnStates, Unconnected

LEMMA DoForwardUpFollows ==
    ASSUME Configured, NEW a, NEW k, Sound(a, k), Behind(k), NEW h \in Segments,
           k.state # "LISTEN", k.state = "SYN_SENT" => h.flags # {"SYN"}
    PROVE  Follows(a, k, DoForwardUp(k, h))
  <1>1. PICK r : r = EnterPersist(ReadHeader(k, h))
    OBVIOUS
  <1>2. PICK s : s = ProcessState(r, h)
    OBVIOUS
  <1>3. Follows(a, k, s)
    <2>1. CASE k.state # "SYN_SENT" \/ "SYN" \notin h.flags
      <3>1. Follows(a, k, r) /\ Probes(r) /\ r.state = k.state
        BY <1>1, <2>1, HeaderFollows, Zenon
      <3>2. Sound(a, r) /\ Behind(r)
        BY <3>1, FollowsSound, Zenon
      <3>3. r.state = "SYN_SENT" => "SYN" \notin h.flags
        BY <2>1, <3>1
      <3>4. Follows(a, r, s)
        BY <1>2, <3>1, <3>2, <3>3, ProcessStateFollows, Zenon
      <3>. QED BY <3>1, <3>4, Together, Zenon
    <2>2. CASE k.state = "SYN_SENT" /\ "SYN" \in h.flags
      <3>1. /\ Ready(a, r) /\ r.state = "SYN_SENT"
            /\ Sound(a, Shrunk(r)) /\ Behind(Shrunk(r))
        BY <1>1, <2>2, AnswerIsReady, Zenon
      <3>2. s = ProcessSynSent(r, h)
        BY <1>2, <3>1 DEF ProcessState
      <3>3. Sound(a, s) /\ Behind(s)
        BY <2>2, <3>1, <3>2, SynSentSound, Zenon
      <3>4. k.state \in Young
        BY <2>2 DEF Young
      <3>. QED BY <3>3, <3>4, Zenon DEF Follows
    <2>. QED BY <2>1, <2>2, Zenon
  <1>4. PICK t : t = LeavePersist(s) /\ Follows(a, s, t)
    BY <1>3, FollowsSound, LeavePersistFollows, Zenon
  <1>5. Follows(a, t, Forwarded(k, t))
    BY <1>4, FollowsSound, ForwardedFollows, Zenon
  <1>6. Follows(a, k, Forwarded(k, t))
    <2>1. Follows(a, k, t)
      BY <1>3, <1>4, Together, Zenon
    <2>. QED BY <1>5, <2>1, Together, Zenon
  <1>7. Follows(a, k, k) /\ Follows(a, k, SendEmptyPacket(k, {"ACK"}))
    BY Stays, Acknowledges, Zenon DEF Leaves
  <1>. QED BY <1>1, <1>2, <1>4, <1>6, <1>7, Zenon DEF DoForwardUp

(* The socket a listener forks. *)
LEMMA ProcessListenSound ==
    ASSUME Configured, NEW a, NEW k, Sound(a, k), Behind(k), k.state = "LISTEN", NEW h \in Segments
    PROVE  Sound(a, ProcessListen(k, h)) /\ Behind(ProcessListen(k, h))
  <1>1. Typed(k) /\ Kept(k) /\ (a \/ Answering(k))
    BY Zenon DEF Sound
  <1>2. PICK l : /\ l = ReadHeader(k, h) /\ Typed(l) /\ Heeds(k, l)
                 /\ l.cWnd = IF "SYN" \in h.flags THEN ConstantWindow ELSE k.cWnd
    <2>1. Heeds(k, k)
      BY DEF Heeds
    <2>. QED BY <1>1, <2>1, ResetOnSynHeeds, UpdateWindowSizeHeeds, Zenon DEF ReadHeader
  <1>3. PICK n \in Nat : n = h.seq + 1
    <2>1. h.seq \in Nat
      BY DEF Segments
    <2>. QED BY <2>1
  <1>4. PICK syns \in Nat, retries \in Nat : syns = SynRetries /\ retries = DataRetries
    BY Configuration
  <1>5. PICK fork : fork = Fork(l)
    OBVIOUS
  <1>6. Typed(fork)
    <2>1. Typed(l)
      BY <1>2
    <2>2. fork = [l EXCEPT !.endPoint = FALSE, !.delAckCount = 0]
      BY <1>5, Zenon DEF Fork
    <2>. QED BY <2>1, <2>2 DEF Typed, Counts, Others, Fields
  <1>7. PICK s : s = [fork EXCEPT !.endPoint = TRUE, !.state = "SYN_RCVD", !.synCount = syns,
                                  !.dataRetrCount = retries, !.nextRx = n]
    OBVIOUS
  <1>8. Typed(s)
    BY <1>6, <1>7 DEF Typed, Counts, Others, Fields, ConnStates, Unconnected
  <1>9. /\ s.head = l.head /\ s.nextTx = l.nextTx /\ s.highTxMark = l.highTxMark /\ s.tx = l.tx
        /\ s.recover = l.recover /\ s.congState = l.congState /\ s.state = "SYN_RCVD"
        /\ s.out = l.out /\ s.retx = l.retx /\ s.cWnd = l.cWnd
    BY <1>2, <1>5, <1>7 DEF Fork, Typed, Fields
  <1>10. SentIsHeld(s) /\ Behind(s)
    BY <1>1, <1>2, <1>9 DEF Heeds, Kept, SentIsHeld, TailSequence, Behind
  <1>11. LossIsMarked(s) /\ ZeroIsProbed(s)
    BY <1>1, <1>2, <1>9 DEF Heeds, Kept, LossIsMarked, ZeroIsProbed
  <1>12. NothingSent(s)
    BY <1>1, <1>2, <1>9 DEF Heeds, Kept, NothingSent, Young
  <1>13. WindowIsFixed(s)
    <2>1. Fits(l.cWnd)
      <3>1. Fits(ConstantWindow)
        BY ConstantWindowFacts DEF Fits
      <3>2. Fits(k.cWnd)
        BY <1>1, OwnWindowFits, Zenon
      <3>. QED BY <1>2, <3>1, <3>2, Zenon
    <2>. QED BY <1>1, <1>2, <1>9, <2>1 DEF Heeds, Kept, WindowIsFixed, Fits
  <1>14. a \/ Answering(s)
    <2>0. SUFFICES ASSUME Answering(k) PROVE Answering(s)
      BY <1>1
    <2>1. s.retx # {"SYN"} /\ s.out = k.out
      BY <1>2, <1>9, <2>0 DEF Heeds, Answering
    <2>. QED BY <1>9, <2>0, <2>1 DEF Answering
  <1>15. Sound(a, s)
    BY <1>8, <1>10, <1>11, <1>12, <1>13, <1>14, Zenon DEF Sound, Kept
  <1>16. Leaves(a, s, SendEmptyPacket(s, {"SYN", "ACK"}))
    BY <1>15, Acknowledges, Zenon
  <1>17. ProcessListen(k, h) = SendEmptyPacket(s, {"SYN", "ACK"})
    BY <1>2, <1>3, <1>4, <1>5, <1>7, Zenon DEF ProcessListen, CompleteFork
  <1>18. Follows(a, s, SendEmptyPacket(s, {"SYN", "ACK"}))
    BY <1>16, Zenon DEF Leaves
  <1>. QED BY <1>10, <1>17, <1>18, FollowsSound, Zenon

-----------------------------------------------------------------------------
(* The sockets a simulation begins with. *)
Fresh(k) ==
    /\ k.nextTx = 0 /\ k.highTxMark = 0 /\ k.head = 0 /\ k.tx = <<>> /\ k.congState = "OPEN"
    /\ k.cWnd = 0 /\ k.out = <<>> /\ k.retx = {} /\ k.state \in {"CLOSED", "LISTEN"}
    /\ ~k.persist /\ ~k.delAck /\ ~k.lastAck /\ ~k.timeWait /\ ~k.sendPending

LEMMA NewSocketFresh ==
    ASSUME Configured, NEW e \in End
    PROVE  Typed(NewSocket(e)) /\ Fresh(NewSocket(e)) /\ NewSocket(e).state = "CLOSED"
  <1>1. PICK n \in Nat, left \in Nat : n = RcvBufSize[e] /\ left = IF e = Client THEN ChainBytes ELSE 0
    <2>1. RcvBufSize[e] \in Nat /\ ChainBytes \in Nat /\ 0 \in Nat
      BY Configuration
    <2>. QED BY <2>1, Zenon
  <1>2. PICK scaling, chain, eager : /\ scaling = WindowScaling[e]
                                     /\ chain = (e = Client /\ ChainBytes > 0)
                                     /\ eager = (e \in EagerEnds)
    OBVIOUS
  <1>3. PICK k : k = FreshSocket(n, scaling, chain, left, eager)
    OBVIOUS
  <1>4. DOMAIN k = Fields /\ Fresh(k) /\ k.state = "CLOSED"
    BY <1>3 DEF FreshSocket, Fields, Fresh
  <1>5. Counts(k)
    BY <1>1, <1>3 DEF FreshSocket, Counts, MaxShift
  <1>6. Others(k)
    <2>1. k.store = <<>> /\ k.state = "CLOSED" /\ k.congState = "OPEN" /\ k.retx = {}
          /\ k.tx = <<>> /\ k.out = <<>>
      BY <1>3 DEF FreshSocket
    <2>2. DOMAIN k.store = {} /\ IsFiniteSet(DOMAIN k.store)
      BY <2>1, FS_EmptySet
    <2>. QED BY <2>1, <2>2 DEF Others, ConnStates, Unconnected, CongStates, Timings
  <1>. QED BY <1>1, <1>2, <1>3, <1>4, <1>5, <1>6, Zenon DEF NewSocket, Typed

LEMMA FreshSound ==
    ASSUME Configured, NEW a, NEW k, Typed(k), Fresh(k)
    PROVE  Sound(a, k) /\ Behind(k)
  <1>1. ConstantWindow \in Nat /\ SndBuf \in Nat
    BY ConstantWindowFacts, Configuration
  <1>2. SentIsHeld(k) /\ Behind(k)
    BY <1>1 DEF Fresh, SentIsHeld, TailSequence, Larger, Behind
  <1>3. LossIsMarked(k) /\ NothingSent(k) /\ ZeroIsProbed(k)
    BY DEF Fresh, LossIsMarked, NothingSent, ZeroIsProbed
  <1>4. WindowIsFixed(k)
    BY <1>1 DEF Fresh, WindowIsFixed
  <1>5. Answering(k)
    BY DEF Fresh, Answering
  <1>. QED BY <1>2, <1>3, <1>4, <1>5, Zenon DEF Sound, Kept

LEMMA ListenerFresh ==
    ASSUME Configured
    PROVE  Typed(Listener) /\ Fresh(Listener) /\ Listener.state = "LISTEN"
  <1>1. PICK k : k = NewSocket(Server) /\ Typed(k) /\ Fresh(k)
    BY NewSocketFresh, Zenon DEF End
  <1>2. PICK s : s = [k EXCEPT !.state = "LISTEN"]
    OBVIOUS
  <1>3. Typed(s)
    BY <1>1, <1>2 DEF Typed, Counts, Others, Fields, ConnStates, Unconnected
  <1>4. Fresh(s) /\ s.state = "LISTEN"
    BY <1>1, <1>2 DEF Fresh, Typed, Fields
  <1>. QED BY <1>1, <1>2, <1>3, <1>4, Zenon DEF Listener

LEMMA TcpInit == Init => TcpInv
  <1>. SUFFICES ASSUME Init PROVE TcpInv
    OBVIOUS
  <1>1. Configured
    BY DEF Init, Configured
  <1>2. /\ DOMAIN sock = End /\ DOMAIN link = End /\ DOMAIN called = End
        /\ sock = [e \in End |-> IF e = Client THEN NewSocket(e) ELSE Listener]
        /\ link = [e \in End |-> <<>>] /\ resized \in Nat
    BY DEF Init
  <1>3. Still
    BY <1>2, Zenon DEF Still
  <1>4. ASSUME NEW e \in End PROVE Typed(sock[e]) /\ Fresh(sock[e])
    BY <1>1, <1>2, NewSocketFresh, ListenerFresh, Zenon
  <1>5. ASSUME NEW e \in End
        PROVE  /\ Sound(e = Client, sock[e]) /\ Behind(sock[e]) /\ sock[e].out = <<>>
               /\ link[e] \in Seq(Segments) /\ Len(link[e]) <= QueueLen
    <2>1. Sound(e = Client, sock[e]) /\ Behind(sock[e]) /\ sock[e].out = <<>>
      BY <1>1, <1>4, FreshSound, Zenon DEF Fresh
    <2>2. link[e] \in Seq(Segments) /\ Len(link[e]) <= QueueLen
      <3>1. link[e] = <<>> /\ QueueLen \in Nat
        BY <1>1, <1>2, Configuration
      <3>. QED BY <3>1
    <2>. QED BY <2>1, <2>2
  <1>6. \A i \in 1..Len(link[Client]) : link[Client][i].flags # {"SYN"}
    BY <1>2 DEF End
  <1>. QED BY <1>1, <1>2, <1>3, <1>5, <1>6 DEF TcpInv, Configured

-----------------------------------------------------------------------------
(* The network. *)
LEMMA Beginning ==
    ASSUME NEW S, NEW s \in Seq(S), NEW n \in Nat, n <= Len(s)
    PROVE  /\ SubSeq(s, 1, n) \in Seq(S) /\ Len(SubSeq(s, 1, n)) = n
           /\ \A j \in 1..n : SubSeq(s, 1, n)[j] = s[j]
  OBVIOUS

(* As many as there are, or as there is room for. *)
LEMMA Room ==
    ASSUME NEW held \in Nat, NEW offered \in Nat, NEW room \in Nat, held <= room,
           NEW n, n = Min({offered, Larger(0, room - held)})
    PROVE  n \in Nat /\ n <= offered /\ held + n <= room
  <1>1. PICK m \in Nat : m = room - held
    OBVIOUS
  <1>2. Larger(0, m) = m
    BY DEF Larger
  <1>3. n = IF offered <= m THEN offered ELSE m
    BY <1>1, <1>2, MinOfTwo
  <1>. QED BY <1>1, <1>3

LEMMA EnqueueTyped ==
    ASSUME Configured, NEW queue \in Seq(Segments), Len(queue) <= QueueLen,
           NEW segs \in Seq(Segments)
    PROVE  /\ Enqueue(queue, segs) \in Seq(Segments) /\ Len(Enqueue(queue, segs)) <= QueueLen
           /\ \A i \in 1..Len(Enqueue(queue, segs)) :
                \/ \E j \in 1..Len(queue) : Enqueue(queue, segs)[i] = queue[j]
                \/ \E j \in 1..Len(segs) : Enqueue(queue, segs)[i] = segs[j]
  <1>0. PICK held \in Nat, offered \in Nat, room \in Nat :
           held = Len(queue) /\ offered = Len(segs) /\ room = QueueLen /\ held <= room
    <2>1. Len(queue) \in Nat /\ Len(segs) \in Nat
      OBVIOUS
    <2>. QED BY <2>1, Configuration, Zenon
  <1>1. PICK n \in Nat : n = Min({offered, Larger(0, room - held)}) /\ n <= offered /\ held + n <= room
    <2>1. PICK n : n = Min({offered, Larger(0, room - held)})
      OBVIOUS
    <2>2. n \in Nat /\ n <= offered /\ held + n <= room
      BY <1>0, <2>1, Room
    <2>. QED BY <2>1, <2>2, Zenon
  <1>2. PICK part \in Seq(Segments) : /\ part = SubSeq(segs, 1, n) /\ Len(part) = n
                                      /\ \A j \in 1..n : part[j] = segs[j]
    <2>1. n \in Nat /\ n <= Len(segs)
      BY <1>0, <1>1
    <2>2. /\ SubSeq(segs, 1, n) \in Seq(Segments) /\ Len(SubSeq(segs, 1, n)) = n
          /\ \A j \in 1..n : SubSeq(segs, 1, n)[j] = segs[j]
      BY <2>1, Beginning
    <2>. QED BY <2>2, Zenon
  <1>3. PICK all \in Seq(Segments) :
           /\ all = queue \o part /\ Len(all) = held + n
           /\ \A i \in 1..Len(all) :
                all[i] = IF i <= held THEN queue[i] ELSE part[i - held]
    <2>1. /\ queue \o part \in Seq(Segments) /\ Len(queue \o part) = Len(queue) + Len(part)
          /\ \A i \in 1..Len(queue \o part) :
               (queue \o part)[i] = IF i <= Len(queue) THEN queue[i] ELSE part[i - Len(queue)]
      BY <1>2
    <2>. QED BY <1>0, <1>2, <2>1, Zenon
  <1>4. Enqueue(queue, segs) = all
    BY <1>0, <1>1, <1>2, <1>3, Zenon DEF Enqueue
  <1>5. ASSUME NEW i \in 1..Len(all)
        PROVE  \/ \E j \in 1..Len(queue) : all[i] = queue[j]
               \/ \E j \in 1..Len(segs) : all[i] = segs[j]
    <2>0. i \in 1..(held + n)
      BY <1>3, <1>5
    <2>1. CASE i <= held
      <3>1. i \in 1..held
        BY <1>0, <1>1, <2>0, <2>1
      <3>2. all[i] = queue[i]
        BY <1>3, <1>5, <2>1, Zenon
      <3>. QED BY <1>0, <3>1, <3>2, Zenon
    <2>2. CASE ~(i <= held)
      <3>1. PICK j \in 1..n : j = i - held
        <4>1. i - held \in 1..n
          BY <1>0, <1>1, <2>0, <2>2
        <4>. QED BY <4>1, Zenon
      <3>2. j \in 1..offered
        BY <1>0, <1>1, <3>1
      <3>3. all[i] = part[j] /\ part[j] = segs[j]
        BY <1>2, <1>3, <1>5, <2>2, <3>1, Zenon
      <3>. QED BY <1>0, <3>2, <3>3, Zenon
    <2>. QED BY <2>1, <2>2
  <1>6. Len(all) <= QueueLen
    BY <1>0, <1>1, <1>3
  <1>. QED BY <1>4, <1>5, <1>6

LEMMA OutEmptied ==
    ASSUME NEW a, NEW k, Sound(a, k), Behind(k), NEW s, s = [k EXCEPT !.out = <<>>]
    PROVE  Sound(a, s) /\ Behind(s) /\ s.out = <<>>
  <1>1. Typed(s) /\ s.out = <<>>
    BY DEF Sound, Typed, Counts, Others, Fields
  <1>2. Keeps(k, s) /\ s.retx = k.retx /\ s.state = k.state
    BY DEF Sound, Typed, Fields, Keeps
  <1>3. Kept(s) /\ Behind(s)
    BY <1>2, KeptByAll DEF Sound
  <1>4. a \/ Answering(s)
    BY <1>1, <1>2 DEF Sound, Answering
  <1>. QED BY <1>1, <1>3, <1>4, Zenon DEF Sound

(* A setting stays what it is. *)
LEMMA Carried ==
    ASSUME setting' = setting, NEW a, NEW k, Sound(a, k)
    PROVE  Sound(a, k)'
  <1>1. /\ SndBuf' = SndBuf /\ Algorithm' = Algorithm /\ InitialCwnd' = InitialCwnd
        /\ LimitedTx' = LimitedTx /\ ConstantWindow' = ConstantWindow
    BY DEF SndBuf, Algorithm, InitialCwnd, LimitedTx, ConstantWindow, SegSize, Attributes
  <1>2. Careful' = Careful
    BY <1>1 DEF Careful
  <1>3. Typed(k)'
    BY DEF Sound
  <1>4. Kept(k)'
    BY <1>1, <1>2 DEF Sound, Kept, SentIsHeld, LossIsMarked, NothingSent, ZeroIsProbed, WindowIsFixed
  <1>. QED BY <1>3, <1>4 DEF Sound

-----------------------------------------------------------------------------
(* A step at one end. *)
LEMMA Ends ==
    ASSUME NEW e \in End
    PROVE  Peer(e) \in End /\ Peer(e) # e /\ (\A d \in End : d = e \/ d = Peer(e)) /\ Client \in End
           /\ (Peer(e) = Client <=> e # Client)
  BY DEF End, Peer, Client, Server

LEMMA Stepped ==
    ASSUME TcpInv, setting' = setting, NEW e \in End, NEW k, Sound(e = Client, k), Behind(k),
           NEW coming \in Seq(Segments), Len(coming) <= QueueLen,
           e = Client => \A i \in 1..Len(coming) : coming[i].flags # {"SYN"},
           Becomes(e, k, coming),
           DOMAIN called' = End, "Connect" \in called'[Client], resized' \in Nat
    PROVE  TcpInv'
  <1>1. PICK p \in End : p = Peer(e) /\ p # e /\ (\A d \in End : d = e \/ d = p)
                         /\ (p = Client <=> e # Client) /\ Client \in End
    BY Ends, Zenon
  <1>2. /\ DOMAIN sock = End /\ DOMAIN link = End /\ Configured
        /\ \A d \in End : /\ Sound(d = Client, sock[d]) /\ Behind(sock[d]) /\ sock[d].out = <<>>
                          /\ link[d] \in Seq(Segments) /\ Len(link[d]) <= QueueLen
        /\ \A i \in 1..Len(link[Client]) : link[Client][i].flags # {"SYN"}
    BY Zenon DEF TcpInv, Configured
  <1>3. k.out \in Seq(Segments)
    BY Zenon DEF Sound, Typed, Others
  <1>4. PICK queue \in Seq(Segments) :
           /\ queue = Enqueue(link[p], k.out) /\ Len(queue) <= QueueLen
           /\ \A i \in 1..Len(queue) : \/ \E j \in 1..Len(link[p]) : queue[i] = link[p][j]
                                       \/ \E j \in 1..Len(k.out) : queue[i] = k.out[j]
    <2>1. link[p] \in Seq(Segments) /\ Len(link[p]) <= QueueLen
      BY <1>1, <1>2, Zenon
    <2>2. /\ Enqueue(link[p], k.out) \in Seq(Segments) /\ Len(Enqueue(link[p], k.out)) <= QueueLen
          /\ \A i \in 1..Len(Enqueue(link[p], k.out)) :
               \/ \E j \in 1..Len(link[p]) : Enqueue(link[p], k.out)[i] = link[p][j]
               \/ \E j \in 1..Len(k.out) : Enqueue(link[p], k.out)[i] = k.out[j]
      BY <1>2, <1>3, <2>1, EnqueueTyped, Zenon
    <2>. QED BY <2>2, Zenon
  <1>5. PICK s : /\ s = [k EXCEPT !.out = <<>>]
                 /\ Sound(e = Client, s) /\ Behind(s) /\ s.out = <<>>
    <2>1. PICK s : s = [k EXCEPT !.out = <<>>]
      OBVIOUS
    <2>2. Sound(e = Client, s) /\ Behind(s) /\ s.out = <<>>
      BY <2>1, OutEmptied
    <2>. QED BY <2>1, <2>2, Zenon
  <1>6. sock' = [sock EXCEPT ![e] = s]
    BY <1>5, Zenon DEF Becomes
  <1>7. DOMAIN sock' = End /\ sock'[e] = s /\ sock'[p] = sock[p]
    BY <1>1, <1>2, <1>6
  <1>8. DOMAIN link' = End /\ link'[e] = coming /\ link'[p] = queue
    <2>1. link' = [link EXCEPT ![e] = coming, ![p] = queue]
      BY <1>1, <1>2, <1>4, Zenon DEF Becomes
    <2>. QED BY <1>1, <1>2, <2>1
  <1>9. QueueLen' = QueueLen
    BY DEF QueueLen, Attributes
  <1>10. ASSUME NEW d \in End
         PROVE  (/\ Sound(d = Client, sock[d]) /\ Behind(sock[d]) /\ sock[d].out = <<>>
                 /\ link[d] \in Seq(Segments) /\ Len(link[d]) <= QueueLen)'
    <2>1. Sound(d = Client, sock'[d]) /\ Behind(sock'[d]) /\ sock'[d].out = <<>>
      BY <1>1, <1>2, <1>5, <1>7, ZenonT(40)
    <2>2. link'[d] \in Seq(Segments) /\ Len(link'[d]) <= QueueLen'
      BY <1>1, <1>4, <1>8, <1>9, Zenon
    <2>3. Sound(d = Client, sock[d])'
      BY <2>1, Carried
    <2>4. Behind(sock[d])' /\ (sock[d].out = <<>>)'
      BY <2>1 DEF Behind
    <2>. QED BY <2>2, <2>3, <2>4
  <1>11. ASSUME NEW i \in 1..Len(link'[Client]) PROVE link'[Client][i].flags # {"SYN"}
    <2>1. CASE e = Client
      BY <1>8, <1>11, <2>1, Zenon
    <2>2. CASE e # Client
      <3>1. p = Client
        BY <1>1, <2>2, Zenon
      <3>2. \A j \in 1..Len(k.out) : k.out[j].flags # {"SYN"}
        BY <2>2, Zenon DEF Sound, Answering
      <3>3. i \in 1..Len(queue) /\ link'[Client][i] = queue[i]
        BY <1>8, <1>11, <3>1, Zenon
      <3>4. CASE \E j \in 1..Len(link[p]) : queue[i] = link[p][j]
        BY <1>2, <3>1, <3>3, <3>4, Zenon
      <3>5. CASE \E j \in 1..Len(k.out) : queue[i] = k.out[j]
        BY <3>2, <3>3, <3>5, Zenon
      <3>. QED BY <1>4, <3>3, <3>4, <3>5, Zenon
    <2>. QED BY <2>1, <2>2
  <1>12. Still'
    BY DEF Still
  <1>13. (setting \in DOMAIN Settings)'
    BY <1>2 DEF Configured
  <1>. QED BY <1>7, <1>8, <1>10, <1>11, <1>12, <1>13 DEF TcpInv

(* Before the client connects nothing else happens. *)
LEMMA NothingBefore ==
    ASSUME TcpInv, "Connect" \notin called[Client], NEW e \in End
    PROVE  /\ Fresh(sock[e]) /\ link[e] = <<>> /\ ~HasSocket(e)
           /\ sock[Client].state = "CLOSED"
  <1>1. Configured
    BY Zenon DEF TcpInv, Configured
  <1>2. /\ sock = [d \in End |-> IF d = Client THEN NewSocket(d) ELSE Listener]
        /\ link = [d \in End |-> <<>>]
    BY Zenon DEF TcpInv, Still
  <1>3. Client \in End /\ Server \in End /\ Client # Server /\ (e = Client \/ e = Server)
    BY DEF End, Client, Server
  <1>4. sock[Client] = NewSocket(Client) /\ sock[Server] = Listener /\ link[e] = <<>>
    BY <1>2, <1>3
  <1>5. /\ Fresh(sock[Client]) /\ Fresh(sock[Server])
        /\ sock[Client].state = "CLOSED" /\ sock[Server].state = "LISTEN"
    BY <1>1, <1>3, <1>4, NewSocketFresh, ListenerFresh, Zenon
  <1>6. ~HasSocket(e)
    <2>1. "LISTEN" \in {"LISTEN", "SYN_RCVD"}
      OBVIOUS
    <2>. QED BY <1>3, <1>5, <2>1, Zenon DEF HasSocket
  <1>. QED BY <1>3, <1>4, <1>5, <1>6, Zenon

(* What every other step is: a step of one end after the client connects. *)
LEMMA SteppedOn ==
    ASSUME TcpInv, setting' = setting, NEW e \in End, NEW k, Sound(e = Client, k), Behind(k),
           Becomes(e, k, link[e]), "Connect" \in called[Client],
           called' = called \/ \E c : called' = [called EXCEPT ![e] = @ \cup {c}],
           resized' \in Nat
    PROVE  TcpInv'
  <1>1. /\ DOMAIN called = End /\ link[e] \in Seq(Segments) /\ Len(link[e]) <= QueueLen
        /\ \A i \in 1..Len(link[Client]) : link[Client][i].flags # {"SYN"}
    BY Zenon DEF TcpInv
  <1>2. DOMAIN called' = End /\ "Connect" \in called'[Client]
    <2>1. CASE called' = called
      BY <1>1, <2>1, Zenon
    <2>2. CASE \E c : called' = [called EXCEPT ![e] = @ \cup {c}]
      <3>1. PICK c : called' = [called EXCEPT ![e] = @ \cup {c}]
        BY <2>2
      <3>2. Client \in End
        BY DEF End
      <3>. QED BY <1>1, <3>1, <3>2
    <2>. QED BY <2>1, <2>2
  <1>3. e = Client => \A i \in 1..Len(link[e]) : link[e][i].flags # {"SYN"}
    BY <1>1
  <1>. QED BY <1>1, <1>2, <1>3, Stepped, Zenon

LEMMA FollowsOn ==
    ASSUME TcpInv, setting' = setting, NEW e \in End, NEW k, Follows(e = Client, sock[e], k),
           Becomes(e, k, link[e]), "Connect" \in called[Client],
           called' = called \/ \E c : called' = [called EXCEPT ![e] = @ \cup {c}],
           resized' \in Nat
    PROVE  TcpInv'
  <1>1. Behind(sock[e])
    BY Zenon DEF TcpInv
  <1>2. Sound(e = Client, k) /\ Behind(k)
    BY <1>1, FollowsSound, Zenon
  <1>. QED BY <1>2, SteppedOn, Zenon

-----------------------------------------------------------------------------
(* The steps. *)
LEMMA ConnectSound ==
    ASSUME Configured, NEW a, a, NEW k, Typed(k), Fresh(k), k.state = "CLOSED"
    PROVE  Sound(a, Connect(k)) /\ Behind(Connect(k))
  <1>1. PICK syns \in Nat, retries \in Nat : syns = SynRetries /\ retries = DataRetries
    BY Configuration
  <1>2. PICK r : r = [k EXCEPT !.synCount = syns, !.dataRetrCount = retries]
    OBVIOUS
  <1>3. Typed(r)
    BY <1>1, <1>2 DEF Typed, Counts, Others, Fields
  <1>4. Fresh(r) /\ r.state = "CLOSED"
    BY <1>2 DEF Fresh, Typed, Fields
  <1>5. Sound(a, r) /\ Behind(r)
    BY <1>3, <1>4, FreshSound, Zenon
  <1>6. PICK e : e = SendEmptyPacket(r, {"SYN"}) /\ Leaves(a, r, e)
    <2>1. {"SYN"} \in SUBSET Flags
      BY DEF Flags
    <2>. QED BY <1>5, <2>1, SendEmptyPacketLeaves, Zenon
  <1>7. Typed(e) /\ Kept(e) /\ Behind(e) /\ Keeps(r, e)
    BY <1>5, <1>6, LeavesFollows, FollowsSound, Zenon
  <1>8. PICK s : s = [e EXCEPT !.state = "SYN_SENT"]
    OBVIOUS
  <1>9. Typed(s)
    BY <1>7, <1>8 DEF Typed, Counts, Others, Fields, ConnStates, Unconnected
  <1>10. /\ s.head = e.head /\ s.nextTx = e.nextTx /\ s.highTxMark = e.highTxMark /\ s.tx = e.tx
         /\ s.recover = e.recover /\ s.congState = e.congState /\ s.cWnd = e.cWnd
         /\ s.state = "SYN_SENT"
    BY <1>7, <1>8 DEF Typed, Fields
  <1>11. SentIsHeld(s) /\ Behind(s)
    BY <1>7, <1>10 DEF Kept, SentIsHeld, TailSequence, Behind
  <1>12. LossIsMarked(s) /\ ZeroIsProbed(s) /\ WindowIsFixed(s)
    BY <1>7, <1>10 DEF Kept, LossIsMarked, ZeroIsProbed, WindowIsFixed
  <1>13. NothingSent(s)
    BY <1>4, <1>7, <1>10 DEF Fresh, Keeps, NothingSent
  <1>14. Connect(k) = s
    <2>1. DoConnect(r) = s
      BY <1>4, <1>6, <1>8 DEF DoConnect
    <2>. QED BY <1>1, <1>2, <2>1, Zenon DEF Connect
  <1>. QED BY <1>9, <1>11, <1>12, <1>13, <1>14, Zenon DEF Sound, Kept

LEMMA StartFlowStep ==
    ASSUME TcpInv, StartFlow
    PROVE  TcpInv'
  <1>1. /\ "Connect" \notin called[Client] /\ setting' = setting /\ resized' = resized
        /\ called' = [called EXCEPT ![Client] = @ \cup {"Connect"}]
    BY Zenon DEF StartFlow
  <1>2. /\ Configured /\ DOMAIN called = End /\ resized \in Nat
        /\ \A e \in End : /\ Sound(e = Client, sock[e])
                          /\ link[e] \in Seq(Segments) /\ Len(link[e]) <= QueueLen
        /\ \A i \in 1..Len(link[Client]) : link[Client][i].flags # {"SYN"}
    BY Zenon DEF TcpInv, Configured
  <1>3. PICK e \in End : e = Client
    BY DEF End
  <1>4. PICK k : k = Connect(sock[e])
    OBVIOUS
  <1>5. Sound(e = Client, k) /\ Behind(k)
    <2>1. Fresh(sock[e]) /\ sock[e].state = "CLOSED"
      BY <1>1, <1>3, NothingBefore, Zenon
    <2>2. Typed(sock[e])
      BY <1>2, Zenon DEF Sound
    <2>. QED BY <1>2, <1>3, <1>4, <2>1, <2>2, ConnectSound, Zenon
  <1>6. PICK s : /\ s = (IF k.chain THEN WriteUntilBufferFull(k) ELSE k)
                 /\ Follows(e = Client, k, s)
    <2>1. Follows(e = Client, k, WriteUntilBufferFull(k)) /\ Follows(e = Client, k, k)
      BY <1>2, <1>5, WriteFollows, Stays, Zenon
    <2>. QED BY <2>1, Zenon
  <1>7. Sound(e = Client, s) /\ Behind(s)
    BY <1>5, <1>6, FollowsSound, Zenon
  <1>8. Becomes(e, s, link[e])
    BY <1>3, <1>4, <1>6, Zenon DEF StartFlow
  <1>9. DOMAIN called' = End /\ "Connect" \in called'[Client] /\ resized' \in Nat
    BY <1>1, <1>2, <1>3
  <1>10. e = Client => \A i \in 1..Len(link[e]) : link[e][i].flags # {"SYN"}
    BY <1>2
  <1>. QED BY <1>1, <1>2, <1>7, <1>8, <1>9, <1>10, Stepped, Zenon

(* Whatever else has something to do: the client is connecting.            *)
LEMMA Underway ==
    ASSUME TcpInv, NEW e \in End,
           \/ sock[e].sendPending \/ sock[e].retx # {} \/ sock[e].persist \/ sock[e].lastAck
           \/ sock[e].delAck \/ sock[e].timeWait \/ link[e] # <<>> \/ HasSocket(e)
    PROVE  "Connect" \in called[Client]
  <1>1. SUFFICES ASSUME "Connect" \notin called[Client] PROVE FALSE
    OBVIOUS
  <1>2. Fresh(sock[e]) /\ link[e] = <<>> /\ ~HasSocket(e)
    BY <1>1, NothingBefore, Zenon
  <1>. QED BY <1>2 DEF Fresh

LEMMA AtEnd ==
    ASSUME TcpInv, NEW e \in End
    PROVE  /\ Configured /\ Sound(e = Client, sock[e]) /\ Behind(sock[e]) /\ sock[e].out = <<>>
           /\ resized \in Nat
  BY Zenon DEF TcpInv, Configured

LEMMA SendPendingStep ==
    ASSUME TcpInv, NEW e \in End, SendPending(e)
    PROVE  TcpInv'
  <1>1. /\ sock[e].sendPending /\ setting' = setting /\ called' = called /\ resized' = resized
    BY Zenon DEF SendPending
  <1>2. PICK k : k = [sock[e] EXCEPT !.sendPending = FALSE]
    OBVIOUS
  <1>3. Leaves(e = Client, sock[e], k)
    BY <1>2, AtEnd, MarksLeave, Zenon
  <1>4. Sound(e = Client, k) /\ Behind(k) /\ Follows(e = Client, sock[e], k)
    BY <1>3, AtEnd, LeavesFollows, FollowsSound, Zenon
  <1>5. PICK s : s = SendPendingData(k, k.connected) /\ Follows(e = Client, k, s)
    BY <1>4, AtEnd, SendPendingDataFollows, Zenon
  <1>6. Follows(e = Client, sock[e], s)
    BY <1>4, <1>5, Together, Zenon
  <1>7. Becomes(e, s, link[e])
    BY <1>2, <1>5, Zenon DEF SendPending
  <1>8. "Connect" \in called[Client] /\ resized' \in Nat
    BY <1>1, Underway, AtEnd
  <1>. QED BY <1>1, <1>6, <1>7, <1>8, FollowsOn, Zenon

LEMMA RstTyped ==
    ASSUME NEW h \in Segments
    PROVE  RstFor(h) \in Segments /\ RstFor(h).flags # {"SYN"}
  <1>1. h.ack \in Nat /\ h.seq \in Nat /\ h.seq + 1 \in Nat
    BY DEF Segments
  <1>2. CASE "ACK" \in h.flags
    <2>1. PICK ack \in Nat : ack = h.ack
      BY <1>1
    <2>2. RstFor(h) = [flags |-> {"RST"}, seq |-> ack, ack |-> 0, wnd |-> 0,
                       wscale |-> NoOption, data |-> <<>>]
      BY <1>2, <2>1, Zenon DEF RstFor
    <2>3. {"RST"} \in SUBSET Flags /\ {"RST"} # {"SYN"} /\ <<>> \in Seq(Nat)
      BY DEF Flags
    <2>. QED BY <2>2, <2>3 DEF Segments
  <1>3. CASE "ACK" \notin h.flags
    BY <1>1, <1>3, SMTT(30) DEF RstFor, Segments, Flags
  <1>. QED BY <1>2, <1>3

LEMMA ReceiveSound ==
    ASSUME TcpInv, NEW e \in End, NEW h \in Segments, e = Client => h.flags # {"SYN"}
    PROVE  Sound(e = Client, Receive(e, h)) /\ Behind(Receive(e, h))
  <1>1. PICK k : k = sock[e] /\ Configured /\ Sound(e = Client, k) /\ Behind(k) /\ k.out = <<>>
    BY AtEnd, Zenon
  <1>2. CASE k.endPoint /\ k.state # "LISTEN"
    <2>1. k.state = "SYN_SENT" => h.flags # {"SYN"}
      BY <1>1, Zenon DEF Sound, Answering
    <2>2. Follows(e = Client, k, DoForwardUp(k, h))
      BY <1>1, <1>2, <2>1, DoForwardUpFollows, Zenon
    <2>3. Receive(e, h) = DoForwardUp(k, h)
      BY <1>1, <1>2, Zenon DEF Receive
    <2>. QED BY <1>1, <2>2, <2>3, FollowsSound, Zenon
  <1>3. CASE ~(k.endPoint /\ k.state # "LISTEN") /\ e = Server
    <2>1. PICK l : l = Listener /\ Sound(e = Client, l) /\ Behind(l) /\ l.state = "LISTEN"
      BY <1>1, ListenerFresh, FreshSound, Zenon
    <2>2. Sound(e = Client, ProcessListen(l, h)) /\ Behind(ProcessListen(l, h))
      BY <1>1, <2>1, ProcessListenSound, Zenon
    <2>3. Receive(e, h) = IF h.flags = {"SYN"} THEN ProcessListen(l, h) ELSE k
      BY <1>1, <1>3, <2>1, Zenon DEF Receive, AtListener
    <2>. QED BY <1>1, <2>2, <2>3, Zenon
  <1>4. CASE ~(k.endPoint /\ k.state # "LISTEN") /\ e # Server
    <2>1. PICK seg \in Segments : seg = RstFor(h) /\ seg.flags # {"SYN"}
      BY RstTyped, Zenon
    <2>2. PICK s : s = [k EXCEPT !.out = Append(@, seg)] /\ Leaves(e = Client, k, s)
      BY <1>1, <2>1, OutLeaves, Zenon
    <2>3. Append(k.out, seg) = <<seg>>
      BY <1>1
    <2>4. s = [k EXCEPT !.out = <<RstFor(h)>>]
      BY <2>1, <2>2, <2>3, Zenon
    <2>5. Receive(e, h) = k \/ Receive(e, h) = s
      BY <1>1, <1>4, <2>4, Zenon DEF Receive, AtNoEndPoint
    <2>6. Follows(e = Client, k, s)
      BY <2>2, Zenon DEF Leaves
    <2>7. Sound(e = Client, s) /\ Behind(s)
      BY <1>1, <2>6, FollowsSound, Zenon
    <2>. QED BY <1>1, <2>5, <2>7, Zenon
  <1>. QED BY <1>2, <1>3, <1>4

LEMMA TailTyped ==
    ASSUME NEW S, NEW s \in Seq(S), s # <<>>
    PROVE  /\ Head(s) \in S /\ Head(s) = s[1] /\ 1 \in 1..Len(s)
           /\ Tail(s) \in Seq(S) /\ Len(Tail(s)) <= Len(s)
           /\ \A i \in 1..Len(Tail(s)) : i + 1 \in 1..Len(s) /\ Tail(s)[i] = s[i + 1]
  OBVIOUS

LEMMA Arriving ==
    ASSUME TcpInv, NEW e \in End, link[e] # <<>>
    PROVE  /\ Head(link[e]) \in Segments /\ (e = Client => Head(link[e]).flags # {"SYN"})
           /\ Tail(link[e]) \in Seq(Segments) /\ Len(Tail(link[e])) <= QueueLen
           /\ e = Client => \A i \in 1..Len(Tail(link[e])) : Tail(link[e])[i].flags # {"SYN"}
  <1>1. PICK q \in Seq(Segments) : q = link[e] /\ Len(q) <= QueueLen
    BY Zenon DEF TcpInv
  <1>2. e = Client => \A i \in 1..Len(q) : q[i].flags # {"SYN"}
    BY <1>1, Zenon DEF TcpInv
  <1>3. /\ Head(q) \in Segments /\ Head(q) = q[1] /\ 1 \in 1..Len(q)
        /\ Tail(q) \in Seq(Segments) /\ Len(Tail(q)) <= Len(q)
        /\ \A i \in 1..Len(Tail(q)) : i + 1 \in 1..Len(q) /\ Tail(q)[i] = q[i + 1]
    BY <1>1, TailTyped
  <1>4. Len(Tail(q)) <= QueueLen
    <2>1. QueueLen \in Nat
      BY AtEnd, Configuration
    <2>2. PICK m \in Nat : m = Len(q)
      OBVIOUS
    <2>3. PICK n \in Nat : n = Len(Tail(q))
      BY <1>3
    <2>. QED BY <1>1, <1>3, <2>1, <2>2, <2>3
  <1>5. e = Client => q[1].flags # {"SYN"} /\ \A i \in 1..Len(Tail(q)) : q[i + 1].flags # {"SYN"}
    BY <1>2, <1>3, Zenon
  <1>6. e = Client => /\ Head(q).flags # {"SYN"}
                      /\ \A i \in 1..Len(Tail(q)) : Tail(q)[i].flags # {"SYN"}
    BY <1>3, <1>5, Zenon
  <1>. QED BY <1>1, <1>3, <1>4, <1>6, Zenon

LEMMA DeliverStep ==
    ASSUME TcpInv, NEW e \in End, Deliver(e)
    PROVE  TcpInv'
  <1>1. /\ link[e] # <<>> /\ setting' = setting /\ called' = called /\ resized' = resized
        /\ Becomes(e, Receive(e, Head(link[e])), Tail(link[e]))
    BY Zenon DEF Deliver
  <1>2. PICK h \in Segments, rest \in Seq(Segments) :
           /\ h = Head(link[e]) /\ (e = Client => h.flags # {"SYN"})
           /\ rest = Tail(link[e]) /\ Len(rest) <= QueueLen
           /\ e = Client => \A i \in 1..Len(rest) : rest[i].flags # {"SYN"}
    BY <1>1, Arriving, Zenon
  <1>3. Sound(e = Client, Receive(e, h)) /\ Behind(Receive(e, h))
    BY <1>2, ReceiveSound, Zenon
  <1>4. DOMAIN called' = End /\ "Connect" \in called'[Client] /\ resized' \in Nat
    <2>1. DOMAIN called = End
      BY Zenon DEF TcpInv
    <2>2. "Connect" \in called[Client]
      BY <1>1, Underway, Zenon
    <2>. QED BY <1>1, <2>1, <2>2, AtEnd, Zenon
  <1>. QED BY <1>1, <1>2, <1>3, <1>4, Stepped, Zenon

(* A step that changes no socket changes nothing before StartFlow. *)
LEMMA StillCarried ==
    ASSUME TcpInv, setting' = setting, sock' = sock, called' = called,
           link' = link \/ \E e \in End : link[e] # <<>> /\ link' = [link EXCEPT ![e] = Tail(@)]
    PROVE  Still'
  <1>1. CASE "Connect" \in called[Client]
    BY <1>1 DEF Still
  <1>2. CASE "Connect" \notin called[Client]
    <2>1. link' = link
      BY <1>2, NothingBefore, Zenon
    <2>2. /\ sock = [e \in End |-> IF e = Client THEN NewSocket(e) ELSE Listener]
          /\ link = [e \in End |-> <<>>]
      BY <1>2, Zenon DEF TcpInv, Still
    <2>3. \A e \in End : NewSocket(e)' = NewSocket(e)
      BY DEF NewSocket, RcvBufSize, WindowScaling, ChainBytes, EagerEnds, Attributes, FreshSocket,
             InitialSsThresh, MaxWin
    <2>4. Listener' = Listener
      <3>1. Server \in End
        BY DEF End
      <3>. QED BY <2>3, <3>1 DEF Listener
    <2>. QED BY <2>1, <2>2, <2>3, <2>4 DEF Still
  <1>. QED BY <1>1, <1>2

(* A loss, and a stutter. *)
LEMMA SocketsStay ==
    ASSUME TcpInv, setting' = setting, sock' = sock, called' = called, resized' = resized,
           link' = link \/ \E e \in End : link[e] # <<>> /\ link' = [link EXCEPT ![e] = Tail(@)]
    PROVE  TcpInv'
  <1>1. /\ DOMAIN sock = End /\ DOMAIN link = End /\ DOMAIN called = End /\ resized \in Nat
        /\ setting \in DOMAIN Settings
        /\ \A e \in End : /\ Sound(e = Client, sock[e]) /\ Behind(sock[e]) /\ sock[e].out = <<>>
                          /\ link[e] \in Seq(Segments) /\ Len(link[e]) <= QueueLen
        /\ \A i \in 1..Len(link[Client]) : link[Client][i].flags # {"SYN"}
    BY Zenon DEF TcpInv
  <1>2. /\ DOMAIN link' = End
        /\ \A e \in End : link'[e] \in Seq(Segments) /\ Len(link'[e]) <= QueueLen
        /\ \A i \in 1..Len(link'[Client]) : link'[Client][i].flags # {"SYN"}
    <2>1. CASE link' = link
      BY <1>1, <2>1, Zenon
    <2>2. CASE \E e \in End : link[e] # <<>> /\ link' = [link EXCEPT ![e] = Tail(@)]
      <3>1. PICK e \in End : link[e] # <<>> /\ link' = [link EXCEPT ![e] = Tail(@)]
        BY <2>2
      <3>2. PICK rest : /\ rest = Tail(link[e]) /\ rest \in Seq(Segments) /\ Len(rest) <= QueueLen
                        /\ e = Client => \A i \in 1..Len(rest) : rest[i].flags # {"SYN"}
        BY <3>1, Arriving, Zenon
      <3>3. DOMAIN link' = End /\ \A d \in End : link'[d] = IF d = e THEN rest ELSE link[d]
        BY <1>1, <3>1, <3>2
      <3>4. Client \in End
        BY DEF End
      <3>. QED BY <1>1, <3>2, <3>3, <3>4, Zenon
    <2>. QED BY <2>1, <2>2
  <1>3. QueueLen' = QueueLen
    BY DEF QueueLen, Attributes
  <1>4. ASSUME NEW e \in End
        PROVE  (/\ Sound(e = Client, sock[e]) /\ Behind(sock[e]) /\ sock[e].out = <<>>
                /\ link[e] \in Seq(Segments) /\ Len(link[e]) <= QueueLen)'
    <2>1. Sound(e = Client, sock[e]) /\ Behind(sock[e]) /\ sock[e].out = <<>>
      BY <1>1
    <2>2. Sound(e = Client, sock[e])'
      <3>1. PICK k : k = sock[e]
        OBVIOUS
      <3>2. Sound(e = Client, k)'
        BY <2>1, <3>1, Carried
      <3>. QED BY <3>1, <3>2, Zenon
    <2>3. Behind(sock[e])' /\ (sock[e].out = <<>>)'
      BY <2>1 DEF Behind
    <2>4. (link[e] \in Seq(Segments) /\ Len(link[e]) <= QueueLen)'
      BY <1>2, <1>3, Zenon
    <2>. QED BY <2>2, <2>3, <2>4
  <1>5. Still'
    BY StillCarried, Zenon
  <1>6. (setting \in DOMAIN Settings)' /\ DOMAIN sock' = End /\ DOMAIN called' = End /\ resized' \in Nat
    BY <1>1, Zenon
  <1>. QED BY <1>2, <1>4, <1>5, <1>6 DEF TcpInv

(* The timers of one end. *)
LEMMA TimerStep ==
    ASSUME TcpInv, NEW e \in End, Timer(e)
    PROVE  TcpInv'
  <1>1. PICK k : k = sock[e] /\ Configured /\ Sound(e = Client, k) /\ Behind(k) /\ resized \in Nat
    BY AtEnd, Zenon
  <1>2. ASSUME NEW s, Follows(e = Client, k, s) \/ Leaves(e = Client, k, s), Becomes(e, s, link[e]),
               setting' = setting, called' = called, resized' = resized,
               k.retx # {} \/ k.persist \/ k.lastAck \/ k.delAck \/ k.timeWait
        PROVE  TcpInv'
    <2>1. "Connect" \in called[Client]
      BY <1>1, <1>2, Underway, Zenon
    <2>2. Follows(e = Client, sock[e], s)
      BY <1>1, <1>2, Zenon DEF Leaves
    <2>3. resized' \in Nat
      BY <1>1, <1>2, Zenon
    <2>. QED BY <1>2, <2>1, <2>2, <2>3, FollowsOn, Zenon
  <1>3. CASE RetxTimer(e)
    <2>1. Follows(e = Client, k, RetxEvent(k))
      BY <1>1, RetxEventFollows, Zenon
    <2>. QED BY <1>1, <1>2, <1>3, <2>1, Zenon DEF RetxTimer
  <1>4. CASE PersistTimer(e)
    <2>1. Leaves(e = Client, k, PersistTimeout(k))
      BY <1>1, PersistTimeoutLeaves, Zenon
    <2>. QED BY <1>1, <1>2, <1>4, <2>1, Zenon DEF PersistTimer
  <1>5. CASE LastAckTimer(e)
    <2>1. Leaves(e = Client, k, LastAckTimeout(k))
      BY <1>1, LastAckTimeoutLeaves, Zenon
    <2>. QED BY <1>1, <1>2, <1>5, <2>1, Zenon DEF LastAckTimer
  <1>6. CASE DelAckTimer(e)
    <2>1. Leaves(e = Client, k, DelAckTimeout(k))
      BY <1>1, DelAckTimeoutLeaves, Zenon
    <2>. QED BY <1>1, <1>2, <1>6, <2>1, Zenon DEF DelAckTimer
  <1>7. CASE TimeWaitTimer(e)
    <2>1. Leaves(e = Client, k, CloseAndNotify([k EXCEPT !.timeWait = FALSE]))
      BY <1>1, TimeWaitTimeoutLeaves, Zenon
    <2>. QED BY <1>1, <1>2, <1>7, <2>1, Zenon DEF TimeWaitTimer
  <1>. QED BY <1>3, <1>4, <1>5, <1>6, <1>7, Zenon DEF Timer

(* The calls of the application. *)
LEMMA AppStep ==
    ASSUME TcpInv, NEW e \in End, App(e)
    PROVE  TcpInv'
  <1>1. PICK k : k = sock[e] /\ Configured /\ Sound(e = Client, k) /\ Behind(k) /\ resized \in Nat
    BY AtEnd, Zenon
  <1>2. ASSUME NEW call, NEW s, Follows(e = Client, k, s) \/ Leaves(e = Client, k, s),
               Calls(e, call, s), resized' \in Nat,
               called' = called \/ \E c : called' = [called EXCEPT ![e] = @ \cup {c}]
        PROVE  TcpInv'
    <2>1. HasSocket(e) /\ Becomes(e, s, link[e]) /\ setting' = setting
      BY <1>2, Zenon DEF Calls
    <2>2. "Connect" \in called[Client]
      BY <2>1, Underway, Zenon
    <2>3. Follows(e = Client, sock[e], s)
      BY <1>1, <1>2, Zenon DEF Leaves
    <2>. QED BY <1>2, <2>1, <2>2, <2>3, FollowsOn, Zenon
  <1>3. ASSUME NEW call, NEW s, Leaves(e = Client, k, s), CallsOnce(e, call, s)
        PROVE  TcpInv'
    <2>1. /\ Calls(e, call, s) /\ resized' = resized
          /\ called' = [called EXCEPT ![e] = @ \cup {call}]
      BY <1>3, Zenon DEF CallsOnce
    <2>2. resized' \in Nat
      BY <1>1, <2>1, Zenon
    <2>. QED BY <1>2, <1>3, <2>1, <2>2, Zenon
  <1>4. CASE AppSend(e)
    <2>1. PICK n \in 1 .. Min({Chunk, Larger(0, AppBytes[e] - k.written)}) :
             Calls(e, "Send", Send(k, n)) /\ called' = called /\ resized' = resized
      BY <1>1, <1>4, Zenon DEF AppSend
    <2>2. n \in Nat
      OBVIOUS
    <2>3. Follows(e = Client, k, Send(k, n))
      BY <1>1, <2>2, SendFollows, Zenon
    <2>. QED BY <1>1, <1>2, <2>1, <2>3, Zenon
  <1>5. CASE AppRecv(e)
    <2>1. PICK n : Calls(e, "Recv", Recv(k, n)) /\ called' = called /\ resized' = resized
      BY <1>1, <1>5, Zenon DEF AppRecv
    <2>2. Leaves(e = Client, k, Recv(k, n))
      BY <1>1, RecvLeaves, Zenon
    <2>. QED BY <1>1, <1>2, <2>1, <2>2, Zenon
  <1>6. CASE AppClose(e)
    <2>1. Leaves(e = Client, k, Close(k))
      BY <1>1, CloseLeaves, Zenon
    <2>. QED BY <1>1, <1>3, <1>6, <2>1, Zenon DEF AppClose
  <1>7. CASE AppShutdownSend(e)
    <2>1. Leaves(e = Client, k, ShutdownSend(k))
      BY <1>1, ShutdownSendLeaves, Zenon
    <2>. QED BY <1>1, <1>3, <1>7, <2>1, Zenon DEF AppShutdownSend
  <1>8. CASE AppShutdownRecv(e)
    <2>1. PICK s : s = [k EXCEPT !.shutdownRecv = TRUE]
      OBVIOUS
    <2>2. Leaves(e = Client, k, s)
      BY <1>1, <2>1, MarksLeave, Zenon
    <2>3. CallsOnce(e, "ShutdownRecv", s)
      BY <1>1, <1>8, <2>1, Zenon DEF AppShutdownRecv
    <2>. QED BY <1>3, <2>2, <2>3, Zenon
  <1>9. CASE AppResize(e)
    <2>1. /\ resized < Len(Resizes) /\ resized' = resized + 1 /\ called' = called
          /\ Calls(e, "Resize", SetRcvBufSize(k, Resizes[resized + 1]))
      BY <1>1, <1>9, Zenon DEF AppResize
    <2>2. resized' \in Nat
      BY <1>1, <2>1
    <2>3. Resizes[resized + 1] \in Nat
      <3>1. PICK sizes \in Seq(Nat) : sizes = Resizes
        BY <1>1, Configuration, Zenon
      <3>2. resized + 1 \in 1..Len(sizes)
        BY <1>1, <2>1, <3>1
      <3>. QED BY <3>1, <3>2
    <2>4. Leaves(e = Client, k, SetRcvBufSize(k, Resizes[resized + 1]))
      BY <1>1, <2>3, SetRcvBufSizeLeaves, Zenon
    <2>. QED BY <1>2, <2>1, <2>2, <2>4, Zenon
  <1>. QED BY <1>4, <1>5, <1>6, <1>7, <1>8, <1>9, Zenon DEF App

(* Every step. *)
LEMMA TcpStep ==
    ASSUME TcpInv, [Next]_vars
    PROVE  TcpInv'
  <1>1. CASE StartFlow
    BY <1>1, StartFlowStep, Zenon
  <1>2. ASSUME NEW e \in End, SendPending(e) PROVE TcpInv'
    BY <1>2, SendPendingStep, Zenon
  <1>3. ASSUME NEW e \in End, Deliver(e) PROVE TcpInv'
    BY <1>3, DeliverStep, Zenon
  <1>4. ASSUME NEW e \in End, Lose(e) PROVE TcpInv'
    <2>1. /\ setting' = setting /\ sock' = sock /\ called' = called /\ resized' = resized
          /\ link[e] # <<>> /\ link' = [link EXCEPT ![e] = Tail(@)]
      BY <1>4, Zenon DEF Lose
    <2>. QED BY <2>1, SocketsStay, Zenon
  <1>5. ASSUME NEW e \in End, Timer(e) PROVE TcpInv'
    BY <1>5, TimerStep, Zenon
  <1>6. ASSUME NEW e \in End, App(e) PROVE TcpInv'
    BY <1>6, AppStep, Zenon
  <1>7. CASE UNCHANGED vars
    <2>1. /\ setting' = setting /\ sock' = sock /\ called' = called /\ resized' = resized
          /\ link' = link
      BY <1>7 DEF vars
    <2>. QED BY <2>1, SocketsStay, Zenon
  <1>. QED BY <1>1, <1>2, <1>3, <1>4, <1>5, <1>6, <1>7, Zenon DEF Next

(* The invariant holds in every reachable state, whatever is lost, and     *)
(* whenever a timer expires, an application calls or a segment arrives.    *)
THEOREM TcpInvariant == Spec => []TcpInv
  <1>1. Init => TcpInv
    BY TcpInit
  <1>2. TcpInv /\ [Next]_vars => TcpInv'
    BY TcpStep
  <1>. QED BY <1>1, <1>2, PTL DEF Spec

(* Every field of both sockets keeps its type and no counter goes below    *)
(* zero, as unsigned integers in the code must not; a step leaves no       *)
(* segment in a socket and no queue is longer than its limit.              *)
THEOREM TcpTypes == Spec => []TypeOK
  <1>1. TcpInv => TypeOK
    <2>1. SUFFICES ASSUME TcpInv, NEW e \in End, NEW k, k = sock[e]
                   PROVE  /\ k.state \in ConnStates
                          /\ k.congState \in {"OPEN", "DISORDER", "RECOVERY", "LOSS"}
                          /\ {k.nextTx, k.highTxMark, k.head, k.written, k.nextRx, k.rWnd, k.cWnd,
                              k.ssThresh, k.dupAckCount, k.retransOut, k.recover, k.ackedRest,
                              k.delAckCount, k.synCount, k.dataRetrCount, k.left} \subseteq Nat
                          /\ k.out = <<>>
                          /\ Len(link[e]) <= QueueLen
      BY Zenon DEF TypeOK
    <2>2. Counts(k) /\ Others(k) /\ k.out = <<>> /\ Len(link[e]) <= QueueLen
      BY <2>1, Zenon DEF TcpInv, Sound, Typed
    <2>. QED BY <2>2 DEF Counts, Others, CongStates
  <1>. QED BY <1>1, TcpInvariant, PTL

(* The next sequence to send lies between the ends of the transmit buffer, *)
(* so the unsigned differences of tcp-socket-base.cc do not wrap, also     *)
(* when a timeout rewinds it and a late acknowledgement passes it.         *)
THEOREM TcpBufferCovers == Spec => []BufferCovers
  <1>1. TcpInv => BufferCovers
    BY Zenon DEF TcpInv, BufferCovers, Sound, Kept, SentIsHeld, Behind
  <1>. QED BY <1>1, TcpInvariant, PTL

(* A recovery of TcpNewReno or TcpFixed has its end ahead of the head and  *)
(* not beyond what was sent, so that an acknowledgement ends it.           *)
THEOREM TcpLossCovers == Spec => []LossCovers
  <1>1. TcpInv => LossCovers
    BY Zenon DEF TcpInv, LossCovers, Sound, Kept, LossIsMarked
  <1>. QED BY <1>1, TcpInvariant, PTL

(* A connected socket whose peer offers no window keeps its persist timer, *)
(* in whichever order windows close and open and timers expire.            *)
THEOREM TcpStalledIsProbed == Spec => []StalledIsProbed
  <1>1. TcpInv => StalledIsProbed
    BY Zenon DEF TcpInv, StalledIsProbed, Sound, Kept, ZeroIsProbed
  <1>. QED BY <1>1, TcpInvariant, PTL

(* TcpFixed never has more outstanding than the window it starts with, if  *)
(* that is more than one segment and limited transmit is off.  With one    *)
(* segment a loss reduces and inflates the window as NewReno does, and     *)
(* limited transmit sends outside of it.                                   *)
THEOREM TcpFixedOutstanding ==
    ASSUME \A i \in DOMAIN Settings :
               Settings[i].algorithm = "Fixed" =>
                   Settings[i].initialCwnd > 1 /\ ~Settings[i].limitedTx
    PROVE  Spec => []FixedOutstanding
  <1>1. TcpInv => FixedOutstanding
    <2>1. SUFFICES ASSUME TcpInv, Algorithm = "Fixed", NEW e \in End
                   PROVE  sock[e].highTxMark - sock[e].head <= ConstantWindow
      BY Zenon DEF FixedOutstanding
    <2>2. Careful
      BY <2>1 DEF TcpInv, Careful, Algorithm, InitialCwnd, LimitedTx, Attributes
    <2>3. /\ sock[e].highTxMark <= sock[e].head + ConstantWindow
          /\ sock[e].highTxMark \in Nat /\ sock[e].head \in Nat
      BY <2>1, <2>2, Zenon DEF TcpInv, Sound, Kept, WindowIsFixed, Typed, Counts
    <2>4. ConstantWindow \in Nat
      BY <2>1, AtEnd, ConstantWindowFacts
    <2>. QED BY <2>3, <2>4
  <1>. QED BY <1>1, TcpInvariant, PTL

=============================================================================
