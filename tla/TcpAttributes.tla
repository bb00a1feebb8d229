--------------------------- MODULE TcpAttributes ---------------------------
(***************************************************************************)
(* The attributes of the sockets and of the scenario: in ns-3 they are     *)
(* looked up by name and set before a simulation begins, in tcpchain.cc    *)
(* from the command line.  A setting is one assignment of all of them;     *)
(* Settings holds those that a run of TLC goes through, each a behaviour   *)
(* of its own.                                                             *)
(***************************************************************************)
EXTENDS Integers, Sequences

CONSTANT Settings  \* from the name of a setting to its record

VARIABLE setting   \* the one of this simulation, which no step changes

Attributes == Settings[setting]

-----------------------------------------------------------------------------
(* The socket. *)
Algorithm == Attributes.algorithm             \* "NewReno" or "Fixed"
SegSize == Attributes.segSize                 \* m_segmentSize
InitialCwnd == Attributes.initialCwnd         \* m_initialCWnd, in segments
InitialSsThresh == Attributes.initialSsThresh
SynRetries == Attributes.synRetries           \* m_synRetries
DataRetries == Attributes.dataRetries         \* m_dataRetries
DelAckMax == Attributes.delAckMax             \* m_delAckMaxCount
RetxThresh == Attributes.retxThresh           \* m_retxThresh
LimitedTx == Attributes.limitedTx             \* m_limitedTx
NoDelay == Attributes.noDelay                 \* m_noDelay
SndBuf == Attributes.sndBuf                   \* size of the transmit buffer
MaxWin == Attributes.maxWin                   \* m_maxWinSize
WindowScaling == Attributes.windowScaling     \* m_winScalingEnabled, of each end
RcvBufSize == Attributes.rcvBufSize           \* receive buffer of each end
Word == Attributes.word                       \* stands for 2^32

(* The applications. *)
ChainBytes == Attributes.chainBytes   \* totalTxBytes; 0 if the client is not tcpchain
AppCalls == Attributes.appCalls       \* the calls each application makes on its own
AppBytes == Attributes.appBytes       \* what it sends
Chunk == Attributes.chunk             \* the largest buffer it gives to Send or Recv
Resizes == Attributes.resizes         \* receive buffer sizes it sets later, in order
EagerEnds == Attributes.eagerEnds     \* who reads as soon as it is notified

(* The network and the bounds. *)
QueueLen == Attributes.queueLen       \* segments on their way to one end at once
MaxLoss == Attributes.maxLoss         \* bound: segments the error model takes
MaxDupAcks == Attributes.maxDupAcks   \* bound: duplicate acknowledgements in a row
MaxTimeouts == Attributes.maxTimeouts \* bound: early timers, and window probes
Patient == Attributes.patient         \* no timer fires early

-----------------------------------------------------------------------------
Client == "client"
Server == "server"
End == {Client, Server}

(* What the checkers of the attributes accept. *)
IsSetting(a) ==
    /\ a.algorithm \in {"NewReno", "Fixed"}
    /\ {a.segSize, a.initialCwnd, a.delAckMax, a.word, a.chunk} \subseteq Nat \ {0}
    /\ {a.initialSsThresh, a.synRetries, a.dataRetries, a.retxThresh, a.sndBuf,
        a.maxWin, a.chainBytes, a.queueLen, a.maxLoss, a.maxDupAcks,
        a.maxTimeouts} \subseteq Nat
    /\ {a.limitedTx, a.noDelay, a.patient} \subseteq BOOLEAN
    /\ a.windowScaling \in [End -> BOOLEAN]
    /\ {a.rcvBufSize, a.appBytes} \subseteq [End -> Nat]
    /\ a.resizes \in Seq(Nat)
    /\ a.eagerEnds \subseteq End

ASSUME SettingsAssumption == \A s \in DOMAIN Settings : IsSetting(Settings[s])
=============================================================================
