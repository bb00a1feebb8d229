----------------------------- MODULE TcpdSender -----------------------------
(***************************************************************************)
(* tcpd on the host of the ftpc processes (tcpd.c): the connection table,  *)
(* the selective-repeat sender of every connection, and the round of the   *)
(* main loop that drives it.                                               *)
(*                                                                         *)
(* A round is: select() picks the ready sockets; the handlers of the ready *)
(* sockets run, one datagram each, in a fixed order (front call,           *)
(* acknowledgements, timer); SolveSendCallback sends what the window       *)
(* allows.  The datagrams a round handles are the ones that were ready at  *)
(* select(), so Select puts them in frontIn, ackIn and timerIn.            *)
(*                                                                         *)
(* Every connection is used by one ftpc, which makes blocking calls one at *)
(* a time: SOCKET, CONNECT, then one SEND per chunk of its file.  Lists    *)
(* are sets of sequence numbers here: their order only decides the order   *)
(* of sends within a round, which troll may change anyway.                 *)
(***************************************************************************)
EXTENDS Integers, FiniteSets, Troll, TimerService

CONSTANTS
    SessionOf,          \* what rand() returns in CONNECT, per connection
    Chunks,             \* per connection, the buffers its ftpc SENDs
    Careless,           \* connections whose front may SEND before CONNECT
    MaxBufferPackages,  \* MAX_BUFFER_PACKAGES
    BufLen,             \* BUF_LEN
    MaxCancels,         \* bound: cancel requests waiting for one timer
    None

(* The calls as TcpdMessage carries them. *)
CallType == [op : {"SOCKET", "CONNECT", "SEND"}, conn : Conn]

ASSUME SenderAssumption ==
    /\ SessionOf \in [Conn -> Session]
    /\ Chunks \in [Conn -> Seq(Body)]
    /\ Careless \subseteq Conn
    /\ MaxBufferPackages \in Nat \ {0}
    /\ BufLen \in Nat
    /\ MaxCancels \in Nat
    /\ None \notin CallType

VARIABLES
    sockets,            \* fds SOCKET returned
    connected,          \* fds that are keys of ConnectedSockets
    Base,               \* next sequence number, per connection
    MinSeq,             \* as SolveSendCallback computed it last
    Packages,           \* sequence numbers sent and waiting for an ack
    PendingPackages,    \* sequence numbers waiting to be (re)sent
    InBufferPackages,   \* global count of the two lists' elements
    phase,              \* where the main loop is
    frontIn,            \* front call to be handled in this round, or None
    ackIn,              \* acknowledgement to be handled, per connection
    timerIn             \* whether TimerDriverSocket was ready

senderTables == <<sockets, connected, Base, Packages, PendingPackages,
                  InBufferPackages>>
senderVars == <<senderTables, MinSeq, phase, frontIn, ackIn, timerIn>>

-----------------------------------------------------------------------------
Key(c, s) == <<SessionOf[c], s>>

(* Packages still held for retransmission. *)
Buffered(c) == Packages[c] \cup PendingPackages[c]

(* A SEND has been made for sequence number s of connection c. *)
IsSent(c, s) == s < Base[c]

(* The calls a front process may make next. *)
Calls(c) ==
    {op \in {"SOCKET", "CONNECT", "SEND"} :
        \/ op = "SOCKET" /\ c \notin sockets
        \/ op = "CONNECT" /\ c \in sockets \ connected
        \/ /\ op = "SEND" /\ Base[c] < Len(Chunks[c])
           /\ c \in connected \cup (sockets \cap Careless)}

FrontCalls == UNION {{[op |-> o, conn |-> c] : o \in Calls(c)} : c \in Conn}

(* TcpdMsgSocket is watched.  Fault: one package too many is let in. *)
HasRoom_OffByOne == InBufferPackages <= MaxBufferPackages
HasRoom == InBufferPackages < MaxBufferPackages

(* RecvAck's search finds the package.  Fault: it always "finds" one. *)
Acknowledges_Any(m, c) == m.session = SessionOf[c]
Acknowledges(m, c) == m.session = SessionOf[c] /\ m.seq \in Packages[c]

(* The package RecvTimer moves, if it is there.  Faults: it does not look   *)
(* whether it is; the search never matches.                                 *)
Expired_Unchecked(c, k) == {k[2]}
Expired_Never(c, k) == {}
Expired(c, k) == Packages[c] \cap {k[2]}

(* What stays pending when s is sent.  Fault: s is not unlinked. *)
Unlinked_Kept(c, s) == PendingPackages[c]
Unlinked(c, s) == PendingPackages[c] \ {s}

(* SolveSendCallback's window test. *)
InWindow(c, s) == s < MinSeq[c] + MaxBufferPackages

(* The least number of an empty Packages.  Fault: an unsigned -1. *)
EmptyMinSeq_Signed == -1
EmptyMinSeq == 100000000

MinOf(S) == CHOOSE s \in S : \A t \in S : s <= t

(* The callbacks are done, the loop is back at select(). *)
Selecting ==
    phase = "send" /\ \A c \in Conn : \A s \in PendingPackages[c] : ~InWindow(c, s)

(* Bound: an acknowledgement stays on the way while MaxCancels requests to  *)
(* cancel the timer of its package are still to be served.                  *)
CancelsWaiting(k) == {i \in DOMAIN toTimer : toTimer[i] = CancelRequest(k)}
Readable(m) == Cardinality(CancelsWaiting(<<m.session, m.seq>>)) < MaxCancels

(* The acknowledgements that select() may report, at most one per socket. *)
AckChoices ==
    {a \in [Conn -> {m \in Arrivals(ackNet) : Readable(m)} \cup {None}] :
        \A c \in Conn : a[c] = None \/ (c \in connected /\ a[c].conn = c)}

TakenAcks(a) == IF Duplicating THEN ackNet ELSE ackNet \ {a[c] : c \in Conn}

NoAcks == [c \in Conn |-> None]

-----------------------------------------------------------------------------
(* A garbled acknowledgement may be of any session number and number. *)
ReadAckType == [conn : Conn, session : Session, seq : Nat, intact : BOOLEAN]

SenderTypeOK ==
    /\ sockets \subseteq Conn /\ connected \subseteq Conn
    /\ Base \in [Conn -> Nat] /\ MinSeq \in [Conn -> Nat]
    /\ Packages \in [Conn -> SUBSET Nat]
    /\ PendingPackages \in [Conn -> SUBSET Nat]
    /\ InBufferPackages \in Int
    /\ phase \in {"handle", "send", "exited"}
    /\ frontIn \in CallType \cup {None}
    /\ ackIn \in [Conn -> ReadAckType \cup {None}]
    /\ timerIn \in BOOLEAN

SenderInit ==
    /\ sockets = {} /\ connected = {}
    /\ Base = [c \in Conn |-> 0]
    /\ MinSeq = [c \in Conn |-> 0]
    /\ Packages = [c \in Conn |-> {}]
    /\ PendingPackages = [c \in Conn |-> {}]
    /\ InBufferPackages = 0
    /\ phase = "send"
    /\ frontIn = None /\ ackIn = NoAcks /\ timerIn = FALSE

(* main(): TcpdMsgSocket is watched only below MAX_BUFFER_PACKAGES. *)
Select ==
    /\ Selecting
    /\ frontIn' \in {None} \cup (IF HasRoom THEN FrontCalls ELSE {})
    /\ ackIn' \in AckChoices
    /\ timerIn' = (fromTimer # <<>>)
    /\ frontIn' # None \/ ackIn' # NoAcks \/ timerIn'
    /\ ackNet' = TakenAcks(ackIn')
    /\ phase' = "handle"
    /\ UNCHANGED <<senderTables, MinSeq, dataNet, timerVars>>

-----------------------------------------------------------------------------
Handling(op, c) == phase = "handle" /\ frontIn = [op |-> op, conn |-> c]

TcpdSOCKET(c) ==
    /\ Handling("SOCKET", c)
    /\ sockets' = sockets \cup {c}
    /\ frontIn' = None
    /\ UNCHANGED <<connected, Base, MinSeq, Packages, PendingPackages,
                   InBufferPackages, phase, ackIn, timerIn, net, timerVars>>

TcpdCONNECT(c) ==
    /\ Handling("CONNECT", c)
    /\ connected' = connected \cup {c}
    /\ Base' = [Base EXCEPT ![c] = 0]
    /\ MinSeq' = [MinSeq EXCEPT ![c] = 0]
    /\ Packages' = [Packages EXCEPT ![c] = {}]
    /\ PendingPackages' = [PendingPackages EXCEPT ![c] = {}]
    /\ frontIn' = None
    /\ UNCHANGED <<sockets, InBufferPackages, phase, ackIn, timerIn, net,
                   timerVars>>

Sendable(c) == c \in connected /\ Len(Chunks[c][Base[c] + 1]) <= BufLen

TcpdSEND(c) ==
    /\ Handling("SEND", c)
    /\ Sendable(c)
    /\ PendingPackages' = [PendingPackages EXCEPT ![c] = @ \cup {Base[c]}]
    /\ Base' = [Base EXCEPT ![c] = @ + 1]
    /\ InBufferPackages' = InBufferPackages + 1
    /\ frontIn' = None
    /\ UNCHANGED <<sockets, connected, MinSeq, Packages, phase, ackIn, timerIn,
                   net, timerVars>>

(* Not connected, or larger than a package: the daemon exits. *)
TcpdSENDExits(c) ==
    /\ Handling("SEND", c)
    /\ ~Sendable(c)
    /\ phase' = "exited"
    /\ UNCHANGED <<senderTables, MinSeq, frontIn, ackIn, timerIn, net, timerVars>>

-----------------------------------------------------------------------------
(* A garbled acknowledgement is dropped.  Otherwise the package leaves      *)
(* Packages, if it is there, and its timer is cancelled in any case.        *)
RecvAck(c) ==
    /\ phase = "handle" /\ frontIn = None /\ ackIn[c] # None
    /\ LET m == ackIn[c]
           hit == Acknowledges(m, c) IN
         IF ~Intact(m) THEN UNCHANGED <<Packages, InBufferPackages, toTimer>>
         ELSE /\ Packages' = IF hit THEN [Packages EXCEPT ![c] = @ \ {m.seq}]
                                    ELSE Packages
              /\ InBufferPackages' = InBufferPackages - (IF hit THEN 1 ELSE 0)
              /\ CancelTimerRequest(<<m.session, m.seq>>)
    /\ ackIn' = [ackIn EXCEPT ![c] = None]
    /\ UNCHANGED <<sockets, connected, Base, MinSeq, PendingPackages, phase,
                   frontIn, timerIn, net, armed, fromTimer>>

(* The first connection with the session gets its package moved, if the     *)
(* package still waits for an acknowledgement.  The exit for an unknown     *)
(* session (tcpd.c:451) is out of reach: nobody here connects an fd twice.  *)
RecvTimer ==
    /\ phase = "handle" /\ frontIn = None /\ ackIn = NoAcks /\ timerIn
    /\ \E c \in connected :
         LET k == Head(fromTimer)
             moved == Expired(c, k) IN
           /\ SessionOf[c] = k[1]
           /\ Packages' = [Packages EXCEPT ![c] = @ \ moved]
           /\ PendingPackages' = [PendingPackages EXCEPT ![c] = @ \cup moved]
    /\ fromTimer' = Tail(fromTimer)
    /\ timerIn' = FALSE
    /\ UNCHANGED <<sockets, connected, Base, MinSeq, InBufferPackages, phase,
                   frontIn, ackIn, net, toTimer, armed>>

-----------------------------------------------------------------------------
(* SolveSendCallback: MinSeq is the least number in Packages and is not     *)
(* computed again while the pending packages are sent.                      *)
UpdateMinSeq ==
    /\ phase = "handle" /\ frontIn = None /\ ackIn = NoAcks /\ ~timerIn
    /\ MinSeq' = [c \in Conn |-> IF c \notin connected THEN MinSeq[c]
                                 ELSE IF Packages[c] = {} THEN EmptyMinSeq
                                 ELSE MinOf(Packages[c])]
    /\ phase' = "send"
    /\ UNCHANGED <<senderTables, frontIn, ackIn, timerIn, net, timerVars>>

SendPackage(c) ==
    /\ phase = "send"
    /\ \E s \in PendingPackages[c] :
         /\ InWindow(c, s)
         /\ dataNet' \in
              Sent(dataNet, DataMessage(c, SessionOf[c], s, Chunks[c][s + 1]))
         /\ Packages' = [Packages EXCEPT ![c] = @ \cup {s}]
         /\ PendingPackages' = [PendingPackages EXCEPT ![c] = Unlinked(c, s)]
         /\ SendTimerRequest(Key(c, s))
    /\ UNCHANGED <<sockets, connected, Base, MinSeq, InBufferPackages, phase,
                   frontIn, ackIn, timerIn, ackNet, armed, fromTimer>>

-----------------------------------------------------------------------------
SenderStep(c) ==
    \/ TcpdSOCKET(c) \/ TcpdCONNECT(c) \/ TcpdSEND(c) \/ TcpdSENDExits(c)
    \/ RecvAck(c) \/ SendPackage(c)

SenderNext == Select \/ RecvTimer \/ UpdateMinSeq \/ \E c \in Conn : SenderStep(c)
=============================================================================
