--------------------------- MODULE TransferProofs ---------------------------
(***************************************************************************)
(* The types of the running system; the sender's buffer: what              *)
(* InBufferPackages counts, and that a package that left it never comes    *)
(* back; and, provided connections have different session numbers, the     *)
(* timers of packages: retransmission is never switched off for a package  *)
(* in flight, and a package never has two timers, so that each             *)
(* retransmission is timed by its own request.                             *)
(***************************************************************************)
EXTENDS Transfer, WellFoundedInduction, FiniteSetTheorems, TLAPS

(* Whatever arrives with a correct checksum is a datagram that was sent. *)
LEMMA IntactAck ==
    ASSUME ackNet \subseteq AckType, NEW m \in Arrivals(ackNet)
    PROVE  /\ m \in ReadAckType
           /\ Intact(m) => m \in ackNet
  <1>1. CASE m \in ackNet
    BY <1>1 DEF AckType, ReadAckType
  <1>2. CASE \E n \in ackNet : m \in Garbled(n)
    <2>1. PICK n \in ackNet, s \in SeqNum :
            m = [n EXCEPT !.seq = s, !.intact = FALSE]
      BY <1>2 DEF Garbled
    <2>2. n \in AckType /\ s \in Nat
      BY <2>1, TrollAssumption DEF TrollAssumption
    <2>3. n.conn \in Conn /\ n.session \in Session /\ DOMAIN n = {"conn", "session", "seq", "intact"}
      BY <2>2 DEF AckType
    <2>4. m = [conn |-> n.conn, session |-> n.session, seq |-> s, intact |-> FALSE]
      BY <2>1, <2>2 DEF AckType
    <2>. QED BY <2>2, <2>3, <2>4 DEF ReadAckType, Intact
  <1>. QED BY <1>1, <1>2 DEF Arrivals

LEMMA IntactData ==
    ASSUME dataNet \subseteq DataType, NEW m \in Arrivals(dataNet), Intact(m)
    PROVE  m \in dataNet /\ m \in DataType
  <1>1. ASSUME NEW n \in dataNet, m \in Garbled(n) PROVE FALSE
    <2>1. PICK s \in SeqNum : m = [n EXCEPT !.seq = s, !.intact = FALSE]
      BY <1>1 DEF Garbled
    <2>2. n \in DataType
      OBVIOUS
    <2>3. m.intact = FALSE
      BY <2>1, <2>2 DEF DataType
    <2>. QED BY <2>3 DEF Intact
  <1>. QED BY <1>1 DEF Arrivals

LEMMA MinOfNat ==
    ASSUME NEW S \in SUBSET Nat, S # {}
    PROVE  MinOf(S) \in Nat
  <1>1. PICK m \in S : \A t \in S : ~ (<<t, m>> \in OpToRel(<, Nat))
    BY NatLessThanWellFounded, WFMin
  <1>2. \A t \in S : ~ (t < m)
    BY <1>1, Zenon DEF OpToRel
  <1>3. \A t \in S : m <= t
    BY <1>2
  <1>. QED BY <1>3 DEF MinOf
-----------------------------------------------------------------------------
(***************************************************************************)
(* What the types of the next state rest on: a handler finds the datagram  *)
(* select() reported, and only chunks that were given to SEND are in the   *)
(* lists.                                                                  *)
(***************************************************************************)
TimerReady == timerIn => fromTimer # <<>>

SendPossible ==
    \A c \in Conn :
        frontIn = [op |-> "SEND", conn |-> c] => Base[c] < Len(Chunks[c])

BufferedWereSent ==
    \A c \in Conn :
        /\ Base[c] <= Len(Chunks[c])
        /\ \A s \in Buffered(c) : s < Base[c]

TypeInv == TypeOK /\ TimerReady /\ SendPossible /\ BufferedWereSent

(* The first two are about what only the sender changes. *)
LEMMA TypeInvInit == Init => TypeInv
  <1>. SUFFICES ASSUME Init PROVE TypeInv
    OBVIOUS
  <1>. USE SenderAssumption, ReceiverAssumption, TrollAssumption
  <1>1. NetTypeOK
    BY DEF Init, NetInit, NetTypeOK
  <1>2. TimerTypeOK(Session \X Nat)
    BY DEF Init, TimerInit, TimerTypeOK
  <1>3. SenderTypeOK
    <2>1. ackIn \in [Conn -> ReadAckType \cup {None}]
      BY DEF Init, SenderInit, NoAcks
    <2>2. /\ Packages \in [Conn -> SUBSET Nat]
          /\ PendingPackages \in [Conn -> SUBSET Nat]
      BY DEF Init, SenderInit
    <2>3. /\ Base \in [Conn -> Nat] /\ MinSeq \in [Conn -> Nat]
          /\ InBufferPackages \in Int
      BY DEF Init, SenderInit
    <2>. QED BY <2>1, <2>2, <2>3 DEF Init, SenderInit, SenderTypeOK
  <1>4. ReceiverTypeOK
    <2>1. /\ recvBuffer \in [Session -> Body] /\ returned \in [Session -> Body]
          /\ waiting \in Seq(Session)
      BY DEF Init, ReceiverInit, Body
    <2>2. rPackages \in [Session -> SUBSET [seq : Nat, body : Body]]
      BY DEF Init, ReceiverInit
    <2>3. /\ rBase \in [Session -> Nat]
          /\ receiving \in [Session -> Nat]
          /\ receivingFor \in [Session -> Ftps \cup {NoFtps}]
          /\ status \in [Ftps -> {"idle", "accept", "recv", "error"}]
      BY DEF Init, ReceiverInit
    <2>. QED BY <2>1, <2>2, <2>3 DEF Init, ReceiverInit, ReceiverTypeOK
  <1>5. TimerReady
    BY DEF Init, SenderInit, TimerReady
  <1>6. SendPossible
    BY DEF Init, SenderInit, SendPossible, SenderAssumption, CallType
  <1>7. BufferedWereSent
    BY DEF Init, SenderInit, BufferedWereSent, Buffered, SenderAssumption
  <1>. QED BY <1>1, <1>2, <1>3, <1>4, <1>5, <1>6, <1>7 DEF TypeInv, TypeOK
(* A step of the timer. *)
LEMMA TypeInvTimer ==
    ASSUME TypeInv, Timer
    PROVE  TypeInv'
  <1>. USE DEF TypeInv, TypeOK
  <1>1. NetTypeOK'
    BY DEF Timer, NetTypeOK, net
  <1>2. SenderTypeOK'
    BY DEF Timer, SenderTypeOK, senderVars, senderTables
  <1>3. ReceiverTypeOK'
    BY DEF Timer, ReceiverTypeOK, receiverVars
  <1>4. SendPossible' /\ BufferedWereSent'
    BY DEF Timer, SendPossible, BufferedWereSent, Buffered, senderVars, senderTables
  <1>5. TimerTypeOK(Session \X Nat)' /\ TimerReady'
    <2>1. CASE ServeRequest
      <3>1. /\ Head(toTimer) \in Requests(Session \X Nat)
            /\ Tail(toTimer) \in Seq(Requests(Session \X Nat))
        BY <2>1 DEF ServeRequest, TimerTypeOK
      <3>2. armed' \subseteq Session \X Nat
        BY <2>1, <3>1 DEF ServeRequest, TimerTypeOK, Requests
      <3>3. timerIn' = timerIn
        BY DEF Timer, senderVars
      <3>. QED BY <2>1, <3>1, <3>2, <3>3 DEF ServeRequest, TimerTypeOK, TimerReady
    <2>2. ASSUME NEW k \in armed, Expire(k)
          PROVE  TimerTypeOK(Session \X Nat)' /\ TimerReady'
      <3>1. k \in Session \X Nat
        BY DEF TimerTypeOK
      <3>2. fromTimer' \in Seq(Session \X Nat) /\ fromTimer' # <<>>
        BY <2>2, <3>1, SMTT(30) DEF Expire, TimerTypeOK
      <3>. QED BY <2>2, <3>2 DEF Expire, TimerTypeOK, TimerReady
    <2>. QED BY <2>1, <2>2 DEF Timer, TimerNext
  <1>. QED BY <1>1, <1>2, <1>3, <1>4, <1>5

(* A step of the receiving daemon or of a front process that uses it. *)
LEMMA TypeInvReceiver ==
    ASSUME TypeInv, Receiver
    PROVE  TypeInv'
  <1>. USE DEF TypeInv, TypeOK
  <1>1. SenderTypeOK'
    BY DEF Receiver, SenderTypeOK, senderVars, senderTables
  <1>2. TimerTypeOK(Session \X Nat)' /\ TimerReady'
    BY DEF Receiver, TimerTypeOK, timerVars, TimerReady, senderVars
  <1>3. SendPossible' /\ BufferedWereSent'
    BY DEF Receiver, SendPossible, BufferedWereSent, Buffered, senderVars, senderTables
  <1>4. NetTypeOK' /\ ReceiverTypeOK'
    <2>1. ASSUME NEW f \in Ftps, TcpdBIND(f)
          PROVE  NetTypeOK' /\ ReceiverTypeOK'
      BY <2>1 DEF TcpdBIND, NetTypeOK, ReceiverTypeOK, net
    <2>2. ASSUME NEW f \in Ftps, TcpdACCEPT(f)
          PROVE  NetTypeOK' /\ ReceiverTypeOK'
      BY <2>2 DEF TcpdACCEPT, NetTypeOK, ReceiverTypeOK, net
    <2>3. ASSUME NEW f \in Ftps, NEW x \in Session, NEW n \in RecvLens, TcpdRECV(f, x, n)
          PROVE  NetTypeOK' /\ ReceiverTypeOK'
      <3>1. n \in Nat
        BY ReceiverAssumption DEF ReceiverAssumption
      <3>2. /\ receiving' \in [Session -> Nat]
            /\ receivingFor' \in [Session -> Ftps \cup {NoFtps}]
            /\ status' \in [Ftps -> {"idle", "accept", "recv", "error"}]
        BY <2>3, <3>1 DEF TcpdRECV, ReceiverTypeOK
      <3>. QED BY <2>3, <3>2 DEF TcpdRECV, NetTypeOK, ReceiverTypeOK, net
    <2>4. ASSUME NEW m \in Arrivals(dataNet), RecvData(m)
          PROVE  NetTypeOK' /\ ReceiverTypeOK'
      <3>1. m \in dataNet /\ m \in DataType
        BY <2>4, IntactData DEF RecvData, NetTypeOK
      <3>2. /\ m.conn \in Conn /\ m.session \in Session
            /\ m.seq \in Nat /\ m.body \in Body
        BY <3>1 DEF DataType
      <3>3. AckMessage(m.conn, m.session, m.seq) \in AckType
        BY <3>2 DEF AckMessage, AckType
      <3>4. ackNet' \subseteq AckType
        BY <2>4, <3>3 DEF RecvData, Sent, NetTypeOK
      <3>5. dataNet' \subseteq DataType
        BY <2>4 DEF RecvData, Taken, NetTypeOK
      <3>6. waiting' \in Seq(Session)
        BY <2>4, <3>2 DEF RecvData, ReceiverTypeOK
      <3>7. rPackages' \in [Session -> SUBSET [seq : Nat, body : Body]]
        BY <2>4, <3>2 DEF RecvData, ReceiverTypeOK
      <3>. QED BY <2>4, <3>4, <3>5, <3>6, <3>7 DEF RecvData, NetTypeOK, ReceiverTypeOK
    <2>5. CASE SolveAccept
      <3>1. waiting' \in Seq(Session) /\ accepted' \subseteq Session
        BY <2>5 DEF SolveAccept, Acceptable, ReceiverTypeOK
      <3>2. status' \in [Ftps -> {"idle", "accept", "recv", "error"}]
        BY <2>5 DEF SolveAccept, ReceiverTypeOK
      <3>. QED BY <2>5, <3>1, <3>2 DEF SolveAccept, NetTypeOK, ReceiverTypeOK, net
    <2>6. ASSUME NEW x \in Session, TakePackage(x)
          PROVE  NetTypeOK' /\ ReceiverTypeOK'
      <3>1. PICK p \in rPackages[x] :
              /\ recvBuffer' = [recvBuffer EXCEPT ![x] = @ \o p.body]
              /\ rPackages' = [rPackages EXCEPT ![x] = @ \ {p}]
        BY <2>6 DEF TakePackage
      <3>2. p \in [seq : Nat, body : Body]
        BY DEF ReceiverTypeOK
      <3>3. recvBuffer[x] \o p.body \in Body
        BY <3>2 DEF Body, ReceiverTypeOK
      <3>4. recvBuffer' \in [Session -> Body]
        BY <3>1, <3>3 DEF ReceiverTypeOK
      <3>5. rPackages' \in [Session -> SUBSET [seq : Nat, body : Body]]
        BY <3>1 DEF ReceiverTypeOK
      <3>6. rBase' \in [Session -> Nat]
        BY <2>6 DEF TakePackage, ReceiverTypeOK
      <3>. QED BY <2>6, <3>4, <3>5, <3>6 DEF TakePackage, NetTypeOK, ReceiverTypeOK, net
    <2>7. ASSUME NEW x \in Session, TakePart(x)
          PROVE  NetTypeOK' /\ ReceiverTypeOK'
      <3>. DEFINE remain == receiving[x] - Len(recvBuffer[x])
      <3>1. PICK p \in rPackages[x] :
              rPackages' = [rPackages EXCEPT ![x] =
                  (@ \ {p}) \cup
                  {[p EXCEPT !.body = SubSeq(@, remain + 1, Len(@))]}]
        BY <2>7 DEF TakePart
      <3>2. p \in [seq : Nat, body : Body]
        BY DEF ReceiverTypeOK
      <3>3. remain + 1 \in Nat /\ remain + 1 > 0
        <4>1. receiving[x] \in Nat /\ Len(recvBuffer[x]) \in Nat
          BY DEF ReceiverTypeOK, Body
        <4>2. Len(recvBuffer[x]) < receiving[x]
          BY <2>7 DEF TakePart, Filling
        <4>. QED BY <4>1, <4>2
      <3>4. SubSeq(p.body, remain + 1, Len(p.body)) \in Body
        <4>. DEFINE r1 == remain + 1
        <4>1. r1 \in Nat /\ r1 > 0
          BY <3>3
        <4>2. p.body \in Seq(Nat)
          BY <3>2 DEF Body
        <4>. HIDE DEF r1
        <4>3. SubSeq(p.body, r1, Len(p.body)) \in Seq(Nat)
          BY <4>1, <4>2
        <4>. QED BY <4>3 DEF Body, r1
      <3>5. [p EXCEPT !.body = SubSeq(@, remain + 1, Len(@))] \in [seq : Nat, body : Body]
        BY <3>2, <3>4
      <3>. HIDE DEF remain
      <3>6. rPackages' \in [Session -> SUBSET [seq : Nat, body : Body]]
        BY <3>1, <3>5 DEF ReceiverTypeOK
      <3>. QED BY <2>7, <3>6 DEF TakePart, NetTypeOK, ReceiverTypeOK, net
    <2>8. ASSUME NEW x \in Session, ReplyRecv(x)
          PROVE  NetTypeOK' /\ ReceiverTypeOK'
      <3>1. returned[x] \o recvBuffer[x] \in Body /\ <<>> \in Body
        BY DEF ReceiverTypeOK, Body
      <3>2. returned' \in [Session -> Body] /\ recvBuffer' \in [Session -> Body]
        BY <2>8, <3>1 DEF ReplyRecv, ReceiverTypeOK
      <3>3. /\ receiving' \in [Session -> Nat]
            /\ status' \in [Ftps -> {"idle", "accept", "recv", "error"}]
        BY <2>8 DEF ReplyRecv, ReceiverTypeOK
      <3>. QED BY <2>8, <3>2, <3>3 DEF ReplyRecv, NetTypeOK, ReceiverTypeOK, net
    <2>9. ASSUME NEW x \in Session, RecvExits(x)
          PROVE  NetTypeOK' /\ ReceiverTypeOK'
      BY <2>9 DEF RecvExits, NetTypeOK, ReceiverTypeOK, net
    <2>. QED
      BY <2>1, <2>2, <2>3, <2>4, <2>5, <2>6, <2>7, <2>8, <2>9
      DEF Receiver, ReceiverNext, FrontCall, Callback
  <1>. QED BY <1>1, <1>2, <1>3, <1>4
(* A step of the sending daemon. *)
LEMMA TypeInvSender ==
    ASSUME TypeInv, Sender
    PROVE  TypeInv'
  <1>. USE DEF TypeInv, TypeOK
  <1>1. ReceiverTypeOK'
    BY DEF Sender, ReceiverTypeOK, receiverVars
  <1>2. CASE Select
    <2>1. NetTypeOK'
      <3>1. ackNet' \subseteq ackNet
        BY <1>2 DEF Select, TakenAcks
      <3>. QED BY <1>2, <3>1 DEF Select, NetTypeOK
    <2>2. TimerTypeOK(Session \X Nat)' /\ TimerReady'
      BY <1>2 DEF Select, timerVars, TimerTypeOK, TimerReady
    <2>3. frontIn' \in CallType \cup {None}
      <3>1. FrontCalls \subseteq CallType
        BY DEF FrontCalls, Calls, CallType
      <3>. QED BY <1>2, <3>1 DEF Select
    <2>4. ackIn' \in [Conn -> ReadAckType \cup {None}]
      <3>1. {m \in Arrivals(ackNet) : Readable(m)} \subseteq ReadAckType
        BY IntactAck DEF NetTypeOK
      <3>2. ackIn' \in [Conn -> {m \in Arrivals(ackNet) : Readable(m)} \cup {None}]
        BY <1>2 DEF Select, AckChoices
      <3>. QED BY <3>1, <3>2
    <2>5. SenderTypeOK'
      BY <1>2, <2>3, <2>4 DEF Select, SenderTypeOK, senderTables
    <2>6. SendPossible'
      <3>1. SUFFICES ASSUME NEW c \in Conn, frontIn' = [op |-> "SEND", conn |-> c]
                     PROVE  Base[c] < Len(Chunks[c])
        BY <1>2 DEF SendPossible, Select, senderTables
      <3>2. frontIn' # None
        BY <3>1, SenderAssumption DEF SenderAssumption, CallType
      <3>3. frontIn' \in FrontCalls
        BY <1>2, <3>2 DEF Select
      <3>6. PICK d \in Conn : \E o \in Calls(d) : frontIn' = [op |-> o, conn |-> d]
        BY <3>3 DEF FrontCalls
      <3>4. PICK o \in Calls(d) : frontIn' = [op |-> o, conn |-> d]
        BY <3>6
      <3>5. o = "SEND" /\ d = c
        <4>1. frontIn'.op = "SEND" /\ frontIn'.conn = c
          BY <3>1
        <4>2. frontIn'.op = o /\ frontIn'.conn = d
          BY <3>4
        <4>. QED BY <4>1, <4>2
      <3>. QED BY <3>4, <3>5 DEF Calls
    <2>7. BufferedWereSent'
      BY <1>2 DEF Select, senderTables, BufferedWereSent, Buffered
    <2>. QED BY <1>1, <2>1, <2>2, <2>5, <2>6, <2>7
  <1>3. ASSUME NEW c \in Conn, TcpdSOCKET(c)
        PROVE  TypeInv'
    <2>1. SenderTypeOK'
      BY <1>3 DEF TcpdSOCKET, SenderTypeOK
    <2>2. SendPossible'
      BY <1>3, SenderAssumption DEF TcpdSOCKET, SendPossible, SenderAssumption, CallType
    <2>. QED
      BY <1>1, <1>3, <2>1, <2>2
      DEF TcpdSOCKET, net, timerVars, NetTypeOK, TimerTypeOK, TimerReady,
          BufferedWereSent, Buffered
  <1>4. ASSUME NEW c \in Conn, TcpdCONNECT(c)
        PROVE  TypeInv'
    <2>1. SenderTypeOK'
      <3>1. /\ Packages' \in [Conn -> SUBSET Nat]
            /\ PendingPackages' \in [Conn -> SUBSET Nat]
        BY <1>4 DEF TcpdCONNECT, SenderTypeOK
      <3>2. Base' \in [Conn -> Nat] /\ MinSeq' \in [Conn -> Nat]
        BY <1>4 DEF TcpdCONNECT, SenderTypeOK
      <3>. QED BY <1>4, <3>1, <3>2 DEF TcpdCONNECT, SenderTypeOK
    <2>2. SendPossible'
      BY <1>4, SenderAssumption DEF TcpdCONNECT, SendPossible, SenderAssumption, CallType
    <2>3. BufferedWereSent'
      <3>1. SUFFICES ASSUME NEW d \in Conn
                     PROVE  /\ Base'[d] <= Len(Chunks[d])
                            /\ \A s \in Buffered(d)' : s < Base'[d]
        BY DEF BufferedWereSent
      <3>2. Len(Chunks[d]) \in Nat
        BY SenderAssumption DEF SenderAssumption
      <3>3. CASE d = c
        <4>1. Base'[d] = 0 /\ Packages'[d] = {} /\ PendingPackages'[d] = {}
          BY <1>4, <3>3 DEF TcpdCONNECT, SenderTypeOK
        <4>. QED BY <4>1, <3>2 DEF Buffered
      <3>4. CASE d # c
        <4>1. /\ Base'[d] = Base[d] /\ Packages'[d] = Packages[d]
              /\ PendingPackages'[d] = PendingPackages[d]
          BY <1>4, <3>4 DEF TcpdCONNECT, SenderTypeOK
        <4>. QED BY <4>1 DEF Buffered, BufferedWereSent
      <3>. QED BY <3>3, <3>4
    <2>. QED
      BY <1>1, <1>4, <2>1, <2>2, <2>3
      DEF TcpdCONNECT, net, timerVars, NetTypeOK, TimerTypeOK, TimerReady
  <1>5. ASSUME NEW c \in Conn, TcpdSEND(c)
        PROVE  TypeInv'
    <2>0. Base[c] \in Nat /\ Base[c] < Len(Chunks[c]) /\ Len(Chunks[c]) \in Nat
      BY <1>5, SenderAssumption
      DEF TcpdSEND, Handling, SendPossible, SenderTypeOK, SenderAssumption
    <2>1. SenderTypeOK'
      <3>1. PendingPackages' \in [Conn -> SUBSET Nat]
        BY <1>5, <2>0 DEF TcpdSEND, SenderTypeOK
      <3>2. Base' \in [Conn -> Nat] /\ InBufferPackages' \in Int
        BY <1>5 DEF TcpdSEND, SenderTypeOK
      <3>. QED BY <1>5, <3>1, <3>2 DEF TcpdSEND, SenderTypeOK
    <2>2. SendPossible'
      BY <1>5, SenderAssumption DEF TcpdSEND, SendPossible, SenderAssumption, CallType
    <2>3. BufferedWereSent'
      <3>1. SUFFICES ASSUME NEW d \in Conn
                     PROVE  /\ Base'[d] <= Len(Chunks[d])
                            /\ \A s \in Buffered(d)' : s < Base'[d]
        BY DEF BufferedWereSent
      <3>2. Packages'[d] = Packages[d] /\ Base[d] \in Nat
        BY <1>5 DEF TcpdSEND, SenderTypeOK
      <3>3. Buffered(d) \subseteq Nat
        BY DEF Buffered, SenderTypeOK
      <3>4. CASE d = c
        <4>1. Base'[d] = Base[d] + 1
          BY <1>5, <3>4 DEF TcpdSEND, SenderTypeOK
        <4>2. PendingPackages'[d] = PendingPackages[d] \cup {Base[d]}
          BY <1>5, <3>4 DEF TcpdSEND, SenderTypeOK
        <4>3. Buffered(d)' = Buffered(d) \cup {Base[d]}
          BY <3>2, <4>2 DEF Buffered
        <4>4. \A s \in Buffered(d) : s < Base[d]
          BY DEF BufferedWereSent
        <4>. QED BY <2>0, <3>2, <3>3, <3>4, <4>1, <4>3, <4>4
      <3>5. CASE d # c
        <4>1. Base'[d] = Base[d] /\ PendingPackages'[d] = PendingPackages[d]
          BY <1>5, <3>5 DEF TcpdSEND, SenderTypeOK
        <4>. QED BY <3>2, <4>1 DEF Buffered, BufferedWereSent
      <3>. QED BY <3>4, <3>5
    <2>. QED
      BY <1>1, <1>5, <2>1, <2>2, <2>3
      DEF TcpdSEND, net, timerVars, NetTypeOK, TimerTypeOK, TimerReady
  <1>6. ASSUME NEW c \in Conn, TcpdSENDExits(c)
        PROVE  TypeInv'
    <2>1. SenderTypeOK'
      BY <1>6 DEF TcpdSENDExits, SenderTypeOK, senderTables
    <2>. QED
      BY <1>1, <1>6, <2>1
      DEF TcpdSENDExits, senderTables, net, timerVars, NetTypeOK, TimerTypeOK,
          TimerReady, SendPossible, BufferedWereSent, Buffered
  <1>7. ASSUME NEW c \in Conn, RecvAck(c)
        PROVE  TypeInv'
    <2>1. ackIn[c] \in ReadAckType
      BY <1>7 DEF RecvAck, SenderTypeOK
    <2>2. /\ ackIn[c].session \in Session /\ ackIn[c].seq \in Nat
      BY <2>1 DEF ReadAckType
    <2>3. /\ Packages' \in [Conn -> SUBSET Nat]
          /\ \A d \in Conn : Packages'[d] \subseteq Packages[d]
      BY <1>7 DEF RecvAck, SenderTypeOK
    <2>4. InBufferPackages' \in Int
      BY <1>7 DEF RecvAck, SenderTypeOK
    <2>5. toTimer' \in Seq(Requests(Session \X Nat))
      <3>1. CancelRequest(<<ackIn[c].session, ackIn[c].seq>>) \in Requests(Session \X Nat)
        BY <2>2 DEF CancelRequest, Requests
      <3>2. \/ toTimer' = toTimer
            \/ toTimer' = Append(toTimer,
                             CancelRequest(<<ackIn[c].session, ackIn[c].seq>>))
        BY <1>7 DEF RecvAck, CancelTimerRequest
      <3>3. toTimer \in Seq(Requests(Session \X Nat))
        BY DEF TimerTypeOK
      <3>. HIDE DEF TypeInv, TypeOK
      <3>4. CASE toTimer' = toTimer
        BY <3>3, <3>4
      <3>5. CASE toTimer' = Append(toTimer,
                              CancelRequest(<<ackIn[c].session, ackIn[c].seq>>))
        BY <3>1, <3>3, <3>5
      <3>. QED BY <3>2, <3>4, <3>5
    <2>6. ackIn' \in [Conn -> ReadAckType \cup {None}]
      BY <1>7 DEF RecvAck, SenderTypeOK
    <2>7. SenderTypeOK'
      BY <1>7, <2>3, <2>4, <2>6 DEF RecvAck, SenderTypeOK
    <2>8. BufferedWereSent'
      BY <1>7, <2>3 DEF RecvAck, BufferedWereSent, Buffered
    <2>. QED
      BY <1>1, <1>7, <2>5, <2>7, <2>8
      DEF RecvAck, net, NetTypeOK, TimerTypeOK, TimerReady, SendPossible
  <1>8. CASE RecvTimer
    <2>1. PICK c \in connected :
            /\ Packages' = [Packages EXCEPT ![c] = @ \ Expired(c, Head(fromTimer))]
            /\ PendingPackages' =
                 [PendingPackages EXCEPT ![c] = @ \cup Expired(c, Head(fromTimer))]
      BY <1>8 DEF RecvTimer
    <2>2. Expired(c, Head(fromTimer)) \subseteq Packages[c] /\ c \in Conn
      BY DEF Expired, SenderTypeOK
    <2>3. /\ Packages' \in [Conn -> SUBSET Nat]
          /\ PendingPackages' \in [Conn -> SUBSET Nat]
      BY <2>1, <2>2 DEF SenderTypeOK
    <2>4. \A d \in Conn : Buffered(d)' = Buffered(d)
      BY <2>1, <2>2 DEF SenderTypeOK, Buffered
    <2>5. SenderTypeOK'
      BY <1>8, <2>3 DEF RecvTimer, SenderTypeOK
    <2>6. BufferedWereSent'
      BY <1>8, <2>4 DEF RecvTimer, BufferedWereSent
    <2>7. fromTimer' \in Seq(Session \X Nat)
      BY <1>8 DEF RecvTimer, TimerTypeOK, TimerReady
    <2>. QED
      BY <1>1, <1>8, <2>5, <2>6, <2>7
      DEF RecvTimer, net, NetTypeOK, TimerTypeOK, TimerReady, SendPossible
  <1>9. CASE UpdateMinSeq
    <2>1. MinSeq' \in [Conn -> Nat]
      <3>1. ASSUME NEW c \in Conn, Packages[c] # {}
            PROVE  MinOf(Packages[c]) \in Nat
        BY <3>1, MinOfNat DEF SenderTypeOK
      <3>. QED BY <1>9, <3>1 DEF UpdateMinSeq, SenderTypeOK, EmptyMinSeq
    <2>2. SenderTypeOK'
      BY <1>9, <2>1 DEF UpdateMinSeq, SenderTypeOK, senderTables
    <2>. QED
      BY <1>1, <1>9, <2>2
      DEF UpdateMinSeq, senderTables, net, timerVars, NetTypeOK, TimerTypeOK,
          TimerReady, SendPossible, BufferedWereSent, Buffered
  <1>10. ASSUME NEW c \in Conn, SendPackage(c)
         PROVE  TypeInv'
    <2>1. PICK s \in PendingPackages[c] :
            /\ dataNet' \in Sent(dataNet, DataMessage(c, SessionOf[c], s, Chunks[c][s + 1]))
            /\ Packages' = [Packages EXCEPT ![c] = @ \cup {s}]
            /\ PendingPackages' = [PendingPackages EXCEPT ![c] = Unlinked(c, s)]
            /\ SendTimerRequest(Key(c, s))
      BY <1>10 DEF SendPackage
    <2>2. s \in Nat /\ s < Len(Chunks[c])
      <3>1. s \in Nat /\ s < Base[c] /\ Base[c] <= Len(Chunks[c])
        BY DEF SenderTypeOK, BufferedWereSent, Buffered
      <3>2. Base[c] \in Nat /\ Len(Chunks[c]) \in Nat
        BY SenderAssumption DEF SenderAssumption, SenderTypeOK
      <3>. QED BY <3>1, <3>2
    <2>3. SessionOf[c] \in Session /\ Chunks[c][s + 1] \in Body
      BY <2>2, SenderAssumption DEF SenderAssumption
    <2>4. dataNet' \subseteq DataType
      <3>1. DataMessage(c, SessionOf[c], s, Chunks[c][s + 1]) \in DataType
        BY <2>2, <2>3 DEF DataMessage, DataType
      <3>. QED BY <2>1, <3>1 DEF Sent, NetTypeOK
    <2>5. toTimer' \in Seq(Requests(Session \X Nat))
      <3>1. StartRequest(Key(c, s)) \in Requests(Session \X Nat)
        BY <2>2, <2>3 DEF StartRequest, Requests, Key
      <3>. QED BY <2>1, <3>1 DEF SendTimerRequest, TimerTypeOK
    <2>6. /\ Packages' \in [Conn -> SUBSET Nat]
          /\ PendingPackages' \in [Conn -> SUBSET Nat]
      BY <2>1, <2>2 DEF SenderTypeOK, Unlinked
    <2>7. \A d \in Conn : Buffered(d)' = Buffered(d)
      BY <2>1, <2>2 DEF SenderTypeOK, Buffered, Unlinked
    <2>8. SenderTypeOK'
      BY <1>10, <2>6 DEF SendPackage, SenderTypeOK
    <2>9. BufferedWereSent'
      BY <1>10, <2>7 DEF SendPackage, BufferedWereSent
    <2>. QED
      BY <1>1, <1>10, <2>4, <2>5, <2>8, <2>9
      DEF SendPackage, NetTypeOK, TimerTypeOK, TimerReady, SendPossible
  <1>. QED
    BY <1>2, <1>3, <1>4, <1>5, <1>6, <1>7, <1>8, <1>9, <1>10
    DEF Sender, SenderNext, SenderStep

LEMMA TypeInvInvariant == Spec => []TypeInv
  <1>1. TypeInv /\ [Next]_vars => TypeInv'
    <2>1. ASSUME TypeInv, UNCHANGED vars PROVE TypeInv'
      BY <2>1
      DEF vars, net, timerVars, senderVars, senderTables, receiverVars, TypeInv,
          TypeOK, NetTypeOK, TimerTypeOK, SenderTypeOK, ReceiverTypeOK,
          TimerReady, SendPossible, BufferedWereSent, Buffered
    <2>. QED BY <2>1, TypeInvTimer, TypeInvReceiver, TypeInvSender DEF Next
  <1>. QED BY <1>1, TypeInvInit, PTL DEF Spec

(***************************************************************************)
(* Every variable keeps its type in every behaviour, whatever the sizes.   *)
(***************************************************************************)
THEOREM TypeCorrect == Spec => []TypeOK
  <1>1. TypeInv => TypeOK
    BY DEF TypeInv
  <1>. QED BY <1>1, TypeInvInvariant, PTL

-----------------------------------------------------------------------------
(***************************************************************************)
(* The strengthening: the counted set is finite; a connection that is not  *)
(* in the table has no packages, and CONNECT is only called on one of      *)
(* those, so that it does not throw counted packages away; a front call is *)
(* only read while there is room for one more package.                     *)
(***************************************************************************)
FreshConnections ==
    \A c \in Conn \ connected : Base[c] = 0 /\ Buffered(c) = {}

ConnectOnce ==
    \A c \in Conn : frontIn = [op |-> "CONNECT", conn |-> c] => c \notin connected

RoomForCall == frontIn # None => InBufferPackages < MaxBufferPackages

BufferInv ==
    /\ IsFiniteSet(AllBuffered)
    /\ BufferCounted
    /\ FreshConnections /\ ConnectOnce /\ RoomForCall

(* A step that leaves every connection's packages alone. *)
LEMMA SameBuffered ==
    ASSUME \A c \in Conn : Buffered(c)' = Buffered(c)
    PROVE  AllBuffered' = AllBuffered
  BY DEF AllBuffered

LEMMA InAllBuffered ==
    ASSUME NEW c \in Conn, NEW s
    PROVE  <<c, s>> \in AllBuffered <=> s \in Buffered(c)
  BY DEF AllBuffered

LEMMA BufferInit == Init => BufferInv
  <1>. SUFFICES ASSUME Init PROVE BufferInv
    OBVIOUS
  <1>1. \A c \in Conn : Packages[c] = {} /\ PendingPackages[c] = {} /\ Base[c] = 0
    BY DEF Init, SenderInit
  <1>2. AllBuffered = {}
    BY <1>1 DEF AllBuffered, Buffered
  <1>3. InBufferPackages = 0 /\ frontIn = None
    BY DEF Init, SenderInit
  <1>4. BufferCounted /\ IsFiniteSet(AllBuffered)
    BY <1>1, <1>2, <1>3, FS_EmptySet, SenderAssumption DEF BufferCounted, SenderAssumption
  <1>5. FreshConnections
    BY <1>1 DEF FreshConnections, Buffered
  <1>6. ConnectOnce
    BY <1>3, SenderAssumption DEF ConnectOnce, SenderAssumption, CallType
  <1>. QED BY <1>3, <1>4, <1>5, <1>6 DEF BufferInv, RoomForCall

-----------------------------------------------------------------------------
(* The sender's tables do not change. *)
LEMMA BufferUnchanged ==
    ASSUME BufferInv, UNCHANGED senderTables, frontIn' \in {frontIn, None}
    PROVE  BufferInv'
  <1>1. \A c \in Conn : Buffered(c)' = Buffered(c)
    BY DEF Buffered, senderTables
  <1>2. AllBuffered' = AllBuffered
    BY <1>1, SameBuffered
  <1>3. BufferCounted' /\ IsFiniteSet(AllBuffered)'
    BY <1>2 DEF BufferInv, BufferCounted, senderTables
  <1>4. FreshConnections'
    BY <1>1 DEF BufferInv, FreshConnections, senderTables
  <1>5. ConnectOnce' /\ RoomForCall'
    BY SenderAssumption
    DEF BufferInv, ConnectOnce, RoomForCall, senderTables, SenderAssumption, CallType
  <1>. QED BY <1>3, <1>4, <1>5 DEF BufferInv

(* Packages move from one list to the other. *)
LEMMA BufferMoved ==
    ASSUME BufferInv,
           UNCHANGED <<connected, Base, InBufferPackages, frontIn>>,
           \A c \in Conn : Buffered(c)' = Buffered(c),
           \A c \in Conn : Packages'[c] \cap PendingPackages'[c] = {}
    PROVE  BufferInv'
  <1>1. AllBuffered' = AllBuffered
    BY SameBuffered
  <1>2. BufferCounted' /\ IsFiniteSet(AllBuffered)'
    BY <1>1 DEF BufferInv, BufferCounted
  <1>3. FreshConnections' /\ ConnectOnce' /\ RoomForCall'
    BY DEF BufferInv, FreshConnections, ConnectOnce, RoomForCall
  <1>. QED BY <1>2, <1>3 DEF BufferInv

LEMMA BufferSelect ==
    ASSUME TypeInv, BufferInv, Select
    PROVE  BufferInv'
  <1>1. UNCHANGED senderTables
    BY DEF Select
  <1>2. CASE frontIn' = None
    BY <1>1, <1>2, BufferUnchanged
  <1>3. CASE frontIn' \in FrontCalls /\ HasRoom
    <2>1. \A c \in Conn : Buffered(c)' = Buffered(c)
      BY <1>1 DEF Buffered, senderTables
    <2>2. AllBuffered' = AllBuffered
      BY <2>1, SameBuffered
    <2>3. BufferCounted' /\ IsFiniteSet(AllBuffered)'
      BY <1>1, <2>2 DEF BufferInv, BufferCounted, senderTables
    <2>4. FreshConnections'
      BY <1>1, <2>1 DEF BufferInv, FreshConnections, senderTables
    <2>5. ConnectOnce'
      <3>1. PICK d \in Conn : \E o \in Calls(d) : frontIn' = [op |-> o, conn |-> d]
        BY <1>3 DEF FrontCalls
      <3>2. PICK o \in Calls(d) : frontIn' = [op |-> o, conn |-> d]
        BY <3>1
      <3>3. o = "CONNECT" => d \notin connected
        BY <3>2 DEF Calls
      <3>4. ASSUME NEW c \in Conn, frontIn' = [op |-> "CONNECT", conn |-> c]
            PROVE  c \notin connected
        <4>1. frontIn'.op = o /\ frontIn'.conn = d
          BY <3>2
        <4>2. frontIn'.op = "CONNECT" /\ frontIn'.conn = c
          BY <3>4
        <4>. QED BY <3>3, <4>1, <4>2
      <3>. QED BY <1>1, <3>4 DEF ConnectOnce, senderTables
    <2>6. RoomForCall'
      BY <1>1, <1>3 DEF RoomForCall, HasRoom, senderTables
    <2>. QED BY <2>3, <2>4, <2>5, <2>6 DEF BufferInv
  <1>. QED BY <1>2, <1>3 DEF Select

LEMMA BufferCONNECT ==
    ASSUME TypeInv, BufferInv, NEW c \in Conn, TcpdCONNECT(c)
    PROVE  BufferInv'
  <1>0. SenderTypeOK
    BY DEF TypeInv, TypeOK
  <1>1. Base[c] = 0 /\ Buffered(c) = {}
    BY DEF TcpdCONNECT, Handling, BufferInv, ConnectOnce, FreshConnections
  <1>2. /\ Base' = [Base EXCEPT ![c] = 0]
        /\ Packages' = [Packages EXCEPT ![c] = {}]
        /\ PendingPackages' = [PendingPackages EXCEPT ![c] = {}]
        /\ connected' = connected \cup {c}
        /\ frontIn' = None /\ InBufferPackages' = InBufferPackages
    BY DEF TcpdCONNECT
  <1>3. \A d \in Conn : /\ Buffered(d)' = Buffered(d) /\ Base'[d] = Base[d]
                        /\ Packages'[d] = Packages[d]
                        /\ PendingPackages'[d] = PendingPackages[d]
    BY <1>0, <1>1, <1>2 DEF SenderTypeOK, Buffered
  <1>4. AllBuffered' = AllBuffered
    BY <1>3, SameBuffered
  <1>5. BufferCounted' /\ IsFiniteSet(AllBuffered)'
    BY <1>2, <1>3, <1>4 DEF BufferInv, BufferCounted
  <1>6. FreshConnections'
    BY <1>2, <1>3 DEF BufferInv, FreshConnections
  <1>7. ConnectOnce' /\ RoomForCall'
    BY <1>2, SenderAssumption DEF ConnectOnce, RoomForCall, SenderAssumption, CallType
  <1>. QED BY <1>5, <1>6, <1>7 DEF BufferInv

LEMMA BufferSEND ==
    ASSUME TypeInv, BufferInv, NEW c \in Conn, TcpdSEND(c)
    PROVE  BufferInv'
  <1>. DEFINE p == <<c, Base[c]>>
  <1>0. SenderTypeOK /\ BufferedWereSent
    BY DEF TypeInv, TypeOK
  <1>1. /\ PendingPackages' = [PendingPackages EXCEPT ![c] = @ \cup {Base[c]}]
        /\ Base' = [Base EXCEPT ![c] = @ + 1]
        /\ InBufferPackages' = InBufferPackages + 1
        /\ frontIn' = None /\ Packages' = Packages /\ connected' = connected
        /\ c \in connected
    BY DEF TcpdSEND, Sendable
  <1>2. Base[c] \in Nat /\ Base[c] \notin Buffered(c)
    BY <1>0 DEF SenderTypeOK, BufferedWereSent
  <1>3. \A d \in Conn : Buffered(d)' = IF d = c THEN Buffered(c) \cup {Base[c]}
                                                ELSE Buffered(d)
    BY <1>0, <1>1 DEF SenderTypeOK, Buffered
  <1>4. AllBuffered' = AllBuffered \cup {p} /\ p \notin AllBuffered
    <2>1. AllBuffered' = AllBuffered \cup {p}
      BY <1>3 DEF AllBuffered
    <2>. QED BY <1>2, <2>1, InAllBuffered
  <1>5. /\ IsFiniteSet(AllBuffered')
        /\ Cardinality(AllBuffered') = Cardinality(AllBuffered) + 1
    BY <1>4, FS_AddElement DEF BufferInv
  <1>6. InBufferPackages < MaxBufferPackages
    BY SenderAssumption
    DEF TcpdSEND, Handling, BufferInv, RoomForCall, SenderAssumption, CallType
  <1>7. \A d \in Conn : Packages'[d] \cap PendingPackages'[d] = {}
    BY <1>0, <1>1, <1>2 DEF SenderTypeOK, BufferInv, BufferCounted, Buffered
  <1>8. BufferCounted'
    BY <1>0, <1>1, <1>5, <1>6, <1>7, SenderAssumption
    DEF BufferInv, BufferCounted, SenderTypeOK, SenderAssumption
  <1>9. FreshConnections'
    BY <1>0, <1>1, <1>3 DEF BufferInv, FreshConnections, SenderTypeOK
  <1>10. ConnectOnce' /\ RoomForCall'
    BY <1>1, SenderAssumption DEF ConnectOnce, RoomForCall, SenderAssumption, CallType
  <1>. QED BY <1>5, <1>8, <1>9, <1>10 DEF BufferInv

(* A package that is found is in one list only, so it leaves the buffer. *)
LEMMA BufferRecvAck ==
    ASSUME TypeInv, BufferInv, NEW c \in Conn, RecvAck(c)
    PROVE  /\ BufferInv'
           /\ \A d \in Conn : Base'[d] = Base[d] /\ Buffered(d)' \subseteq Buffered(d)
  <1>. DEFINE m == ackIn[c]
              p == <<c, m.seq>>
  <1>0. SenderTypeOK
    BY DEF TypeInv, TypeOK
  <1>1. /\ UNCHANGED <<connected, Base, PendingPackages, frontIn>>
        /\ frontIn = None
    BY DEF RecvAck
  <1>2. CASE Packages' = Packages /\ InBufferPackages' = InBufferPackages
    <2>1. \A d \in Conn : Buffered(d)' = Buffered(d)
      BY <1>1, <1>2 DEF Buffered
    <2>2. \A d \in Conn : Packages'[d] \cap PendingPackages'[d] = {}
      BY <1>1, <1>2 DEF BufferInv, BufferCounted
    <2>. QED BY <1>1, <1>2, <2>1, <2>2, BufferMoved
  <1>3. CASE /\ m.seq \in Packages[c]
             /\ Packages' = [Packages EXCEPT ![c] = @ \ {m.seq}]
             /\ InBufferPackages' = InBufferPackages - 1
    <2>1. \A d \in Conn : Buffered(d)' = IF d = c THEN Buffered(c) \ {m.seq}
                                                  ELSE Buffered(d)
      BY <1>0, <1>1, <1>3 DEF SenderTypeOK, Buffered, BufferInv, BufferCounted
    <2>2. AllBuffered' = AllBuffered \ {p} /\ p \in AllBuffered
      <3>1. AllBuffered' = AllBuffered \ {p}
        BY <2>1 DEF AllBuffered
      <3>2. m.seq \in Buffered(c)
        BY <1>3 DEF Buffered
      <3>. QED BY <3>1, <3>2, InAllBuffered
    <2>3. /\ IsFiniteSet(AllBuffered')
          /\ Cardinality(AllBuffered') = Cardinality(AllBuffered) - 1
      BY <2>2, FS_RemoveElement DEF BufferInv
    <2>4. \A d \in Conn : Packages'[d] \cap PendingPackages'[d] = {}
      BY <1>0, <1>1, <1>3 DEF SenderTypeOK, BufferInv, BufferCounted
    <2>5. BufferCounted'
      BY <1>0, <1>3, <2>3, <2>4, SenderAssumption
      DEF BufferInv, BufferCounted, SenderTypeOK, SenderAssumption
    <2>6. FreshConnections'
      BY <1>1, <2>1 DEF BufferInv, FreshConnections
    <2>7. ConnectOnce' /\ RoomForCall'
      BY <1>1 DEF BufferInv, ConnectOnce, RoomForCall
    <2>8. \A d \in Conn : Base'[d] = Base[d] /\ Buffered(d)' \subseteq Buffered(d)
      BY <1>1, <2>1
    <2>. QED BY <2>3, <2>5, <2>6, <2>7, <2>8 DEF BufferInv
  <1>4. CASE ~ Intact(m)
    BY <1>2, <1>4, <1>0 DEF RecvAck, SenderTypeOK
  <1>5. CASE Intact(m) /\ ~ Acknowledges(m, c)
    BY <1>2, <1>5, <1>0 DEF RecvAck, SenderTypeOK
  <1>6. CASE Intact(m) /\ Acknowledges(m, c)
    BY <1>3, <1>6 DEF RecvAck, Acknowledges
  <1>. QED BY <1>4, <1>5, <1>6

LEMMA BufferRecvTimer ==
    ASSUME TypeInv, BufferInv, RecvTimer
    PROVE  BufferInv' /\ \A d \in Conn : Buffered(d)' = Buffered(d)
  <1>0. SenderTypeOK
    BY DEF TypeInv, TypeOK
  <1>1. PICK c \in connected :
          LET moved == Expired(c, Head(fromTimer)) IN
            /\ Packages' = [Packages EXCEPT ![c] = @ \ moved]
            /\ PendingPackages' = [PendingPackages EXCEPT ![c] = @ \cup moved]
    BY DEF RecvTimer
  <1>2. Expired(c, Head(fromTimer)) \subseteq Packages[c] /\ c \in Conn
    BY <1>0 DEF Expired, SenderTypeOK
  <1>3. \A d \in Conn : /\ Buffered(d)' = Buffered(d)
                        /\ Packages'[d] \cap PendingPackages'[d] = {}
    BY <1>0, <1>1, <1>2 DEF SenderTypeOK, Buffered, BufferInv, BufferCounted
  <1>4. UNCHANGED <<connected, Base, InBufferPackages, frontIn>>
    BY DEF RecvTimer
  <1>. QED BY <1>3, <1>4, BufferMoved

LEMMA BufferSendPackage ==
    ASSUME TypeInv, BufferInv, NEW c \in Conn, SendPackage(c)
    PROVE  BufferInv' /\ \A d \in Conn : Buffered(d)' = Buffered(d)
  <1>0. SenderTypeOK
    BY DEF TypeInv, TypeOK
  <1>1. PICK s \in PendingPackages[c] :
          /\ Packages' = [Packages EXCEPT ![c] = @ \cup {s}]
          /\ PendingPackages' = [PendingPackages EXCEPT ![c] = @ \ {s}]
    BY DEF SendPackage, Unlinked
  <1>2. \A d \in Conn : /\ Buffered(d)' = Buffered(d)
                        /\ Packages'[d] \cap PendingPackages'[d] = {}
    BY <1>0, <1>1 DEF SenderTypeOK, Buffered, BufferInv, BufferCounted
  <1>3. UNCHANGED <<connected, Base, InBufferPackages, frontIn>>
    BY DEF SendPackage
  <1>. QED BY <1>2, <1>3, BufferMoved

-----------------------------------------------------------------------------
(* Every step keeps the invariant, and gives no released package back. *)
LEMMA BufferStep ==
    ASSUME TypeInv, BufferInv, [Next]_vars
    PROVE  BufferInv' /\ \A c \in Conn : Released(c) \subseteq Released(c)'
  <1>0. SenderTypeOK /\ BufferedWereSent
    BY DEF TypeInv, TypeOK
  <1>1. ASSUME \A c \in Conn : Base'[c] = Base[c] /\ Buffered(c)' \subseteq Buffered(c)
        PROVE  \A c \in Conn : Released(c) \subseteq Released(c)'
    BY <1>1 DEF Released
  <1>2. ASSUME UNCHANGED senderTables
        PROVE  \A c \in Conn : Released(c) \subseteq Released(c)'
    BY <1>1, <1>2 DEF Buffered, senderTables
  <1>3. CASE Receiver \/ Timer \/ UNCHANGED vars
    <2>1. UNCHANGED senderTables /\ frontIn' = frontIn
      BY <1>3 DEF Receiver, Timer, vars, senderVars
    <2>. QED BY <1>2, <2>1, BufferUnchanged
  <1>4. CASE Select
    BY <1>2, <1>4, BufferSelect DEF Select
  <1>5. CASE UpdateMinSeq
    BY <1>2, <1>5, BufferUnchanged DEF UpdateMinSeq
  <1>6. CASE RecvTimer
    <2>1. Base' = Base
      BY <1>6 DEF RecvTimer
    <2>. QED BY <1>1, <1>6, <2>1, BufferRecvTimer
  <1>7. ASSUME NEW c \in Conn, TcpdSOCKET(c)
        PROVE  BufferInv' /\ \A d \in Conn : Released(d) \subseteq Released(d)'
    <2>1. UNCHANGED <<connected, Base, Packages, PendingPackages, InBufferPackages>>
          /\ frontIn' = None
      BY <1>7 DEF TcpdSOCKET
    <2>2. \A d \in Conn : Buffered(d)' = Buffered(d)
      BY <2>1 DEF Buffered
    <2>3. AllBuffered' = AllBuffered
      BY <2>2, SameBuffered
    <2>4. BufferCounted' /\ IsFiniteSet(AllBuffered)' /\ FreshConnections'
      BY <2>1, <2>2, <2>3 DEF BufferInv, BufferCounted, FreshConnections
    <2>5. ConnectOnce' /\ RoomForCall'
      BY <2>1, SenderAssumption DEF ConnectOnce, RoomForCall, SenderAssumption, CallType
    <2>. QED BY <1>1, <2>1, <2>2, <2>4, <2>5 DEF BufferInv
  <1>8. ASSUME NEW c \in Conn, TcpdCONNECT(c)
        PROVE  BufferInv' /\ \A d \in Conn : Released(d) \subseteq Released(d)'
    <2>1. Base[c] = 0 /\ Buffered(c) = {}
      BY <1>8 DEF TcpdCONNECT, Handling, BufferInv, ConnectOnce, FreshConnections
    <2>2. \A d \in Conn : Base'[d] = Base[d] /\ Buffered(d)' \subseteq Buffered(d)
      BY <1>0, <1>8, <2>1 DEF TcpdCONNECT, SenderTypeOK, Buffered
    <2>. QED BY <1>1, <1>8, <2>2, BufferCONNECT
  <1>9. ASSUME NEW c \in Conn, TcpdSEND(c)
        PROVE  BufferInv' /\ \A d \in Conn : Released(d) \subseteq Released(d)'
    <2>1. \A d \in Conn : /\ Base[d] \in Nat
                          /\ Base'[d] = IF d = c THEN Base[c] + 1 ELSE Base[d]
      BY <1>0, <1>9 DEF TcpdSEND, SenderTypeOK
    <2>2. \A d \in Conn : Buffered(d)' \subseteq Buffered(d) \cup {Base[d]}
      BY <1>0, <1>9 DEF TcpdSEND, SenderTypeOK, Buffered
    <2>3. \A d \in Conn : Released(d) \subseteq Released(d)'
      BY <2>1, <2>2 DEF Released
    <2>. QED BY <1>9, <2>3, BufferSEND
  <1>10. ASSUME NEW c \in Conn, TcpdSENDExits(c)
         PROVE  BufferInv' /\ \A d \in Conn : Released(d) \subseteq Released(d)'
    BY <1>2, <1>10, BufferUnchanged DEF TcpdSENDExits
  <1>11. ASSUME NEW c \in Conn, RecvAck(c)
         PROVE  BufferInv' /\ \A d \in Conn : Released(d) \subseteq Released(d)'
    BY <1>1, <1>11, BufferRecvAck
  <1>12. ASSUME NEW c \in Conn, SendPackage(c)
         PROVE  BufferInv' /\ \A d \in Conn : Released(d) \subseteq Released(d)'
    <2>1. Base' = Base
      BY <1>12 DEF SendPackage
    <2>. QED BY <1>1, <1>12, <2>1, BufferSendPackage
  <1>. QED
    BY <1>3, <1>4, <1>5, <1>6, <1>7, <1>8, <1>9, <1>10, <1>11, <1>12
    DEF Next, Sender, SenderNext, SenderStep

LEMMA BufferInvariant == Spec => []BufferInv
  <1>1. TypeInv /\ BufferInv /\ [Next]_vars => BufferInv'
    BY BufferStep
  <1>. QED BY <1>1, BufferInit, TypeInvInvariant, PTL DEF Spec

(***************************************************************************)
(* InBufferPackages always counts the packages of all connections and      *)
(* never exceeds the buffer, for any number of connections.                *)
(***************************************************************************)
THEOREM BufferExact == Spec => []BufferCounted
  <1>1. BufferInv => BufferCounted
    BY DEF BufferInv
  <1>. QED BY <1>1, BufferInvariant, PTL

(***************************************************************************)
(* No step takes an acknowledged package back into a list: expiries and    *)
(* acknowledgements may arrive in any order, repeated and late.            *)
(***************************************************************************)
THEOREM NeverSentAgain == Spec => ReleasedForGood
  <1>1. TypeInv /\ BufferInv /\ [Next]_vars
          => [\A c \in Conn : Released(c) \subseteq Released(c)']_vars
    BY BufferStep
  <1>2. Spec => [][\A c \in Conn : Released(c) \subseteq Released(c)']_vars
    BY <1>1, BufferInvariant, TypeInvInvariant, PTL DEF Spec
  <1>. QED BY <1>2 DEF ReleasedForGood

-----------------------------------------------------------------------------
(* How WillExpire moves with the two sockets. *)

LEMMA CancelIsNotStart ==
    ASSUME NEW k, NEW l
    PROVE  StartRequest(k) # CancelRequest(l)
  BY DEF StartRequest, CancelRequest

LEMMA CancelInjective ==
    ASSUME NEW k, NEW l, CancelRequest(k) = CancelRequest(l)
    PROVE  k = l
  <1>1. CancelRequest(k).key = k /\ CancelRequest(l).key = l
    BY DEF CancelRequest
  <1>. QED BY <1>1

(* A request at the end that is not this key's cancel changes nothing. *)
LEMMA WillExpireAppend ==
    ASSUME TypeInv, NEW r \in Requests(Session \X Nat), NEW k,
           toTimer' = Append(toTimer, r), r # CancelRequest(k),
           UNCHANGED <<armed, fromTimer>>, WillExpire(k)
    PROVE  WillExpire(k)'
  <1>1. toTimer \in Seq(Requests(Session \X Nat))
    BY DEF TypeInv, TypeOK, TimerTypeOK
  <1>. HIDE DEF TypeInv
  <1>2. /\ DOMAIN toTimer = 1..Len(toTimer) /\ Len(toTimer) \in Nat
        /\ DOMAIN toTimer' = 1..Len(toTimer) + 1
        /\ \A i \in DOMAIN toTimer : toTimer'[i] = toTimer[i]
        /\ toTimer'[Len(toTimer) + 1] = r
    BY <1>1
  <1>3. ASSUME NEW i \in Nat, ~ Cancelled(k, i) PROVE ~ Cancelled(k, i)'
    <2>1. ASSUME NEW j \in DOMAIN toTimer', j > i, toTimer'[j] = CancelRequest(k)
          PROVE  FALSE
      <3>1. j # Len(toTimer) + 1
        BY <1>2, <2>1
      <3>2. j \in DOMAIN toTimer
        BY <1>2, <3>1
      <3>. QED BY <1>2, <1>3, <2>1, <3>2 DEF Cancelled
    <2>2. CancelRequest(k)' = CancelRequest(k)
      BY DEF CancelRequest
    <2>. QED BY <2>1, <2>2 DEF Cancelled
  <1>4. ASSUME NEW i \in DOMAIN toTimer, toTimer[i] = StartRequest(k), ~ Cancelled(k, i)
        PROVE  WillExpire(k)'
    <2>1. i \in Nat /\ i \in DOMAIN toTimer' /\ toTimer'[i] = toTimer[i]
      BY <1>2
    <2>. QED BY <1>3, <1>4, <2>1 DEF WillExpire
  <1>5. CASE k \in armed /\ ~ Cancelled(k, 0)
    BY <1>3, <1>5 DEF WillExpire
  <1>6. CASE \E i \in DOMAIN fromTimer : fromTimer[i] = k
    BY <1>6 DEF WillExpire
  <1>. QED BY <1>4, <1>5, <1>6 DEF WillExpire

(* A start at the end is in force. *)
LEMMA StartedWillExpire ==
    ASSUME TypeInv, NEW k \in Session \X Nat, SendTimerRequest(k)
    PROVE  WillExpire(k)'
  <1>1. toTimer \in Seq(Requests(Session \X Nat))
    BY DEF TypeInv, TypeOK, TimerTypeOK
  <1>2. StartRequest(k) \in Requests(Session \X Nat)
    BY DEF StartRequest, Requests
  <1>3. /\ DOMAIN toTimer' = 1..Len(toTimer) + 1 /\ Len(toTimer) \in Nat
        /\ toTimer'[Len(toTimer) + 1] = StartRequest(k)
    BY <1>1, <1>2 DEF SendTimerRequest
  <1>5. Len(toTimer) + 1 \in DOMAIN toTimer'
    BY <1>3
  <1>. DEFINE n == Len(toTimer) + 1
  <1>6. PICK i \in DOMAIN toTimer' :
          toTimer'[i] = StartRequest(k)
            /\ \A j \in DOMAIN toTimer' : j > i => toTimer'[j] # CancelRequest(k)
    <2>1. \A j \in DOMAIN toTimer' : ~ (j > n)
      BY <1>3
    <2>. QED BY <1>3, <1>5, <2>1
  <1>. QED BY <1>6 DEF WillExpire, Cancelled

(* The timer serves requests and reports expiries, but drops nothing. *)
LEMMA WillExpireTimer ==
    ASSUME TypeInv, TimerNext, NEW k, WillExpire(k)
    PROVE  WillExpire(k)'
  <1>1. /\ toTimer \in Seq(Requests(Session \X Nat))
        /\ fromTimer \in Seq(Session \X Nat)
        /\ armed \subseteq Session \X Nat
    BY DEF TypeInv, TypeOK, TimerTypeOK
  <1>2. CASE ServeRequest
    <2>1. /\ toTimer # <<>> /\ toTimer' = Tail(toTimer) /\ fromTimer' = fromTimer
          /\ Head(toTimer) = toTimer[1]
      BY <1>1, <1>2 DEF ServeRequest
    <2>2. /\ DOMAIN toTimer = 1..Len(toTimer) /\ Len(toTimer) \in Nat /\ Len(toTimer) > 0
          /\ DOMAIN toTimer' = 1..Len(toTimer) - 1
          /\ \A i \in 1..Len(toTimer) - 1 : toTimer'[i] = toTimer[i + 1]
      BY <1>1, <2>1
    <2>3. ASSUME NEW i \in Nat, ~ Cancelled(k, i + 1) PROVE ~ Cancelled(k, i)'
      <3>1. ASSUME NEW j \in DOMAIN toTimer', j > i, toTimer'[j] = CancelRequest(k)
            PROVE  FALSE
        <4>1. j + 1 \in DOMAIN toTimer /\ j + 1 > i + 1
          BY <2>2, <3>1
        <4>2. toTimer[j + 1] = CancelRequest(k)
          BY <2>2, <3>1
        <4>. QED BY <2>3, <4>1, <4>2 DEF Cancelled
      <3>2. CancelRequest(k)' = CancelRequest(k)
        BY DEF CancelRequest
      <3>. QED BY <3>1, <3>2 DEF Cancelled
    <2>4. ASSUME NEW i \in DOMAIN toTimer, toTimer[i] = StartRequest(k), ~ Cancelled(k, i)
          PROVE  WillExpire(k)'
      <3>1. CASE i = 1
        <4>1. Head(toTimer).type = "Start" /\ Head(toTimer).key = k
          BY <2>1, <2>4, <3>1 DEF StartRequest
        <4>2. k \in armed'
          BY <1>2, <4>1 DEF ServeRequest
        <4>3. ~ Cancelled(k, 0)'
          BY <2>3, <2>4, <3>1
        <4>. QED BY <4>2, <4>3 DEF WillExpire
      <3>2. CASE i # 1
        <4>1. i - 1 \in Nat /\ i - 1 \in DOMAIN toTimer' /\ (i - 1) + 1 = i
          BY <2>2, <3>2
        <4>2. toTimer'[i - 1] = StartRequest(k)
          BY <2>2, <2>4, <4>1
        <4>3. ~ Cancelled(k, i - 1)'
          BY <2>3, <2>4, <4>1
        <4>. QED BY <4>1, <4>2, <4>3 DEF WillExpire
      <3>. QED BY <3>1, <3>2
    <2>5. CASE k \in armed /\ ~ Cancelled(k, 0)
      <3>1. toTimer[1] # CancelRequest(k)
        BY <2>2, <2>5 DEF Cancelled
      <3>2. Head(toTimer) \in Requests(Session \X Nat)
        BY <1>1, <2>1
      <3>3. k \in armed'
        <4>1. CASE Head(toTimer).type = "Start"
          BY <1>2, <2>5, <4>1 DEF ServeRequest
        <4>2. CASE Head(toTimer).type # "Start"
          <5>1. Head(toTimer) = [type |-> "Cancel", key |-> Head(toTimer).key]
            BY <3>2, <4>2 DEF Requests
          <5>2. Head(toTimer).key # k
            BY <2>1, <3>1, <5>1 DEF CancelRequest
          <5>. QED BY <1>2, <2>5, <4>2, <5>2 DEF ServeRequest
        <4>. QED BY <4>1, <4>2
      <3>4. ~ Cancelled(k, 1)
        BY <2>2, <2>5 DEF Cancelled
      <3>5. ~ Cancelled(k, 0)'
        BY <2>3, <3>4
      <3>. QED BY <3>3, <3>5 DEF WillExpire
    <2>6. CASE \E i \in DOMAIN fromTimer : fromTimer[i] = k
      BY <2>1, <2>6 DEF WillExpire
    <2>. QED BY <2>4, <2>5, <2>6 DEF WillExpire
  <1>3. ASSUME NEW l \in armed, Expire(l) PROVE WillExpire(k)'
    <2>1. /\ fromTimer' = Append(fromTimer, l) /\ armed' = armed \ {l}
          /\ toTimer' = toTimer
      BY <1>3 DEF Expire
    <2>2. /\ DOMAIN fromTimer' = 1..Len(fromTimer) + 1
          /\ DOMAIN fromTimer = 1..Len(fromTimer) /\ Len(fromTimer) \in Nat
          /\ \A i \in DOMAIN fromTimer : fromTimer'[i] = fromTimer[i]
          /\ fromTimer'[Len(fromTimer) + 1] = l
      BY <1>1, <2>1
    <2>3. \A i \in Nat : Cancelled(k, i)' = Cancelled(k, i)
      BY <2>1 DEF Cancelled, CancelRequest
    <2>4. CASE \E i \in DOMAIN toTimer : toTimer[i] = StartRequest(k) /\ ~ Cancelled(k, i)
      <3>1. PICK i \in DOMAIN toTimer : toTimer[i] = StartRequest(k) /\ ~ Cancelled(k, i)
        BY <2>4
      <3>2. i \in Nat
        BY <1>1
      <3>. QED BY <2>1, <2>3, <3>1, <3>2 DEF WillExpire, StartRequest
    <2>5. CASE k \in armed /\ ~ Cancelled(k, 0)
      <3>1. CASE k = l
        <4>1. Len(fromTimer) + 1 \in DOMAIN fromTimer'
          BY <2>2
        <4>. QED BY <2>2, <3>1, <4>1 DEF WillExpire
      <3>2. CASE k # l
        BY <2>1, <2>3, <2>5, <3>2 DEF WillExpire
      <3>. QED BY <3>1, <3>2
    <2>6. CASE \E i \in DOMAIN fromTimer : fromTimer[i] = k
      <3>1. PICK i \in DOMAIN fromTimer : fromTimer[i] = k
        BY <2>6
      <3>2. i \in DOMAIN fromTimer' /\ fromTimer'[i] = k
        BY <2>2, <3>1
      <3>. QED BY <3>2 DEF WillExpire
    <2>. QED BY <2>4, <2>5, <2>6 DEF WillExpire
  <1>. QED BY <1>2, <1>3 DEF TimerNext

(* Fetching a report concerns its own key only. *)
LEMMA WillExpireFetch ==
    ASSUME TypeInv, fromTimer # <<>>, fromTimer' = Tail(fromTimer),
           UNCHANGED <<toTimer, armed>>, NEW k, k # Head(fromTimer), WillExpire(k)
    PROVE  WillExpire(k)'
  <1>1. fromTimer \in Seq(Session \X Nat)
    BY DEF TypeInv, TypeOK, TimerTypeOK
  <1>2. \A i : Cancelled(k, i)' = Cancelled(k, i)
    BY DEF Cancelled, CancelRequest
  <1>3. ASSUME NEW i \in DOMAIN fromTimer, fromTimer[i] = k
        PROVE  WillExpire(k)'
    <2>1. i # 1 /\ i \in 1..Len(fromTimer) /\ Len(fromTimer) \in Nat
      BY <1>1, <1>3
    <2>2. i - 1 \in DOMAIN fromTimer' /\ fromTimer'[i - 1] = k
      BY <1>1, <1>3, <2>1
    <2>. QED BY <2>2 DEF WillExpire
  <1>. QED BY <1>2, <1>3 DEF WillExpire, StartRequest

-----------------------------------------------------------------------------
(***************************************************************************)
(* The strengthening: acknowledgements come back, on the socket of a       *)
(* connection, only for the packages of that connection, so a cancel       *)
(* request never names a package of another one.                           *)
(***************************************************************************)
OwnSession(m) == m.session = SessionOf[m.conn]

OwnAcks ==
    /\ \A m \in dataNet \cup ackNet : OwnSession(m)
    /\ \A c \in Conn :
         ackIn[c] # None /\ Intact(ackIn[c]) => ackIn[c].session = SessionOf[c]

LEMMA OwnAcksStep ==
    ASSUME TypeInv, OwnAcks, [Next]_vars
    PROVE  OwnAcks'
  <1>0. NetTypeOK /\ SenderTypeOK
    BY DEF TypeInv, TypeOK
  <1>1. ASSUME dataNet' \subseteq dataNet, ackNet' \subseteq ackNet, ackIn' = ackIn
        PROVE  OwnAcks'
    BY <1>1 DEF OwnAcks, OwnSession, Intact
  <1>2. CASE Timer \/ UNCHANGED vars
    BY <1>1, <1>2 DEF Timer, vars, net, senderVars
  <1>3. CASE Receiver
    <2>1. ackIn' = ackIn
      BY <1>3 DEF Receiver, senderVars
    <2>2. ASSUME NEW m \in Arrivals(dataNet), RecvData(m) PROVE OwnAcks'
      <3>1. m \in dataNet
        BY <1>0, <2>2, IntactData DEF RecvData, NetTypeOK
      <3>2. dataNet' \subseteq dataNet
        BY <2>2 DEF RecvData, Taken
      <3>3. ackNet' \subseteq ackNet \cup {AckMessage(m.conn, m.session, m.seq)}
        BY <2>2 DEF RecvData, Sent
      <3>4. OwnSession(AckMessage(m.conn, m.session, m.seq))
        BY <3>1 DEF OwnAcks, OwnSession, AckMessage
      <3>5. \A n \in dataNet' \cup ackNet' : OwnSession(n)
        BY <3>2, <3>3, <3>4 DEF OwnAcks
      <3>. QED BY <2>1, <3>5 DEF OwnAcks, OwnSession, Intact
    <2>3. ASSUME NEW f \in Ftps, FrontCall(f) PROVE OwnAcks'
      BY <1>1, <2>1, <2>3 DEF FrontCall, TcpdBIND, TcpdACCEPT, TcpdRECV, net
    <2>4. ASSUME Callback PROVE OwnAcks'
      BY <1>1, <2>1, <2>4
      DEF Callback, SolveAccept, TakePackage, TakePart, ReplyRecv, RecvExits, net
    <2>. QED BY <1>3, <2>2, <2>3, <2>4 DEF Receiver, ReceiverNext
  <1>4. CASE Select
    <2>1. dataNet' \subseteq dataNet /\ ackNet' \subseteq ackNet
      BY <1>4 DEF Select, TakenAcks
    <2>2. ASSUME NEW c \in Conn, ackIn'[c] # None, Intact(ackIn[c])'
          PROVE  ackIn'[c].session = SessionOf[c]
      <3>1. ackIn'[c] \in Arrivals(ackNet) /\ ackIn'[c].conn = c
        BY <1>4, <2>2 DEF Select, AckChoices
      <3>2. ackIn'[c] \in ackNet
        BY <1>0, <2>2, <3>1, IntactAck DEF NetTypeOK, Intact
      <3>. QED BY <3>1, <3>2 DEF OwnAcks, OwnSession
    <2>. QED BY <2>1, <2>2 DEF OwnAcks, OwnSession
  <1>5. ASSUME NEW c \in Conn, RecvAck(c) PROVE OwnAcks'
    <2>1. dataNet' = dataNet /\ ackNet' = ackNet
      BY <1>5 DEF RecvAck, net
    <2>2. \A d \in Conn : ackIn'[d] = None \/ ackIn'[d] = ackIn[d]
      BY <1>0, <1>5 DEF RecvAck, SenderTypeOK
    <2>. QED BY <2>1, <2>2 DEF OwnAcks, OwnSession, Intact
  <1>6. ASSUME NEW c \in Conn, SendPackage(c) PROVE OwnAcks'
    <2>1. PICK s \in PendingPackages[c] :
            dataNet' \in Sent(dataNet, DataMessage(c, SessionOf[c], s, Chunks[c][s + 1]))
      BY <1>6 DEF SendPackage
    <2>2. OwnSession(DataMessage(c, SessionOf[c], s, Chunks[c][s + 1]))
      BY DEF OwnSession, DataMessage
    <2>3. dataNet' \subseteq
            dataNet \cup {DataMessage(c, SessionOf[c], s, Chunks[c][s + 1])}
      BY <2>1 DEF Sent
    <2>4. \A m \in dataNet' \cup ackNet' : OwnSession(m)
      BY <1>6, <2>2, <2>3 DEF SendPackage, OwnAcks
    <2>. QED BY <1>6, <2>4 DEF SendPackage, OwnAcks, OwnSession, Intact
  <1>7. CASE RecvTimer \/ UpdateMinSeq
    BY <1>1, <1>7 DEF RecvTimer, UpdateMinSeq, net
  <1>8. ASSUME NEW c \in Conn,
               TcpdSOCKET(c) \/ TcpdCONNECT(c) \/ TcpdSEND(c) \/ TcpdSENDExits(c)
        PROVE  OwnAcks'
    BY <1>1, <1>8 DEF TcpdSOCKET, TcpdCONNECT, TcpdSEND, TcpdSENDExits, net
  <1>. QED
    BY <1>2, <1>3, <1>4, <1>5, <1>6, <1>7, <1>8 DEF Next, Sender, SenderNext, SenderStep

-----------------------------------------------------------------------------
(* Keys of different packages differ. *)
LEMMA KeysDiffer ==
    ASSUME DistinctSessions, NEW c \in Conn, NEW d \in Conn, NEW s, NEW t, Key(c, s) = Key(d, t)
    PROVE  c = d /\ s = t
  BY DEF Key, DistinctSessions

LEMMA TimerCoversSender ==
    ASSUME DistinctSessions, TypeInv, OwnAcks, TimerCovers, Sender
    PROVE  TimerCovers'
  <1>0. SenderTypeOK /\ TimerTypeOK(Session \X Nat)
    BY DEF TypeInv, TypeOK
  <1>1. ASSUME UNCHANGED timerVars, \A c \in Conn : Packages'[c] \subseteq Packages[c]
        PROVE  TimerCovers'
    BY <1>1 DEF TimerCovers, WillExpire, Cancelled, timerVars, StartRequest, CancelRequest
  <1>2. CASE Select \/ UpdateMinSeq
    BY <1>1, <1>2 DEF Select, UpdateMinSeq, senderTables
  <1>3. ASSUME NEW c \in Conn,
               TcpdSOCKET(c) \/ TcpdCONNECT(c) \/ TcpdSEND(c) \/ TcpdSENDExits(c)
        PROVE  TimerCovers'
    BY <1>0, <1>1, <1>3
    DEF TcpdSOCKET, TcpdCONNECT, TcpdSEND, TcpdSENDExits, senderTables, SenderTypeOK
  <1>4. ASSUME NEW c \in Conn, RecvAck(c) PROVE TimerCovers'
    <2>. DEFINE m == ackIn[c]
    <2>1. m \in ReadAckType
      BY <1>0, <1>4 DEF RecvAck, SenderTypeOK
    <2>2. m.session \in Session /\ m.seq \in Nat
      BY <2>1 DEF ReadAckType
    <2>3. CASE ~ Intact(m)
      BY <1>1, <1>4, <2>3 DEF RecvAck, timerVars
    <2>4. CASE Intact(m)
      <3>1. m.session = SessionOf[c]
        BY <1>4, <2>4 DEF RecvAck, OwnAcks
      <3>2. /\ toTimer' = Append(toTimer, CancelRequest(<<m.session, m.seq>>))
            /\ UNCHANGED <<armed, fromTimer>>
        BY <1>4, <2>4 DEF RecvAck, CancelTimerRequest
      <3>3. CancelRequest(<<m.session, m.seq>>) \in Requests(Session \X Nat)
        BY <2>2 DEF CancelRequest, Requests
      <3>4. ASSUME NEW d \in Conn, NEW s \in Packages'[d]
            PROVE  s \in Packages[d] /\ Key(d, s) # <<m.session, m.seq>>
        <4>1. Packages' = IF Acknowledges(m, c) THEN [Packages EXCEPT ![c] = @ \ {m.seq}]
                                                ELSE Packages
          BY <1>4, <2>4 DEF RecvAck
        <4>2. s \in Packages[d]
          BY <1>0, <4>1 DEF SenderTypeOK
        <4>3. ASSUME Key(d, s) = <<m.session, m.seq>> PROVE FALSE
          <5>1. d = c /\ s = m.seq
            BY <3>1, <4>3, KeysDiffer DEF Key
          <5>2. Acknowledges(m, c)
            BY <3>1, <4>2, <5>1 DEF Acknowledges
          <5>. QED BY <1>0, <4>1, <5>1, <5>2 DEF SenderTypeOK
        <4>. QED BY <4>2, <4>3
      <3>5. ASSUME NEW d \in Conn, NEW s \in Packages'[d]
            PROVE  WillExpire(Key(d, s))'
        <4>1. WillExpire(Key(d, s)) /\ Key(d, s) # <<m.session, m.seq>>
          BY <3>4 DEF TimerCovers
        <4>2. CancelRequest(<<m.session, m.seq>>) # CancelRequest(Key(d, s))
          BY <4>1, CancelInjective
        <4>. QED BY <3>2, <3>3, <4>1, <4>2, WillExpireAppend
      <3>. QED BY <3>5 DEF TimerCovers
    <2>. QED BY <2>3, <2>4
  <1>5. CASE RecvTimer
    <2>. DEFINE k == Head(fromTimer)
    <2>1. PICK c \in connected :
            /\ SessionOf[c] = k[1]
            /\ Packages' = [Packages EXCEPT ![c] = @ \ Expired(c, k)]
      BY <1>5 DEF RecvTimer
    <2>2. c \in Conn /\ fromTimer # <<>> /\ fromTimer' = Tail(fromTimer)
      BY <1>0, <1>5 DEF RecvTimer, SenderTypeOK, TypeInv, TimerReady
    <2>3. ASSUME NEW d \in Conn, NEW s \in Packages'[d]
          PROVE  WillExpire(Key(d, s))'
      <3>1. s \in Packages[d]
        BY <1>0, <2>1 DEF SenderTypeOK
      <3>2. ASSUME Key(d, s) = k PROVE FALSE
        <4>1. SessionOf[d] = k[1] /\ s = k[2]
          BY <3>2 DEF Key
        <4>2. d = c
          BY <2>1, <2>2, <4>1 DEF DistinctSessions
        <4>. QED BY <1>0, <2>1, <2>2, <3>1, <4>1, <4>2 DEF Expired, SenderTypeOK
      <3>3. WillExpire(Key(d, s))
        BY <3>1 DEF TimerCovers
      <3>4. UNCHANGED <<toTimer, armed>>
        BY <1>5 DEF RecvTimer
      <3>. QED BY <2>2, <3>2, <3>3, <3>4, WillExpireFetch
    <2>. QED BY <2>3 DEF TimerCovers
  <1>6. ASSUME NEW c \in Conn, SendPackage(c) PROVE TimerCovers'
    <2>1. PICK t \in PendingPackages[c] :
            /\ Packages' = [Packages EXCEPT ![c] = @ \cup {t}]
            /\ SendTimerRequest(Key(c, t))
      BY <1>6 DEF SendPackage
    <2>2. Key(c, t) \in Session \X Nat
      BY <1>0, SenderAssumption DEF SenderAssumption, SenderTypeOK, Key
    <2>3. /\ toTimer' = Append(toTimer, StartRequest(Key(c, t)))
          /\ StartRequest(Key(c, t)) \in Requests(Session \X Nat)
      BY <2>1, <2>2 DEF SendTimerRequest, StartRequest, Requests
    <2>4. UNCHANGED <<armed, fromTimer>>
      BY <1>6 DEF SendPackage
    <2>5. ASSUME NEW d \in Conn, NEW s \in Packages'[d]
          PROVE  WillExpire(Key(d, s))'
      <3>1. CASE s \in Packages[d]
        <4>1. WillExpire(Key(d, s))
          BY <3>1 DEF TimerCovers
        <4>2. StartRequest(Key(c, t)) # CancelRequest(Key(d, s))
          BY CancelIsNotStart
        <4>. QED BY <2>3, <2>4, <4>1, <4>2, WillExpireAppend
      <3>2. CASE s \notin Packages[d]
        <4>1. d = c /\ s = t
          BY <1>0, <2>1, <3>2 DEF SenderTypeOK
        <4>. QED BY <2>1, <2>2, <4>1, StartedWillExpire
      <3>. QED BY <3>1, <3>2
    <2>. QED BY <2>5 DEF TimerCovers
  <1>. QED
    BY <1>2, <1>3, <1>4, <1>5, <1>6 DEF Sender, SenderNext, SenderStep

(***************************************************************************)
(* A package in flight is always going to be sent again if it is not       *)
(* acknowledged: no interleaving of starts, cancels, expiries and their    *)
(* late or repeated handling leaves it without a timer.                    *)
(***************************************************************************)
THEOREM AlwaysCovered ==
    ASSUME DistinctSessions
    PROVE  Spec => []TimerCovers
  <1>1. Init => OwnAcks /\ TimerCovers
    BY DEF Init, NetInit, SenderInit, NoAcks, OwnAcks, TimerCovers
  <1>2. TypeInv /\ OwnAcks /\ [Next]_vars => OwnAcks'
    BY OwnAcksStep
  <1>3. TypeInv /\ OwnAcks /\ TimerCovers /\ [Next]_vars => TimerCovers'
    <2>1. ASSUME TimerCovers, UNCHANGED <<timerVars, Packages>> PROVE TimerCovers'
      BY <2>1 DEF TimerCovers, WillExpire, Cancelled, timerVars, StartRequest, CancelRequest
    <2>2. ASSUME TypeInv, TimerCovers, Timer PROVE TimerCovers'
      <3>1. Packages' = Packages /\ TimerNext
        BY <2>2 DEF Timer, senderVars, senderTables
      <3>. QED BY <2>2, <3>1, WillExpireTimer DEF TimerCovers
    <2>. QED
      BY <2>1, <2>2, TimerCoversSender
      DEF Next, Receiver, vars, senderVars, senderTables
  <1>. QED BY <1>1, <1>2, <1>3, TypeInvInvariant, PTL DEF Spec

-----------------------------------------------------------------------------
(***************************************************************************)
(* The strengthening.  A package has at most one token, which is a start   *)
(* request on its way, then a node of the timer's list, then an expiry on  *)
(* its way; and none at all while it is pending or was not sent.           *)
(***************************************************************************)
Started(k, i) == i \in DOMAIN toTimer /\ toTimer[i] = StartRequest(k)
Reported(k, i) == i \in DOMAIN fromTimer /\ fromTimer[i] = k

OneToken(k) ==
    /\ \A i, j \in Nat : Started(k, i) /\ Started(k, j) => i = j
    /\ \A i, j \in Nat : Reported(k, i) /\ Reported(k, j) => i = j
    /\ \A i, j \in Nat : ~ (Started(k, i) /\ Reported(k, j))
    /\ k \in armed => \A i \in Nat : ~ Started(k, i) /\ ~ Reported(k, i)

NoToken(k) ==
    k \notin armed /\ \A i \in Nat : ~ Started(k, i) /\ ~ Reported(k, i)

Idle(c, s) == s \in PendingPackages[c] \/ s >= Base[c]

FreshInv ==
    \A c \in Conn : \A s \in Nat :
        OneToken(Key(c, s)) /\ (Idle(c, s) => NoToken(Key(c, s)))

(* The queues of the timer's two sockets. *)
LEMMA Queues ==
    ASSUME TypeInv
    PROVE  /\ toTimer \in Seq(Requests(Session \X Nat))
           /\ fromTimer \in Seq(Session \X Nat)
           /\ DOMAIN toTimer = 1..Len(toTimer) /\ Len(toTimer) \in Nat
           /\ DOMAIN fromTimer = 1..Len(fromTimer) /\ Len(fromTimer) \in Nat
  <1>1. /\ toTimer \in Seq(Requests(Session \X Nat))
        /\ fromTimer \in Seq(Session \X Nat)
    BY DEF TypeInv, TypeOK, TimerTypeOK
  <1>. QED BY <1>1

LEMMA StartIsStart ==
    ASSUME NEW k, NEW r \in Requests(Session \X Nat)
    PROVE  r = StartRequest(k) <=> r.type = "Start" /\ r.key = k
  <1>1. ASSUME r.type = "Start", r.key = k PROVE r = StartRequest(k)
    BY <1>1 DEF Requests, StartRequest
  <1>. QED BY <1>1 DEF StartRequest

LEMMA TokensUnchanged ==
    ASSUME UNCHANGED timerVars, NEW k
    PROVE  (OneToken(k) => OneToken(k)') /\ (NoToken(k) => NoToken(k)')
  <1>1. \A i : (Started(k, i)' <=> Started(k, i)) /\ (Reported(k, i)' <=> Reported(k, i))
    BY DEF timerVars, Started, Reported, StartRequest
  <1>. QED BY <1>1 DEF timerVars, OneToken, NoToken

(* A request at the end of the queue. *)
LEMMA TokensAppend ==
    ASSUME TypeInv, NEW r \in Requests(Session \X Nat), NEW k,
           toTimer' = Append(toTimer, r), UNCHANGED <<armed, fromTimer>>
    PROVE  /\ \A i \in Nat : Started(k, i)' <=>
                Started(k, i) \/ (i = Len(toTimer) + 1 /\ r = StartRequest(k))
           /\ \A i : Reported(k, i)' <=> Reported(k, i)
  <1>1. /\ DOMAIN toTimer = 1..Len(toTimer) /\ Len(toTimer) \in Nat
        /\ DOMAIN toTimer' = 1..Len(toTimer) + 1
        /\ \A i \in DOMAIN toTimer : toTimer'[i] = toTimer[i]
        /\ toTimer'[Len(toTimer) + 1] = r
    BY Queues
  <1>2. StartRequest(k)' = StartRequest(k)
    BY DEF StartRequest
  <1>. QED BY <1>1, <1>2 DEF Started, Reported

LEMMA TokensOther ==
    ASSUME TypeInv, NEW r \in Requests(Session \X Nat), NEW k, r # StartRequest(k),
           toTimer' = Append(toTimer, r), UNCHANGED <<armed, fromTimer>>
    PROVE  (OneToken(k) => OneToken(k)') /\ (NoToken(k) => NoToken(k)')
  <1>1. /\ \A i \in Nat : Started(k, i)' <=> Started(k, i)
        /\ \A i : Reported(k, i)' <=> Reported(k, i)
    BY TokensAppend
  <1>. QED BY <1>1 DEF OneToken, NoToken

LEMMA TokenStart ==
    ASSUME TypeInv, NEW k \in Session \X Nat, NoToken(k),
           SendTimerRequest(k), UNCHANGED <<armed, fromTimer>>
    PROVE  OneToken(k)'
  <1>1. /\ StartRequest(k) \in Requests(Session \X Nat)
        /\ toTimer' = Append(toTimer, StartRequest(k))
    BY DEF SendTimerRequest, StartRequest, Requests
  <1>2. /\ \A i \in Nat : Started(k, i)' <=> i = Len(toTimer) + 1
        /\ \A i \in Nat : ~ Reported(k, i)'
    BY <1>1, TokensAppend DEF NoToken
  <1>3. k \notin armed'
    BY DEF NoToken
  <1>. QED BY <1>2, <1>3 DEF OneToken

(* The timer hands the token on, or drops it. *)
LEMMA TokensServe ==
    ASSUME TypeInv, ServeRequest, NEW k
    PROVE  (OneToken(k) => OneToken(k)') /\ (NoToken(k) => NoToken(k)')
  <1>1. /\ toTimer' = Tail(toTimer) /\ fromTimer' = fromTimer /\ toTimer # <<>>
        /\ armed' = IF Head(toTimer).type = "Start" THEN armed \cup {Head(toTimer).key}
                                                    ELSE armed \ {Head(toTimer).key}
    BY DEF ServeRequest
  <1>2. /\ DOMAIN toTimer' = 1..Len(toTimer) - 1
        /\ \A i \in DOMAIN toTimer' : toTimer'[i] = toTimer[i + 1]
        /\ 1 \in DOMAIN toTimer /\ Head(toTimer) = toTimer[1]
    BY <1>1, Queues
  <1>3. \A i \in Nat : Started(k, i)' => i # 0 /\ Started(k, i + 1)
    <2>1. StartRequest(k)' = StartRequest(k)
      BY DEF StartRequest
    <2>2. \A i \in DOMAIN toTimer' : i # 0 /\ i + 1 \in DOMAIN toTimer
      BY <1>2, Queues
    <2>. QED BY <1>2, <2>1, <2>2 DEF Started
  <1>4. \A i : Reported(k, i)' <=> Reported(k, i)
    BY <1>1 DEF Reported
  <1>5. Head(toTimer) \in Requests(Session \X Nat)
    BY <1>1, Queues
  <1>6. CASE Head(toTimer) = StartRequest(k)
    <2>1. Started(k, 1)
      BY <1>2, <1>6 DEF Started
    <2>2. ~ NoToken(k)
      BY <2>1 DEF NoToken
    <2>3. ASSUME OneToken(k)
          PROVE  \A i \in Nat : ~ Started(k, i)' /\ ~ Reported(k, i)'
      <3>1. ASSUME NEW i \in Nat, Started(k, i)' PROVE FALSE
        <4>1. Started(k, i + 1) /\ i + 1 \in Nat /\ i + 1 # 1
          BY <1>3, <3>1
        <4>. QED BY <2>1, <2>3, <4>1 DEF OneToken
      <3>2. \A i \in Nat : ~ Reported(k, i)
        BY <2>1, <2>3 DEF OneToken
      <3>. QED BY <1>4, <3>1, <3>2
    <2>4. OneToken(k) => OneToken(k)'
      BY <2>3 DEF OneToken
    <2>. QED BY <2>2, <2>4
  <1>7. CASE Head(toTimer) # StartRequest(k)
    <2>1. k \in armed' => k \in armed
      BY <1>1, <1>5, <1>7, StartIsStart
    <2>2. NoToken(k) => NoToken(k)'
      BY <1>3, <1>4, <2>1 DEF NoToken
    <2>3. ASSUME OneToken(k) PROVE OneToken(k)'
      <3>1. ASSUME NEW i \in Nat, NEW j \in Nat, Started(k, i)', Started(k, j)'
            PROVE  i = j
        <4>1. Started(k, i + 1) /\ Started(k, j + 1) /\ i + 1 \in Nat /\ j + 1 \in Nat
          BY <1>3, <3>1
        <4>2. i + 1 = j + 1
          BY <2>3, <4>1 DEF OneToken
        <4>. QED BY <4>2
      <3>2. \A i, j \in Nat : ~ (Started(k, i)' /\ Reported(k, j)')
        BY <1>3, <1>4, <2>3 DEF OneToken
      <3>3. k \in armed' => \A i \in Nat : ~ Started(k, i)' /\ ~ Reported(k, i)'
        BY <1>3, <1>4, <2>1, <2>3 DEF OneToken
      <3>4. \A i, j \in Nat : Reported(k, i)' /\ Reported(k, j)' => i = j
        BY <1>4, <2>3 DEF OneToken
      <3>. QED BY <3>1, <3>2, <3>3, <3>4 DEF OneToken
    <2>. QED BY <2>2, <2>3
  <1>. QED BY <1>6, <1>7

LEMMA TokensExpire ==
    ASSUME TypeInv, NEW l \in armed, Expire(l), NEW k
    PROVE  (OneToken(k) => OneToken(k)') /\ (NoToken(k) => NoToken(k)')
  <1>1. /\ fromTimer' = Append(fromTimer, l) /\ armed' = armed \ {l}
        /\ toTimer' = toTimer
    BY DEF Expire
  <1>2. l \in Session \X Nat
    BY DEF TypeInv, TypeOK, TimerTypeOK
  <1>3. /\ DOMAIN fromTimer' = 1..Len(fromTimer) + 1
        /\ \A i \in DOMAIN fromTimer : fromTimer'[i] = fromTimer[i]
        /\ fromTimer'[Len(fromTimer) + 1] = l
    BY <1>1, <1>2, Queues
  <1>4. \A i : Started(k, i)' <=> Started(k, i)
    BY <1>1 DEF Started, StartRequest
  <1>5. \A i \in Nat : Reported(k, i)' <=>
          Reported(k, i) \/ (i = Len(fromTimer) + 1 /\ l = k)
    BY <1>3, Queues DEF Reported
  <1>6. CASE l = k
    BY <1>1, <1>4, <1>5, <1>6 DEF OneToken, NoToken
  <1>7. CASE l # k
    BY <1>1, <1>4, <1>5, <1>7 DEF OneToken, NoToken
  <1>. QED BY <1>6, <1>7

(* tcpd fetches a report. *)
LEMMA TokensFetch ==
    ASSUME TypeInv, fromTimer # <<>>, fromTimer' = Tail(fromTimer),
           UNCHANGED <<toTimer, armed>>, NEW k
    PROVE  /\ OneToken(k) => OneToken(k)'
           /\ NoToken(k) => NoToken(k)'
           /\ OneToken(k) /\ k = Head(fromTimer) => NoToken(k)'
  <1>1. /\ DOMAIN fromTimer' = 1..Len(fromTimer) - 1
        /\ \A i \in DOMAIN fromTimer' : fromTimer'[i] = fromTimer[i + 1]
        /\ 1 \in DOMAIN fromTimer /\ Head(fromTimer) = fromTimer[1]
    BY Queues
  <1>2. \A i : Started(k, i)' <=> Started(k, i)
    BY DEF Started, StartRequest
  <1>3. \A i \in Nat : Reported(k, i)' => i # 0 /\ Reported(k, i + 1)
    BY <1>1, Queues DEF Reported
  <1>4. NoToken(k) => NoToken(k)'
    BY <1>2, <1>3 DEF NoToken
  <1>5. ASSUME OneToken(k) PROVE OneToken(k)'
    <2>1. ASSUME NEW i \in Nat, NEW j \in Nat, Reported(k, i)', Reported(k, j)'
          PROVE  i = j
      <3>1. Reported(k, i + 1) /\ Reported(k, j + 1) /\ i + 1 \in Nat /\ j + 1 \in Nat
        BY <1>3, <2>1
      <3>2. i + 1 = j + 1
        BY <1>5, <3>1 DEF OneToken
      <3>. QED BY <3>2
    <2>2. \A i, j \in Nat : ~ (Started(k, i)' /\ Reported(k, j)')
      BY <1>2, <1>3, <1>5 DEF OneToken
    <2>3. k \in armed' => \A i \in Nat : ~ Started(k, i)' /\ ~ Reported(k, i)'
      BY <1>2, <1>3, <1>5 DEF OneToken
    <2>4. \A i, j \in Nat : Started(k, i)' /\ Started(k, j)' => i = j
      BY <1>2, <1>5 DEF OneToken
    <2>. QED BY <2>1, <2>2, <2>3, <2>4 DEF OneToken
  <1>6. ASSUME OneToken(k), k = Head(fromTimer) PROVE NoToken(k)'
    <2>1. Reported(k, 1)
      BY <1>1, <1>6 DEF Reported
    <2>2. \A i \in Nat : ~ Started(k, i)
      BY <1>6, <2>1 DEF OneToken
    <2>3. k \notin armed
      BY <1>6, <2>1 DEF OneToken
    <2>4. ASSUME NEW i \in Nat, Reported(k, i)' PROVE FALSE
      <3>1. Reported(k, i + 1) /\ i + 1 \in Nat /\ i + 1 # 1
        BY <1>3, <2>4
      <3>. QED BY <1>6, <2>1, <3>1 DEF OneToken
    <2>. QED BY <1>2, <2>2, <2>3, <2>4 DEF NoToken
  <1>. QED BY <1>4, <1>5, <1>6

-----------------------------------------------------------------------------
LEMMA FreshInit == Init => FreshInv
  <1>. SUFFICES ASSUME Init, NEW c \in Conn, NEW s \in Nat
                PROVE  OneToken(Key(c, s)) /\ NoToken(Key(c, s))
    BY DEF FreshInv
  <1>1. toTimer = <<>> /\ fromTimer = <<>> /\ armed = {}
    BY DEF Init, TimerInit
  <1>. QED BY <1>1 DEF OneToken, NoToken, Started, Reported

LEMMA FreshSender ==
    ASSUME DistinctSessions, TypeInv, BufferInv, FreshInv, Sender
    PROVE  FreshInv'
  <1>0. SenderTypeOK /\ TimerTypeOK(Session \X Nat) /\ BufferedWereSent
    BY DEF TypeInv, TypeOK
  <1>1. ASSUME UNCHANGED timerVars,
               \A c \in Conn : \A s \in Nat : Idle(c, s)' => Idle(c, s)
        PROVE  FreshInv'
    <2>1. \A c \in Conn : \A s \in Nat : Key(c, s)' = Key(c, s)
      BY DEF Key
    <2>. QED BY <1>1, <2>1, TokensUnchanged DEF FreshInv
  <1>2. CASE Select \/ UpdateMinSeq
    BY <1>1, <1>2 DEF Select, UpdateMinSeq, senderTables, Idle
  <1>3. ASSUME NEW c \in Conn, TcpdSOCKET(c) \/ TcpdSENDExits(c)
        PROVE  FreshInv'
    BY <1>1, <1>3 DEF TcpdSOCKET, TcpdSENDExits, senderTables, Idle
  <1>4. ASSUME NEW c \in Conn, TcpdCONNECT(c) PROVE FreshInv'
    <2>1. Base[c] = 0 /\ Buffered(c) = {}
      BY <1>4 DEF TcpdCONNECT, Handling, BufferInv, ConnectOnce, FreshConnections
    <2>2. \A d \in Conn : Base'[d] = Base[d] /\ PendingPackages'[d] = PendingPackages[d]
      BY <1>0, <1>4, <2>1 DEF TcpdCONNECT, SenderTypeOK, Buffered
    <2>. QED BY <1>1, <1>4, <2>2 DEF TcpdCONNECT, Idle
  <1>5. ASSUME NEW c \in Conn, TcpdSEND(c) PROVE FreshInv'
    <2>1. \A d \in Conn :
            /\ Base[d] \in Nat
            /\ Base'[d] = IF d = c THEN Base[c] + 1 ELSE Base[d]
            /\ PendingPackages'[d] = IF d = c THEN PendingPackages[c] \cup {Base[c]}
                                              ELSE PendingPackages[d]
      BY <1>0, <1>5 DEF TcpdSEND, SenderTypeOK
    <2>2. \A d \in Conn : \A s \in Nat : Idle(d, s)' => Idle(d, s)
      BY <2>1 DEF Idle
    <2>. QED BY <1>1, <1>5, <2>2 DEF TcpdSEND
  <1>6. ASSUME NEW c \in Conn, RecvAck(c) PROVE FreshInv'
    <2>. DEFINE m == ackIn[c]
                r == CancelRequest(<<m.session, m.seq>>)
    <2>1. m \in ReadAckType
      BY <1>0, <1>6 DEF RecvAck, SenderTypeOK
    <2>2. \A d \in Conn : \A s \in Nat : Idle(d, s)' <=> Idle(d, s)
      BY <1>6 DEF RecvAck, Idle
    <2>3. CASE UNCHANGED timerVars
      BY <1>1, <2>2, <2>3
    <2>4. CASE toTimer' = Append(toTimer, r) /\ UNCHANGED <<armed, fromTimer>>
      <3>1. r \in Requests(Session \X Nat)
        BY <2>1 DEF ReadAckType, CancelRequest, Requests
      <3>2. \A k : r # StartRequest(k)
        BY DEF CancelRequest, StartRequest
      <3>3. ASSUME NEW d \in Conn, NEW s \in Nat
            PROVE  OneToken(Key(d, s))' /\ (Idle(d, s)' => NoToken(Key(d, s))')
        <4>1. OneToken(Key(d, s)) /\ (Idle(d, s) => NoToken(Key(d, s)))
          BY DEF FreshInv
        <4>2. /\ OneToken(Key(d, s)) => OneToken(Key(d, s))'
              /\ NoToken(Key(d, s)) => NoToken(Key(d, s))'
          BY <2>4, <3>1, <3>2, TokensOther
        <4>. QED BY <2>2, <4>1, <4>2
      <3>. QED BY <3>3 DEF FreshInv
    <2>. QED BY <1>6, <2>3, <2>4 DEF RecvAck, CancelTimerRequest, timerVars
  <1>7. CASE RecvTimer
    <2>. DEFINE k == Head(fromTimer)
    <2>1. PICK c \in connected :
            /\ SessionOf[c] = k[1]
            /\ PendingPackages' = [PendingPackages EXCEPT ![c] = @ \cup Expired(c, k)]
      BY <1>7 DEF RecvTimer
    <2>2. /\ c \in Conn /\ fromTimer # <<>> /\ fromTimer' = Tail(fromTimer)
          /\ UNCHANGED <<toTimer, armed, Base>> /\ k \in Session \X Nat
      BY <1>0, <1>7, Queues DEF RecvTimer, SenderTypeOK, TypeInv, TimerReady
    <2>3. ASSUME NEW d \in Conn, NEW s \in Nat
          PROVE  OneToken(Key(d, s))' /\ (Idle(d, s)' => NoToken(Key(d, s))')
      <3>1. OneToken(Key(d, s)) /\ (Idle(d, s) => NoToken(Key(d, s)))
        BY DEF FreshInv
      <3>2. /\ OneToken(Key(d, s)) => OneToken(Key(d, s))'
            /\ NoToken(Key(d, s)) => NoToken(Key(d, s))'
            /\ OneToken(Key(d, s)) /\ Key(d, s) = k => NoToken(Key(d, s))'
        BY <2>2, TokensFetch
      <3>3. Idle(d, s)' => Idle(d, s) \/ Key(d, s) = k
        BY <1>0, <2>1, <2>2 DEF Idle, Expired, SenderTypeOK, Key
      <3>. QED BY <3>1, <3>2, <3>3
    <2>. QED BY <2>3 DEF FreshInv
  <1>8. ASSUME NEW c \in Conn, SendPackage(c) PROVE FreshInv'
    <2>1. PICK t \in PendingPackages[c] :
            /\ PendingPackages' = [PendingPackages EXCEPT ![c] = @ \ {t}]
            /\ SendTimerRequest(Key(c, t))
      BY <1>8 DEF SendPackage, Unlinked
    <2>2. /\ UNCHANGED <<armed, fromTimer, Base>>
          /\ t \in Nat /\ t < Base[c] /\ Base[c] \in Nat
      BY <1>0, <1>8 DEF SendPackage, SenderTypeOK, BufferedWereSent, Buffered
    <2>3. Key(c, t) \in Session \X Nat
      BY <2>2, SenderAssumption DEF SenderAssumption, Key
    <2>4. /\ toTimer' = Append(toTimer, StartRequest(Key(c, t)))
          /\ StartRequest(Key(c, t)) \in Requests(Session \X Nat)
      BY <2>1, <2>3 DEF SendTimerRequest, StartRequest, Requests
    <2>5. ASSUME NEW d \in Conn, NEW s \in Nat
          PROVE  OneToken(Key(d, s))' /\ (Idle(d, s)' => NoToken(Key(d, s))')
      <3>1. OneToken(Key(d, s)) /\ (Idle(d, s) => NoToken(Key(d, s)))
        BY DEF FreshInv
      <3>2. CASE d = c /\ s = t
        <4>1. NoToken(Key(c, t))
          BY <3>1, <3>2 DEF Idle
        <4>2. OneToken(Key(c, t))'
          BY <2>1, <2>2, <2>3, <4>1, TokenStart
        <4>3. ~ Idle(c, t)'
          BY <1>0, <2>1, <2>2 DEF Idle, SenderTypeOK
        <4>. QED BY <3>2, <4>2, <4>3
      <3>3. CASE ~ (d = c /\ s = t)
        <4>1. StartRequest(Key(c, t)) # StartRequest(Key(d, s))
          <5>1. Key(c, t) # Key(d, s)
            BY <3>3 DEF DistinctSessions, Key
          <5>2. /\ StartRequest(Key(c, t)).key = Key(c, t)
                /\ StartRequest(Key(d, s)).key = Key(d, s)
            BY DEF StartRequest
          <5>. QED BY <5>1, <5>2
        <4>2. /\ OneToken(Key(d, s)) => OneToken(Key(d, s))'
              /\ NoToken(Key(d, s)) => NoToken(Key(d, s))'
          BY <2>2, <2>4, <4>1, TokensOther
        <4>3. Idle(d, s)' => Idle(d, s)
          BY <1>0, <2>1, <2>2 DEF Idle, SenderTypeOK
        <4>. QED BY <3>1, <4>2, <4>3
      <3>. QED BY <3>2, <3>3
    <2>. QED BY <2>5 DEF FreshInv
  <1>. QED
    BY <1>2, <1>3, <1>4, <1>5, <1>6, <1>7, <1>8 DEF Sender, SenderNext, SenderStep

LEMMA FreshStep ==
    ASSUME DistinctSessions, TypeInv, BufferInv, FreshInv, [Next]_vars
    PROVE  FreshInv'
  <1>1. ASSUME UNCHANGED <<Base, PendingPackages>>,
               \A k : (OneToken(k) => OneToken(k)') /\ (NoToken(k) => NoToken(k)')
        PROVE  FreshInv'
    <2>1. \A c \in Conn : \A s \in Nat : Idle(c, s)' <=> Idle(c, s)
      BY <1>1 DEF Idle
    <2>2. ASSUME NEW c \in Conn, NEW s \in Nat
          PROVE  OneToken(Key(c, s))' /\ (Idle(c, s)' => NoToken(Key(c, s))')
      <3>1. OneToken(Key(c, s)) /\ (Idle(c, s) => NoToken(Key(c, s)))
        BY DEF FreshInv
      <3>2. /\ OneToken(Key(c, s)) => OneToken(Key(c, s))'
            /\ NoToken(Key(c, s)) => NoToken(Key(c, s))'
        BY <1>1
      <3>. QED BY <2>1, <3>1, <3>2
    <2>. QED BY <2>2 DEF FreshInv
  <1>2. CASE Receiver \/ UNCHANGED vars
    <2>1. UNCHANGED <<timerVars, Base, PendingPackages>>
      BY <1>2 DEF Receiver, vars, senderVars, senderTables
    <2>. QED BY <1>1, <2>1, TokensUnchanged
  <1>3. CASE Timer
    <2>1. UNCHANGED <<Base, PendingPackages>> /\ TimerNext
      BY <1>3 DEF Timer, senderVars, senderTables
    <2>. QED BY <1>1, <2>1, TokensServe, TokensExpire DEF TimerNext
  <1>. QED BY <1>2, <1>3, FreshSender DEF Next

(***************************************************************************)
(* A start request never meets a node of its own key in the timer's list,  *)
(* nor a second start request: after a timeout the package has no timer    *)
(* left, whatever cancel requests and expiries are on their way.           *)
(***************************************************************************)
THEOREM AlwaysFresh ==
    ASSUME DistinctSessions
    PROVE  Spec => []StartIsFresh
  <1>1. TypeInv /\ BufferInv /\ FreshInv /\ [Next]_vars => FreshInv'
    BY FreshStep
  <1>2. TypeInv /\ FreshInv => StartIsFresh
    <2>. SUFFICES ASSUME TypeInv, FreshInv,
                         NEW i \in DOMAIN toTimer, NEW c \in Conn, NEW s \in SeqNum,
                         toTimer[i] = StartRequest(Key(c, s))
                  PROVE  /\ \A j \in 1..i - 1 : toTimer[j] # StartRequest(Key(c, s))
                         /\ Key(c, s) \notin armed
      BY DEF StartIsFresh
    <2>1. OneToken(Key(c, s))
      BY TrollAssumption DEF FreshInv, TrollAssumption
    <2>2. i \in Nat /\ \A j \in 1..i - 1 : j \in Nat /\ j \in DOMAIN toTimer /\ j # i
      BY Queues
    <2>3. Started(Key(c, s), i)
      BY DEF Started
    <2>4. \A j \in 1..i - 1 : ~ Started(Key(c, s), j)
      BY <2>1, <2>2, <2>3 DEF OneToken
    <2>. QED BY <2>1, <2>2, <2>3, <2>4 DEF OneToken, Started
  <1>. QED BY <1>1, <1>2, FreshInit, BufferInvariant, TypeInvInvariant, PTL DEF Spec
=============================================================================
