--------------------------- MODULE DeliveryProofs ---------------------------
(***************************************************************************)
(* The receiving daemon.  An acknowledgement tells the truth: what the     *)
(* sender drops because it was acknowledged has reached the receiver.  The *)
(* reassembly lists can always be handed over, and one answer is owed to   *)
(* each process that waits for one.                                        *)
(*                                                                         *)
(* The bytes of an acknowledged package are not lost on their way through  *)
(* the reassembly list and the receive buffer to the RECV that returns     *)
(* them, provided no package is cut to fit into a request (TakePart); and  *)
(* they come in order, as ByteStream asks.                                 *)
(***************************************************************************)
EXTENDS TransferProofs, Recursion

(* What the receiver has it keeps, or hands over. *)
LEMMA HasPackageStays ==
    ASSUME TypeInv, Receiver, NEW x \in Session, NEW s \in Nat, HasPackage(x, s)
    PROVE  HasPackage(x, s)'
  <1>0. ReceiverTypeOK
    BY DEF TypeInv, TypeOK
  <1>1. ASSUME UNCHANGED <<rBase, rPackages>> PROVE HasPackage(x, s)'
    BY <1>1 DEF HasPackage
  <1>2. ASSUME NEW f \in Ftps, FrontCall(f) PROVE HasPackage(x, s)'
    BY <1>1, <1>2 DEF FrontCall, TcpdBIND, TcpdACCEPT, TcpdRECV
  <1>3. ASSUME NEW m \in Arrivals(dataNet), RecvData(m) PROVE HasPackage(x, s)'
    <2>1. rBase' = rBase /\ rPackages[x] \subseteq rPackages'[x]
      BY <1>0, <1>3 DEF RecvData, ReceiverTypeOK
    <2>. QED BY <2>1 DEF HasPackage
  <1>4. CASE SolveAccept
    BY <1>1, <1>4 DEF SolveAccept
  <1>5. ASSUME NEW y \in Session, TakePackage(y) PROVE HasPackage(x, s)'
    <2>1. PICK p \in rPackages[y] :
            /\ NextPackage(y, p)
            /\ rPackages' = [rPackages EXCEPT ![y] = @ \ {p}]
      BY <1>5 DEF TakePackage
    <2>2. rBase' = [rBase EXCEPT ![y] = @ + 1]
      BY <1>5 DEF TakePackage
    <2>3. p.seq = rBase[y]
      BY <2>1 DEF NextPackage
    <2>4. CASE x # y
      <3>1. rPackages'[x] = rPackages[x] /\ rBase'[x] = rBase[x]
        BY <1>0, <2>1, <2>2, <2>4 DEF ReceiverTypeOK
      <3>. QED BY <3>1 DEF HasPackage
    <2>5. CASE x = y
      <3>1. rPackages'[x] = rPackages[x] \ {p} /\ rBase'[x] = rBase[x] + 1
        BY <1>0, <2>1, <2>2, <2>5 DEF ReceiverTypeOK
      <3>2. rBase[x] \in Nat
        BY <1>0 DEF ReceiverTypeOK
      <3>3. CASE s < rBase[x]
        BY <3>1, <3>2, <3>3 DEF HasPackage
      <3>4. ASSUME NEW q \in rPackages[x], q.seq = s PROVE HasPackage(x, s)'
        <4>1. CASE q = p
          BY <2>3, <2>5, <3>1, <3>2, <3>4, <4>1 DEF HasPackage
        <4>2. CASE q # p
          BY <3>1, <3>4, <4>2 DEF HasPackage
        <4>. QED BY <4>1, <4>2
      <3>. QED BY <3>3, <3>4 DEF HasPackage
    <2>. QED BY <2>4, <2>5
  <1>6. ASSUME NEW y \in Session, TakePart(y) PROVE HasPackage(x, s)'
    <2>1. PICK p \in rPackages[y] :
            rPackages' = [rPackages EXCEPT ![y] =
                (@ \ {p}) \cup
                {[p EXCEPT !.body =
                    SubSeq(@, receiving[y] - Len(recvBuffer[y]) + 1, Len(@))]}]
      BY <1>6 DEF TakePart
    <2>2. PICK rest : /\ rest = [p EXCEPT !.body =
                            SubSeq(@, receiving[y] - Len(recvBuffer[y]) + 1, Len(@))]
                      /\ rPackages' = [rPackages EXCEPT ![y] = (@ \ {p}) \cup {rest}]
      BY <2>1
    <2>3. rest.seq = p.seq
      <3>1. p \in [seq : Nat, body : Body]
        BY <1>0 DEF ReceiverTypeOK
      <3>. QED BY <2>2, <3>1
    <2>4. rPackages'[x] = rPackages[x] \/
            (x = y /\ rPackages'[x] = (rPackages[x] \ {p}) \cup {rest})
      BY <1>0, <2>2 DEF ReceiverTypeOK
    <2>5. rBase' = rBase
      BY <1>6 DEF TakePart
    <2>6. \A q \in rPackages[x] : \E r \in rPackages'[x] : r.seq = q.seq
      BY <2>3, <2>4
    <2>. QED BY <2>5, <2>6 DEF HasPackage
  <1>7. ASSUME NEW y \in Session, ReplyRecv(y) PROVE HasPackage(x, s)'
    BY <1>1, <1>7 DEF ReplyRecv
  <1>8. ASSUME NEW y \in Session, RecvExits(y) PROVE HasPackage(x, s)'
    BY <1>1, <1>8 DEF RecvExits
  <1>. QED
    BY <1>2, <1>3, <1>4, <1>5, <1>6, <1>7, <1>8
    DEF Receiver, ReceiverNext, Callback

-----------------------------------------------------------------------------
(***************************************************************************)
(* The strengthening: no acknowledgement in flight, and none the sender is *)
(* about to handle, names a package the receiver does not have.            *)
(***************************************************************************)
AcksAreTrue == \A m \in ackNet : HasPackage(m.session, m.seq)

ReadAcksAreTrue ==
    \A c \in Conn :
        ackIn[c] # None /\ Intact(ackIn[c])
            => HasPackage(ackIn[c].session, ackIn[c].seq)

DeliveryInv == AcksAreTrue /\ ReadAcksAreTrue /\ AckedIsReceived

LEMMA DeliveryReceiver ==
    ASSUME TypeInv, DeliveryInv, Receiver
    PROVE  DeliveryInv'
  <1>. USE DEF DeliveryInv
  <1>0. NetTypeOK /\ SenderTypeOK /\ ReceiverTypeOK
    BY DEF TypeInv, TypeOK
  <1>1. ASSUME NEW m \in AckType, HasPackage(m.session, m.seq)
        PROVE  HasPackage(m.session, m.seq)'
    BY <1>1, HasPackageStays DEF AckType
  <1>2. AcksAreTrue'
    <2>1. ASSUME ackNet' = ackNet PROVE AcksAreTrue'
      BY <1>0, <1>1, <2>1 DEF AcksAreTrue, NetTypeOK
    <2>2. ASSUME NEW m \in Arrivals(dataNet), RecvData(m) PROVE AcksAreTrue'
      <3>1. m \in DataType
        BY <1>0, <2>2, IntactData DEF RecvData, NetTypeOK
      <3>2. ackNet' \subseteq ackNet \cup {AckMessage(m.conn, m.session, m.seq)}
        BY <2>2 DEF RecvData, Sent
      <3>3. HasPackage(m.session, m.seq)'
        <4>1. m.session \in Session /\ m.seq \in Nat
          BY <3>1 DEF DataType
        <4>2. CASE HasPackage(m.session, m.seq)
          BY <4>1, <4>2, HasPackageStays
        <4>3. CASE ~ HasPackage(m.session, m.seq)
          <5>1. rPackages' = [rPackages EXCEPT ![m.session] =
                                @ \cup {[seq |-> m.seq, body |-> m.body]}]
            BY <2>2, <4>3 DEF RecvData
          <5>2. [seq |-> m.seq, body |-> m.body] \in rPackages'[m.session]
            BY <1>0, <4>1, <5>1 DEF ReceiverTypeOK
          <5>. QED BY <5>2 DEF HasPackage
        <4>. QED BY <4>2, <4>3
      <3>4. ASSUME NEW n \in ackNet' PROVE HasPackage(n.session, n.seq)'
        <4>1. CASE n \in ackNet
          BY <1>0, <1>1, <4>1 DEF AcksAreTrue, NetTypeOK
        <4>2. CASE n = AckMessage(m.conn, m.session, m.seq)
          <5>1. n.session = m.session /\ n.seq = m.seq
            BY <4>2 DEF AckMessage
          <5>. QED BY <3>3, <5>1
        <4>. QED BY <3>2, <4>1, <4>2
      <3>. QED BY <3>4 DEF AcksAreTrue
    <2>3. ASSUME NEW f \in Ftps, FrontCall(f) PROVE ackNet' = ackNet
      BY <2>3 DEF FrontCall, TcpdBIND, TcpdACCEPT, TcpdRECV, net
    <2>4. ASSUME Callback PROVE ackNet' = ackNet
      BY <2>4
      DEF Callback, SolveAccept, TakePackage, TakePart, ReplyRecv, RecvExits, net
    <2>. QED BY <2>1, <2>2, <2>3, <2>4 DEF Receiver, ReceiverNext
  <1>3. ReadAcksAreTrue'
    <2>1. ackIn' = ackIn
      BY DEF Receiver, senderVars
    <2>2. ASSUME NEW c \in Conn, ackIn[c] # None, Intact(ackIn[c])
          PROVE  HasPackage(ackIn[c].session, ackIn[c].seq)'
      <3>1. ackIn[c] \in ReadAckType
        BY <1>0, <2>2 DEF SenderTypeOK
      <3>2. ackIn[c].session \in Session /\ ackIn[c].seq \in Nat
        BY <3>1 DEF ReadAckType
      <3>3. PICK x \in Session, t \in Nat : x = ackIn[c].session /\ t = ackIn[c].seq
        BY <3>2
      <3>4. HasPackage(x, t)'
        BY <2>2, <3>3, HasPackageStays DEF ReadAcksAreTrue
      <3>. QED BY <2>1, <3>3, <3>4 DEF HasPackage
    <2>. QED BY <2>1, <2>2 DEF ReadAcksAreTrue, Intact
  <1>4. AckedIsReceived'
    <2>1. SUFFICES ASSUME NEW c \in Conn, NEW s \in 0..Base[c] - 1, s \notin Buffered(c)
                   PROVE  HasPackage(SessionOf[c], s)'
      BY DEF AckedIsReceived, Receiver, senderVars, senderTables, Buffered
    <2>2. SessionOf[c] \in Session /\ s \in Nat
      BY <1>0, SenderAssumption DEF SenderAssumption, SenderTypeOK
    <2>3. HasPackage(SessionOf[c], s)
      BY <2>1 DEF AckedIsReceived
    <2>. QED BY <2>2, <2>3, HasPackageStays
  <1>. QED BY <1>2, <1>3, <1>4

LEMMA DeliveryTimer ==
    ASSUME DeliveryInv, Timer
    PROVE  DeliveryInv'
  BY DEF DeliveryInv, Timer, net, senderVars, senderTables, receiverVars, AcksAreTrue,
         ReadAcksAreTrue, AckedIsReceived, HasPackage, Buffered, Intact

LEMMA DeliverySender ==
    ASSUME TypeInv, DeliveryInv, Sender
    PROVE  DeliveryInv'
  <1>. USE DEF DeliveryInv
  <1>0. NetTypeOK /\ SenderTypeOK /\ ReceiverTypeOK
    BY DEF TypeInv, TypeOK
  <1>1. rBase' = rBase /\ rPackages' = rPackages
    BY DEF Sender, receiverVars
  <1>2. ackNet' \subseteq ackNet
    BY DEF Sender, SenderNext, SenderStep, Select, TakenAcks, TcpdSOCKET, TcpdCONNECT,
           TcpdSEND, TcpdSENDExits, RecvAck, RecvTimer, UpdateMinSeq, SendPackage, net
  <1>3. AcksAreTrue'
    BY <1>1, <1>2 DEF AcksAreTrue, HasPackage
  <1>. HIDE DEF DeliveryInv
  (* Only two actions change ackIn; handling a call or sending does not. *)
  <1>4. ASSUME ackIn' = ackIn PROVE ReadAcksAreTrue'
    BY <1>1, <1>4 DEF DeliveryInv, ReadAcksAreTrue, HasPackage, Intact
  (* A package that stays in a list, or was never SENT, is not concerned. *)
  <1>5. ASSUME \A c \in Conn : Base'[c] = Base[c] /\ Buffered(c) \subseteq Buffered(c)'
        PROVE  AckedIsReceived'
    BY <1>1, <1>5 DEF DeliveryInv, AckedIsReceived, HasPackage
  <1>6. CASE Select
    <2>1. ReadAcksAreTrue'
      <3>1. SUFFICES ASSUME NEW c \in Conn, ackIn'[c] # None, Intact(ackIn[c])'
                     PROVE  HasPackage(ackIn[c].session, ackIn[c].seq)'
        BY DEF ReadAcksAreTrue
      <3>2. ackIn'[c] \in Arrivals(ackNet)
        BY <1>6, <3>1 DEF Select, AckChoices
      <3>3. ackIn'[c] \in ackNet
        BY <1>0, <3>1, <3>2, IntactAck DEF NetTypeOK, Intact
      <3>. QED BY <1>1, <3>3 DEF DeliveryInv, AcksAreTrue, HasPackage
    <2>2. AckedIsReceived'
      BY <1>5, <1>6 DEF Select, senderTables, Buffered
    <2>. QED BY <1>3, <2>1, <2>2 DEF DeliveryInv
  <1>7. ASSUME NEW c \in Conn, TcpdSOCKET(c) PROVE DeliveryInv'
    BY <1>3, <1>4, <1>5, <1>7 DEF TcpdSOCKET, Buffered, DeliveryInv
  <1>8. ASSUME NEW c \in Conn, TcpdCONNECT(c) PROVE DeliveryInv'
    <2>1. AckedIsReceived'
      <3>1. SUFFICES ASSUME NEW d \in Conn, NEW s \in 0..Base'[d] - 1,
                            s \notin Buffered(d)'
                     PROVE  HasPackage(SessionOf[d], s)'
        BY DEF AckedIsReceived
      <3>2. d # c
        BY <1>0, <1>8 DEF TcpdCONNECT, SenderTypeOK
      <3>3. Base'[d] = Base[d] /\ Buffered(d)' = Buffered(d)
        BY <1>0, <1>8, <3>2 DEF TcpdCONNECT, SenderTypeOK, Buffered
      <3>. QED BY <1>1, <3>1, <3>3 DEF DeliveryInv, AckedIsReceived, HasPackage
    <2>. QED BY <1>3, <1>4, <1>8, <2>1 DEF TcpdCONNECT, DeliveryInv
  <1>9. ASSUME NEW c \in Conn, TcpdSEND(c) PROVE DeliveryInv'
    <2>1. AckedIsReceived'
      <3>1. SUFFICES ASSUME NEW d \in Conn, NEW s \in 0..Base'[d] - 1,
                            s \notin Buffered(d)'
                     PROVE  HasPackage(SessionOf[d], s)'
        BY DEF AckedIsReceived
      <3>2. Buffered(d) \subseteq Buffered(d)'
        BY <1>0, <1>9 DEF TcpdSEND, SenderTypeOK, Buffered
      <3>3. d = c => Base[c] \in Buffered(c)' /\ Base'[c] = Base[c] + 1 /\ Base[c] \in Nat
        BY <1>0, <1>9 DEF TcpdSEND, SenderTypeOK, Buffered
      <3>4. d # c => Base'[d] = Base[d]
        BY <1>0, <1>9 DEF TcpdSEND, SenderTypeOK
      <3>5. s \in 0..Base[d] - 1
        <4>1. CASE d = c
          BY <3>1, <3>3, <4>1
        <4>2. CASE d # c
          BY <3>4, <4>2
        <4>. QED BY <4>1, <4>2
      <3>. QED BY <1>1, <3>1, <3>2, <3>5 DEF DeliveryInv, AckedIsReceived, HasPackage
    <2>. QED BY <1>3, <1>4, <1>9, <2>1 DEF TcpdSEND, DeliveryInv
  <1>10. ASSUME NEW c \in Conn, TcpdSENDExits(c) PROVE DeliveryInv'
    BY <1>3, <1>4, <1>5, <1>10 DEF TcpdSENDExits, senderTables, Buffered, DeliveryInv
  <1>11. ASSUME NEW c \in Conn, RecvAck(c) PROVE DeliveryInv'
    <2>1. ReadAcksAreTrue'
      <3>1. SUFFICES ASSUME NEW d \in Conn, ackIn'[d] # None, Intact(ackIn[d])'
                     PROVE  HasPackage(ackIn[d].session, ackIn[d].seq)'
        BY DEF ReadAcksAreTrue
      <3>2. ackIn'[d] = ackIn[d]
        BY <1>0, <1>11, <3>1 DEF RecvAck, SenderTypeOK
      <3>. QED BY <1>1, <3>1, <3>2 DEF DeliveryInv, ReadAcksAreTrue, HasPackage, Intact
    <2>2. AckedIsReceived'
      <3>1. CASE ~ (Intact(ackIn[c]) /\ Acknowledges(ackIn[c], c))
        <4>1. Packages' = Packages
          BY <1>11, <3>1 DEF RecvAck
        <4>. QED BY <1>5, <1>11, <4>1 DEF RecvAck, Buffered
      <3>2. CASE Intact(ackIn[c]) /\ Acknowledges(ackIn[c], c)
        <4>1. Packages' = [Packages EXCEPT ![c] = @ \ {ackIn[c].seq}]
          BY <1>11, <3>2 DEF RecvAck
        <4>2. HasPackage(SessionOf[c], ackIn[c].seq)
          <5>1. HasPackage(ackIn[c].session, ackIn[c].seq)
            BY <1>11, <3>2 DEF RecvAck, DeliveryInv, ReadAcksAreTrue
          <5>. QED BY <3>2, <5>1 DEF Acknowledges
        <4>3. SUFFICES ASSUME NEW d \in Conn, NEW s \in 0..Base[d] - 1,
                              s \notin Buffered(d)'
                       PROVE  HasPackage(SessionOf[d], s)
          BY <1>1, <1>11 DEF RecvAck, AckedIsReceived, HasPackage
        <4>4. CASE s \notin Buffered(d)
          BY <4>3, <4>4 DEF DeliveryInv, AckedIsReceived
        <4>5. CASE s \in Buffered(d)
          <5>1. d = c /\ s = ackIn[c].seq
            BY <1>0, <1>11, <4>1, <4>3, <4>5 DEF RecvAck, Buffered, SenderTypeOK
          <5>. QED BY <4>2, <5>1
        <4>. QED BY <4>4, <4>5
      <3>. QED BY <3>1, <3>2
    <2>. QED BY <1>3, <2>1, <2>2 DEF DeliveryInv
  <1>12. CASE RecvTimer
    <2>1. PICK c \in connected :
            /\ Packages' = [Packages EXCEPT ![c] = @ \ Expired(c, Head(fromTimer))]
            /\ PendingPackages' =
                 [PendingPackages EXCEPT ![c] = @ \cup Expired(c, Head(fromTimer))]
      BY <1>12 DEF RecvTimer
    <2>2. \A d \in Conn : Buffered(d) \subseteq Buffered(d)'
      BY <1>0, <2>1 DEF Buffered, SenderTypeOK
    <2>3. Base' = Base /\ ackIn' = ackIn
      BY <1>12 DEF RecvTimer
    <2>. QED BY <1>3, <1>4, <1>5, <2>2, <2>3 DEF DeliveryInv
  <1>13. CASE UpdateMinSeq
    BY <1>3, <1>4, <1>5, <1>13 DEF UpdateMinSeq, senderTables, Buffered, DeliveryInv
  <1>14. ASSUME NEW c \in Conn, SendPackage(c) PROVE DeliveryInv'
    <2>1. PICK s \in PendingPackages[c] :
            /\ Packages' = [Packages EXCEPT ![c] = @ \cup {s}]
            /\ PendingPackages' = [PendingPackages EXCEPT ![c] = Unlinked(c, s)]
      BY <1>14 DEF SendPackage
    <2>2. \A d \in Conn : Buffered(d) \subseteq Buffered(d)'
      BY <1>0, <2>1 DEF Buffered, SenderTypeOK, Unlinked
    <2>3. Base' = Base /\ ackIn' = ackIn
      BY <1>14 DEF SendPackage
    <2>. QED BY <1>3, <1>4, <1>5, <2>2, <2>3 DEF DeliveryInv
  <1>. QED
    BY <1>6, <1>7, <1>8, <1>9, <1>10, <1>11, <1>12, <1>13, <1>14
    DEF Sender, SenderNext, SenderStep

(***************************************************************************)
(* No package that a SEND was answered for is forgotten by both daemons,   *)
(* whatever troll loses, repeats, delays or garbles.  Session numbers may  *)
(* even be equal: the receiver then has a package of that number.          *)
(***************************************************************************)
THEOREM AckedWasReceived == Spec => []AckedIsReceived
  <1>1. Init => DeliveryInv
    BY DEF Init, NetInit, SenderInit, NoAcks, DeliveryInv, AcksAreTrue,
           ReadAcksAreTrue, AckedIsReceived
  <1>2. TypeInv /\ DeliveryInv /\ [Next]_vars => DeliveryInv'
    <2>1. ASSUME DeliveryInv, UNCHANGED vars PROVE DeliveryInv'
      BY <2>1
      DEF vars, net, senderVars, senderTables, receiverVars, DeliveryInv, AcksAreTrue,
          ReadAcksAreTrue, AckedIsReceived, HasPackage, Buffered, Intact
    <2>. QED BY <2>1, DeliveryReceiver, DeliveryTimer, DeliverySender DEF Next
  <1>3. DeliveryInv => AckedIsReceived
    BY DEF DeliveryInv
  <1>. QED BY <1>1, <1>2, <1>3, TypeInvInvariant, PTL DEF Spec

-----------------------------------------------------------------------------
LEMMA CleanInit == Init => ReassemblyClean
  BY DEF Init, ReceiverInit, ReassemblyClean

LEMMA CleanUnchanged ==
    ASSUME ReassemblyClean, UNCHANGED <<rBase, rPackages>>
    PROVE  ReassemblyClean'
  BY DEF ReassemblyClean

(* A package is added only if its number is new and not outdated. *)
LEMMA CleanRecvData ==
    ASSUME TypeInv, ReassemblyClean, NEW m \in Arrivals(dataNet), RecvData(m)
    PROVE  ReassemblyClean'
  <1>. DEFINE y == m.session
              new == [seq |-> m.seq, body |-> m.body]
  <1>0. ReceiverTypeOK /\ NetTypeOK
    BY DEF TypeInv, TypeOK
  <1>1. CASE HasPackage(y, m.seq)
    BY <1>1, CleanUnchanged DEF RecvData
  <1>2. CASE ~ HasPackage(y, m.seq)
    <2>1. m \in DataType
      BY <1>0, IntactData DEF RecvData, NetTypeOK
    <2>2. y \in Session /\ m.seq \in Nat /\ rBase[y] \in Nat
      BY <1>0, <2>1 DEF DataType, ReceiverTypeOK
    <2>3. /\ rPackages' = [rPackages EXCEPT ![y] = @ \cup {new}]
          /\ rBase' = rBase
      BY <1>2 DEF RecvData
    <2>4. m.seq >= rBase[y] /\ \A q \in rPackages[y] : q.seq # m.seq
      BY <1>2, <2>2 DEF HasPackage
    <2>5. ASSUME NEW x \in Session, NEW p \in rPackages'[x]
          PROVE  p.seq >= rBase'[x] /\ \A q \in rPackages'[x] : q.seq = p.seq => q = p
      <3>1. CASE x # y
        <4>1. rPackages'[x] = rPackages[x]
          BY <2>3, <3>1, <1>0 DEF ReceiverTypeOK
        <4>. QED BY <2>3, <4>1 DEF ReassemblyClean
      <3>2. CASE x = y
        <4>1. rPackages'[x] = rPackages[y] \cup {new}
          BY <1>0, <2>2, <2>3, <3>2 DEF ReceiverTypeOK
        <4>2. CASE p = new
          BY <2>3, <2>4, <3>2, <4>1, <4>2
        <4>3. CASE p \in rPackages[y]
          BY <2>2, <2>3, <2>4, <3>2, <4>1, <4>3 DEF ReassemblyClean
        <4>. QED BY <4>1, <4>2, <4>3
      <3>. QED BY <3>1, <3>2
    <2>. QED BY <2>5 DEF ReassemblyClean
  <1>. QED BY <1>1, <1>2

(* The package that is handed over was the only one of its number. *)
LEMMA CleanTakePackage ==
    ASSUME TypeInv, ReassemblyClean, NEW x \in Session, TakePackage(x)
    PROVE  ReassemblyClean'
  <1>0. ReceiverTypeOK
    BY DEF TypeInv, TypeOK
  <1>1. PICK p \in rPackages[x] :
          NextPackage(x, p) /\ rPackages' = [rPackages EXCEPT ![x] = @ \ {p}]
    BY DEF TakePackage
  <1>2. rBase' = [rBase EXCEPT ![x] = @ + 1]
    BY DEF TakePackage
  <1>3. ASSUME NEW y \in Session, NEW q \in rPackages'[y]
        PROVE  q.seq >= rBase'[y] /\ \A r \in rPackages'[y] : r.seq = q.seq => r = q
    <2>1. rPackages'[y] \subseteq rPackages[y]
      BY <1>0, <1>1 DEF ReceiverTypeOK
    <2>2. q \in rPackages[y] /\ q.seq \in Nat /\ rBase[y] \in Nat
      BY <1>0, <2>1 DEF ReceiverTypeOK
    <2>3. q.seq >= rBase[y]
      BY <2>2 DEF ReassemblyClean
    <2>4. y = x => q # p /\ q.seq # p.seq
      BY <1>0, <1>1, <2>2 DEF ReassemblyClean, ReceiverTypeOK
    <2>5. p.seq = rBase[x]
      BY <1>1 DEF NextPackage
    <2>6. rBase'[y] = IF y = x THEN rBase[x] + 1 ELSE rBase[y]
      BY <1>0, <1>2 DEF ReceiverTypeOK
    <2>7. q.seq >= rBase'[y]
      BY <2>2, <2>3, <2>4, <2>5, <2>6
    <2>. QED BY <2>1, <2>2, <2>7 DEF ReassemblyClean
  <1>. QED BY <1>3 DEF ReassemblyClean

(* A package that is cut keeps its number. *)
LEMMA CleanTakePart ==
    ASSUME TypeInv, ReassemblyClean, NEW x \in Session, TakePart(x)
    PROVE  ReassemblyClean'
  <1>0. ReceiverTypeOK
    BY DEF TypeInv, TypeOK
  <1>1. PICK p \in rPackages[x] :
          rPackages' = [rPackages EXCEPT ![x] = (@ \ {p}) \cup
            {[p EXCEPT !.body = SubSeq(@, receiving[x] - Len(recvBuffer[x]) + 1, Len(@))]}]
    BY DEF TakePart
  <1>. DEFINE rest == [p EXCEPT !.body = SubSeq(@, receiving[x] - Len(recvBuffer[x]) + 1, Len(@))]
  <1>2. p \in [seq : Nat, body : Body]
    BY <1>0 DEF ReceiverTypeOK
  <1>3. rest.seq = p.seq
    BY <1>2
  <1>4. rBase' = rBase
    BY DEF TakePart
  <1>. HIDE DEF rest
  <1>5. rPackages' = [rPackages EXCEPT ![x] = (@ \ {p}) \cup {rest}]
    BY <1>1 DEF rest
  <1>6. ASSUME NEW y \in Session, NEW q \in rPackages'[y]
        PROVE  q.seq >= rBase'[y] /\ \A r \in rPackages'[y] : r.seq = q.seq => r = q
    <2>1. CASE y # x
      <3>1. rPackages'[y] = rPackages[y]
        BY <1>0, <1>5, <2>1 DEF ReceiverTypeOK
      <3>. QED BY <1>4, <3>1 DEF ReassemblyClean
    <2>2. CASE y = x
      <3>1. rPackages'[y] = (rPackages[x] \ {p}) \cup {rest}
        BY <1>0, <1>5, <2>2 DEF ReceiverTypeOK
      <3>2. \A r \in rPackages[x] \ {p} : r.seq # p.seq
        BY DEF ReassemblyClean
      <3>3. p.seq >= rBase[x]
        BY DEF ReassemblyClean
      <3>4. CASE q = rest
        BY <1>3, <1>4, <2>2, <3>1, <3>2, <3>3, <3>4
      <3>5. CASE q \in rPackages[x] \ {p}
        BY <1>3, <1>4, <2>2, <3>1, <3>2, <3>5 DEF ReassemblyClean
      <3>. QED BY <3>1, <3>4, <3>5
    <2>. QED BY <2>1, <2>2
  <1>. QED BY <1>6 DEF ReassemblyClean

LEMMA CleanStep ==
    ASSUME TypeInv, ReassemblyClean, [Next]_vars
    PROVE  ReassemblyClean'
  <1>1. CASE Sender \/ Timer \/ UNCHANGED vars
    <2>1. UNCHANGED <<rBase, rPackages>>
      BY <1>1 DEF Sender, Timer, vars, receiverVars
    <2>. QED BY <2>1, CleanUnchanged
  <1>2. ASSUME NEW f \in Ftps, FrontCall(f)
        PROVE  ReassemblyClean'
    <2>1. UNCHANGED <<rBase, rPackages>>
      BY <1>2 DEF FrontCall, TcpdBIND, TcpdACCEPT, TcpdRECV
    <2>. QED BY <2>1, CleanUnchanged
  <1>3. CASE SolveAccept
    <2>1. UNCHANGED <<rBase, rPackages>>
      BY <1>3 DEF SolveAccept
    <2>. QED BY <2>1, CleanUnchanged
  <1>4. ASSUME NEW x \in Session, ReplyRecv(x) \/ RecvExits(x)
        PROVE  ReassemblyClean'
    <2>1. UNCHANGED <<rBase, rPackages>>
      BY <1>4 DEF ReplyRecv, RecvExits
    <2>. QED BY <2>1, CleanUnchanged
  <1>. QED
    BY <1>1, <1>2, <1>3, <1>4, CleanRecvData, CleanTakePackage, CleanTakePart
    DEF Next, Receiver, ReceiverNext, Callback

(***************************************************************************)
(* The reassembly list never holds a package twice nor one that was handed *)
(* over, whatever the network repeats, for any number of sessions: the     *)
(* head of the list is the next package or one that comes after it.        *)
(***************************************************************************)
THEOREM NeverStuck == Spec => []ReassemblyClean
  <1>1. TypeInv /\ ReassemblyClean /\ [Next]_vars => ReassemblyClean'
    BY CleanStep
  <1>. QED BY <1>1, CleanInit, TypeInvInvariant, PTL DEF Spec

-----------------------------------------------------------------------------
LEMMA RepliesInit == Init => RepliesOwed
  BY ReceiverAssumption DEF Init, ReceiverInit, RepliesOwed, ReceiverAssumption

LEMMA RepliesUnchanged ==
    ASSUME RepliesOwed, UNCHANGED <<accepting, receiving, receivingFor, status>>
    PROVE  RepliesOwed'
  BY DEF RepliesOwed

(* The process was not blocked, so nobody owes it anything. *)
LEMMA RepliesACCEPT ==
    ASSUME TypeInv, RepliesOwed, NEW f \in Ftps, TcpdACCEPT(f)
    PROVE  RepliesOwed'
  <1>0. ReceiverTypeOK
    BY DEF TypeInv, TypeOK
  <1>1. status[f] \in {"idle", "error"} /\ UNCHANGED <<receiving, receivingFor>>
    BY DEF TcpdACCEPT, Free
  <1>2. CASE /\ accepting = NoFtps /\ accepting' = f
             /\ status' = [status EXCEPT ![f] = "accept"]
    <2>1. \A g \in Ftps : status'[g] = IF g = f THEN "accept" ELSE status[g]
      BY <1>0, <1>2 DEF ReceiverTypeOK
    <2>. QED BY <1>1, <1>2, <2>1, ReceiverAssumption DEF RepliesOwed, ReceiverAssumption
  <1>3. CASE accepting' = accepting /\ status' = [status EXCEPT ![f] = "error"]
    <2>1. \A g \in Ftps : status'[g] = IF g = f THEN "error" ELSE status[g]
      BY <1>0, <1>3 DEF ReceiverTypeOK
    <2>. QED BY <1>1, <1>3, <2>1 DEF RepliesOwed
  <1>. QED BY <1>2, <1>3 DEF TcpdACCEPT

(* A request is noted only on a session that has none. *)
LEMMA RepliesRECV ==
    ASSUME TypeInv, RepliesOwed,
           NEW f \in Ftps, NEW x \in Session, NEW n \in RecvLens, TcpdRECV(f, x, n)
    PROVE  RepliesOwed'
  <1>0. ReceiverTypeOK
    BY DEF TypeInv, TypeOK
  <1>1. status[f] \in {"idle", "error"} /\ accepting' = accepting
    BY DEF TcpdRECV, Free
  <1>2. accepting # f /\ \A y \in Session : ~ (receiving[y] > 0 /\ receivingFor[y] = f)
    BY <1>1 DEF RepliesOwed
  <1>3. CASE Servable(x, n)
    <2>1. n > 0 /\ receiving[x] = 0
      BY <1>3 DEF Servable
    <2>2. \A g \in Ftps : status'[g] = IF g = f THEN "recv" ELSE status[g]
      BY <1>0, <1>3 DEF TcpdRECV, ReceiverTypeOK
    <2>3. \A y \in Session : /\ receiving'[y] = IF y = x THEN n ELSE receiving[y]
                             /\ receivingFor'[y] = IF y = x THEN f ELSE receivingFor[y]
      BY <1>0, <1>3 DEF TcpdRECV, ReceiverTypeOK
    <2>4. \A y \in Session, g \in Ftps :
            (receiving'[y] > 0 /\ receivingFor'[y] = g)
              <=> IF g = f THEN y = x ELSE receiving[y] > 0 /\ receivingFor[y] = g
      BY <1>2, <2>1, <2>3
    <2>. QED BY <1>1, <1>2, <2>2, <2>4 DEF RepliesOwed
  <1>4. CASE ~ Servable(x, n)
    <2>1. \A g \in Ftps : g # f => status'[g] = status[g]
      BY <1>0, <1>4 DEF TcpdRECV, ReceiverTypeOK
    <2>2. status'[f] \in {"idle", "error"}
      BY <1>0, <1>4 DEF TcpdRECV, ReceiverTypeOK
    <2>3. UNCHANGED <<receiving, receivingFor>>
      BY <1>4 DEF TcpdRECV
    <2>. QED BY <1>1, <1>2, <2>1, <2>2, <2>3 DEF RepliesOwed
  <1>. QED BY <1>3, <1>4

LEMMA RepliesAccept ==
    ASSUME TypeInv, RepliesOwed, SolveAccept
    PROVE  RepliesOwed'
  <1>0. ReceiverTypeOK
    BY DEF TypeInv, TypeOK
  <1>1. accepting \in Ftps /\ accepting' = NoFtps /\ UNCHANGED <<receiving, receivingFor>>
    BY <1>0 DEF SolveAccept, Acceptable, ReceiverTypeOK
  <1>2. status[accepting] = "accept"
    BY <1>1 DEF RepliesOwed
  <1>3. \A g \in Ftps : status'[g] = IF g = accepting THEN "idle" ELSE status[g]
    BY <1>0 DEF SolveAccept, ReceiverTypeOK
  <1>. QED BY <1>1, <1>2, <1>3, ReceiverAssumption DEF RepliesOwed, ReceiverAssumption

(* It waited for this session only. *)
LEMMA RepliesReply ==
    ASSUME TypeInv, RepliesOwed, NEW x \in Session, ReplyRecv(x)
    PROVE  RepliesOwed'
  <1>0. ReceiverTypeOK
    BY DEF TypeInv, TypeOK
  <1>1. receiving[x] > 0 /\ UNCHANGED <<accepting, receivingFor>>
    BY <1>0 DEF ReplyRecv, Filled, ReceiverTypeOK
  <1>2. \A y \in Session : receiving'[y] = IF y = x THEN 0 ELSE receiving[y]
    BY <1>0 DEF ReplyRecv, ReceiverTypeOK
  <1>3. \A g \in Ftps : status'[g] = IF g = receivingFor[x] THEN "idle" ELSE status[g]
    BY <1>0 DEF ReplyRecv, ReceiverTypeOK
  <1>4. \A y \in Session, g \in Ftps :
          (receiving'[y] > 0 /\ receivingFor'[y] = g)
            <=> y # x /\ receiving[y] > 0 /\ receivingFor[y] = g
    BY <1>1, <1>2
  <1>5. ASSUME NEW g \in Ftps, g = receivingFor[x]
        PROVE  /\ status[g] = "recv" /\ accepting # g
               /\ \A y \in Session : ~ (receiving'[y] > 0 /\ receivingFor'[y] = g)
    BY <1>1, <1>4, <1>5 DEF RepliesOwed
  <1>6. ASSUME NEW g \in Ftps, g # receivingFor[x]
        PROVE  \A y \in Session : (receiving'[y] > 0 /\ receivingFor'[y] = g)
                                 <=> receiving[y] > 0 /\ receivingFor[y] = g
    BY <1>4, <1>6
  <1>. QED BY <1>1, <1>3, <1>5, <1>6 DEF RepliesOwed

LEMMA RepliesStep ==
    ASSUME TypeInv, RepliesOwed, [Next]_vars
    PROVE  RepliesOwed'
  <1>1. CASE Sender \/ Timer \/ UNCHANGED vars
    <2>1. UNCHANGED <<accepting, receiving, receivingFor, status>>
      BY <1>1 DEF Sender, Timer, vars, receiverVars
    <2>. QED BY <2>1, RepliesUnchanged
  <1>2. ASSUME NEW f \in Ftps, FrontCall(f)
        PROVE  RepliesOwed'
    <2>1. CASE TcpdBIND(f)
      BY <2>1, RepliesUnchanged DEF TcpdBIND
    <2>. QED BY <1>2, <2>1, RepliesACCEPT, RepliesRECV DEF FrontCall
  <1>3. ASSUME NEW m \in Arrivals(dataNet), RecvData(m)
        PROVE  RepliesOwed'
    BY <1>3, RepliesUnchanged DEF RecvData
  <1>4. ASSUME NEW x \in Session, TakePackage(x) \/ TakePart(x) \/ RecvExits(x)
        PROVE  RepliesOwed'
    <2>1. UNCHANGED <<accepting, receiving, receivingFor, status>>
      BY <1>4 DEF TakePackage, TakePart, RecvExits
    <2>. QED BY <2>1, RepliesUnchanged
  <1>. QED
    BY <1>1, <1>2, <1>3, <1>4, RepliesAccept, RepliesReply
    DEF Next, Receiver, ReceiverNext, Callback

(***************************************************************************)
(* Every process that is blocked in ACCEPT or RECV is owed one answer and  *)
(* no other process is owed any, for any number of processes that share    *)
(* any number of sessions.                                                 *)
(***************************************************************************)
THEOREM OneAnswerEach == Spec => []RepliesOwed
  <1>1. TypeInv /\ RepliesOwed /\ [Next]_vars => RepliesOwed'
    BY RepliesStep
  <1>. QED BY <1>1, RepliesInit, TypeInvInvariant, PTL DEF Spec

-----------------------------------------------------------------------------
(***************************************************************************)
(* The strengthening.  What travels and what is kept under a session and a *)
(* number is the chunk of that number, and the bytes of every package the  *)
(* receiver says it has are there.                                         *)
(***************************************************************************)
DataIsTrue ==
    \A m \in dataNet : \A c \in Conn :
        m.session = SessionOf[c] => m.body = Chunks[c][m.seq + 1]

PackagesAreTrue ==
    \A c \in Conn : \A p \in rPackages[SessionOf[c]] : p.body = Chunks[c][p.seq + 1]

ReceivedIsHeld ==
    \A c \in Conn : \A s \in Nat :
        HasPackage(SessionOf[c], s) =>
            ToSet(Chunks[c][s + 1]) \subseteq HeldBytes(SessionOf[c])

BytesInv == DataIsTrue /\ PackagesAreTrue /\ ReceivedIsHeld

Uncut == \A x \in Session : ~ TakePart(x)

LEMMA ToSetConcat ==
    ASSUME NEW a \in Body, NEW b \in Body
    PROVE  ToSet(a \o b) = ToSet(a) \cup ToSet(b)
  <1>1. /\ DOMAIN (a \o b) = 1..Len(a) + Len(b)
        /\ \A i \in 1..Len(a) : (a \o b)[i] = a[i]
        /\ \A i \in 1..Len(b) : (a \o b)[Len(a) + i] = b[i]
        /\ Len(a) \in Nat /\ Len(b) \in Nat
        /\ DOMAIN a = 1..Len(a) /\ DOMAIN b = 1..Len(b)
    BY DEF Body
  <1>2. ASSUME NEW i \in DOMAIN (a \o b) PROVE (a \o b)[i] \in ToSet(a) \cup ToSet(b)
    <2>1. CASE i <= Len(a)
      <3>1. i \in DOMAIN a
        BY <1>1, <2>1
      <3>. QED BY <1>1, <3>1 DEF ToSet
    <2>2. CASE i > Len(a)
      <3>1. i - Len(a) \in 1..Len(b) /\ i = Len(a) + (i - Len(a))
        BY <1>1, <2>2
      <3>2. (a \o b)[i] = b[i - Len(a)]
        BY <1>1, <3>1
      <3>. QED BY <1>1, <3>1, <3>2 DEF ToSet
    <2>. QED BY <1>1, <2>1, <2>2
  <1>3. ASSUME NEW i \in DOMAIN a PROVE a[i] \in ToSet(a \o b)
    <2>1. i \in DOMAIN (a \o b) /\ (a \o b)[i] = a[i]
      BY <1>1
    <2>. QED BY <2>1 DEF ToSet
  <1>4. ASSUME NEW i \in DOMAIN b PROVE b[i] \in ToSet(a \o b)
    <2>1. Len(a) + i \in DOMAIN (a \o b) /\ (a \o b)[Len(a) + i] = b[i]
      BY <1>1
    <2>. QED BY <2>1 DEF ToSet
  <1>. QED BY <1>2, <1>3, <1>4 DEF ToSet

(* Steps that move no byte at the receiver. *)
LEMMA HeldUnchanged ==
    ASSUME BytesInv, UNCHANGED <<rBase, rPackages, recvBuffer, returned>>
    PROVE  PackagesAreTrue' /\ ReceivedIsHeld'
  BY DEF BytesInv, PackagesAreTrue, ReceivedIsHeld, HasPackage, HeldBytes

LEMMA BytesSender ==
    ASSUME DistinctSessions, TypeInv, BytesInv, Sender
    PROVE  BytesInv'
  <1>1. PackagesAreTrue' /\ ReceivedIsHeld'
    BY HeldUnchanged DEF Sender, receiverVars
  <1>2. ASSUME dataNet' = dataNet PROVE DataIsTrue'
    BY <1>2 DEF BytesInv, DataIsTrue
  <1>3. ASSUME NEW c \in Conn, SendPackage(c) PROVE DataIsTrue'
    <2>1. PICK s \in PendingPackages[c] :
            dataNet' \in Sent(dataNet, DataMessage(c, SessionOf[c], s, Chunks[c][s + 1]))
      BY <1>3 DEF SendPackage
    <2>2. ASSUME NEW m \in dataNet', NEW d \in Conn, m.session = SessionOf[d]
          PROVE  m.body = Chunks[d][m.seq + 1]
      <3>1. CASE m \in dataNet
        BY <2>2, <3>1 DEF BytesInv, DataIsTrue
      <3>2. CASE m = DataMessage(c, SessionOf[c], s, Chunks[c][s + 1])
        <4>1. m.session = SessionOf[c] /\ m.seq = s /\ m.body = Chunks[c][s + 1]
          BY <3>2 DEF DataMessage
        <4>2. c = d
          BY <2>2, <4>1 DEF DistinctSessions
        <4>. QED BY <4>1, <4>2
      <3>. QED BY <2>1, <3>1, <3>2 DEF Sent
    <2>. QED BY <2>2 DEF DataIsTrue
  <1>4. DataIsTrue'
    <2>1. ASSUME NEW c \in Conn,
                 \/ TcpdSOCKET(c) \/ TcpdCONNECT(c) \/ TcpdSEND(c)
                 \/ TcpdSENDExits(c) \/ RecvAck(c)
          PROVE  dataNet' = dataNet
      BY <2>1 DEF TcpdSOCKET, TcpdCONNECT, TcpdSEND, TcpdSENDExits, RecvAck, net
    <2>2. ASSUME Select \/ RecvTimer \/ UpdateMinSeq PROVE dataNet' = dataNet
      BY <2>2 DEF Select, RecvTimer, UpdateMinSeq, net
    <2>. QED BY <1>2, <1>3, <2>1, <2>2 DEF Sender, SenderNext, SenderStep
  <1>. QED BY <1>1, <1>4 DEF BytesInv

LEMMA BytesRecvData ==
    ASSUME DistinctSessions, TypeInv, BytesInv,
           NEW m \in Arrivals(dataNet), RecvData(m)
    PROVE  BytesInv'
  <1>. DEFINE y == m.session
              new == [seq |-> m.seq, body |-> m.body]
  <1>0. NetTypeOK /\ ReceiverTypeOK
    BY DEF TypeInv, TypeOK
  <1>1. m \in dataNet /\ m \in DataType
    BY <1>0, IntactData DEF RecvData, NetTypeOK
  <1>2. y \in Session /\ m.seq \in Nat
    BY <1>1 DEF DataType
  <1>3. DataIsTrue'
    BY DEF RecvData, Taken, BytesInv, DataIsTrue
  <1>4. UNCHANGED <<rBase, recvBuffer, returned>>
    BY DEF RecvData
  <1>5. CASE HasPackage(y, m.seq)
    BY <1>3, <1>4, <1>5, HeldUnchanged DEF RecvData, BytesInv
  <1>6. CASE ~ HasPackage(y, m.seq)
    <2>1. rPackages' = [rPackages EXCEPT ![y] = @ \cup {new}]
      BY <1>6 DEF RecvData
    <2>2. /\ rPackages'[y] = rPackages[y] \cup {new}
          /\ \A x \in Session : x # y => rPackages'[x] = rPackages[x]
      BY <1>0, <1>2, <2>1 DEF ReceiverTypeOK
    <2>3. \A c \in Conn : SessionOf[c] \in Session
      BY SenderAssumption DEF SenderAssumption
    <2>4. \A c \in Conn : SessionOf[c] = y => new.body = Chunks[c][new.seq + 1]
      BY <1>1 DEF BytesInv, DataIsTrue
    <2>5. PackagesAreTrue'
      BY <2>2, <2>3, <2>4 DEF BytesInv, PackagesAreTrue
    <2>6. ASSUME NEW c \in Conn, NEW s \in Nat, HasPackage(SessionOf[c], s)'
          PROVE  ToSet(Chunks[c][s + 1]) \subseteq HeldBytes(SessionOf[c])'
      <3>1. rPackages[SessionOf[c]] \subseteq rPackages'[SessionOf[c]]
        BY <2>2, <2>3
      <3>2. HeldBytes(SessionOf[c]) \subseteq HeldBytes(SessionOf[c])'
        BY <1>4, <3>1 DEF HeldBytes
      <3>3. CASE HasPackage(SessionOf[c], s)
        BY <3>2, <3>3 DEF BytesInv, ReceivedIsHeld
      <3>4. CASE SessionOf[c] = y /\ s = m.seq
        <4>1. new \in rPackages'[SessionOf[c]] /\ new.body = Chunks[c][s + 1]
          BY <2>2, <2>4, <3>4
        <4>. QED BY <4>1 DEF HeldBytes
      <3>. QED BY <1>4, <2>2, <2>3, <2>6, <3>3, <3>4 DEF HasPackage
    <2>. QED BY <1>3, <2>5, <2>6 DEF BytesInv, ReceivedIsHeld
  <1>. QED BY <1>5, <1>6

(* The first package becomes the end of the buffer. *)
LEMMA BytesTakePackage ==
    ASSUME TypeInv, BytesInv, NEW y \in Session, TakePackage(y)
    PROVE  BytesInv'
  <1>0. ReceiverTypeOK
    BY DEF TypeInv, TypeOK
  <1>1. PICK p \in rPackages[y] :
          /\ NextPackage(y, p)
          /\ recvBuffer' = [recvBuffer EXCEPT ![y] = @ \o p.body]
          /\ rPackages' = [rPackages EXCEPT ![y] = @ \ {p}]
    BY DEF TakePackage
  <1>2. /\ rBase' = [rBase EXCEPT ![y] = @ + 1]
        /\ returned' = returned /\ dataNet' = dataNet
    BY DEF TakePackage, net
  <1>3. /\ p \in [seq : Nat, body : Body] /\ recvBuffer[y] \in Body
        /\ rBase[y] \in Nat /\ p.seq = rBase[y]
    BY <1>0, <1>1 DEF ReceiverTypeOK, NextPackage
  <1>4. /\ rPackages'[y] = rPackages[y] \ {p}
        /\ recvBuffer'[y] = recvBuffer[y] \o p.body
        /\ rBase'[y] = rBase[y] + 1
        /\ \A x \in Session : x # y => /\ rPackages'[x] = rPackages[x]
                                       /\ recvBuffer'[x] = recvBuffer[x]
                                       /\ rBase'[x] = rBase[x]
    BY <1>0, <1>1, <1>2 DEF ReceiverTypeOK
  <1>5. \A c \in Conn : SessionOf[c] \in Session
    BY SenderAssumption DEF SenderAssumption
  <1>6. DataIsTrue' /\ PackagesAreTrue'
    BY <1>2, <1>4, <1>5 DEF BytesInv, DataIsTrue, PackagesAreTrue
  <1>7. HeldBytes(y) \subseteq HeldBytes(y)'
    <2>1. ToSet(recvBuffer'[y]) = ToSet(recvBuffer[y]) \cup ToSet(p.body)
      BY <1>3, <1>4, ToSetConcat
    <2>2. ASSUME NEW b \in HeldBytes(y) PROVE b \in HeldBytes(y)'
      <3>1. CASE b \in ToSet(recvBuffer[y]) \cup ToSet(returned[y])
        BY <1>2, <2>1, <3>1 DEF HeldBytes
      <3>2. ASSUME NEW q \in rPackages[y], b \in ToSet(q.body)
            PROVE  b \in HeldBytes(y)'
        <4>1. CASE q = p
          BY <2>1, <3>2, <4>1 DEF HeldBytes
        <4>2. CASE q # p
          BY <1>4, <3>2, <4>2 DEF HeldBytes
        <4>. QED BY <4>1, <4>2
      <3>. QED BY <2>2, <3>1, <3>2 DEF HeldBytes
    <2>. QED BY <2>2
  <1>8. ASSUME NEW c \in Conn, NEW s \in Nat, HasPackage(SessionOf[c], s)'
        PROVE  ToSet(Chunks[c][s + 1]) \subseteq HeldBytes(SessionOf[c])'
    <2>1. HasPackage(SessionOf[c], s)
      <3>1. CASE SessionOf[c] = y
        BY <1>3, <1>4, <1>8, <3>1 DEF HasPackage
      <3>2. CASE SessionOf[c] # y
        BY <1>4, <1>5, <1>8, <3>2 DEF HasPackage
      <3>. QED BY <3>1, <3>2
    <2>2. HeldBytes(SessionOf[c]) \subseteq HeldBytes(SessionOf[c])'
      <3>1. CASE SessionOf[c] = y
        BY <1>7, <3>1
      <3>2. CASE SessionOf[c] # y
        BY <1>2, <1>4, <1>5, <3>2 DEF HeldBytes
      <3>. QED BY <3>1, <3>2
    <2>. QED BY <2>1, <2>2 DEF BytesInv, ReceivedIsHeld
  <1>. QED BY <1>6, <1>8 DEF BytesInv, ReceivedIsHeld

(* The buffer becomes the end of what the session's RECVs returned. *)
LEMMA BytesReplyRecv ==
    ASSUME TypeInv, BytesInv, NEW y \in Session, ReplyRecv(y)
    PROVE  BytesInv'
  <1>0. ReceiverTypeOK
    BY DEF TypeInv, TypeOK
  <1>1. /\ returned' = [returned EXCEPT ![y] = @ \o recvBuffer[y]]
        /\ recvBuffer' = [recvBuffer EXCEPT ![y] = <<>>]
        /\ UNCHANGED <<rBase, rPackages, dataNet>>
    BY DEF ReplyRecv, net
  <1>2. /\ returned'[y] = returned[y] \o recvBuffer[y]
        /\ \A x \in Session : x # y => /\ returned'[x] = returned[x]
                                       /\ recvBuffer'[x] = recvBuffer[x]
    BY <1>0, <1>1 DEF ReceiverTypeOK
  <1>3. ToSet(returned'[y]) = ToSet(returned[y]) \cup ToSet(recvBuffer[y])
    BY <1>0, <1>2, ToSetConcat DEF ReceiverTypeOK
  <1>4. \A x \in Session : HeldBytes(x) \subseteq HeldBytes(x)'
    <2>1. HeldBytes(y) \subseteq HeldBytes(y)'
      BY <1>1, <1>3 DEF HeldBytes
    <2>2. ASSUME NEW x \in Session, x # y PROVE HeldBytes(x) \subseteq HeldBytes(x)'
      BY <1>1, <1>2, <2>2 DEF HeldBytes
    <2>. QED BY <2>1, <2>2
  <1>5. \A c \in Conn : SessionOf[c] \in Session
    BY SenderAssumption DEF SenderAssumption
  <1>6. DataIsTrue' /\ PackagesAreTrue'
    BY <1>1 DEF BytesInv, DataIsTrue, PackagesAreTrue
  <1>7. ASSUME NEW c \in Conn, NEW s \in Nat, HasPackage(SessionOf[c], s)'
        PROVE  ToSet(Chunks[c][s + 1]) \subseteq HeldBytes(SessionOf[c])'
    <2>1. HasPackage(SessionOf[c], s)
      BY <1>1, <1>7 DEF HasPackage
    <2>. QED BY <1>4, <1>5, <2>1 DEF BytesInv, ReceivedIsHeld
  <1>. QED BY <1>6, <1>7 DEF BytesInv, ReceivedIsHeld

LEMMA BytesInit == Init => BytesInv
  BY SenderAssumption
  DEF Init, NetInit, ReceiverInit, BytesInv, DataIsTrue, PackagesAreTrue,
      ReceivedIsHeld, HasPackage, SenderAssumption

LEMMA BytesStep ==
    ASSUME DistinctSessions, TypeInv, BytesInv, [Next]_vars, [Uncut]_vars
    PROVE  BytesInv'
  <1>. DEFINE still == <<dataNet, rBase, rPackages, recvBuffer, returned>>
  <1>1. ASSUME UNCHANGED still PROVE BytesInv'
    BY <1>1, HeldUnchanged DEF BytesInv, DataIsTrue
  <1>2. ASSUME UNCHANGED vars PROVE UNCHANGED still
    BY <1>2 DEF vars, net, receiverVars
  <1>3. ASSUME Timer PROVE UNCHANGED still
    BY <1>3 DEF Timer, net, receiverVars
  <1>4. ASSUME NEW f \in Ftps, FrontCall(f) PROVE UNCHANGED still
    BY <1>4 DEF FrontCall, TcpdBIND, TcpdACCEPT, TcpdRECV, net
  <1>5. ASSUME SolveAccept PROVE UNCHANGED still
    BY <1>5 DEF SolveAccept, net
  <1>6. ASSUME NEW x \in Session, RecvExits(x) PROVE UNCHANGED still
    BY <1>6 DEF RecvExits, net
  <1>7. ASSUME NEW x \in Session, TakePart(x) PROVE BytesInv'
    BY <1>1, <1>2, <1>7 DEF Uncut
  <1>. QED
    BY <1>1, <1>2, <1>3, <1>4, <1>5, <1>6, <1>7, BytesSender, BytesRecvData,
       BytesTakePackage, BytesReplyRecv
    DEF Next, Receiver, ReceiverNext, Callback

(***************************************************************************)
(* What SEND promised of an acknowledged package: as long as the lengths   *)
(* of the requests and of the packages fit, every byte of it was returned  *)
(* by a RECV or is still held by the receiving tcpd, for any number of     *)
(* connections and whatever troll does.                                    *)
(***************************************************************************)
THEOREM BytesKept ==
    ASSUME DistinctSessions
    PROVE  Spec /\ [][Uncut]_vars => []AckedBytesKept
  <1>1. Init => BytesInv
    BY BytesInit
  <1>2. TypeInv /\ BytesInv /\ [Next]_vars /\ [Uncut]_vars => BytesInv'
    BY BytesStep
  <1>3. TypeInv /\ BytesInv /\ AckedIsReceived => AckedBytesKept
    BY DEF TypeInv, TypeOK, SenderTypeOK, BytesInv, ReceivedIsHeld, AckedIsReceived,
           AckedBytesKept
  <1>. QED
    BY <1>1, <1>2, <1>3, TypeInvInvariant, AckedWasReceived, PTL DEF Spec

-----------------------------------------------------------------------------
(***************************************************************************)
(* The condition holds of processes that keep in step, as ftpc and ftps    *)
(* do: ftpc SENDs 4 bytes, 20 bytes, and the file in blocks of BUF_LEN     *)
(* with a shorter last one (ftpc.c:87, 96, 117), and ftps RECVs the same   *)
(* lengths in the same order (ftps.c:84, 93, 109, 111).                    *)
(***************************************************************************)
AsksForNext(x, n) ==
    \E c \in Conn : /\ SessionOf[c] = x
                    /\ rBase[x] < Len(Chunks[c])
                    /\ n = Len(Chunks[c][rBase[x] + 1])

(* Of the steps: a RECV that waits asks for as much as the next SEND gave. *)
InStep ==
    \A f \in Ftps, x \in Session, n \in RecvLens :
        TcpdRECV(f, x, n) /\ Servable(x, n) => AsksForNext(x, n)

(* A session has no request, one for the next package, or one that package *)
(* has just filled.                                                        *)
InStepInv ==
    \A x \in Session :
        \/ receiving[x] = 0 /\ recvBuffer[x] = <<>>
        \/ recvBuffer[x] = <<>> /\ AsksForNext(x, receiving[x])
        \/ receiving[x] > 0 /\ Len(recvBuffer[x]) = receiving[x]

(* So the next package is as long as the request. *)
LEMMA NextFits ==
    ASSUME TypeInv, BytesInv, InStepInv, NEW x \in Session, Filling(x),
           NEW p \in rPackages[x], NextPackage(x, p)
    PROVE  recvBuffer[x] = <<>> /\ Len(p.body) = receiving[x]
  <1>1. /\ recvBuffer[x] \in Seq(Nat) /\ receiving[x] \in Nat
        /\ Len(recvBuffer[x]) < receiving[x] /\ p.seq = rBase[x]
    BY DEF TypeInv, TypeOK, ReceiverTypeOK, Body, Filling, NextPackage
  <1>2. recvBuffer[x] = <<>> /\ AsksForNext(x, receiving[x])
    <2>1. Len(recvBuffer[x]) \in Nat
      BY <1>1
    <2>. QED BY <1>1, <2>1 DEF InStepInv
  <1>3. PICK c \in Conn : SessionOf[c] = x /\ receiving[x] = Len(Chunks[c][rBase[x] + 1])
    BY <1>2 DEF AsksForNext
  <1>4. p.body = Chunks[c][p.seq + 1]
    BY <1>3 DEF BytesInv, PackagesAreTrue
  <1>. QED BY <1>1, <1>2, <1>3, <1>4

LEMMA InStepIsUncut ==
    ASSUME TypeInv, BytesInv, InStepInv
    PROVE  Uncut
  <1>1. SUFFICES ASSUME NEW x \in Session, TakePart(x) PROVE FALSE
    BY DEF Uncut
  <1>2. PICK p \in rPackages[x] :
          NextPackage(x, p) /\ Len(p.body) > receiving[x] - Len(recvBuffer[x])
    BY <1>1 DEF TakePart
  <1>3. recvBuffer[x] = <<>> /\ Len(p.body) = receiving[x]
    BY <1>1, <1>2, NextFits DEF TakePart
  <1>4. receiving[x] \in Nat
    BY DEF TypeInv, TypeOK, ReceiverTypeOK
  <1>. QED BY <1>2, <1>3, <1>4

(* A RECV keeps the processes in step, and the package it waits for.       *)
LEMMA InStepRECV ==
    ASSUME TypeInv, InStepInv, NEW f \in Ftps, NEW y \in Session, NEW n \in RecvLens,
           TcpdRECV(f, y, n), [InStep]_vars
    PROVE  InStepInv'
  <1>0. ReceiverTypeOK
    BY DEF TypeInv, TypeOK
  <1>1. UNCHANGED <<rBase, recvBuffer>>
    BY DEF TcpdRECV
  <1>2. CASE Servable(y, n)
    <2>1. receiving' = [receiving EXCEPT ![y] = n] /\ receiving[y] = 0 /\ n > 0
      BY <1>2 DEF TcpdRECV, Servable
    <2>2. receiving'[y] = n /\ \A x \in Session : x # y => receiving'[x] = receiving[x]
      BY <1>0, <2>1 DEF ReceiverTypeOK
    <2>3. vars' # vars
      BY <2>1, <2>2 DEF vars, receiverVars
    <2>4. AsksForNext(y, n)
      BY <1>2, <2>3 DEF InStep
    <2>5. recvBuffer[y] = <<>>
      <3>1. recvBuffer[y] \in Seq(Nat)
        BY <1>0 DEF ReceiverTypeOK, Body
      <3>. QED BY <2>1, <3>1 DEF InStepInv
    <2>6. recvBuffer'[y] = <<>> /\ AsksForNext(y, receiving[y])'
      BY <1>1, <2>2, <2>4, <2>5 DEF AsksForNext
    <2>. QED BY <1>1, <2>2, <2>6 DEF InStepInv, AsksForNext
  <1>3. CASE ~ Servable(y, n)
    <2>1. receiving' = receiving
      BY <1>3 DEF TcpdRECV
    <2>. QED BY <1>1, <2>1 DEF InStepInv, AsksForNext
  <1>. QED BY <1>2, <1>3

LEMMA InStepTakePackage ==
    ASSUME TypeInv, BytesInv, InStepInv, NEW y \in Session, TakePackage(y)
    PROVE  InStepInv'
  <1>0. ReceiverTypeOK
    BY DEF TypeInv, TypeOK
  <1>1. PICK p \in rPackages[y] :
          NextPackage(y, p) /\ recvBuffer' = [recvBuffer EXCEPT ![y] = @ \o p.body]
    BY DEF TakePackage
  <1>2. /\ rBase' = [rBase EXCEPT ![y] = @ + 1] /\ receiving' = receiving
        /\ Len(recvBuffer[y]) < receiving[y]
    BY DEF TakePackage, Filling
  <1>3. recvBuffer[y] = <<>> /\ Len(p.body) = receiving[y]
    BY <1>1, NextFits DEF TakePackage
  <1>4. p.body \in Seq(Nat) /\ receiving[y] \in Nat
    BY <1>0 DEF ReceiverTypeOK, Body
  <1>5. recvBuffer'[y] = p.body
    <2>1. <<>> \o p.body = p.body
      BY <1>4
    <2>. QED BY <1>0, <1>1, <1>3, <2>1 DEF ReceiverTypeOK
  <1>6. receiving'[y] > 0 /\ Len(recvBuffer'[y]) = receiving'[y]
    <2>1. Len(recvBuffer[y]) = 0
      BY <1>3
    <2>. QED BY <1>2, <1>3, <1>4, <1>5, <2>1
  <1>7. ASSUME NEW x \in Session, x # y
        PROVE  UNCHANGED <<recvBuffer[x], receiving[x], rBase[x]>>
    BY <1>0, <1>1, <1>2, <1>7 DEF ReceiverTypeOK
  <1>. QED BY <1>6, <1>7 DEF InStepInv, AsksForNext

LEMMA InStepStep ==
    ASSUME TypeInv, BytesInv, InStepInv, [Next]_vars, [InStep]_vars
    PROVE  InStepInv'
  <1>. DEFINE still == <<rBase, receiving, recvBuffer>>
  <1>0. ReceiverTypeOK
    BY DEF TypeInv, TypeOK
  <1>1. ASSUME UNCHANGED still PROVE InStepInv'
    BY <1>1 DEF InStepInv, AsksForNext
  <1>2. ASSUME UNCHANGED vars \/ Timer \/ Sender PROVE UNCHANGED still
    BY <1>2 DEF vars, Timer, Sender, receiverVars
  <1>3. ASSUME NEW f \in Ftps, FrontCall(f) PROVE InStepInv'
    <2>1. ASSUME TcpdBIND(f) \/ TcpdACCEPT(f) PROVE UNCHANGED still
      BY <2>1 DEF TcpdBIND, TcpdACCEPT
    <2>. QED BY <1>1, <1>3, <2>1, InStepRECV DEF FrontCall
  <1>4. ASSUME NEW m \in Arrivals(dataNet), RecvData(m) PROVE UNCHANGED still
    BY <1>4 DEF RecvData
  <1>5. ASSUME SolveAccept \/ \E x \in Session : RecvExits(x) PROVE UNCHANGED still
    BY <1>5 DEF SolveAccept, RecvExits
  <1>6. ASSUME NEW y \in Session, ReplyRecv(y) PROVE InStepInv'
    <2>1. /\ recvBuffer' = [recvBuffer EXCEPT ![y] = <<>>]
          /\ receiving' = [receiving EXCEPT ![y] = 0] /\ rBase' = rBase
      BY <1>6 DEF ReplyRecv
    <2>. QED BY <1>0, <2>1 DEF ReceiverTypeOK, InStepInv, AsksForNext
  <1>7. ASSUME NEW x \in Session, TakePart(x) PROVE FALSE
    BY <1>7, InStepIsUncut DEF Uncut
  <1>. QED
    BY <1>1, <1>2, <1>3, <1>4, <1>5, <1>6, <1>7, InStepTakePackage
    DEF Next, Receiver, ReceiverNext, Callback

LEMMA InStepUncut ==
    ASSUME DistinctSessions
    PROVE  Spec /\ [][InStep]_vars => [][Uncut]_vars
  <1>1. Init => BytesInv /\ InStepInv
    BY BytesInit DEF Init, ReceiverInit, InStepInv
  <1>2. TypeInv /\ BytesInv /\ InStepInv => Uncut
    BY InStepIsUncut
  <1>3. TypeInv /\ BytesInv /\ [Next]_vars /\ [Uncut]_vars => BytesInv'
    BY BytesStep
  <1>4. TypeInv /\ BytesInv /\ InStepInv /\ [Next]_vars /\ [InStep]_vars => InStepInv'
    BY InStepStep
  <1>. QED BY <1>1, <1>2, <1>3, <1>4, TypeInvInvariant, PTL DEF Spec

(***************************************************************************)
(* So no byte of an acknowledged package is ever lost to processes that    *)
(* keep in step, whatever the lengths and whatever troll does.             *)
(***************************************************************************)
THEOREM InStepKept ==
    ASSUME DistinctSessions
    PROVE  Spec /\ [][InStep]_vars => []AckedBytesKept
  BY InStepUncut, BytesKept, PTL

-----------------------------------------------------------------------------
(***************************************************************************)
(* The refinement of ByteStream.  What was sent are the first Base chunks; *)
(* what RECVs returned, with what the buffer holds, are the first rBase of *)
(* them, as nothing travels under a number that no SEND used.              *)
(***************************************************************************)
Flat(c, n) == FlattenSeq(SubSeq(Chunks[c], 1, n))

TravelsSent ==
    \A m \in dataNet : \A c \in Conn : m.session = SessionOf[c] => m.seq < Base[c]

PackagesSent ==
    \A c \in Conn : \A p \in rPackages[SessionOf[c]] : p.seq < Base[c]

Assembled ==
    \A c \in Conn : LET x == SessionOf[c] IN
        /\ rBase[x] <= Base[c]
        /\ returned[x] \o recvBuffer[x] = Flat(c, rBase[x])

StreamInv == TravelsSent /\ PackagesSent /\ Assembled

LEMMA FlatStep ==
    ASSUME TypeInv, NEW c \in Conn, NEW n \in Nat, n < Len(Chunks[c])
    PROVE  /\ Flat(c, n) \in Body /\ Chunks[c][n + 1] \in Body
           /\ Flat(c, n + 1) = Flat(c, n) \o Chunks[c][n + 1]
  <1>1. Chunks[c] \in Seq(Text(Nat))
    BY SenderAssumption DEF SenderAssumption, Body, Text
  <1>2. Chunks[c][n + 1] \in Text(Nat)
    BY <1>1
  <1>. QED BY <1>1, <1>2, FlattenGrows DEF Flat, Text, Body

LEMMA FlatPrefix ==
    ASSUME NEW c \in Conn, NEW n \in Nat, NEW m \in Nat, n <= m, m <= Len(Chunks[c])
    PROVE  /\ Flat(c, n) \in Body
           /\ \E t \in Body : Flat(c, m) = Flat(c, n) \o t
  <1>1. Chunks[c] \in Seq(Text(Nat))
    BY SenderAssumption DEF SenderAssumption, Body, Text
  <1>2. m \in n..Len(Chunks[c]) /\ n <= Len(Chunks[c])
    BY <1>1
  <1>. QED BY <1>1, <1>2, FlattenBeginning DEF Flat, Text, Body

LEMMA BodiesAssociate == \A a, b, d \in Body : (a \o b) \o d = a \o (b \o d)
  <1>1. \A a, b, d \in Text(Nat) : (a \o b) \o d = a \o (b \o d)
    BY TextsAssociate
  <1>2. Body = Text(Nat)
    BY DEF Body, Text
  <1>. QED BY <1>1, <1>2

(* IsPrefix of the instance is the one used here. *)
LEMMA PrefixSame == \A s, t : Stream!IsPrefix(s, t) <=> IsPrefix(s, t)
  BY Zenon DEF Stream!IsPrefix, IsPrefix

LEMMA SessionOfType == \A c \in Conn : SessionOf[c] \in Session
  BY SenderAssumption DEF SenderAssumption

(* No connection starts again, so that no number is used twice.            *)
LEMMA BaseSteps ==
    ASSUME TypeInv, BufferInv, [Next]_vars
    PROVE  \/ Base' = Base
           \/ \E c \in Conn :
                /\ Base[c] < Len(Chunks[c])
                /\ Base' = [Base EXCEPT ![c] = @ + 1]
                /\ UNCHANGED <<net, receiverVars>>
  <1>0. SenderTypeOK
    BY DEF TypeInv, TypeOK
  <1>1. CASE Receiver \/ Timer \/ UNCHANGED vars
    BY <1>1 DEF Receiver, Timer, vars, senderVars, senderTables
  <1>2. CASE Select \/ RecvTimer \/ UpdateMinSeq
    BY <1>2 DEF Select, RecvTimer, UpdateMinSeq, senderTables
  <1>3. ASSUME NEW c \in Conn, TcpdCONNECT(c) PROVE Base' = Base
    <2>1. Base[c] = 0
      BY <1>3 DEF TcpdCONNECT, Handling, BufferInv, ConnectOnce, FreshConnections
    <2>. QED BY <1>0, <1>3, <2>1 DEF TcpdCONNECT, SenderTypeOK
  <1>4. ASSUME NEW c \in Conn, TcpdSEND(c), Sender
        PROVE  /\ Base[c] < Len(Chunks[c])
               /\ Base' = [Base EXCEPT ![c] = @ + 1]
               /\ UNCHANGED <<net, receiverVars>>
    BY <1>4 DEF TcpdSEND, Handling, TypeInv, SendPossible, Sender
  <1>5. ASSUME NEW c \in Conn,
               TcpdSOCKET(c) \/ TcpdSENDExits(c) \/ RecvAck(c) \/ SendPackage(c)
        PROVE  Base' = Base
    BY <1>5 DEF TcpdSOCKET, TcpdSENDExits, RecvAck, SendPackage, senderTables
  <1>. QED
    BY <1>1, <1>2, <1>3, <1>4, <1>5 DEF Next, Sender, SenderNext, SenderStep

(* A step of the sending daemon. *)
LEMMA StreamSender ==
    ASSUME DistinctSessions, TypeInv, BufferInv, StreamInv, Sender
    PROVE  StreamInv'
  <1>0. SenderTypeOK /\ ReceiverTypeOK /\ NetTypeOK
    BY DEF TypeInv, TypeOK
  <1>1. UNCHANGED <<rBase, rPackages, recvBuffer, returned>>
    BY DEF Sender, receiverVars
  <1>2. ASSUME NEW c \in Conn
        PROVE  Base[c] \in Nat /\ Base'[c] \in Nat /\ Base[c] <= Base'[c]
    <2>1. Next
      BY DEF Next
    <2>2. CASE Base' = Base
      BY <1>0, <2>2 DEF SenderTypeOK
    <2>3. ASSUME NEW d \in Conn, Base' = [Base EXCEPT ![d] = @ + 1]
          PROVE  Base[c] \in Nat /\ Base'[c] \in Nat /\ Base[c] <= Base'[c]
      BY <1>0, <2>3 DEF SenderTypeOK
    <2>. QED BY <2>1, <2>2, <2>3, BaseSteps
  <1>3. PackagesSent'
    <2>1. ASSUME NEW c \in Conn, NEW p \in rPackages'[SessionOf[c]] PROVE p.seq < Base'[c]
      <3>1. p.seq < Base[c]
        BY <1>1, <2>1 DEF StreamInv, PackagesSent
      <3>2. p.seq \in Nat
        BY <1>0, <1>1, <2>1, SessionOfType DEF ReceiverTypeOK
      <3>. QED BY <1>2, <3>1, <3>2
    <2>. QED BY <2>1 DEF PackagesSent
  <1>4. Assembled'
    <2>1. ASSUME NEW c \in Conn
          PROVE  /\ rBase'[SessionOf[c]] <= Base'[c]
                 /\ returned'[SessionOf[c]] \o recvBuffer'[SessionOf[c]]
                      = Flat(c, rBase'[SessionOf[c]])
      <3>1. /\ rBase[SessionOf[c]] <= Base[c]
            /\ returned[SessionOf[c]] \o recvBuffer[SessionOf[c]]
                 = Flat(c, rBase[SessionOf[c]])
        BY DEF StreamInv, Assembled
      <3>2. rBase[SessionOf[c]] \in Nat
        BY <1>0, SessionOfType DEF ReceiverTypeOK
      <3>. QED BY <1>1, <1>2, <3>1, <3>2
    <2>. QED BY <2>1 DEF Assembled
  <1>5. TravelsSent'
    <2>1. ASSUME dataNet' = dataNet PROVE TravelsSent'
      <3>1. ASSUME NEW m \in dataNet, NEW c \in Conn, m.session = SessionOf[c]
            PROVE  m.seq < Base'[c]
        <4>1. m.seq < Base[c] /\ m.seq \in Nat
          BY <1>0, <3>1 DEF StreamInv, TravelsSent, NetTypeOK, DataType
        <4>. QED BY <1>2, <4>1
      <3>. QED BY <2>1, <3>1 DEF TravelsSent
    <2>2. ASSUME NEW d \in Conn, SendPackage(d) PROVE TravelsSent'
      <3>1. PICK s \in PendingPackages[d] :
              dataNet' \in Sent(dataNet, DataMessage(d, SessionOf[d], s, Chunks[d][s + 1]))
        BY <2>2 DEF SendPackage
      <3>2. s < Base[d] /\ Base' = Base
        BY <2>2 DEF SendPackage, TypeInv, BufferedWereSent, Buffered
      <3>3. ASSUME NEW m \in dataNet', NEW c \in Conn, m.session = SessionOf[c]
            PROVE  m.seq < Base[c]
        <4>1. CASE m \in dataNet
          BY <3>3, <4>1 DEF StreamInv, TravelsSent
        <4>2. CASE m = DataMessage(d, SessionOf[d], s, Chunks[d][s + 1])
          <5>1. m.session = SessionOf[d] /\ m.seq = s
            BY <4>2 DEF DataMessage
          <5>2. c = d
            BY <3>3, <5>1 DEF DistinctSessions
          <5>. QED BY <3>2, <5>1, <5>2
        <4>. QED BY <3>1, <4>1, <4>2 DEF Sent
      <3>. QED BY <3>2, <3>3 DEF TravelsSent
    <2>3. ASSUME NEW c \in Conn,
                 \/ TcpdSOCKET(c) \/ TcpdCONNECT(c) \/ TcpdSEND(c)
                 \/ TcpdSENDExits(c) \/ RecvAck(c)
          PROVE  dataNet' = dataNet
      BY <2>3 DEF TcpdSOCKET, TcpdCONNECT, TcpdSEND, TcpdSENDExits, RecvAck, net
    <2>4. ASSUME Select \/ RecvTimer \/ UpdateMinSeq PROVE dataNet' = dataNet
      BY <2>4 DEF Select, RecvTimer, UpdateMinSeq, net
    <2>. QED BY <2>1, <2>2, <2>3, <2>4 DEF Sender, SenderNext, SenderStep
  <1>. QED BY <1>3, <1>4, <1>5 DEF StreamInv

(* A datagram arrives: its package is the one that travelled. *)
LEMMA StreamRecvData ==
    ASSUME TypeInv, StreamInv, Base' = Base,
           NEW m \in Arrivals(dataNet), RecvData(m)
    PROVE  StreamInv'
  <1>0. NetTypeOK /\ ReceiverTypeOK
    BY DEF TypeInv, TypeOK
  <1>1. m \in dataNet /\ m \in DataType
    BY <1>0, IntactData DEF RecvData, NetTypeOK
  <1>2. dataNet' \subseteq dataNet /\ UNCHANGED <<rBase, recvBuffer, returned>>
    BY DEF RecvData, Taken
  <1>3. TravelsSent' /\ Assembled'
    BY <1>2 DEF StreamInv, TravelsSent, Assembled
  <1>4. ASSUME NEW c \in Conn, NEW p \in rPackages'[SessionOf[c]] PROVE p.seq < Base'[c]
    <2>1. \/ p \in rPackages[SessionOf[c]]
          \/ SessionOf[c] = m.session /\ p = [seq |-> m.seq, body |-> m.body]
      BY <1>0, <1>1, <1>4, SessionOfType DEF RecvData, ReceiverTypeOK, DataType
    <2>. QED BY <1>1, <2>1 DEF StreamInv, TravelsSent, PackagesSent
  <1>. QED BY <1>3, <1>4 DEF StreamInv, PackagesSent

(* The buffer grows by the next chunk. *)
LEMMA StreamTakePackage ==
    ASSUME TypeInv, BytesInv, StreamInv, Base' = Base,
           NEW y \in Session, TakePackage(y)
    PROVE  StreamInv'
  <1>0. ReceiverTypeOK /\ SenderTypeOK
    BY DEF TypeInv, TypeOK
  <1>1. PICK p \in rPackages[y] :
          /\ NextPackage(y, p)
          /\ recvBuffer' = [recvBuffer EXCEPT ![y] = @ \o p.body]
          /\ rPackages' = [rPackages EXCEPT ![y] = @ \ {p}]
    BY DEF TakePackage
  <1>2. /\ rBase' = [rBase EXCEPT ![y] = @ + 1]
        /\ returned' = returned /\ dataNet' = dataNet
    BY DEF TakePackage, net
  <1>3. /\ p \in [seq : Nat, body : Body] /\ p.seq = rBase[y]
        /\ recvBuffer[y] \in Body /\ returned[y] \in Body
    BY <1>0, <1>1 DEF ReceiverTypeOK, NextPackage
  <1>4. /\ rPackages'[y] = rPackages[y] \ {p}
        /\ recvBuffer'[y] = recvBuffer[y] \o p.body
        /\ rBase'[y] = rBase[y] + 1
        /\ \A x \in Session : x # y => /\ rPackages'[x] = rPackages[x]
                                       /\ recvBuffer'[x] = recvBuffer[x]
                                       /\ rBase'[x] = rBase[x]
    BY <1>0, <1>1, <1>2 DEF ReceiverTypeOK
  <1>5. TravelsSent' /\ PackagesSent'
    BY <1>2, <1>4, SessionOfType DEF StreamInv, TravelsSent, PackagesSent
  <1>6. ASSUME NEW c \in Conn
        PROVE  /\ rBase'[SessionOf[c]] <= Base'[c]
               /\ returned'[SessionOf[c]] \o recvBuffer'[SessionOf[c]]
                    = Flat(c, rBase'[SessionOf[c]])
    <2>1. CASE SessionOf[c] # y
      BY <1>2, <1>4, <2>1, SessionOfType DEF StreamInv, Assembled
    <2>2. CASE SessionOf[c] = y
      <3>1. /\ p.seq < Base[c] /\ p.body = Chunks[c][p.seq + 1]
            /\ returned[y] \o recvBuffer[y] = Flat(c, rBase[y])
        BY <2>2 DEF StreamInv, PackagesSent, Assembled, BytesInv, PackagesAreTrue
      <3>2. Base[c] \in Nat /\ Base[c] <= Len(Chunks[c]) /\ Len(Chunks[c]) \in Nat
        BY <1>0, SenderAssumption DEF SenderTypeOK, TypeInv, BufferedWereSent, SenderAssumption
      <3>3. rBase[y] \in Nat /\ rBase[y] < Base[c] /\ rBase[y] < Len(Chunks[c])
        BY <1>0, <1>3, <3>1, <3>2 DEF ReceiverTypeOK
      <3>4. /\ p.body \in Body
            /\ Flat(c, rBase[y] + 1) = Flat(c, rBase[y]) \o p.body
        BY <1>3, <3>1, <3>3, FlatStep
      <3>5. \A d \in Body : (returned[y] \o recvBuffer[y]) \o d
                           = returned[y] \o (recvBuffer[y] \o d)
        BY <1>3, BodiesAssociate
      <3>6. (returned[y] \o recvBuffer[y]) \o p.body
              = returned[y] \o (recvBuffer[y] \o p.body)
        BY <3>4, <3>5
      <3>7. returned'[y] \o recvBuffer'[y] = Flat(c, rBase'[y])
        BY <1>2, <1>4, <3>1, <3>4, <3>6, Zenon
      <3>8. rBase'[y] <= Base'[c]
        BY <1>4, <3>2, <3>3
      <3>. QED BY <2>2, <3>7, <3>8
    <2>. QED BY <2>1, <2>2
  <1>. QED BY <1>5, <1>6 DEF StreamInv, Assembled

(* The buffer is returned. *)
LEMMA StreamReplyRecv ==
    ASSUME TypeInv, StreamInv, Base' = Base, NEW y \in Session, ReplyRecv(y)
    PROVE  StreamInv'
  <1>0. ReceiverTypeOK
    BY DEF TypeInv, TypeOK
  <1>1. /\ returned' = [returned EXCEPT ![y] = @ \o recvBuffer[y]]
        /\ recvBuffer' = [recvBuffer EXCEPT ![y] = <<>>]
        /\ UNCHANGED <<rBase, rPackages, dataNet>>
    BY DEF ReplyRecv, net
  <1>2. /\ returned'[y] = returned[y] \o recvBuffer[y] /\ recvBuffer'[y] = <<>>
        /\ \A x \in Session : x # y => /\ returned'[x] = returned[x]
                                       /\ recvBuffer'[x] = recvBuffer[x]
    BY <1>0, <1>1 DEF ReceiverTypeOK
  <1>3. (returned[y] \o recvBuffer[y]) \o <<>> = returned[y] \o recvBuffer[y]
    <2>1. returned[y] \in Text(Nat) /\ recvBuffer[y] \in Text(Nat)
      BY <1>0 DEF ReceiverTypeOK, Body, Text
    <2>. QED BY <2>1, Texts
  <1>4. \A x \in Session : returned'[x] \o recvBuffer'[x] = returned[x] \o recvBuffer[x]
    BY <1>2, <1>3
  <1>5. Assembled'
    BY <1>1, <1>4, SessionOfType DEF StreamInv, Assembled
  <1>. QED BY <1>1, <1>5 DEF StreamInv, TravelsSent, PackagesSent

LEMMA StreamStep ==
    ASSUME DistinctSessions, TypeInv, BufferInv, BytesInv, StreamInv,
           [Next]_vars, [Uncut]_vars
    PROVE  StreamInv'
  <1>. DEFINE still == <<dataNet, Base, rBase, rPackages, recvBuffer, returned>>
  <1>1. ASSUME UNCHANGED still PROVE StreamInv'
    BY <1>1 DEF StreamInv, TravelsSent, PackagesSent, Assembled
  <1>2. ASSUME UNCHANGED vars PROVE UNCHANGED still
    BY <1>2 DEF vars, net, receiverVars, senderVars, senderTables
  <1>3. ASSUME Timer PROVE UNCHANGED still
    BY <1>3 DEF Timer, net, receiverVars, senderVars, senderTables
  <1>4. ASSUME Receiver PROVE StreamInv'
    <2>1. Base' = Base
      BY <1>4 DEF Receiver, senderVars, senderTables
    <2>2. ASSUME NEW f \in Ftps, FrontCall(f) PROVE UNCHANGED still
      BY <2>1, <2>2 DEF FrontCall, TcpdBIND, TcpdACCEPT, TcpdRECV, net
    <2>3. ASSUME SolveAccept PROVE UNCHANGED still
      BY <2>1, <2>3 DEF SolveAccept, net
    <2>4. ASSUME NEW x \in Session, RecvExits(x) PROVE UNCHANGED still
      BY <2>1, <2>4 DEF RecvExits, net
    <2>5. ASSUME NEW x \in Session, TakePart(x) PROVE StreamInv'
      BY <1>1, <1>2, <2>5 DEF Uncut
    <2>. QED
      BY <1>1, <1>4, <2>1, <2>2, <2>3, <2>4, <2>5, StreamRecvData, StreamTakePackage,
         StreamReplyRecv
      DEF Receiver, ReceiverNext, Callback
  <1>. QED BY <1>1, <1>2, <1>3, <1>4, StreamSender DEF Next

-----------------------------------------------------------------------------
LEMMA StreamInit ==
    ASSUME Init
    PROVE  StreamInv /\ Stream!Init
  <1>1. ASSUME NEW c \in Conn
        PROVE  Base[c] = 0 /\ rBase[SessionOf[c]] = 0 /\ Flat(c, 0) = <<>>
               /\ returned[SessionOf[c]] = <<>> /\ recvBuffer[SessionOf[c]] = <<>>
    <2>1. SubSeq(Chunks[c], 1, 0) = <<>>
      BY SenderAssumption, SubSeqEmpty DEF SenderAssumption
    <2>2. Flat(c, 0) = <<>>
      BY <2>1 DEF Flat, FlattenSeq
    <2>. QED BY <2>2, SessionOfType DEF Init, SenderInit, ReceiverInit
  <1>2. <<>> \o <<>> = <<>>
    OBVIOUS
  <1>3. StreamInv
    <2>1. dataNet = {} /\ \A x \in Session : rPackages[x] = {}
      BY DEF Init, NetInit, ReceiverInit
    <2>2. ASSUME NEW c \in Conn
          PROVE  /\ rBase[SessionOf[c]] <= Base[c]
                 /\ returned[SessionOf[c]] \o recvBuffer[SessionOf[c]]
                      = Flat(c, rBase[SessionOf[c]])
      <3>1. 0 <= 0
        OBVIOUS
      <3>. QED BY <1>1, <1>2, <3>1, Zenon
    <2>. QED
      BY <2>1, <2>2, SessionOfType DEF StreamInv, TravelsSent, PackagesSent, Assembled
  <1>4. Stream!Init
    BY <1>1 DEF Stream!Init, SentBytes, Flat
  <1>. QED BY <1>3, <1>4

(* The bytes returned are a beginning of those sent. *)
LEMMA AssembledIsIntact == TypeInv /\ StreamInv => StreamIntact
  <1>. SUFFICES ASSUME TypeInv, StreamInv, NEW c \in Conn
                PROVE  IsPrefix(returned[SessionOf[c]], SentBytes(c))
    BY PrefixSame DEF StreamIntact, Stream!Intact
  <1>. DEFINE x == SessionOf[c]
  <1>1. /\ returned[x] \in Body /\ recvBuffer[x] \in Body /\ rBase[x] \in Nat
        /\ Base[c] \in Nat /\ Base[c] <= Len(Chunks[c])
    BY SessionOfType DEF TypeInv, TypeOK, ReceiverTypeOK, SenderTypeOK, BufferedWereSent
  <1>2. rBase[x] <= Base[c] /\ returned[x] \o recvBuffer[x] = Flat(c, rBase[x])
    BY DEF StreamInv, Assembled
  <1>3. PICK t \in Body : Flat(c, Base[c]) = Flat(c, rBase[x]) \o t
    BY <1>1, <1>2, FlatPrefix
  <1>4. recvBuffer[x] \o t \in Body
    BY <1>1, Texts DEF Body, Text
  <1>5. SentBytes(c) = returned[x] \o (recvBuffer[x] \o t)
    <2>1. (returned[x] \o recvBuffer[x]) \o t = returned[x] \o (recvBuffer[x] \o t)
      BY <1>1, BodiesAssociate
    <2>. QED BY <1>2, <1>3, <2>1, Zenon DEF SentBytes, Flat
  <1>. QED BY <1>1, <1>4, <1>5, PrefixOfConcat DEF Body

(* A SEND appends a buffer; one of no bytes leaves the stream as it is. *)
LEMMA SentGrows ==
    ASSUME TypeInv, NEW c \in Conn, Base[c] < Len(Chunks[c]),
           Base' = [Base EXCEPT ![c] = @ + 1],
           UNCHANGED <<net, receiverVars>>
    PROVE  [Stream!Next]_(Stream!streamVars)
  <1>. DEFINE chunk == Chunks[c][Base[c] + 1]
  <1>0. \A d \in Conn : Base[d] \in Nat /\ Base'[d] = IF d = c THEN Base[c] + 1 ELSE Base[d]
    BY DEF TypeInv, TypeOK, SenderTypeOK
  <1>1. /\ SentBytes(c) \in Body /\ chunk \in Body
        /\ SentBytes(c)' = SentBytes(c) \o chunk
    BY <1>0, FlatStep DEF SentBytes, Flat
  <1>2. \A d \in Conn \ {c} : SentBytes(d)' = SentBytes(d)
    BY <1>0 DEF SentBytes
  <1>3. /\ IsPrefix(SentBytes(c), SentBytes(c)')
        /\ Len(SentBytes(c)') = Len(SentBytes(c)) + Len(chunk)
        /\ Len(SentBytes(c)) \in Nat /\ Len(chunk) \in Nat
    <2>1. SentBytes(c) \in Seq(Nat) /\ chunk \in Seq(Nat)
      BY <1>1 DEF Body
    <2>. QED BY <1>1, <2>1, PrefixOfConcat
  <1>4. returned' = returned
    BY DEF receiverVars
  <1>5. CASE Len(chunk) > 0
    <2>1. Stream!Send(c)
      BY <1>2, <1>3, <1>4, <1>5, PrefixSame DEF Stream!Send, Stream!Grows
    <2>. QED BY <2>1 DEF Stream!Next
  <1>6. CASE Len(chunk) = 0
    <2>1. SentBytes(c)' = SentBytes(c)
      <3>1. chunk = <<>>
        BY <1>1, <1>6 DEF Body
      <3>2. SentBytes(c) \o <<>> = SentBytes(c)
        BY <1>1, Texts DEF Body, Text
      <3>. QED BY <1>1, <3>1, <3>2
    <2>2. \A d \in Conn : SentBytes(d)' = SentBytes(d)
      BY <1>2, <2>1
    <2>. QED BY <1>4, <2>2 DEF Stream!streamVars
  <1>. QED BY <1>3, <1>5, <1>6

(* A RECV returns the next bytes of its connection, at least one. *)
LEMMA ReceivedGrows ==
    ASSUME DistinctSessions, TypeInv, StreamIntact', Base' = Base,
           NEW y \in Session, ReplyRecv(y)
    PROVE  [Stream!Next]_(Stream!streamVars)
  <1>1. /\ returned'[y] = returned[y] \o recvBuffer[y]
        /\ \A x \in Session : x # y => returned'[x] = returned[x]
        /\ returned[y] \in Seq(Nat) /\ recvBuffer[y] \in Seq(Nat)
    BY DEF ReplyRecv, TypeInv, TypeOK, ReceiverTypeOK, Body
  <1>2. Len(recvBuffer[y]) > 0
    BY ReceiverAssumption DEF ReplyRecv, Filled, ReceiverAssumption
  <1>3. /\ IsPrefix(returned[y], returned'[y])
        /\ Len(returned'[y]) > Len(returned[y])
    <2>1. /\ IsPrefix(returned[y], returned[y] \o recvBuffer[y])
          /\ Len(returned[y] \o recvBuffer[y]) = Len(returned[y]) + Len(recvBuffer[y])
      BY <1>1, PrefixOfConcat
    <2>2. Len(returned[y]) \in Nat /\ Len(recvBuffer[y]) \in Nat
      BY <1>1
    <2>3. Len(returned[y]) + Len(recvBuffer[y]) > Len(returned[y])
      <3>1. \A i, j \in Nat : j > 0 => i + j > i
        OBVIOUS
      <3>. QED BY <1>2, <2>2, <3>1, Zenon
    <2>4. returned'[y] = returned[y] \o recvBuffer[y]
      BY <1>1
    <2>. QED BY <2>1, <2>3, <2>4, Zenon
  <1>4. \A c \in Conn : SentBytes(c)' = SentBytes(c)
    BY DEF SentBytes
  <1>5. CASE \A c \in Conn : SessionOf[c] # y
    BY <1>1, <1>4, <1>5, SessionOfType DEF Stream!streamVars
  <1>6. ASSUME NEW c \in Conn, SessionOf[c] = y PROVE Stream!Recv(c)
    <2>1. \A d \in Conn \ {c} : returned'[SessionOf[d]] = returned[SessionOf[d]]
      BY <1>1, <1>6, SessionOfType DEF DistinctSessions
    <2>2. IsPrefix(returned'[y], SentBytes(c)')
      BY <1>6, PrefixSame DEF StreamIntact, Stream!Intact
    <2>3. IsPrefix(returned'[y], SentBytes(c))
      BY <1>4, <2>2
    <2>. QED BY <1>3, <1>4, <1>6, <2>1, <2>3, PrefixSame DEF Stream!Recv, Stream!Grows
  <1>. QED BY <1>5, <1>6 DEF Stream!Next

(* Every step is a SEND or a RECV of one connection, or a stutter. *)
LEMMA StreamSimulated ==
    ASSUME DistinctSessions, TypeInv, BufferInv, StreamIntact', [Next]_vars
    PROVE  [Stream!Next]_(Stream!streamVars)
  <1>1. ASSUME UNCHANGED <<Base, returned>> PROVE UNCHANGED Stream!streamVars
    BY <1>1 DEF Stream!streamVars, SentBytes
  <1>2. CASE UNCHANGED vars \/ Timer
    BY <1>1, <1>2 DEF Timer, vars, senderVars, senderTables, receiverVars
  <1>3. CASE Sender
    <2>1. returned' = returned
      BY <1>3 DEF Sender, receiverVars
    <2>. QED BY <1>1, <2>1, BaseSteps, SentGrows
  <1>4. CASE Receiver
    <2>1. Base' = Base
      BY <1>4 DEF Receiver, senderVars, senderTables
    <2>2. ASSUME NEW f \in Ftps, FrontCall(f) PROVE returned' = returned
      BY <2>2 DEF FrontCall, TcpdBIND, TcpdACCEPT, TcpdRECV
    <2>3. ASSUME NEW m \in Arrivals(dataNet), RecvData(m) PROVE returned' = returned
      BY <2>3 DEF RecvData
    <2>4. ASSUME NEW x \in Session,
                 TakePackage(x) \/ TakePart(x) \/ RecvExits(x) \/ SolveAccept
          PROVE  returned' = returned
      BY <2>4 DEF TakePackage, TakePart, RecvExits, SolveAccept
    <2>5. ASSUME SolveAccept PROVE returned' = returned
      BY <2>5 DEF SolveAccept
    <2>. QED
      BY <1>1, <1>4, <2>1, <2>2, <2>3, <2>4, <2>5, ReceivedGrows
      DEF Receiver, ReceiverNext, Callback
  <1>. QED BY <1>2, <1>3, <1>4 DEF Next

(***************************************************************************)
(* The connections are reliable byte streams: as long as no package is cut *)
(* to fit into a request, what RECVs return is, in order, without loss,    *)
(* repetition or a byte of another connection, what SENDs were given.      *)
(***************************************************************************)
THEOREM StreamsAreReliable ==
    ASSUME DistinctSessions
    PROVE  Spec /\ [][Uncut]_vars => []StreamIntact /\ ImplementsStream
  <1>1. Init => BytesInv /\ StreamInv /\ Stream!Init
    BY BytesInit, StreamInit
  <1>2. TypeInv /\ BytesInv /\ [Next]_vars /\ [Uncut]_vars => BytesInv'
    BY BytesStep
  <1>3. TypeInv /\ BufferInv /\ BytesInv /\ StreamInv /\ [Next]_vars /\ [Uncut]_vars
          => StreamInv'
    BY StreamStep
  <1>4. TypeInv /\ StreamInv => StreamIntact
    BY AssembledIsIntact
  <1>5. TypeInv /\ BufferInv /\ StreamIntact' /\ [Next]_vars
          => [Stream!Next]_(Stream!streamVars)
    BY StreamSimulated
  <1>. QED
    BY <1>1, <1>2, <1>3, <1>4, <1>5, TypeInvInvariant, BufferInvariant, PTL
    DEF Spec, ImplementsStream, Stream!Spec

(***************************************************************************)
(* So they are for processes that keep in step, as ftpc and ftps do.       *)
(***************************************************************************)
THEOREM InStepStream ==
    ASSUME DistinctSessions
    PROVE  Spec /\ [][InStep]_vars => []StreamIntact /\ ImplementsStream
  BY InStepUncut, StreamsAreReliable, PTL
=============================================================================
