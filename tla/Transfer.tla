------------------------------ MODULE Transfer ------------------------------
(***************************************************************************)
(* The running system of Proj1/README.MD: ftpc processes and their tcpd,   *)
(* the timer process, troll in both directions, and the tcpd of the ftps   *)
(* processes.                                                              *)
(***************************************************************************)
EXTENDS TcpdSender, TcpdReceiver, SequencesExt

vars == <<net, timerVars, senderVars, receiverVars>>

-----------------------------------------------------------------------------
Init == NetInit /\ TimerInit /\ SenderInit /\ ReceiverInit

Sender == SenderNext /\ UNCHANGED receiverVars
Receiver == ReceiverNext /\ UNCHANGED <<senderVars, timerVars>>
Timer == TimerNext /\ UNCHANGED <<net, senderVars, receiverVars>>

Next == Sender \/ Receiver \/ Timer

Spec == Init /\ [][Next]_vars

-----------------------------------------------------------------------------
(* Connections have different session numbers: what srand() and rand() have *)
(* to deliver, and what the theorems assume.                                *)
DistinctSessions == \A c, d \in Conn : SessionOf[c] = SessionOf[d] => c = d

AllBuffered == UNION {{<<c, s>> : s \in Buffered(c)} : c \in Conn}

(***************************************************************************)
(* Every variable keeps its type: in particular the sequence numbers,      *)
(* MinSeq and the lengths stay naturals, as their C types are unsigned.    *)
(***************************************************************************)
TypeOK == NetTypeOK /\ TimerTypeOK(Session \X Nat) /\ SenderTypeOK /\ ReceiverTypeOK

(***************************************************************************)
(* InBufferPackages is what main() tests before it watches TcpdMsgSocket:  *)
(* it counts the packages of both lists of every connection, each package  *)
(* is in one list only, and there are never more than the buffer holds,    *)
(* whatever acknowledgements are repeated and timers expire late.          *)
(***************************************************************************)
BufferCounted ==
    /\ InBufferPackages = Cardinality(AllBuffered)
    /\ InBufferPackages <= MaxBufferPackages
    /\ \A c \in Conn : Packages[c] \cap PendingPackages[c] = {}

(***************************************************************************)
(* A package leaves the sender's lists only when the receiving tcpd has it *)
(* or handed it over: no SEND that was answered is forgotten by both.      *)
(***************************************************************************)
AckedIsReceived ==
    \A c \in Conn : \A s \in 0..Base[c] - 1 :
        s \notin Buffered(c) => HasPackage(SessionOf[c], s)

(***************************************************************************)
(* No byte of an acknowledged package is lost: it was returned by a RECV   *)
(* on the session, or the receiving tcpd still holds it.                   *)
(***************************************************************************)
HeldBytes(x) ==
    (UNION {ToSet(p.body) : p \in rPackages[x]})
        \cup ToSet(recvBuffer[x]) \cup ToSet(returned[x])

AckedBytesKept ==
    \A c \in Conn : \A s \in 0..Base[c] - 1 :
        s \notin Buffered(c) => ToSet(Chunks[c][s + 1]) \subseteq HeldBytes(SessionOf[c])

(***************************************************************************)
(* Every package that waits for an acknowledgement will be retransmitted   *)
(* if none comes: its timer is going to be started, or runs, or its expiry *)
(* is on the way, and no cancel request is going to stop it.               *)
(***************************************************************************)
Cancelled(k, i) ==
    \E j \in DOMAIN toTimer : j > i /\ toTimer[j] = CancelRequest(k)

WillExpire(k) ==
    \/ \E i \in DOMAIN toTimer : toTimer[i] = StartRequest(k) /\ ~Cancelled(k, i)
    \/ k \in armed /\ ~Cancelled(k, 0)
    \/ \E i \in DOMAIN fromTimer : fromTimer[i] = k

TimerCovers ==
    \A c \in Conn : \A s \in Packages[c] : WillExpire(Key(c, s))

(***************************************************************************)
(* InsertRequest never meets a node with the same key: a package is sent   *)
(* again only after its previous timer is gone, so the retransmission is   *)
(* timed by its own request and not by what is left of the older one.      *)
(***************************************************************************)
StartIsFresh ==
    \A i \in DOMAIN toTimer : \A c \in Conn : \A s \in SeqNum :
        LET k == Key(c, s) IN
        toTimer[i] = StartRequest(k) =>
            /\ \A j \in 1..i - 1 : toTimer[j] # StartRequest(k)
            /\ k \in armed =>
                 \E j \in 1..i - 1 : toTimer[j] = CancelRequest(k)

(***************************************************************************)
(* The reassembly list holds no package twice and none that was handed     *)
(* over: either would sit at its front and stop SolveRecvCallback forever. *)
(***************************************************************************)
ReassemblyClean ==
    \A x \in Session : \A p \in rPackages[x] :
        /\ p.seq >= rBase[x]
        /\ \A q \in rPackages[x] : q.seq = p.seq => q = p

(***************************************************************************)
(* A front process that is blocked in a library call is owed exactly one   *)
(* answer by the daemon, and the daemon owes answers to no one else.       *)
(***************************************************************************)
RepliesOwed ==
    \A f \in Ftps :
        /\ (status[f] = "accept") <=> (accepting = f)
        /\ (status[f] = "recv") <=>
             (\E x \in Session : receiving[x] > 0 /\ receivingFor[x] = f)
        /\ \A x, y \in Session :
             (/\ receiving[x] > 0 /\ receivingFor[x] = f
              /\ receiving[y] > 0 /\ receivingFor[y] = f) => x = y

(***************************************************************************)
(* An acknowledged package is never put back into a list, so it is never   *)
(* sent again, whatever expiries and acknowledgements are still to come.   *)
(***************************************************************************)
Released(c) == (0..Base[c] - 1) \ Buffered(c)

ReleasedForGood == [][\A c \in Conn : Released(c) \subseteq Released(c)']_vars

(***************************************************************************)
(* The packages in flight span at most MAX_BUFFER_PACKAGES numbers from    *)
(* the least package that is not acknowledged (the selective-repeat window *)
(* that the test in SolveSendCallback is for).                             *)
(***************************************************************************)
WindowRespected ==
    \A c \in Conn : \A s \in Packages[c], t \in Buffered(c) :
        s < t + MaxBufferPackages

-----------------------------------------------------------------------------
(* The bytes of the SENDs made so far, and what RECV returned of them. *)
SentBytes(c) == FlattenSeq(SubSeq(Chunks[c], 1, Base[c]))

Stream == INSTANCE ByteStream WITH
    Chan <- Conn,
    sent <- [c \in Conn |-> SentBytes(c)],
    received <- [c \in Conn |-> returned[SessionOf[c]]]

(***************************************************************************)
(* The connections are reliable byte streams: what the RECV calls on a     *)
(* session return is, in order and without loss or repetition, what the    *)
(* SEND calls of its connection were given.                                *)
(***************************************************************************)
StreamIntact == Stream!Intact
ImplementsStream == Stream!Spec

-----------------------------------------------------------------------------
(***************************************************************************)
(* Fairness.  Both daemons and the timer keep running: select() returns    *)
(* when a socket is ready and reports every socket that stays ready.  The  *)
(* network delivers, undamaged, a datagram that is sent again and again.   *)
(* Front processes make their next call, except that ftps need not read.  *)
(***************************************************************************)
Data(c, s) == DataMessage(c, SessionOf[c], s, Chunks[c][s + 1])
Ack(c, s) == AckMessage(c, SessionOf[c], s)
ChunkNums(c) == 0..Len(Chunks[c]) - 1

SenderFairness ==
    /\ WF_vars(Select /\ Sender)
    /\ WF_vars(~Selecting /\ Sender)
    /\ \A c \in Conn :
         /\ SF_vars(Select /\ frontIn' # None /\ frontIn'.conn = c /\ Sender)
         /\ \A s \in ChunkNums(c) :
              /\ SF_vars(Select /\ ackIn'[c] = Ack(c, s) /\ Sender)
              /\ SF_vars(SendPackage(c) /\ Packages'[c] = Packages[c] \cup {s}
                         /\ Data(c, s) \in dataNet' /\ Sender)

TimerFairness ==
    /\ WF_vars(ServeRequest /\ Timer)
    /\ \A c \in Conn : \A s \in ChunkNums(c) : WF_vars(Expire(Key(c, s)) /\ Timer)

ReceiverFairness ==
    /\ WF_vars(Callback /\ Receiver)
    /\ \A c \in Conn : \A s \in ChunkNums(c) :
         SF_vars(RecvData(Data(c, s)) /\ Ack(c, s) \in ackNet' /\ Receiver)
    /\ \A f \in Ftps : WF_vars(TcpdBIND(f) /\ Receiver)

FairSpec == Spec /\ SenderFairness /\ TimerFairness /\ ReceiverFairness

(***************************************************************************)
(* Every package is acknowledged in the end, in spite of losses, so the    *)
(* buffer never stays full and no later SEND is shut out.                  *)
(***************************************************************************)
SentIsReleased ==
    \A c \in Conn : \A s \in ChunkNums(c) : IsSent(c, s) ~> s \in Released(c)

(***************************************************************************)
(* A RECV is answered once the SENDs made on the connection cover it: the  *)
(* reassembly never gets stuck on a missing, late or repeated package.     *)
(***************************************************************************)
Covered(c) ==
    LET x == SessionOf[c] IN
    receiving[x] > 0 /\ Len(returned[x]) + receiving[x] <= Len(SentBytes(c))

RecvAnswered ==
    \A c \in Conn : Covered(c) ~> receiving[SessionOf[c]] = 0

(***************************************************************************)
(* A RECV does not wait for more bytes than there are: it is answered once *)
(* the next byte of the stream is at hand (proj.pdf, 1(h)).                *)
(***************************************************************************)
ByteAtHand(x) ==
    /\ x \in accepted /\ receiving[x] > 0
    /\ recvBuffer[x] # <<>> \/ \E p \in rPackages[x] : NextPackage(x, p)

RecvPrompt == \A x \in Session : ByteAtHand(x) ~> receiving[x] = 0
=============================================================================
