----------------------------- MODULE CallsProofs -----------------------------
(***************************************************************************)
(* The library calls, as long as no call is sent into the middle of        *)
(* another: the datagrams in front of the daemon are whole calls, one      *)
(* after the other, so that a call is served as one piece and answered     *)
(* once, and every answer is one to the call that its process is in.       *)
(* What holds of the number of answers however they mix is at the end.     *)
(***************************************************************************)
EXTENDS FrontCalls, FiniteSetTheorems, SequenceTheorems, TLAPS

Texts == {"SOCKET", "BIND", "ACCEPT", "RECV", "CONNECT", "SEND", "data", ""}
Datagram == [from : Process, text : Texts, number : Numbers]
Queue == Seq(Datagram)

(* The step sends no datagram while part of another call is sent.  Nothing *)
(* in tcpudp.c or tcpd.c sees to it: a process that has its daemon for     *)
(* itself, as ftpc and ftps have, never takes another step.                *)
Unmixed == \A p \in Process : SendDatagram(p) => \A q \in Process \ {p} : ~MidCall(q)

NoCall == <<>>
Status == {"idle", "sending", "waiting"}
FrontType == [status : Status, call : Calls \cup {NoCall}, out : Queue]

(* The handler of call c, which process p made. *)
Serve(p, c) ==
    \/ c[1] = "SOCKET" /\ tcpd_SOCKET(p)
    \/ c[1] = "BIND" /\ tcpd_BIND(p, c[2], c[3])
    \/ c[1] = "ACCEPT" /\ tcpd_ACCEPT(p, c[2])
    \/ c[1] = "RECV" /\ tcpd_RECV(p, c[2], c[3])
    \/ c[1] = "CONNECT" /\ tcpd_CONNECT(p, c[2])
    \/ c[1] = "SEND" /\ tcpd_SEND(p, c[2], c[3])

LEMMA SocketIsNumber == FD \subseteq Numbers
  BY DEF Numbers

(* Each call has its arguments, and its handler fetches them all. *)
WellFormed(c) ==
    /\ Len(c) \in 1..4 /\ DOMAIN c = 1..Len(c) /\ c # NoCall
    /\ c[1] \in {"SOCKET", "BIND", "ACCEPT", "RECV", "CONNECT", "SEND"}
    /\ Datagrams(c[1]) = Len(c)
    /\ Len(c) >= 2 => c[2] \in Numbers
    /\ Len(c) >= 3 => c[3] \in Numbers
    /\ Len(c) = 4 => c[4] \in Texts
    /\ c[1] = "SOCKET" => c = SOCKET
    /\ c[1] = "BIND" => c[2] \in FD /\ c[3] \in Addrs
    /\ c[1] = "ACCEPT" => c[2] \in FD /\ c = ACCEPT(c[2])
    /\ c[1] = "RECV" => c[2] \in Sessions /\ c[3] \in Lens /\ c = RECV(c[2], c[3])
    /\ c[1] = "CONNECT" => c[2] \in FD
    /\ c[1] = "SEND" => c[2] \in FD /\ c[3] \in Lens

LEMMA CallFacts == \A c \in Calls : WellFormed(c)
  <1>0. /\ FD \subseteq Numbers /\ Addrs \subseteq Numbers
        /\ Sessions \subseteq Numbers /\ Lens \subseteq Numbers
    BY DEF Numbers
  <1>1. WellFormed(SOCKET)
    BY DEF WellFormed, SOCKET, Datagrams, Texts, NoCall
  <1>2. ASSUME NEW fd \in FD, NEW a \in Addrs PROVE WellFormed(BIND(fd, a))
    BY <1>0 DEF WellFormed, BIND, Datagrams, Texts, NoCall
  <1>3. ASSUME NEW fd \in FD PROVE WellFormed(ACCEPT(fd))
    BY <1>0 DEF WellFormed, ACCEPT, Datagrams, Texts, NoCall
  <1>4. ASSUME NEW s \in Sessions, NEW n \in Lens PROVE WellFormed(RECV(s, n))
    BY <1>0 DEF WellFormed, RECV, Datagrams, Texts, NoCall
  <1>5. ASSUME NEW fd \in FD, NEW a \in Addrs PROVE WellFormed(CONNECT(fd, a))
    BY <1>0 DEF WellFormed, CONNECT, Datagrams, Texts, NoCall
  <1>6. ASSUME NEW fd \in FD, NEW n \in Lens \ {0} PROVE WellFormed(SEND(fd, n))
    BY <1>0 DEF WellFormed, SEND, Datagrams, Texts, NoCall
  <1>. QED BY <1>1, <1>2, <1>3, <1>4, <1>5, <1>6 DEF Calls

LEMMA MessagesFacts ==
    ASSUME NEW p \in Process, NEW c \in Calls
    PROVE  /\ Messages(p, c) \in Queue /\ Len(Messages(p, c)) = Len(c)
           /\ \A i \in 1..Len(c) : /\ Messages(p, c)[i] \in Datagram
                                   /\ Messages(p, c)[i].from = p
           /\ Messages(p, c)[1].text = c[1]
           /\ Len(c) >= 2 => Messages(p, c)[2].number = c[2]
           /\ Len(c) >= 3 => Messages(p, c)[3].number = c[3]
  <1>1. WellFormed(c)
    BY CallFacts
  <1>2. Messages(p, c) = [i \in 1..Len(c) |-> IF i \in {1, 4} THEN Text(p, c[i]) ELSE Binary(p, c[i])]
    BY <1>1 DEF WellFormed, Messages
  <1>3. ASSUME NEW i \in 1..Len(c)
        PROVE  /\ Messages(p, c)[i] \in Datagram /\ Messages(p, c)[i].from = p
               /\ i = 1 => Messages(p, c)[i].text = c[1]
               /\ i \in {2, 3} => Messages(p, c)[i].number = c[i]
    <2>1. CASE i = 1 \/ i = 4
      <3>1. c[i] \in Texts
        <4>1. CASE i = 1
          BY <1>1, <4>1 DEF WellFormed, Texts
        <4>2. CASE i = 4
          <5>1. Len(c) \in 1..4 /\ 4 \in 1..Len(c)
            BY <1>1, <4>2 DEF WellFormed
          <5>2. \A n \in 1..4 : 4 \in 1..n => n = 4
            OBVIOUS
          <5>3. Len(c) = 4
            BY <5>1, <5>2, Zenon
          <5>. QED BY <1>1, <4>2, <5>3 DEF WellFormed
        <4>. QED BY <2>1, <4>1, <4>2
      <3>2. Messages(p, c)[i] = Text(p, c[i])
        BY <1>2, <2>1
      <3>3. Text(p, c[i]) \in Datagram /\ Text(p, c[i]).from = p /\ Text(p, c[i]).text = c[i]
        BY <3>1 DEF Text, Datagram, Numbers
      <3>. QED BY <2>1, <3>2, <3>3
    <2>2. CASE i = 2 \/ i = 3
      <3>1. c[i] \in Numbers
        BY <1>1, <2>2 DEF WellFormed
      <3>2. Messages(p, c)[i] = Binary(p, c[i])
        BY <1>2, <2>2
      <3>3. /\ Binary(p, c[i]) \in Datagram /\ Binary(p, c[i]).from = p
            /\ Binary(p, c[i]).number = c[i]
        BY <3>1 DEF Binary, Datagram, Texts
      <3>. QED BY <2>2, <3>2, <3>3
    <2>. QED BY <1>1, <2>1, <2>2 DEF WellFormed
  <1>4. Messages(p, c) \in Queue /\ Len(Messages(p, c)) = Len(c)
    BY <1>1, <1>2, <1>3 DEF WellFormed, Queue
  <1>. QED BY <1>1, <1>3, <1>4 DEF WellFormed

-----------------------------------------------------------------------------
(* The datagrams in front of the daemon, with those it is reading.         *)
FrontOK ==
    /\ front \in [Process -> FrontType]
    /\ \A p \in Process : front[p].status = "idle" <=> front[p].call = NoCall
    /\ reading \in Queue /\ inbox \in Queue

Total == reading \o inbox
CallOf(i) == front[Total[i].from].call

(* What is still to be sent of a call, after its k-th datagram. *)
Rest(p, k) == SubSeq(Messages(p, front[p].call), k + 1, Len(front[p].call))

(* The last call in the queue is not complete. *)
Open(place) == Total # <<>> /\ place[Len(Total)] < Len(CallOf(Len(Total)))
OpenOf(place, p) == Open(place) /\ Total[Len(Total)].from = p

(* Datagram i is the place[i]-th of the call its sender is in, calls come   *)
(* whole and one after the other, but for the beginning of the first, which *)
(* was read, and the end of the last, which is still to be sent.            *)
IsPlace(place, i) ==
    /\ place[i] \in 1..Len(CallOf(i))
    /\ front[Total[i].from].status # "idle"
    /\ Total[i] = Messages(Total[i].from, CallOf(i))[place[i]]
    /\ i = 1 => place[i] = 1
    /\ i < Len(Total) =>
         IF place[i] < Len(CallOf(i))
         THEN Total[i + 1].from = Total[i].from /\ place[i + 1] = place[i] + 1
         ELSE place[i + 1] = 1
    /\ \A j \in 1..Len(Total) : Total[j].from = Total[i].from /\ place[j] = place[i] => j = i
    /\ i <= Len(reading) =>
         place[i] = i /\ i < Len(CallOf(i)) /\ Total[i].from = Total[1].from

IsSender(place, p) ==
    /\ OpenOf(place, p) =>
         front[p].status = "sending" /\ front[p].out = Rest(p, place[Len(Total)])
    /\ front[p].status = "sending" /\ ~OpenOf(place, p) =>
         front[p].out = Messages(p, front[p].call) /\ ~Asked(p)

Places(place) ==
    /\ place \in [1..Len(Total) -> Nat]
    /\ \A i \in 1..Len(Total) : IsPlace(place, i)
    /\ \A p \in Process : IsSender(place, p)

WholeCalls == \E place : Places(place)

LEMMA TotalFacts ==
    ASSUME NEW a \in Queue, NEW b \in Queue
    PROVE  /\ a \o b \in Queue /\ Len(a \o b) = Len(a) + Len(b) /\ Len(a) \in Nat /\ Len(b) \in Nat
           /\ \A i \in 1..Len(a) : (a \o b)[i] = a[i] /\ a[i] \in Datagram
           /\ \A i \in 1..Len(b) : (a \o b)[Len(a) + i] = b[i] /\ b[i] \in Datagram
           /\ \A i \in 1..Len(a) + Len(b) : (a \o b)[i] \in Datagram
  BY DEF Queue

LEMMA AppendTotal ==
    ASSUME NEW a \in Queue, NEW b \in Queue, NEW d \in Datagram
    PROVE  a \o Append(b, d) = Append(a \o b, d)
  BY DEF Queue

LEMMA AppendFacts ==
    ASSUME NEW t \in Queue, NEW d \in Datagram
    PROVE  /\ Append(t, d) \in Queue /\ Len(Append(t, d)) = Len(t) + 1
           /\ \A i \in 1..Len(t) : Append(t, d)[i] = t[i]
           /\ Append(t, d)[Len(t) + 1] = d
           /\ Append(t, d) # <<>>
  BY DEF Queue

LEMMA FrontFacts ==
    ASSUME FrontOK
    PROVE  /\ Total \in Queue /\ Len(Total) \in Nat
           /\ \A i \in 1..Len(Total) : Total[i] \in Datagram /\ Total[i].from \in Process
           /\ \A p \in Process :
                /\ front[p] \in FrontType
                /\ front[p].status # "idle" => front[p].call \in Calls
  <1>1. /\ Total \in Queue /\ Len(Total) \in Nat
        /\ \A i \in 1..Len(Total) : Total[i] \in Datagram /\ Total[i].from \in Process
    BY TotalFacts DEF FrontOK, Total, Datagram
  <1>2. \A p \in Process : /\ front[p] \in FrontType
                           /\ front[p].status # "idle" => front[p].call \in Calls
    BY DEF FrontOK, FrontType
  <1>. QED BY <1>1, <1>2

LEMMA AskedFacts ==
    ASSUME FrontOK, NEW p \in Process
    PROVE  Asked(p) <=> \E i \in 1..Len(Total) : Total[i].from = p
  <1>1. DOMAIN Total = 1..Len(Total)
    BY FrontFacts DEF Queue
  <1>. QED BY <1>1, Zenon DEF Asked, Total

LEMMA AskedNew ==
    ASSUME Total' \in Queue, NEW p \in Process
    PROVE  Asked(p)' <=> \E i \in 1..Len(Total') : Total'[i].from = p
  <1>1. DOMAIN Total' = 1..Len(Total')
    BY DEF Queue
  <1>. QED BY <1>1, Zenon DEF Asked, Total

(* Begin: the process was in no call, so it is not in the queue. *)
LEMMA BeginPlaces ==
    ASSUME FrontOK, WholeCalls, NEW p \in Process, NEW c \in Calls, Begin(p, c)
    PROVE  /\ FrontOK' /\ WholeCalls' /\ ~Asked(p)'
           /\ \A q \in Process : Asked(q)' <=> Asked(q)
           /\ ~Asked(p)
  <1>0. /\ front[p].status = "idle"
        /\ front' = [front EXCEPT ![p] = [status |-> "sending", call |-> c,
                                          out |-> Messages(p, c)]]
        /\ reading' = reading /\ inbox' = inbox
    BY DEF Begin, daemonVars
  <1>1. FrontOK'
    <2>1. [status |-> "sending", call |-> c, out |-> Messages(p, c)] \in FrontType
      BY MessagesFacts DEF FrontType, Status
    <2>2. c # NoCall
      BY CallFacts DEF WellFormed
    <2>. QED BY <1>0, <2>1, <2>2 DEF FrontOK
  <1>2. Total' = Total /\ \A q \in Process : Asked(q)' <=> Asked(q)
    BY <1>0 DEF Total, Asked
  <1>3. PICK place : Places(place)
    BY DEF WholeCalls
  <1>4. \A i \in 1..Len(Total) : /\ Total[i].from \in Process /\ Total[i].from # p
                                 /\ front'[Total[i].from] = front[Total[i].from]
    <2>1. \A i \in 1..Len(Total) : Total[i].from \in Process /\ Total[i].from # p
      BY <1>0, <1>3, FrontFacts DEF Places, IsPlace
    <2>. QED BY <1>0, <2>1 DEF FrontOK
  <1>5. ~Asked(p)
    BY <1>4, AskedFacts
  <1>6. \A i \in 1..Len(Total) : CallOf(i)' = CallOf(i)
    BY <1>2, <1>4 DEF CallOf
  <1>7. \A i \in 1..Len(Total) : IsPlace(place, i)'
    BY <1>0, <1>2, <1>3, <1>4, <1>6 DEF Places, IsPlace
  <1>8. ASSUME NEW q \in Process PROVE IsSender(place, q)'
    <2>1. OpenOf(place, q)' <=> OpenOf(place, q)
      <3>1. Len(Total) \in Nat /\ (Total # <<>> => Len(Total) \in 1..Len(Total))
        BY FrontFacts DEF Queue
      <3>. QED BY <1>2, <1>6, <3>1 DEF OpenOf, Open
    <2>2. CASE q = p
      <3>1. front'[q].out = Messages(q, front'[q].call)
        BY <1>0, <2>2 DEF FrontOK
      <3>2. ~OpenOf(place, q)
        <4>1. Total # <<>> => Len(Total) \in 1..Len(Total)
          BY FrontFacts DEF Queue
        <4>. QED BY <1>4, <2>2, <4>1 DEF OpenOf, Open
      <3>. QED BY <1>2, <1>5, <2>1, <2>2, <3>1, <3>2 DEF IsSender
    <2>3. CASE q # p
      <3>1. front'[q] = front[q]
        BY <1>0, <2>3 DEF FrontOK
      <3>2. IsSender(place, q)
        BY <1>3 DEF Places
      <3>3. /\ Rest(q, place[Len(Total)])' = Rest(q, place[Len(Total)])
            /\ Messages(q, front[q].call)' = Messages(q, front[q].call)
        BY <1>2, <3>1 DEF Rest
      <3>. QED BY <1>2, <2>1, <3>1, <3>2, <3>3 DEF IsSender
    <2>. QED BY <2>2, <2>3
  <1>9. place \in [1..Len(Total') -> Nat]
    BY <1>2, <1>3 DEF Places
  <1>10. Places(place)'
    BY <1>2, <1>7, <1>8, <1>9 DEF Places
  <1>. QED BY <1>1, <1>2, <1>5, <1>10 DEF WholeCalls

LEMMA RestFacts ==
    ASSUME FrontOK, NEW p \in Process, front[p].call \in Calls,
           NEW k \in Nat, k < Len(front[p].call)
    PROVE  /\ Rest(p, 0) = Messages(p, front[p].call)
           /\ Len(Rest(p, k)) = Len(front[p].call) - k
           /\ Head(Rest(p, k)) = Messages(p, front[p].call)[k + 1]
           /\ Tail(Rest(p, k)) = Rest(p, k + 1)
           /\ Tail(Rest(p, k)) \in Queue
  <1>. DEFINE m == Messages(p, front[p].call)
              n == Len(front[p].call)
  <1>1. m \in Queue /\ Len(m) = n /\ n \in Nat
    BY MessagesFacts, CallFacts DEF WellFormed
  <1>. HIDE DEF m, n
  <1>2. /\ SubSeq(m, 1, n) = m /\ Len(SubSeq(m, k + 1, n)) = n - k
        /\ Head(SubSeq(m, k + 1, n)) = m[k + 1]
    BY <1>1 DEF Queue, n
  <1>3. Tail(SubSeq(m, k + 1, n)) = SubSeq(m, k + 2, n)
    BY <1>1 DEF Queue, n
  <1>4. SubSeq(m, k + 2, n) \in Queue
    BY <1>1 DEF Queue, n
  <1>5. 0 + 1 = 1 /\ (k + 1) + 1 = k + 2
    OBVIOUS
  <1>. QED BY <1>2, <1>3, <1>4, <1>5 DEF Rest, m, n

(* A process whose call is open was stopped in the middle of it.           *)
LEMMA OpenIsMidCall ==
    ASSUME FrontOK, NEW place, Places(place), NEW q \in Process, OpenOf(place, q)
    PROVE  MidCall(q)
  <1>1. Len(Total) \in 1..Len(Total) /\ Total[Len(Total)].from = q
    BY FrontFacts DEF OpenOf, Open, Queue
  <1>2. IsPlace(place, Len(Total)) /\ IsSender(place, q)
    BY <1>1 DEF Places
  <1>. DEFINE k == place[Len(Total)]
  <1>3. k \in 1..Len(front[q].call) /\ k < Len(front[q].call) /\ front[q].status = "sending"
        /\ front[q].out = Rest(q, k)
    BY <1>1, <1>2 DEF IsPlace, IsSender, OpenOf, Open, CallOf
  <1>4. front[q].call \in Calls
    BY <1>3, FrontFacts
  <1>5. Len(front[q].call) \in Nat /\ k \in Nat /\ k >= 1
    BY <1>3, <1>4, CallFacts DEF WellFormed
  <1>. HIDE DEF k
  <1>6. Len(front[q].out) = Len(front[q].call) - k
    BY <1>3, <1>4, <1>5, RestFacts
  <1>. QED BY <1>3, <1>5, <1>6 DEF MidCall

(* SendDatagram: the next datagram of the one call that is half sent, or   *)
(* the first of a new one.                                                 *)
LEMMA SendPlaces ==
    ASSUME FrontOK, WholeCalls, NEW p \in Process, SendDatagram(p), Unmixed
    PROVE  /\ FrontOK' /\ WholeCalls'
           /\ Asked(p)' /\ \A q \in Process \ {p} : Asked(q)' <=> Asked(q)
           /\ front'[p].status \in {"sending", "waiting"}
           /\ \A q \in Process : front'[q].call = front[q].call
           /\ \A q \in Process \ {p} : front'[q] = front[q]
  <1>. DEFINE n == Len(Total)
              c == front[p].call
              d == Head(front[p].out)
  <1>0. /\ front[p].status = "sending" /\ reading' = reading /\ inbox' = Append(inbox, d)
        /\ front' = [front EXCEPT ![p].out = Tail(@),
                       ![p].status = IF Len(front[p].out) = 1 THEN "waiting" ELSE @]
    BY DEF SendDatagram
  <1>1. /\ Total \in Queue /\ n \in Nat
        /\ \A i \in 1..n : Total[i] \in Datagram /\ Total[i].from \in Process
        /\ front[p] \in FrontType /\ c \in Calls /\ Len(c) \in Nat
        /\ reading \in Queue /\ inbox \in Queue
        /\ n = Len(reading) + Len(inbox) /\ Len(reading) \in Nat /\ Len(inbox) \in Nat
    <2>1. /\ Total \in Queue /\ n \in Nat
          /\ \A i \in 1..n : Total[i] \in Datagram /\ Total[i].from \in Process
          /\ front[p] \in FrontType /\ c \in Calls
      BY <1>0, FrontFacts
    <2>2. reading \in Queue /\ inbox \in Queue
      BY DEF FrontOK
    <2>3. /\ n = Len(reading) + Len(inbox) /\ Len(reading) \in Nat /\ Len(inbox) \in Nat
      BY <2>2, TotalFacts DEF Total
    <2>4. Len(c) \in Nat
      BY <2>1, CallFacts DEF WellFormed
    <2>. QED BY <2>1, <2>2, <2>3, <2>4
  <1>2. PICK place : Places(place)
    BY DEF WholeCalls
  <1>. DEFINE k == IF OpenOf(place, p) THEN place[n] ELSE 0
  <1>3. /\ k \in Nat /\ k < Len(c) /\ front[p].out = Rest(p, k)
        /\ n = 0 => k = 0
        /\ OpenOf(place, p) => n \in 1..n /\ k >= 1
    <2>1. IsSender(place, p)
      BY <1>2 DEF Places
    <2>2. CASE OpenOf(place, p)
      <3>1. n \in 1..n
        BY <1>1, <2>2 DEF OpenOf, Open, Queue
      <3>2. IsPlace(place, n)
        BY <1>2, <3>1 DEF Places
      <3>3. CallOf(n) = c /\ place[n] < Len(c) /\ place[n] \in 1..Len(c)
        BY <2>2, <3>2 DEF OpenOf, Open, CallOf, IsPlace
      <3>. QED BY <1>1, <2>1, <2>2, <3>1, <3>3 DEF IsSender
    <2>3. CASE ~OpenOf(place, p)
      <3>1. Len(c) >= 1
        BY <1>1, CallFacts DEF WellFormed
      <3>2. Rest(p, 0) = Messages(p, c)
        BY <1>1, <3>1, RestFacts
      <3>. QED BY <1>0, <1>1, <2>1, <2>3, <3>1, <3>2 DEF IsSender
    <2>. QED BY <2>2, <2>3
  <1>4. /\ d = Messages(p, c)[k + 1] /\ Len(front[p].out) = Len(c) - k
        /\ Tail(front[p].out) = Rest(p, k + 1) /\ Tail(front[p].out) \in Queue
        /\ k + 1 \in 1..Len(c) /\ d \in Datagram /\ d.from = p
    <2>. HIDE DEF k
    <2>1. k + 1 \in 1..Len(c)
      BY <1>1, <1>3
    <2>2. Messages(p, c)[k + 1] \in Datagram /\ Messages(p, c)[k + 1].from = p
      BY <1>1, <2>1, MessagesFacts
    <2>3. /\ Len(Rest(p, k)) = Len(c) - k /\ Head(Rest(p, k)) = Messages(p, c)[k + 1]
          /\ Tail(Rest(p, k)) = Rest(p, k + 1) /\ Tail(Rest(p, k)) \in Queue
      BY <1>1, <1>3, RestFacts
    <2>. QED BY <1>3, <2>1, <2>2, <2>3
  <1>. HIDE DEF d
  <1>5. /\ front'[p].status = IF k + 1 = Len(c) THEN "waiting" ELSE "sending"
        /\ front'[p].call = c /\ front'[p].out = Rest(p, k + 1)
        /\ \A q \in Process \ {p} : front'[q] = front[q]
        /\ FrontOK'
    <2>. DEFINE f == [front[p] EXCEPT !.out = Tail(@),
                        !.status = IF Len(front[p].out) = 1 THEN "waiting" ELSE @]
    <2>1. /\ f \in FrontType /\ f.call = c /\ f.out = Rest(p, k + 1)
          /\ f.status = IF Len(front[p].out) = 1 THEN "waiting" ELSE "sending"
      BY <1>0, <1>1, <1>4 DEF FrontType, Status
    <2>2. front' = [front EXCEPT ![p] = f]
      BY <1>0
    <2>3. Len(front[p].out) = 1 <=> k + 1 = Len(c)
      <3>. HIDE DEF k
      <3>1. Len(c) \in Nat /\ k \in Nat /\ Len(front[p].out) = Len(c) - k
        BY <1>1, <1>3, <1>4
      <3>. QED BY <3>1
    <2>. HIDE DEF f, k
    <2>4. front'[p] = f /\ \A q \in Process \ {p} : front'[q] = front[q]
      BY <2>2 DEF FrontOK
    <2>5. front' \in [Process -> FrontType]
      BY <2>1, <2>2 DEF FrontOK
    <2>6. inbox' \in Queue
      BY <1>0, <1>1, <1>4 DEF Queue
    <2>7. c # NoCall
      BY <1>1, CallFacts DEF WellFormed
    <2>8. FrontOK'
      BY <1>0, <1>1, <2>1, <2>4, <2>5, <2>6, <2>7 DEF FrontOK
    <2>. QED BY <2>1, <2>3, <2>4, <2>8
  <1>6. /\ Total' = Append(Total, d) /\ Len(Total') = n + 1
        /\ \A i \in 1..n : Total'[i] = Total[i]
        /\ Total'[n + 1] = d
    <2>1. /\ Total' = reading \o Append(inbox, d)
      BY <1>0 DEF Total
    <2>2. Total' = Append(Total, d)
      BY <1>1, <1>4, <2>1, AppendTotal, Zenon DEF Total
    <2>. QED BY <1>1, <1>4, <2>2, AppendFacts, Zenon
  <1>7. /\ \A i \in 1..n : CallOf(i)' = CallOf(i)
        /\ front'[Total'[n + 1].from].call = c
        /\ \A q \in Process : front'[q].call = front[q].call
    <2>1. \A q \in Process : front'[q].call = front[q].call
      BY <1>5
    <2>2. \A i \in 1..n : CallOf(i)' = CallOf(i)
      <3>. HIDE DEF n
      <3>. QED BY <1>1, <1>6, <2>1 DEF CallOf
    <2>3. front'[Total'[n + 1].from].call = c
      BY <1>4, <1>6, <2>1, Zenon
    <2>. QED BY <2>1, <2>2, <2>3
  <1>8. Asked(p)' /\ \A q \in Process \ {p} : Asked(q)' <=> Asked(q)
    <2>1. \A q \in Process : Asked(q)' <=> \E i \in 1..n + 1 : Total'[i].from = q
      <3>1. Total' \in Queue
        BY <1>1, <1>4, <1>6 DEF Queue
      <3>. QED BY <1>6, <3>1, AskedNew, Zenon
    <2>2. \A q \in Process : Asked(q) <=> \E i \in 1..n : Total[i].from = q
      BY AskedFacts
    <2>3. n + 1 \in 1..n + 1 /\ \A i \in 1..n + 1 : i # n + 1 => i \in 1..n
      BY <1>1
    <2>4. \A i \in 1..n : i \in 1..n + 1
      BY <1>1
    <2>. HIDE DEF n
    <2>. QED BY <1>4, <1>6, <2>1, <2>2, <2>3, <2>4
  <1>9. \E np : np \in [1..n + 1 -> Nat] /\ np[n + 1] = k + 1 /\ \A i \in 1..n : np[i] = place[i]
    <2>. DEFINE np == [i \in 1..n + 1 |-> IF i = n + 1 THEN k + 1 ELSE place[i]]
    <2>1. n + 1 \in 1..n + 1 /\ \A i \in 1..n + 1 : i # n + 1 => i \in 1..n
      BY <1>1
    <2>2. \A i \in 1..n : i \in 1..n + 1 /\ i # n + 1
      BY <1>1
    <2>3. place \in [1..n -> Nat] /\ k + 1 \in Nat
      BY <1>2, <1>3 DEF Places
    <2>. HIDE DEF k, n
    <2>4. np \in [1..n + 1 -> Nat]
      BY <2>1, <2>3
    <2>5. np[n + 1] = k + 1 /\ \A i \in 1..n : np[i] = place[i]
      BY <2>1, <2>2
    <2>. HIDE DEF np
    <2>. QED BY <2>4, <2>5
  <1>10. PICK np : np \in [1..n + 1 -> Nat] /\ np[n + 1] = k + 1 /\ \A i \in 1..n : np[i] = place[i]
    BY <1>9
  <1>11. ASSUME NEW i \in 1..n, Total[i].from = p PROVE place[i] # k + 1
    <2>1. CASE ~OpenOf(place, p)
      <3>1. ~Asked(p)
        BY <1>0, <1>2, <2>1 DEF Places, IsSender
      <3>. QED BY <1>11, <3>1, AskedFacts
    <2>2. CASE OpenOf(place, p)
      <3>1. k = place[n] /\ n \in 1..n /\ k >= 1 /\ k \in Nat /\ Total[n].from = p
        BY <1>3, <2>2 DEF OpenOf
      <3>. HIDE DEF k
      <3>2. SUFFICES ASSUME place[i] = k + 1 PROVE FALSE
        OBVIOUS
      <3>3. i # 1
        BY <1>2, <3>1, <3>2 DEF Places, IsPlace
      <3>4. i - 1 \in 1..n /\ i - 1 < n /\ (i - 1) + 1 = i /\ i - 1 # n
        BY <1>1, <3>3
      <3>5. IsPlace(place, i - 1) /\ IsPlace(place, n)
        BY <1>2, <3>1, <3>4 DEF Places
      <3>6. Total[i - 1].from = p /\ place[i] = place[i - 1] + 1
        <4>1. place[i] # 1
          BY <3>1, <3>2
        <4>2. IF place[i - 1] < Len(CallOf(i - 1))
              THEN Total[i].from = Total[i - 1].from /\ place[i] = place[i - 1] + 1
              ELSE place[i] = 1
          BY <3>4, <3>5 DEF IsPlace
        <4>. QED BY <1>11, <4>1, <4>2
      <3>7. place[i - 1] \in Nat
        BY <1>2, <3>4 DEF Places
      <3>8. place[i - 1] = place[n]
        BY <3>1, <3>2, <3>6, <3>7
      <3>. QED BY <3>1, <3>4, <3>5, <3>6, <3>8 DEF IsPlace
    <2>. QED BY <2>1, <2>2
  <1>12. ASSUME n \in 1..n
         PROVE IF place[n] < Len(CallOf(n)) THEN Total[n].from = p /\ k = place[n] ELSE k = 0
    <2>1. CASE Open(place)
      <3>1. OpenOf(place, Total[n].from) /\ Total[n].from \in Process
        BY <1>1, <1>12, <2>1 DEF OpenOf
      <3>2. MidCall(Total[n].from)
        BY <1>2, <3>1, OpenIsMidCall
      <3>3. Total[n].from = p
        BY <3>1, <3>2 DEF Unmixed
      <3>. QED BY <2>1, <3>1, <3>3 DEF Open
    <2>2. CASE ~Open(place)
      <3>1. Total # <<>>
        BY <1>1, <1>12
      <3>. QED BY <2>2, <3>1 DEF Open, OpenOf
    <2>. QED BY <2>1, <2>2
  <1>13. /\ Total'[n + 1].from = p /\ \A i : i = n + 1 => CallOf(i)' = c
         /\ CallOf(Len(Total))' = c
    <2>1. Total'[n + 1].from = p
      BY <1>4, <1>6
    <2>2. \A i : i = n + 1 => CallOf(i)' = c
      BY <1>6, <1>7, <2>1 DEF CallOf
    <2>3. CallOf(Len(Total))' = c
      BY <1>6, <1>7, <2>1 DEF CallOf
    <2>. QED BY <2>1, <2>2, <2>3
  <1>14. ASSUME NEW i \in 1..n PROVE IsPlace(np, i)'
    <2>1. IsPlace(place, i)
      BY <1>2 DEF Places
    <2>2. /\ Total'[i] = Total[i] /\ CallOf(i)' = CallOf(i) /\ np[i] = place[i]
          /\ Total[i].from \in Process
      BY <1>1, <1>6, <1>7, <1>10
    <2>3. front'[Total'[i].from].status # "idle"
      BY <1>5, <2>1, <2>2 DEF IsPlace
    <2>4. ASSUME i < n
          PROVE  IF np[i] < Len(CallOf(i)')
                 THEN Total'[i + 1].from = Total'[i].from /\ np[i + 1] = np[i] + 1
                 ELSE np[i + 1] = 1
      <3>1. i + 1 \in 1..n
        BY <1>1, <2>4
      <3>. QED BY <1>6, <1>10, <2>1, <2>2, <2>4, <3>1 DEF IsPlace
    <2>5. ASSUME i = n
          PROVE  IF np[i] < Len(CallOf(i)')
                 THEN Total'[i + 1].from = Total'[i].from /\ np[i + 1] = np[i] + 1
                 ELSE np[i + 1] = 1
      <3>1. IF place[i] < Len(CallOf(i)) THEN Total[i].from = p /\ k = place[i] ELSE k = 0
        BY <1>12, <2>5
      <3>2. Total'[i + 1].from = p /\ np[i + 1] = k + 1
        BY <1>10, <1>13, <2>5
      <3>. HIDE DEF k, n
      <3>. QED BY <2>2, <3>1, <3>2
    <2>6. i < n + 1 /\ (i < n \/ i = n) /\ 1..Len(Total') = 1..n + 1
      BY <1>1, <1>6
    <2>7. ASSUME NEW j \in 1..n + 1, Total'[j].from = Total'[i].from, np[j] = np[i]
          PROVE  j = i
      <3>1. CASE j \in 1..n
        BY <1>6, <1>10, <2>1, <2>2, <2>7, <3>1 DEF IsPlace
      <3>2. CASE j = n + 1
        <4>1. Total[i].from = p /\ place[i] = k + 1
          BY <1>10, <1>13, <2>2, <2>7, <3>2
        <4>. QED BY <1>11, <4>1
      <3>3. j \in 1..n \/ j = n + 1
        BY <1>1
      <3>. QED BY <3>1, <3>2, <3>3
    <2>8. i <= Len(reading)' =>
             np[i] = i /\ i < Len(CallOf(i)') /\ Total'[i].from = Total'[1].from
      <3>1. 1 \in 1..n
        BY <1>1
      <3>. QED BY <1>0, <1>6, <2>1, <2>2, <3>1 DEF IsPlace
    <2>. HIDE DEF k, n, c
    <2>9. /\ np[i] \in 1..Len(CallOf(i)') /\ (i = 1 => np[i] = 1)
          /\ Total'[i] = Messages(Total'[i].from, CallOf(i)')[np[i]]
      BY <2>1, <2>2 DEF IsPlace
    <2>. QED BY <2>3, <2>4, <2>5, <2>6, <2>7, <2>8, <2>9, <1>6 DEF IsPlace
  <1>15. ASSUME NEW i, i = n + 1 PROVE IsPlace(np, i)'
    <2>1. /\ Total'[i] = d /\ CallOf(i)' = c /\ np[i] = k + 1 /\ d.from = p
          /\ d = Messages(p, c)[k + 1] /\ k + 1 \in 1..Len(c)
      BY <1>4, <1>6, <1>10, <1>13, <1>15
    <2>2. front'[Total'[i].from].status # "idle"
      BY <1>5, <2>1
    <2>3. i = 1 => np[i] = 1
      BY <1>1, <1>3, <1>15, <2>1
    <2>4. ~(i < Len(Total')) /\ ~(i <= Len(reading)') /\ 1..Len(Total') = 1..n + 1
      BY <1>0, <1>1, <1>6, <1>15
    <2>5. ASSUME NEW j \in 1..n + 1, Total'[j].from = Total'[i].from, np[j] = np[i]
          PROVE  j = i
      <3>1. CASE j \in 1..n
        <4>1. Total[j].from = p /\ place[j] = k + 1
          BY <1>6, <1>10, <2>1, <2>5, <3>1
        <4>. QED BY <1>11, <3>1, <4>1
      <3>2. j \in 1..n \/ j = n + 1
        BY <1>1
      <3>. QED BY <1>15, <3>1, <3>2
    <2>. HIDE DEF k, n, c
    <2>. QED BY <2>1, <2>2, <2>3, <2>4, <2>5 DEF IsPlace
  <1>16. ASSUME NEW q \in Process PROVE IsSender(np, q)'
    <2>1. OpenOf(np, q)' <=> q = p /\ k + 1 < Len(c)
      <3>1. Total' # <<>>
        BY <1>1, <1>4, <1>6, AppendFacts
      <3>2. np[Len(Total')] = k + 1 /\ Len(CallOf(Len(Total))') = Len(c)
            /\ Total'[Len(Total')].from = p
        BY <1>6, <1>10, <1>13
      <3>. HIDE DEF k, n, c
      <3>. QED BY <3>1, <3>2 DEF OpenOf, Open
    <2>2. CASE q = p
      <3>1. k + 1 <= Len(c) /\ (k + 1 < Len(c) <=> k + 1 # Len(c))
        BY <1>1, <1>3, <1>4
      <3>2. Rest(p, k + 1) = SubSeq(Messages(p, c), (k + 1) + 1, Len(c))
        BY DEF Rest
      <3>3. Rest(q, np[Len(Total)])' = SubSeq(Messages(p, c), np[Len(Total')] + 1, Len(c))
        BY <1>5, <2>2 DEF Rest
      <3>4. np[Len(Total')] = k + 1
        BY <1>6, <1>10
      <3>5. Rest(q, np[Len(Total)])' = Rest(p, k + 1)
        BY <3>2, <3>3, <3>4
      <3>. HIDE DEF k, n, c
      <3>. QED BY <1>5, <2>1, <2>2, <3>1, <3>5 DEF IsSender
    <2>3. CASE q # p
      <3>1. ~OpenOf(place, q)
        BY <1>2, <2>3, OpenIsMidCall DEF Unmixed
      <3>2. front'[q] = front[q] /\ (Asked(q)' <=> Asked(q)) /\ IsSender(place, q)
        BY <1>2, <1>5, <1>8, <2>3 DEF Places
      <3>3. Messages(q, front[q].call)' = Messages(q, front[q].call)
        BY <3>2
      <3>. QED BY <2>1, <2>3, <3>1, <3>2, <3>3 DEF IsSender
    <2>. QED BY <2>2, <2>3
  <1>17. Places(np)'
    <2>1. 1..Len(Total') = 1..n + 1 /\ \A i \in 1..n + 1 : i \in 1..n \/ i = n + 1
      BY <1>1, <1>6
    <2>. HIDE DEF n
    <2>2. \A i \in 1..Len(Total') : IsPlace(np, i)'
      BY <1>14, <1>15, <2>1
    <2>. QED BY <1>10, <1>16, <2>1, <2>2 DEF Places
  <1>18. front'[p].status \in {"sending", "waiting"}
    BY <1>5
  <1>. QED BY <1>5, <1>7, <1>8, <1>17, <1>18 DEF WholeCalls

LEMMA FetchFacts ==
    ASSUME NEW a \in Queue, NEW b \in Queue, b # <<>>
    PROVE  /\ Head(b) \in Datagram /\ Append(a, Head(b)) \in Queue /\ Tail(b) \in Queue
           /\ Append(a, Head(b)) \o Tail(b) = a \o b
           /\ Len(Append(a, Head(b))) = Len(a) + 1 /\ Len(Tail(b)) = Len(b) - 1 /\ Len(b) >= 1
           /\ \A i \in 1..Len(a) + 1 : Append(a, Head(b))[i] = (a \o b)[i]
           /\ \A i \in 1..Len(Tail(b)) : Tail(b)[i] = (a \o b)[i + (Len(a) + 1)]
           /\ <<>> \o Tail(b) = Tail(b)
  <1>1. Len(b) >= 1 /\ Len(b) \in Nat /\ Len(a) \in Nat /\ Len(Tail(b)) = Len(b) - 1
    BY DEF Queue
  <1>2. Head(b) \in Datagram /\ Append(a, Head(b)) \in Queue /\ Tail(b) \in Queue
    BY <1>1 DEF Queue
  <1>3. Append(a, Head(b)) \o Tail(b) = a \o b
    BY <1>1 DEF Queue
  <1>4. \A i \in 1..Len(a) + 1 : Append(a, Head(b))[i] = (a \o b)[i]
    BY <1>1 DEF Queue
  <1>5. \A i \in 1..Len(Tail(b)) : Tail(b)[i] = (a \o b)[i + (Len(a) + 1)]
    BY <1>1 DEF Queue
  <1>6. Len(Append(a, Head(b))) = Len(a) + 1
    BY <1>1 DEF Queue
  <1>7. <<>> \o Tail(b) = Tail(b)
    BY <1>2 DEF Queue
  <1>. QED BY <1>1, <1>2, <1>3, <1>4, <1>5, <1>6, <1>7

(* What the daemon has read is the beginning of the call of one process.   *)
LEMMA ReadingFacts ==
    ASSUME FrontOK, NEW place, Places(place), inbox # <<>>,
           NEW m, m = Len(reading) + 1, NEW p, p = Head(inbox).from
    PROVE  /\ m \in 1..Len(Total) /\ p \in Process /\ front[p].call \in Calls
           /\ \A i \in 1..m : Total[i].from = p /\ place[i] = i
           /\ m <= Len(front[p].call)
           /\ \A i \in 1..m :
                Append(reading, Head(inbox))[i] = Messages(p, front[p].call)[i]
           /\ Len(Append(reading, Head(inbox))) = m
  <1>1. /\ reading \in Queue /\ inbox \in Queue /\ Total = reading \o inbox
        /\ Len(Total) = Len(reading) + Len(inbox) /\ Len(reading) \in Nat /\ Len(inbox) \in Nat
    BY TotalFacts DEF FrontOK, Total
  <1>2. /\ Len(inbox) >= 1 /\ Len(Append(reading, Head(inbox))) = m
        /\ \A i \in 1..m : Append(reading, Head(inbox))[i] = Total[i]
        /\ Append(reading, Head(inbox))[m] = Head(inbox)
    <2>1. /\ Len(inbox) >= 1 /\ Len(Append(reading, Head(inbox))) = m
          /\ \A i \in 1..m : Append(reading, Head(inbox))[i] = Total[i]
          /\ Head(inbox) \in Datagram
      BY <1>1, FetchFacts
    <2>2. Append(reading, Head(inbox))[m] = Head(inbox)
      BY <1>1, <2>1, AppendFacts
    <2>. QED BY <2>1, <2>2
  <1>3. /\ m \in 1..Len(Total) /\ m \in 1..m /\ m \in Nat /\ 1 \in 1..Len(Total)
        /\ \A i \in 1..m : i \in 1..Len(Total) /\ i \in Nat /\ (i # m => i <= Len(reading))
    BY <1>1, <1>2
  <1>4. Total[m] = Head(inbox) /\ p \in Process /\ Total[m].from = p
    BY <1>2, <1>3, FrontFacts
  <1>5. \A i \in 1..Len(Total) : IsPlace(place, i)
    BY DEF Places
  <1>6. \A i \in 1..m : Total[i].from = p /\ place[i] = i
    <2>1. CASE m = 1
      BY <1>3, <1>4, <1>5, <2>1 DEF IsPlace
    <2>2. CASE m # 1
      <3>1. m - 1 \in 1..m /\ m - 1 <= Len(reading) /\ (m - 1) + 1 = m /\ m - 1 < Len(Total)
        BY <1>3, <2>2
      <3>2. IsPlace(place, m - 1)
        BY <1>3, <1>5, <3>1
      <3>3. /\ place[m - 1] = m - 1 /\ m - 1 < Len(CallOf(m - 1))
            /\ Total[m - 1].from = Total[1].from
        BY <3>1, <3>2 DEF IsPlace
      <3>4. Total[(m - 1) + 1].from = Total[m - 1].from /\ place[(m - 1) + 1] = place[m - 1] + 1
        BY <3>1, <3>2, <3>3 DEF IsPlace
      <3>5. Total[1].from = p /\ place[m] = m
        BY <1>4, <3>1, <3>3, <3>4
      <3>6. \A i \in 1..m : i # m => Total[i].from = Total[1].from /\ place[i] = i
        BY <1>3, <1>5 DEF IsPlace
      <3>. QED BY <1>4, <3>5, <3>6
    <2>. QED BY <2>1, <2>2
  <1>7. front[p].status # "idle" /\ front[p].call \in Calls /\ m <= Len(front[p].call)
    <2>1. front[p].status # "idle" /\ place[m] \in 1..Len(front[p].call)
      BY <1>3, <1>4, <1>5 DEF IsPlace, CallOf
    <2>2. front[p].call \in Calls
      BY <1>4, <2>1, FrontFacts
    <2>3. Len(front[p].call) \in Nat /\ place[m] = m
      BY <1>3, <1>6, <2>2, CallFacts DEF WellFormed
    <2>. QED BY <2>1, <2>2, <2>3
  <1>8. \A i \in 1..m : Total[i] = Messages(p, front[p].call)[i]
    BY <1>3, <1>5, <1>6 DEF IsPlace, CallOf
  <1>. QED BY <1>2, <1>3, <1>4, <1>6, <1>7, <1>8

(* Fetch of a datagram that is not the last of its call. *)
LEMMA FetchMore ==
    ASSUME FrontOK, NEW place, Places(place), inbox # <<>>,
           NEW m, m = Len(reading) + 1, NEW p, p = Head(inbox).from,
           m < Len(front[p].call), front' = front,
           reading' = Append(reading, Head(inbox)), inbox' = Tail(inbox)
    PROVE  FrontOK' /\ WholeCalls' /\ \A q \in Process : Asked(q)' <=> Asked(q)
  <1>1. /\ m \in 1..Len(Total) /\ \A i \in 1..m : Total[i].from = p /\ place[i] = i
        /\ 1 \in 1..m
    BY ReadingFacts
  <1>2. reading \in Queue /\ inbox \in Queue
    BY DEF FrontOK
  <1>3. /\ reading' \in Queue /\ inbox' \in Queue /\ Len(reading') = m /\ Total' = Total
    BY <1>2, FetchFacts DEF Total
  <1>4. FrontOK'
    BY <1>3 DEF FrontOK
  <1>5. \A q \in Process : Asked(q)' <=> Asked(q)
    BY <1>3, AskedNew, AskedFacts, FrontFacts
  <1>6. Len(reading) \in Nat /\ Len(Total) \in Nat /\ m \in Nat
    BY <1>2, TotalFacts, FrontFacts, <1>1
  <1>7. ASSUME NEW i \in 1..Len(Total) PROVE IsPlace(place, i)'
    <2>1. IsPlace(place, i) /\ CallOf(i)' = CallOf(i)
      BY <1>3 DEF Places, CallOf
    <2>2. i <= m =>
            place[i] = i /\ i < Len(CallOf(i)) /\ Total[i].from = Total[1].from
      <3>1. i <= m => i \in 1..m
        BY <1>6
      <3>. QED BY <1>1, <1>6, <3>1 DEF CallOf
    <2>. QED BY <1>3, <2>1, <2>2 DEF IsPlace
  <1>8. ASSUME NEW q \in Process PROVE IsSender(place, q)'
    <2>1. IsSender(place, q)
      BY DEF Places
    <2>2. OpenOf(place, q)' <=> OpenOf(place, q)
      BY <1>3 DEF OpenOf, Open, CallOf
    <2>3. Rest(q, place[Len(Total)])' = Rest(q, place[Len(Total)])
      BY <1>3 DEF Rest
    <2>4. Messages(q, front[q].call)' = Messages(q, front[q].call)
      OBVIOUS
    <2>. QED BY <1>5, <2>1, <2>2, <2>3, <2>4 DEF IsSender
  <1>9. Places(place)'
    BY <1>3, <1>7, <1>8 DEF Places
  <1>. QED BY <1>4, <1>5, <1>9 DEF WholeCalls

(* Fetch of the last datagram of a call: the others are those of other      *)
(* processes, and the first of them begins a call.                         *)
LEMMA FetchLast ==
    ASSUME FrontOK, NEW place, Places(place), inbox # <<>>,
           NEW m, m = Len(reading) + 1, NEW p, p = Head(inbox).from,
           m = Len(front[p].call), front' = front,
           reading' = <<>>, inbox' = Tail(inbox)
    PROVE  /\ FrontOK' /\ WholeCalls' /\ front[p].status = "waiting"
           /\ Asked(p) /\ ~Asked(p)' /\ \A q \in Process \ {p} : Asked(q)' <=> Asked(q)
  <1>0. PICK n : n = Len(Total)
    OBVIOUS
  <1>1. /\ m \in 1..n /\ \A i \in 1..m : Total[i].from = p /\ place[i] = i
        /\ p \in Process /\ front[p].call \in Calls
    BY <1>0, ReadingFacts
  <1>2. reading \in Queue /\ inbox \in Queue
    BY DEF FrontOK
  <1>3. /\ inbox' \in Queue /\ Total' = inbox' /\ Total' \in Queue
        /\ Len(Total') = n - m
        /\ \A i \in 1..n - m : Total'[i] = Total[i + m]
    <2>1. n = Len(reading) + Len(inbox) /\ Len(reading) \in Nat /\ Len(inbox) \in Nat
      BY <1>0, <1>2, TotalFacts DEF Total
    <2>2. /\ Tail(inbox) \in Queue /\ <<>> \o Tail(inbox) = Tail(inbox)
          /\ Len(Tail(inbox)) = Len(inbox) - 1
          /\ \A i \in 1..Len(Tail(inbox)) : Tail(inbox)[i] = Total[i + m]
      <3>1. /\ Tail(inbox) \in Queue /\ <<>> \o Tail(inbox) = Tail(inbox)
            /\ Len(Tail(inbox)) = Len(inbox) - 1
            /\ \A i \in 1..Len(Tail(inbox)) :
                 Tail(inbox)[i] = (reading \o inbox)[i + (Len(reading) + 1)]
        BY <1>2, FetchFacts
      <3>. QED BY <3>1, Zenon DEF Total
    <2>3. Len(inbox) - 1 = n - m
      BY <2>1
    <2>4. Total' = Tail(inbox)
      BY <2>2 DEF Total
    <2>. QED BY <2>2, <2>3, <2>4
  <1>4. FrontOK'
    <2>1. <<>> \in Queue
      BY DEF Queue
    <2>. QED BY <1>3, <2>1 DEF FrontOK
  <1>5. n \in Nat /\ m \in Nat /\ m >= 1 /\ m <= n /\ m \in 1..m
    BY <1>0, <1>1, FrontFacts
  <1>6. \A i \in 1..n : IsPlace(place, i) /\ Total[i].from \in Process
    BY <1>0, FrontFacts DEF Places
  <1>7. \A i \in 1..n : Total[i].from = p => i <= m
    <2>. SUFFICES ASSUME NEW i \in 1..n, Total[i].from = p PROVE i <= m
      OBVIOUS
    <2>1. place[i] \in 1..m
      BY <1>6 DEF IsPlace, CallOf
    <2>2. place[i] \in 1..n /\ Total[place[i]].from = p /\ place[place[i]] = place[i]
      BY <1>1, <1>5, <2>1
    <2>3. place[i] = i
      BY <1>0, <1>6, <2>2 DEF IsPlace
    <2>. QED BY <2>1, <2>3
  <1>8. /\ Asked(p) /\ ~Asked(p)' /\ \A q \in Process \ {p} : Asked(q)' <=> Asked(q)
    <2>1. \A q \in Process : Asked(q) <=> \E i \in 1..n : Total[i].from = q
      BY <1>0, AskedFacts
    <2>2. \A q \in Process : Asked(q)' <=> \E i \in 1..n - m : Total[i + m].from = q
      <3>1. \A q \in Process : Asked(q)' <=> \E i \in 1..Len(Total') : Total'[i].from = q
        BY <1>3, AskedNew
      <3>2. ASSUME NEW q \in Process
            PROVE  (\E i \in 1..Len(Total') : Total'[i].from = q)
                      <=> \E i \in 1..n - m : Total[i + m].from = q
        BY <1>3
      <3>. QED BY <3>1, <3>2, Zenon
    <2>3. /\ \A i \in 1..n - m : i + m \in 1..n /\ ~(i + m <= m)
          /\ \A i \in 1..n : i \in 1..m \/ (i - m \in 1..n - m /\ (i - m) + m = i)
      BY <1>5
    <2>4. Asked(p)
      BY <1>1, <1>5, <2>1
    <2>5. ~Asked(p)'
      BY <1>1, <1>7, <2>2, <2>3
    <2>6. ASSUME NEW q \in Process \ {p} PROVE Asked(q)' <=> Asked(q)
      BY <1>1, <2>1, <2>2, <2>3
    <2>. QED BY <2>4, <2>5, <2>6
  <1>9. front[p].status = "waiting"
    <2>1. front[p].status # "idle"
      BY <1>1, <1>5, <1>6 DEF IsPlace
    <2>2. ~OpenOf(place, p)
      <3>1. SUFFICES ASSUME OpenOf(place, p) PROVE FALSE
        OBVIOUS
      <3>2. Total[n].from = p /\ place[n] < m /\ n \in 1..n
        BY <1>0, <1>5, <3>1 DEF OpenOf, Open, CallOf
      <3>3. n <= m
        BY <1>7, <3>2
      <3>4. n \in 1..m
        BY <1>5, <3>2, <3>3
      <3>5. place[n] = n
        BY <1>1, <3>4
      <3>. QED BY <1>5, <3>2, <3>5
    <2>3. front[p].status # "sending"
      BY <1>1, <1>8, <2>2 DEF Places, IsSender
    <2>4. front[p].status \in Status
      BY <1>1, FrontFacts DEF FrontType
    <2>. QED BY <2>1, <2>3, <2>4 DEF Status
  <1>10. PICK np : np = [i \in 1..n - m |-> place[i + m]]
    OBVIOUS
  <1>11. /\ np \in [1..n - m -> Nat]
         /\ \A i \in 1..n - m : np[i] = place[i + m] /\ i + m \in 1..n
    <2>1. place \in [1..n -> Nat]
      BY <1>0 DEF Places
    <2>2. \A i \in 1..n - m : i + m \in 1..n
      BY <1>5
    <2>. QED BY <1>10, <2>1, <2>2
  <1>12. ASSUME NEW i \in 1..n - m PROVE IsPlace(np, i)'
    <2>1. /\ IsPlace(place, i + m) /\ i + m \in 1..n /\ np[i] = place[i + m]
          /\ Total'[i] = Total[i + m] /\ CallOf(i)' = CallOf(i + m)
      BY <1>3, <1>6, <1>11 DEF CallOf
    <2>2. i = 1 => np[i] = 1
      <3>. SUFFICES ASSUME i = 1 PROVE np[i] = 1
        OBVIOUS
      <3>1. m \in 1..n /\ m < n /\ i + m = m + 1
        BY <1>5, <2>1
      <3>2. IsPlace(place, m) /\ ~(place[m] < Len(CallOf(m)))
        BY <1>1, <1>5, <1>6 DEF CallOf
      <3>3. place[m + 1] = 1
        BY <1>0, <3>1, <3>2 DEF IsPlace
      <3>. QED BY <2>1, <3>1, <3>3
    <2>3. ASSUME i < n - m
          PROVE  IF np[i] < Len(CallOf(i)')
                 THEN Total'[i + 1].from = Total'[i].from /\ np[i + 1] = np[i] + 1
                 ELSE np[i + 1] = 1
      <3>1. i + 1 \in 1..n - m /\ i + m < n /\ (i + 1) + m = (i + m) + 1
        BY <1>5, <2>3
      <3>2. np[i + 1] = place[(i + m) + 1] /\ Total'[i + 1] = Total[(i + m) + 1]
        BY <1>3, <1>11, <3>1
      <3>3. IF place[i + m] < Len(CallOf(i + m))
            THEN /\ Total[(i + m) + 1].from = Total[i + m].from
                 /\ place[(i + m) + 1] = place[i + m] + 1
            ELSE place[(i + m) + 1] = 1
        BY <1>0, <2>1, <3>1 DEF IsPlace
      <3>. QED BY <2>1, <3>2, <3>3
    <2>4. ASSUME NEW j \in 1..n - m, Total'[j].from = Total'[i].from, np[j] = np[i]
          PROVE  j = i
      <3>1. /\ j + m \in 1..n /\ Total[j + m].from = Total[i + m].from
            /\ place[j + m] = place[i + m]
        BY <1>3, <1>11, <2>1, <2>4
      <3>2. j + m = i + m
        BY <1>0, <2>1, <3>1 DEF IsPlace
      <3>. QED BY <1>5, <3>2
    <2>5. ~(i <= Len(reading'))
      <3>1. Len(reading') = 0
        OBVIOUS
      <3>. QED BY <3>1
    <2>6. /\ np[i] \in 1..Len(CallOf(i)') /\ front'[Total'[i].from].status # "idle"
          /\ Total'[i] = Messages(Total'[i].from, CallOf(i)')[np[i]]
      BY <2>1 DEF IsPlace
    <2>7. i < Len(Total') =>
             IF np[i] < Len(CallOf(i)')
             THEN Total'[i + 1].from = Total'[i].from /\ np[i + 1] = np[i] + 1
             ELSE np[i + 1] = 1
      BY <1>3, <2>3
    <2>8. \A j \in 1..Len(Total') : Total'[j].from = Total'[i].from /\ np[j] = np[i] => j = i
      BY <1>3, <2>4
    <2>. QED BY <2>2, <2>5, <2>6, <2>7, <2>8 DEF IsPlace
  <1>13. ASSUME NEW q \in Process PROVE IsSender(np, q)'
    <2>1. /\ OpenOf(np, q)' => OpenOf(place, q) /\ np[Len(Total')] = place[Len(Total)]
          /\ OpenOf(place, q) => OpenOf(np, q)'
      <3>1. CASE n = m
        <4>1. Total' = <<>>
          BY <1>3, <1>5, <3>1, EmptySeq DEF Queue
        <4>2. ~Open(place)
          <5>1. Len(Total) = m /\ place[m] = m /\ Len(CallOf(m)) = m
            BY <1>0, <1>1, <1>5, <3>1 DEF CallOf
          <5>2. ~(place[Len(Total)] < Len(CallOf(Len(Total))))
            BY <1>5, <5>1
          <5>. QED BY <5>2, Zenon DEF Open
        <4>. QED BY <4>1, <4>2 DEF OpenOf, Open
      <3>2. CASE n # m
        <4>1. n - m \in 1..n - m /\ (n - m) + m = n
          BY <1>5, <3>2
        <4>2. Total'[n - m] = Total[n] /\ np[n - m] = place[n] /\ Len(Total') = n - m
          BY <1>3, <1>11, <4>1
        <4>3. Total' # <<>> /\ Total # <<>>
          <5>1. Len(Total') # 0 /\ Len(Total) # 0
            BY <1>0, <1>3, <1>5, <3>2
          <5>2. Len(<<>>) = 0
            OBVIOUS
          <5>. QED BY <5>1, <5>2, Zenon
        <4>4. CallOf(Len(Total))' = CallOf(Len(Total))
          BY <1>0, <4>2 DEF CallOf
        <4>. QED BY <1>0, <4>2, <4>3, <4>4 DEF OpenOf, Open
      <3>. QED BY <3>1, <3>2
    <2>2. IsSender(place, q)
      BY DEF Places
    <2>3. OpenOf(np, q)' => Rest(q, np[Len(Total)])' = Rest(q, place[Len(Total)])
      BY <2>1 DEF Rest
    <2>4. Asked(q)' => Asked(q)
      BY <1>8
    <2>5. Messages(q, front[q].call)' = Messages(q, front[q].call)
      OBVIOUS
    <2>. QED BY <2>1, <2>2, <2>3, <2>4, <2>5 DEF IsSender
  <1>14. Places(np)'
    BY <1>3, <1>11, <1>12, <1>13 DEF Places
  <1>. QED BY <1>4, <1>8, <1>9, <1>14 DEF WholeCalls

(* Fetch: more of a call, or the handler of a whole call. *)
QuietFetch ==
    /\ daemon' = daemon /\ answers' = answers /\ phase' \in {phase, "stopped"}
    /\ \A q \in Process : Asked(q)' <=> Asked(q)

ServedFetch(p) ==
    /\ front[p].status = "waiting" /\ Asked(p) /\ ~Asked(p)'
    /\ \A q \in Process \ {p} : Asked(q)' <=> Asked(q)
    /\ Serve(p, front[p].call)

LEMMA FetchPlaces ==
    ASSUME FrontOK, WholeCalls, Fetch
    PROVE  /\ FrontOK' /\ WholeCalls' /\ front' = front /\ given' = given /\ phase = "select"
           /\ QuietFetch \/ \E p \in Process : ServedFetch(p)
  <1>. DEFINE c == Append(reading, Head(inbox))
              m == Len(reading) + 1
              whole == Len(c) >= Datagrams(c[1].text)
  <1>0. PICK p : p = Head(inbox).from
    OBVIOUS
  <1>1. PICK place : Places(place)
    BY DEF WholeCalls
  <1>2. /\ inbox # <<>> /\ inbox' = Tail(inbox) /\ reading' = IF whole THEN <<>> ELSE c
        /\ \/ TooLong(c) /\ Exit
           \/ whole /\ Datagrams(c[1].text) > 0 /\ Handle(p, c)
           \/ whole /\ Datagrams(c[1].text) = 0 /\ Served /\ UNCHANGED <<daemon, answers>>
           \/ ~whole /\ ~TooLong(c) /\ UNCHANGED <<phase, daemon, answers>>
        /\ front' = front /\ given' = given /\ phase = "select"
    BY <1>0 DEF Fetch
  <1>3. /\ p \in Process /\ front[p].call \in Calls /\ m <= Len(front[p].call) /\ Len(c) = m
        /\ \A i \in 1..m : c[i] = Messages(p, front[p].call)[i]
        /\ m \in Nat /\ m >= 1
    <2>1. /\ p \in Process /\ front[p].call \in Calls /\ m <= Len(front[p].call) /\ Len(c) = m
          /\ \A i \in 1..m : c[i] = Messages(p, front[p].call)[i]
          /\ m \in 1..Len(Total)
      BY <1>0, <1>1, <1>2, ReadingFacts
    <2>2. Len(Total) \in Nat
      BY FrontFacts
    <2>. HIDE DEF c, m
    <2>. QED BY <2>1, <2>2
  <1>. HIDE DEF m
  <1>4. WellFormed(front[p].call)
    BY <1>3, CallFacts
  <1>. DEFINE l == Len(front[p].call)
  <1>5. /\ c[1].text = front[p].call[1] /\ Datagrams(c[1].text) = l /\ l \in 1..4
        /\ m >= 2 => c[2].number = front[p].call[2]
        /\ m >= 3 => c[3].number = front[p].call[3]
    <2>1. 1 \in 1..m /\ (m >= 2 => 2 \in 1..m) /\ (m >= 3 => 3 \in 1..m)
      BY <1>3
    <2>2. /\ Messages(p, front[p].call)[1].text = front[p].call[1]
          /\ l >= 2 => Messages(p, front[p].call)[2].number = front[p].call[2]
          /\ l >= 3 => Messages(p, front[p].call)[3].number = front[p].call[3]
      BY <1>3, MessagesFacts
    <2>3. Datagrams(front[p].call[1]) = l /\ l \in 1..4
      BY <1>4 DEF WellFormed
    <2>4. m <= l
      BY <1>3
    <2>. HIDE DEF c, l
    <2>5. (m >= 2 => l >= 2) /\ (m >= 3 => l >= 3)
      BY <1>3, <2>3, <2>4
    <2>. QED BY <1>3, <2>1, <2>2, <2>3, <2>5
  <1>6. CASE m < l
    <2>1. ~whole
      BY <1>3, <1>5, <1>6
    <2>2. reading' = c
      BY <1>2, <2>1
    <2>3. FrontOK' /\ WholeCalls' /\ \A q \in Process : Asked(q)' <=> Asked(q)
      BY <1>0, <1>1, <1>2, <1>6, <2>2, FetchMore DEF m
    <2>4. daemon' = daemon /\ answers' = answers /\ phase' \in {phase, "stopped"}
      BY <1>2, <2>1 DEF Exit
    <2>. QED BY <1>2, <2>3, <2>4 DEF QuietFetch
  <1>7. CASE m = l
    <2>1. whole /\ Datagrams(c[1].text) > 0
      BY <1>3, <1>5, <1>7
    <2>2. reading' = <<>>
      BY <1>2, <2>1
    <2>3. /\ FrontOK' /\ WholeCalls' /\ front[p].status = "waiting"
          /\ Asked(p) /\ ~Asked(p)' /\ \A q \in Process \ {p} : Asked(q)' <=> Asked(q)
      BY <1>0, <1>1, <1>2, <1>7, <2>2, FetchLast DEF m
    <2>4. ~TooLong(c)
      <3>1. SUFFICES ASSUME TooLong(c) PROVE FALSE
        OBVIOUS
      <3>2. m = 3 /\ Datagrams(c[1].text) = 4
        BY <1>3, <3>1 DEF TooLong, Datagrams
      <3>. QED BY <1>5, <1>7, <3>2
    <2>5. Handle(p, c)
      BY <1>2, <1>5, <2>1, <2>4
    <2>6. /\ front[p].call[1] \in {"BIND", "RECV", "SEND"} => m >= 3
          /\ front[p].call[1] \in {"ACCEPT", "CONNECT"} => m >= 2
      BY <1>4, <1>7 DEF WellFormed, Datagrams
    <2>. HIDE DEF c, whole, l
    <2>7. Serve(p, front[p].call)
      <3>1. m >= 3 => m >= 2
        BY <1>3
      <3>. QED BY <1>5, <2>5, <2>6, <3>1, Zenon DEF Handle, Serve
    <2>. QED BY <1>2, <1>3, <2>3, <2>7 DEF ServedFetch
  <1>8. m < l \/ m = l
    BY <1>3, <1>5
  <1>. QED BY <1>6, <1>7, <1>8

-----------------------------------------------------------------------------
(* What the daemon has noted, and what is on the way back.                 *)
DaemonType ==
    [sockets : Nat, binded : SUBSET (FD \X Addrs), connected : SUBSET FD, inBuffer : Int,
     accepting : [Numbers -> Process \cup {None}], packages : [Numbers -> Int],
     waiting : SUBSET (FD \X Sessions), accepted : SUBSET Sessions,
     receiving : [Sessions -> {<<>>} \cup (Process \X Lens)],
     arrived : [Sessions -> Nat], done : [Sessions -> Nat]]

AnswerType == {Number(n) : n \in Int} \cup {Bytes(s, i, n) : s \in Sessions, i \in Nat, n \in Lens}

DaemonOK == daemon \in DaemonType /\ answers \in [Process -> Seq(AnswerType)]

AcceptsOf(p) == {fd \in FD : daemon.accepting[fd] = p}
ReceivesOf(p) == {s \in Sessions : daemon.receiving[s] # <<>> /\ daemon.receiving[s][1] = p}
Owed(p) == Noted(p) + Len(answers[p])

LEMMA NotedFacts ==
    ASSUME DaemonOK, NEW p \in Process
    PROVE  /\ IsFiniteSet(AcceptsOf(p)) /\ IsFiniteSet(ReceivesOf(p))
           /\ Noted(p) = Cardinality(AcceptsOf(p)) + Cardinality(ReceivesOf(p))
           /\ Cardinality(AcceptsOf(p)) \in Nat /\ Cardinality(ReceivesOf(p)) \in Nat
           /\ Noted(p) \in Nat /\ Len(answers[p]) \in Nat /\ Owed(p) \in Nat
  <1>1. IsFiniteSet(FD) /\ IsFiniteSet(Sessions)
    BY CallsAssumption, FS_Interval DEF CallsAssumption, FD
  <1>2. IsFiniteSet(AcceptsOf(p)) /\ IsFiniteSet(ReceivesOf(p))
    BY <1>1, FS_Subset DEF AcceptsOf, ReceivesOf
  <1>3. Cardinality(AcceptsOf(p)) \in Nat /\ Cardinality(ReceivesOf(p)) \in Nat
    BY <1>2, FS_CardinalityType
  <1>4. Len(answers[p]) \in Nat
    BY DEF DaemonOK
  <1>5. Noted(p) = Cardinality(AcceptsOf(p)) + Cardinality(ReceivesOf(p))
    BY DEF Noted, AcceptsOf, ReceivesOf
  <1>. QED BY <1>2, <1>3, <1>4, <1>5 DEF Owed

LEMMA NotedNew ==
    ASSUME NEW p \in Process
    PROVE  /\ Noted(p)' = Cardinality(AcceptsOf(p)') + Cardinality(ReceivesOf(p)')
           /\ Owed(p)' = Noted(p)' + Len(answers'[p])
  BY DEF Noted, AcceptsOf, ReceivesOf, Owed

(* The notes of others stay when one field of one process changes.         *)
LEMMA NotesUnchanged ==
    ASSUME daemon'.accepting = daemon.accepting, daemon'.receiving = daemon.receiving,
           NEW q \in Process
    PROVE  Noted(q)' = Noted(q)
  BY DEF Noted

(* The size of a finite set to which something was added or from which it
   was taken.                                                              *)
LEMMA MemberAdded ==
    ASSUME NEW S, NEW T, NEW x, IsFiniteSet(S), T = S \cup {x}, x \notin S
    PROVE  Cardinality(T) = Cardinality(S) + 1
  BY FS_AddElement

LEMMA MemberTaken ==
    ASSUME NEW S, NEW T, NEW x, IsFiniteSet(S), T = S \ {x}, x \in S
    PROVE  Cardinality(T) = Cardinality(S) - 1
  BY FS_RemoveElement

LEMMA AcceptNoted ==
    ASSUME DaemonOK, NEW fd \in FD, NEW p \in Process,
           daemon.accepting[fd] = None,
           daemon'.accepting = [daemon.accepting EXCEPT ![fd] = p],
           daemon'.receiving = daemon.receiving
    PROVE  /\ Noted(p)' = Noted(p) + 1
           /\ \A q \in Process \ {p} : Noted(q)' = Noted(q)
  <1>0. None \notin Process /\ daemon.accepting \in [Numbers -> Process \cup {None}]
    BY CallsAssumption DEF CallsAssumption, None, DaemonOK, DaemonType
  <1>1. \A q \in Process : ReceivesOf(q)' = ReceivesOf(q)
    BY DEF ReceivesOf
  <1>2. AcceptsOf(p)' = AcceptsOf(p) \cup {fd} /\ fd \notin AcceptsOf(p)
    BY SocketIsNumber, <1>0 DEF AcceptsOf
  <1>3. \A q \in Process \ {p} : AcceptsOf(q)' = AcceptsOf(q)
    BY <1>0 DEF AcceptsOf
  <1>4. Cardinality(AcceptsOf(p)') = Cardinality(AcceptsOf(p)) + 1
    <2>1. IsFiniteSet(AcceptsOf(p))
      BY NotedFacts
    <2>. QED BY <1>2, <2>1, MemberAdded, Zenon
  <1>5. Noted(p)' = Noted(p) + 1
    BY <1>1, <1>4, NotedNew, NotedFacts
  <1>6. \A q \in Process \ {p} : Noted(q)' = Noted(q)
    BY <1>1, <1>3, NotedNew, NotedFacts
  <1>. QED BY <1>5, <1>6

LEMMA AcceptCleared ==
    ASSUME DaemonOK, NEW fd \in FD, NEW p \in Process,
           daemon.accepting[fd] = p,
           daemon'.accepting = [daemon.accepting EXCEPT ![fd] = None],
           daemon'.receiving = daemon.receiving
    PROVE  /\ Noted(p)' = Noted(p) - 1
           /\ \A q \in Process \ {p} : Noted(q)' = Noted(q)
  <1>0. None \notin Process /\ daemon.accepting \in [Numbers -> Process \cup {None}]
    BY CallsAssumption DEF CallsAssumption, None, DaemonOK, DaemonType
  <1>1. \A q \in Process : ReceivesOf(q)' = ReceivesOf(q)
    BY DEF ReceivesOf
  <1>2. AcceptsOf(p)' = AcceptsOf(p) \ {fd} /\ fd \in AcceptsOf(p)
    BY SocketIsNumber, <1>0 DEF AcceptsOf
  <1>3. \A q \in Process \ {p} : AcceptsOf(q)' = AcceptsOf(q)
    BY <1>0 DEF AcceptsOf
  <1>4. Cardinality(AcceptsOf(p)') = Cardinality(AcceptsOf(p)) - 1
    <2>1. IsFiniteSet(AcceptsOf(p))
      BY NotedFacts
    <2>. QED BY <1>2, <2>1, MemberTaken, Zenon
  <1>5. Noted(p)' = Noted(p) - 1
    BY <1>1, <1>4, NotedNew, NotedFacts
  <1>6. \A q \in Process \ {p} : Noted(q)' = Noted(q)
    BY <1>1, <1>3, NotedNew, NotedFacts
  <1>. QED BY <1>5, <1>6

LEMMA ReceiveNoted ==
    ASSUME DaemonOK, NEW s \in Sessions, NEW p \in Process, NEW len \in Lens,
           daemon.receiving[s] = <<>>,
           daemon'.receiving = [daemon.receiving EXCEPT ![s] = <<p, len>>],
           daemon'.accepting = daemon.accepting
    PROVE  /\ Noted(p)' = Noted(p) + 1
           /\ \A q \in Process \ {p} : Noted(q)' = Noted(q)
  <1>0. daemon.receiving \in [Sessions -> {<<>>} \cup (Process \X Lens)]
    BY DEF DaemonOK, DaemonType
  <1>1. \A q \in Process : AcceptsOf(q)' = AcceptsOf(q)
    BY DEF AcceptsOf
  <1>2. /\ daemon'.receiving[s] = <<p, len>> /\ <<p, len>> # <<>> /\ <<p, len>>[1] = p
        /\ \A t \in Sessions \ {s} : daemon'.receiving[t] = daemon.receiving[t]
    BY <1>0
  <1>3. ReceivesOf(p)' = ReceivesOf(p) \cup {s} /\ s \notin ReceivesOf(p)
    BY <1>2 DEF ReceivesOf
  <1>4. \A q \in Process \ {p} : ReceivesOf(q)' = ReceivesOf(q)
    BY <1>2 DEF ReceivesOf
  <1>5. Cardinality(ReceivesOf(p)') = Cardinality(ReceivesOf(p)) + 1
    <2>1. IsFiniteSet(ReceivesOf(p))
      BY NotedFacts
    <2>. QED BY <1>3, <2>1, MemberAdded, Zenon
  <1>6. Noted(p)' = Noted(p) + 1
    BY <1>1, <1>5, NotedNew, NotedFacts
  <1>7. \A q \in Process \ {p} : Noted(q)' = Noted(q)
    BY <1>1, <1>4, NotedNew, NotedFacts
  <1>. QED BY <1>6, <1>7

LEMMA ReceiveCleared ==
    ASSUME DaemonOK, NEW s \in Sessions, NEW p \in Process,
           daemon.receiving[s] # <<>>, daemon.receiving[s][1] = p,
           daemon'.receiving = [daemon.receiving EXCEPT ![s] = <<>>],
           daemon'.accepting = daemon.accepting
    PROVE  /\ Noted(p)' = Noted(p) - 1
           /\ \A q \in Process \ {p} : Noted(q)' = Noted(q)
  <1>0. daemon.receiving \in [Sessions -> {<<>>} \cup (Process \X Lens)]
    BY DEF DaemonOK, DaemonType
  <1>1. \A q \in Process : AcceptsOf(q)' = AcceptsOf(q)
    BY DEF AcceptsOf
  <1>2. /\ daemon'.receiving[s] = <<>>
        /\ \A t \in Sessions \ {s} : daemon'.receiving[t] = daemon.receiving[t]
    BY <1>0
  <1>3. ReceivesOf(p)' = ReceivesOf(p) \ {s} /\ s \in ReceivesOf(p)
    BY <1>2 DEF ReceivesOf
  <1>4. \A q \in Process \ {p} : ReceivesOf(q)' = ReceivesOf(q)
    BY <1>2 DEF ReceivesOf
  <1>5. Cardinality(ReceivesOf(p)') = Cardinality(ReceivesOf(p)) - 1
    <2>1. IsFiniteSet(ReceivesOf(p))
      BY NotedFacts
    <2>. QED BY <1>3, <2>1, MemberTaken, Zenon
  <1>6. Noted(p)' = Noted(p) - 1
    BY <1>1, <1>5, NotedNew, NotedFacts
  <1>7. \A q \in Process \ {p} : Noted(q)' = Noted(q)
    BY <1>1, <1>4, NotedNew, NotedFacts
  <1>. QED BY <1>6, <1>7

LEMMA AnswerFacts ==
    ASSUME DaemonOK, NEW p \in Process, NEW v \in AnswerType, Answer(p, v)
    PROVE  /\ answers' \in [Process -> Seq(AnswerType)]
           /\ answers'[p] = Append(answers[p], v) /\ Len(answers'[p]) = Len(answers[p]) + 1
           /\ \A q \in Process \ {p} : answers'[q] = answers[q]
  <1>1. answers \in [Process -> Seq(AnswerType)] /\ answers[p] \in Seq(AnswerType)
    BY DEF DaemonOK
  <1>2. answers' = [answers EXCEPT ![p] = Append(answers[p], v)]
    BY DEF Answer
  <1>3. /\ Append(answers[p], v) \in Seq(AnswerType)
        /\ Len(Append(answers[p], v)) = Len(answers[p]) + 1
    BY <1>1
  <1>. QED BY <1>1, <1>2, <1>3

(* An answer, with the notes as they were, is one thing more that is owed. *)
LEMMA AnswerOwed ==
    ASSUME DaemonOK, NEW p \in Process, NEW v \in AnswerType, Answer(p, v),
           daemon'.accepting = daemon.accepting, daemon'.receiving = daemon.receiving
    PROVE  /\ Owed(p)' = Owed(p) + 1
           /\ \A q \in Process \ {p} : Owed(q)' = Owed(q)
  <1>1. \A q \in Process : Noted(q)' = Noted(q)
    BY NotesUnchanged
  <1>2. Len(answers'[p]) = Len(answers[p]) + 1 /\ \A q \in Process \ {p} : answers'[q] = answers[q]
    BY AnswerFacts
  <1>3. \A q \in Process : /\ Noted(q) \in Nat /\ Len(answers[q]) \in Nat
                           /\ Owed(q) = Noted(q) + Len(answers[q])
                           /\ Owed(q)' = Noted(q)' + Len(answers'[q])
    BY NotedFacts, NotedNew DEF Owed
  <1>4. Owed(p)' = Owed(p) + 1
    BY <1>1, <1>2, <1>3
  <1>5. \A q \in Process \ {p} : Owed(q)' = Owed(q)
    BY <1>1, <1>2, <1>3
  <1>. QED BY <1>4, <1>5

(* So is a note, with the answers as they were. *)
LEMMA NoteOwed ==
    ASSUME DaemonOK, NEW p \in Process, answers' = answers,
           Noted(p)' = Noted(p) + 1, \A q \in Process \ {p} : Noted(q)' = Noted(q)
    PROVE  /\ Owed(p)' = Owed(p) + 1
           /\ \A q \in Process \ {p} : Owed(q)' = Owed(q)
  <1>1. \A q \in Process : /\ Noted(q) \in Nat /\ Len(answers[q]) \in Nat
                           /\ Owed(q) = Noted(q) + Len(answers[q])
                           /\ Owed(q)' = Noted(q)' + Len(answers[q])
    BY NotedFacts, NotedNew DEF Owed
  <1>. QED BY <1>1

(* An answer to what was noted leaves what is owed as it was. *)
LEMMA NotedAnswered ==
    ASSUME DaemonOK, NEW p \in Process, NEW v \in AnswerType, Answer(p, v),
           Noted(p)' = Noted(p) - 1, \A q \in Process \ {p} : Noted(q)' = Noted(q)
    PROVE  \A q \in Process : Owed(q)' = Owed(q)
  <1>1. Len(answers'[p]) = Len(answers[p]) + 1 /\ \A q \in Process \ {p} : answers'[q] = answers[q]
    BY AnswerFacts
  <1>2. \A q \in Process : /\ Noted(q) \in Nat /\ Len(answers[q]) \in Nat
                           /\ Owed(q) = Noted(q) + Len(answers[q])
                           /\ Owed(q)' = Noted(q)' + Len(answers'[q])
    BY NotedFacts, NotedNew DEF Owed
  <1>3. Owed(p)' = Owed(p)
    BY <1>1, <1>2
  <1>4. \A q \in Process \ {p} : Owed(q)' = Owed(q)
    BY <1>1, <1>2
  <1>. QED BY <1>3, <1>4

LEMMA OwedUnchanged ==
    ASSUME answers' = answers, daemon'.accepting = daemon.accepting,
           daemon'.receiving = daemon.receiving, NEW q \in Process
    PROVE  Owed(q)' = Owed(q)
  BY DEF Owed, Noted

(* The tables, when what is noted of the processes stays as it is. *)
SameNotes(e, d) == e \in DaemonType /\ e.accepting = d.accepting /\ e.receiving = d.receiving

LEMMA UpdateFacts ==
    ASSUME NEW d \in DaemonType
    PROVE  /\ \A n \in Nat : SameNotes([d EXCEPT !.sockets = n], d)
           /\ \A b \in SUBSET (FD \X Addrs) : SameNotes([d EXCEPT !.binded = b], d)
           /\ \A w \in SUBSET (FD \X Sessions) : SameNotes([d EXCEPT !.waiting = w], d)
           /\ \A a \in [Sessions -> Nat] : SameNotes([d EXCEPT !.arrived = a], d)
           /\ \A cn \in SUBSET FD, pk \in [Numbers -> Int] :
                SameNotes([d EXCEPT !.connected = cn, !.packages = pk], d)
           /\ \A pk \in [Numbers -> Int], n \in Int :
                SameNotes([d EXCEPT !.packages = pk, !.inBuffer = n], d)
  <1>1. ASSUME NEW n \in Nat PROVE SameNotes([d EXCEPT !.sockets = n], d)
    BY DEF SameNotes, DaemonType
  <1>2. ASSUME NEW b \in SUBSET (FD \X Addrs) PROVE SameNotes([d EXCEPT !.binded = b], d)
    BY DEF SameNotes, DaemonType
  <1>3. ASSUME NEW w \in SUBSET (FD \X Sessions) PROVE SameNotes([d EXCEPT !.waiting = w], d)
    BY DEF SameNotes, DaemonType
  <1>4. ASSUME NEW a \in [Sessions -> Nat] PROVE SameNotes([d EXCEPT !.arrived = a], d)
    BY DEF SameNotes, DaemonType
  <1>5. ASSUME NEW cn \in SUBSET FD, NEW pk \in [Numbers -> Int]
        PROVE  SameNotes([d EXCEPT !.connected = cn, !.packages = pk], d)
    BY DEF SameNotes, DaemonType
  <1>6. ASSUME NEW pk \in [Numbers -> Int], NEW n \in Int
        PROVE  SameNotes([d EXCEPT !.packages = pk, !.inBuffer = n], d)
    BY DEF SameNotes, DaemonType
  <1>. QED BY <1>1, <1>2, <1>3, <1>4, <1>5, <1>6

(* A call that is served: answered, noted, or the end of the daemon.       *)
OneMore(p) ==
    /\ DaemonOK' /\ \A q \in Process \ {p} : Owed(q)' = Owed(q)
    /\ Owed(p)' = Owed(p) + 1 \/ (phase' = "stopped" /\ Owed(p)' = Owed(p))

LEMMA ServeOwed ==
    ASSUME DaemonOK, NEW p \in Process, NEW c \in Calls, Serve(p, c)
    PROVE  OneMore(p)
  <1>1. WellFormed(c)
    BY CallFacts
  <1>2. daemon \in DaemonType
    BY DEF DaemonOK
  <1>3. ASSUME NEW v \in AnswerType, Answer(p, v), daemon' \in DaemonType,
               daemon'.accepting = daemon.accepting, daemon'.receiving = daemon.receiving
        PROVE  OneMore(p)
    <2>1. DaemonOK'
      BY <1>3, AnswerFacts DEF DaemonOK
    <2>. QED BY <1>3, <2>1, AnswerOwed DEF OneMore
  <1>4. ASSUME Exit PROVE OneMore(p)
    <2>1. DaemonOK' /\ \A q \in Process : Owed(q)' = Owed(q)
      BY <1>4, OwedUnchanged DEF Exit, DaemonOK
    <2>. QED BY <1>4, <2>1 DEF OneMore, Exit
  <1>5. \A n \in Int : Number(n) \in AnswerType
    BY DEF AnswerType
  <1>6. CASE c[1] = "SOCKET" /\ tcpd_SOCKET(p)
    <2>1. daemon.sockets + 1 \in Nat
      BY <1>2 DEF DaemonType
    <2>2. daemon' = [daemon EXCEPT !.sockets = daemon.sockets + 1]
      BY <1>6 DEF tcpd_SOCKET
    <2>3. /\ daemon' \in DaemonType /\ daemon'.accepting = daemon.accepting
          /\ daemon'.receiving = daemon.receiving
      BY <1>2, <2>1, <2>2 DEF DaemonType
    <2>4. Answer(p, Number(daemon.sockets + 1)) /\ Number(daemon.sockets + 1) \in AnswerType
      BY <1>5, <1>6, <2>1 DEF tcpd_SOCKET
    <2>. QED BY <1>3, <2>3, <2>4
  <1>7. CASE c[1] = "BIND" /\ tcpd_BIND(p, c[2], c[3])
    <2>1. CASE CanBind(c[2], c[3]) /\ daemon' = [daemon EXCEPT !.binded = @ \cup {<<c[2], c[3]>>}]
               /\ Answer(p, Number(0))
      <3>1. daemon.binded \cup {<<c[2], c[3]>>} \in SUBSET (FD \X Addrs)
        BY <1>1, <1>2, <1>7 DEF DaemonType, WellFormed
      <3>2. SameNotes([daemon EXCEPT !.binded = daemon.binded \cup {<<c[2], c[3]>>}], daemon)
        BY <1>2, <3>1, UpdateFacts
      <3>3. SameNotes(daemon', daemon)
        BY <2>1, <3>2
      <3>. QED BY <1>3, <1>5, <2>1, <3>3 DEF SameNotes
    <2>. QED BY <1>4, <1>7, <2>1 DEF tcpd_BIND
  <1>8. CASE c[1] = "ACCEPT" /\ tcpd_ACCEPT(p, c[2])
    <2>1. CASE CanAccept(c[2]) /\ daemon' = [daemon EXCEPT !.accepting[c[2]] = p]
               /\ answers' = answers
      <3>1. c[2] \in FD /\ daemon.accepting[c[2]] = None
        BY <1>1, <1>8, <2>1 DEF CanAccept, WellFormed
      <3>2. daemon'.accepting = [daemon.accepting EXCEPT ![c[2]] = p]
            /\ daemon'.receiving = daemon.receiving /\ daemon' \in DaemonType
        BY <1>2, <2>1, <3>1 DEF DaemonType
      <3>3. Noted(p)' = Noted(p) + 1 /\ \A q \in Process \ {p} : Noted(q)' = Noted(q)
        BY <3>1, <3>2, AcceptNoted
      <3>. QED BY <2>1, <3>2, <3>3, NoteOwed DEF OneMore, DaemonOK
    <2>2. CASE Answer(p, Number(-1)) /\ daemon' = daemon
      BY <1>2, <1>3, <1>5, <2>2
    <2>. QED BY <1>8, <2>1, <2>2 DEF tcpd_ACCEPT
  <1>9. CASE c[1] = "RECV" /\ tcpd_RECV(p, c[2], c[3])
    <2>1. CASE CanReceive(c[2], c[3]) /\ daemon' = [daemon EXCEPT !.receiving[c[2]] = <<p, c[3]>>]
               /\ answers' = answers
      <3>1. c[2] \in Sessions /\ c[3] \in Lens /\ daemon.receiving[c[2]] = <<>>
        BY <1>1, <1>9, <2>1 DEF CanReceive, WellFormed
      <3>2. daemon'.receiving = [daemon.receiving EXCEPT ![c[2]] = <<p, c[3]>>]
            /\ daemon'.accepting = daemon.accepting /\ daemon' \in DaemonType
        BY <1>2, <2>1, <3>1 DEF DaemonType
      <3>3. Noted(p)' = Noted(p) + 1 /\ \A q \in Process \ {p} : Noted(q)' = Noted(q)
        BY <3>1, <3>2, ReceiveNoted
      <3>. QED BY <2>1, <3>2, <3>3, NoteOwed DEF OneMore, DaemonOK
    <2>2. CASE Answer(p, Number(Refusal(c[2], c[3]))) /\ daemon' = daemon
      <3>1. Refusal(c[2], c[3]) \in Int
        BY DEF Refusal
      <3>. QED BY <1>2, <1>3, <1>5, <2>2, <3>1
    <2>. QED BY <1>9, <2>1, <2>2 DEF tcpd_RECV
  <1>10. CASE c[1] = "CONNECT" /\ tcpd_CONNECT(p, c[2])
    <2>1. /\ daemon' = [daemon EXCEPT !.connected = @ \cup {c[2]}, !.packages[c[2]] = 0]
          /\ Answer(p, Number(0)) /\ c[2] \in FD
      BY <1>1, <1>10 DEF tcpd_CONNECT, WellFormed
    <2>2. /\ daemon.connected \cup {c[2]} \in SUBSET FD
          /\ [daemon.packages EXCEPT ![c[2]] = 0] \in [Numbers -> Int]
      BY <1>2, <2>1 DEF DaemonType, Numbers
    <2>3. SameNotes([daemon EXCEPT !.connected = daemon.connected \cup {c[2]},
                                   !.packages = [daemon.packages EXCEPT ![c[2]] = 0]], daemon)
      BY <1>2, <2>2, UpdateFacts
    <2>4. SameNotes(daemon', daemon)
      BY <1>2, <2>1, <2>3 DEF DaemonType
    <2>. QED BY <1>3, <1>5, <2>1, <2>4 DEF SameNotes
  <1>11. CASE c[1] = "SEND" /\ tcpd_SEND(p, c[2], c[3])
    <2>1. CASE /\ daemon' = [daemon EXCEPT !.packages[c[2]] = @ + 1, !.inBuffer = @ + 1]
               /\ Answer(p, Number(c[3]))
      <3>1. c[2] \in FD /\ c[3] \in Lens
        BY <1>1, <1>11 DEF WellFormed
      <3>2. c[3] \in Int
        <4>1. \A n \in Lens : n \in Int
          BY CallsAssumption DEF CallsAssumption
        <4>. QED BY <3>1, <4>1, Zenon
      <3>3. /\ [daemon.packages EXCEPT ![c[2]] = @ + 1] \in [Numbers -> Int]
            /\ daemon.inBuffer + 1 \in Int
        BY <1>2, <3>1 DEF DaemonType, Numbers
      <3>4. SameNotes([daemon EXCEPT !.packages = [daemon.packages EXCEPT ![c[2]] = @ + 1],
                                     !.inBuffer = daemon.inBuffer + 1], daemon)
        BY <1>2, <3>3, UpdateFacts
      <3>5. SameNotes(daemon', daemon)
        BY <1>2, <2>1, <3>4 DEF DaemonType
      <3>. QED BY <1>3, <1>5, <2>1, <3>2, <3>5 DEF SameNotes
    <2>. QED BY <1>4, <1>11, <2>1 DEF tcpd_SEND
  <1>. QED BY <1>6, <1>7, <1>8, <1>9, <1>10, <1>11 DEF Serve

(* The daemon's own steps keep what is owed. *)
LEMMA ArriveOwed ==
    ASSUME DaemonOK, Arrive
    PROVE  DaemonOK' /\ \A q \in Process : Owed(q)' = Owed(q)
  <1>1. daemon \in DaemonType
    BY DEF DaemonOK
  <1>2. SameNotes(daemon', daemon)
    <2>1. ASSUME NEW fd \in BindedFD, NEW s \in Sessions,
                 daemon' = [daemon EXCEPT !.waiting = @ \cup {<<fd, s>>}]
          PROVE  SameNotes(daemon', daemon)
      <3>1. fd \in FD
        BY <1>1 DEF BindedFD, DaemonType
      <3>2. daemon.waiting \cup {<<fd, s>>} \in SUBSET (FD \X Sessions)
        BY <1>1, <3>1 DEF DaemonType
      <3>3. SameNotes([daemon EXCEPT !.waiting = daemon.waiting \cup {<<fd, s>>}], daemon)
        BY <1>1, <3>2, UpdateFacts
      <3>. QED BY <2>1, <3>3
    <2>2. ASSUME NEW s \in daemon.accepted, daemon' = [daemon EXCEPT !.arrived[s] = @ + 1]
          PROVE  SameNotes(daemon', daemon)
      <3>1. s \in Sessions /\ [daemon.arrived EXCEPT ![s] = @ + 1] \in [Sessions -> Nat]
        BY <1>1 DEF DaemonType
      <3>2. SameNotes([daemon EXCEPT !.arrived = [daemon.arrived EXCEPT ![s] = @ + 1]], daemon)
        BY <1>1, <3>1, UpdateFacts
      <3>. QED BY <2>2, <3>2
    <2>3. ASSUME NEW fd \in daemon.connected,
                 daemon' = [daemon EXCEPT !.packages[fd] = @ - 1, !.inBuffer = @ - 1]
          PROVE  SameNotes(daemon', daemon)
      <3>1. /\ fd \in FD /\ [daemon.packages EXCEPT ![fd] = @ - 1] \in [Numbers -> Int]
            /\ daemon.inBuffer - 1 \in Int
        BY <1>1 DEF DaemonType, Numbers
      <3>2. SameNotes([daemon EXCEPT !.packages = [daemon.packages EXCEPT ![fd] = @ - 1],
                                     !.inBuffer = daemon.inBuffer - 1], daemon)
        BY <1>1, <3>1, UpdateFacts
      <3>. QED BY <1>1, <2>3, <3>2 DEF DaemonType
    <2>. QED BY <2>1, <2>2, <2>3 DEF Arrive, Arrivals
  <1>3. answers' = answers
    BY DEF Arrive
  <1>. QED BY <1>2, <1>3, OwedUnchanged DEF DaemonOK, SameNotes

LEMMA AcceptCallbackOwed ==
    ASSUME DaemonOK, SolveAcceptCallback
    PROVE  DaemonOK' /\ \A q \in Process : Owed(q)' = Owed(q)
  <1>0. daemon \in DaemonType
    BY DEF DaemonOK
  <1>1. CASE Acceptable = {} /\ UNCHANGED <<daemon, answers>>
    BY <1>1, OwedUnchanged DEF DaemonOK
  <1>2. ASSUME NEW w \in Acceptable, Answer(daemon.accepting[w[1]], Number(w[2])),
               daemon' = [daemon EXCEPT !.waiting = @ \ {w}, !.accepted = @ \cup {w[2]},
                                        !.accepting[w[1]] = None]
        PROVE  DaemonOK' /\ \A q \in Process : Owed(q)' = Owed(q)
    <2>1. /\ w[1] \in FD /\ w[2] \in Sessions /\ daemon.accepting[w[1]] \in Process
          /\ Number(w[2]) \in AnswerType
      <3>1. w[1] \in FD /\ w[2] \in Sessions /\ daemon.accepting[w[1]] # None
        BY <1>0 DEF Acceptable, DaemonType
      <3>2. w[2] \in Int
        <4>1. \A n \in Sessions : n \in Int
          BY CallsAssumption DEF CallsAssumption
        <4>. QED BY <3>1, <4>1, Zenon
      <3>. QED BY SocketIsNumber, <1>0, <3>1, <3>2 DEF DaemonType, AnswerType
    <2>2. /\ daemon'.accepting = [daemon.accepting EXCEPT ![w[1]] = None]
          /\ daemon'.receiving = daemon.receiving /\ daemon' \in DaemonType
      BY <1>0, <1>2, <2>1 DEF DaemonType
    <2>3. PICK p \in Process : p = daemon.accepting[w[1]]
      BY <2>1
    <2>4. Noted(p)' = Noted(p) - 1 /\ \A q \in Process \ {p} : Noted(q)' = Noted(q)
      BY <2>1, <2>2, <2>3, AcceptCleared
    <2>5. Answer(p, Number(w[2]))
      BY <1>2, <2>3
    <2>6. \A q \in Process : Owed(q)' = Owed(q)
      BY <2>1, <2>4, <2>5, NotedAnswered
    <2>. QED BY <2>1, <2>2, <2>5, <2>6, AnswerFacts DEF DaemonOK
  <1>. QED BY <1>1, <1>2 DEF SolveAcceptCallback

LEMMA RecvCallbackOwed ==
    ASSUME DaemonOK, SolveRecvCallback
    PROVE  /\ DaemonOK' /\ \A q \in Process : Owed(q)' = Owed(q)
  <1>0. daemon \in DaemonType
    BY DEF DaemonOK
  <1>1. CASE UNCHANGED <<daemon, answers>>
    BY <1>1, OwedUnchanged DEF DaemonOK
  <1>2. ASSUME NEW s \in Receivable, NEW p, NEW len,
               p = daemon.receiving[s][1], len = daemon.receiving[s][2],
               Answer(p, Bytes(s, daemon.done[s], len)),
               daemon' = [daemon EXCEPT !.done = HandedOver(s, len), !.receiving[s] = <<>>]
        PROVE  DaemonOK' /\ \A q \in Process : Owed(q)' = Owed(q)
    <2>1. /\ s \in Sessions /\ p \in Process /\ len \in Lens /\ len \in Nat
          /\ daemon.receiving[s] # <<>> /\ daemon.done[s] \in Nat
          /\ Bytes(s, daemon.done[s], len) \in AnswerType
      <3>1. s \in Sessions /\ daemon.receiving[s] # <<>> /\ daemon.done[s] \in Nat
        BY <1>0 DEF Receivable, DaemonType
      <3>2. daemon.receiving[s] \in Process \X Lens
        BY <1>0, <3>1 DEF DaemonType
      <3>3. p \in Process /\ len \in Lens /\ len \in Nat
        BY <1>2, <3>2, CallsAssumption DEF CallsAssumption
      <3>. QED BY <3>1, <3>3 DEF AnswerType
    <2>2. HandedOver(s, len) \in [Sessions -> Nat]
      BY <1>0, <2>1 DEF HandedOver, DaemonType
    <2>3. /\ daemon'.receiving = [daemon.receiving EXCEPT ![s] = <<>>]
          /\ daemon'.accepting = daemon.accepting /\ daemon' \in DaemonType
      BY <1>0, <1>2, <2>1, <2>2 DEF DaemonType
    <2>4. Noted(p)' = Noted(p) - 1 /\ \A q \in Process \ {p} : Noted(q)' = Noted(q)
      BY <1>2, <2>1, <2>3, ReceiveCleared
    <2>5. \A q \in Process : Owed(q)' = Owed(q)
      BY <1>2, <2>1, <2>4, NotedAnswered
    <2>. QED BY <1>2, <2>1, <2>3, <2>5, AnswerFacts DEF DaemonOK
  <1>. QED BY <1>1, <1>2 DEF SolveRecvCallback, Exit

LEMMA ReturnPlaces ==
    ASSUME FrontOK, WholeCalls, NEW p \in Process, Return(p), ~Asked(p)
    PROVE  /\ FrontOK' /\ WholeCalls' /\ \A q \in Process : Asked(q)' <=> Asked(q)
           /\ front'[p].status = "idle" /\ \A q \in Process \ {p} : front'[q] = front[q]
  <1>1. /\ front' = [front EXCEPT ![p].status = "idle", ![p].call = <<>>]
        /\ reading' = reading /\ inbox' = inbox /\ front[p].status = "waiting"
    BY DEF Return, daemonVars
  <1>2. /\ front' \in [Process -> FrontType]
        /\ front'[p].status = "idle" /\ front'[p].call = NoCall
        /\ \A q \in Process \ {p} : front'[q] = front[q]
    <2>. DEFINE f == [front[p] EXCEPT !.status = "idle", !.call = <<>>]
    <2>1. front[p] \in FrontType /\ front \in [Process -> FrontType]
      BY DEF FrontOK
    <2>2. f \in FrontType /\ f.status = "idle" /\ f.call = NoCall
      BY <2>1 DEF FrontType, Status, NoCall
    <2>3. front' = [front EXCEPT ![p] = f]
      BY <1>1
    <2>. HIDE DEF f
    <2>. QED BY <2>1, <2>2, <2>3
  <1>3. FrontOK'
    BY <1>1, <1>2 DEF FrontOK
  <1>4. Total' = Total /\ \A q \in Process : Asked(q)' <=> Asked(q)
    BY <1>1 DEF Total, Asked
  <1>5. PICK place : Places(place)
    BY DEF WholeCalls
  <1>6. \A i \in 1..Len(Total) : /\ Total[i].from \in Process /\ Total[i].from # p
                                 /\ front'[Total[i].from] = front[Total[i].from]
    BY <1>2, AskedFacts, FrontFacts
  <1>7. \A i \in 1..Len(Total) : CallOf(i)' = CallOf(i)
    BY <1>4, <1>6 DEF CallOf
  <1>8. ASSUME NEW i \in 1..Len(Total) PROVE IsPlace(place, i)'
    <2>1. IsPlace(place, i)
      BY <1>5 DEF Places
    <2>2. CallOf(i)' = CallOf(i) /\ front'[Total'[i].from] = front[Total[i].from]
      BY <1>4, <1>6, <1>7
    <2>. QED BY <1>1, <1>4, <2>1, <2>2 DEF IsPlace
  <1>9. ASSUME NEW q \in Process PROVE IsSender(place, q)'
    <2>1. Total # <<>> => Len(Total) \in 1..Len(Total)
      BY FrontFacts DEF Queue
    <2>2. OpenOf(place, q)' <=> OpenOf(place, q)
      BY <1>4, <1>7, <2>1 DEF OpenOf, Open
    <2>3. IsSender(place, q)
      BY <1>5 DEF Places
    <2>4. CASE q = p
      <3>1. ~OpenOf(place, q)
        BY <1>6, <2>1, <2>4 DEF OpenOf, Open
      <3>. QED BY <1>2, <2>2, <2>4, <3>1 DEF IsSender
    <2>5. CASE q # p
      <3>1. front'[q] = front[q]
        BY <1>2, <2>5
      <3>2. /\ Rest(q, place[Len(Total)])' = Rest(q, place[Len(Total)])
            /\ Messages(q, front[q].call)' = Messages(q, front[q].call)
        BY <1>4, <3>1 DEF Rest
      <3>. QED BY <1>4, <2>2, <2>3, <3>1, <3>2 DEF IsSender
    <2>. QED BY <2>4, <2>5
  <1>10. Places(place)'
    BY <1>4, <1>5, <1>8, <1>9 DEF Places
  <1>. QED BY <1>2, <1>3, <1>4, <1>10 DEF WholeCalls

-----------------------------------------------------------------------------
(* An answer is owed to a process exactly while its call is served and not  *)
(* answered: the invariant, with what it rests on.                         *)
Due(p) == front[p].status = "waiting" /\ ~Asked(p)

OwedOK(p) ==
    /\ Owed(p) \in {0, 1}
    /\ Owed(p) = 1 => Due(p)
    /\ phase # "stopped" /\ Due(p) => Owed(p) = 1

TurnInv == FrontOK /\ WholeCalls /\ DaemonOK /\ \A p \in Process : OwedOK(p)

LEMMA TurnInit == ASSUME CallsInit PROVE TurnInv
  <1>1. /\ front = [p \in Process |-> [status |-> "idle", call |-> <<>>, out |-> <<>>]]
        /\ inbox = <<>> /\ reading = <<>> /\ answers = [p \in Process |-> <<>>]
    BY DEF CallsInit
  <1>2. FrontOK
    <2>1. [status |-> "idle", call |-> <<>>, out |-> <<>>] \in FrontType /\ <<>> \in Queue
      BY DEF FrontType, Status, NoCall, Queue
    <2>. QED BY <1>1, <2>1 DEF FrontOK, NoCall
  <1>3. Total = <<>> /\ Len(Total) = 0 /\ 1..Len(Total) = {}
    <2>1. Total = <<>>
      BY <1>1 DEF Total
    <2>. QED BY <2>1
  <1>4. Places([i \in 1..Len(Total) |-> 0])
    <2>1. \A p \in Process : front[p].status = "idle"
      BY <1>1
    <2>2. \A p \in Process : IsSender([i \in 1..Len(Total) |-> 0], p)
      BY <1>3, <2>1 DEF IsSender, OpenOf, Open
    <2>. QED BY <1>3, <2>2 DEF Places
  <1>5. DaemonOK
    <2>1. daemon \in DaemonType
      BY DEF CallsInit, DaemonType
    <2>2. answers \in [Process -> Seq(AnswerType)]
      BY <1>1
    <2>. QED BY <2>1, <2>2 DEF DaemonOK
  <1>6. ASSUME NEW p \in Process PROVE OwedOK(p)
    <2>1. AcceptsOf(p) = {} /\ ReceivesOf(p) = {}
      BY SocketIsNumber, CallsAssumption DEF CallsInit, AcceptsOf, ReceivesOf, CallsAssumption, None
    <2>2. Owed(p) = 0
      BY <1>1, <1>5, <2>1, NotedFacts, FS_EmptySet DEF Owed
    <2>. QED BY <1>1, <2>2 DEF OwedOK, Due
  <1>. QED BY <1>2, <1>4, <1>5, <1>6 DEF TurnInv, WholeCalls

(* Steps that change neither what is owed nor whose answer is due.         *)
LEMMA OwedKept ==
    ASSUME NEW p \in Process, OwedOK(p), Owed(p)' = Owed(p), Due(p)' <=> Due(p),
           phase' # "stopped" => phase # "stopped"
    PROVE  OwedOK(p)'
  BY DEF OwedOK

LEMMA TurnStep ==
    ASSUME [Unmixed]_callsVars, TurnInv, [CallsNext]_callsVars
    PROVE  TurnInv'
  <1>0. FrontOK /\ WholeCalls /\ DaemonOK /\ \A p \in Process : OwedOK(p)
    BY DEF TurnInv
  <1>1. ASSUME NEW p \in Process, NEW c \in Calls, Begin(p, c) PROVE TurnInv'
    <2>1. /\ FrontOK' /\ WholeCalls' /\ \A q \in Process : Asked(q)' <=> Asked(q)
      BY <1>0, <1>1, BeginPlaces
    <2>2. /\ daemon' = daemon /\ answers' = answers /\ phase' = phase
          /\ front[p].status = "idle" /\ front'[p].status = "sending"
          /\ \A q \in Process \ {p} : front'[q] = front[q]
      BY <1>0, <1>1 DEF Begin, daemonVars, FrontOK
    <2>3. DaemonOK'
      BY <1>0, <2>2 DEF DaemonOK
    <2>4. ASSUME NEW q \in Process PROVE OwedOK(q)'
      <3>1. Owed(q)' = Owed(q)
        BY <2>2, OwedUnchanged
      <3>2. Due(q)' <=> Due(q)
        BY <2>1, <2>2 DEF Due
      <3>. QED BY <1>0, <2>2, <3>1, <3>2, OwedKept
    <2>. QED BY <2>1, <2>3, <2>4 DEF TurnInv
  <1>2. ASSUME NEW p \in Process, SendDatagram(p), Unmixed PROVE TurnInv'
    <2>1. /\ FrontOK' /\ WholeCalls' /\ Asked(p)'
          /\ \A q \in Process \ {p} : Asked(q)' <=> Asked(q)
          /\ \A q \in Process \ {p} : front'[q] = front[q]
      BY <1>0, <1>2, SendPlaces
    <2>2. /\ daemon' = daemon /\ answers' = answers /\ phase' = phase
          /\ front[p].status = "sending"
      BY <1>2 DEF SendDatagram
    <2>3. DaemonOK'
      BY <1>0, <2>2 DEF DaemonOK
    <2>4. ASSUME NEW q \in Process PROVE OwedOK(q)'
      <3>1. Owed(q)' = Owed(q)
        BY <2>2, OwedUnchanged
      <3>2. Due(q)' <=> Due(q)
        BY <2>1, <2>2 DEF Due
      <3>. QED BY <1>0, <2>2, <3>1, <3>2, OwedKept
    <2>. QED BY <2>1, <2>3, <2>4 DEF TurnInv
  <1>3. ASSUME NEW p \in Process, Return(p) PROVE TurnInv'
    <2>1. /\ front[p].status = "waiting" /\ answers[p] # <<>>
          /\ answers' = [answers EXCEPT ![p] = Tail(@)]
          /\ daemon' = daemon /\ phase' = phase
      BY <1>3 DEF Return, daemonVars
    <2>2. answers \in [Process -> Seq(AnswerType)] /\ answers[p] \in Seq(AnswerType)
      BY <1>0 DEF DaemonOK
    <2>3. Len(answers[p]) \in Nat /\ Len(answers[p]) >= 1
      BY <2>1, <2>2
    <2>4. /\ answers' \in [Process -> Seq(AnswerType)]
          /\ Len(answers'[p]) = Len(answers[p]) - 1
          /\ \A q \in Process \ {p} : answers'[q] = answers[q]
      <3>1. Tail(answers[p]) \in Seq(AnswerType) /\ Len(Tail(answers[p])) = Len(answers[p]) - 1
        BY <2>1, <2>2
      <3>. QED BY <2>1, <2>2, <3>1
    <2>5. Owed(p) = 1 /\ Due(p)
      <3>1. Noted(p) \in Nat /\ Owed(p) = Noted(p) + Len(answers[p])
        BY <1>0, NotedFacts DEF Owed
      <3>2. Owed(p) \in {0, 1} /\ (Owed(p) = 1 => Due(p))
        BY <1>0 DEF OwedOK
      <3>. QED BY <2>3, <3>1, <3>2
    <2>6. /\ FrontOK' /\ WholeCalls' /\ \A q \in Process : Asked(q)' <=> Asked(q)
          /\ front'[p].status = "idle" /\ \A q \in Process \ {p} : front'[q] = front[q]
      BY <1>0, <1>3, <2>5, ReturnPlaces DEF Due
    <2>7. DaemonOK'
      BY <1>0, <2>1, <2>4 DEF DaemonOK
    <2>8. \A q \in Process : /\ Noted(q)' = Noted(q) /\ Noted(q) \in Nat
                             /\ Owed(q)' = Noted(q)' + Len(answers'[q])
                             /\ Owed(q) = Noted(q) + Len(answers[q])
      BY <1>0, <2>1, NotesUnchanged, NotedNew, NotedFacts DEF Owed
    <2>9. ASSUME NEW q \in Process PROVE OwedOK(q)'
      <3>1. CASE q = p
        <4>1. Owed(p)' = 0
          BY <2>3, <2>4, <2>5, <2>8
        <4>2. ~Due(p)'
          BY <2>6 DEF Due
        <4>. QED BY <3>1, <4>1, <4>2 DEF OwedOK
      <3>2. CASE q # p
        <4>1. Owed(q)' = Owed(q)
          BY <2>4, <2>8, <3>2
        <4>2. Due(q)' <=> Due(q)
          BY <2>6, <3>2 DEF Due
        <4>. QED BY <1>0, <2>1, <4>1, <4>2, OwedKept
      <3>. QED BY <3>1, <3>2
    <2>. QED BY <2>6, <2>7, <2>9 DEF TurnInv
  <1>4. CASE Fetch
    <2>1. /\ FrontOK' /\ WholeCalls' /\ front' = front /\ phase = "select"
          /\ QuietFetch \/ \E p \in Process : ServedFetch(p)
      BY <1>0, <1>4, FetchPlaces
    <2>2. CASE QuietFetch
      <3>1. DaemonOK'
        BY <1>0, <2>2 DEF QuietFetch, DaemonOK
      <3>2. ASSUME NEW q \in Process PROVE OwedOK(q)'
        <4>1. Owed(q)' = Owed(q)
          BY <2>2, OwedUnchanged DEF QuietFetch
        <4>2. Due(q)' <=> Due(q)
          BY <2>1, <2>2 DEF Due, QuietFetch
        <4>. QED BY <1>0, <2>1, <2>2, <4>1, <4>2, OwedKept DEF QuietFetch
      <3>. QED BY <2>1, <3>1, <3>2 DEF TurnInv
    <2>3. ASSUME NEW p \in Process, ServedFetch(p) PROVE TurnInv'
      <3>1. /\ front[p].status = "waiting" /\ Asked(p) /\ ~Asked(p)'
            /\ \A q \in Process \ {p} : Asked(q)' <=> Asked(q)
            /\ Serve(p, front[p].call)
        BY <2>3 DEF ServedFetch
      <3>2. front[p].call \in Calls
        BY <1>0, <3>1, FrontFacts
      <3>3. OneMore(p)
        BY <1>0, <3>1, <3>2, ServeOwed
      <3>4. ASSUME NEW q \in Process PROVE OwedOK(q)'
        <4>1. CASE q = p
          <5>1. ~Due(p) /\ Due(p)'
            BY <2>1, <3>1 DEF Due
          <5>2. Owed(p) = 0
            BY <1>0, <5>1 DEF OwedOK
          <5>3. Owed(p)' = 1 \/ (phase' = "stopped" /\ Owed(p)' = 0)
            BY <3>3, <5>2 DEF OneMore
          <5>. QED BY <4>1, <5>1, <5>3 DEF OwedOK
        <4>2. CASE q # p
          <5>1. Owed(q)' = Owed(q)
            BY <3>3, <4>2 DEF OneMore
          <5>2. Due(q)' <=> Due(q)
            BY <2>1, <3>1, <4>2 DEF Due
          <5>. QED BY <1>0, <2>1, <5>1, <5>2, OwedKept
        <4>. QED BY <4>1, <4>2
      <3>. QED BY <2>1, <3>3, <3>4 DEF TurnInv, OneMore
    <2>. QED BY <2>1, <2>2, <2>3
  <1>5. ASSUME FrontOK', WholeCalls', DaemonOK', front' = front, reading' = reading, inbox' = inbox,
               phase # "stopped", \A q \in Process : Owed(q)' = Owed(q)
        PROVE  TurnInv'
    <2>1. ASSUME NEW q \in Process PROVE OwedOK(q)'
      <3>1. Due(q)' <=> Due(q)
        BY <1>5 DEF Due, Asked
      <3>. QED BY <1>0, <1>5, <3>1, OwedKept
    <2>. QED BY <1>5, <2>1 DEF TurnInv
  <1>6. ASSUME front' = front, reading' = reading, inbox' = inbox
        PROVE  FrontOK' /\ WholeCalls'
    <2>1. FrontOK'
      BY <1>0, <1>6 DEF FrontOK
    <2>2. PICK place : Places(place)
      BY <1>0 DEF WholeCalls
    <2>3. Total' = Total /\ \A i : CallOf(i)' = CallOf(i)
      BY <1>6 DEF Total, CallOf
    <2>4. ASSUME NEW i \in 1..Len(Total) PROVE IsPlace(place, i)'
      <3>1. IsPlace(place, i)
        BY <2>2 DEF Places
      <3>. QED BY <1>6, <2>3, <3>1 DEF IsPlace
    <2>5. ASSUME NEW q \in Process PROVE IsSender(place, q)'
      <3>1. IsSender(place, q)
        BY <2>2 DEF Places
      <3>2. /\ OpenOf(place, q)' <=> OpenOf(place, q)
            /\ Asked(q)' <=> Asked(q)
            /\ Rest(q, place[Len(Total)])' = Rest(q, place[Len(Total)])
            /\ Messages(q, front[q].call)' = Messages(q, front[q].call)
        BY <1>6, <2>3 DEF OpenOf, Open, Asked, Rest
      <3>. QED BY <1>6, <3>1, <3>2 DEF IsSender
    <2>6. WholeCalls'
      BY <2>2, <2>3, <2>4, <2>5 DEF WholeCalls, Places
    <2>. QED BY <2>1, <2>6
  <1>7. CASE Arrive
    <2>1. /\ front' = front /\ reading' = reading /\ inbox' = inbox /\ phase # "stopped"
      BY <1>7 DEF Arrive
    <2>. QED BY <1>0, <1>5, <1>6, <1>7, <2>1, ArriveOwed
  <1>8. CASE SolveAcceptCallback
    <2>1. /\ front' = front /\ reading' = reading /\ inbox' = inbox /\ phase # "stopped"
      BY <1>8 DEF SolveAcceptCallback
    <2>. QED BY <1>0, <1>5, <1>6, <1>8, <2>1, AcceptCallbackOwed
  <1>9. CASE SolveRecvCallback
    <2>1. /\ front' = front /\ reading' = reading /\ inbox' = inbox /\ phase # "stopped"
      BY <1>9 DEF SolveRecvCallback
    <2>. QED BY <1>0, <1>5, <1>6, <1>9, <2>1, RecvCallbackOwed
  <1>10. CASE UNCHANGED callsVars
    <2>1. /\ front' = front /\ reading' = reading /\ inbox' = inbox /\ phase' = phase
          /\ daemon' = daemon /\ answers' = answers
      BY <1>10 DEF callsVars
    <2>2. FrontOK' /\ WholeCalls'
      BY <1>6, <2>1
    <2>3. DaemonOK'
      BY <1>0, <2>1 DEF DaemonOK
    <2>4. ASSUME NEW q \in Process PROVE OwedOK(q)'
      <3>1. Owed(q)' = Owed(q)
        BY <2>1, OwedUnchanged
      <3>2. Due(q)' <=> Due(q)
        BY <2>1 DEF Due, Asked
      <3>. QED BY <1>0, <2>1, <3>1, <3>2, OwedKept
    <2>. QED BY <2>2, <2>3, <2>4 DEF TurnInv
  <1>. QED BY <1>1, <1>2, <1>3, <1>4, <1>7, <1>8, <1>9, <1>10 DEF CallsNext

(***************************************************************************)
(* As long as no call is sent into the middle of another (tcpudp.c sends a *)
(* call as several datagrams to one socket), each process that waits and   *)
(* has been served is owed one answer, and nobody else is owed any.        *)
(***************************************************************************)
THEOREM OneAnswerIsOwed == CallsSpec /\ [][Unmixed]_callsVars => []OwedOne
  <1>1. CallsInit => TurnInv
    BY TurnInit
  <1>2. TurnInv /\ [CallsNext]_callsVars /\ [Unmixed]_callsVars => TurnInv'
    BY TurnStep
  <1>3. TurnInv => OwedOne
    <2>. SUFFICES ASSUME TurnInv, phase # "stopped", NEW p \in Process
                  PROVE  Noted(p) + Len(answers[p])
                           = IF front[p].status = "waiting" /\ ~Asked(p) THEN 1 ELSE 0
      BY DEF OwedOne
    <2>. QED BY DEF TurnInv, OwedOK, Owed, Due
  <1>. QED BY <1>1, <1>2, <1>3, PTL DEF CallsSpec

-----------------------------------------------------------------------------
(***************************************************************************)
(* That an answer is one to the call its process is in.                    *)
(*                                                                         *)
(* TablesOK relates what was returned to the tables of the daemon, NotesOK  *)
(* its notes to the calls, AnswersOK the answers on the way to the calls,   *)
(* to what was returned before and to each other, and SocketsOK counts the  *)
(* sockets there are room for.                                             *)
(***************************************************************************)
GivenType ==
    [opened : SUBSET Nat, taken : SUBSET Sessions, read : SUBSET (Sessions \X Nat),
     latest : {<<>>} \cup (Process \X AnswerType)]

TablesOK ==
    /\ given \in GivenType
    /\ given.opened \subseteq 1..daemon.sockets
    /\ given.taken \subseteq daemon.accepted
    /\ \A s \in Sessions : /\ daemon.done[s] <= daemon.arrived[s] /\ daemon.arrived[s] <= MaxBytes
                           /\ \A i \in Nat : <<s, i>> \in given.read => i < daemon.done[s]
    /\ \A w \in daemon.waiting : /\ w[2] \notin daemon.accepted
                                 /\ \A x \in daemon.waiting : x[2] = w[2] => x = w

NotesOK ==
    /\ \A fd \in FD : daemon.accepting[fd] # None => front[daemon.accepting[fd]].call = ACCEPT(fd)
    /\ \A s \in Sessions : daemon.receiving[s] # <<>> =>
         /\ daemon.receiving[s][2] # 0
         /\ front[daemon.receiving[s][1]].call = RECV(s, daemon.receiving[s][2])

AnswersTo(c, v) ==
    \/ c[1] = "SOCKET" /\ \E n \in 1..daemon.sockets : v = Number(n) /\ n \notin given.opened
    \/ c[1] \in {"BIND", "CONNECT"} /\ v = Number(0)
    \/ c[1] = "ACCEPT" /\ v = Number(-1)
    \/ c[1] = "ACCEPT" /\ \E s \in daemon.accepted : v = Number(s) /\ s \notin given.taken
    \/ c[1] = "RECV" /\ \E from \in 0..MaxBytes :
         /\ v = Bytes(c[2], from, c[3]) /\ from + c[3] <= daemon.done[c[2]]
         /\ \A i \in Nat : from <= i /\ i < from + c[3] => <<c[2], i>> \notin given.read
    \/ c[1] = "RECV" /\ c[3] = 0 /\ v = Number(0)
    \/ c[1] = "RECV" /\ c[3] # 0 /\ v \in {Number(-2), Number(-3)}
    \/ c[1] = "SEND" /\ v = Number(c[3])

(* Two answers hand out different sockets, sessions and bytes. *)
Apart(c, v, d, w) ==
    /\ c[1] = "SOCKET" /\ d[1] = "SOCKET" => v # w
    /\ c[1] = "ACCEPT" /\ d[1] = "ACCEPT" => v # w \/ v = Number(-1)
    /\ c[1] = "RECV" /\ d[1] = "RECV" /\ v[1] = "bytes" /\ w[1] = "bytes" /\ c[2] = d[2] =>
         v[3] + v[4] <= w[3] \/ w[3] + w[4] <= v[3]

AnswersOK ==
    \A p \in Process : answers[p] # <<>> =>
        /\ AnswersTo(front[p].call, Head(answers[p]))
        /\ \A q \in Process \ {p} : answers[q] # <<>> =>
             Apart(front[p].call, Head(answers[p]), front[q].call, Head(answers[q]))

InSocket == {p \in Process : front[p].call = SOCKET}
Unserved == {p \in InSocket : front[p].status = "sending" \/ Asked(p)}

SocketsOK ==
    /\ Cardinality(given.opened) + Cardinality(InSocket) <= MaxFD
    /\ daemon.sockets + Cardinality(Unserved)
         <= Cardinality(given.opened) + Cardinality(InSocket)

RightInv == TurnInv /\ TablesOK /\ NotesOK /\ AnswersOK /\ SocketsOK

LEMMA SmallFacts ==
    /\ \A n \in Lens \cup Sessions : n \in Nat /\ n \in Int
    /\ \A m, n : Number(m) = Number(n) => m = n
    /\ \A n : Number(n)[1] = "number" /\ Number(n)[2] = n
    /\ \A s, i, n : /\ Bytes(s, i, n)[1] = "bytes" /\ Bytes(s, i, n)[2] = s
                    /\ Bytes(s, i, n)[3] = i /\ Bytes(s, i, n)[4] = n
    /\ \A n, s, i, l : Number(n) # Bytes(s, i, l)
  <1>1. \A n \in Lens \cup Sessions : n \in Nat /\ n \in Int
    BY CallsAssumption DEF CallsAssumption
  <1>2. \A m, n : Number(m) = Number(n) => m = n
    BY DEF Number
  <1>3. \A n : Number(n)[1] = "number" /\ Number(n)[2] = n
    BY DEF Number
  <1>4. \A s, i, n : /\ Bytes(s, i, n)[1] = "bytes" /\ Bytes(s, i, n)[2] = s
                     /\ Bytes(s, i, n)[3] = i /\ Bytes(s, i, n)[4] = n
    BY DEF Bytes
  <1>5. \A n, s, i, l : Number(n) # Bytes(s, i, l)
    <2>. SUFFICES ASSUME NEW n, NEW s, NEW i, NEW l, Number(n) = Bytes(s, i, l) PROVE FALSE
      OBVIOUS
    <2>1. Number(n)[1] = "number" /\ Bytes(s, i, l)[1] = "bytes"
      BY <1>3, <1>4
    <2>2. "number" = "bytes"
      BY <2>1, Zenon
    <2>. QED BY <2>2
  <1>. QED BY <1>1, <1>2, <1>3, <1>4, <1>5

LEMMA OneLong ==
    ASSUME NEW S, NEW s \in Seq(S), Len(s) = 1
    PROVE  Tail(s) = <<>> /\ Head(s) \in S
  <1>1. s # <<>>
    OBVIOUS
  <1>2. Tail(s) \in Seq(S) /\ Len(Tail(s)) = Len(s) - 1 /\ Head(s) \in S
    BY <1>1, HeadTailProperties
  <1>3. Len(Tail(s)) = 0
    BY <1>2
  <1>. QED BY <1>2, <1>3, EmptySeq, Zenon

(* A process has one answer at most, and then no notes. *)
LEMMA OneAnswer ==
    ASSUME TurnInv, NEW p \in Process
    PROVE  /\ answers[p] \in Seq(AnswerType)
           /\ answers[p] # <<>> =>
                /\ Owed(p) = 1 /\ Due(p) /\ Len(answers[p]) = 1 /\ Tail(answers[p]) = <<>>
                /\ Head(answers[p]) \in AnswerType
                /\ AcceptsOf(p) = {} /\ ReceivesOf(p) = {}
           /\ Owed(p) = 0 => answers[p] = <<>> /\ AcceptsOf(p) = {} /\ ReceivesOf(p) = {}
           /\ AcceptsOf(p) # {} \/ ReceivesOf(p) # {} => answers[p] = <<>> /\ Due(p)
  <1>1. DaemonOK /\ OwedOK(p) /\ answers[p] \in Seq(AnswerType)
    BY DEF TurnInv, DaemonOK
  <1>2. /\ Owed(p) = (Cardinality(AcceptsOf(p)) + Cardinality(ReceivesOf(p))) + Len(answers[p])
        /\ Cardinality(AcceptsOf(p)) \in Nat /\ Cardinality(ReceivesOf(p)) \in Nat
        /\ Len(answers[p]) \in Nat
        /\ IsFiniteSet(AcceptsOf(p)) /\ IsFiniteSet(ReceivesOf(p))
    BY <1>1, NotedFacts DEF Owed
  <1>3. /\ Cardinality(AcceptsOf(p)) = 0 <=> AcceptsOf(p) = {}
        /\ Cardinality(ReceivesOf(p)) = 0 <=> ReceivesOf(p) = {}
    BY <1>2, FS_EmptySet
  <1>4. Len(answers[p]) = 0 <=> answers[p] = <<>>
    BY <1>1
  <1>5. Len(answers[p]) = 1 => Tail(answers[p]) = <<>> /\ Head(answers[p]) \in AnswerType
    <2>. SUFFICES ASSUME Len(answers[p]) = 1
                  PROVE  Tail(answers[p]) = <<>> /\ Head(answers[p]) \in AnswerType
      OBVIOUS
    <2>. QED BY <1>1, OneLong
  <1>6. Owed(p) \in {0, 1} /\ (Owed(p) = 1 => Due(p))
    BY <1>1 DEF OwedOK
  <1>7. answers[p] # <<>> =>
          /\ Owed(p) = 1 /\ Len(answers[p]) = 1
          /\ Cardinality(AcceptsOf(p)) = 0 /\ Cardinality(ReceivesOf(p)) = 0
    <2>. DEFINE a == Cardinality(AcceptsOf(p))
                b == Cardinality(ReceivesOf(p))
                l == Len(answers[p])
    <2>2. a \in Nat /\ b \in Nat /\ l \in Nat /\ Owed(p) = (a + b) + l /\ Owed(p) \in {0, 1}
      BY <1>2, <1>6
    <2>. HIDE DEF a, b, l
    <2>3. l # 0 => Owed(p) = 1 /\ l = 1 /\ a = 0 /\ b = 0
      BY <2>2
    <2>. QED BY <1>4, <2>3 DEF a, b, l
  <1>8. Owed(p) = 0 => /\ Len(answers[p]) = 0
                       /\ Cardinality(AcceptsOf(p)) = 0 /\ Cardinality(ReceivesOf(p)) = 0
    BY <1>2
  <1>9. AcceptsOf(p) # {} \/ ReceivesOf(p) # {} => Due(p)
    BY <1>2, <1>3, <1>6
  <1>. QED BY <1>1, <1>3, <1>4, <1>5, <1>6, <1>7, <1>8, <1>9, Zenon

(* The tables of the daemon only grow, so that answers stay right. *)
Grows ==
    /\ daemon'.sockets \in Nat /\ daemon.sockets \in Nat /\ daemon.sockets <= daemon'.sockets
    /\ daemon.accepted \subseteq daemon'.accepted
    /\ \A s \in Sessions : /\ daemon.done[s] \in Nat /\ daemon'.done[s] \in Nat
                           /\ daemon.done[s] <= daemon'.done[s]

GivenSame ==
    given'.opened = given.opened /\ given'.taken = given.taken /\ given'.read = given.read

LEMMA StaysAnswer ==
    ASSUME Grows, GivenSame, NEW c \in Calls, NEW v, AnswersTo(c, v)
    PROVE  AnswersTo(c, v)'
  <1>1. WellFormed(c)
    BY CallFacts
  <1>2. CASE c[1] = "SOCKET" /\ \E n \in 1..daemon.sockets : v = Number(n) /\ n \notin given.opened
    <2>1. \A n \in 1..daemon.sockets : n \in 1..daemon'.sockets
      BY DEF Grows
    <2>. QED BY <1>2, <2>1, Zenon DEF AnswersTo, GivenSame
  <1>3. CASE c[1] = "ACCEPT" /\ \E s \in daemon.accepted : v = Number(s) /\ s \notin given.taken
    BY <1>3, Zenon DEF AnswersTo, GivenSame, Grows
  <1>4. ASSUME c[1] = "RECV", NEW from \in 0..MaxBytes,
               v = Bytes(c[2], from, c[3]), from + c[3] <= daemon.done[c[2]],
               \A i \in Nat : from <= i /\ i < from + c[3] => <<c[2], i>> \notin given.read
        PROVE  AnswersTo(c, v)'
    <2>1. c[2] \in Sessions /\ c[3] \in Nat
      BY <1>1, <1>4, SmallFacts DEF WellFormed
    <2>2. from + c[3] <= daemon'.done[c[2]]
      <3>0. MaxBytes \in Nat
        BY CallsAssumption DEF CallsAssumption
      <3>1. from \in Nat /\ daemon.done[c[2]] \in Nat /\ daemon'.done[c[2]] \in Nat
            /\ daemon.done[c[2]] <= daemon'.done[c[2]]
        BY <2>1, <3>0 DEF Grows
      <3>. QED BY <1>4, <2>1, <3>1
    <2>. QED BY <1>4, <2>2, Zenon DEF AnswersTo, GivenSame
  <1>. QED BY <1>2, <1>3, <1>4, Zenon DEF AnswersTo

LEMMA CallOfAnswer ==
    ASSUME TurnInv, NEW p \in Process, answers[p] # <<>>
    PROVE  front[p].call \in Calls
  <1>1. front[p].status = "waiting" /\ FrontOK
    BY OneAnswer DEF Due, TurnInv
  <1>. QED BY <1>1, FrontFacts

LEMMA ApartBothWays ==
    ASSUME NEW c, NEW v, NEW d, NEW w, Apart(c, v, d, w)
    PROVE  Apart(d, w, c, v)
  BY DEF Apart

LEMMA AnswersKept ==
    ASSUME TurnInv, AnswersOK, Grows, GivenSame, answers' = answers,
           \A p \in Process : answers[p] # <<>> => front'[p].call = front[p].call
    PROVE  AnswersOK'
  <1>. SUFFICES ASSUME NEW p \in Process, answers[p] # <<>>
                PROVE  /\ AnswersTo(front[p].call, Head(answers[p]))'
                       /\ \A q \in Process \ {p} : answers[q] # <<>> =>
                            Apart(front[p].call, Head(answers[p]), front[q].call, Head(answers[q]))'
    BY DEF AnswersOK
  <1>1. PICK c, v : c \in Calls /\ c = front[p].call /\ v = Head(answers[p])
    BY CallOfAnswer
  <1>2. front'[p].call = c /\ Head(answers'[p]) = v
    BY <1>1
  <1>3. AnswersTo(c, v)
    BY <1>1 DEF AnswersOK
  <1>4. AnswersTo(c, v)'
    BY <1>1, <1>3, StaysAnswer
  <1>5. AnswersTo(front[p].call, Head(answers[p]))'
    BY <1>2, <1>4, Zenon DEF AnswersTo
  <1>6. ASSUME NEW q \in Process \ {p}, answers[q] # <<>>
        PROVE  Apart(front[p].call, Head(answers[p]), front[q].call, Head(answers[q]))'
    <2>1. /\ Apart(front[p].call, Head(answers[p]), front[q].call, Head(answers[q]))
          /\ front'[q].call = front[q].call /\ front'[p].call = front[p].call
      BY <1>6 DEF AnswersOK
    <2>. QED BY <2>1, Zenon DEF Apart
  <1>. QED BY <1>5, <1>6

LEMMA AnswerAdded ==
    ASSUME TurnInv, AnswersOK, Grows, GivenSame, NEW p \in Process, NEW v \in AnswerType,
           answers[p] = <<>>, Answer(p, v), NEW c \in Calls, c = front[p].call,
           \A q \in Process : front'[q].call = front[q].call,
           AnswersTo(c, v)',
           \A q \in Process \ {p} : answers[q] # <<>> =>
             Apart(c, v, front[q].call, Head(answers[q]))
    PROVE  AnswersOK'
  <1>1. answers'[p] = <<v>> /\ Head(answers'[p]) = v /\ front'[p].call = c
    <2>1. DaemonOK
      BY DEF TurnInv
    <2>2. answers'[p] = Append(answers[p], v)
      BY <2>1, AnswerFacts
    <2>3. Append(<<>>, v) = <<v>> /\ Head(<<v>>) = v
      OBVIOUS
    <2>. QED BY <2>2, <2>3
  <1>2. \A q \in Process \ {p} : answers'[q] = answers[q]
    BY AnswerFacts DEF TurnInv
  <1>3. ASSUME NEW q \in Process \ {p}, answers[q] # <<>>
        PROVE  /\ AnswersTo(front[q].call, Head(answers[q]))'
               /\ Apart(front[p].call, Head(answers[p]), front[q].call, Head(answers[q]))'
               /\ Apart(front[q].call, Head(answers[q]), front[p].call, Head(answers[p]))'
    <2>1. PICK d, w : d \in Calls /\ d = front[q].call /\ w = Head(answers[q])
      BY <1>3, CallOfAnswer
    <2>2. front'[q].call = d /\ Head(answers'[q]) = w
      BY <1>2, <2>1
    <2>3. AnswersTo(d, w)
      BY <1>3, <2>1 DEF AnswersOK
    <2>4. AnswersTo(d, w)'
      BY <2>1, <2>3, StaysAnswer
    <2>5. AnswersTo(front[q].call, Head(answers[q]))'
      BY <2>2, <2>4, Zenon DEF AnswersTo
    <2>6. Apart(c, v, d, w) /\ Apart(d, w, c, v)
      BY <1>3, <2>1, ApartBothWays
    <2>. QED BY <1>1, <2>2, <2>5, <2>6, Zenon DEF Apart
  <1>4. ASSUME NEW q \in Process \ {p}, NEW r \in Process \ {p}, q # r,
               answers[q] # <<>>, answers[r] # <<>>
        PROVE  Apart(front[q].call, Head(answers[q]), front[r].call, Head(answers[r]))'
    <2>1. /\ Apart(front[q].call, Head(answers[q]), front[r].call, Head(answers[r]))
          /\ front'[q].call = front[q].call /\ front'[r].call = front[r].call
      BY <1>4 DEF AnswersOK
    <2>. QED BY <1>2, <2>1, Zenon DEF Apart
  <1>5. AnswersTo(front[p].call, Head(answers[p]))'
    BY <1>1, Zenon DEF AnswersTo
  <1>6. \A q \in Process \ {p} : answers'[q] # <<>> => answers[q] # <<>>
    BY <1>2
  <1>. QED BY <1>3, <1>4, <1>5, <1>6 DEF AnswersOK

(* Steps that change neither tables, nor answers, nor what is returned.    *)
LEMMA GrowsSame ==
    ASSUME DaemonOK, daemon' = daemon
    PROVE  Grows
  <1>1. daemon \in DaemonType
    BY DEF DaemonOK
  <1>2. /\ daemon.sockets \in Nat
        /\ \A s \in Sessions : daemon.done[s] \in Nat
    BY <1>1 DEF DaemonType
  <1>. QED BY <1>2 DEF Grows

LEMMA TablesKept ==
    ASSUME TablesOK, daemon' = daemon, GivenSame, given' \in GivenType
    PROVE  TablesOK'
  BY DEF TablesOK, GivenSame

LEMMA QuietRight ==
    ASSUME RightInv, daemon' = daemon, answers' = answers, given' = given,
           \A q \in Process : front'[q].call = front[q].call,
           \A q \in InSocket : q \in Unserved' <=> q \in Unserved
    PROVE  TablesOK' /\ NotesOK' /\ AnswersOK' /\ SocketsOK'
  <1>1. TurnInv /\ TablesOK /\ NotesOK /\ AnswersOK /\ SocketsOK /\ DaemonOK
    BY DEF RightInv, TurnInv
  <1>2. GivenSame /\ Grows /\ given' \in GivenType
    BY <1>1, GrowsSame DEF GivenSame, TablesOK
  <1>3. TablesOK'
    BY <1>1, <1>2, TablesKept
  <1>4. NotesOK'
    <2>1. daemon \in DaemonType
      BY <1>1 DEF DaemonOK
    <2>2. /\ \A fd \in FD : daemon.accepting[fd] # None => daemon.accepting[fd] \in Process
          /\ \A s \in Sessions : daemon.receiving[s] # <<>> => daemon.receiving[s][1] \in Process
      BY SocketIsNumber, <2>1 DEF DaemonType
    <2>. QED BY <1>1, <2>2 DEF NotesOK
  <1>5. AnswersOK'
    BY <1>1, <1>2, AnswersKept
  <1>6. InSocket' = InSocket
    BY DEF InSocket
  <1>7. Unserved' = Unserved
    BY <1>6 DEF Unserved
  <1>8. SocketsOK'
    BY <1>1, <1>6, <1>7, Zenon DEF SocketsOK
  <1>. QED BY <1>3, <1>4, <1>5, <1>8

LEMMA SocketCounts ==
    ASSUME DaemonOK, TablesOK
    PROVE  /\ IsFiniteSet(InSocket) /\ IsFiniteSet(Unserved) /\ IsFiniteSet(given.opened)
           /\ Cardinality(InSocket) \in Nat /\ Cardinality(Unserved) \in Nat
           /\ Cardinality(given.opened) \in Nat /\ daemon.sockets \in Nat /\ MaxFD \in Nat
           /\ InSocket \subseteq Process /\ Unserved \subseteq InSocket
  <1>1. InSocket \subseteq Process /\ Unserved \subseteq InSocket /\ IsFiniteSet(Process)
    BY CallsAssumption DEF CallsAssumption, InSocket, Unserved
  <1>2. IsFiniteSet(InSocket) /\ IsFiniteSet(Unserved)
    BY <1>1, FS_Subset
  <1>3. daemon.sockets \in Nat /\ given.opened \subseteq 1..daemon.sockets /\ MaxFD \in Nat
    BY CallsAssumption DEF DaemonOK, DaemonType, TablesOK, CallsAssumption
  <1>4. IsFiniteSet(1..daemon.sockets)
    BY <1>3, FS_Interval
  <1>5. IsFiniteSet(given.opened)
    BY <1>3, <1>4, FS_Subset
  <1>. QED BY <1>1, <1>2, <1>3, <1>5, FS_CardinalityType

LEMMA BeginRight ==
    ASSUME RightInv, NEW p \in Process, NEW c \in Calls, Begin(p, c)
    PROVE  TablesOK' /\ NotesOK' /\ AnswersOK' /\ SocketsOK'
  <1>1. /\ TurnInv /\ TablesOK /\ NotesOK /\ AnswersOK /\ SocketsOK /\ DaemonOK
        /\ FrontOK /\ WholeCalls /\ OwedOK(p) /\ daemon \in DaemonType
    BY DEF RightInv, TurnInv, DaemonOK
  <1>2. /\ daemon' = daemon /\ answers' = answers /\ given' = [given EXCEPT !.latest = <<>>]
        /\ front[p].status = "idle" /\ front'[p].status = "sending" /\ front'[p].call = c
        /\ \A q \in Process \ {p} : front'[q] = front[q]
        /\ front[p].call = NoCall
    BY <1>1 DEF Begin, daemonVars, FrontOK
  <1>3. /\ given' \in GivenType /\ GivenSame
    <2>1. given \in GivenType
      BY <1>1 DEF TablesOK
    <2>. QED BY <1>2, <2>1 DEF GivenType, GivenSame
  <1>4. TablesOK'
    BY <1>1, <1>2, <1>3, TablesKept
  <1>5. answers[p] = <<>> /\ AcceptsOf(p) = {} /\ ReceivesOf(p) = {}
    <2>1. Owed(p) = 0
      BY <1>1, <1>2 DEF OwedOK, Due
    <2>. QED BY <1>1, <2>1, OneAnswer
  <1>6. AnswersOK'
    <2>1. Grows
      BY <1>1, <1>2, GrowsSame
    <2>2. \A q \in Process : answers[q] # <<>> => front'[q].call = front[q].call
      BY <1>2, <1>5
    <2>. QED BY <1>1, <1>2, <1>3, <2>1, <2>2, AnswersKept
  <1>7. NotesOK'
    <2>1. \A fd \in FD : daemon.accepting[fd] # None => daemon.accepting[fd] \in Process \ {p}
      BY SocketIsNumber, <1>1, <1>5 DEF DaemonType, AcceptsOf
    <2>2. \A s \in Sessions : daemon.receiving[s] # <<>> =>
                                daemon.receiving[s][1] \in Process \ {p}
      BY <1>1, <1>5 DEF DaemonType, ReceivesOf
    <2>. QED BY <1>1, <1>2, <2>1, <2>2 DEF NotesOK
  <1>8. \A q \in Process : Asked(q)' <=> Asked(q)
    BY <1>1, BeginPlaces
  <1>9. SocketsOK'
    <2>0. /\ IsFiniteSet(InSocket) /\ IsFiniteSet(Unserved)
          /\ Cardinality(InSocket) \in Nat /\ Cardinality(Unserved) \in Nat
          /\ Cardinality(given.opened) \in Nat /\ daemon.sockets \in Nat /\ MaxFD \in Nat
          /\ InSocket \subseteq Process
      BY <1>1, SocketCounts
    <2>1. p \notin InSocket /\ p \notin Unserved
      <3>1. NoCall # SOCKET
        BY DEF NoCall, SOCKET
      <3>. QED BY <1>2, <3>1 DEF InSocket, Unserved
    <2>2. CASE c = SOCKET
      <3>1. InSocket' = InSocket \cup {p} /\ Unserved' = Unserved \cup {p}
        BY <1>2, <1>8, <2>1, <2>2 DEF InSocket, Unserved
      <3>2. /\ Cardinality(InSocket') = Cardinality(InSocket) + 1
            /\ Cardinality(Unserved') = Cardinality(Unserved) + 1
        <4>1. p \notin InSocket /\ p \notin Unserved /\ IsFiniteSet(InSocket) /\ IsFiniteSet(Unserved)
          BY <2>0, <2>1
        <4>. QED BY <3>1, <4>1, MemberAdded, Zenon
      <3>3. Cardinality(given.opened) + Cardinality(InSocket) < MaxFD
        BY <2>2 DEF Begin, Known, InSocket, SOCKET
      <3>4. /\ Cardinality(given.opened) + Cardinality(InSocket') <= MaxFD
            /\ daemon.sockets + Cardinality(Unserved')
                 <= Cardinality(given.opened) + Cardinality(InSocket')
        BY <1>1, <2>0, <3>2, <3>3 DEF SocketsOK
      <3>. QED BY <1>2, <1>3, <3>4 DEF SocketsOK, GivenSame
    <2>3. CASE c # SOCKET
      <3>1. InSocket' = InSocket
        BY <1>2, <2>1, <2>3 DEF InSocket
      <3>2. Unserved' = Unserved
        BY <1>2, <1>8, <2>0, <2>1, <3>1 DEF Unserved
      <3>. QED BY <1>1, <1>2, <1>3, <3>1, <3>2, Zenon DEF SocketsOK, GivenSame
    <2>. QED BY <2>2, <2>3
  <1>. QED BY <1>4, <1>6, <1>7, <1>9

(* What the return of answer v to call c adds to what was returned.        *)
PlainAnswer(c, v) ==
    \/ c[1] \in {"BIND", "CONNECT"} /\ v = Number(0)
    \/ c[1] = "ACCEPT" /\ v = Number(-1)
    \/ c[1] = "RECV" /\ c[3] = 0 /\ v = Number(0)
    \/ c[1] = "RECV" /\ c[3] # 0 /\ v \in {Number(-2), Number(-3)}
    \/ c[1] = "SEND" /\ v = Number(c[3])

HandsSocket(n) ==
    /\ n \in 1..daemon.sockets /\ n \notin given.opened
    /\ given'.opened = given.opened \cup {n}
    /\ given'.taken = given.taken /\ given'.read = given.read

HandsSession(s) ==
    /\ s \in daemon.accepted /\ s \notin given.taken
    /\ given'.taken = given.taken \cup {s}
    /\ given'.opened = given.opened /\ given'.read = given.read

HandsBytes(s, from, len) ==
    /\ from \in 0..MaxBytes /\ from + len <= daemon.done[s]
    /\ \A i \in Nat : from <= i /\ i < from + len => <<s, i>> \notin given.read
    /\ given'.read = given.read \cup BytesOf(Bytes(s, from, len))
    /\ given'.opened = given.opened /\ given'.taken = given.taken

Hands(c, v) ==
    \/ GivenSame /\ PlainAnswer(c, v)
    \/ c[1] = "SOCKET" /\ \E n : v = Number(n) /\ HandsSocket(n)
    \/ c[1] = "ACCEPT" /\ \E s : v = Number(s) /\ HandsSession(s)
    \/ c[1] = "RECV" /\ \E from : v = Bytes(c[2], from, c[3]) /\ HandsBytes(c[2], from, c[3])

LEMMA BytesOfFacts ==
    ASSUME NEW s \in Sessions, NEW from \in Nat, NEW len \in Nat
    PROVE  /\ BytesOf(Bytes(s, from, len)) \subseteq Sessions \X Nat
           /\ \A t, i : <<t, i>> \in BytesOf(Bytes(s, from, len))
                          <=> t = s /\ i \in Nat /\ from <= i /\ i < from + len
  <1>1. BytesOf(Bytes(s, from, len)) = {<<s, i>> : i \in from..from + len - 1}
    BY DEF BytesOf, Bytes
  <1>2. \A i : i \in from..from + len - 1 <=> i \in Nat /\ from <= i /\ i < from + len
    OBVIOUS
  <1>. QED BY <1>1, <1>2

LEMMA ReturnHands ==
    ASSUME DaemonOK, TablesOK, NEW p \in Process, NEW c \in Calls, NEW v \in AnswerType,
           AnswersTo(c, v), given' = [Recorded(c, v) EXCEPT !.latest = <<p, v>>]
    PROVE  given' \in GivenType /\ Hands(c, v) /\ given'.latest = <<p, v>>
  <1>0. given \in GivenType /\ daemon \in DaemonType /\ WellFormed(c)
    BY CallFacts DEF TablesOK, DaemonOK
  <1>. DEFINE l == <<p, v>>
  <1>1. l \in Process \X AnswerType
    OBVIOUS
  <1>. HIDE DEF l
  <1>3. ASSUME c[1] = "SOCKET", NEW n \in 1..daemon.sockets, v = Number(n), n \notin given.opened
        PROVE  given' \in GivenType /\ Hands(c, v) /\ given'.latest = <<p, v>>
    <2>1. Recorded(c, v) = [given EXCEPT !.opened = given.opened \cup {n}]
      BY <1>3 DEF Recorded, Number
    <2>2. given.opened \cup {n} \in SUBSET Nat
      BY <1>0 DEF GivenType
    <2>3. /\ given' \in GivenType /\ given'.latest = l
          /\ given'.opened = given.opened \cup {n}
          /\ given'.taken = given.taken /\ given'.read = given.read
      <3>1. given' = [given EXCEPT !.opened = given.opened \cup {n}, !.latest = l]
        BY <1>0, <2>1 DEF GivenType, l
      <3>. QED BY <1>0, <1>1, <2>2, <3>1 DEF GivenType
    <2>4. HandsSocket(n)
      BY <1>3, <2>3 DEF HandsSocket
    <2>. QED BY <1>3, <2>3, <2>4 DEF Hands, l
  <1>4. ASSUME c[1] = "ACCEPT", NEW s \in daemon.accepted, v = Number(s), s \notin given.taken
        PROVE  given' \in GivenType /\ Hands(c, v) /\ given'.latest = <<p, v>>
    <2>0. s \in Sessions /\ s \in Nat
      BY <1>0, SmallFacts DEF DaemonType
    <2>1. Recorded(c, v) = [given EXCEPT !.taken = given.taken \cup {s}]
      BY <1>4, <2>0 DEF Recorded, Number
    <2>2. given.taken \cup {s} \in SUBSET Sessions
      BY <1>0, <2>0 DEF GivenType
    <2>3. /\ given' \in GivenType /\ given'.latest = l
          /\ given'.taken = given.taken \cup {s}
          /\ given'.opened = given.opened /\ given'.read = given.read
      <3>1. given' = [given EXCEPT !.taken = given.taken \cup {s}, !.latest = l]
        BY <1>0, <2>1 DEF GivenType, l
      <3>. QED BY <1>0, <1>1, <2>2, <3>1 DEF GivenType
    <2>4. HandsSession(s)
      BY <1>4, <2>3 DEF HandsSession
    <2>. QED BY <1>4, <2>3, <2>4 DEF Hands, l
  <1>5. ASSUME c[1] = "RECV", NEW from \in 0..MaxBytes,
               v = Bytes(c[2], from, c[3]), from + c[3] <= daemon.done[c[2]],
               \A i \in Nat : from <= i /\ i < from + c[3] => <<c[2], i>> \notin given.read
        PROVE  given' \in GivenType /\ Hands(c, v) /\ given'.latest = <<p, v>>
    <2>0. c[2] \in Sessions /\ c[3] \in Nat /\ from \in Nat
      BY <1>0, <1>5, SmallFacts, CallsAssumption DEF WellFormed, CallsAssumption
    <2>1. Recorded(c, v) = [given EXCEPT !.read = given.read \cup BytesOf(v)]
      BY <1>5, SmallFacts DEF Recorded
    <2>2. given.read \cup BytesOf(v) \in SUBSET (Sessions \X Nat)
      BY <1>0, <1>5, <2>0, BytesOfFacts DEF GivenType
    <2>3. /\ given' \in GivenType /\ given'.latest = l
          /\ given'.read = given.read \cup BytesOf(v)
          /\ given'.opened = given.opened /\ given'.taken = given.taken
      <3>1. given' = [given EXCEPT !.read = given.read \cup BytesOf(v), !.latest = l]
        BY <1>0, <2>1 DEF GivenType, l
      <3>. QED BY <1>0, <1>1, <2>2, <3>1 DEF GivenType
    <2>4. HandsBytes(c[2], from, c[3])
      BY <1>5, <2>3 DEF HandsBytes
    <2>. QED BY <1>5, <2>3, <2>4 DEF Hands, l
  <1>6. CASE PlainAnswer(c, v)
    <2>1. Recorded(c, v) = given
      BY <1>6, SmallFacts DEF PlainAnswer, Recorded
    <2>2. given' \in GivenType /\ GivenSame /\ given'.latest = l
      <3>1. given' = [given EXCEPT !.latest = l]
        BY <2>1 DEF l
      <3>. QED BY <1>0, <1>1, <3>1 DEF GivenType, GivenSame
    <2>. QED BY <1>6, <2>2 DEF Hands, l
  <1>. QED BY <1>3, <1>4, <1>5, <1>6 DEF AnswersTo, PlainAnswer

(* Answers that are apart from the one that is returned stay right. *)
LEMMA HandsKeeps ==
    ASSUME DaemonOK, daemon' = daemon, NEW c \in Calls, NEW v, Hands(c, v),
           NEW d \in Calls, NEW w, AnswersTo(d, w), Apart(c, v, d, w)
    PROVE  AnswersTo(d, w)'
  <1>0. WellFormed(c) /\ WellFormed(d)
    BY CallFacts
  <1>1. CASE GivenSame
    BY <1>1, GrowsSame, StaysAnswer
  <1>2. ASSUME c[1] = "SOCKET", NEW n, v = Number(n), HandsSocket(n)
        PROVE  AnswersTo(d, w)'
    <2>1. ASSUME d[1] = "SOCKET", NEW m \in 1..daemon.sockets, w = Number(m), m \notin given.opened
          PROVE  AnswersTo(d, w)'
      <3>1. m # n
        BY <1>2, <2>1 DEF Apart
      <3>2. m \notin given'.opened
        BY <1>2, <2>1, <3>1 DEF HandsSocket
      <3>. QED BY <2>1, <3>2, Zenon DEF AnswersTo
    <2>2. given'.taken = given.taken /\ given'.read = given.read
      BY <1>2 DEF HandsSocket
    <2>. QED BY <2>1, <2>2, Zenon DEF AnswersTo
  <1>3. ASSUME c[1] = "ACCEPT", NEW s, v = Number(s), HandsSession(s)
        PROVE  AnswersTo(d, w)'
    <2>1. ASSUME d[1] = "ACCEPT", NEW t \in daemon.accepted, w = Number(t), t \notin given.taken
          PROVE  AnswersTo(d, w)'
      <3>1. s \in Nat
        <4>1. s \in Sessions
          BY <1>3 DEF HandsSession, DaemonOK, DaemonType
        <4>. QED BY <4>1, SmallFacts
      <3>2. v # Number(-1)
        BY <1>3, <3>1, SmallFacts
      <3>3. t # s
        BY <1>3, <2>1, <3>2 DEF Apart
      <3>4. t \notin given'.taken
        BY <1>3, <2>1, <3>3 DEF HandsSession
      <3>. QED BY <2>1, <3>4, Zenon DEF AnswersTo
    <2>2. given'.opened = given.opened /\ given'.read = given.read
      BY <1>3 DEF HandsSession
    <2>. QED BY <2>1, <2>2, Zenon DEF AnswersTo
  <1>4. ASSUME c[1] = "RECV", NEW from, v = Bytes(c[2], from, c[3]), HandsBytes(c[2], from, c[3])
        PROVE  AnswersTo(d, w)'
    <2>0. c[2] \in Sessions /\ c[3] \in Nat /\ from \in Nat
      <3>1. c[2] \in Sessions /\ c[3] \in Lens
        BY <1>0, <1>4 DEF WellFormed
      <3>2. from \in Nat
        BY <1>4, CallsAssumption DEF HandsBytes, CallsAssumption
      <3>. QED BY <3>1, <3>2, SmallFacts
    <2>1. ASSUME d[1] = "RECV", NEW from2 \in 0..MaxBytes,
                 w = Bytes(d[2], from2, d[3]), from2 + d[3] <= daemon.done[d[2]],
                 \A i \in Nat : from2 <= i /\ i < from2 + d[3] => <<d[2], i>> \notin given.read
          PROVE  AnswersTo(d, w)'
      <3>0. d[2] \in Sessions /\ d[3] \in Nat /\ from2 \in Nat
        <4>1. d[2] \in Sessions /\ d[3] \in Lens
          BY <1>0, <2>1 DEF WellFormed
        <4>2. from2 \in Nat
          BY CallsAssumption DEF CallsAssumption
        <4>. QED BY <4>1, <4>2, SmallFacts
      <3>1. c[2] = d[2] => from + c[3] <= from2 \/ from2 + d[3] <= from
        BY <1>4, <2>1, SmallFacts DEF Apart
      <3>2. ASSUME NEW i \in Nat, from2 <= i, i < from2 + d[3] PROVE <<d[2], i>> \notin given'.read
        <4>1. ~(d[2] = c[2] /\ from <= i /\ i < from + c[3])
          BY <2>0, <3>0, <3>1, <3>2
        <4>2. <<d[2], i>> \notin BytesOf(Bytes(c[2], from, c[3]))
          BY <2>0, <4>1, BytesOfFacts
        <4>. QED BY <1>4, <2>1, <3>2, <4>2 DEF HandsBytes
      <3>. QED BY <2>1, <3>2, Zenon DEF AnswersTo
    <2>2. given'.opened = given.opened /\ given'.taken = given.taken
      BY <1>4 DEF HandsBytes
    <2>. QED BY <2>1, <2>2, Zenon DEF AnswersTo
  <1>. QED BY <1>1, <1>2, <1>3, <1>4 DEF Hands

LEMMA ReturnRight ==
    ASSUME RightInv, NEW p \in Process, Return(p), NEW c, c = front[p].call,
           NEW v, v = Head(answers[p])
    PROVE  /\ TablesOK' /\ NotesOK' /\ AnswersOK' /\ SocketsOK'
           /\ c \in Calls /\ v \in AnswerType /\ Hands(c, v) /\ given'.latest = <<p, v>>
           /\ front'[p].call = NoCall /\ \A q \in Process \ {p} : front'[q] = front[q]
  <1>1. /\ TurnInv /\ TablesOK /\ NotesOK /\ AnswersOK /\ SocketsOK /\ DaemonOK
        /\ FrontOK /\ WholeCalls /\ daemon \in DaemonType
    BY DEF RightInv, TurnInv, DaemonOK
  <1>2. /\ answers[p] # <<>> /\ answers' = [answers EXCEPT ![p] = Tail(@)]
        /\ given' = [Recorded(c, v) EXCEPT !.latest = <<p, v>>]
        /\ daemon' = daemon
    BY DEF Return, daemonVars
  <1>3. /\ Due(p) /\ Tail(answers[p]) = <<>> /\ v \in AnswerType
        /\ AcceptsOf(p) = {} /\ ReceivesOf(p) = {}
    BY <1>1, <1>2, OneAnswer
  <1>4. c \in Calls /\ AnswersTo(c, v)
    BY <1>1, <1>2, CallOfAnswer DEF AnswersOK
  <1>5. given' \in GivenType /\ Hands(c, v) /\ given'.latest = <<p, v>>
    BY <1>1, <1>2, <1>3, <1>4, ReturnHands
  <1>6. /\ front'[p].status = "idle" /\ \A q \in Process \ {p} : front'[q] = front[q]
        /\ \A q \in Process : Asked(q)' <=> Asked(q)
        /\ front'[p].call = NoCall /\ FrontOK'
    <2>1. /\ front'[p].status = "idle" /\ \A q \in Process \ {p} : front'[q] = front[q]
          /\ \A q \in Process : Asked(q)' <=> Asked(q)
          /\ FrontOK'
      BY <1>1, <1>3, ReturnPlaces DEF Due
    <2>2. front'[p].call = NoCall
      BY <2>1 DEF FrontOK
    <2>. QED BY <2>1, <2>2
  <1>7. answers'[p] = <<>> /\ \A q \in Process \ {p} : answers'[q] = answers[q]
    BY <1>1, <1>2, <1>3 DEF DaemonOK
  <1>8. TablesOK'
    <2>1. /\ given'.opened \subseteq 1..daemon.sockets /\ given'.taken \subseteq daemon.accepted
      BY <1>1, <1>5 DEF Hands, GivenSame, HandsSocket, HandsSession, HandsBytes, TablesOK
    <2>2. ASSUME NEW s \in Sessions, NEW i \in Nat, <<s, i>> \in given'.read
          PROVE  i < daemon.done[s]
      <3>1. CASE <<s, i>> \in given.read
        BY <1>1, <3>1 DEF TablesOK
      <3>2. CASE <<s, i>> \notin given.read
        <4>1. PICK from : HandsBytes(c[2], from, c[3]) /\ c[1] = "RECV"
          BY <1>5, <2>2, <3>2 DEF Hands, GivenSame, HandsSocket, HandsSession
        <4>2. c[2] \in Sessions /\ c[3] \in Nat /\ from \in Nat
          <5>1. c[2] \in Sessions /\ c[3] \in Lens
            BY <1>4, <4>1, CallFacts DEF WellFormed
          <5>2. from \in Nat
            BY <4>1, CallsAssumption DEF HandsBytes, CallsAssumption
          <5>. QED BY <5>1, <5>2, SmallFacts
        <4>3. <<s, i>> \in BytesOf(Bytes(c[2], from, c[3])) /\ from + c[3] <= daemon.done[c[2]]
          BY <2>2, <3>2, <4>1 DEF HandsBytes
        <4>4. s = c[2] /\ i < from + c[3]
          BY <4>2, <4>3, BytesOfFacts
        <4>5. daemon.done[c[2]] \in Nat
          BY <1>1, <4>2 DEF DaemonType
        <4>. QED BY <4>2, <4>3, <4>4, <4>5
      <3>. QED BY <3>1, <3>2
    <2>. QED BY <1>1, <1>2, <1>5, <2>1, <2>2 DEF TablesOK
  <1>9. NotesOK'
    <2>1. \A fd \in FD : daemon.accepting[fd] # None => daemon.accepting[fd] \in Process \ {p}
      BY SocketIsNumber, <1>1, <1>3 DEF DaemonType, AcceptsOf
    <2>2. \A s \in Sessions : daemon.receiving[s] # <<>> =>
                                daemon.receiving[s][1] \in Process \ {p}
      BY <1>1, <1>3 DEF DaemonType, ReceivesOf
    <2>. QED BY <1>1, <1>2, <1>6, <2>1, <2>2 DEF NotesOK
  <1>10. AnswersOK'
    <2>1. ASSUME NEW q \in Process \ {p}, answers[q] # <<>>
          PROVE  AnswersTo(front[q].call, Head(answers[q]))'
      <3>1. PICK d, w : d \in Calls /\ d = front[q].call /\ w = Head(answers[q])
        BY <1>1, <2>1, CallOfAnswer
      <3>2. AnswersTo(d, w) /\ Apart(c, v, d, w)
        BY <1>1, <1>2, <2>1, <3>1 DEF AnswersOK
      <3>3. AnswersTo(d, w)'
        BY <3>1, <1>1, <1>2, <1>4, <1>5, <3>2, HandsKeeps
      <3>4. front'[q].call = d /\ Head(answers'[q]) = w
        BY <1>6, <1>7, <3>1
      <3>. QED BY <3>3, <3>4, Zenon DEF AnswersTo
    <2>2. ASSUME NEW q \in Process \ {p}, NEW r \in Process \ {p}, q # r,
                 answers[q] # <<>>, answers[r] # <<>>
          PROVE  Apart(front[q].call, Head(answers[q]), front[r].call, Head(answers[r]))'
      <3>1. /\ Apart(front[q].call, Head(answers[q]), front[r].call, Head(answers[r]))
            /\ front'[q].call = front[q].call /\ front'[r].call = front[r].call
        BY <1>1, <1>6, <2>2 DEF AnswersOK
      <3>. QED BY <1>7, <3>1, Zenon DEF Apart
    <2>. QED BY <1>7, <2>1, <2>2 DEF AnswersOK
  <1>11. SocketsOK'
    <2>0. /\ IsFiniteSet(InSocket) /\ IsFiniteSet(Unserved) /\ IsFiniteSet(given.opened)
          /\ Cardinality(InSocket) \in Nat /\ Cardinality(Unserved) \in Nat
          /\ Cardinality(given.opened) \in Nat /\ daemon.sockets \in Nat /\ MaxFD \in Nat
          /\ InSocket \subseteq Process /\ Unserved \subseteq InSocket
      BY <1>1, SocketCounts
    <2>1. InSocket' = InSocket \ {p} /\ NoCall # SOCKET
      <3>1. NoCall # SOCKET
        BY DEF NoCall, SOCKET
      <3>. QED BY <1>6, <3>1 DEF InSocket
    <2>2. Unserved' = Unserved
      <3>1. p \notin Unserved
        BY <1>3 DEF Unserved, Due
      <3>. QED BY <1>6, <2>0, <2>1, <3>1 DEF Unserved
    <2>3. ASSUME c[1] = "SOCKET", NEW n, HandsSocket(n) PROVE SocketsOK'
      <3>1. p \in InSocket
        BY <1>4, <2>3, CallFacts DEF InSocket, WellFormed
      <3>2. Cardinality(InSocket') = Cardinality(InSocket) - 1
        BY <2>0, <2>1, <3>1, MemberTaken, Zenon
      <3>3. Cardinality(given'.opened) = Cardinality(given.opened) + 1
        <4>1. given'.opened = given.opened \cup {n} /\ n \notin given.opened
          BY <2>3 DEF HandsSocket
        <4>. QED BY <2>0, <4>1, MemberAdded, Zenon
      <3>. QED BY <1>1, <1>2, <2>0, <2>2, <3>2, <3>3 DEF SocketsOK
    <2>4. ASSUME c[1] # "SOCKET", given'.opened = given.opened PROVE SocketsOK'
      <3>1. p \notin InSocket
        BY <2>4 DEF InSocket, SOCKET
      <3>2. InSocket' = InSocket
        BY <2>1, <3>1
      <3>. QED BY <1>1, <1>2, <2>2, <2>4, <3>2, Zenon DEF SocketsOK
    <2>5. \/ c[1] = "SOCKET" /\ \E n : HandsSocket(n)
          \/ c[1] # "SOCKET" /\ given'.opened = given.opened
      BY <1>5 DEF Hands, GivenSame, HandsSession, HandsBytes, PlainAnswer
    <2>. QED BY <2>3, <2>4, <2>5
  <1>. QED BY <1>3, <1>4, <1>5, <1>6, <1>8, <1>9, <1>10, <1>11

(* What a served call leaves as it is. *)
TablesSame ==
    /\ daemon'.waiting = daemon.waiting /\ daemon'.accepted = daemon.accepted
    /\ daemon'.arrived = daemon.arrived /\ daemon'.done = daemon.done

NotesSame == daemon'.accepting = daemon.accepting /\ daemon'.receiving = daemon.receiving

LEMMA TablesSameFacts ==
    ASSUME DaemonOK, TablesOK, given' = given, TablesSame,
           daemon'.sockets \in Nat, daemon.sockets <= daemon'.sockets
    PROVE  TablesOK' /\ Grows /\ GivenSame
  <1>1. daemon \in DaemonType
    BY DEF DaemonOK
  <1>2. /\ daemon.sockets \in Nat
        /\ \A s \in Sessions : daemon.done[s] \in Nat
    BY <1>1 DEF DaemonType
  <1>3. Grows /\ GivenSame
    BY <1>2 DEF Grows, TablesSame, GivenSame
  <1>4. \A n \in 1..daemon.sockets : n \in 1..daemon'.sockets
    BY <1>2
  <1>5. TablesOK'
    BY <1>4 DEF TablesOK, TablesSame
  <1>. QED BY <1>3, <1>5

LEMMA NotesSameFacts ==
    ASSUME NotesOK, front' = front, NotesSame
    PROVE  NotesOK'
  BY DEF NotesOK, NotesSame

LEMMA ServeRight ==
    ASSUME RightInv, NEW p \in Process, ServedFetch(p), front' = front, given' = given
    PROVE  TablesOK' /\ NotesOK' /\ AnswersOK' /\ SocketsOK'
  <1>1. /\ TurnInv /\ TablesOK /\ NotesOK /\ AnswersOK /\ SocketsOK /\ DaemonOK
        /\ FrontOK /\ daemon \in DaemonType /\ OwedOK(p)
    BY DEF RightInv, TurnInv, DaemonOK
  <1>2. /\ front[p].status = "waiting" /\ Asked(p) /\ ~Asked(p)'
        /\ \A q \in Process \ {p} : Asked(q)' <=> Asked(q)
        /\ Serve(p, front[p].call)
    BY DEF ServedFetch
  <1>3. PICK c \in Calls : c = front[p].call
    BY <1>1, <1>2, FrontFacts
  <1>4. Serve(p, c) /\ WellFormed(c)
    BY <1>2, <1>3, CallFacts
  <1>5. answers[p] = <<>> /\ AcceptsOf(p) = {} /\ ReceivesOf(p) = {}
    <2>1. Owed(p) = 0
      BY <1>1, <1>2 DEF OwedOK, Due
    <2>. QED BY <1>1, <2>1, OneAnswer
  <1>6. /\ IsFiniteSet(InSocket) /\ IsFiniteSet(Unserved)
        /\ Cardinality(InSocket) \in Nat /\ Cardinality(Unserved) \in Nat
        /\ Cardinality(given.opened) \in Nat /\ daemon.sockets \in Nat /\ MaxFD \in Nat
        /\ InSocket \subseteq Process /\ Unserved \subseteq InSocket
    BY <1>1, SocketCounts
  <1>7. InSocket' = InSocket
    BY DEF InSocket
  <1>8. c[1] # "SOCKET" => Unserved' = Unserved
    <2>. SUFFICES ASSUME c[1] # "SOCKET" PROVE Unserved' = Unserved
      OBVIOUS
    <2>1. p \notin InSocket
      BY <1>3 DEF InSocket, SOCKET
    <2>. QED BY <1>2, <1>6, <1>7, <2>1 DEF Unserved
  <1>9. ASSUME c[1] # "SOCKET", daemon'.sockets = daemon.sockets PROVE SocketsOK'
    BY <1>1, <1>7, <1>8, <1>9, Zenon DEF SocketsOK
  <1>10. CASE Exit /\ c[1] # "SOCKET"
    <2>1. daemon' = daemon /\ answers' = answers /\ \A q \in Process : front'[q].call = front[q].call
      BY <1>10 DEF Exit
    <2>2. \A q \in InSocket : q \in Unserved' <=> q \in Unserved
      BY <1>8, <1>10
    <2>. QED BY <2>1, <2>2, QuietRight
  <1>11. ASSUME TablesSame, NotesSame, c[1] # "SOCKET", daemon'.sockets = daemon.sockets,
                NEW v \in AnswerType, Answer(p, v), AnswersTo(c, v)',
                \A q \in Process \ {p} : answers[q] # <<>> =>
                  Apart(c, v, front[q].call, Head(answers[q]))
         PROVE  TablesOK' /\ NotesOK' /\ AnswersOK' /\ SocketsOK'
    <2>1. daemon'.sockets \in Nat /\ daemon.sockets <= daemon'.sockets
      BY <1>6, <1>11
    <2>2. TablesOK' /\ Grows /\ GivenSame /\ NotesOK'
      BY <1>1, <1>11, <2>1, TablesSameFacts, NotesSameFacts
    <2>3. AnswersOK'
      BY <1>1, <1>3, <1>5, <1>11, <2>2, AnswerAdded
    <2>. QED BY <1>9, <1>11, <2>2, <2>3
  <1>12. CASE c[1] = "SOCKET" /\ tcpd_SOCKET(p)
    <2>. DEFINE n == daemon.sockets + 1
    <2>0. PICK m \in Nat : m = n
      BY <1>6
    <2>1. /\ daemon' = [daemon EXCEPT !.sockets = m] /\ Answer(p, Number(m))
          /\ m = daemon.sockets + 1
      BY <1>12, <2>0 DEF tcpd_SOCKET
    <2>2. /\ daemon'.sockets = m /\ TablesSame /\ NotesSame
      BY <1>1, <2>1 DEF DaemonType, TablesSame, NotesSame
    <2>3. TablesOK' /\ Grows /\ GivenSame /\ NotesOK'
      <3>1. daemon.sockets <= daemon'.sockets /\ daemon'.sockets \in Nat
        BY <1>6, <2>1, <2>2
      <3>. QED BY <1>1, <2>2, <3>1, TablesSameFacts, NotesSameFacts
    <2>4. AnswersOK'
      <3>1. AnswersTo(c, Number(m))'
        <4>1. m \in 1..daemon'.sockets /\ m \notin given'.opened
          BY <1>1, <1>6, <2>1, <2>2 DEF TablesOK
        <4>. QED BY <1>12, <4>1, Zenon DEF AnswersTo
      <3>2. ASSUME NEW q \in Process \ {p}, answers[q] # <<>>
            PROVE  Apart(c, Number(m), front[q].call, Head(answers[q]))
        <4>1. AnswersTo(front[q].call, Head(answers[q]))
          BY <1>1, <3>2 DEF AnswersOK
        <4>2. ASSUME front[q].call[1] = "SOCKET" PROVE Number(m) # Head(answers[q])
          <5>1. PICK k \in 1..daemon.sockets : Head(answers[q]) = Number(k)
            BY <4>1, <4>2 DEF AnswersTo
          <5>2. k # m
            BY <1>6, <2>1
          <5>. QED BY <5>1, <5>2, SmallFacts
        <4>. QED BY <1>12, <4>2 DEF Apart
      <3>3. Number(m) \in AnswerType
        BY DEF AnswerType
      <3>4. \A q \in Process : front'[q].call = front[q].call
        OBVIOUS
      <3>. QED BY <1>1, <1>3, <1>5, <2>1, <2>3, <3>1, <3>2, <3>3, <3>4, AnswerAdded
    <2>5. SocketsOK'
      <3>1. p \in InSocket /\ p \in Unserved
        BY <1>2, <1>3, <1>4, <1>12 DEF InSocket, Unserved, WellFormed
      <3>2. Unserved' = Unserved \ {p}
        BY <1>2, <1>6, <1>7 DEF Unserved
      <3>3. Cardinality(Unserved') = Cardinality(Unserved) - 1
        BY <1>6, <3>1, <3>2, MemberTaken, Zenon
      <3>. QED BY <1>1, <1>6, <1>7, <2>1, <2>2, <3>3 DEF SocketsOK
    <2>. QED BY <2>3, <2>4, <2>5
  <1>13. CASE c[1] = "BIND" /\ tcpd_BIND(p, c[2], c[3])
    <2>1. CASE /\ daemon' = [daemon EXCEPT !.binded = @ \cup {<<c[2], c[3]>>}]
               /\ Answer(p, Number(0))
      <3>1. daemon'.sockets = daemon.sockets /\ TablesSame /\ NotesSame
        BY <1>1, <2>1 DEF DaemonType, TablesSame, NotesSame
      <3>2. Number(0) \in AnswerType /\ AnswersTo(c, Number(0))'
        BY <1>13 DEF AnswerType, AnswersTo
      <3>3. \A q \in Process \ {p} : Apart(c, Number(0), front[q].call, Head(answers[q]))
        BY <1>13 DEF Apart
      <3>. QED BY <1>11, <1>13, <2>1, <3>1, <3>2, <3>3
    <2>. QED BY <1>10, <1>13, <2>1 DEF tcpd_BIND
  <1>14. CASE c[1] = "ACCEPT" /\ tcpd_ACCEPT(p, c[2])
    <2>1. CASE CanAccept(c[2]) /\ daemon' = [daemon EXCEPT !.accepting[c[2]] = p]
               /\ answers' = answers
      <3>1. c[2] \in FD /\ c = ACCEPT(c[2])
        BY <1>4, <1>14 DEF WellFormed
      <3>2. /\ daemon'.accepting = [daemon.accepting EXCEPT ![c[2]] = p]
            /\ daemon'.receiving = daemon.receiving /\ TablesSame
            /\ daemon'.sockets = daemon.sockets
        BY <1>1, <2>1 DEF DaemonType, TablesSame
      <3>3. TablesOK' /\ Grows /\ GivenSame
        BY <1>1, <1>6, <3>2, TablesSameFacts
      <3>4. AnswersOK'
        BY <1>1, <2>1, <3>3, AnswersKept
      <3>5. NotesOK'
        <4>1. daemon.accepting \in [Numbers -> Process \cup {None}]
          BY <1>1 DEF DaemonType
        <4>2. \A fd \in FD : daemon'.accepting[fd] = IF fd = c[2] THEN p ELSE daemon.accepting[fd]
          BY SocketIsNumber, <3>1, <3>2, <4>1
        <4>. QED BY <1>1, <1>3, <3>1, <3>2, <4>2 DEF NotesOK
      <3>. QED BY <1>9, <1>14, <3>2, <3>3, <3>4, <3>5
    <2>2. CASE Answer(p, Number(-1)) /\ daemon' = daemon
      <3>1. daemon'.sockets = daemon.sockets /\ TablesSame /\ NotesSame
        BY <2>2 DEF TablesSame, NotesSame
      <3>2. Number(-1) \in AnswerType /\ AnswersTo(c, Number(-1))'
        BY <1>14 DEF AnswerType, AnswersTo
      <3>3. \A q \in Process \ {p} : Apart(c, Number(-1), front[q].call, Head(answers[q]))
        BY <1>14 DEF Apart
      <3>. QED BY <1>11, <1>14, <2>2, <3>1, <3>2, <3>3
    <2>. QED BY <1>14, <2>1, <2>2 DEF tcpd_ACCEPT
  <1>15. CASE c[1] = "RECV" /\ tcpd_RECV(p, c[2], c[3])
    <2>0. c[2] \in Sessions /\ c[3] \in Lens /\ c = RECV(c[2], c[3])
      BY <1>4, <1>15 DEF WellFormed
    <2>1. CASE CanReceive(c[2], c[3]) /\ daemon' = [daemon EXCEPT !.receiving[c[2]] = <<p, c[3]>>]
               /\ answers' = answers
      <3>1. c[3] # 0
        BY <2>1 DEF CanReceive
      <3>2. /\ daemon'.receiving = [daemon.receiving EXCEPT ![c[2]] = <<p, c[3]>>]
            /\ daemon'.accepting = daemon.accepting /\ TablesSame
            /\ daemon'.sockets = daemon.sockets
        BY <1>1, <2>1 DEF DaemonType, TablesSame
      <3>3. TablesOK' /\ Grows /\ GivenSame
        BY <1>1, <1>6, <3>2, TablesSameFacts
      <3>4. AnswersOK'
        BY <1>1, <2>1, <3>3, AnswersKept
      <3>5. NotesOK'
        <4>1. daemon.receiving \in [Sessions -> {<<>>} \cup (Process \X Lens)]
          BY <1>1 DEF DaemonType
        <4>2. /\ daemon'.receiving[c[2]] = <<p, c[3]>>
              /\ \A s \in Sessions \ {c[2]} : daemon'.receiving[s] = daemon.receiving[s]
          BY <2>0, <3>2, <4>1
        <4>3. <<p, c[3]>>[1] = p /\ <<p, c[3]>>[2] = c[3]
          OBVIOUS
        <4>4. ASSUME NEW s \in Sessions, daemon'.receiving[s] # <<>>
              PROVE  /\ daemon'.receiving[s][2] # 0
                     /\ front[daemon'.receiving[s][1]].call = RECV(s, daemon'.receiving[s][2])
          <5>1. CASE s = c[2]
            BY <1>3, <2>0, <3>1, <4>2, <4>3, <5>1
          <5>2. CASE s # c[2]
            BY <1>1, <4>2, <4>4, <5>2 DEF NotesOK
          <5>. QED BY <5>1, <5>2
        <4>. QED BY <1>1, <3>2, <4>4 DEF NotesOK
      <3>. QED BY <1>9, <1>15, <3>2, <3>3, <3>4, <3>5
    <2>2. CASE ~CanReceive(c[2], c[3]) /\ Answer(p, Number(Refusal(c[2], c[3]))) /\ daemon' = daemon
      <3>1. daemon'.sockets = daemon.sockets /\ TablesSame /\ NotesSame
        BY <2>2 DEF TablesSame, NotesSame
      <3>. DEFINE v == Number(Refusal(c[2], c[3]))
      <3>2. \/ c[3] = 0 /\ v = Number(0)
            \/ c[3] # 0 /\ v \in {Number(-2), Number(-3)}
        BY DEF Refusal
      <3>3. PICK w : w = v
        OBVIOUS
      <3>4. w \in AnswerType
        BY <3>2, <3>3 DEF AnswerType
      <3>5. AnswersTo(c, w)'
        BY <1>15, <3>2, <3>3, Zenon DEF AnswersTo
      <3>6. w[1] # "bytes"
        <4>1. Number(0)[1] # "bytes" /\ Number(-2)[1] # "bytes" /\ Number(-3)[1] # "bytes"
          BY SmallFacts
        <4>. QED BY <3>2, <3>3, <4>1
      <3>7. \A q \in Process \ {p} : Apart(c, w, front[q].call, Head(answers[q]))
        BY <1>15, <3>6 DEF Apart
      <3>8. Answer(p, w)
        BY <2>2, <3>3
      <3>. QED BY <1>11, <1>15, <3>1, <3>4, <3>5, <3>7, <3>8
    <2>. QED BY <1>15, <2>1, <2>2 DEF tcpd_RECV
  <1>16. CASE c[1] = "CONNECT" /\ tcpd_CONNECT(p, c[2])
    <2>1. /\ daemon' = [daemon EXCEPT !.connected = @ \cup {c[2]}, !.packages[c[2]] = 0]
          /\ Answer(p, Number(0))
      BY <1>16 DEF tcpd_CONNECT
    <2>2. daemon'.sockets = daemon.sockets /\ TablesSame /\ NotesSame
      BY <1>1, <2>1 DEF DaemonType, TablesSame, NotesSame
    <2>3. Number(0) \in AnswerType /\ AnswersTo(c, Number(0))'
      BY <1>16 DEF AnswerType, AnswersTo
    <2>4. \A q \in Process \ {p} : Apart(c, Number(0), front[q].call, Head(answers[q]))
      BY <1>16 DEF Apart
    <2>. QED BY <1>11, <1>16, <2>1, <2>2, <2>3, <2>4
  <1>17. CASE c[1] = "SEND" /\ tcpd_SEND(p, c[2], c[3])
    <2>1. CASE /\ daemon' = [daemon EXCEPT !.packages[c[2]] = @ + 1, !.inBuffer = @ + 1]
               /\ Answer(p, Number(c[3]))
      <3>1. daemon'.sockets = daemon.sockets /\ TablesSame /\ NotesSame
        BY <1>1, <2>1 DEF DaemonType, TablesSame, NotesSame
      <3>2. Number(c[3]) \in AnswerType
        <4>1. c[3] \in Lens
          BY <1>4, <1>17 DEF WellFormed
        <4>2. c[3] \in Int
          BY <4>1, SmallFacts
        <4>. QED BY <4>2 DEF AnswerType
      <3>3. AnswersTo(c, Number(c[3]))'
        BY <1>17 DEF AnswersTo
      <3>4. \A q \in Process \ {p} : Apart(c, Number(c[3]), front[q].call, Head(answers[q]))
        BY <1>17 DEF Apart
      <3>. QED BY <1>11, <1>17, <2>1, <3>1, <3>2, <3>3, <3>4
    <2>. QED BY <1>10, <1>17, <2>1 DEF tcpd_SEND
  <1>. QED BY <1>4, <1>12, <1>13, <1>14, <1>15, <1>16, <1>17 DEF Serve

(* The daemon's own steps. *)
LEMMA SocketsSame ==
    ASSUME SocketsOK, front' = front, given' = given, reading' = reading, inbox' = inbox,
           daemon'.sockets = daemon.sockets
    PROVE  SocketsOK'
  <1>1. InSocket' = InSocket
    BY DEF InSocket
  <1>2. Unserved' = Unserved
    BY <1>1 DEF Unserved, Asked
  <1>. QED BY <1>1, <1>2, Zenon DEF SocketsOK

LEMMA ArriveRight ==
    ASSUME RightInv, Arrive
    PROVE  TablesOK' /\ NotesOK' /\ AnswersOK' /\ SocketsOK'
  <1>1. /\ TurnInv /\ TablesOK /\ NotesOK /\ AnswersOK /\ SocketsOK /\ DaemonOK
        /\ daemon \in DaemonType
    BY DEF RightInv, TurnInv, DaemonOK
  <1>2. /\ front' = front /\ given' = given /\ reading' = reading /\ inbox' = inbox
        /\ answers' = answers /\ Arrivals
    BY DEF Arrive
  <1>3. GivenSame /\ daemon.sockets \in Nat /\ \A s \in Sessions : daemon.done[s] \in Nat
    BY <1>1, <1>2 DEF GivenSame, DaemonType
  <1>4. ASSUME NotesSame, daemon'.sockets = daemon.sockets, daemon'.accepted = daemon.accepted,
               daemon'.done = daemon.done, TablesOK'
        PROVE  TablesOK' /\ NotesOK' /\ AnswersOK' /\ SocketsOK'
    <2>1. NotesOK' /\ SocketsOK'
      BY <1>1, <1>2, <1>4, NotesSameFacts, SocketsSame
    <2>2. Grows
      BY <1>3, <1>4 DEF Grows
    <2>3. AnswersOK'
      BY <1>1, <1>2, <1>3, <2>2, AnswersKept
    <2>. QED BY <1>4, <2>1, <2>3
  <1>5. ASSUME NEW fd \in BindedFD, NEW s \in Sessions,
               s \notin daemon.accepted, \A w \in daemon.waiting : w[2] # s,
               daemon' = [daemon EXCEPT !.waiting = @ \cup {<<fd, s>>}]
        PROVE  TablesOK' /\ NotesOK' /\ AnswersOK' /\ SocketsOK'
    <2>1. /\ daemon'.waiting = daemon.waiting \cup {<<fd, s>>} /\ <<fd, s>>[2] = s
          /\ NotesSame /\ daemon'.sockets = daemon.sockets /\ daemon'.accepted = daemon.accepted
          /\ daemon'.done = daemon.done /\ daemon'.arrived = daemon.arrived
      BY <1>1, <1>5 DEF DaemonType, NotesSame
    <2>2. \A w \in daemon'.waiting : /\ w[2] \notin daemon.accepted
                                     /\ \A x \in daemon'.waiting : x[2] = w[2] => x = w
      BY <1>1, <1>5, <2>1 DEF TablesOK
    <2>3. TablesOK'
      BY <1>1, <1>2, <2>1, <2>2 DEF TablesOK
    <2>. QED BY <1>4, <2>1, <2>3
  <1>6. ASSUME NEW s \in daemon.accepted, daemon.arrived[s] < MaxBytes,
               daemon' = [daemon EXCEPT !.arrived[s] = @ + 1]
        PROVE  TablesOK' /\ NotesOK' /\ AnswersOK' /\ SocketsOK'
    <2>1. /\ daemon'.arrived = [daemon.arrived EXCEPT ![s] = @ + 1]
          /\ NotesSame /\ daemon'.sockets = daemon.sockets /\ daemon'.accepted = daemon.accepted
          /\ daemon'.done = daemon.done /\ daemon'.waiting = daemon.waiting
      BY <1>1, <1>6 DEF DaemonType, NotesSame
    <2>2. \A t \in Sessions : daemon.done[t] <= daemon'.arrived[t] /\ daemon'.arrived[t] <= MaxBytes
      <3>. SUFFICES ASSUME NEW t \in Sessions
                    PROVE  daemon.done[t] <= daemon'.arrived[t] /\ daemon'.arrived[t] <= MaxBytes
        OBVIOUS
      <3>1. /\ daemon.done[t] \in Nat /\ daemon.arrived[t] \in Nat /\ MaxBytes \in Nat
            /\ daemon.arrived \in [Sessions -> Nat]
            /\ daemon.done[t] <= daemon.arrived[t] /\ daemon.arrived[t] <= MaxBytes
        BY <1>1, CallsAssumption DEF DaemonType, TablesOK, CallsAssumption
      <3>. QED BY <1>6, <2>1, <3>1
    <2>3. TablesOK'
      BY <1>1, <1>2, <2>1, <2>2 DEF TablesOK
    <2>. QED BY <1>4, <2>1, <2>3
  <1>7. ASSUME NEW fd \in daemon.connected,
               daemon' = [daemon EXCEPT !.packages[fd] = @ - 1, !.inBuffer = @ - 1]
        PROVE  TablesOK' /\ NotesOK' /\ AnswersOK' /\ SocketsOK'
    <2>1. TablesSame /\ NotesSame /\ daemon'.sockets = daemon.sockets
      BY <1>1, <1>7 DEF DaemonType, NotesSame, TablesSame
    <2>2. TablesOK'
      BY <1>1, <1>2, <1>3, <2>1, TablesSameFacts
    <2>. QED BY <1>4, <2>1, <2>2 DEF TablesSame
  <1>. QED BY <1>2, <1>5, <1>6, <1>7 DEF Arrivals

LEMMA QuietDaemonRight ==
    ASSUME RightInv, UNCHANGED <<daemon, answers, front, given, reading, inbox>>
    PROVE  TablesOK' /\ NotesOK' /\ AnswersOK' /\ SocketsOK'
  <1>1. InSocket' = InSocket
    BY DEF InSocket
  <1>2. Unserved' = Unserved
    BY <1>1 DEF Unserved, Asked
  <1>. QED BY <1>2, QuietRight

LEMMA AcceptCallbackRight ==
    ASSUME RightInv, SolveAcceptCallback
    PROVE  TablesOK' /\ NotesOK' /\ AnswersOK' /\ SocketsOK'
  <1>1. /\ TurnInv /\ TablesOK /\ NotesOK /\ AnswersOK /\ SocketsOK /\ DaemonOK
        /\ daemon \in DaemonType /\ FrontOK
    BY DEF RightInv, TurnInv, DaemonOK
  <1>2. /\ front' = front /\ given' = given /\ reading' = reading /\ inbox' = inbox
    BY DEF SolveAcceptCallback
  <1>3. ASSUME NEW w \in Acceptable, Answer(daemon.accepting[w[1]], Number(w[2])),
               daemon' = [daemon EXCEPT !.waiting = @ \ {w}, !.accepted = @ \cup {w[2]},
                                        !.accepting[w[1]] = None]
        PROVE  TablesOK' /\ NotesOK' /\ AnswersOK' /\ SocketsOK'
    <2>1. /\ w \in daemon.waiting /\ w[1] \in FD /\ w[2] \in Sessions
          /\ daemon.accepting[w[1]] # None /\ daemon.accepting[w[1]] \in Process
      BY SocketIsNumber, <1>1 DEF Acceptable, DaemonType
    <2>2. PICK p \in Process : p = daemon.accepting[w[1]]
      BY <2>1
    <2>3. /\ daemon'.waiting = daemon.waiting \ {w}
          /\ daemon'.accepted = daemon.accepted \cup {w[2]}
          /\ daemon'.accepting = [daemon.accepting EXCEPT ![w[1]] = None]
          /\ daemon'.receiving = daemon.receiving /\ daemon'.sockets = daemon.sockets
          /\ daemon'.done = daemon.done /\ daemon'.arrived = daemon.arrived
      BY <1>1, <1>3 DEF DaemonType
    <2>4. TablesOK'
      BY <1>1, <1>2, <2>1, <2>3 DEF TablesOK
    <2>5. Grows /\ GivenSame
      BY <1>1, <1>2, <2>3 DEF Grows, GivenSame, DaemonType
    <2>6. NotesOK'
      <3>1. \A fd \in FD : daemon'.accepting[fd] = IF fd = w[1] THEN None ELSE daemon.accepting[fd]
        BY SocketIsNumber, <1>1, <2>3 DEF DaemonType
      <3>. QED BY <1>1, <1>2, <2>3, <3>1 DEF NotesOK
    <2>7. PICK c \in Calls : c = front[p].call /\ c[1] = "ACCEPT"
      <3>1. front[p].call = ACCEPT(w[1])
        BY <1>1, <2>1, <2>2 DEF NotesOK
      <3>2. ACCEPT(w[1]) \in Calls /\ ACCEPT(w[1])[1] = "ACCEPT"
        BY <2>1 DEF Calls, ACCEPT
      <3>. QED BY <3>1, <3>2
    <2>8. PICK v \in AnswerType : v = Number(w[2])
      BY <2>1, SmallFacts DEF AnswerType
    <2>9. answers[p] = <<>>
      <3>1. w[1] \in AcceptsOf(p)
        BY <2>1, <2>2 DEF AcceptsOf
      <3>. QED BY <1>1, <3>1, OneAnswer
    <2>10. AnswersTo(c, v)'
      <3>1. w[2] \in daemon'.accepted /\ w[2] \notin given'.taken
        BY <1>1, <1>2, <2>1, <2>3 DEF TablesOK
      <3>. QED BY <2>7, <2>8, <3>1, Zenon DEF AnswersTo
    <2>11. ASSUME NEW q \in Process \ {p}, answers[q] # <<>>
           PROVE  Apart(c, v, front[q].call, Head(answers[q]))
      <3>1. AnswersTo(front[q].call, Head(answers[q]))
        BY <1>1, <2>11 DEF AnswersOK
      <3>2. ASSUME front[q].call[1] = "ACCEPT" PROVE v # Head(answers[q])
        <4>1. \/ Head(answers[q]) = Number(-1)
              \/ \E s \in daemon.accepted : Head(answers[q]) = Number(s)
          BY <3>1, <3>2 DEF AnswersTo
        <4>2. w[2] \in Nat /\ w[2] \notin daemon.accepted
          BY <1>1, <2>1, SmallFacts DEF TablesOK
        <4>3. w[2] # -1
          BY <4>2
        <4>. QED BY <2>8, <4>1, <4>2, <4>3, SmallFacts
      <3>. QED BY <2>7, <3>2 DEF Apart
    <2>12. Answer(p, v) /\ \A q \in Process : front'[q].call = front[q].call
      BY <1>2, <1>3, <2>2, <2>8
    <2>13. AnswersOK'
      BY <1>1, <2>5, <2>7, <2>9, <2>10, <2>11, <2>12, AnswerAdded
    <2>14. SocketsOK'
      BY <1>1, <1>2, <2>3, SocketsSame
    <2>. QED BY <2>4, <2>6, <2>13, <2>14
  <1>4. CASE UNCHANGED <<daemon, answers>>
    BY <1>2, <1>4, QuietDaemonRight
  <1>. QED BY <1>3, <1>4 DEF SolveAcceptCallback

LEMMA RecvCallbackRight ==
    ASSUME RightInv, SolveRecvCallback
    PROVE  TablesOK' /\ NotesOK' /\ AnswersOK' /\ SocketsOK'
  <1>1. /\ TurnInv /\ TablesOK /\ NotesOK /\ AnswersOK /\ SocketsOK /\ DaemonOK
        /\ daemon \in DaemonType /\ FrontOK
    BY DEF RightInv, TurnInv, DaemonOK
  <1>2. /\ front' = front /\ given' = given /\ reading' = reading /\ inbox' = inbox
    BY DEF SolveRecvCallback
  <1>3. ASSUME NEW s \in Receivable, NEW p, NEW len,
               p = daemon.receiving[s][1], len = daemon.receiving[s][2],
               Answer(p, Bytes(s, daemon.done[s], len)),
               daemon' = [daemon EXCEPT !.done = HandedOver(s, len), !.receiving[s] = <<>>]
        PROVE  TablesOK' /\ NotesOK' /\ AnswersOK' /\ SocketsOK'
    <2>1. /\ s \in Sessions /\ daemon.receiving[s] # <<>>
          /\ len <= daemon.arrived[s] - daemon.done[s]
      BY <1>1, <1>3 DEF Receivable, DaemonType
    <2>2. p \in Process /\ len \in Lens /\ len \in Nat
      <3>1. daemon.receiving[s] \in Process \X Lens
        BY <1>1, <2>1 DEF DaemonType
      <3>. QED BY <1>3, <3>1, SmallFacts
    <2>3. /\ daemon'.done = [daemon.done EXCEPT ![s] = @ + len]
          /\ daemon'.receiving = [daemon.receiving EXCEPT ![s] = <<>>]
          /\ daemon'.accepting = daemon.accepting /\ daemon'.sockets = daemon.sockets
          /\ daemon'.waiting = daemon.waiting /\ daemon'.accepted = daemon.accepted
          /\ daemon'.arrived = daemon.arrived
      BY <1>1, <1>3 DEF DaemonType, HandedOver
    <2>4. PICK from \in Nat : from = daemon.done[s]
      BY <1>1, <2>1 DEF DaemonType
    <2>5. /\ daemon'.done[s] = from + len /\ from + len \in Nat
          /\ \A t \in Sessions \ {s} : daemon'.done[t] = daemon.done[t]
          /\ \A t \in Sessions : /\ daemon.done[t] \in Nat /\ daemon.arrived[t] \in Nat
                                 /\ daemon.done[t] <= daemon.arrived[t]
                                 /\ daemon.arrived[t] <= MaxBytes
          /\ from + len <= daemon.arrived[s]
          /\ MaxBytes \in Nat /\ from <= MaxBytes
      <3>1. daemon.done \in [Sessions -> Nat] /\ daemon.arrived \in [Sessions -> Nat]
        BY <1>1 DEF DaemonType
      <3>2. /\ \A t \in Sessions : /\ daemon.done[t] \in Nat /\ daemon.arrived[t] \in Nat
                                   /\ daemon.done[t] <= daemon.arrived[t]
                                   /\ daemon.arrived[t] <= MaxBytes
            /\ MaxBytes \in Nat
        BY <1>1, <3>1, CallsAssumption DEF TablesOK, CallsAssumption
      <3>3. /\ daemon'.done[s] = from + len
            /\ \A t \in Sessions \ {s} : daemon'.done[t] = daemon.done[t]
        BY <2>1, <2>3, <2>4, <3>1
      <3>4. from + len <= daemon.arrived[s] /\ from <= MaxBytes
        BY <2>1, <2>2, <2>4, <3>2
      <3>. QED BY <2>2, <3>2, <3>3, <3>4
    <2>6. Grows /\ GivenSame
      <3>1. ASSUME NEW t \in Sessions
            PROVE  /\ daemon.done[t] \in Nat /\ daemon'.done[t] \in Nat
                   /\ daemon.done[t] <= daemon'.done[t]
        BY <2>2, <2>4, <2>5
      <3>2. daemon.sockets \in Nat
        BY <1>1 DEF DaemonType
      <3>. QED BY <1>2, <2>3, <3>1, <3>2 DEF Grows, GivenSame
    <2>7. TablesOK'
      <3>1. ASSUME NEW t \in Sessions
            PROVE  /\ daemon'.done[t] <= daemon.arrived[t]
                   /\ \A i \in Nat : <<t, i>> \in given.read => i < daemon'.done[t]
        <4>1. \A i \in Nat : <<t, i>> \in given.read => i < daemon.done[t]
          BY <1>1 DEF TablesOK
        <4>. QED BY <2>2, <2>4, <2>5, <4>1
      <3>. QED BY <1>1, <1>2, <2>3, <3>1 DEF TablesOK
    <2>8. NotesOK'
      <3>1. /\ daemon'.receiving[s] = <<>>
            /\ \A t \in Sessions \ {s} : daemon'.receiving[t] = daemon.receiving[t]
        BY <1>1, <2>1, <2>3 DEF DaemonType
      <3>. QED BY <1>1, <1>2, <2>3, <3>1 DEF NotesOK
    <2>9. PICK c \in Calls : c = front[p].call /\ c[1] = "RECV" /\ c[2] = s /\ c[3] = len
      <3>1. front[p].call = RECV(s, len)
        BY <1>1, <1>3, <2>1 DEF NotesOK
      <3>2. RECV(s, len) \in Calls
        BY <2>1, <2>2 DEF Calls
      <3>3. RECV(s, len)[1] = "RECV" /\ RECV(s, len)[2] = s /\ RECV(s, len)[3] = len
        BY DEF RECV
      <3>. QED BY <3>1, <3>2, <3>3
    <2>10. PICK v \in AnswerType : v = Bytes(s, from, len)
      BY <2>1, <2>2 DEF AnswerType
    <2>11. answers[p] = <<>>
      <3>1. s \in ReceivesOf(p)
        BY <1>3, <2>1 DEF ReceivesOf
      <3>. QED BY <1>1, <2>2, <3>1, OneAnswer
    <2>12. AnswersTo(c, v)'
      <3>1. from \in 0..MaxBytes /\ from + c[3] <= daemon'.done[c[2]]
        BY <2>5, <2>9
      <3>2. ASSUME NEW i \in Nat, from <= i PROVE <<c[2], i>> \notin given'.read
        <4>1. <<s, i>> \in given.read => i < from
          BY <1>1, <2>1, <2>4 DEF TablesOK
        <4>. QED BY <1>2, <2>9, <3>2, <4>1
      <3>3. v = Bytes(c[2], from, c[3])
        BY <2>9, <2>10
      <3>. QED BY <2>9, <3>1, <3>2, <3>3, Zenon DEF AnswersTo
    <2>13. ASSUME NEW q \in Process \ {p}, answers[q] # <<>>
           PROVE  Apart(c, v, front[q].call, Head(answers[q]))
      <3>1. PICK d, w : d \in Calls /\ d = front[q].call /\ w = Head(answers[q])
        BY <1>1, <2>13, CallOfAnswer
      <3>2. AnswersTo(d, w)
        BY <1>1, <2>13, <3>1 DEF AnswersOK
      <3>3. ASSUME d[1] = "RECV", w[1] = "bytes", d[2] = s
            PROVE  w[3] + w[4] <= v[3]
        <4>1. PICK from2 : w = Bytes(d[2], from2, d[3]) /\ from2 + d[3] <= daemon.done[d[2]]
          <5>1. Number(0)[1] # "bytes" /\ Number(-2)[1] # "bytes" /\ Number(-3)[1] # "bytes"
            BY SmallFacts
          <5>. QED BY <3>2, <3>3, <5>1 DEF AnswersTo
        <4>. QED BY <2>4, <2>10, <3>3, <4>1, SmallFacts
      <3>. QED BY <2>9, <3>1, <3>3 DEF Apart
    <2>14. Answer(p, v) /\ \A q \in Process : front'[q].call = front[q].call
      BY <1>2, <1>3, <2>4, <2>10
    <2>15. AnswersOK'
      BY <1>1, <2>2, <2>6, <2>9, <2>11, <2>12, <2>13, <2>14, AnswerAdded
    <2>16. SocketsOK'
      BY <1>1, <1>2, <2>3, SocketsSame
    <2>. QED BY <2>7, <2>8, <2>15, <2>16
  <1>4. CASE UNCHANGED <<daemon, answers>>
    BY <1>2, <1>4, QuietDaemonRight
  <1>. QED BY <1>3, <1>4 DEF SolveRecvCallback, Exit

LEMMA RightInit == ASSUME CallsInit PROVE RightInv
  <1>1. TurnInv
    BY TurnInit
  <1>2. /\ daemon = [sockets |-> 0, binded |-> {}, connected |-> {}, inBuffer |-> 0,
                     accepting |-> [fd \in Numbers |-> None], packages |-> [fd \in Numbers |-> 0],
                     waiting |-> {}, accepted |-> {},
                     receiving |-> [s \in Sessions |-> <<>>],
                     arrived |-> [s \in Sessions |-> 0], done |-> [s \in Sessions |-> 0]]
        /\ given = [opened |-> {}, taken |-> {}, read |-> {}, latest |-> <<>>]
        /\ answers = [p \in Process |-> <<>>]
        /\ front = [p \in Process |-> [status |-> "idle", call |-> <<>>, out |-> <<>>]]
    BY DEF CallsInit
  <1>3. TablesOK
    <2>1. MaxBytes \in Nat
      BY CallsAssumption DEF CallsAssumption
    <2>2. given \in GivenType
      BY <1>2 DEF GivenType
    <2>3. /\ given.opened = {} /\ given.taken = {} /\ given.read = {} /\ daemon.waiting = {}
          /\ \A s \in Sessions : daemon.done[s] = 0 /\ daemon.arrived[s] = 0
      BY <1>2
    <2>. QED BY <2>1, <2>2, <2>3 DEF TablesOK
  <1>4. NotesOK /\ AnswersOK
    BY SocketIsNumber, <1>2 DEF NotesOK, AnswersOK
  <1>5. SocketsOK
    <2>1. InSocket = {} /\ Unserved = {} /\ given.opened = {} /\ daemon.sockets = 0
      BY <1>2 DEF InSocket, Unserved, SOCKET
    <2>. QED BY <2>1, FS_EmptySet, CallsAssumption DEF SocketsOK, CallsAssumption
  <1>. QED BY <1>1, <1>3, <1>4, <1>5 DEF RightInv

LEMMA RightStep ==
    ASSUME [Unmixed]_callsVars, RightInv, [CallsNext]_callsVars
    PROVE  RightInv'
  <1>0. TurnInv /\ FrontOK /\ WholeCalls
    BY DEF RightInv, TurnInv
  <1>1. TurnInv'
    BY <1>0, TurnStep
  <1>. SUFFICES TablesOK' /\ NotesOK' /\ AnswersOK' /\ SocketsOK'
    BY <1>1 DEF RightInv
  <1>2. ASSUME NEW p \in Process, NEW c \in Calls, Begin(p, c)
        PROVE  TablesOK' /\ NotesOK' /\ AnswersOK' /\ SocketsOK'
    BY <1>2, BeginRight
  <1>3. ASSUME NEW p \in Process, SendDatagram(p), Unmixed
        PROVE  TablesOK' /\ NotesOK' /\ AnswersOK' /\ SocketsOK'
    <2>1. /\ Asked(p)' /\ front[p].status = "sending"
          /\ \A q \in Process \ {p} : Asked(q)' <=> Asked(q)
          /\ \A q \in Process : front'[q].call = front[q].call
          /\ \A q \in Process \ {p} : front'[q] = front[q]
      BY <1>0, <1>3, SendPlaces DEF SendDatagram
    <2>2. daemon' = daemon /\ answers' = answers /\ given' = given
      BY <1>3 DEF SendDatagram
    <2>3. InSocket' = InSocket
      BY <2>1 DEF InSocket
    <2>4. \A q \in InSocket : q \in Unserved' <=> q \in Unserved
      BY <2>1, <2>3 DEF Unserved, InSocket
    <2>. QED BY <2>1, <2>2, <2>4, QuietRight
  <1>4. ASSUME NEW p \in Process, Return(p)
        PROVE  TablesOK' /\ NotesOK' /\ AnswersOK' /\ SocketsOK'
    BY <1>4, ReturnRight
  <1>5. CASE Fetch
    <2>1. /\ front' = front /\ given' = given
          /\ QuietFetch \/ \E p \in Process : ServedFetch(p)
      BY <1>0, <1>5, FetchPlaces
    <2>2. CASE QuietFetch
      <3>1. InSocket' = InSocket
        BY <2>1 DEF InSocket
      <3>2. \A q \in InSocket : q \in Unserved' <=> q \in Unserved
        BY <2>1, <2>2, <3>1 DEF Unserved, InSocket, QuietFetch
      <3>. QED BY <2>1, <2>2, <3>2, QuietRight DEF QuietFetch
    <2>. QED BY <2>1, <2>2, ServeRight
  <1>6. CASE UNCHANGED callsVars
    BY <1>6, QuietDaemonRight DEF callsVars
  <1>. QED BY <1>2, <1>3, <1>4, <1>5, <1>6, ArriveRight, AcceptCallbackRight, RecvCallbackRight
           DEF CallsNext

-----------------------------------------------------------------------------
(* Every step is one of the service, or none. *)
LEMMA ValueInRange ==
    ASSUME RightInv, NEW c \in Calls, NEW v, Hands(c, v)
    PROVE  v \in Values
  <1>0. WellFormed(c) /\ DaemonOK /\ daemon \in DaemonType /\ TablesOK /\ SocketsOK /\ MaxFD \in Nat
    BY CallFacts, CallsAssumption DEF RightInv, TurnInv, DaemonOK, CallsAssumption
  <1>1. \A n \in (-3..MaxFD) \cup Sessions \cup Lens : Number(n) \in Values
    BY DEF Values
  <1>2. CASE PlainAnswer(c, v)
    <2>1. \A n \in {0, -1, -2, -3} : n \in -3..MaxFD
      BY <1>0
    <2>2. c[1] = "SEND" => c[3] \in Lens
      BY <1>0 DEF WellFormed
    <2>. QED BY <1>1, <1>2, <2>1, <2>2 DEF PlainAnswer
  <1>3. ASSUME NEW n, v = Number(n), HandsSocket(n) PROVE v \in Values
    <2>1. daemon.sockets <= MaxFD /\ daemon.sockets \in Nat
      BY <1>0, SocketCounts DEF SocketsOK
    <2>2. n \in -3..MaxFD
      BY <1>0, <1>3, <2>1 DEF HandsSocket
    <2>. QED BY <1>1, <1>3, <2>2
  <1>4. ASSUME NEW s, v = Number(s), HandsSession(s) PROVE v \in Values
    BY <1>0, <1>1, <1>4 DEF HandsSession, DaemonType
  <1>5. ASSUME c[1] = "RECV", NEW from, v = Bytes(c[2], from, c[3]), HandsBytes(c[2], from, c[3])
        PROVE  v \in Values
    <2>1. c[2] \in Sessions /\ c[3] \in Lens /\ from \in 0..MaxBytes
      BY <1>0, <1>5 DEF WellFormed, HandsBytes
    <2>. QED BY <1>5, <2>1 DEF Values
  <1>. QED BY <1>2, <1>3, <1>4, <1>5 DEF Hands

LEMMA ReturnsAnswer ==
    ASSUME DaemonOK, TablesOK, NEW c \in Calls, NEW v, Hands(c, v)
    PROVE  Promise!Returns(c, v)
  <1>0. WellFormed(c) /\ given \in GivenType /\ daemon \in DaemonType
    BY CallFacts DEF TablesOK, DaemonOK
  <1>1. \A n : Promise!Number(n) = Number(n)
    BY DEF Promise!Number, Number
  <1>2. CASE GivenSame /\ PlainAnswer(c, v)
    <2>1. CASE c[1] \in {"BIND", "CONNECT"} /\ v = Number(0)
      BY <1>1, <1>2, <2>1 DEF Promise!Returns, GivenSame
    <2>2. CASE c[1] = "ACCEPT" /\ v = Number(-1)
      <3>1. v[1] = "number" /\ v[2] = -1
        BY <2>2, SmallFacts
      <3>2. -1 \notin given.taken
        <4>1. -1 \notin Nat
          OBVIOUS
        <4>. QED BY <1>0, <4>1, SmallFacts DEF GivenType
      <3>. QED BY <1>2, <2>2, <3>1, <3>2 DEF Promise!Returns, GivenSame
    <2>3. CASE c[1] = "RECV" /\ c[3] = 0 /\ v = Number(0)
      BY <1>1, <1>2, <2>3 DEF Promise!Returns, GivenSame
    <2>4. CASE c[1] = "RECV" /\ c[3] # 0 /\ v \in {Number(-2), Number(-3)}
      <3>1. Number(-2) # Number(0) /\ Number(-3) # Number(0)
        BY SmallFacts
      <3>. QED BY <1>1, <1>2, <2>4, <3>1 DEF Promise!Returns, GivenSame
    <2>5. CASE c[1] = "SEND" /\ v = Number(c[3])
      BY <1>1, <1>2, <2>5 DEF Promise!Returns, GivenSame
    <2>. QED BY <1>2, <2>1, <2>2, <2>3, <2>4, <2>5 DEF PlainAnswer
  <1>3. ASSUME c[1] = "SOCKET", NEW n, v = Number(n), HandsSocket(n)
        PROVE  Promise!Returns(c, v)
    <2>1. v[1] = "number" /\ v[2] = n
      BY <1>3, SmallFacts
    <2>. QED BY <1>3, <2>1 DEF Promise!Returns, HandsSocket
  <1>4. ASSUME c[1] = "ACCEPT", NEW s, v = Number(s), HandsSession(s)
        PROVE  Promise!Returns(c, v)
    <2>1. v[1] = "number" /\ v[2] = s
      BY <1>4, SmallFacts
    <2>2. s # -1
      <3>1. s \in Nat
        BY <1>0, <1>4, SmallFacts DEF HandsSession, DaemonType
      <3>. QED BY <3>1
    <2>. QED BY <1>4, <2>1, <2>2 DEF Promise!Returns, HandsSession
  <1>5. ASSUME c[1] = "RECV", NEW from, v = Bytes(c[2], from, c[3]), HandsBytes(c[2], from, c[3])
        PROVE  Promise!Returns(c, v)
    <2>1. v[1] = "bytes" /\ v[2] = c[2] /\ v[4] = c[3]
      BY <1>5, SmallFacts
    <2>2. Promise!BytesOf(v) = BytesOf(v)
      BY DEF Promise!BytesOf, BytesOf
    <2>3. c[2] \in Sessions /\ c[3] \in Nat /\ from \in Nat
      <3>1. c[2] \in Sessions /\ c[3] \in Lens
        BY <1>0, <1>5 DEF WellFormed
      <3>2. from \in Nat
        BY <1>5, CallsAssumption DEF HandsBytes, CallsAssumption
      <3>. QED BY <3>1, <3>2, SmallFacts
    <2>4. BytesOf(v) \cap given.read = {}
      <3>. SUFFICES ASSUME NEW b \in BytesOf(v), b \in given.read PROVE FALSE
        OBVIOUS
      <3>1. PICK t \in Sessions, i \in Nat : b = <<t, i>>
        BY <1>0 DEF GivenType
      <3>2. t = c[2] /\ from <= i /\ i < from + c[3]
        BY <1>5, <2>3, <3>1, BytesOfFacts
      <3>. QED BY <1>5, <3>1, <3>2 DEF HandsBytes
    <2>. QED BY <1>5, <2>1, <2>2, <2>4 DEF Promise!Returns, HandsBytes
  <1>. QED BY <1>2, <1>3, <1>4, <1>5 DEF Hands

LEMMA ServiceStutters ==
    ASSUME given' = given, \A q \in Process : front'[q].call = front[q].call
    PROVE  UNCHANGED Promise!serviceVars
  BY DEF Promise!serviceVars

LEMMA ServiceStep ==
    ASSUME [Unmixed]_callsVars, RightInv, [CallsNext]_callsVars
    PROVE  [Promise!ServiceNext(Calls, Values)]_(Promise!serviceVars)
  <1>0. /\ TurnInv /\ FrontOK /\ WholeCalls /\ DaemonOK /\ TablesOK
        /\ front \in [Process -> FrontType] /\ given \in GivenType
    BY DEF RightInv, TurnInv, FrontOK, TablesOK
  <1>1. ASSUME NEW p \in Process, NEW c \in Calls, Begin(p, c)
        PROVE  Promise!Begin(p, c)
    <2>1. /\ given' = [given EXCEPT !.latest = <<>>]
          /\ front[p].call = NoCall /\ front'[p].call = c
          /\ \A q \in Process \ {p} : front'[q] = front[q]
      BY <1>0, <1>1 DEF Begin, FrontOK
    <2>2. /\ given'.latest = <<>> /\ given'.opened = given.opened
          /\ given'.taken = given.taken /\ given'.read = given.read
      BY <1>0, <2>1 DEF GivenType
    <2>3. [q \in Process |-> front'[q].call] = [[q \in Process |-> front[q].call] EXCEPT ![p] = c]
      BY <2>1
    <2>. QED BY <2>1, <2>2, <2>3 DEF Promise!Begin, Promise!NoCall, NoCall
  <1>2. ASSUME NEW p \in Process, SendDatagram(p), Unmixed
        PROVE  UNCHANGED Promise!serviceVars
    <2>1. \A q \in Process : front'[q].call = front[q].call
      BY <1>0, <1>2, SendPlaces
    <2>2. given' = given
      BY <1>2 DEF SendDatagram
    <2>. QED BY <2>1, <2>2, ServiceStutters
  <1>3. ASSUME NEW p \in Process, Return(p)
        PROVE  \E v \in Values : Promise!Return(p, v)
    <2>1. PICK c, v : c = front[p].call /\ v = Head(answers[p])
      OBVIOUS
    <2>2. /\ c \in Calls /\ Hands(c, v) /\ given'.latest = <<p, v>>
          /\ front'[p].call = NoCall /\ \A q \in Process \ {p} : front'[q] = front[q]
      BY <1>3, <2>1, ReturnRight
    <2>3. v \in Values /\ Promise!Returns(c, v)
      BY <1>0, <2>2, ValueInRange, ReturnsAnswer
    <2>4. c # NoCall
      BY <2>2, CallFacts DEF WellFormed
    <2>5. [q \in Process |-> front'[q].call]
            = [[q \in Process |-> front[q].call] EXCEPT ![p] = NoCall]
      BY <2>2
    <2>6. Promise!Return(p, v)
      BY <2>1, <2>2, <2>3, <2>4, <2>5 DEF Promise!Return, Promise!NoCall, NoCall
    <2>. QED BY <2>3, <2>6
  <1>4. CASE Fetch \/ Arrive \/ SolveAcceptCallback \/ SolveRecvCallback \/ UNCHANGED callsVars
    <2>1. front' = front /\ given' = given
      BY <1>4 DEF Fetch, Arrive, SolveAcceptCallback, SolveRecvCallback, callsVars
    <2>. QED BY <2>1, ServiceStutters
  <1>5. ASSUME NEW p \in Process, (\E c \in Calls : Begin(p, c)) \/ Return(p)
        PROVE  Promise!ServiceNext(Calls, Values)
    BY <1>1, <1>3, <1>5 DEF Promise!ServiceNext
  <1>. QED BY <1>2, <1>4, <1>5 DEF CallsNext

(***************************************************************************)
(* As long as no call is sent into the middle of another, the library, the *)
(* datagrams and the handlers keep what CallService promises: every call   *)
(* is answered at most once, and with an answer to this call: a socket     *)
(* nobody has, a session nobody accepted, bytes nobody received.           *)
(***************************************************************************)
THEOREM CallsImplemented == CallsSpec /\ [][Unmixed]_callsVars => ImplementsCalls
  <1>1. CallsInit => RightInv
    BY RightInit
  <1>2. RightInv /\ [CallsNext]_callsVars /\ [Unmixed]_callsVars => RightInv'
    BY RightStep
  <1>3. CallsInit => Promise!ServiceInit
    <2>. SUFFICES ASSUME CallsInit PROVE Promise!ServiceInit
      OBVIOUS
    <2>1. /\ front = [p \in Process |-> [status |-> "idle", call |-> <<>>, out |-> <<>>]]
          /\ given = [opened |-> {}, taken |-> {}, read |-> {}, latest |-> <<>>]
      BY DEF CallsInit
    <2>. QED BY <2>1 DEF Promise!ServiceInit, Promise!NoCall
  <1>4. RightInv /\ [CallsNext]_callsVars /\ [Unmixed]_callsVars
          => [Promise!ServiceNext(Calls, Values)]_(Promise!serviceVars)
    BY ServiceStep
  <1>. QED BY <1>1, <1>2, <1>3, <1>4, PTL DEF CallsSpec, ImplementsCalls

(***************************************************************************)
(* With a process that has the daemon for itself, as ftpc and ftps have    *)
(* (README.MD:3-50 of Proj1), no other call is ever half sent.             *)
(***************************************************************************)
COROLLARY OneProcessServed ==
    ASSUME \A p, q \in Process : p = q
    PROVE  CallsSpec => []OwedOne /\ ImplementsCalls
  <1>1. Unmixed
    BY DEF Unmixed
  <1>. QED BY <1>1, OneAnswerIsOwed, CallsImplemented, PTL

-----------------------------------------------------------------------------
(***************************************************************************)
(* Whatever mixes: the answers given and noted, the names of calls that    *)
(* the daemon has not served, and the calls of which nothing was sent yet, *)
(* are together no more than the processes in a call.  A call's name is in *)
(* its first datagram alone, and the daemon answers only with a name in    *)
(* hand, so each debt has taken the place of one call.                     *)
(***************************************************************************)
Names == {"SOCKET", "BIND", "ACCEPT", "RECV", "CONNECT", "SEND"}

Named == {i \in 1..Len(Total) : Total[i].text \in Names}
Unsent == {p \in Process : front[p].status = "sending" /\ Len(front[p].out) = Len(front[p].call)}

AnswersIn(a) == UNION {{<<"answer", p, i>> : i \in DOMAIN a[p]} : p \in Process}
AnswerDebts == AnswersIn(answers)
AcceptDebts == {<<"accept", fd, 0>> : fd \in {n \in Numbers : daemon.accepting[n] # None}}
ReceiveDebts == {<<"receive", s, 0>> : s \in {x \in Sessions : daemon.receiving[x] # <<>>}}

(* What is still to be sent of a call is an end of it. *)
SentInOrder ==
    \A p \in Process : front[p].status = "sending" =>
        \E k \in Nat : k < Len(front[p].call) /\ front[p].out = Rest(p, k)

AnyDaemon ==
    [sockets : Nat, binded : SUBSET (Numbers \X Numbers), connected : SUBSET Numbers,
     inBuffer : Int, accepting : [Numbers -> Process \cup {None}], packages : [Numbers -> Int],
     waiting : SUBSET (Numbers \X Sessions), accepted : SUBSET Sessions,
     receiving : [Sessions -> {<<>>} \cup (Process \X Numbers)],
     arrived : [Sessions -> Nat], done : [Sessions -> Nat]]

SameTables(e, d) == e \in AnyDaemon /\ e.accepting = d.accepting /\ e.receiving = d.receiving

AnyAnswer == {Number(n) : n \in Int} \cup {Bytes(s, i, n) : s \in Sessions, i \in Nat, n \in Nat}

AnyOK == daemon \in AnyDaemon /\ answers \in [Process -> Seq(AnyAnswer)]

CountOK ==
    /\ IsFiniteSet(Debts)
    /\ Cardinality(Debts) + (Cardinality(Named) + Cardinality(Unsent)) <= Cardinality(InCall)

CountInv == FrontOK /\ SentInOrder /\ AnyOK /\ CountOK

LEMMA NumbersAreNumbers == Numbers \subseteq Nat
  BY CallsAssumption DEF CallsAssumption, Numbers, FD, Strange

LEMMA CountFacts ==
    ASSUME CountInv
    PROVE  /\ IsFiniteSet(Debts) /\ IsFiniteSet(Named) /\ IsFiniteSet(Unsent) /\ IsFiniteSet(InCall)
           /\ Cardinality(Debts) \in Nat /\ Cardinality(Named) \in Nat
           /\ Cardinality(Unsent) \in Nat /\ Cardinality(InCall) \in Nat
  <1>1. IsFiniteSet(Process)
    BY CallsAssumption DEF CallsAssumption
  <1>2. Unsent \in SUBSET Process /\ InCall \in SUBSET Process
    BY DEF Unsent, InCall
  <1>3. IsFiniteSet(Unsent) /\ IsFiniteSet(InCall)
    BY <1>1, <1>2, FS_Subset
  <1>4. Len(Total) \in Nat
    BY FrontFacts DEF CountInv
  <1>5. IsFiniteSet(1..Len(Total)) /\ Named \in SUBSET (1..Len(Total))
    BY <1>4, FS_Interval DEF Named
  <1>6. IsFiniteSet(Named)
    BY <1>5, FS_Subset
  <1>7. IsFiniteSet(Debts)
    BY DEF CountInv, CountOK
  <1>. QED BY <1>3, <1>6, <1>7, FS_CardinalityType

LEMMA DebtsSplit == Debts = (AnswerDebts \cup AcceptDebts) \cup ReceiveDebts
  BY Zenon DEF Debts, AnswerDebts, AnswersIn, AcceptDebts, ReceiveDebts

(* The text of a call's datagrams: the name, and then no name. *)
LEMMA TextFacts ==
    ASSUME NEW p \in Process, NEW c \in Calls, NEW k \in 1..Len(c)
    PROVE  Messages(p, c)[k].text \in Names <=> k = 1
  <1>1. WellFormed(c)
    BY CallFacts
  <1>2. Messages(p, c)[k] = IF k \in {1, 4} THEN Text(p, c[k]) ELSE Binary(p, c[k])
    BY <1>1 DEF WellFormed, Messages
  <1>3. c[1] \in Names
    BY <1>1 DEF WellFormed, Names
  <1>4. Len(c) \in 1..4
    BY <1>1 DEF WellFormed
  <1>5. k = 4 => c[4] = "data"
    <2>. SUFFICES ASSUME k = 4 PROVE c[4] = "data"
      OBVIOUS
    <2>1. 4 \in 1..Len(c)
      OBVIOUS
    <2>. QED BY <2>1 DEF Calls, SOCKET, BIND, ACCEPT, RECV, CONNECT, SEND
  <1>6. "data" \notin Names /\ "" \notin Names
    BY DEF Names
  <1>7. \A s : Text(p, s).text = s
    BY DEF Text
  <1>8. CASE k = 1
    BY <1>2, <1>3, <1>7, <1>8
  <1>9. CASE k = 4
    <2>1. Messages(p, c)[k].text = "data"
      BY <1>2, <1>5, <1>7, <1>9
    <2>. QED BY <1>9, <2>1 DEF Names
  <1>10. CASE k # 1 /\ k # 4
    <2>1. Binary(p, c[k]).text = ""
      BY DEF Binary
    <2>. QED BY <1>2, <1>6, <1>10, <2>1
  <1>. QED BY <1>8, <1>9, <1>10

LEMMA CountBegin ==
    ASSUME CountInv, NEW p \in Process, NEW c \in Calls, Begin(p, c)
    PROVE  CountInv'
  <1>0. /\ front[p].status = "idle"
        /\ front' = [front EXCEPT ![p] = [status |-> "sending", call |-> c,
                                          out |-> Messages(p, c)]]
        /\ reading' = reading /\ inbox' = inbox /\ daemon' = daemon /\ answers' = answers
    BY DEF Begin, daemonVars
  <1>1. FrontOK /\ WellFormed(c)
    BY CallFacts DEF CountInv
  <1>2. FrontOK'
    <2>1. [status |-> "sending", call |-> c, out |-> Messages(p, c)] \in FrontType
      BY MessagesFacts DEF FrontType, Status
    <2>. QED BY <1>0, <1>1, <2>1 DEF FrontOK, WellFormed
  <1>3. /\ front'[p].status = "sending" /\ front'[p].call = c /\ front'[p].out = Messages(p, c)
        /\ \A q \in Process \ {p} : front'[q] = front[q]
    BY <1>0, <1>1 DEF FrontOK
  <1>4. SentInOrder'
    <2>. SUFFICES ASSUME NEW q \in Process, front'[q].status = "sending"
                  PROVE  \E k \in Nat : k < Len(front'[q].call) /\ front'[q].out = Rest(q, k)'
      BY DEF SentInOrder
    <2>1. CASE q = p
      <3>1. 0 < Len(c) /\ Len(c) \in Nat
        BY <1>1 DEF WellFormed
      <3>2. Rest(p, 0)' = SubSeq(Messages(p, c), 0 + 1, Len(c))
        BY <1>3 DEF Rest
      <3>3. Messages(p, c) \in Queue /\ Len(Messages(p, c)) = Len(c)
        BY MessagesFacts
      <3>4. \A m \in Queue : SubSeq(m, 0 + 1, Len(m)) = m
        BY DEF Queue
      <3>5. Rest(p, 0)' = Messages(p, c)
        BY <3>2, <3>3, <3>4
      <3>. QED BY <1>3, <2>1, <3>1, <3>5
    <2>2. CASE q # p
      <3>1. PICK k \in Nat : k < Len(front[q].call) /\ front[q].out = Rest(q, k)
        BY <1>3, <2>2 DEF CountInv, SentInOrder
      <3>2. Rest(q, k)' = Rest(q, k)
        BY <1>3, <2>2 DEF Rest
      <3>. QED BY <1>3, <2>2, <3>1, <3>2
    <2>. QED BY <2>1, <2>2
  <1>5. Named' = Named /\ Debts' = Debts /\ AnyOK'
    BY <1>0 DEF Named, Total, Debts, AnyOK, CountInv
  <1>6. InCall' = InCall \cup {p} /\ p \notin InCall
    BY <1>0, <1>3 DEF InCall
  <1>7. Unsent' = Unsent \cup {p} /\ p \notin Unsent
    <2>1. Len(Messages(p, c)) = Len(c)
      BY MessagesFacts
    <2>. QED BY <1>0, <1>3, <2>1 DEF Unsent
  <1>8. CountOK'
    <2>1. Cardinality(InCall') = Cardinality(InCall) + 1
      BY <1>6, CountFacts, MemberAdded
    <2>2. Cardinality(Unsent') = Cardinality(Unsent) + 1
      BY <1>7, CountFacts, MemberAdded
    <2>. QED BY <1>5, <2>1, <2>2, CountFacts DEF CountInv, CountOK
  <1>. QED BY <1>2, <1>4, <1>5, <1>8 DEF CountInv

LEMMA CountSend ==
    ASSUME CountInv, NEW p \in Process, SendDatagram(p)
    PROVE  CountInv'
  <1>. DEFINE n == Len(Total)
              c == front[p].call
              d == Head(front[p].out)
  <1>0. /\ front[p].status = "sending" /\ reading' = reading /\ inbox' = Append(inbox, d)
        /\ front' = [front EXCEPT ![p].out = Tail(@),
                       ![p].status = IF Len(front[p].out) = 1 THEN "waiting" ELSE @]
        /\ daemon' = daemon /\ answers' = answers
    BY DEF SendDatagram
  <1>1. /\ FrontOK /\ Total \in Queue /\ n \in Nat /\ front[p] \in FrontType /\ c \in Calls
        /\ Len(c) \in Nat /\ WellFormed(c) /\ reading \in Queue /\ inbox \in Queue
    BY <1>0, FrontFacts, CallFacts DEF CountInv, WellFormed, FrontOK
  <1>2. PICK k \in Nat : k < Len(c) /\ front[p].out = Rest(p, k)
    BY <1>0 DEF CountInv, SentInOrder
  <1>3. /\ d = Messages(p, c)[k + 1] /\ Len(front[p].out) = Len(c) - k
        /\ Tail(front[p].out) = Rest(p, k + 1) /\ Tail(front[p].out) \in Queue
        /\ k + 1 \in 1..Len(c) /\ d \in Datagram
    <2>1. k + 1 \in 1..Len(c)
      BY <1>1, <1>2
    <2>2. Messages(p, c)[k + 1] \in Datagram
      BY <1>1, <2>1, MessagesFacts
    <2>3. /\ Len(Rest(p, k)) = Len(c) - k /\ Head(Rest(p, k)) = Messages(p, c)[k + 1]
          /\ Tail(Rest(p, k)) = Rest(p, k + 1) /\ Tail(Rest(p, k)) \in Queue
      BY <1>1, <1>2, RestFacts
    <2>. QED BY <1>2, <2>1, <2>2, <2>3
  <1>. HIDE DEF d
  <1>4. /\ front'[p].status = IF k + 1 = Len(c) THEN "waiting" ELSE "sending"
        /\ front'[p].call = c /\ front'[p].out = Rest(p, k + 1)
        /\ \A q \in Process \ {p} : front'[q] = front[q]
        /\ FrontOK'
    <2>. DEFINE f == [front[p] EXCEPT !.out = Tail(@),
                        !.status = IF Len(front[p].out) = 1 THEN "waiting" ELSE @]
    <2>1. /\ f \in FrontType /\ f.call = c /\ f.out = Rest(p, k + 1)
          /\ f.status = IF Len(front[p].out) = 1 THEN "waiting" ELSE "sending"
      BY <1>0, <1>1, <1>3 DEF FrontType, Status
    <2>2. front' = [front EXCEPT ![p] = f]
      BY <1>0
    <2>3. Len(front[p].out) = 1 <=> k + 1 = Len(c)
      BY <1>1, <1>3
    <2>. HIDE DEF f
    <2>4. front'[p] = f /\ \A q \in Process \ {p} : front'[q] = front[q]
      BY <1>1, <2>2 DEF FrontOK
    <2>5. front' \in [Process -> FrontType]
      BY <1>1, <2>1, <2>2 DEF FrontOK
    <2>6. inbox' \in Queue
      BY <1>0, <1>1, <1>3 DEF Queue
    <2>7. FrontOK'
      BY <1>0, <1>1, <2>1, <2>4, <2>5, <2>6 DEF FrontOK, WellFormed
    <2>. QED BY <2>1, <2>3, <2>4, <2>7
  <1>5. SentInOrder'
    <2>. SUFFICES ASSUME NEW q \in Process, front'[q].status = "sending"
                  PROVE  \E j \in Nat : j < Len(front'[q].call) /\ front'[q].out = Rest(q, j)'
      BY DEF SentInOrder
    <2>1. \A j : Rest(q, j)' = Rest(q, j) /\ front'[q].call = front[q].call
      BY <1>4 DEF Rest
    <2>2. CASE q = p
      <3>1. k + 1 # Len(c) /\ k + 1 \in Nat /\ k + 1 < Len(c)
        BY <1>1, <1>2, <1>4, <2>2
      <3>. QED BY <1>4, <2>1, <2>2, <3>1
    <2>3. CASE q # p
      BY <1>4, <2>1, <2>3 DEF CountInv, SentInOrder
    <2>. QED BY <2>2, <2>3
  <1>6. /\ Len(Total') = n + 1 /\ \A i \in 1..n : Total'[i] = Total[i]
        /\ Total'[n + 1] = d
    <2>1. Total' = Append(Total, d)
      BY <1>0, <1>1, <1>3, AppendTotal, Zenon DEF Total
    <2>. QED BY <1>1, <1>3, <2>1, AppendFacts, Zenon
  <1>7. Debts' = Debts /\ AnyOK' /\ InCall' = InCall
    <2>1. Debts' = Debts /\ AnyOK'
      BY <1>0 DEF Debts, AnyOK, CountInv
    <2>2. front'[p].status # "idle" /\ front[p].status # "idle"
      BY <1>0, <1>4
    <2>. QED BY <1>4, <2>1, <2>2 DEF InCall
  <1>8. d.text \in Names <=> k = 0
    BY <1>1, <1>2, <1>3, TextFacts
  <1>9. CASE k = 0
    <2>1. Named' = Named \cup {n + 1} /\ n + 1 \notin Named
      <3>1. 1..n + 1 = 1..n \cup {n + 1} /\ n + 1 \notin 1..n
        BY <1>1
      <3>. QED BY <1>6, <1>8, <1>9, <3>1 DEF Named
    <2>2. Unsent' = Unsent \ {p} /\ p \in Unsent
      <3>1. Len(front[p].out) = Len(c) /\ p \in Unsent
        BY <1>0, <1>1, <1>3, <1>9 DEF Unsent
      <3>2. front'[p].status = "sending" => Len(front'[p].out) # Len(c)
        <4>1. Len(Tail(front[p].out)) = Len(front[p].out) - 1
          BY <1>1, <1>3, <1>9, HeadTailProperties DEF FrontType, Queue
        <4>2. Len(front'[p].out) = Len(c) - 1
          BY <1>3, <1>4, <3>1, <4>1
        <4>. QED BY <1>1, <4>2
      <3>3. p \notin Unsent'
        BY <1>4, <3>2 DEF Unsent
      <3>4. \A q \in Process \ {p} : q \in Unsent' <=> q \in Unsent
        BY <1>4 DEF Unsent
      <3>. QED BY <3>1, <3>3, <3>4 DEF Unsent
    <2>3. Cardinality(Named') = Cardinality(Named) + 1
      BY <2>1, CountFacts, MemberAdded
    <2>4. Cardinality(Unsent') = Cardinality(Unsent) - 1
      BY <2>2, CountFacts, MemberTaken
    <2>5. CountOK'
      BY <1>7, <2>3, <2>4, CountFacts DEF CountInv, CountOK
    <2>. QED BY <1>4, <1>5, <1>7, <2>5 DEF CountInv
  <1>10. CASE k # 0
    <2>1. Named' = Named
      <3>1. 1..n + 1 = 1..n \cup {n + 1}
        BY <1>1
      <3>. QED BY <1>6, <1>8, <1>10, <3>1 DEF Named
    <2>2. Unsent' = Unsent
      <3>1. p \notin Unsent
        BY <1>1, <1>2, <1>3, <1>10 DEF Unsent
      <3>2. front'[p].status = "sending" => Len(front'[p].out) # Len(c)
        <4>1. Len(Tail(front[p].out)) = Len(front[p].out) - 1
          BY <1>1, <1>2, <1>3, HeadTailProperties DEF FrontType, Queue
        <4>. QED BY <1>1, <1>2, <1>3, <1>4, <4>1
      <3>3. \A q \in Process \ {p} : q \in Unsent' <=> q \in Unsent
        BY <1>4 DEF Unsent
      <3>4. p \notin Unsent'
        BY <1>4, <3>2 DEF Unsent
      <3>. QED BY <3>1, <3>3, <3>4 DEF Unsent
    <2>3. CountOK'
      BY <1>7, <2>1, <2>2, CountFacts DEF CountInv, CountOK
    <2>. QED BY <1>4, <1>5, <1>7, <2>3 DEF CountInv
  <1>. QED BY <1>9, <1>10

(* What one answer more or less, and one note more or less, does to the    *)
(* debts.                                                                  *)
LEMMA AnswersInFacts ==
    ASSUME NEW a \in [Process -> Seq(AnyAnswer)], NEW x
    PROVE  x \in AnswersIn(a) <=>
             \E p \in Process : \E i \in 1..Len(a[p]) : x = <<"answer", p, i>>
  <1>. DEFINE Of(p) == {<<"answer", p, i>> : i \in DOMAIN a[p]}
  <1>1. AnswersIn(a) = UNION {Of(p) : p \in Process}
    BY DEF AnswersIn
  <1>2. \A p \in Process : x \in Of(p) <=> \E i \in 1..Len(a[p]) : x = <<"answer", p, i>>
    <2>1. \A p \in Process : DOMAIN a[p] = 1..Len(a[p])
      OBVIOUS
    <2>. QED BY <2>1
  <1>. HIDE DEF Of
  <1>3. x \in AnswersIn(a) <=> \E p \in Process : x \in Of(p)
    BY <1>1
  <1>. QED BY <1>2, <1>3

LEMMA AnswerDebtsFacts ==
    ASSUME answers \in [Process -> Seq(AnyAnswer)]
    PROVE  \A x : x \in AnswerDebts <=>
             \E p \in Process : \E i \in 1..Len(answers[p]) : x = <<"answer", p, i>>
  BY AnswersInFacts DEF AnswerDebts

LEMMA DebtKinds ==
    ASSUME AnyOK
    PROVE  /\ \A x \in AnswerDebts : x[1] = "answer"
           /\ \A x \in AcceptDebts : x[1] = "accept"
           /\ \A x \in ReceiveDebts : x[1] = "receive"
  <1>1. \A x \in AnswerDebts : x[1] = "answer"
    BY AnswerDebtsFacts DEF AnyOK
  <1>. QED BY <1>1 DEF AcceptDebts, ReceiveDebts

LEMMA AnswerMore ==
    ASSUME AnyOK, NEW p \in Process, NEW v \in AnyAnswer, Answer(p, v)
    PROVE  /\ answers' \in [Process -> Seq(AnyAnswer)]
           /\ \E x : x[1] = "answer" /\ x \notin AnswerDebts /\ AnswerDebts' = AnswerDebts \cup {x}
  <1>1. /\ answers \in [Process -> Seq(AnyAnswer)]
        /\ answers' = [answers EXCEPT ![p] = Append(@, v)]
    BY DEF AnyOK, Answer
  <1>2. /\ Append(answers[p], v) \in Seq(AnyAnswer)
        /\ Len(Append(answers[p], v)) = Len(answers[p]) + 1 /\ Len(answers[p]) \in Nat
    BY <1>1
  <1>3. /\ answers' \in [Process -> Seq(AnyAnswer)]
        /\ Len(answers'[p]) = Len(answers[p]) + 1
        /\ \A q \in Process \ {p} : answers'[q] = answers[q]
    BY <1>1, <1>2
  <1>. DEFINE x == <<"answer", p, Len(answers[p]) + 1>>
  <1>4. x \notin AnswerDebts
    <2>1. \A q \in Process : \A i \in 1..Len(answers[q]) : x # <<"answer", q, i>>
      BY <1>2
    <2>. QED BY <1>1, <2>1, AnswerDebtsFacts
  <1>5. AnswerDebts' = AnswerDebts \cup {x}
    <2>1. \A y : y \in AnswerDebts' <=>
            \E q \in Process : \E i \in 1..Len(answers'[q]) : y = <<"answer", q, i>>
      BY <1>3, AnswersInFacts DEF AnswerDebts
    <2>2. 1..Len(answers'[p]) = 1..Len(answers[p]) \cup {Len(answers[p]) + 1}
      BY <1>2, <1>3
    <2>3. ASSUME NEW y, y \in AnswerDebts' PROVE y \in AnswerDebts \cup {x}
      <3>0. PICK q \in Process : \E i \in 1..Len(answers'[q]) : y = <<"answer", q, i>>
        BY <2>1, <2>3
      <3>1. PICK i \in 1..Len(answers'[q]) : y = <<"answer", q, i>>
        BY <3>0
      <3>2. CASE q = p /\ i = Len(answers[p]) + 1
        BY <3>1, <3>2
      <3>3. CASE ~(q = p /\ i = Len(answers[p]) + 1)
        <4>1. i \in 1..Len(answers[q])
          BY <1>3, <2>2, <3>1, <3>3
        <4>. QED BY <1>1, <3>1, <4>1, AnswerDebtsFacts
      <3>. QED BY <3>2, <3>3
    <2>4. ASSUME NEW y, y \in AnswerDebts PROVE y \in AnswerDebts'
      <3>0. PICK q \in Process : \E i \in 1..Len(answers[q]) : y = <<"answer", q, i>>
        BY <1>1, <2>4, AnswerDebtsFacts
      <3>1. PICK i \in 1..Len(answers[q]) : y = <<"answer", q, i>>
        BY <3>0
      <3>2. i \in 1..Len(answers'[q])
        BY <1>3, <2>2, <3>1
      <3>. QED BY <2>1, <3>1, <3>2
    <2>5. x \in AnswerDebts'
      BY <2>1, <2>2
    <2>. HIDE DEF x
    <2>. QED BY <2>3, <2>4, <2>5
  <1>6. x[1] = "answer"
    OBVIOUS
  <1>. HIDE DEF x
  <1>. QED BY <1>3, <1>4, <1>5, <1>6

LEMMA AnswerLess ==
    ASSUME AnyOK, NEW p \in Process, answers[p] # <<>>,
           answers' = [answers EXCEPT ![p] = Tail(@)]
    PROVE  /\ answers' \in [Process -> Seq(AnyAnswer)]
           /\ \E x \in AnswerDebts : x[1] = "answer" /\ AnswerDebts' = AnswerDebts \ {x}
  <1>1. answers \in [Process -> Seq(AnyAnswer)] /\ answers[p] \in Seq(AnyAnswer)
    BY DEF AnyOK
  <1>2. /\ Tail(answers[p]) \in Seq(AnyAnswer)
        /\ Len(Tail(answers[p])) = Len(answers[p]) - 1 /\ Len(answers[p]) \in Nat
        /\ Len(answers[p]) >= 1
    BY <1>1
  <1>3. /\ answers' \in [Process -> Seq(AnyAnswer)]
        /\ Len(answers'[p]) = Len(answers[p]) - 1
        /\ \A q \in Process \ {p} : answers'[q] = answers[q]
    BY <1>1, <1>2
  <1>. DEFINE x == <<"answer", p, Len(answers[p])>>
  <1>4. x \in AnswerDebts
    <2>1. Len(answers[p]) \in 1..Len(answers[p])
      BY <1>2
    <2>. QED BY <1>1, <2>1, AnswerDebtsFacts
  <1>5. AnswerDebts' = AnswerDebts \ {x}
    <2>1. \A y : y \in AnswerDebts' <=>
            \E q \in Process : \E i \in 1..Len(answers'[q]) : y = <<"answer", q, i>>
      BY <1>3, AnswersInFacts DEF AnswerDebts
    <2>2. 1..Len(answers'[p]) = 1..Len(answers[p]) \ {Len(answers[p])}
      BY <1>2, <1>3
    <2>3. ASSUME NEW y, y \in AnswerDebts' PROVE y \in AnswerDebts /\ y # x
      <3>0. PICK q \in Process : \E i \in 1..Len(answers'[q]) : y = <<"answer", q, i>>
        BY <2>1, <2>3
      <3>1. PICK i \in 1..Len(answers'[q]) : y = <<"answer", q, i>>
        BY <3>0
      <3>2. i \in 1..Len(answers[q]) /\ (q = p => i # Len(answers[p]))
        BY <1>3, <2>2, <3>1
      <3>. QED BY <1>1, <3>1, <3>2, AnswerDebtsFacts
    <2>4. ASSUME NEW y, y \in AnswerDebts, y # x PROVE y \in AnswerDebts'
      <3>0. PICK q \in Process : \E i \in 1..Len(answers[q]) : y = <<"answer", q, i>>
        BY <1>1, <2>4, AnswerDebtsFacts
      <3>1. PICK i \in 1..Len(answers[q]) : y = <<"answer", q, i>>
        BY <3>0
      <3>2. i \in 1..Len(answers'[q])
        BY <1>3, <2>2, <2>4, <3>1
      <3>. QED BY <2>1, <3>1, <3>2
    <2>. HIDE DEF x
    <2>. QED BY <2>3, <2>4
  <1>6. x[1] = "answer"
    OBVIOUS
  <1>. HIDE DEF x
  <1>. QED BY <1>3, <1>4, <1>5, <1>6

LEMMA AcceptDebtMore ==
    ASSUME AnyOK, NEW fd \in Numbers, NEW p \in Process, daemon.accepting[fd] = None,
           daemon'.accepting = [daemon.accepting EXCEPT ![fd] = p]
    PROVE  \E x : x[1] = "accept" /\ x \notin AcceptDebts /\ AcceptDebts' = AcceptDebts \cup {x}
  <1>0. p # None /\ daemon.accepting \in [Numbers -> Process \cup {None}]
    BY CallsAssumption DEF CallsAssumption, None, AnyOK, AnyDaemon
  <1>. DEFINE A == {n \in Numbers : daemon.accepting[n] # None}
  <1>1. A' = A \cup {fd} /\ fd \notin A
    BY <1>0
  <1>. DEFINE x == <<"accept", fd, 0>>
  <1>2. AcceptDebts = {<<"accept", n, 0>> : n \in A} /\ AcceptDebts' = {<<"accept", n, 0>> : n \in A'}
    BY DEF AcceptDebts
  <1>. HIDE DEF A
  <1>3. x \notin AcceptDebts /\ AcceptDebts' = AcceptDebts \cup {x} /\ x[1] = "accept"
    BY <1>1, <1>2
  <1>. QED BY <1>3

LEMMA AcceptDebtLess ==
    ASSUME AnyOK, NEW fd \in Numbers, daemon.accepting[fd] # None,
           daemon'.accepting = [daemon.accepting EXCEPT ![fd] = None]
    PROVE  \E x \in AcceptDebts : x[1] = "accept" /\ AcceptDebts' = AcceptDebts \ {x}
  <1>0. daemon.accepting \in [Numbers -> Process \cup {None}]
    BY DEF AnyOK, AnyDaemon
  <1>. DEFINE A == {n \in Numbers : daemon.accepting[n] # None}
  <1>1. A' = A \ {fd} /\ fd \in A
    BY <1>0
  <1>. DEFINE x == <<"accept", fd, 0>>
  <1>2. AcceptDebts = {<<"accept", n, 0>> : n \in A} /\ AcceptDebts' = {<<"accept", n, 0>> : n \in A'}
    BY DEF AcceptDebts
  <1>. HIDE DEF A
  <1>3. x \in AcceptDebts /\ AcceptDebts' = AcceptDebts \ {x} /\ x[1] = "accept"
    BY <1>1, <1>2
  <1>. QED BY <1>3

LEMMA ReceiveDebtMore ==
    ASSUME AnyOK, NEW s \in Sessions, NEW v, v # <<>>, daemon.receiving[s] = <<>>,
           daemon'.receiving = [daemon.receiving EXCEPT ![s] = v]
    PROVE  \E x : x[1] = "receive" /\ x \notin ReceiveDebts /\ ReceiveDebts' = ReceiveDebts \cup {x}
  <1>0. daemon.receiving \in [Sessions -> {<<>>} \cup (Process \X Numbers)]
    BY DEF AnyOK, AnyDaemon
  <1>. DEFINE A == {n \in Sessions : daemon.receiving[n] # <<>>}
  <1>1. A' = A \cup {s} /\ s \notin A
    BY <1>0
  <1>. DEFINE x == <<"receive", s, 0>>
  <1>2. /\ ReceiveDebts = {<<"receive", n, 0>> : n \in A}
        /\ ReceiveDebts' = {<<"receive", n, 0>> : n \in A'}
    BY DEF ReceiveDebts
  <1>. HIDE DEF A
  <1>3. x \notin ReceiveDebts /\ ReceiveDebts' = ReceiveDebts \cup {x} /\ x[1] = "receive"
    BY <1>1, <1>2
  <1>. QED BY <1>3

LEMMA ReceiveDebtLess ==
    ASSUME AnyOK, NEW s \in Sessions, daemon.receiving[s] # <<>>,
           daemon'.receiving = [daemon.receiving EXCEPT ![s] = <<>>]
    PROVE  \E x \in ReceiveDebts : x[1] = "receive" /\ ReceiveDebts' = ReceiveDebts \ {x}
  <1>0. daemon.receiving \in [Sessions -> {<<>>} \cup (Process \X Numbers)]
    BY DEF AnyOK, AnyDaemon
  <1>. DEFINE A == {n \in Sessions : daemon.receiving[n] # <<>>}
  <1>1. A' = A \ {s} /\ s \in A
    BY <1>0
  <1>. DEFINE x == <<"receive", s, 0>>
  <1>2. /\ ReceiveDebts = {<<"receive", n, 0>> : n \in A}
        /\ ReceiveDebts' = {<<"receive", n, 0>> : n \in A'}
    BY DEF ReceiveDebts
  <1>. HIDE DEF A
  <1>3. x \in ReceiveDebts /\ ReceiveDebts' = ReceiveDebts \ {x} /\ x[1] = "receive"
    BY <1>1, <1>2
  <1>. QED BY <1>3

(* The debts of one kind change by one, the others stay.                   *)
LEMMA OneDebtMore ==
    ASSUME AnyOK, IsFiniteSet(Debts), NEW x, x \notin Debts, Debts' = Debts \cup {x}
    PROVE  IsFiniteSet(Debts') /\ Cardinality(Debts') = Cardinality(Debts) + 1
  BY FS_AddElement

LEMMA SameDebts ==
    ASSUME AnyOK, IsFiniteSet(Debts), answers' = answers,
           daemon'.accepting = daemon.accepting, daemon'.receiving = daemon.receiving
    PROVE  Debts' = Debts
  BY DEF Debts

LEMMA AnswerMoreDebt ==
    ASSUME AnyOK, IsFiniteSet(Debts), NEW p \in Process, NEW v \in AnyAnswer, Answer(p, v),
           daemon'.accepting = daemon.accepting, daemon'.receiving = daemon.receiving
    PROVE  /\ answers' \in [Process -> Seq(AnyAnswer)]
           /\ IsFiniteSet(Debts') /\ Cardinality(Debts') = Cardinality(Debts) + 1
  <1>1. PICK x : x[1] = "answer" /\ x \notin AnswerDebts /\ AnswerDebts' = AnswerDebts \cup {x}
    BY AnswerMore
  <1>2. AcceptDebts' = AcceptDebts /\ ReceiveDebts' = ReceiveDebts
    BY DEF AcceptDebts, ReceiveDebts
  <1>3. x \notin Debts
    BY <1>1, DebtKinds, DebtsSplit
  <1>4. Debts' = Debts \cup {x}
    <2>1. Debts' = (AnswerDebts' \cup AcceptDebts') \cup ReceiveDebts'
      BY Zenon DEF Debts, AnswerDebts, AnswersIn, AcceptDebts, ReceiveDebts
    <2>. QED BY <1>1, <1>2, <2>1, DebtsSplit
  <1>. QED BY <1>3, <1>4, OneDebtMore, AnswerMore

LEMMA NoteMoreDebt ==
    ASSUME AnyOK, IsFiniteSet(Debts), answers' = answers,
           \/ /\ \E x : x[1] = "accept" /\ x \notin AcceptDebts /\ AcceptDebts' = AcceptDebts \cup {x}
              /\ daemon'.receiving = daemon.receiving
           \/ /\ \E x : x[1] = "receive" /\ x \notin ReceiveDebts
                          /\ ReceiveDebts' = ReceiveDebts \cup {x}
              /\ daemon'.accepting = daemon.accepting
    PROVE  IsFiniteSet(Debts') /\ Cardinality(Debts') = Cardinality(Debts) + 1
  <1>1. Debts' = (AnswerDebts' \cup AcceptDebts') \cup ReceiveDebts'
    BY Zenon DEF Debts, AnswerDebts, AnswersIn, AcceptDebts, ReceiveDebts
  <1>2. AnswerDebts' = AnswerDebts
    BY DEF AnswerDebts
  <1>3. ASSUME NEW x, x[1] = "accept", x \notin AcceptDebts, AcceptDebts' = AcceptDebts \cup {x},
               daemon'.receiving = daemon.receiving
        PROVE  IsFiniteSet(Debts') /\ Cardinality(Debts') = Cardinality(Debts) + 1
    <2>1. ReceiveDebts' = ReceiveDebts
      BY <1>3 DEF ReceiveDebts
    <2>2. x \notin Debts /\ Debts' = Debts \cup {x}
      BY <1>1, <1>2, <1>3, <2>1, DebtKinds, DebtsSplit
    <2>. QED BY <2>2, OneDebtMore
  <1>4. ASSUME NEW x, x[1] = "receive", x \notin ReceiveDebts, ReceiveDebts' = ReceiveDebts \cup {x},
               daemon'.accepting = daemon.accepting
        PROVE  IsFiniteSet(Debts') /\ Cardinality(Debts') = Cardinality(Debts) + 1
    <2>1. AcceptDebts' = AcceptDebts
      BY <1>4 DEF AcceptDebts
    <2>2. x \notin Debts /\ Debts' = Debts \cup {x}
      BY <1>1, <1>2, <1>4, <2>1, DebtKinds, DebtsSplit
    <2>. QED BY <2>2, OneDebtMore
  <1>. QED BY <1>3, <1>4

(* A note is answered. *)
LEMMA DebtMoved ==
    ASSUME AnyOK, IsFiniteSet(Debts), NEW p \in Process, NEW v \in AnyAnswer, Answer(p, v),
           \/ /\ \E x \in AcceptDebts : x[1] = "accept" /\ AcceptDebts' = AcceptDebts \ {x}
              /\ daemon'.receiving = daemon.receiving
           \/ /\ \E x \in ReceiveDebts : x[1] = "receive" /\ ReceiveDebts' = ReceiveDebts \ {x}
              /\ daemon'.accepting = daemon.accepting
    PROVE  IsFiniteSet(Debts') /\ Cardinality(Debts') = Cardinality(Debts)
  <1>1. PICK y : y[1] = "answer" /\ y \notin AnswerDebts /\ AnswerDebts' = AnswerDebts \cup {y}
    BY AnswerMore
  <1>2. Debts' = (AnswerDebts' \cup AcceptDebts') \cup ReceiveDebts'
    BY Zenon DEF Debts, AnswerDebts, AnswersIn, AcceptDebts, ReceiveDebts
  <1>3. PICK x : x \in Debts /\ x[1] # "answer" /\ Debts' = (Debts \ {x}) \cup {y}
    <2>1. ASSUME NEW x \in AcceptDebts, x[1] = "accept", AcceptDebts' = AcceptDebts \ {x},
                 daemon'.receiving = daemon.receiving
          PROVE  x \in Debts /\ x[1] # "answer" /\ Debts' = (Debts \ {x}) \cup {y}
      <3>1. ReceiveDebts' = ReceiveDebts
        BY <2>1 DEF ReceiveDebts
      <3>2. x \notin AnswerDebts /\ x \notin ReceiveDebts /\ x # y
        BY <1>1, <2>1, DebtKinds
      <3>. QED BY <1>1, <1>2, <2>1, <3>1, <3>2, DebtsSplit
    <2>2. ASSUME NEW x \in ReceiveDebts, x[1] = "receive", ReceiveDebts' = ReceiveDebts \ {x},
                 daemon'.accepting = daemon.accepting
          PROVE  x \in Debts /\ x[1] # "answer" /\ Debts' = (Debts \ {x}) \cup {y}
      <3>1. AcceptDebts' = AcceptDebts
        BY <2>2 DEF AcceptDebts
      <3>2. x \notin AnswerDebts /\ x \notin AcceptDebts /\ x # y
        BY <1>1, <2>2, DebtKinds
      <3>. QED BY <1>1, <1>2, <2>2, <3>1, <3>2, DebtsSplit
    <2>. QED BY <2>1, <2>2
  <1>4. y \notin Debts
    BY <1>1, DebtKinds, DebtsSplit
  <1>5. /\ IsFiniteSet(Debts \ {x}) /\ Cardinality(Debts \ {x}) = Cardinality(Debts) - 1
        /\ Cardinality(Debts) \in Nat
    BY <1>3, FS_RemoveElement, FS_CardinalityType
  <1>6. /\ IsFiniteSet((Debts \ {x}) \cup {y})
        /\ Cardinality((Debts \ {x}) \cup {y}) = Cardinality(Debts \ {x}) + 1
    BY <1>4, <1>5, FS_AddElement
  <1>. QED BY <1>3, <1>5, <1>6

(* A handler leaves one debt more at most. *)
LEMMA HandleDebt ==
    ASSUME AnyOK, IsFiniteSet(Debts), NEW p \in Process, NEW c \in Queue,
           Len(c) >= Datagrams(c[1].text), Handle(p, c)
    PROVE  /\ AnyOK' /\ IsFiniteSet(Debts') /\ Cardinality(Debts') <= Cardinality(Debts) + 1
           /\ c[1].text \in Names
  <1>. DEFINE name == c[1].text
              a == c[2].number
              b == c[3].number
  <1>0. daemon \in AnyDaemon /\ Cardinality(Debts) \in Nat
    BY FS_CardinalityType DEF AnyOK
  <1>1. /\ name \in {"BIND", "RECV", "CONNECT", "SEND"} => b \in Numbers
        /\ name \in {"ACCEPT", "BIND", "RECV", "CONNECT", "SEND"} => a \in Numbers
    <2>1. /\ name \in {"BIND", "RECV", "CONNECT", "SEND"} => Len(c) >= 3
          /\ name \in {"ACCEPT", "BIND", "RECV", "CONNECT", "SEND"} => Len(c) >= 2
      BY DEF Datagrams, Queue
    <2>2. \A i \in 1..Len(c) : c[i].number \in Numbers
      <3>1. \A i \in 1..Len(c) : c[i] \in Datagram
        BY DEF Queue
      <3>. QED BY <3>1 DEF Datagram
    <2>3. Len(c) \in Nat
      BY DEF Queue
    <2>. QED BY <2>1, <2>2, <2>3
  <1>2. \A n \in Numbers : n \in Int
    BY NumbersAreNumbers
  <1>3. \A n \in Int : Number(n) \in AnyAnswer
    BY DEF AnyAnswer
  <1>. DEFINE Good == AnyOK' /\ IsFiniteSet(Debts') /\ Cardinality(Debts') <= Cardinality(Debts) + 1
  <1>4. ASSUME NEW v \in AnyAnswer, Answer(p, v), daemon' \in AnyDaemon,
               daemon'.accepting = daemon.accepting, daemon'.receiving = daemon.receiving
        PROVE  Good
    <2>1. /\ answers' \in [Process -> Seq(AnyAnswer)]
          /\ IsFiniteSet(Debts') /\ Cardinality(Debts') = Cardinality(Debts) + 1
      BY <1>4, AnswerMoreDebt
    <2>. QED BY <1>0, <1>4, <2>1 DEF AnyOK
  <1>5. ASSUME Exit PROVE Good
    <2>1. daemon' = daemon /\ answers' = answers
      BY <1>5 DEF Exit
    <2>. QED BY <1>0, <2>1, SameDebts DEF AnyOK
  <1>6. ASSUME daemon' \in AnyDaemon, answers' = answers,
               IsFiniteSet(Debts'), Cardinality(Debts') = Cardinality(Debts) + 1
        PROVE  Good
    BY <1>0, <1>6 DEF AnyOK
  <1>. HIDE DEF Good
  <1>7. ASSUME tcpd_SOCKET(p) PROVE Good
    <2>1. /\ daemon' = [daemon EXCEPT !.sockets = daemon.sockets + 1]
          /\ Answer(p, Number(daemon.sockets + 1)) /\ daemon.sockets + 1 \in Nat
      BY <1>0, <1>7 DEF tcpd_SOCKET, AnyDaemon
    <2>2. /\ daemon' \in AnyDaemon /\ daemon'.accepting = daemon.accepting
          /\ daemon'.receiving = daemon.receiving
      BY <1>0, <2>1 DEF AnyDaemon
    <2>. QED BY <1>3, <1>4, <2>1, <2>2
  <1>8. ASSUME name = "BIND", tcpd_BIND(p, a, b) PROVE Good
    <2>1. CASE daemon' = [daemon EXCEPT !.binded = @ \cup {<<a, b>>}] /\ Answer(p, Number(0))
      <3>1. daemon.binded \cup {<<a, b>>} \in SUBSET (Numbers \X Numbers)
        BY <1>0, <1>1, <1>8 DEF AnyDaemon
      <3>2. /\ daemon' \in AnyDaemon /\ daemon'.accepting = daemon.accepting
            /\ daemon'.receiving = daemon.receiving
        BY <1>0, <2>1, <3>1 DEF AnyDaemon
      <3>. QED BY <1>3, <1>4, <2>1, <3>2
    <2>. QED BY <1>5, <1>8, <2>1 DEF tcpd_BIND
  <1>9. ASSUME name = "ACCEPT", tcpd_ACCEPT(p, a) PROVE Good
    <2>1. CASE CanAccept(a) /\ daemon' = [daemon EXCEPT !.accepting[a] = p] /\ answers' = answers
      <3>1. daemon.accepting[a] = None /\ a \in Numbers
        BY <1>1, <1>9, <2>1 DEF CanAccept
      <3>2. /\ daemon'.accepting = [daemon.accepting EXCEPT ![a] = p]
            /\ daemon'.receiving = daemon.receiving /\ daemon' \in AnyDaemon
        BY <1>0, <2>1, <3>1 DEF AnyDaemon
      <3>3. \E x : x[1] = "accept" /\ x \notin AcceptDebts /\ AcceptDebts' = AcceptDebts \cup {x}
        BY <3>1, <3>2, AcceptDebtMore
      <3>. QED BY <1>6, <2>1, <3>2, <3>3, NoteMoreDebt
    <2>2. CASE Answer(p, Number(-1)) /\ daemon' = daemon
      BY <1>0, <1>3, <1>4, <2>2
    <2>. QED BY <1>9, <2>1, <2>2 DEF tcpd_ACCEPT
  <1>10. ASSUME name = "RECV", tcpd_RECV(p, a, b) PROVE Good
    <2>1. CASE CanReceive(a, b) /\ daemon' = [daemon EXCEPT !.receiving[a] = <<p, b>>]
               /\ answers' = answers
      <3>1. daemon.receiving[a] = <<>> /\ a \in Sessions /\ <<p, b>> \in Process \X Numbers
        BY <1>0, <1>1, <1>10, <2>1 DEF CanReceive, AnyDaemon
      <3>2. /\ daemon'.receiving = [daemon.receiving EXCEPT ![a] = <<p, b>>]
            /\ daemon'.accepting = daemon.accepting /\ daemon' \in AnyDaemon
        BY <1>0, <2>1, <3>1 DEF AnyDaemon
      <3>3. \E x : x[1] = "receive" /\ x \notin ReceiveDebts /\ ReceiveDebts' = ReceiveDebts \cup {x}
        BY <3>1, <3>2, ReceiveDebtMore
      <3>. QED BY <1>6, <2>1, <3>2, <3>3, NoteMoreDebt
    <2>2. CASE Answer(p, Number(Refusal(a, b))) /\ daemon' = daemon
      <3>1. Refusal(a, b) \in Int
        BY DEF Refusal
      <3>. QED BY <1>0, <1>3, <1>4, <2>2, <3>1
    <2>. QED BY <1>10, <2>1, <2>2 DEF tcpd_RECV
  <1>11. ASSUME name = "CONNECT", tcpd_CONNECT(p, a) PROVE Good
    <2>1. /\ daemon' = [daemon EXCEPT !.connected = @ \cup {a}, !.packages[a] = 0]
          /\ Answer(p, Number(0)) /\ a \in Numbers
      BY <1>1, <1>11 DEF tcpd_CONNECT
    <2>2. /\ daemon.connected \cup {a} \in SUBSET Numbers
          /\ [daemon.packages EXCEPT ![a] = 0] \in [Numbers -> Int]
      BY <1>0, <2>1 DEF AnyDaemon
    <2>3. SameTables([daemon EXCEPT !.connected = daemon.connected \cup {a},
                                    !.packages = [daemon.packages EXCEPT ![a] = 0]], daemon)
      BY <1>0, <2>2 DEF AnyDaemon, SameTables
    <2>4. SameTables(daemon', daemon)
      BY <1>0, <2>1, <2>3 DEF AnyDaemon
    <2>. QED BY <1>3, <1>4, <2>1, <2>4 DEF SameTables
  <1>12. ASSUME name = "SEND", tcpd_SEND(p, a, b) PROVE Good
    <2>1. CASE /\ daemon' = [daemon EXCEPT !.packages[a] = @ + 1, !.inBuffer = @ + 1]
               /\ Answer(p, Number(b))
      <3>1. a \in Numbers /\ b \in Int
        BY <1>1, <1>2, <1>12
      <3>2. /\ [daemon.packages EXCEPT ![a] = @ + 1] \in [Numbers -> Int]
            /\ daemon.inBuffer + 1 \in Int
        BY <1>0, <3>1 DEF AnyDaemon
      <3>3. SameTables([daemon EXCEPT !.packages = [daemon.packages EXCEPT ![a] = @ + 1],
                                      !.inBuffer = daemon.inBuffer + 1], daemon)
        BY <1>0, <3>2 DEF AnyDaemon, SameTables
      <3>4. SameTables(daemon', daemon)
        BY <1>0, <2>1, <3>3 DEF AnyDaemon
      <3>. QED BY <1>3, <1>4, <2>1, <3>1, <3>4 DEF SameTables
    <2>. QED BY <1>5, <1>12, <2>1 DEF tcpd_SEND
  <1>13. name \in Names
    BY DEF Handle, Names
  <1>14. Good
    <2>. HIDE DEF a, b
    <2>. QED BY <1>7, <1>8, <1>9, <1>10, <1>11, <1>12 DEF Handle, a, b
  <1>. QED BY <1>13, <1>14 DEF Good

(* When the datagrams of a call are gone, so is its name. *)
LEMMA NamesGone ==
    ASSUME CountInv, NEW m \in 1..Len(Total), Len(Total') = Len(Total) - m,
           \A i \in 1..Len(Total') : Total'[i] = Total[i + m]
    PROVE  /\ IsFiniteSet(Named') /\ Cardinality(Named') \in Nat
           /\ Cardinality(Named') <= Cardinality(Named)
           /\ Total[1].text \in Names => Cardinality(Named') + 1 <= Cardinality(Named)
  <1>. DEFINE f == [i \in Named' |-> i + m]
              T == Named \ {1}
  <1>1. Len(Total) \in Nat
    BY FrontFacts DEF CountInv
  <1>2. \A i \in 1..Len(Total) - m : i + m \in 1..Len(Total) /\ i + m # 1
    BY <1>1
  <1>3. f \in Injection(Named', T)
    <2>1. ASSUME NEW i \in Named' PROVE i \in Int /\ i + m \in T
      BY <1>1, <1>2, <2>1 DEF Named
    <2>2. f \in [Named' -> T]
      BY <2>1
    <2>3. \A i, j \in Named' : f[i] = f[j] => i = j
      BY <2>1
    <2>. QED BY <2>2, <2>3 DEF Injection, IsInjective
  <1>4. /\ IsFiniteSet(T)
        /\ Cardinality(T) = IF 1 \in Named THEN Cardinality(Named) - 1 ELSE Cardinality(Named)
    BY CountFacts, FS_RemoveElement
  <1>. HIDE DEF f, T
  <1>5. IsFiniteSet(Named') /\ Cardinality(Named') <= Cardinality(T)
    BY <1>3, <1>4, FS_Injection
  <1>6. Cardinality(Named') \in Nat
    BY <1>5, FS_CardinalityType
  <1>7. Total[1].text \in Names => 1 \in Named
    BY <1>1 DEF Named
  <1>. QED BY <1>4, <1>5, <1>6, <1>7, CountFacts

LEMMA CountFetch ==
    ASSUME CountInv, Fetch
    PROVE  CountInv'
  <1>. DEFINE d == Head(inbox)
              c == Append(reading, d)
              whole == Len(c) >= Datagrams(c[1].text)
              m == Len(reading) + 1
  <1>0. /\ inbox # <<>> /\ inbox' = Tail(inbox) /\ reading' = IF whole THEN <<>> ELSE c
        /\ \/ TooLong(c) /\ Exit
           \/ whole /\ Datagrams(c[1].text) > 0 /\ Handle(d.from, c)
           \/ whole /\ Datagrams(c[1].text) = 0 /\ Served /\ UNCHANGED <<daemon, answers>>
           \/ ~whole /\ ~TooLong(c) /\ UNCHANGED <<phase, daemon, answers>>
        /\ front' = front
    BY DEF Fetch
  <1>1. /\ FrontOK /\ AnyOK /\ IsFiniteSet(Debts) /\ reading \in Queue /\ inbox \in Queue
        /\ Len(Total) \in Nat
    BY FrontFacts DEF CountInv, CountOK, FrontOK
  <1>2. /\ d \in Datagram /\ c \in Queue /\ Tail(inbox) \in Queue
        /\ c \o Tail(inbox) = Total
        /\ Len(c) = m /\ Len(Tail(inbox)) = Len(inbox) - 1 /\ Len(inbox) >= 1
        /\ \A i \in 1..m : c[i] = Total[i]
        /\ \A i \in 1..Len(Tail(inbox)) : Tail(inbox)[i] = Total[i + m]
        /\ <<>> \o Tail(inbox) = Tail(inbox)
    BY <1>0, <1>1, FetchFacts DEF Total
  <1>3. Len(Total) = Len(reading) + Len(inbox) /\ Len(reading) \in Nat /\ Len(inbox) \in Nat
    BY <1>1, TotalFacts DEF Total
  <1>4. m \in 1..Len(Total) /\ c[1] = Total[1] /\ d.from \in Process
    <2>1. m \in 1..Len(Total) /\ 1 \in 1..m
      BY <1>2, <1>3 DEF m
    <2>2. d.from \in Process
      BY <1>2 DEF Datagram
    <2>. QED BY <1>2, <2>1, <2>2
  <1>. HIDE DEF d, c, whole, m
  <1>5. FrontOK'
    <2>1. reading' \in Queue
      BY <1>0, <1>2 DEF Queue
    <2>. QED BY <1>0, <1>1, <1>2, <2>1 DEF FrontOK
  <1>6. SentInOrder' /\ Unsent' = Unsent /\ InCall' = InCall
    <2>1. \A q, k : Rest(q, k)' = Rest(q, k)
      BY <1>0 DEF Rest
    <2>. QED BY <1>0, <2>1 DEF SentInOrder, CountInv, Unsent, InCall
  <1>7. /\ IsFiniteSet(Debts') /\ AnyOK' /\ Cardinality(Debts') \in Nat
        /\ Cardinality(Debts') <= Cardinality(Debts) + 1
        /\ Cardinality(Debts') # Cardinality(Debts) => whole /\ c[1].text \in Names
    <2>0. Cardinality(Debts) \in Nat
      BY <1>1, FS_CardinalityType
    <2>1. CASE daemon' = daemon /\ answers' = answers
      <3>1. Debts' = Debts
        BY <1>1, <2>1, SameDebts
      <3>. QED BY <1>1, <2>0, <2>1, <3>1 DEF AnyOK
    <2>2. CASE whole /\ Handle(d.from, c)
      <3>1. /\ AnyOK' /\ IsFiniteSet(Debts') /\ Cardinality(Debts') <= Cardinality(Debts) + 1
            /\ c[1].text \in Names
        BY <1>1, <1>2, <1>4, <2>2, HandleDebt DEF whole
      <3>. QED BY <2>2, <3>1, FS_CardinalityType
    <2>. QED BY <1>0, <2>1, <2>2 DEF Exit
  <1>8. CASE whole
    <2>1. Total' = Tail(inbox)
      BY <1>0, <1>2, <1>8 DEF Total
    <2>2. Len(Total') = Len(Total) - m /\ \A i \in 1..Len(Total') : Total'[i] = Total[i + m]
      BY <1>2, <1>3, <2>1 DEF m
    <2>3. /\ Cardinality(Named') \in Nat /\ Cardinality(Named') <= Cardinality(Named)
          /\ Total[1].text \in Names => Cardinality(Named') + 1 <= Cardinality(Named)
      BY <1>4, <2>2, NamesGone
    <2>4. CountOK'
      BY <1>4, <1>6, <1>7, <2>3, CountFacts DEF CountInv, CountOK
    <2>. QED BY <1>5, <1>6, <1>7, <2>4 DEF CountInv
  <1>9. CASE ~whole
    <2>1. Total' = Total
      BY <1>0, <1>2, <1>9 DEF Total
    <2>2. Named' = Named
      BY <2>1 DEF Named
    <2>3. CountOK'
      BY <1>6, <1>7, <1>9, <2>2, CountFacts DEF CountInv, CountOK
    <2>. QED BY <1>5, <1>6, <1>7, <2>3 DEF CountInv
  <1>. QED BY <1>8, <1>9

LEMMA CountReturn ==
    ASSUME CountInv, NEW p \in Process, Return(p)
    PROVE  CountInv'
  <1>0. /\ front[p].status = "waiting" /\ answers[p] # <<>>
        /\ front' = [front EXCEPT ![p].status = "idle", ![p].call = <<>>]
        /\ answers' = [answers EXCEPT ![p] = Tail(@)]
        /\ daemon' = daemon /\ inbox' = inbox /\ reading' = reading
    BY DEF Return, daemonVars
  <1>1. FrontOK /\ AnyOK /\ IsFiniteSet(Debts)
    BY DEF CountInv, CountOK
  <1>2. /\ front'[p].status = "idle" /\ front'[p].call = NoCall /\ FrontOK'
        /\ \A q \in Process \ {p} : front'[q] = front[q]
    <2>. DEFINE g == [front[p] EXCEPT !.status = "idle", !.call = <<>>]
    <2>1. g \in FrontType /\ g.status = "idle" /\ g.call = NoCall
      <3>1. front[p] \in FrontType
        BY <1>1, FrontFacts
      <3>. QED BY <3>1 DEF FrontType, Status, NoCall
    <2>2. front' = [front EXCEPT ![p] = g]
      BY <1>0
    <2>. HIDE DEF g
    <2>. QED BY <1>0, <1>1, <2>1, <2>2 DEF FrontOK
  <1>3. SentInOrder'
    <2>. SUFFICES ASSUME NEW q \in Process, front'[q].status = "sending"
                  PROVE  \E j \in Nat : j < Len(front'[q].call) /\ front'[q].out = Rest(q, j)'
      BY DEF SentInOrder
    <2>1. q # p /\ front'[q] = front[q]
      BY <1>2
    <2>2. \A j : Rest(q, j)' = Rest(q, j)
      BY <2>1 DEF Rest
    <2>. QED BY <2>1, <2>2 DEF CountInv, SentInOrder
  <1>4. Named' = Named /\ Unsent' = Unsent
    BY <1>0, <1>2 DEF Named, Total, Unsent
  <1>5. InCall' = InCall \ {p} /\ p \in InCall
    BY <1>0, <1>2 DEF InCall
  <1>6. Cardinality(InCall') = Cardinality(InCall) - 1
    BY <1>5, CountFacts, MemberTaken
  <1>7. /\ AnyOK' /\ IsFiniteSet(Debts') /\ Cardinality(Debts') = Cardinality(Debts) - 1
    <2>1. PICK x \in AnswerDebts : x[1] = "answer" /\ AnswerDebts' = AnswerDebts \ {x}
      BY <1>0, <1>1, AnswerLess
    <2>2. AcceptDebts' = AcceptDebts /\ ReceiveDebts' = ReceiveDebts
      BY <1>0 DEF AcceptDebts, ReceiveDebts
    <2>3. Debts' = (AnswerDebts' \cup AcceptDebts') \cup ReceiveDebts'
      BY Zenon DEF Debts, AnswerDebts, AnswersIn, AcceptDebts, ReceiveDebts
    <2>4. x \notin AcceptDebts /\ x \notin ReceiveDebts
      BY <1>1, <2>1, DebtKinds
    <2>5. Debts' = Debts \ {x} /\ x \in Debts
      BY <2>1, <2>2, <2>3, <2>4, DebtsSplit
    <2>6. answers' \in [Process -> Seq(AnyAnswer)]
      BY <1>0, <1>1, AnswerLess
    <2>. QED BY <1>0, <1>1, <2>5, <2>6, FS_RemoveElement DEF AnyOK
  <1>8. CountOK'
    BY <1>4, <1>6, <1>7, CountFacts DEF CountInv, CountOK
  <1>. QED BY <1>2, <1>3, <1>7, <1>8 DEF CountInv

(* What changes nothing in front of the daemon, and leaves no more debts.  *)
LEMMA CountBehind ==
    ASSUME CountInv, front' = front, reading' = reading, inbox' = inbox, AnyOK',
           IsFiniteSet(Debts'), Cardinality(Debts') = Cardinality(Debts)
    PROVE  CountInv'
  <1>1. FrontOK' /\ Named' = Named /\ Unsent' = Unsent /\ InCall' = InCall
    BY DEF CountInv, FrontOK, Named, Total, Unsent, InCall
  <1>2. SentInOrder'
    <2>1. \A q, k : Rest(q, k)' = Rest(q, k)
      BY DEF Rest
    <2>. QED BY <2>1 DEF SentInOrder, CountInv
  <1>. QED BY <1>1, <1>2 DEF CountInv, CountOK

LEMMA CountArrive ==
    ASSUME CountInv, Arrive
    PROVE  CountInv'
  <1>1. daemon \in AnyDaemon /\ AnyOK /\ IsFiniteSet(Debts)
    BY DEF CountInv, CountOK, AnyOK
  <1>2. /\ front' = front /\ reading' = reading /\ inbox' = inbox /\ answers' = answers
        /\ Arrivals
    BY DEF Arrive
  <1>3. SameTables(daemon', daemon)
    <2>1. ASSUME NEW fd \in BindedFD, NEW s \in Sessions,
                 daemon' = [daemon EXCEPT !.waiting = @ \cup {<<fd, s>>}]
          PROVE  SameTables(daemon', daemon)
      <3>1. daemon.waiting \cup {<<fd, s>>} \in SUBSET (Numbers \X Sessions)
        BY <1>1 DEF BindedFD, AnyDaemon
      <3>2. SameTables([daemon EXCEPT !.waiting = daemon.waiting \cup {<<fd, s>>}], daemon)
        BY <1>1, <3>1 DEF AnyDaemon, SameTables
      <3>. QED BY <1>1, <2>1, <3>2 DEF AnyDaemon
    <2>2. ASSUME NEW s \in daemon.accepted, daemon' = [daemon EXCEPT !.arrived[s] = @ + 1]
          PROVE  SameTables(daemon', daemon)
      <3>1. s \in Sessions /\ daemon.arrived \in [Sessions -> Nat]
        BY <1>1 DEF AnyDaemon
      <3>2. [daemon.arrived EXCEPT ![s] = @ + 1] \in [Sessions -> Nat]
        BY <3>1
      <3>3. SameTables([daemon EXCEPT !.arrived = [daemon.arrived EXCEPT ![s] = @ + 1]], daemon)
        BY <1>1, <3>2 DEF AnyDaemon, SameTables
      <3>. QED BY <1>1, <2>2, <3>3 DEF AnyDaemon
    <2>3. ASSUME NEW fd \in daemon.connected,
                 daemon' = [daemon EXCEPT !.packages[fd] = @ - 1, !.inBuffer = @ - 1]
          PROVE  SameTables(daemon', daemon)
      <3>1. /\ [daemon.packages EXCEPT ![fd] = @ - 1] \in [Numbers -> Int]
            /\ daemon.inBuffer - 1 \in Int
        BY <1>1 DEF AnyDaemon
      <3>2. SameTables([daemon EXCEPT !.packages = [daemon.packages EXCEPT ![fd] = @ - 1],
                                      !.inBuffer = daemon.inBuffer - 1], daemon)
        BY <1>1, <3>1 DEF AnyDaemon, SameTables
      <3>. QED BY <1>1, <2>3, <3>2 DEF AnyDaemon
    <2>. QED BY <1>2, <2>1, <2>2, <2>3 DEF Arrivals
  <1>4. Debts' = Debts /\ AnyOK'
    BY <1>1, <1>2, <1>3, SameDebts DEF AnyOK, SameTables
  <1>. QED BY <1>1, <1>2, <1>4, CountBehind

LEMMA CountAccept ==
    ASSUME CountInv, SolveAcceptCallback
    PROVE  CountInv'
  <1>1. daemon \in AnyDaemon /\ AnyOK /\ IsFiniteSet(Debts)
    BY DEF CountInv, CountOK, AnyOK
  <1>2. front' = front /\ reading' = reading /\ inbox' = inbox
    BY DEF SolveAcceptCallback
  <1>3. CASE daemon' = daemon /\ answers' = answers
    <2>1. Debts' = Debts /\ AnyOK'
      BY <1>1, <1>3, SameDebts DEF AnyOK
    <2>. QED BY <1>1, <1>2, <2>1, CountBehind
  <1>4. ASSUME NEW w \in Acceptable, Answer(daemon.accepting[w[1]], Number(w[2])),
               daemon' = [daemon EXCEPT !.waiting = @ \ {w}, !.accepted = @ \cup {w[2]},
                                        !.accepting[w[1]] = None]
        PROVE  CountInv'
    <2>1. /\ w[1] \in Numbers /\ w[2] \in Sessions /\ daemon.accepting[w[1]] # None
          /\ daemon.accepting[w[1]] \in Process
      BY <1>1 DEF Acceptable, AnyDaemon
    <2>2. Number(w[2]) \in AnyAnswer
      <3>1. \A n \in Sessions : n \in Int
        BY CallsAssumption DEF CallsAssumption
      <3>. QED BY <2>1, <3>1 DEF AnyAnswer
    <2>3. /\ daemon'.accepting = [daemon.accepting EXCEPT ![w[1]] = None]
          /\ daemon'.receiving = daemon.receiving /\ daemon' \in AnyDaemon
      BY <1>1, <1>4, <2>1 DEF AnyDaemon
    <2>4. \E x \in AcceptDebts : x[1] = "accept" /\ AcceptDebts' = AcceptDebts \ {x}
      BY <1>1, <2>1, <2>3, AcceptDebtLess
    <2>5. IsFiniteSet(Debts') /\ Cardinality(Debts') = Cardinality(Debts)
      BY <1>1, <1>4, <2>1, <2>2, <2>3, <2>4, DebtMoved
    <2>6. AnyOK'
      BY <1>1, <1>4, <2>1, <2>2, <2>3, AnswerMore DEF AnyOK
    <2>. QED BY <1>2, <2>5, <2>6, CountBehind
  <1>. QED BY <1>3, <1>4 DEF SolveAcceptCallback

LEMMA CountRecv ==
    ASSUME CountInv, SolveRecvCallback
    PROVE  CountInv'
  <1>1. daemon \in AnyDaemon /\ AnyOK /\ IsFiniteSet(Debts)
    BY DEF CountInv, CountOK, AnyOK
  <1>2. front' = front /\ reading' = reading /\ inbox' = inbox
    BY DEF SolveRecvCallback
  <1>3. CASE daemon' = daemon /\ answers' = answers
    <2>1. Debts' = Debts /\ AnyOK'
      BY <1>1, <1>3, SameDebts DEF AnyOK
    <2>. QED BY <1>1, <1>2, <2>1, CountBehind
  <1>4. ASSUME NEW s \in Receivable, NEW p, p = daemon.receiving[s][1],
               NEW len, len = daemon.receiving[s][2], Answer(p, Bytes(s, daemon.done[s], len)),
               daemon' = [daemon EXCEPT !.done = HandedOver(s, len), !.receiving[s] = <<>>]
        PROVE  CountInv'
    <2>1. s \in Sessions /\ daemon.receiving[s] # <<>> /\ p \in Process /\ len \in Nat
      BY <1>1, <1>4, NumbersAreNumbers DEF Receivable, AnyDaemon
    <2>2. daemon.done \in [Sessions -> Nat] /\ daemon.done[s] \in Nat
      BY <1>1, <2>1 DEF AnyDaemon
    <2>3. Bytes(s, daemon.done[s], len) \in AnyAnswer
      BY <2>1, <2>2 DEF AnyAnswer
    <2>4. HandedOver(s, len) \in [Sessions -> Nat]
      BY <2>1, <2>2 DEF HandedOver
    <2>5. /\ daemon'.receiving = [daemon.receiving EXCEPT ![s] = <<>>]
          /\ daemon'.accepting = daemon.accepting /\ daemon' \in AnyDaemon
      BY <1>1, <1>4, <2>1, <2>4 DEF AnyDaemon
    <2>6. \E x \in ReceiveDebts : x[1] = "receive" /\ ReceiveDebts' = ReceiveDebts \ {x}
      BY <1>1, <2>1, <2>5, ReceiveDebtLess
    <2>7. IsFiniteSet(Debts') /\ Cardinality(Debts') = Cardinality(Debts)
      BY <1>1, <1>4, <2>1, <2>3, <2>5, <2>6, DebtMoved
    <2>8. AnyOK'
      BY <1>1, <1>4, <2>1, <2>3, <2>5, AnswerMore DEF AnyOK
    <2>. QED BY <1>2, <2>7, <2>8, CountBehind
  <1>. QED BY <1>3, <1>4 DEF SolveRecvCallback, Exit

LEMMA CountInit ==
    ASSUME CallsInit
    PROVE  CountInv
  <1>1. /\ front = [p \in Process |-> [status |-> "idle", call |-> <<>>, out |-> <<>>]]
        /\ inbox = <<>> /\ reading = <<>> /\ answers = [p \in Process |-> <<>>]
        /\ daemon = [sockets |-> 0, binded |-> {}, connected |-> {}, inBuffer |-> 0,
                     accepting |-> [fd \in Numbers |-> None], packages |-> [fd \in Numbers |-> 0],
                     waiting |-> {}, accepted |-> {},
                     receiving |-> [s \in Sessions |-> <<>>],
                     arrived |-> [s \in Sessions |-> 0], done |-> [s \in Sessions |-> 0]]
    BY DEF CallsInit
  <1>2. FrontOK
    BY <1>1 DEF FrontOK, FrontType, Status, NoCall, Queue
  <1>3. SentInOrder /\ Unsent = {} /\ InCall = {}
    BY <1>1 DEF SentInOrder, Unsent, InCall
  <1>4. AnyOK
    <2>1. daemon \in AnyDaemon
      BY <1>1 DEF AnyDaemon
    <2>. QED BY <1>1, <2>1 DEF AnyOK
  <1>5. Named = {}
    <2>1. Total = <<>>
      BY <1>1 DEF Total
    <2>. QED BY <2>1 DEF Named
  <1>6. Debts = {}
    <2>1. AnswerDebts = {}
      <3>1. \A p \in Process : Len(answers[p]) = 0
        BY <1>1
      <3>. QED BY <1>4, <3>1, AnswerDebtsFacts DEF AnyOK
    <2>2. AcceptDebts = {} /\ ReceiveDebts = {}
      BY <1>1 DEF AcceptDebts, ReceiveDebts
    <2>. QED BY <2>1, <2>2, DebtsSplit
  <1>. QED BY <1>2, <1>3, <1>4, <1>5, <1>6, FS_EmptySet DEF CountInv, CountOK

LEMMA CountStep ==
    ASSUME CountInv, [CallsNext]_callsVars
    PROVE  CountInv'
  <1>1. CASE UNCHANGED callsVars
    <2>1. /\ front' = front /\ reading' = reading /\ inbox' = inbox
          /\ daemon' = daemon /\ answers' = answers
      BY <1>1 DEF callsVars
    <2>2. AnyOK' /\ Debts' = Debts /\ IsFiniteSet(Debts)
      BY <2>1 DEF CountInv, CountOK, AnyOK, Debts
    <2>. QED BY <2>1, <2>2, CountBehind
  <1>. QED BY <1>1, CountBegin, CountSend, CountReturn, CountFetch, CountArrive, CountAccept,
              CountRecv DEF CallsNext

(***************************************************************************)
(* However the datagrams of the processes' calls mix in front of the       *)
(* daemon, it never gives or notes an answer more than there are processes *)
(* in a call: no return is left over when all have returned.               *)
(***************************************************************************)
THEOREM AnswersAreOwed == CallsSpec => []NoAnswerTooMany
  <1>1. CallsInit => CountInv
    BY CountInit
  <1>2. CountInv /\ [CallsNext]_callsVars => CountInv'
    BY CountStep
  <1>3. CountInv => NoAnswerTooMany
    BY CountFacts DEF CountInv, CountOK, NoAnswerTooMany
  <1>. QED BY <1>1, <1>2, <1>3, PTL DEF CallsSpec
=============================================================================
