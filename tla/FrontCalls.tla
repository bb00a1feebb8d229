----------------------------- MODULE FrontCalls ------------------------------
(***************************************************************************)
(* The calls of Proj1 as they travel: the library (tcpudp.c) sends a call  *)
(* as a datagram with its name and one more for every argument, all to the *)
(* one socket of tcpd, whose handlers (tcpd.c) fetch the arguments from    *)
(* whoever sends next and answer to the sender of the last.                *)
(*                                                                         *)
(* Text that is taken for a number is Strange: a number of no table, and   *)
(* longer than any buffer.  What arrives for a bound socket is modelled in *)
(* full in module TcpdReceiver; here sessions and bytes are counted.       *)
(* given is a history variable: what the calls have returned.              *)
(***************************************************************************)
EXTENDS Integers, Sequences, FiniteSets, Functions

CONSTANTS
    Process,      \* the processes that use the library
    Mixing,     \* whether the datagrams of two calls may mix on their way
                \* (nothing prevents it when processes run at once)
    MaxFD,      \* bound: the sockets the daemon can open, 1..MaxFD
    Addrs,      \* the addresses given to BIND and CONNECT
    Sessions,   \* the session numbers of the peers
    Lens,       \* the lengths asked for and sent
    BufLen,     \* BUF_LEN
    MaxBuffer,  \* MAX_BUFFER_PACKAGES
    MaxBytes    \* bound: bytes that arrive for a session

ASSUME CallsAssumption ==
    /\ IsFiniteSet(Process) /\ IsFiniteSet(Sessions) /\ 0 \notin Process
    /\ MaxFD \in Nat /\ MaxBytes \in Nat
    /\ Lens \subseteq Nat /\ Sessions \subseteq Nat /\ Addrs \subseteq Nat

VARIABLES
    front,      \* status, call and datagrams still to send of every process
    inbox,      \* the datagrams in the receive buffer of TcpdMsgSocket
    reading,    \* the datagrams of the call the daemon is fetching
    answers,    \* the datagrams in the receive buffers of the processes
    daemon,     \* the tables of tcpd
    phase,      \* where the main loop is; "stopped" after an exit()
    given

callsVars == <<front, inbox, reading, answers, daemon, phase, given>>
daemonVars == <<daemon, phase, reading, inbox>>

FD == 1..MaxFD
None == 0
Strange == 999
Numbers == FD \cup Addrs \cup Sessions \cup Lens \cup {Strange}
Number(n) == <<"number", n>>
Bytes(s, from, len) == <<"bytes", s, from, len>>

-----------------------------------------------------------------------------
(* The library: a call is its name and the arguments it sends. *)
SOCKET == <<"SOCKET">>
BIND(fd, addr) == <<"BIND", fd, addr>>
ACCEPT(fd) == <<"ACCEPT", fd>>
RECV(fd, len) == <<"RECV", fd, len>>
CONNECT(fd, addr) == <<"CONNECT", fd, addr>>
SEND(fd, len) == <<"SEND", fd, len, "data">>

Calls ==
    {SOCKET} \cup {BIND(fd, a) : fd \in FD, a \in Addrs} \cup {ACCEPT(fd) : fd \in FD}
        \cup {RECV(s, n) : s \in Sessions, n \in Lens}
        \cup {CONNECT(fd, a) : fd \in FD, a \in Addrs}
        \cup {SEND(fd, n) : fd \in FD, n \in Lens \ {0}}

Text(p, s) == [from |-> p, text |-> s, number |-> Strange]
Binary(p, n) == [from |-> p, text |-> "", number |-> n]

(* The datagrams of a call. *)
Messages(p, c) ==
    [i \in DOMAIN c |-> IF i \in {1, 4} THEN Text(p, c[i]) ELSE Binary(p, c[i])]

(* The process that makes call c knows its socket or session. *)
Known(c) ==
    CASE c[1] = "SOCKET" ->
           Cardinality(given.opened) + Cardinality({p \in Process : front[p].call = SOCKET}) < MaxFD
      [] c[1] = "RECV" -> TRUE
      [] OTHER -> c[2] \in given.opened

Begin(p, c) ==
    /\ front[p].status = "idle" /\ Known(c)
    /\ front' = [front EXCEPT ![p] = [status |-> "sending", call |-> c, out |-> Messages(p, c)]]
    /\ given' = [given EXCEPT !.latest = <<>>]
    /\ UNCHANGED <<daemonVars, answers>>

(* Some of its call was sent, and some is still to be sent. *)
MidCall(p) ==
    front[p].status = "sending" /\ Len(front[p].out) < Len(front[p].call)

SendDatagram(p) ==
    /\ front[p].status = "sending"
    /\ Mixing \/ \A q \in Process \ {p} : ~MidCall(q)
    /\ inbox' = Append(inbox, Head(front[p].out))
    /\ front' = [front EXCEPT ![p].out = Tail(@),
                              ![p].status = IF Len(front[p].out) = 1 THEN "waiting" ELSE @]
    /\ UNCHANGED <<daemon, phase, reading, answers, given>>

BytesOf(v) == {<<v[2], i>> : i \in v[3]..v[3] + v[4] - 1}

Recorded(c, v) ==
    CASE c[1] = "SOCKET" -> [given EXCEPT !.opened = @ \cup {v[2]}]
      [] c[1] = "ACCEPT" /\ v # Number(-1) -> [given EXCEPT !.taken = @ \cup {v[2]}]
      [] c[1] = "RECV" /\ v[1] = "bytes" -> [given EXCEPT !.read = @ \cup BytesOf(v)]
      [] OTHER -> given

(* recvfrom() returns whatever comes first, and the call returns it. *)
Return(p) ==
    /\ front[p].status = "waiting" /\ answers[p] # <<>>
    /\ front' = [front EXCEPT ![p].status = "idle", ![p].call = <<>>]
    /\ given' = [Recorded(front[p].call, Head(answers[p]))
                   EXCEPT !.latest = <<p, Head(answers[p])>>]
    /\ answers' = [answers EXCEPT ![p] = Tail(@)]
    /\ UNCHANGED daemonVars

-----------------------------------------------------------------------------
(* The daemon. *)
Answer(p, v) == answers' = [answers EXCEPT ![p] = Append(@, v)]

Exit == phase' = "stopped" /\ UNCHANGED <<daemon, answers>>
Served == phase' = "accepts"

tcpd_SOCKET(p) ==
    LET fd == daemon.sockets + 1 IN
    /\ daemon' = [daemon EXCEPT !.sockets = fd]
    /\ Answer(p, Number(fd)) /\ Served

CanBind(fd, addr) ==
    /\ fd \in 1..daemon.sockets
    /\ \A b \in daemon.binded : b[1] # fd /\ b[2] # addr

tcpd_BIND(p, fd, addr) ==
    \/ /\ CanBind(fd, addr)
       /\ daemon' = [daemon EXCEPT !.binded = @ \cup {<<fd, addr>>}]
       /\ Answer(p, Number(0)) /\ Served
    \/ ~CanBind(fd, addr) /\ Exit

BindedFD == {b[1] : b \in daemon.binded}

(* Fault: a second process replaces the one that is accepting. *)
CanAccept_Always(fd) == fd \in BindedFD
CanAccept(fd) == fd \in BindedFD /\ daemon.accepting[fd] = None

tcpd_ACCEPT(p, fd) ==
    /\ \/ /\ CanAccept(fd)
          /\ daemon' = [daemon EXCEPT !.accepting[fd] = p]
          /\ UNCHANGED answers
       \/ ~CanAccept(fd) /\ Answer(p, Number(-1)) /\ UNCHANGED daemon
    /\ Served

Refusal(s, len) ==
    CASE len = 0 -> 0
      [] len # 0 /\ s \notin daemon.accepted -> -2
      [] OTHER -> -3

CanReceive(s, len) ==
    len # 0 /\ s \in daemon.accepted /\ daemon.receiving[s] = <<>>

tcpd_RECV(p, s, len) ==
    /\ \/ /\ CanReceive(s, len)
          /\ daemon' = [daemon EXCEPT !.receiving[s] = <<p, len>>]
          /\ UNCHANGED answers
       \/ ~CanReceive(s, len) /\ Answer(p, Number(Refusal(s, len))) /\ UNCHANGED daemon
    /\ Served

(* A second CONNECT on a socket replaces the connection; its packages are  *)
(* forgotten and stay counted.                                             *)
tcpd_CONNECT(p, fd) ==
    /\ daemon' = [daemon EXCEPT !.connected = @ \cup {fd}, !.packages[fd] = 0]
    /\ Answer(p, Number(0)) /\ Served

tcpd_SEND(p, fd, len) ==
    \/ /\ fd \in daemon.connected
       /\ daemon' = [daemon EXCEPT !.packages[fd] = @ + 1, !.inBuffer = @ + 1]
       /\ Answer(p, Number(len)) /\ Served
    \/ fd \notin daemon.connected /\ Exit

(* The handler of a call whose last datagram came from p. *)
Handle(p, c) ==
    LET name == c[1].text
        a == c[2].number
        b == c[3].number IN
    \/ name = "SOCKET" /\ tcpd_SOCKET(p)
    \/ name = "BIND" /\ tcpd_BIND(p, a, b)
    \/ name = "ACCEPT" /\ tcpd_ACCEPT(p, a)
    \/ name = "RECV" /\ tcpd_RECV(p, a, b)
    \/ name = "CONNECT" /\ tcpd_CONNECT(p, a)
    \/ name = "SEND" /\ tcpd_SEND(p, a, b)

(* How many datagrams a handler fetches, with the name. *)
Datagrams(name) ==
    CASE name = "SOCKET" -> 1
      [] name = "ACCEPT" -> 2
      [] name \in {"BIND", "RECV", "CONNECT"} -> 3
      [] name = "SEND" -> 4
      [] OTHER -> 0

(* SEND looks at the length before it fetches the data. *)
TooLong(c) == Len(c) = 3 /\ c[1].text = "SEND" /\ c[3].number > BufLen

Fetch ==
    /\ inbox # <<>>
    /\ phase = "select" /\ (reading = <<>> => daemon.inBuffer < MaxBuffer)
    /\ LET d == Head(inbox)
           c == Append(reading, d)
           whole == Len(c) >= Datagrams(c[1].text) IN
         /\ inbox' = Tail(inbox)
         /\ reading' = IF whole THEN <<>> ELSE c
         /\ \/ TooLong(c) /\ Exit
            \/ whole /\ Datagrams(c[1].text) > 0 /\ Handle(d.from, c)
            \/ whole /\ Datagrams(c[1].text) = 0 /\ Served /\ UNCHANGED <<daemon, answers>>
            \/ ~whole /\ ~TooLong(c) /\ UNCHANGED <<phase, daemon, answers>>
    /\ UNCHANGED <<front, given>>

(* The first package of a session, a byte that is next in order, and an     *)
(* acknowledgement: what the other sockets bring in a round.                *)
Arrivals ==
    \/ \E fd \in BindedFD, s \in Sessions :
         /\ s \notin daemon.accepted /\ \A w \in daemon.waiting : w[2] # s
         /\ daemon' = [daemon EXCEPT !.waiting = @ \cup {<<fd, s>>}]
    \/ \E s \in daemon.accepted :
         /\ daemon.arrived[s] < MaxBytes
         /\ daemon' = [daemon EXCEPT !.arrived[s] = @ + 1]
    \/ \E fd \in daemon.connected :
         /\ daemon.packages[fd] > 0
         /\ daemon' = [daemon EXCEPT !.packages[fd] = @ - 1, !.inBuffer = @ - 1]

Arrive ==
    /\ phase = "select" /\ reading = <<>> /\ Arrivals /\ Served
    /\ UNCHANGED <<front, inbox, reading, answers, given>>

Acceptable == {w \in daemon.waiting : daemon.accepting[w[1]] # None}

(* Fault: the request stays noted when it was answered. *)
SolveAcceptCallback_Noted ==
    /\ phase = "accepts"
    /\ \/ /\ \E w \in Acceptable :
               /\ Answer(daemon.accepting[w[1]], Number(w[2]))
               /\ daemon' = [daemon EXCEPT !.waiting = @ \ {w}, !.accepted = @ \cup {w[2]}]
          /\ UNCHANGED phase
       \/ /\ Acceptable = {}
          /\ phase' = "receives" /\ UNCHANGED <<daemon, answers>>
    /\ UNCHANGED <<front, inbox, reading, given>>

SolveAcceptCallback ==
    /\ phase = "accepts"
    /\ \/ /\ \E w \in Acceptable :
               /\ Answer(daemon.accepting[w[1]], Number(w[2]))
               /\ daemon' = [daemon EXCEPT !.waiting = @ \ {w},
                                           !.accepted = @ \cup {w[2]},
                                           !.accepting[w[1]] = None]
          /\ UNCHANGED phase
       \/ /\ Acceptable = {}
          /\ phase' = "receives" /\ UNCHANGED <<daemon, answers>>
    /\ UNCHANGED <<front, inbox, reading, given>>

Receivable ==
    {s \in daemon.accepted : /\ daemon.receiving[s] # <<>>
                             /\ daemon.receiving[s][2] <= daemon.arrived[s] - daemon.done[s]}

(* Fault: the bytes stay in RecvBuffer. *)
HandedOver_Kept(s, len) == daemon.done
HandedOver(s, len) == [daemon.done EXCEPT ![s] = @ + len]

RequestTooLong ==
    \E s \in daemon.accepted :
        daemon.receiving[s] # <<>> /\ daemon.receiving[s][2] > BufLen

SolveRecvCallback ==
    /\ phase = "receives"
    /\ \/ RequestTooLong /\ Exit
       \/ /\ ~RequestTooLong
          /\ \E s \in Receivable :
               LET p == daemon.receiving[s][1]
                   len == daemon.receiving[s][2] IN
               /\ Answer(p, Bytes(s, daemon.done[s], len))
               /\ daemon' = [daemon EXCEPT !.done = HandedOver(s, len), !.receiving[s] = <<>>]
          /\ UNCHANGED phase
       \/ /\ Receivable = {} /\ ~RequestTooLong
          /\ phase' = "select" /\ UNCHANGED <<daemon, answers>>
    /\ UNCHANGED <<front, inbox, reading, given>>

-----------------------------------------------------------------------------
CallsInit ==
    /\ front = [p \in Process |-> [status |-> "idle", call |-> <<>>, out |-> <<>>]]
    /\ inbox = <<>> /\ reading = <<>> /\ phase = "select"
    /\ answers = [p \in Process |-> <<>>]
    /\ daemon = [sockets |-> 0, binded |-> {}, connected |-> {}, inBuffer |-> 0,
                 accepting |-> [fd \in Numbers |-> None], packages |-> [fd \in Numbers |-> 0],
                 waiting |-> {}, accepted |-> {},
                 receiving |-> [s \in Sessions |-> <<>>],
                 arrived |-> [s \in Sessions |-> 0], done |-> [s \in Sessions |-> 0]]
    /\ given = [opened |-> {}, taken |-> {}, read |-> {}, latest |-> <<>>]

CallsNext ==
    \/ \E p \in Process : (\E c \in Calls : Begin(p, c)) \/ SendDatagram(p) \/ Return(p)
    \/ Fetch \/ Arrive \/ SolveAcceptCallback \/ SolveRecvCallback

CallsSpec == CallsInit /\ [][CallsNext]_callsVars

-----------------------------------------------------------------------------
(***************************************************************************)
(* A process that waits in a library call is owed exactly one answer: its  *)
(* call is on its way to the handler, or noted as the accept or receive    *)
(* request of one socket or session, or answered.  Nobody else is owed     *)
(* one: an answer too many would be returned by the next call.             *)
(***************************************************************************)
Asked(p) == \E i \in DOMAIN (reading \o inbox) : (reading \o inbox)[i].from = p

Noted(p) ==
    Cardinality({fd \in FD : daemon.accepting[fd] = p})
      + Cardinality({s \in Sessions : /\ daemon.receiving[s] # <<>>
                                      /\ daemon.receiving[s][1] = p})

OwedOne ==
    phase # "stopped" =>
        \A p \in Process :
            LET owed == Noted(p) + Len(answers[p]) IN
            owed = IF front[p].status = "waiting" /\ ~Asked(p) THEN 1 ELSE 0

(***************************************************************************)
(* What is left of that when the datagrams of several calls mix: answers   *)
(* may go to the wrong process then, but there are never more of them, in  *)
(* buffers or still to be given, than there are processes in a call: none  *)
(* is left for the calls to come when all have returned.                   *)
(***************************************************************************)
Debts ==
    (UNION {{<<"answer", p, i>> : i \in DOMAIN answers[p]} : p \in Process})
        \cup {<<"accept", fd, 0>> : fd \in {n \in Numbers : daemon.accepting[n] # None}}
        \cup {<<"receive", s, 0>> : s \in {x \in Sessions : daemon.receiving[x] # <<>>}}

InCall == {p \in Process : front[p].status # "idle"}

NoAnswerTooMany == Cardinality(Debts) <= Cardinality(InCall)

(***************************************************************************)
(* The library, the datagrams and the handlers keep what CallService       *)
(* promises, for every order in which the processes' calls are served.     *)
(***************************************************************************)
Values ==
    {Number(n) : n \in -3..MaxFD \cup Sessions \cup Lens}
        \cup {Bytes(s, i, n) : s \in Sessions, i \in 0..MaxBytes, n \in Lens}

Promise == INSTANCE CallService WITH
    pending <- [p \in Process |-> front[p].call],
    opened <- given.opened, taken <- given.taken, read <- given.read,
    latest <- given.latest

ImplementsCalls ==
    Promise!ServiceInit /\ [][Promise!ServiceNext(Calls, Values)]_(Promise!serviceVars)

(***************************************************************************)
(* What InBufferPackages is meant to be.  It is not: a second CONNECT on a *)
(* socket forgets packages that stay counted.                              *)
(***************************************************************************)
PackagesCounted == daemon.inBuffer = FoldFunction(+, 0, daemon.packages)
=============================================================================
