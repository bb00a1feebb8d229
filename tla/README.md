# NetworkProj in TLA+

Models, model-checking runs and proofs for the three kinds of transport in this
repository:

* `src/Proj1`: a daemon (`tcpd`) that gives file-transfer programs a reliable byte
  stream over UDP datagrams that a `troll` process loses, repeats, delays,
  reorders and garbles, with a separate timer process for retransmission;
* `src/Proj2/proj2`: the TCP socket of ns-3 as this project changed it
  (`tcp-socket-base.cc`), with the congestion control `TcpFixed` it adds and the
  transfer of `scratch/tcpchain`;
* the steps before Proj1: the daemon, `ftpc` and `ftps` of `src/Lab3`, which recover
  nothing, and the timer of `src/Turner`.

Everything is translated from the sources. Paths are relative to the
repository's root; `tcpd.c`, `timer.c`, `tcpudp.c` mean those of `src/Proj1` unless
another directory is named, and `tcp-socket-base.cc` is the one of
`src/Proj2/proj2`.

## 1. Inventory

### 1.1 Proj1, the program

```
 ftpc ─┐ front calls (UDP, loopback)                         ┌─ ftps
 ftpc ─┤                                                     ├─ ftps
       ▼                                                     ▼
     tcpd (client) ──data──▶ troll ──────────────▶        tcpd (server)
       │  ▲        ◀─────────────── troll ◀──acks──
 start,│  │expiry
 cancel▼  │
      timer
```

| component | state | operations | talks to |
|---|---|---|---|
| tcpd, sending side (`tcpd.c`) | `ConnectedSockets`: per connection `Session`, `Base`, `MinSeq`, the lists `Packages` (in flight) and `PendingPackages` (to be sent); the global count `InBufferPackages` | `tcpd_SOCKET`, `tcpd_CONNECT`, `tcpd_SEND`, `RecvAck`, `RecvTimer`, `SolveSendCallback`, one round of `main` | front processes, troll, timer |
| tcpd, receiving side (`tcpd.c`) | `BindedSockets` with `Accepting`; `WaitingAcceptSocketsList`; `AcceptedSockets`: per session `Base`, `Packages` (out of order), `ReceivingLength`, `ReceivingAddr`, `RecvBuffer` | `tcpd_BIND`, `tcpd_ACCEPT`, `tcpd_RECV`, `RecvData`, `SolveAcceptCallback`, `SolveRecvCallback` | front processes, troll |
| timer (`timer.c`) | `TimerList`, a delta list; `LastSystemTime` | `InsertRequest`, `CancelRequest`, `UpdateTimerList`, `SendCallbacks`, one round of `main` | tcpd, driver |
| timer requests (`TimerRequest.c`) | none | `SendTimerRequest`, `CancelTimerRequest` | timer |
| library calls (`tcpudp.c`) | one socket per process | `SOCKET`, `BIND`, `ACCEPT`, `RECV`, `CONNECT`, `SEND`; `LISTEN` and `CLOSE` are empty | tcpd |
| ftpc, ftps | file position | send a size, a name and a file; receive them | library |
| driver | none | a fixed script of timer requests | timer |
| checksum, crc32 | none | sum over a datagram | tcpd |
| troll | datagrams in flight | deliver, drop, repeat, garble | both daemons |

`src/Proj1/final` is a byte-for-byte copy of these sources.

What is hard in it:

* **Three queues cross.** A package's acknowledgement, its timer's expiry and
  the requests to start and cancel that timer travel separately. An expiry can
  arrive after the acknowledgement, an acknowledgement while the package is
  pending again, a cancel request behind the start request of a retransmission.
* **The network** may do anything to a datagram; duplicate and outdated tests,
  sums and timers are spread over four handlers.
* **A hand-kept count** of buffered packages decides whether the socket that
  *all* front calls use is watched at all.
* **Rounds.** `main` handles at most one datagram per ready socket and then runs
  three callbacks; what a handler sees may be older than what the previous
  handler of the round just did.
* **Blocking calls.** `ACCEPT` and `RECV` are answered by a later round, to the
  address that was stored.
* **A delta list** whose entries depend on each other: an insertion, a
  cancellation or an oversleeping `select` must leave all other delays alone.

What makes each part correct: the sender never forgets a package the receiver
does not have, never leaves one without a timer, and its count is exact; the
receiver hands over each byte once and in order, and owes each blocked caller
one answer; the timer reports each timer once and on time; together they are a
reliable byte stream, and with a network that delivers in the end everything
sent is acknowledged and every `RECV` that can be filled is answered.

### 1.2 Proj2, TCP in ns-3

```
 StartFlow, WriteUntilBufferFull          PacketSink
          │ Send, Close                       ▲ Recv
          ▼                                   │
 TcpSocketBase ──▶ routers, error model ──▶ TcpSocketBase
   │      ▲    ◀──────────────────────────    (forked by the listener)
   ▼      │ window, threshold
 TcpNewReno | TcpFixed
```

| component | state | operations | talks to |
|---|---|---|---|
| socket (`tcp-socket-base.cc`) | state, congestion state, transmit and receive buffers, `m_nextTxSequence`, `m_highTxMark`, `m_recover`, `m_rWnd`, window factors, duplicate and retry counters, the events it scheduled | `Connect`, `Listen`, `Close`, `ShutdownSend`, `Send`, `Recv`, `SetRcvBufSize`; `DoForwardUp` and a handler per state; `ReceivedAck`, `ReceivedData`, `PeerClose`; the timers | application, congestion control, network |
| congestion control (`tcp-congestion-ops.cc`, `tcp-congestion-fixed.cc`) | none of its own: window and threshold are the socket's | `IncreaseWindow` (slow start, congestion avoidance), `GetSsThresh`, `PktsAcked` | socket |
| scenario (`scratch/tcpchain/tcpchain.cc`) | bytes sent so far | `StartFlow`, `WriteUntilBufferFull` | socket |

What is hard in it: one counter of bytes is looked at by the window, the
recovery, the timers and the closing; a timeout sets `m_nextTxSequence` back, so
that an acknowledgement may be ahead of what is "sent"; three timers replace
each other; a FIN may arrive before the data in front of it; both ends may
close at once; callbacks let the application write, close or resize in the
middle of a handler; the window that is offered is the size of the buffer; every
retry is counted down. What makes it correct: it is a byte stream in each
direction, nothing is forgotten before the peer has it, the differences of
sequence numbers never go below zero, outstanding data is always timed, and a
transfer with a few losses ends, FIN included.

### 1.3 Lab 3 and Turner

| component | state | operations |
|---|---|---|
| `Lab3/tcpd.c`, `Lab3/tcpudp.c` | one data socket per daemon | every call is relayed as one datagram; `RECV` blocks the whole daemon in `recvfrom` |
| `Lab3/ftpc.c`, `Lab3/ftps.c` | position in the file, `file_left` | a size, a name and the file as a series of packages; `ftps` takes one file after the other |
| `Turner/timer.c` | a delta list, the time of the last round | `addNode`, `deleteNode`, `updateNodes`, one round of `main` |

What is hard: two loops in different programs must agree how many packages a
file has; every package has a whole body, whatever was filled; the timer serves
a request first and lets time pass afterwards.

### 1.4 The rest of the repository

| part | what it is |
|---|---|
| `Lab2` | ftpc/ftps over the system's TCP |
| `Lab1` | character counting, a file generator |
| `Turner/tcpd.c` and library | an unfinished daemon that forwards datagrams |
| `Proj2/lab4`, `Proj2/lab5`, `Proj2/proj2bak` | other scenarios; older copies of the Proj2 files |
| `*/Troll` | troll's sample programs; troll itself is a binary |

## 2. Modules

| module | models | extends |
|---|---|---|
| `Troll` | the datagrams between the daemons (external, see 3.1) | |
| `TimerService` | what tcpd relies on of the timer process, with the two loopback queues | |
| `TcpdSender` | tcpd, sending side, with one round of `main` | `Troll`, `TimerService` |
| `TcpdReceiver` | tcpd, receiving side | `Troll` |
| `ByteStream` | abstract: a connection is a reliable byte stream | |
| `Transfer` | the running system, its properties and fairness | `TcpdSender`, `TcpdReceiver` |
| `TimerList` | `timer.c`, with its properties | |
| `CallService` | abstract: what one library call promises the process that makes it | |
| `FrontCalls` | `tcpudp.c` and tcpd's side of it, datagram by datagram | |
| `TcpAttributes` | the attributes of sockets, scenario and bounds: a *setting* | |
| `TcpCongestionOps` | NewReno and TcpFixed | `TcpAttributes` |
| `TcpSocket` | a socket: its buffers, what it sends, the calls of the application, its timers | `TcpCongestionOps` |
| `TcpInput` | what a socket does with a segment, state by state | `TcpSocket` |
| `TcpConnection` | two sockets, the network, tcpchain; properties and fairness | `TcpInput` |
| `Relay` | Lab 3: library, daemons, ftpc, ftps | |
| `TurnerTimer` | `Turner/timer.c` | |
| `MCTransfer`, `MCTimerList`, `MCTcp`, `MCLabs`, `MCCalls` | values for TLC; `MCLabs` is `FrontCalls`, `Relay` or `TurnerTimer`, one in each behaviour; `MCCalls` is `FrontCalls` alone, with a view and a symmetry | |
| `Recursion` | lemmas: induction, what `FlattenSeq`, `InsertAt`, `RemoveAt` do | `TLAPS` |
| `TransferProofs` | types of `Transfer`; the buffer count is exact, released packages stay released; packages in flight are covered by a timer, one timer per package | `Transfer`, `TLAPS` |
| `DeliveryProofs` | acknowledged packages were received, clean reassembly lists, one answer to each caller; bytes are kept and come in order: `Transfer` implements `ByteStream` | `TransferProofs`, `Recursion` |
| `TimerListProofs` | the delta list is exact, on time, and implements `TimerService` | `TimerList`, `Recursion` |
| `CallsProofs` | one answer to each call, and `FrontCalls` implements `CallService` | `FrontCalls`, `TLAPS` |
| `RelayProofs` | the files that Lab 3 stores are those that were sent | `Relay`, `TLAPS` |
| `TurnerProofs` | Turner's timers keep their times and none is forgotten | `TurnerTimer`, `Recursion` |
| `TcpProofs` | types, transmit buffer, recoveries, persist timer and constant window of both sockets | `TcpConnection`, `Recursion` |

Four refinements tie the levels together: `Transfer` implements `ByteStream`
(`ImplementsStream`), and so does `TcpConnection`, once per direction
(`StreamSpec`); `TimerList` implements `TimerService` (`ImplementsService`), which is
the timer `Transfer` runs with; `FrontCalls` implements `CallService`
(`ImplementsCalls`), as long as no two processes send a call at the same time,
which is what `Transfer` assumes when it takes a call for one datagram. The first
of them (for `Transfer`), the second and the third are also proved, see 7.

Operators named `X_Y` after the operator `X` they distort (`HasRoom_OffByOne`,
`Carry_Dropped`, `FullAck_Fault`, ...) are not part of any specification. Each stands beside the operator `X` it distorts, the way a
slip in the code would, and shows that the properties notice.

## 3. How the models correspond to the code

### 3.1 The network (`Troll`)

`dataNet` and `ackNet` are sets of datagrams. With `Duplicating = TRUE` a datagram
is never removed: it may be received any number of times, in any order, as late
as one likes, or never, which covers loss, duplication, delay and reordering at
once. With `Duplicating = FALSE` a `sendto` may lose the datagram and a receive
takes it; the liveness runs use this one, in which a daemon that stops sending
stops being heard. A garbled copy has some other sequence number and
`intact = FALSE`, which stands for the comparison of `CheckSum` (`tcpd.c:289-295`,
`403-407`); sums that collide are outside the model.

### 3.2 The sending daemon (`TcpdSender`)

| variable | code |
|---|---|
| `sockets`, `connected` | fds returned by `SOCKET`; keys of `ConnectedSockets` |
| `Base`, `MinSeq`, `Packages`, `PendingPackages` | fields of `ConnectedSocketStruct`; packages by sequence number |
| `InBufferPackages` | the global |
| `phase`, `frontIn`, `ackIn`, `timerIn` | where the round of `main` is, and the datagrams that were ready at `select` |

| action | code |
|---|---|
| `Select` | `main`, `tcpd.c:168-201`: watch the front socket only below `MAX_BUFFER_PACKAGES`, one datagram per ready socket |
| `TcpdSOCKET`, `TcpdCONNECT`, `TcpdSEND` | the handlers of the same name |
| `TcpdSENDExits` | `tcpd_SEND`'s `exit` for a buffer that is too long or a socket that is not connected |
| `RecvAck`, `RecvTimer` | the same, including the cancel request that `RecvAck` sends whether or not it found the package |
| `UpdateMinSeq`, `SendPackage` | `SolveSendCallback`: `MinSeq` once per round, then every pending package inside the window |

The order within a round is the code's: front call, acknowledgements, timer,
sends. Sends are one action each because datagrams of other processes may arrive
in between. What is abstracted:

* Lists are sets of sequence numbers. Their order decides only the order of the
  sends of one round, which the network may change anyway; `RecvAck` and
  `RecvTimer` search by number.
* Every connection belongs to one ftpc that makes blocking calls one at a time,
  each call one datagram. `Careless` names connections whose process may SEND before
  it CONNECTs.
* The number `rand()` gives a connection is `SessionOf[c]`, fixed per behaviour;
  equal numbers are allowed unless a run or theorem says otherwise
  (`DistinctSessions`).
* How long a timer runs is left to `TimerService`, so the estimate of
  `tcpd.c:606-616` is not in the model: a timer may expire at any time.

### 3.3 The receiving daemon (`TcpdReceiver`)

| variable | code |
|---|---|
| `bound`, `accepting` | the one `BindedSocketStruct`, `AcceptingAddr` |
| `waiting`, `accepted` | `WaitingAcceptSocketsList`; keys of `AcceptedSockets` |
| `rBase`, `rPackages`, `receiving`, `receivingFor`, `recvBuffer` | fields of `AcceptedSocketStruct` |
| `status` | which library call a front process is blocked in |
| `returned` | history: what `RECV` returned, per session |
| `running` | `FALSE` after `exit` |

`TcpdBIND`, `TcpdACCEPT`, `TcpdRECV` and `RecvData` are the handlers, `SolveAccept` is
`SolveAcceptCallback`, and `TakePackage`, `TakePart`, `ReplyRecv` and `RecvExits` are
the four things the loop of `SolveRecvCallback` can do next. Handlers run only
when the callbacks have nothing left to do (`Quiet`). The callbacks use only what
the handlers added, so a round that handles several datagrams has the same
outcome as several rounds that handle one. A garbled package changes nothing and
has no action.

Any front process may call `ACCEPT` or `RECV` on any session at any time it is not
blocked, which includes what ftps does. The one socket is bound; several of them,
and calls that are refused, are in `FrontCalls`.

### 3.4 The timer (`TimerService`, `TimerList`)

`TimerService` keeps the set of keys that have a timer (`armed`) and the two
queues. `ServeRequest` is one fetched request; since `InsertRequest` refuses a
listed key and `CancelRequest` an unlisted one, both are set operations.
`Expire(k)` is one report.

`TimerList` has the delta list itself. `WakeUp(e)` is `select` returning after `e`
seconds with `UpdateTimerList`, `InsertRequest` and `CancelRequest` serve the one
datagram of the round, `SendCallback` reports one due node, `NextRound` returns to
`select`. Time is discrete and only grows; the seconds are naturals instead of
doubles. Every duration is positive, as the code's are (the estimate starts
positive, and `tcpd.c:608` replaces a sample of zero). `due` is a history variable:
the time left by the clock, kept apart from the deltas it is compared with.

The loopback queues lose nothing. The project statement allows that assumption
(`src/Proj1/proj.pdf`, section 1: "UDP communication within a machine can be
assumed to be reliable"); the hazard of a full socket buffer is listed, not
modelled.

### 3.5 The library calls (`CallService`, `FrontCalls`)

A call is a sequence of its name and arguments, and `Messages` makes it the
datagrams that `tcpudp.c` sends: the name first, then one per argument. All of
them go to the one front socket of tcpd. `Fetch` is one `recvfrom`: the first
datagram names the handler, the handler reads as many more as it needs
(`reading`), from whoever sends next, and `Handle` runs it and answers the sender
of the last. A text that is read as a number is `Strange`, a number of no table.
`phase` is where the round of `main` is: `Fetch` or one arrival, then
`SolveAcceptCallback` and `SolveRecvCallback` until they have nothing to do.

What the peers send is reduced to counts: a session that wants to be accepted,
a byte more of a session, a package acknowledged; the full story is
`TcpdReceiver`. `given` records what calls returned. Everything that a call can
return is in it: a `RECV` that is refused returns the four bytes of an error
number as if they were data (`tcpd.c:843`, `tcpudp.c:191-200`), and
`CallService` promises no more than that. With `Mixing = TRUE` a process sends a
datagram whenever it likes, as in the code; with `Mixing = FALSE` only while no other
process is in the middle of a call (`MidCall`). Nothing in `tcpudp.c` or `tcpd.c` makes
processes wait for that; a process that has its daemon for itself need not.

### 3.6 The TCP socket (`TcpAttributes`, `TcpCongestionOps`, `TcpSocket`, `TcpInput`)

A socket is a record and every method an operator from socket to socket: the
methods call each other, and a handler is one step of the simulator. `k.out`
collects the segments a step sends, `k.asserted` the assertions that failed. A
setting is a record of all attributes (`TcpAttributes`), chosen in `Init` and never
changed: in ns-3, too, they are set before the simulation runs. So one run goes
through several scenarios.

| field | code |
|---|---|
| `state`, `congState` | `m_state`, `m_congState` |
| `head`, `tx`, `written` | `TcpTxBuffer`: first byte, contents, and all that was ever added |
| `nextTx`, `highTxMark`, `recover` | `m_nextTxSequence`, `m_highTxMark`, `m_recover` |
| `nextRx`, `inOrder`, the bytes beyond a hole, the FIN's number | `TcpRxBuffer` |
| `read` | history: what the application was given |
| `rWnd`, `cWnd`, `ssThresh`, `dupAckCount`, `retransOut`, `delAckCount`, retry counters | the members of the same name |
| `retx`, `persist`, `delAck`, `lastAck`, `timeWait`, `sendPending` | whether the event is scheduled; for `retx` also which function it calls |

`DoForwardUp` is the whole method: the header, the window and its factor, the
persist timer, then the handler of the state. Bytes are numbered from 1 and a
segment carries its bytes, so that one out of place shows in `read`. Windows are
natural numbers; `Word` stands for 2^32 where the code's arithmetic would wrap.

Abstracted: how long timers run, and with it round-trip times and the timestamp
option; the second method of each pair for IPv6; tracing; ICMP.

### 3.7 The connection (`TcpConnection`)

Each action is one event of the simulator or one call of an application. An
event that is scheduled for "now" (`SendPendingData`, 1 ns ahead) runs before
anything arrives (`Quiet`). The routers keep the order, hold `QueueLen` segments
and drop the rest, and the error model takes up to `MaxLoss` segments
(`tcpchain.cc:128-138`). `patient` timers wait until nothing is on its way, which is
what a timeout above the round-trip time means; where a setting has
`patient |-> FALSE` they fire at any time, `MaxTimeouts` times. The client is
tcpchain's application (`chainBytes`) or one that makes the calls in `appCalls`
whenever it likes.

### 3.8 Lab 3 (`Relay`)

`CallX` is the library's half of call `X`, `ServeX` the daemon's handler.
`ServeRECV` takes one package from the data socket, so what is longer than the
caller asked for is dropped; `ServeSEND` fills a short package to `BodyLen`.
`ClientCall` and `ClientReturn` are the straight line of `ftpc.c` with its loop over
`file_left`, run once per file; `ServerCall` and `ServerReturn` are `ftps.c`. `Crash` is
`fread` from a file that does not exist. `Deliver` loses a package for a socket that
is not bound; `Disturb` is troll.

### 3.9 Turner's timer (`TurnerTimer`)

`Added`, `Deleted` and `Updated` are `addNode`, `deleteNode` and `updateNodes` on a list
of nodes; a round (`TimedOut`, `StartTimer` or `EndTimer`) serves one request and then
takes the seconds since the last round from the first node. `crashed` is the
null pointer that both functions follow when the list has one node.

## 4. Runs

Every run explores its whole state space; there is no state constraint. All of
them switch deadlock checking off, because the systems really stop: what is
sent is finite, a daemon may `exit`, a simulation ends.

| run | instance | properties | shows |
|---|---|---|---|
| `transfer_one` | 1 connection, 3 chunks, buffer and window 2, duplicating network, RECVs of 1 or 2 bytes | `TypeOK`, `BufferCounted`, `AckedIsReceived`, `ReleasedForGood`, `AckedBytesKept`, `ImplementsStream` | bookkeeping of the sender is exact; no acknowledged byte is lost; the connection is a byte stream |
| `transfer_two` | 2 connections, 1 package each, buffer 1, two readers that share both sessions, callers that may SEND unconnected, RECVs of 0, 1 and more than a buffer | `TimerCovers`, `StartIsFresh`, `RepliesOwed`, `ReassemblyClean` | no package without timer, no lost answer; until a daemon exits, and after, its tables stay consistent |
| `transfer_live` | 1 connection, 2 chunks, buffer 1, losing network, fairness | `SentIsReleased`, `RecvAnswered` | retransmission and reassembly make progress |
| `timer_list` | 3 keys, durations 1 to 3, `select` up to 3 seconds late, queues of 1, fairness | `TypeOK`, `DelaysExact`, `OnTime`, `ImplementsService`, `TimersEnd` | the delta list is exact, on time, the service tcpd was modelled with, and every timer ends |
| `tcp` | eight settings: `talk`, `early`, `recovery`, `pause`, `fixed`, `scaled`, `halfScaled`, `drop` (see below) | `TypeOK`, `AckedIsReceived`, `RoomIsKept`, `WindowHonest`, `BufferCovers`, `LossCovers`, `FixedOutstanding`, `AssertionsHold`, `OutstandingIsTimed`, `StalledIsProbed`, `StreamSpec` | a connection is two byte streams; buffers, windows, recoveries and timers stay consistent |
| `tcp_live` | tcpchain's transfer in five settings, one or two losses, fairness | `AllRead`, `FinArrives` | once connected, all is read and the FIN arrives |
| `labs` | `FrontCalls`: 2 processes whose calls do not mix (`Mixing = FALSE`), 1 fd, 1 session, lengths 0 to 2, buffers of 1; `Relay`: packages of 2, sizes below 4, file lists `<<0,3>>`, `<<5>>`, `<<Missing,1>>`, 2 packages under way, 1 fault; `TurnerTimer`: 3 timers of 1 or 3 seconds, rounds up to 2 apart, 1 waiting request | `OwedOne`, `ImplementsCalls`, `FileExact`, `FilesArrive`, `TimesKept`, `NeverOverdue`, `TimersDrop` | each call is answered once and with its own answer as long as no datagram is sent into the middle of another call; files arrive while nothing is disturbed; Turner's timers keep their times |
| `calls_mixed` | `FrontCalls` alone: 2 processes whose datagrams mix in every order (`Mixing = TRUE`), 1 fd, 1 session, lengths 0 and 1, buffers of 1 | `NoAnswerTooMany` | whoever is answered, there are never more answers given or noted than processes in a call |
| `window_overrun` | as `transfer_one`, RECVs of 1 | `WindowRespected` | **violated**, see 6 |
| `split_package` | 1 connection, 2 chunks of 2 bytes, RECVs of 1 | `StreamIntact` | **violated**, see 6 |
| `session_collision` | 2 connections with the same session number | `AckedBytesKept` | **violated**, see 6 |
| `recv_waits` | as `transfer_live`, RECVs of 3 | `RecvPrompt` | **violated**, see 6 |

Why the bounds are enough to be interesting:

* Three chunks with a buffer of two: the buffer fills, the front socket is shut
  out and opened again; the window test sees a package it admits and one that it
  does not; a package is acknowledged while an older one is in flight, pending or
  expired.
* A buffer of one shared by two connections: each shuts the other out.
* Two readers and two sessions: two ACCEPTs at once, two RECVs on one session,
  and the same process waiting first on one session, then on the other. A RECV of 1
  on a package of 2 bytes loses one of them (`split_package`), so the properties about bytes
  are checked in `transfer_one`.
* Chunks of different bytes, so that a byte lost, repeated or out of place shows
  in `returned`; RECVs of 2 over chunks of 1 join packages. Chunks longer than a
  RECV are kept out of `transfer_one` because they run into the finding of
  `split_package`.
* Three timers with durations up to three: insertion before, between and behind,
  equal deltas, a cancellation at every position, two nodes falling due in one
  oversleep.
* `MaxCancels` limits the cancel requests that wait for one timer: with a
  duplicating network acknowledgements could be read faster than the timer
  serves, for ever. One waiting cancel, with more to follow, already gives every
  order of start, cancel, expiry and acknowledgement. `MaxQueue` and `MaxLate` in
  `TimerList` limit the loopback queues and the lateness of `select`.
* A TCP segment carries one byte (`segSize`), so windows and buffers of two to six
  are two to six segments: enough for three duplicate acknowledgements' worth of
  fast retransmission (`retxThresh` 2 here, with the same tests), partial and full
  acknowledgements in one recovery, and a second loss in the recovery of the
  first. The settings of `tcp` each add one difficulty to a small connection:
  `talk` an application that reads, closes and stops reading when it likes;
  `early` a timer that fires while the acknowledgement is on its way, both ends
  closing; `recovery` two losses among six segments, limited transmit; `pause` a
  receive buffer set to nothing and back; `fixed` the constant window of TcpFixed
  with two losses; `scaled` and `halfScaled` windows larger than the header's
  field, on both ends or on one; `drop` retries that run out, which takes the endpoint
  away in the middle of a handler, with bytes still to be sent and an application
  that goes on writing.
* In `labs` the sizes of a file are one that is a multiple of a package less one,
  nothing, larger than the size field can say, and missing. One fd and one
  session already make two processes compete for the accept and the receive
  request, and `BufLen` 1 with length 2 makes the exits of `tcpd_SEND` and
  `SolveRecvCallback` reachable.
* `calls_mixed` leaves out what the calls have returned so far, except the sockets
  that were opened (`VIEW Present`): no guard and no other variable reads the rest of
  `given`, and `NoAnswerTooMany` does not either. The two processes are alike
  (`SYMMETRY`): no constant, no action and no property tells one from the other, and the run has no
  liveness property. Lengths 0 and 1 with `BufLen` 1 keep every handler's outcome but the two exits
  for a length above the buffer, which `labs` reaches.

### What the properties say

* `BufferCounted`: `InBufferPackages` counts the packages of both lists, no package
  is in both, and there are never more than the buffer holds.
* `AckedIsReceived`: a package the sender forgot is one the receiving daemon has
  or handed over. `AckedBytesKept`: so its bytes were returned or are still held.
* `TimerCovers`: for each package in flight a start request, a running timer or an
  expiry is on its way that no waiting cancel request will stop.
* `StartIsFresh`: a start request never meets a node of the same key in the list.
* `ReleasedForGood`: an acknowledged package never gets back into a list.
* `ReassemblyClean`: the reassembly list holds no package twice and none that was
  handed over, either of which would block it for ever.
* `RepliesOwed`: a process blocked in a call is owed exactly one answer.
* `ImplementsStream`: every step is a SEND, a RECV of the next bytes, or invisible.
* `SentIsReleased`, `RecvAnswered`: progress, see 5.
* `DelaysExact`, `OnTime`: the deltas add up to the clock's view, and a report is
  never early nor later than one oversleep of `select`.
* `TimersEnd`: every listed timer is reported or cancelled.

For TCP:

* `StreamSpec`: what either application reads is a prefix of what the other wrote.
  `AckedIsReceived`: the transmit buffer forgets only what the peer has in order.
* `RoomIsKept`: the receive buffer never holds more than its size, although the
  size itself, and not the room left, is offered as window.
* `WindowHonest`: no end takes the other's window for larger than its buffer,
  whatever factors the SYNs agreed on.
* `BufferCovers`: `m_nextTxSequence` stays between the ends of the transmit buffer,
  on which several unsigned differences rely. With `TypeOK` (counters in `Nat`).
* `LossCovers`: a recovery ends with the acknowledgement of what was outstanding
  at its start, never later.
* `FixedOutstanding`: TcpFixed never has more outstanding than its window.
* `AssertionsHold`: in these settings none of the code's `NS_ASSERT`s fails, and no segment
  with data is sent, and no window probed, through an endpoint that is gone. The code
  asserts no such thing: `SendDataPacket` (2476-2485) and `PersistTimeout` (2909) follow `m_endPoint`, and
  `UsesEndPoint` notes when there is none. It is the callers that have to look, as
  `SendPendingData` does. With one retry and two losses one of them does not: `TcpLastRetry` in 6.2.
* `OutstandingIsTimed`, `StalledIsProbed`: outstanding data has a timer, and a sender
  that found the window closed keeps probing.
* `AllRead`, `FinArrives`: a transfer ends.

For the small systems:

* `OwedOne`: a process that waits in a call is owed exactly one answer, and nobody
  else is owed any: a second answer would be what the *next* call returns.
* `NoAnswerTooMany`: what is left of that when the datagrams of calls mix. The answers on
  their way and the requests noted for later are never more than the processes in
  a call, so none remains when all have returned.
* `ImplementsCalls`: a call returns an answer to this call: a socket nobody has, a
  session nobody accepted, bytes nobody received.
* `FileExact`, `FilesArrive`: the n-th file written is the n-th that was sent, and all
  are written, while sizes fit and no package is lost or moved.
* `TimesKept`: by the list, a timer ends when the clock says, or earlier by less than
  the time since the last round; `NeverOverdue`: after its time it waits for no more
  rounds than there are timers; `TimersDrop`: it ends, unless the process crashed.

## 5. Fairness

* `WF` on the daemon's own steps and on `Select`: the processes keep running.
* `SF` on `Select` reporting a given connection's front call or acknowledgement:
  `select` reports *every* ready socket, so one that is ready again and again is
  served, though the front socket is not always watched.
* `SF` on a send of a given package that is not lost, and on a receipt whose
  acknowledgement is not lost: a network that loses some datagrams, but not all
  copies of the same one. Without it nothing can be delivered, with it the claim
  is that tcpd keeps sending.
* `WF` on serving timer requests and on each expiry: `TimersEnd` and `OnTime` are
  what the timer process does for this.
* Front processes make their next blocking call, except that readers need never
  RECV; a reader must BIND.
* In `TimerList`, `SF` on a `WakeUp` that takes time: real time passes, however
  many requests wake the loop.
* In `TcpConnection` only this: while an event is scheduled the simulator runs one
  (`WF_now(RunEvent)`; `now` flips with every event). Losses and calls of the
  application are no events and may stop or go on.
* In `Relay`, `WF` on some process or troll making a step; troll's disturbances need
  not happen. In `TurnerTimer`, `WF` on time passing and on the loop coming round.
  `FrontCalls` has no liveness property.

## 6. Findings

### 6.1 In Proj1, each a run

1. **The window is overrun** (`tcpd.c:578`, run `window_overrun`). `MinSeq` is the
   least number in `Packages` only, and 100000000 when that list is empty. When the
   only package in flight times out it moves to `PendingPackages` in the same round,
   so every pending package is sent, also one a whole window or more beyond the
   package that is still unacknowledged.
2. **A RECV that ends inside a package loses bytes** (`tcpd.c:546`, run
   `split_package`). The leading bytes are copied behind the end of `RecvBuffer` and
   cut from the package, but `RecvBufferSize` is not advanced; the next pass of the
   loop overwrites them. ftpc and ftps do not meet it, because every RECV of ftps
   has the length of one SEND of ftpc.
3. **Equal session numbers** (`tcpd.c:888`, run `session_collision`). A session is
   known by `rand()` alone, seeded with the time in seconds, and accepted sessions
   are never forgotten: packages of a second connection with the same number are
   taken for duplicates, acknowledged and thrown away. Two daemons started in the
   same second draw the same numbers.
4. **RECV waits for all the bytes asked for** (`tcpd.c:551`, run `recv_waits`). The
   project statement asks for what is at hand, up to the length.

### 6.2 Further disagreements

These are not among the runs above. Each is a configuration of its own that TLC
refutes: `tlc -config TcpX.cfg MCTcp`, and `tlc -config X.cfg MCLabs` for the last
three. Lines without a file are of `tcp-socket-base.cc`.

| configuration | property | the code says | what it does |
|---|---|---|---|
| `TcpPeerClose` | `PeerCloseExpected` | `DoPeerClose` asserts that it is called in ESTABLISHED or SYN_RCVD (2053) | a FIN whose missing data arrives after this end has sent its own FIN is counted in another state; the assertion fails |
| `TcpLastAck` | `PeacefulClose` | "This ACK corresponds to the FIN sent. This socket closed peacefully" (1992) | the acknowledgement number is not looked at: an older ACK closes the socket |
| `TcpLostAck` | `LostAckIsRepaired` | a repeated SYN+ACK guards against a lost ACK (2247) | the repeated SYN+ACK finds an ESTABLISHED client, which drops it (1394-1395); the server stays in SYN_RCVD unless data follows |
| `TcpZeroWindow` | `TimedUnlessEmpty` | "No retransmit timer if no data to retransmit" (2845) | after the window closed and opened twice outstanding data is left without a timer (1275, 1334) |
| `TcpShutdown` | `FinWhenEmpty` | the FIN goes out when the buffer empties (751-753) | only a segment with the last bytes carries it (2461); if that one was sent before, no FIN follows |
| `TcpShutdownData` | `ShutdownStopsData` | "this prevents data from being added to the buffer" (748) | `Send` adds before it looks (794-804) |
| `TcpShortChain` | `AllRead` | "Client node A sends 1MB to server D" (`proj2/README.md:26`) | the loop ends with a `Close` when the transmit buffer is full (`tcpchain.cc:223`), and what is left is not written |
| `TcpFinAck` | `FinIsAnswered` | "Got FIN, respond with ACK" (1896) | a repeated FIN that reaches CLOSE_WAIT is out of range and not answered; the sender stays in FIN_WAIT_1 |
| `TcpLastRetry` | `NoEndPointIsMissed` | "No more data retries available. Dropping connection" (3019), "Deallocate the end point and cancel all the timers" (2266) | the state stays as it is. If it was a partial acknowledgement that retransmitted (1599), `ReceivedAck` goes on: the retry counter is reset (1667) and `NewAck` starts the retransmission timer again (2829); when it expires `SendDataPacket` follows a null pointer (2483) |
| `TcpGrowth` | `OneSegmentPerAck` | a cumulative ACK must not increase the window by more than a segment (`tcp-congestion-ops.cc:116-117`) | slow start does so once per segment that is acknowledged (190) |
| `TcpInitialCwnd` | `TimeoutReducesWindow` | `InitialCwnd` sets the window to start with (`proj2/README.md:33`) | with more than one initial segment a timeout does not reduce the window (2989) |
| `CallsTogether` | `OwedOne` | "fetch the oringin arguments" (`tcpd.c:695`) | arguments are taken from whoever sends next (`tcpudp.c:250`): two calls at the same time are answered twice, or to the wrong process |
| `CallsReconnect` | `PackagesCounted` | `InBufferPackages` counts buffered packages | a second CONNECT forgets packages that stay counted (`tcpd.c:894`) |
| `TurnerCrash` | `NeverCrashes` | | with one node, a later timer or the end of another one follows a null pointer (`Turner/timer.c:146`, `206`) |

Two more are harmless: a SYN's window is sent scaled although the comment at
1207-1210 says that it is not, and an end that scales keeps its factor when the
peer does not answer with one. Both make a window look smaller than it is
(`WindowHonest`).

## 7. Proofs

All theorems hold for every value of the constants under the named assumptions
(`TrollAssumption`, `SenderAssumption`, `ReceiverAssumption`, `TimerListAssumption`,
`CallsAssumption`, `RelayAssumption`, `TurnerAssumption`, `SettingsAssumption`, which give
the constants their types): any number of connections, processes, chunks, sessions and timers, any
buffer size, either kind of network, any settings of the sockets.
Where a theorem needs more, it says so in its statement.

**The daemons** (`Transfer`)

* `TransferProofs!TypeCorrect`: `Spec => []TypeOK`. `TypeOK` alone is not inductive: a
  handler takes the head of `fromTimer` because `select` saw it, and `SendPackage`
  reads the chunk of a pending number. `TypeInv` adds that `timerIn` means a waiting
  expiry (`TimerReady`), that a SEND is made only for a chunk that exists
  (`SendPossible`), and that lists hold only numbers below `Base`
  (`BufferedWereSent`).
* `DeliveryProofs!AckedWasReceived`: `Spec => []AckedIsReceived`. The strengthening
  `DeliveryInv` says that every acknowledgement in flight (`AcksAreTrue`) or read and
  not yet handled (`ReadAcksAreTrue`) names a package that the receiving daemon has,
  and that what it has once it has for good. Session numbers need not be distinct:
  the package that "was received" is then perhaps the other connection's, which is
  finding 3.
* `DeliveryProofs!NeverStuck`: `Spec => []ReassemblyClean`, and
  `DeliveryProofs!OneAnswerEach`: `Spec => []RepliesOwed`. Both are inductive together
  with the types. The first rests on the one test in `RecvData` for outdated and known
  numbers, and on `SolveRecvCallback` advancing the base by the number it takes; the
  second on a request being noted only in an empty place.
* `TransferProofs!BufferExact`: `Spec => []BufferCounted`. The count only follows the lists
  if CONNECT, which empties both without touching the count, finds them empty, and
  if a SEND is read only while there is room. `BufferInv` says both: a connection that
  is not in the table has no packages and `Base` 0 (`FreshConnections`), CONNECT is
  called only on such a one (`ConnectOnce`, the front process's side of the contract),
  a front call is read only below the limit (`RoomForCall`), and the counted set is
  finite.
* `TransferProofs!NeverSentAgain`: `Spec => ReleasedForGood`, from the same invariant: lists
  gain only the number `Base`, or move a number from one list to the other.
* `TransferProofs!AlwaysCovered`: with `DistinctSessions`, `Spec => []TimerCovers`. The
  strengthening is `OwnAcks`: an acknowledgement is of its connection's session, so
  that the cancel request sent for it can only be for a package that this very step
  removes or that is not in flight.
* `TransferProofs!AlwaysFresh`: with `DistinctSessions`, `Spec => []StartIsFresh`. The
  strengthening `FreshInv` follows the package's *token*: a start request on its way,
  then a node of the timer's list, then an expiry on its way. A package has at most
  one, and none at all while it is pending or was not sent. A cancel request may
  destroy the token, never create one; CONNECT resets the numbers, which `BufferInv`
  shows to happen only while there are no packages.
* `DeliveryProofs!BytesKept`: with `DistinctSessions`,
  `Spec /\ [][Uncut]_vars => []AckedBytesKept`, where `Uncut` says that `TakePart` is not
  taken, which is what loses bytes (finding 2). The strengthening `BytesInv` adds to
  `AckedIsReceived` that a datagram in flight (`DataIsTrue`) and a package in a
  reassembly list (`PackagesAreTrue`) hold the chunk of their number, and that the
  bytes of what the receiver says it has are there (`ReceivedIsHeld`).
* `DeliveryProofs!StreamsAreReliable`: under the same conditions `Transfer` implements
  `ByteStream` (and so `[]StreamIntact`). `StreamInv` adds to `BytesInv` the order: what
  was returned and what the buffer holds, one after the other, are the chunks below
  `rBase`, flattened (`Assembled`), and only packages that were sent are on their way
  (`TravelsSent`) or kept (`PackagesSent`). `FlattenSeq` is recursive; `Recursion!FlattenGrows` says that one
  more chunk appends its bytes. Each step of `Transfer` is then a SEND, a RECV of the
  next bytes or a stutter of `ByteStream`.
* `DeliveryProofs!InStepKept` and `InStepStream`: `Uncut` follows when each RECV asks for the
  length of the next package of its session (`InStep`), whatever the lengths are, since
  a buffer is then empty, or empty and waiting for that package, or full (`InStepInv`).
  ftpc and ftps keep in step: ftpc SENDs 4 bytes, 20 bytes, and the file in blocks of
  `BUF_LEN` with a shorter last one (`ftpc.c:87`, `96`, `117`), and ftps RECVs just these
  lengths in this order (`ftps.c:84`, `93`, `109`, `111`). The lengths of `Chunks` are any.

**The timer process** (`TimerList`)

* `TimerListProofs!TypeCorrect`: `Spec => []TypeOK`, `DeltasAddUp`: `Spec => []DelaysExact`, and
  `ReportsAreOnTime`: `Spec => OnTime`, all from one inductive invariant, `ListInv`. It
  adds to the types and to `DelaysExact` that a datagram is fetched only when there is one
  (`FetchesOne`), that no node is due when `select` is called, so that it returns late
  only once (`NoneDue`), and that no timer is overdue by more than one oversleep of `select`
  (`NotOverdue`). The proof is about the deltas before a node, a recursive function
  (`Delay`): it grows by one delta per node, an insertion splits one delta in two, a
  cancellation joins two, and the time that passed is taken from the first nodes
  until it is used up.
* `TimerListProofs!ServiceImplemented`: `Spec => ImplementsService`. The set `armed` of
  `TimerService` is the set of listed keys. So what is proved of `Transfer` on top of
  `TimerService` holds with the list of `timer.c` under it.

**The library calls** (`FrontCalls`)

* `CallsProofs!OneAnswerIsOwed`: `CallsSpec /\ [][Unmixed]_callsVars => []OwedOne`, where
  `Unmixed` says that no datagram is sent while another process's call is half sent. A
  call is served in one piece if the datagrams in front of the daemon (`reading` and
  `inbox` together) are whole calls, one after the other, with only the last one
  perhaps still being sent. `WholeCalls` says so: each datagram is the k-th of the call
  its sender is in, and the next one is the (k+1)-th of the same call, or the first
  of another process's. `TurnInv` joins it with the types of both sides (`FrontOK`,
  `DaemonOK`) and `OwedOK`: what the daemon notes for a process and the answers on
  their way to it are one altogether, exactly while its call has been served and it
  waits.
* `CallsProofs!CallsImplemented`: `CallsSpec /\ [][Unmixed]_callsVars => ImplementsCalls`.
  `RightInv` adds to `TurnInv` what the tables of the daemon have to do with what was
  given out: sockets that were opened exist, sessions that were taken are accepted,
  bytes that were read are below `done` (`TablesOK`, `SocketsOK`); a note names a process
  that is in that very call (`NotesOK`); an answer on its way is one to the call of
  its process and gives nothing twice (`AnswersOK`).
* `CallsProofs!OneProcessServed`: with one process both hold of `CallsSpec` as it is. This is
  how `src/Proj1/README.MD` (3-50) starts the programs: a daemon for ftpc, and one for ftps.
* `Unmixed` is a condition on the behaviour, and nothing in the code enforces it: a daemon
  with two ftpc need not meet it, and `CallsTogether` (6.2) refutes `OwedOne` without it.
* `CallsProofs!AnswersAreOwed`: `CallsSpec => []NoAnswerTooMany`, without any condition. Whose
  call a handler serves is unknown when datagrams mix, so the argument counts. Each
  handler is started by the name of a call, and each call sends its name once, first:
  `CountInv` says that the answers given or noted (`Debts`), the names the daemon has
  not served yet (`Named`) and the processes that have not sent theirs (`Unsent`) are together
  at most the processes in a call. A handler turns a name into at most one answer or
  note, a callback a note into an answer, and a return takes an answer from a process that
  leaves its call. What is noted is counted by its place, fd or session, since with
  mixed arguments the fd may be a number that was meant for something else (`Numbers`).

**The file transfer of Lab 3** (`Relay`)

* `RelayProofs!RelayExact`: `RelayInit /\ [][RelayNext]_relayVars => []FileExact`. No package
  says what it is: ftps takes it for a size, a name or the rest of a file because of
  where its own loop is. The proof names these *places*: the size of file `f`, its
  name, its bytes when `n` are left. `NextPlace` goes from one to the next, the same for
  both programs. The invariant, `RelayInv`, says that, without faults, the packages in the socket's
  buffer and those on the wire fit the places from the one ftps takes next
  to the one ftpc sends next, one after the other (`Chain`), and that what each program
  holds is what its place says (`ServerSide`, `ClientSide`). It is claimed as long as the
  file that ftps stores next is there and its size fits the field: after a missing
  file, whose size is sent as all ones, the two loops part (a hazard, not a fault of troll).
  `BodyLen`, `Word`, the number of files and the packages under way are arbitrary.

**Turner's timer** (`TurnerTimer`)

* `TurnerProofs!TimesAreKept`: `TurnerSpec => []TimesKept`, and `NoneIsForgotten`:
  `TurnerSpec => []NeverOverdue`. The second is not a side issue: the clock of the model
  stops for a timer that is overdue too long, so without it the first would be about
  timers that are on time only. A node may be overdue when a round ends, because a
  round drops one node and several can be due. `Kept` says by how much: the i-th node
  by at most `MaxSlow` seconds for each timer that is not among the first i (`Slack`).
  A round moves every node one place forward and takes at most `MaxSlow` from it, and
  a new node is never put in front of an overdue one, since `addNode` looks for a node
  that expires no earlier.

**The TCP sockets** (`TcpConnection`)

* `TcpProofs!TcpTypes`, `TcpBufferCovers`, `TcpLossCovers` and `TcpStalledIsProbed`: for all
  settings `Spec => []TypeOK`, `[]BufferCovers`, `[]LossCovers` and `[]StalledIsProbed`, all
  from one inductive invariant, `TcpInv`. It speaks of each socket (`Sound`), of what is on
  its way (only that segments are segments, queues have their limit, and no lone SYN
  goes to the client) and of the time before `StartFlow` (`Still`).
* What one socket keeps (`Kept`) is more than the properties. The places in the buffer:
  `BufferCovers` is lost for a moment inside a handler, when acknowledged bytes have
  left the buffer and `m_nextTxSequence` is still in front of its new head, so the
  upper bounds are kept throughout (`SentIsHeld`) and the lower one (`Behind`) is
  restored by the end of `NewAck`. A recovery starts only with something outstanding, because duplicate
  acknowledgements are counted only then (`LossIsMarked`). Before ESTABLISHED nothing
  was sent (`NothingSent`): bytes may be in the buffer of a client that writes right after it connects, but
  `m_cWnd` is 0 until the handshake ends. This is why the client must never get a lone
  SYN, which would take it to SYN_RCVD with bytes in the buffer, and so why `Answering` says that
  the server sends none.
* `TcpProofs!TcpFixedOutstanding`: `Spec => []FixedOutstanding`, if the settings with `TcpFixed`
  start with more than one segment and have no limited transmit. `WindowIsFixed` adds
  the window itself. Both hypotheses are needed: with one initial segment the test at
  `tcp-socket-base.cc:2989` lets losses reduce and inflate the window, and limited transmit
  sends outside of it.
* A handler is a long composition of methods, so the proof is one too: a lemma for each of the
  operators of `TcpSocket` and `TcpInput`, each about any sound socket. `SendPendingData` is a
  loop, a recursive function over the number of rounds, and needs `SetInduction`.

Each proof has one step per action of the next-state relation. Lemmas state what an
action leaves alone or how a queue changes, once.

The prover has no induction over data: the induction theorems of its library take
an operator as a parameter, which it cannot instantiate. `Recursion!SetInduction`
states induction of a *set* of numbers instead, and a recursive function is unfolded
by showing that a function with its equations exists on every beginning of `Nat` and
is unique there. That is enough for `FlattenSeq`, `Delay` and `Expiry`.

**Only model-checked**: of `TcpConnection` what relates both ends and what is on its
way (`AckedIsReceived`, `WindowHonest`, the refinement `StreamSpec`), and of one socket
`AssertionsHold`, `OutstandingIsTimed` and `RoomIsKept`, the first two of which hold only for some
settings (see 6) and the last if a segment fits in the receive buffer and the buffer is
not made smaller while it holds bytes (in `pause` the reader reads at once); and
all liveness (`FilesArrive` of `Relay` among it), which under fairness is out of the prover's reach. `StreamIntact`, `AckedBytesKept` and `ImplementsStream` without
`Uncut` are false (finding 2); TLC checks them where `Uncut` holds by the choice of the
lengths.

## 8. Not modelled

* System calls that fail (`perror` and `exit` after `sendto`, `recvfrom`, `select`).
  There is no persistent state, so a daemon that exits and is started again is a
  new system.
* The retransmission time of Proj1 (`tcpd.c:385-392`, `606-616`) and of ns-3: floating
  point and measured time. Timers expire in any order that the models' bounds
  allow instead.
* A clock that is set back; full loopback sockets.
* 32-bit wrap-around of sequence numbers in Proj1 (64 packages in flight, one
  number per 1000 bytes: it takes 4 TB on one connection) and in TCP (4 GB).
* In `FrontCalls`: what is in a package and when it is sent, which is `TcpdSender`.
* In Lab 3: two ftpc at once (`ACCEPT` returns the listening socket, so their
  packages would mix), and the build without troll.
* In TCP: timestamps, ICMP, IPv6 twins, several connections at one listener,
  reordering by the network (the scenario's routers keep the order). `AtListener` takes
  the listener as it was set up for every SYN, so what a SYN changes in it for good (scaling
  that is switched off, a persist timer, 1205-1282) is not kept for the next one.
  `PacketSink` stops after 200 s (`tcpchain.cc:162`) and closes its socket; the sink of
  the model closes only if `Close` is among its calls.
* In `Transfer`: the exit of `RecvTimer` for an unknown session (`tcpd.c:451-453`), which takes
  a second CONNECT on an fd; no ftpc makes one. `FrontCalls` has that CONNECT and `CallsReconnect`
  (6.2) shows what it loses.
* `Lab1`, `Lab2`, `Turner/tcpd.c` and its library, `lab4`, `lab5`, the older copies in
  `proj2bak`: copies, pure input and output, or set-ups of other ns-3 applications.
* File contents, logging, checksum arithmetic.

## 9. What would come next

1. Proofs of `WindowHonest` and `AckedIsReceived` of `TcpConnection`, which relate both
   ends and what is on its way.
2. The estimate of the retransmission time in fixed point, with the truncation of
   `abs`.
