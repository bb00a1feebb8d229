-------------------------------- MODULE Relay --------------------------------
(***************************************************************************)
(* Lab 3, the file transfer before Proj1 made it reliable: a tcpd that     *)
(* turns every SEND into one datagram through troll and every RECV into    *)
(* one recvfrom() on the data socket, in which the whole daemon waits, and *)
(* an ftpc and an ftps above it.  ftpc is run once for every file.         *)
(*                                                                         *)
(* Each daemon serves one process, so a call is one request and one        *)
(* answer.  A package always has a whole body: what SEND did not fill is   *)
(* what the stack held.  The size (4 bytes) and the name (20) take one     *)
(* byte each here.                                                         *)
(***************************************************************************)
EXTENDS Integers, SequencesExt

CONSTANTS
    BodyLen,    \* BUF_LEN
    Word,       \* how many numbers the size field can tell apart
    FileLists,  \* the lists of sizes of the files sent one after the other
    MaxFlight,  \* bound: packages on their way or not yet received
    MaxFaults   \* bound: packages troll loses, doubles or delays

ASSUME RelayAssumption ==
    /\ BodyLen \in Nat \ {0} /\ Word \in Nat \ {0} /\ MaxFlight \in Nat \ {0} /\ MaxFaults \in Nat
    /\ FileLists \subseteq Seq(Nat \cup {-1})

VARIABLES
    files,      \* the sizes; Missing for a file that is not there
    client,     \* ftpc: which file, where it is, its file_left and buf
    server,     \* ftps: where it is, its file_left, what it wrote
    stored,     \* the files ftps wrote: name and content
    call,       \* the call of each process and its answer
    socket,     \* the data socket of each daemon
    wire,       \* packages on their way through troll
    arrived,    \* packages in the receive buffer of the server's data socket
    faults      \* how many packages troll or an unbound socket lost or moved

relayVars == <<files, client, server, stored, call, socket, wire, arrived, faults>>

Host == {"client", "server"}
Missing == -1
Junk == <<"junk">>

After(s, n) == SubSeq(s, n + 1, Len(s))
Fill(data) == data \o [i \in 1..BodyLen - Len(data) |-> Junk]
Content(f) == [i \in 1..files[f] |-> <<"byte", f, i>>]
SizeField(n) == <<"size", n % Word>>
NameField(f) == <<"name", f>>

-----------------------------------------------------------------------------
(* The library (tcpudp.c): a call sends its name and arguments and waits    *)
(* for the answer.                                                          *)
Idle == [name |-> "none", status |-> "idle", arg |-> <<>>, value |-> <<>>]

Ask(h, name, arg) ==
    /\ call[h] = Idle
    /\ call' = [call EXCEPT ![h] = [name |-> name, status |-> "asked",
                                    arg |-> arg, value |-> <<>>]]

CallSOCKET(h) == Ask(h, "SOCKET", <<>>)
CallBIND(h) == Ask(h, "BIND", <<>>)
CallRECV(h, len) == Ask(h, "RECV", <<len>>)
CallCONNECT(h) == Ask(h, "CONNECT", <<>>)
CallSEND(h, data) == Ask(h, "SEND", data)

Back(h) == call[h].status = "answered" /\ call' = [call EXCEPT ![h] = Idle]

-----------------------------------------------------------------------------
(* The daemons (tcpd.c). *)
Serving(h, name) == call[h].status = "asked" /\ call[h].name = name

Answered(h, value) ==
    call' = [call EXCEPT ![h].status = "answered", ![h].value = value]

ServeSOCKET(h) ==
    /\ Serving(h, "SOCKET")
    /\ socket' = [socket EXCEPT ![h] = "open"]
    /\ Answered(h, <<>>) /\ UNCHANGED <<wire, arrived, faults>>

ServeBIND(h) ==
    /\ Serving(h, "BIND") /\ socket[h] = "open"
    /\ socket' = [socket EXCEPT ![h] = "bound"]
    /\ Answered(h, <<>>) /\ UNCHANGED <<wire, arrived, faults>>

ServeCONNECT(h) ==
    /\ Serving(h, "CONNECT") /\ socket[h] = "open"
    /\ socket' = [socket EXCEPT ![h] = "connected"]
    /\ Answered(h, <<>>) /\ UNCHANGED <<wire, arrived, faults>>

(* Without a peer the daemon would exit(). *)
ServeSEND(h) ==
    /\ Serving(h, "SEND") /\ socket[h] = "connected"
    /\ Len(wire) + Len(arrived) < MaxFlight
    /\ wire' = Append(wire, Fill(call[h].arg))
    /\ Answered(h, <<>>) /\ UNCHANGED <<socket, arrived, faults>>

(* The daemon is in recvfrom() on the data socket until a package comes.    *)
(* What is longer than the caller asked for is dropped.  Fault: it is kept  *)
(* for the next call.                                                       *)
Remaining_Stream(len) ==
    IF len < Len(Head(arrived)) THEN <<After(Head(arrived), len)>> \o Tail(arrived) ELSE Tail(arrived)
Remaining(len) == Tail(arrived)

ServeRECV(h) ==
    /\ Serving(h, "RECV") /\ arrived # <<>>
    /\ LET len == call[h].arg[1] IN
         /\ arrived' = Remaining(len)
         /\ Answered(h, SubSeq(Head(arrived), 1, len))
    /\ UNCHANGED <<socket, wire, faults>>

Daemon(h) ==
    /\ ServeSOCKET(h) \/ ServeBIND(h) \/ ServeCONNECT(h) \/ ServeSEND(h) \/ ServeRECV(h)
    /\ UNCHANGED <<files, client, server, stored>>

-----------------------------------------------------------------------------
(* A package for a socket that is not bound yet is lost. *)
Deliver ==
    /\ wire # <<>> /\ wire' = Tail(wire)
    /\ IF socket["server"] = "bound"
       THEN arrived' = Append(arrived, Head(wire)) /\ UNCHANGED faults
       ELSE faults' = faults + 1 /\ UNCHANGED arrived
    /\ UNCHANGED <<files, client, server, stored, call, socket>>

(* troll loses, doubles, garbles or delays a package. *)
Disturb ==
    /\ faults < MaxFaults /\ faults' = faults + 1
    /\ \E i \in DOMAIN wire :
         wire' \in {RemoveAt(wire, i), InsertAt(wire, i, wire[i]),
                    [wire EXCEPT ![i][1] = Junk], Append(RemoveAt(wire, i), wire[i])}
    /\ UNCHANGED <<files, client, server, stored, call, socket, arrived>>

-----------------------------------------------------------------------------
(* ftpc.  fread() leaves what it does not overwrite; without a file it      *)
(* crashes.                                                                 *)
Overwrite(buf, data) == data \o After(buf, Len(data))

Chunk ==
    LET size == files[client.file]
        sent == size - client.left IN
    SubSeq(Content(client.file), sent + 1, IF client.left < BodyLen THEN size ELSE sent + BodyLen)

ClientCall ==
    /\ \/ client.at = "SOCKET" /\ CallSOCKET("client") /\ UNCHANGED client
       \/ client.at = "CONNECT" /\ CallCONNECT("client") /\ UNCHANGED client
       \/ client.at = "size" /\ CallSEND("client", <<SizeField(files[client.file])>>) /\ UNCHANGED client
       \/ /\ client.at = "name"
          /\ CallSEND("client", <<NameField(client.file)>>)
          /\ client' = [client EXCEPT !.buf = Fill(<<NameField(client.file)>>)]
       \/ /\ client.at = "data" /\ files[client.file] # Missing
          /\ LET buf == Overwrite(client.buf, Chunk) IN
               /\ CallSEND("client", buf)
               /\ client' = [client EXCEPT !.buf = buf, !.left = @ - Len(Chunk)]
    /\ UNCHANGED <<files, server, stored, socket, wire, arrived, faults>>

Run(f) ==
    [file |-> f, at |-> IF f <= Len(files) THEN "SOCKET" ELSE "done",
     left |-> IF f <= Len(files) THEN files[f] ELSE 0, buf |-> Fill(<<>>)]

Crash ==
    /\ client.at = "data" /\ files[client.file] = Missing
    /\ client' = Run(client.file + 1)
    /\ UNCHANGED <<files, server, stored, call, socket, wire, arrived, faults>>

ClientReturn ==
    /\ Back("client")
    /\ client' =
         CASE client.at = "SOCKET" -> [client EXCEPT !.at = "CONNECT"]
           [] client.at = "CONNECT" -> [client EXCEPT !.at = "size"]
           [] client.at = "size" -> [client EXCEPT !.at = "name"]
           [] client.at \in {"name", "data"} /\ client.left = 0 -> Run(client.file + 1)
           [] OTHER -> [client EXCEPT !.at = "data"]
    /\ UNCHANGED <<files, server, stored, socket, wire, arrived, faults>>

-----------------------------------------------------------------------------
(* ftps.  ACCEPT returns the listening socket itself. *)
ServerCall ==
    /\ \/ server.at = "SOCKET" /\ CallSOCKET("server")
       \/ server.at = "BIND" /\ CallBIND("server")
       \/ server.at \in {"size", "name"} /\ CallRECV("server", 1)
       \/ server.at = "data" /\ CallRECV("server", BodyLen)
    /\ UNCHANGED <<files, client, server, stored, socket, wire, arrived, faults>>

(* What the size field may say: any number, when it is not one. *)
SizesOf(b) == IF b[1] = "size" THEN {b[2]} ELSE 0..Word - 1

Written(s) == [name |-> s.name, content |-> s.content]
Accepting == [at |-> "size", left |-> 0, name |-> Junk, content |-> <<>>]

(* How much of a package belongs to the file.  Fault: all of it. *)
Kept_All(value) == Len(value)
Kept(value) == IF Len(value) > server.left THEN server.left ELSE Len(value)

(* The file is complete when nothing is left. *)
Continue(s) ==
    IF s.left = 0
    THEN server' = Accepting /\ stored' = Append(stored, Written(s))
    ELSE server' = [s EXCEPT !.at = "data"] /\ UNCHANGED stored

ServerReturn ==
    /\ Back("server")
    /\ LET value == call["server"].value IN
         \/ /\ server.at = "SOCKET"
            /\ server' = [server EXCEPT !.at = "BIND"] /\ UNCHANGED stored
         \/ /\ server.at = "BIND"
            /\ server' = Accepting /\ UNCHANGED stored
         \/ /\ server.at = "size"
            /\ \E n \in SizesOf(value[1]) : server' = [server EXCEPT !.at = "name", !.left = n]
            /\ UNCHANGED stored
         \/ server.at = "name" /\ Continue([server EXCEPT !.name = value[1]])
         \/ /\ server.at = "data"
            /\ LET n == Kept(value) IN
                 Continue([server EXCEPT !.content = @ \o SubSeq(value, 1, n), !.left = @ - n])
    /\ UNCHANGED <<files, client, socket, wire, arrived, faults>>

-----------------------------------------------------------------------------
RelayInit ==
    /\ files \in FileLists
    /\ client = Run(1)
    /\ server = [Accepting EXCEPT !.at = "SOCKET"]
    /\ stored = <<>>
    /\ call = [h \in Host |-> Idle]
    /\ socket = [h \in Host |-> "none"]
    /\ wire = <<>> /\ arrived = <<>> /\ faults = 0

Programs == ClientCall \/ Crash \/ ClientReturn \/ ServerCall \/ ServerReturn

Progress == Programs \/ (\E h \in Host : Daemon(h)) \/ Deliver

RelayNext == Progress \/ Disturb

-----------------------------------------------------------------------------
(* The files up to the i-th exist, and their sizes fit the size field. *)
Readable(i) == \A j \in 1..i : files[j] \in 0..Word - 1

(***************************************************************************)
(* As long as no package was lost or moved, the n-th file that ftps wrote  *)
(* is the n-th that was sent, with its name and every byte in its place,   *)
(* although every RECV takes a whole package, the last one of a file is    *)
(* filled up, and ftps reads the next file from the same socket.           *)
(***************************************************************************)
FileExact ==
    faults = 0 =>
        \A i \in DOMAIN stored :
            i \in DOMAIN files /\ Readable(i) =>
                stored[i] = [name |-> NameField(i), content |-> Content(i)]

(***************************************************************************)
(* If nothing is ever lost or moved, every file is written: the two loops  *)
(* over file_left agree on the number of packages.                         *)
(***************************************************************************)
FilesArrive ==
    Readable(Len(files)) /\ [](faults = 0) => <>(Len(stored) = Len(files))
=============================================================================
