----------------------------- MODULE CallService -----------------------------
(***************************************************************************)
(* What the calls of tcpudp.h promise the processes that make them: every  *)
(* call is a request to the one daemon and is answered at most once, with  *)
(* a value that is an answer to this call: a socket nobody has, a session  *)
(* nobody accepted, the asked-for number of bytes that nobody received.    *)
(***************************************************************************)
EXTENDS Integers

CONSTANT Process      \* the processes that use the library

VARIABLES
    pending,    \* the call a process is in, or NoCall
    opened,     \* the sockets SOCKET returned
    taken,      \* the sessions ACCEPT returned
    read,       \* the bytes RECV returned, as pairs of session and position
    latest      \* the process and the value that were returned last

serviceVars == <<pending, opened, taken, read, latest>>

NoCall == <<>>
Number(n) == <<"number", n>>
Bytes(s, from, len) == <<"bytes", s, from, len>>
BytesOf(v) == {<<v[2], i>> : i \in v[3]..v[3] + v[4] - 1}

ServiceInit ==
    /\ pending = [p \in Process |-> NoCall]
    /\ opened = {} /\ taken = {} /\ read = {} /\ latest = NoCall

Begin(p, c) ==
    /\ pending[p] = NoCall
    /\ pending' = [pending EXCEPT ![p] = c]
    /\ latest' = NoCall
    /\ UNCHANGED <<opened, taken, read>>

(* The value v answers the call c, a sequence of its name and arguments. *)
Returns(c, v) ==
    \/ /\ c[1] = "SOCKET" /\ v[1] = "number" /\ v[2] \notin opened
       /\ opened' = opened \cup {v[2]}
       /\ UNCHANGED <<taken, read>>
    \/ /\ c[1] \in {"BIND", "CONNECT"} /\ v = Number(0)
       /\ UNCHANGED <<opened, taken, read>>
    \/ /\ c[1] = "ACCEPT" /\ v[1] = "number" /\ v[2] \notin taken
       /\ taken' = IF v[2] = -1 THEN taken ELSE taken \cup {v[2]}
       /\ UNCHANGED <<opened, read>>
    \/ /\ c[1] = "RECV" /\ v[1] = "bytes" /\ v[2] = c[2] /\ v[4] = c[3]
       /\ BytesOf(v) \cap read = {}
       /\ read' = read \cup BytesOf(v)
       /\ UNCHANGED <<opened, taken>>
    \/ /\ c[1] = "RECV" /\ v \in {Number(0), Number(-2), Number(-3)}
       /\ v = Number(0) <=> c[3] = 0
       /\ UNCHANGED <<opened, taken, read>>
    \/ /\ c[1] = "SEND" /\ v = Number(c[3])
       /\ UNCHANGED <<opened, taken, read>>

Return(p, v) ==
    /\ pending[p] # NoCall
    /\ Returns(pending[p], v)
    /\ latest' = <<p, v>>
    /\ pending' = [pending EXCEPT ![p] = NoCall]

ServiceNext(calls, values) ==
    \E p \in Process :
        \/ \E c \in calls : Begin(p, c)
        \/ \E v \in values : Return(p, v)
=============================================================================
