---------------------------- MODULE TimerService ----------------------------
(***************************************************************************)
(* What tcpd relies on of the timer process (timer.c): requests reach it   *)
(* in order over a loopback socket, a started timer expires some time      *)
(* later unless a cancel request is served first, and each expiry is       *)
(* reported once, in order, over the same socket.  Module TimerList models *)
(* the delta list that implements it.                                      *)
(***************************************************************************)
EXTENDS Naturals, Sequences

VARIABLES
    toTimer,    \* TimerRequestStruct datagrams tcpd sent, not yet fetched
    armed,      \* the keys that have a node in TimerList
    fromTimer   \* TimerExpiredStruct datagrams tcpd has not yet fetched

timerVars == <<toTimer, armed, fromTimer>>

Requests(keys) == [type : {"Start", "Cancel"}, key : keys]

TimerTypeOK(keys) ==
    /\ toTimer \in Seq(Requests(keys))
    /\ armed \subseteq keys
    /\ fromTimer \in Seq(keys)

TimerInit == toTimer = <<>> /\ armed = {} /\ fromTimer = <<>>

(* The two requests; a key is a pair <<Session, SeqNum>>. *)
StartRequest(k) == [type |-> "Start", key |-> k]
CancelRequest(k) == [type |-> "Cancel", key |-> k]

(* Fault: the request is not sent. *)
SendTimerRequest_Omitted(k) == UNCHANGED toTimer

SendTimerRequest(k) == toTimer' = Append(toTimer, StartRequest(k))
CancelTimerRequest(k) == toTimer' = Append(toTimer, CancelRequest(k))

(* The main loop fetches one request: InsertRequest refuses a key that is   *)
(* in the list already, CancelRequest one that is not, so both are set      *)
(* operations.                                                              *)
ServeRequest ==
    /\ toTimer # <<>>
    /\ LET r == Head(toTimer) IN
         armed' = IF r.type = "Start" THEN armed \cup {r.key}
                                      ELSE armed \ {r.key}
    /\ toTimer' = Tail(toTimer)
    /\ UNCHANGED fromTimer

(* SendCallbacks reports one expired node and deletes it. *)
Expire(k) ==
    /\ k \in armed
    /\ armed' = armed \ {k}
    /\ fromTimer' = Append(fromTimer, k)
    /\ UNCHANGED toTimer

TimerNext == ServeRequest \/ \E k \in armed : Expire(k)

-----------------------------------------------------------------------------
(* The service on its own: tcpd, at the other end of both sockets, sends    *)
(* any request and fetches reports.                                         *)
Client(keys) ==
    /\ UNCHANGED armed
    /\ \/ /\ \E k \in keys : SendTimerRequest(k) \/ CancelTimerRequest(k)
          /\ UNCHANGED fromTimer
       \/ /\ fromTimer # <<>>
          /\ fromTimer' = Tail(fromTimer)
          /\ UNCHANGED toTimer

ServiceNext(keys) == TimerNext \/ Client(keys)
=============================================================================
