----------------------------- MODULE ByteStream -----------------------------
(***************************************************************************)
(* What the library calls of tcpudp.h promise a pair of front processes: a *)
(* connection is a reliable byte stream.  SEND appends a buffer to it and  *)
(* RECV returns the next bytes of it.                                      *)
(***************************************************************************)
EXTENDS Naturals, Sequences, SequencesExt

CONSTANT Chan

VARIABLES
    sent,       \* per connection, the bytes given to SEND
    received    \* per connection, the bytes RECV returned

streamVars == <<sent, received>>

Init ==
    /\ sent = [c \in Chan |-> <<>>]
    /\ received = [c \in Chan |-> <<>>]

(* One connection's sequence grows at its end, the others stay. *)
Grows(seq, seqNew, c) ==
    /\ Len(seqNew[c]) > Len(seq[c])
    /\ IsPrefix(seq[c], seqNew[c])
    /\ \A d \in Chan \ {c} : seqNew[d] = seq[d]

Send(c) == Grows(sent, sent', c) /\ UNCHANGED received

Recv(c) ==
    /\ Grows(received, received', c)
    /\ IsPrefix(received'[c], sent[c])
    /\ UNCHANGED sent

Next == \E c \in Chan : Send(c) \/ Recv(c)

Spec == Init /\ [][Next]_streamVars

Intact == \A c \in Chan : IsPrefix(received[c], sent[c])
=============================================================================
