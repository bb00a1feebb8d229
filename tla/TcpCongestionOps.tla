-------------------------- MODULE TcpCongestionOps --------------------------
(***************************************************************************)
(* The congestion controls of Proj2: ns-3's NewReno                        *)
(* (proj2bak/tcp-congestion-ops.cc) and TcpFixed, the project's own        *)
(* (scratch/tcpchain/tcp-congestion-fixed.cc).  Windows are in bytes,      *)
(* acknowledgements are counted in segments.                               *)
(***************************************************************************)
EXTENDS TcpAttributes

Larger(a, b) == IF a > b THEN a ELSE b

ConstantWindow == InitialCwnd * SegSize

-----------------------------------------------------------------------------
(* A window and the segments it has not yet been credited for. *)
SlowStart(cWnd, segs) ==
    IF segs >= 1 THEN [cWnd |-> cWnd + SegSize, segs |-> segs - 1]
                 ELSE [cWnd |-> cWnd, segs |-> 0]

(* adder is a double of at least 1, cut to an integer when it is added.    *)
(* Without a window it is infinite, and 0 is left of it in 32 bits.        *)
Adder(cWnd) == IF cWnd = 0 THEN 0 ELSE Larger(1, (SegSize * SegSize) \div cWnd)

CongestionAvoidance(cWnd, segs) ==
    IF segs > 0 THEN cWnd + Adder(cWnd) ELSE cWnd

RenoIncrease(cWnd, ssThresh, segs) ==
    LET s == IF cWnd < ssThresh THEN SlowStart(cWnd, segs)
                                ELSE [cWnd |-> cWnd, segs |-> segs]
    IN  IF s.cWnd >= ssThresh THEN CongestionAvoidance(s.cWnd, s.segs)
                              ELSE s.cWnd

(* Fault: TcpFixed grows its window as well. *)
IncreaseWindow_Fault(cWnd, ssThresh, segs) == RenoIncrease(cWnd, ssThresh, segs)

IncreaseWindow(cWnd, ssThresh, segs) ==
    IF Algorithm = "Fixed" THEN ConstantWindow
                           ELSE RenoIncrease(cWnd, ssThresh, segs)

GetSsThresh(inFlight) ==
    IF Algorithm = "Fixed" THEN ConstantWindow
                           ELSE Larger(2 * SegSize, inFlight \div 2)

(* NewReno inherits an empty PktsAcked. *)
PktsAcked(cWnd) == IF Algorithm = "Fixed" THEN ConstantWindow ELSE cWnd
=============================================================================
