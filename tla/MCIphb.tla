------------------------------- MODULE MCIphb -------------------------------
(***************************************************************************)
(* A small instance of Iphb: seconds are halved into ticks, a heartbeat is *)
(* two seconds and the table of client_adjust_mintime() is cut down to two *)
(* rows, one with a window and one without.                                *)
(***************************************************************************)
EXTENDS Iphb

Req(min, max, wake) == [mintime |-> min, maxtime |-> max, wakeup |-> wake]

MCLut == << <<2, 1>>, <<1, 0>> >>

\* A cancellation, a slot, a window that is cut to a point and one that is not.
MCRequests == {Req(0, 0, TRUE), Req(2, 2, TRUE), Req(0, 1, TRUE), Req(0, 2, TRUE)}

MCInternalRequests == {Req(0, 3, TRUE), Req(0, 2, FALSE)}
=============================================================================
