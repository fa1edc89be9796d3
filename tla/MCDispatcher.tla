---------------------------- MODULE MCDispatcher ----------------------------
(***************************************************************************)
(* Instances of ReportDispatcher for TLC: the clock-ins of one employee, or*)
(* his clock-outs.  Rows of other employees and of the other kind only     *)
(* meet these in the batches.                                              *)
(***************************************************************************)
EXTENDS ReportDispatcher

CONSTANT e1

ClockIns == {<<e1, "clock_in">>}

ClockOuts == {<<e1, "clock_out">>}
=============================================================================
