----------------------------- MODULE Waterfall ------------------------------
(***************************************************************************)
(* The bars of an execution's waterfall and of the list of executions      *)
(* (cmd/darek/serve/executions.go).  The theorems are in                   *)
(* ExecHistoryProofs.                                                      *)
(***************************************************************************)
EXTENDS Integers

-----------------------------------------------------------------------------
(* The waterfall of an execution.  Bars are placed on a scale of 1000, and *)
(* a step may seem to start before its execution or to end after it.       *)

AtMost(n, bound)  == IF n > bound THEN bound ELSE n
AtLeast(n, bound) == IF n < bound THEN bound ELSE n

(* buildStepVMs *)
OffsetPct(offsetMS, totalMS) ==
    IF totalMS > 0 THEN AtMost((AtLeast(offsetMS, 0) * 1000) \div totalMS, 1000)
    ELSE 0

WidthPct(offsetMS, durationMS, totalMS) ==
    IF totalMS > 0
    THEN AtLeast(AtMost((durationMS * 1000) \div totalMS,
                        1000 - OffsetPct(offsetMS, totalMS)), 0)
    ELSE 0

(* buildTicks and buildExecutionRowVMs *)
TickMS(durationMS, pct) == (durationMS * pct) \div 1000
RowPct(durationMS, max) == IF max > 0 THEN (durationMS * 1000) \div max ELSE 0
=============================================================================
