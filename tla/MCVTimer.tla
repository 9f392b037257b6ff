------------------------------ MODULE MCVTimer ------------------------------
(* Two timers at 4 Hz with counters modulo 3: one with periods of one and   *)
(* two ticks, the other with a period of one tick, of zero, one shorter     *)
(* than a tick and one too long.                                            *)
EXTENDS VTimer

MCPeriods == [i \in Timers |-> IF i = 0 THEN {250000, 500000}
                               ELSE {0, 1000, 250000, 2000000}]
=============================================================================
