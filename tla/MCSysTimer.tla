----------------------------- MODULE MCSysTimer -----------------------------
(* An interrupt every three microseconds, two hardware ticks in each, and a *)
(* timer that overflows after ten; the counter's low half has three bits.   *)
EXTENDS SysTimer
=============================================================================
