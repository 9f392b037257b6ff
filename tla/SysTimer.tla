------------------------------ MODULE SysTimer ------------------------------
(***************************************************************************)
(* The generic system timer of src/common_tmr.c: a hardware counter that   *)
(* runs through one interrupt period, the interrupt that adds the period   *)
(* to cmn_systimer_counter, cmn_systimer_get that puts the two together,   *)
(* and platform_timer_delay on top of it.                                  *)
(*                                                                         *)
(* A pending interrupt is taken before the main program's next access.     *)
(* The counter has 64 bits: the main program loads it in two halves, in    *)
(* either order, and the interrupt may come in between.                    *)
(***************************************************************************)
EXTENDS Integers

CONSTANTS
  TicksForUs,  \* cmn_systimer_ticks_for_us: hardware ticks per microsecond
  Period,      \* cmn_systimer_us_per_interrupt
  SysMax,      \* PLATFORM_TIMER_SYS_MAX
  Word,        \* values of a machine word: the halves of the counter are words
  Delays,      \* the delays a program asks for, in microseconds
  MaxCounter   \* bound: the program reads the timer before it gets there

ASSUME SysTimerAssumption ==
  /\ {TicksForUs, Period, SysMax, Word, MaxCounter} \subseteq Nat \ {0}
  /\ Delays \subseteq Nat \ {0}
  /\ SysMax < MaxCounter
  /\ Period < Word              \* cmn_systimer_us_per_interrupt is a u32

PeriodTicks == Period * TicksForUs

VARIABLES
  raw,      \* the hardware counter, platform_timer_sys_raw_read
  pending,  \* "yes": the hardware counter overflowed, the interrupt is due
  enabled,  \* "yes": the interrupt is enabled
  cmn_systimer_counter,
  pc, tempcnt, tempsys, crtsys,
  half,     \* the half of the counter that has been loaded
  delay,    \* what platform_timer_delay waits for
  tstart,   \* its start time, NoTime before the first reading
  waited,   \* history: hardware ticks since the delay began (capped)
  lo,       \* history: the time when the current reading began
  slips     \* history: what went wrong since the delay began

hwvars   == <<raw, pending, enabled, cmn_systimer_counter>>
readvars == <<tempcnt, tempsys, crtsys, half>>
vars     == <<hwvars, pc, readvars, delay, tstart, waited, lo, slips>>

NoTime == -1
NoHalf == [part |-> "none", value |-> 0]

(* The members of slips.                                                    *)
(* "late": the interrupt came after the hardware count of a reading was     *)
(* taken and before its first load of the counter was complete.             *)
(* "wrap": the timer overflowed and was restarted; "start" if that happened *)
(* when the start time was read.                                            *)
(* "slow": a reading lasted so long that the low half of the counter may    *)
(* have gone once through all its values, less one interrupt period.        *)
Wrap == IF tstart = NoTime THEN "start" ELSE "wrap"

Init ==
  /\ raw = 0 /\ pending = "no" /\ enabled = "yes"
  /\ cmn_systimer_counter = 0
  /\ pc = "idle" /\ tempcnt = 0 /\ tempsys = 0 /\ crtsys = 0
  /\ half = NoHalf
  /\ delay = 0 /\ tstart = NoTime /\ waited = 0 /\ lo = 0 /\ slips = {}

(* The true time in microseconds, since the last restart. *)
Now == cmn_systimer_counter + (IF pending = "yes" THEN Period ELSE 0) + raw \div TicksForUs

WaitCap    == (SysMax + 1) * TicksForUs
Waited(n)  == IF pc = "idle" THEN waited
              ELSE IF n < WaitCap THEN n + 1 ELSE WaitCap

-----------------------------------------------------------------------------
(* The hardware counter advances; when it starts again it raises the        *)
(* interrupt, unless that is disabled.                                      *)
Tick ==
  /\ cmn_systimer_counter < MaxCounter /\ pending = "no"
  /\ waited' = Waited(waited)
  /\ IF raw + 1 < PeriodTicks
       THEN raw' = raw + 1 /\ UNCHANGED pending
       ELSE raw' = 0 /\ pending' = IF enabled = "yes" THEN "yes" ELSE "no"
  /\ UNCHANGED <<enabled, cmn_systimer_counter, pc, readvars, delay, tstart, lo>>
  /\ slips' = IF pc # "idle" /\ Now' - lo > Word - Period THEN slips \cup {"slow"} ELSE slips

(* The interrupt. *)
cmn_systimer_periodic ==
  /\ pending = "yes"
  /\ cmn_systimer_counter' = cmn_systimer_counter + Period
  /\ pending' = "no"
  /\ slips' = IF pc = "sys" THEN slips \cup {"late"} ELSE slips
  /\ UNCHANGED <<raw, enabled, pc, readvars, delay, tstart, waited, lo>>

-----------------------------------------------------------------------------
(* platform_timer_delay( PLATFORM_TIMER_SYS_ID, d ) *)
platform_timer_delay(d) ==
  /\ pc = "idle" /\ pending = "no"
  /\ pc' = "cnt" /\ delay' = d /\ tstart' = NoTime
  /\ waited' = 0 /\ lo' = Now /\ slips' = {}
  /\ UNCHANGED <<hwvars, readvars>>

(* Faulty variant: a second round keeps the first hardware count. *)
ReadCnt_Stale ==
  /\ pc \in {"cnt", "again"} /\ pending = "no"
  /\ tempcnt' = IF pc = "again" THEN tempcnt ELSE raw
  /\ tempsys' = IF pc = "again" THEN crtsys ELSE tempsys
  /\ pc' = IF pc = "again" THEN "check" ELSE "sys"
  /\ UNCHANGED <<hwvars, crtsys, half, delay, tstart, waited, lo, slips>>

(* cmn_systimer_get reads the hardware count, first or in another round, ... *)
ReadCnt ==
  /\ pc \in {"cnt", "again"} /\ pending = "no"
  /\ tempcnt' = raw
  /\ tempsys' = IF pc = "again" THEN crtsys ELSE tempsys
  /\ pc' = IF pc = "again" THEN "check" ELSE "sys"
  /\ UNCHANGED <<hwvars, crtsys, half, delay, tstart, waited, lo, slips>>

(* Every load of the counter begins with one half of it ... *)
LoadHalf ==
  /\ pc \in {"sys", "check"} /\ pending = "no" /\ half = NoHalf
  /\ \/ half' = [part |-> "low", value |-> cmn_systimer_counter % Word]
     \/ half' = [part |-> "high", value |-> cmn_systimer_counter \div Word]
  /\ UNCHANGED <<hwvars, pc, tempcnt, tempsys, crtsys, delay, tstart, waited, lo, slips>>

(* ... and ends with the other one. *)
Loaded ==
  IF half.part = "low" THEN (cmn_systimer_counter \div Word) * Word + half.value
                       ELSE half.value * Word + (cmn_systimer_counter % Word)

(* ... then the counter, in the first round only, ... *)
ReadSys ==
  /\ pc = "sys" /\ pending = "no" /\ half # NoHalf
  /\ tempsys' = Loaded
  /\ half' = NoHalf
  /\ pc' = "check"
  /\ UNCHANGED <<hwvars, tempcnt, crtsys, delay, tstart, waited, lo, slips>>

(* Faulty variant: the second load is not compared with the first. *)
CheckSys_NoRetry ==
  /\ pc = "check" /\ pending = "no" /\ half # NoHalf
  /\ crtsys' = Loaded
  /\ half' = NoHalf
  /\ pc' = "sum"
  /\ UNCHANGED <<hwvars, tempcnt, tempsys, delay, tstart, waited, lo, slips>>

(* ... and the counter once more: if it has changed there is another round.  *)
CheckSys ==
  /\ pc = "check" /\ pending = "no" /\ half # NoHalf
  /\ crtsys' = Loaded
  /\ half' = NoHalf
  /\ pc' = IF crtsys' # tempsys THEN "again" ELSE "sum"
  /\ UNCHANGED <<hwvars, tempcnt, tempsys, delay, tstart, waited, lo, slips>>

(* The value after an overflow. *)
Overflowed(t) == t % SysMax

(* On overflow the interrupt is disabled, the counter restarted. *)
Sum ==
  LET t == crtsys + tempcnt \div TicksForUs
  IN /\ pc = "sum" /\ pending = "no"
     /\ crtsys' = IF t > SysMax THEN Overflowed(t) ELSE t
     /\ enabled' = IF t > SysMax THEN "no" ELSE enabled
     /\ slips' = IF t > SysMax THEN slips \cup {Wrap} ELSE slips
     /\ pc' = IF t > SysMax THEN "zero" ELSE "diff"
     /\ UNCHANGED <<raw, pending, cmn_systimer_counter, tempcnt, tempsys, half,
                    delay, tstart, waited, lo>>

Restart ==
  /\ pc = "zero"
  /\ cmn_systimer_counter' = 0
  /\ pc' = "enable"
  /\ UNCHANGED <<raw, pending, enabled, readvars, delay, tstart, waited, lo, slips>>

EnableInt ==
  /\ pc = "enable"
  /\ enabled' = "yes"
  /\ pc' = "diff"
  /\ UNCHANGED <<raw, pending, cmn_systimer_counter, readvars, delay, tstart, waited,
                 lo, slips>>

(* The time from the start to a reading, over at most one overflow. *)
Elapsed(tend) == (IF tend < tstart THEN tend + SysMax + 1 ELSE tend) - tstart

(* The first reading is the start time; a later one ends the delay or not.  *)
Diff ==
  /\ pc = "diff" /\ pending = "no"
  /\ IF tstart = NoTime
       THEN tstart' = crtsys /\ pc' = "cnt"
       ELSE tstart' = tstart /\ pc' = IF Elapsed(crtsys) >= delay THEN "idle" ELSE "cnt"
  /\ lo' = Now
  /\ UNCHANGED <<hwvars, readvars, delay, waited, slips>>

Next ==
  \/ Tick \/ cmn_systimer_periodic
  \/ \E d \in Delays : platform_timer_delay(d)
  \/ ReadCnt \/ LoadHalf \/ ReadSys \/ CheckSys \/ Sum \/ Restart \/ EnableInt \/ Diff

Spec == Init /\ [][Next]_vars
-----------------------------------------------------------------------------
(* A reading is complete, no overflow has disturbed it and it was not slow. *)
Complete == pc = "diff" /\ slips \cap {"start", "wrap", "slow"} = {}

(* A reading never lies in the past, and is at most one interrupt period    *)
(* ahead: that much is lost when the interrupt comes after the hardware     *)
(* counter was read and before cmn_systimer_counter is.                     *)
AtMostOnePeriodAhead == Complete => lo <= crtsys /\ crtsys <= Now + Period

(* Otherwise, wherever the interrupts come during a reading, between the    *)
(* halves of the counter too, the value is the time of some moment of the   *)
(* reading: a torn value of the counter never gets out.                     *)
ExactUnlessLate == Complete /\ slips = {} => lo <= crtsys /\ crtsys <= Now

(* What a delay may be short of, in microseconds, when the timer overflows: *)
(* an interrupt period, or the resolution and the one microsecond that the  *)
(* remainder by SysMax, which is one less than the range, gives away.       *)
Shortfall == IF Period > 2 THEN Period ELSE 2

(* platform_timer_delay does not return early (by more than the resolution  *)
(* of one microsecond) unless a reading slipped.  Across the overflow,      *)
(* where the software counter is restarted and the hardware counter is not, *)
(* it returns at most an interrupt period early, resolution included, if    *)
(* the overflow is not met by the reading of the start time: then the next  *)
(* reading may be below it, and the delay ends at once.                     *)
DelayIsWaited ==
  [][pc # "idle" /\ pc' = "idle" =>
       /\ slips = {} => waited > (delay - 1) * TicksForUs
       /\ slips = {"wrap"} => waited > (delay - Shortfall) * TicksForUs]_vars
=============================================================================
