------------------------------- MODULE VTimer -------------------------------
(***************************************************************************)
(* The virtual timers of src/common_tmr.c: counters advanced by one        *)
(* hardware interrupt (cmn_virtual_timer_cb) and the operations the main   *)
(* program runs on them, which share with it the counters, the match       *)
(* limits, three masks with one bit per timer and the reset request.       *)
(*                                                                         *)
(* Each access of the main program to a shared variable is a step, and     *)
(* `mask |= m`, `mask &= ~m` are two of them (load, store): the interrupt  *)
(* may come between any two.  The interrupt itself is one step, nothing    *)
(* the main program does can interrupt it.  All timers have their bit in   *)
(* the same byte (VTMR_NUM_TIMERS is at most 8 on every platform).         *)
(***************************************************************************)
EXTENDS Integers

CONSTANTS
  NumTimers,   \* VTMR_NUM_TIMERS
  FreqHz,      \* VTMR_FREQ_HZ
  MaxPeriod,   \* VTMR_MAX_PERIOD, in microseconds
  CountMod,    \* the counters are u32: they count modulo CountMod
  Periods      \* the periods and delays, in microseconds, asked of each timer

Timers  == 0 .. NumTimers - 1
NoReset == -1
Types   == {"oneshot", "cyclic"}
Second  == 1000000

(* Periods in ticks: the match limit `final` of the code. *)
Ticks(us) == (us * FreqHz) \div Second

ASSUME VTimerAssumption ==
  /\ NumTimers \in 1 .. 8
  /\ FreqHz \in Nat \ {0} /\ MaxPeriod \in Nat /\ CountMod \in Nat \ {0}
  /\ Periods \in [Timers -> SUBSET Nat]
  /\ \A i \in Timers : \A us \in Periods[i] : us <= MaxPeriod => Ticks(us) < CountMod

VARIABLES
  vtmr_counters,
  vtmr_period_limit,
  vtmr_int_periodic_flag,  \* the masks, as the sets of timers whose bit is set
  vtmr_int_enabled,
  vtmr_int_flag,
  vtmr_reset_idx,
  pc,       \* the step of the operation the main program is in
  op,       \* that operation: which one, on which timer, ticks, type
  acc,      \* the mask it has loaded, between the load and the store
  loaded,   \* "yes" in between
  shots,    \* history: what the one-shot timers have done since last enabled
  revived   \* history: timers whose enable bit a store brought back

masks  == <<vtmr_int_periodic_flag, vtmr_int_enabled, vtmr_int_flag>>
shared == <<vtmr_counters, vtmr_period_limit, masks, vtmr_reset_idx>>
main   == <<pc, op, acc, loaded>>
vars   == <<shared, main, shots, revived>>

Calls == {"none", "match", "off", "enable", "disable", "getflag", "start", "delay"}
PCs   == {"idle", "limit", "periodic", "flag", "enabled", "reset", "await", "count"}
NoOp  == [call |-> "none", id |-> 0, ticks |-> 0, type |-> "oneshot"]

Init ==
  /\ vtmr_counters = [i \in Timers |-> 0]
  /\ vtmr_period_limit = [i \in Timers |-> 0]
  /\ vtmr_int_periodic_flag = {} /\ vtmr_int_enabled = {} /\ vtmr_int_flag = {}
  /\ vtmr_reset_idx = NoReset
  /\ pc = "idle" /\ op = NoOp /\ acc = {} /\ loaded = "no"
  /\ shots = [i \in Timers |-> "none"]
  /\ revived = {}

-----------------------------------------------------------------------------
(* The interrupt *)

(* The counter after the increment. *)
Counted(i) == IF vtmr_counters[i] = CountMod - 1 THEN 0 ELSE vtmr_counters[i] + 1

(* Faulty variant: the limit must be exceeded. *)
Matches_Strict(i) == Counted(i) > vtmr_period_limit[i]

(* The counter has reached the limit. *)
Matches(i) == Counted(i) >= vtmr_period_limit[i]

(* Faulty variant: a one-shot timer stays enabled. *)
Disarmed_Never(matched) == {}

(* The timers whose enable bit a match clears. *)
Disarmed(matched) == matched \ vtmr_int_periodic_flag

(* Faulty variant: the request is not taken back. *)
RequestServed_Kept == vtmr_reset_idx

(* The reset request after the interrupt has served it. *)
RequestServed == NoReset

(* cmn_virtual_timer_cb: count, flag and raise the matches, restart the     *)
(* cyclic timers and disable the others, then serve the reset request.      *)
cmn_virtual_timer_cb ==
  LET matched == {i \in Timers : Matches(i)}
      fired   == (matched \cap vtmr_int_enabled) \ vtmr_int_periodic_flag
  IN /\ vtmr_counters' = [i \in Timers |->
          IF i = vtmr_reset_idx \/ (i \in matched /\ i \in vtmr_int_periodic_flag)
            THEN 0 ELSE Counted(i)]
     /\ vtmr_int_flag' = vtmr_int_flag \cup matched
     /\ vtmr_int_enabled' = vtmr_int_enabled \ Disarmed(matched)
     /\ vtmr_reset_idx' = RequestServed
     /\ shots' = [i \in Timers |-> IF i \notin fired THEN shots[i]
                    ELSE IF shots[i] = "armed" THEN "fired" ELSE "again"]
     /\ UNCHANGED <<vtmr_period_limit, vtmr_int_periodic_flag, main, revived>>

-----------------------------------------------------------------------------
(* The main program *)

Start(call, i, ticks, type, step) ==
  /\ pc = "idle"
  /\ pc' = step
  /\ op' = [call |-> call, id |-> i, ticks |-> ticks, type |-> type]
  /\ UNCHANGED <<shared, acc, loaded, shots, revived>>

TooLong(us)  == us > MaxPeriod
TooShort(us) == Ticks(us) = 0

(* vtmr_set_match_int; a period too long or too short changes nothing. *)
vtmr_set_match_int(i, us, type) ==
  /\ ~TooLong(us)
  /\ IF us = 0 THEN Start("off", i, 0, "oneshot", "enabled")
     ELSE ~TooShort(us) /\ Start("match", i, Ticks(us), type, "limit")

vtmr_int_set_status(i, status) == Start(status, i, 0, "oneshot", "enabled")

(* vtmr_int_get_flag with `clear`; without it nothing changes. *)
vtmr_int_get_flag(i) == Start("getflag", i, 0, "oneshot", "flag")

(* platform_timer_op( START ) *)
TimerStart(i) == Start("start", i, 0, "oneshot", "reset")

vtmr_delay(i, us) == ~TooLong(us) /\ Start("delay", i, Ticks(us), "oneshot", "reset")

(* The step that follows step s of an operation. *)
After(call, s) ==
  CASE s = "limit"                      -> "periodic"
    [] s = "periodic"                   -> "flag"
    [] s = "flag" /\ call = "match"     -> "reset"
    [] s = "reset"                      -> "await"
    [] s = "await" /\ call = "match"    -> "enabled"
    [] s = "await" /\ call = "delay"    -> "count"
    [] s = "enabled" /\ call = "off"    -> "flag"
    [] OTHER                            -> "idle"

Advance ==
  /\ pc' = After(op.call, pc)
  /\ op' = IF pc' = "idle" THEN NoOp ELSE op
  /\ acc' = {} /\ loaded' = "no"

StoreLimit ==
  /\ pc = "limit"
  /\ vtmr_period_limit' = [vtmr_period_limit EXCEPT ![op.id] = op.ticks]
  /\ Advance
  /\ UNCHANGED <<vtmr_counters, masks, vtmr_reset_idx, shots, revived>>

(* The interrupt does not write this mask: load and store are one step. *)
StorePeriodic ==
  /\ pc = "periodic"
  /\ vtmr_int_periodic_flag' = IF op.type = "oneshot" THEN vtmr_int_periodic_flag \ {op.id}
                                ELSE vtmr_int_periodic_flag \cup {op.id}
  /\ Advance
  /\ UNCHANGED <<vtmr_counters, vtmr_period_limit, vtmr_int_enabled, vtmr_int_flag,
                 vtmr_reset_idx, shots, revived>>

LoadMask ==
  /\ pc \in {"flag", "enabled"} /\ loaded = "no"
  /\ acc' = IF pc = "flag" THEN vtmr_int_flag ELSE vtmr_int_enabled
  /\ loaded' = "yes"
  /\ UNCHANGED <<shared, pc, op, shots, revived>>

StoreFlag ==
  /\ pc = "flag" /\ loaded = "yes"
  /\ vtmr_int_flag' = acc \ {op.id}
  /\ Advance
  /\ UNCHANGED <<vtmr_counters, vtmr_period_limit, vtmr_int_periodic_flag,
                 vtmr_int_enabled, vtmr_reset_idx, shots, revived>>

(* A store brings back the bits that the interrupt has cleared since the    *)
(* load.                                                                    *)
StoreEnabled ==
  LET on == op.call \in {"match", "enable"}
  IN /\ pc = "enabled" /\ loaded = "yes"
     /\ vtmr_int_enabled' = IF on THEN acc \cup {op.id} ELSE acc \ {op.id}
     /\ shots' = [shots EXCEPT ![op.id] = IF on THEN "armed" ELSE "none"]
     /\ revived' = (revived \cup (acc \ vtmr_int_enabled)) \ {op.id}
     /\ Advance
     /\ UNCHANGED <<vtmr_counters, vtmr_period_limit, vtmr_int_periodic_flag,
                    vtmr_int_flag, vtmr_reset_idx>>

(* vtmr_reset_timer asks the interrupt for the reset ... *)
AskReset ==
  /\ pc = "reset"
  /\ vtmr_reset_idx' = op.id
  /\ Advance
  /\ UNCHANGED <<vtmr_counters, vtmr_period_limit, masks, shots, revived>>

(* Faulty variant: it does not wait. *)
AwaitReset_NoWait ==
  /\ pc = "await"
  /\ Advance
  /\ UNCHANGED <<shared, shots, revived>>

(* ... and waits until it is done. *)
AwaitReset ==
  /\ pc = "await" /\ vtmr_reset_idx = NoReset
  /\ Advance
  /\ UNCHANGED <<shared, shots, revived>>

(* vtmr_delay waits for the counter. *)
AwaitCount ==
  /\ pc = "count" /\ vtmr_counters[op.id] >= op.ticks
  /\ Advance
  /\ UNCHANGED <<shared, shots, revived>>

Step == StoreLimit \/ LoadMask \/ StorePeriodic \/ StoreFlag \/ StoreEnabled
          \/ AskReset \/ AwaitReset

Call ==
  \E i \in Timers :
    \/ \E us \in Periods[i], type \in Types : vtmr_set_match_int(i, us, type)
    \/ \E status \in {"enable", "disable"} : vtmr_int_set_status(i, status)
    \/ vtmr_int_get_flag(i)
    \/ TimerStart(i)
    \/ \E us \in Periods[i] : vtmr_delay(i, us)

Next == cmn_virtual_timer_cb \/ Call \/ Step \/ AwaitCount

(* The hardware timer ticks, the main program runs, and its waiting loop    *)
(* looks at the counter more often than the counter goes round.             *)
Fairness == WF_vars(cmn_virtual_timer_cb) /\ WF_vars(Step) /\ SF_vars(AwaitCount)

Spec     == Init /\ [][Next]_vars
FairSpec == Spec /\ Fairness
-----------------------------------------------------------------------------
TypeOK ==
  /\ vtmr_counters \in [Timers -> 0 .. CountMod - 1]
  /\ vtmr_period_limit \in [Timers -> 0 .. CountMod - 1]
  /\ vtmr_int_periodic_flag \subseteq Timers
  /\ vtmr_int_enabled \subseteq Timers
  /\ vtmr_int_flag \subseteq Timers
  /\ vtmr_reset_idx \in Timers \cup {NoReset}
  /\ pc \in PCs
  /\ op \in [call : Calls, id : Timers, ticks : 0 .. CountMod - 1, type : Types]
  /\ acc \subseteq Timers /\ loaded \in {"yes", "no"}
  /\ shots \in [Timers -> {"none", "armed", "fired", "again"}]
  /\ revived \subseteq Timers

(* set_match_int is between its new limit and its reset of timer i. *)
Rearming(i) == op.call = "match" /\ op.id = i /\ pc \in {"periodic", "flag", "reset", "await"}

(* Outside of the call that sets it up, the main program never finds the    *)
(* counter of a cyclic timer at its limit: the reset that set_match_int     *)
(* asks for and waits for, and the restart by the interrupt, keep it below. *)
CyclicBelowLimit ==
  \A i \in vtmr_int_periodic_flag : Rearming(i) \/ vtmr_counters[i] < vtmr_period_limit[i]

(* A one-shot timer raises one interrupt for each time it is enabled,       *)
(* unless the main program's update of another timer's bit in the same mask *)
(* brought its enable bit back.                                             *)
OneShotOnceUnlessRevived ==
  \A i \in Timers : shots[i] = "again" => i \in revived

(* doc/eluadoc/arch_platform_timers.lua: PLATFORM_TIMER_INT_ONESHOT is "for *)
(* an interrupt that occurs only once after period_us microseconds": so     *)
(* does a timer that set_match_int has set up.                              *)
OneShotOnce ==
  \A i \in Timers : vtmr_period_limit[i] > 0 /\ ~(op.call = "match" /\ op.id = i) =>
    shots[i] # "again"

(* A delay that cannot end: the timer is cyclic and restarts at or before   *)
(* the count that vtmr_delay waits for.                                     *)
Hangs ==
  op.call = "delay" /\ op.id \in vtmr_int_periodic_flag
    /\ vtmr_period_limit[op.id] <= op.ticks

(* Every operation on a virtual timer returns, a delay on a cyclic timer    *)
(* with a shorter period excepted: no reset request is overlooked, and the  *)
(* count that a delay waits for is reached.                                 *)
CallsReturn == (pc # "idle" /\ ~Hangs) ~> (pc = "idle")

(* ... and that delay never returns. *)
HangsForever == [][Hangs /\ pc = "count" => Hangs' /\ pc' = "count"]_vars

(* The next interrupt calls elua_int_add for timer i. *)
Due(i) == Matches(i) /\ i \in vtmr_int_enabled

(* A cyclic timer left enabled, and not reset for ever, keeps raising its   *)
(* interrupt, whatever happens to the timers that share its masks.          *)
CyclicKeepsFiring ==
  \A i \in Timers :
    <>[](i \in vtmr_int_enabled /\ i \in vtmr_int_periodic_flag /\ vtmr_reset_idx # i)
      => []<>Due(i)
=============================================================================
