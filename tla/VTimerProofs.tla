---------------------------- MODULE VTimerProofs ----------------------------
(***************************************************************************)
(* Proofs about VTimer for every number of timers, tick frequency, counter *)
(* width and set of periods.                                               *)
(***************************************************************************)
EXTENDS VTimer, TLAPS

(* Strengthening.  Where the main program is in its call: only the calls    *)
(* that set a match pass the limit and the type, with a positive limit ...  *)
CallMatchesStep ==
  /\ pc \in {"limit", "periodic"} => op.call = "match"
  /\ pc \in {"limit", "periodic", "flag", "reset", "await", "enabled"}
       /\ op.call = "match" => op.ticks > 0
  /\ pc = "periodic" => vtmr_period_limit[op.id] > 0
  /\ pc = "count" => op.call = "delay"

(* ... a reset request is always the one the main program waits for, and    *)
(* once it is served a cyclic timer is below its new limit ...              *)
RequestAwaited ==
  /\ vtmr_reset_idx # NoReset => pc = "await" /\ vtmr_reset_idx = op.id
  /\ pc = "await" /\ op.call = "match" /\ vtmr_reset_idx = NoReset
       /\ op.id \in vtmr_int_periodic_flag
       => vtmr_counters[op.id] < vtmr_period_limit[op.id]

(* ... a cyclic timer has a limit ... *)
CyclicHasLimit ==
  \A i \in vtmr_int_periodic_flag : vtmr_period_limit[i] > 0

(* ... and an enabled timer has not fired since it was enabled as a         *)
(* one-shot timer, or was brought back.                                     *)
EnabledIsArmed ==
  \A i \in vtmr_int_enabled : shots[i] = "armed" \/ i \in revived

IInv == /\ TypeOK
        /\ CallMatchesStep
        /\ RequestAwaited
        /\ CyclicHasLimit
        /\ CyclicBelowLimit
        /\ EnabledIsArmed
        /\ OneShotOnceUnlessRevived

-----------------------------------------------------------------------------
(* A period converts to a number of ticks, and one that is not too long to  *)
(* a number the counters reach.                                             *)
LEMMA TicksFacts ==
  ASSUME NEW i \in Timers, NEW us \in Periods[i]
  PROVE  /\ Ticks(us) \in Nat
         /\ ~TooLong(us) => Ticks(us) \in 0 .. CountMod - 1
<1>1. us \in Nat /\ FreqHz \in Nat /\ MaxPeriod \in Nat /\ CountMod \in Nat
  BY VTimerAssumption
<1>2. us * FreqHz \in Nat
  BY <1>1
<1> DEFINE n == us * FreqHz
<1>3. n \in Nat
  BY <1>2
<1> HIDE DEF n
<1>4. n \div 1000000 \in Nat
  BY <1>3
<1>5. Ticks(us) \in Nat
  BY <1>4 DEF Ticks, Second, n
<1>6. ~TooLong(us) => us <= MaxPeriod
  BY <1>1 DEF TooLong
<1>7. us <= MaxPeriod => Ticks(us) < CountMod
  BY VTimerAssumption
<1>8. QED
  BY <1>1, <1>5, <1>6, <1>7

(* The increment of a counter stays within its width. *)
LEMMA CountedType ==
  ASSUME TypeOK, NEW i \in Timers
  PROVE  Counted(i) \in 0 .. CountMod - 1 /\ vtmr_counters[i] \in 0 .. CountMod - 1
<1>1. vtmr_counters[i] \in 0 .. CountMod - 1
  BY DEF TypeOK
<1>2. CountMod \in Nat \ {0}
  BY VTimerAssumption
<1>3. QED
  BY <1>1, <1>2 DEF Counted

(* The initial state satisfies the inductive invariant. *)
LEMMA InitIInv == Init => IInv
<1> SUFFICES ASSUME Init PROVE IInv
  OBVIOUS
<1>0. NumTimers \in Nat \ {0} /\ CountMod \in Nat \ {0}
  BY VTimerAssumption
<1>1. TypeOK
  BY <1>0 DEF Init, TypeOK, Timers, PCs, Calls, NoOp, Types, NoReset
<1>2. CallMatchesStep /\ RequestAwaited
  BY DEF Init, CallMatchesStep, RequestAwaited, NoOp
<1>3. CyclicHasLimit /\ CyclicBelowLimit /\ EnabledIsArmed
  BY DEF Init, CyclicHasLimit, CyclicBelowLimit, EnabledIsArmed
<1>4. OneShotOnceUnlessRevived
  BY DEF Init, OneShotOnceUnlessRevived
<1>5. QED
  BY <1>1, <1>2, <1>3, <1>4 DEF IInv

(* The interrupt preserves the invariant. *)
LEMMA TickIInv ==
  ASSUME IInv, cmn_virtual_timer_cb
  PROVE  IInv'
<1> DEFINE matched == {i \in Timers : Matches(i)}
           fired   == (matched \cap vtmr_int_enabled) \ vtmr_int_periodic_flag
<1>t. TypeOK
  BY DEF IInv
<1>c. /\ vtmr_counters' = [i \in Timers |->
           IF i = vtmr_reset_idx \/ (i \in matched /\ i \in vtmr_int_periodic_flag)
             THEN 0 ELSE Counted(i)]
      /\ vtmr_int_flag' = vtmr_int_flag \cup matched
      /\ vtmr_int_enabled' = vtmr_int_enabled \ (matched \ vtmr_int_periodic_flag)
      /\ vtmr_reset_idx' = NoReset
      /\ shots' = [i \in Timers |-> IF i \notin fired THEN shots[i]
                     ELSE IF shots[i] = "armed" THEN "fired" ELSE "again"]
  BY DEF cmn_virtual_timer_cb, Disarmed, RequestServed
<1>u. /\ vtmr_period_limit' = vtmr_period_limit
      /\ vtmr_int_periodic_flag' = vtmr_int_periodic_flag
      /\ pc' = pc /\ op' = op /\ acc' = acc /\ loaded' = loaded
      /\ revived' = revived
  BY DEF cmn_virtual_timer_cb, main
<1>m. \A i \in Timers : i \in matched <=> Counted(i) >= vtmr_period_limit[i]
  BY DEF Matches
<1>n. CountMod \in Nat \ {0}
  BY VTimerAssumption
<1>k. \A i \in Timers : Counted(i) \in 0 .. CountMod - 1
  BY <1>t, CountedType
<1>l. \A i \in Timers : vtmr_period_limit[i] \in 0 .. CountMod - 1
  BY <1>t DEF TypeOK
<1>s. vtmr_int_periodic_flag \subseteq Timers /\ vtmr_int_enabled \subseteq Timers
        /\ op.id \in Timers
  BY <1>t DEF TypeOK
<1>r. matched \subseteq Timers
  OBVIOUS
<1> HIDE DEF matched
<1>1. TypeOK'
  <2>1. vtmr_counters' \in [Timers -> 0 .. CountMod - 1]
    BY <1>c, <1>k, <1>n
  <2>2. shots' \in [Timers -> {"none", "armed", "fired", "again"}]
    BY <1>c, <1>t DEF TypeOK
  <2>3. vtmr_int_enabled' \subseteq Timers /\ vtmr_int_flag' \subseteq Timers
          /\ vtmr_reset_idx' \in Timers \cup {NoReset}
    BY <1>c, <1>r, <1>t DEF TypeOK
  <2>4. QED
    BY <2>1, <2>2, <2>3, <1>u, <1>t DEF TypeOK
<1>2. CallMatchesStep'
  BY <1>u DEF IInv, CallMatchesStep
<1>3. CyclicHasLimit'
  BY <1>u DEF IInv, CyclicHasLimit
<1>4. \A i \in vtmr_int_periodic_flag : vtmr_counters'[i] < vtmr_period_limit[i]
  <2> SUFFICES ASSUME NEW i \in vtmr_int_periodic_flag
               PROVE  vtmr_counters'[i] < vtmr_period_limit[i]
    OBVIOUS
  <2>0. i \in Timers /\ vtmr_period_limit[i] > 0
    BY <1>s DEF IInv, CyclicHasLimit
  <2>1. CASE vtmr_counters'[i] = 0
    BY <2>0, <2>1, <1>l
  <2>2. CASE i \notin matched /\ vtmr_counters'[i] = Counted(i)
    BY <2>0, <2>2, <1>m, <1>k, <1>l
  <2>3. QED
    BY <2>0, <2>1, <2>2, <1>c
<1>5. RequestAwaited' /\ CyclicBelowLimit'
  BY <1>4, <1>c, <1>u DEF RequestAwaited, CyclicBelowLimit
<1>6. EnabledIsArmed'
  <2> SUFFICES ASSUME NEW i \in vtmr_int_enabled'
               PROVE  shots'[i] = "armed" \/ i \in revived
    BY <1>u DEF EnabledIsArmed
  <2>1. i \in vtmr_int_enabled /\ i \notin fired /\ i \in Timers
    BY <1>c, <1>s
  <2>2. shots'[i] = shots[i]
    BY <2>1, <1>c
  <2>3. QED
    BY <2>1, <2>2 DEF IInv, EnabledIsArmed
<1>7. OneShotOnceUnlessRevived'
  <2> SUFFICES ASSUME NEW i \in Timers, shots'[i] = "again"
               PROVE  i \in revived
    BY <1>u DEF OneShotOnceUnlessRevived
  <2>1. CASE i \in fired
    BY <2>1, <1>c DEF IInv, EnabledIsArmed
  <2>2. CASE i \notin fired
    BY <2>2, <1>c DEF IInv, OneShotOnceUnlessRevived
  <2>3. QED
    BY <2>1, <2>2
<1>8. QED
  BY <1>1, <1>2, <1>3, <1>5, <1>6, <1>7 DEF IInv

(* The beginning of a call preserves the invariant, if its first step suits *)
(* the call.                                                                *)
LEMMA StartIInv ==
  ASSUME IInv, NEW call \in Calls, NEW i \in Timers,
         NEW ticks \in 0 .. CountMod - 1, NEW type \in Types,
         NEW step \in {"limit", "flag", "enabled", "reset"},
         step = "limit" => call = "match",
         call = "match" => ticks > 0,
         Start(call, i, ticks, type, step)
  PROVE  IInv'
<1>u. /\ pc = "idle" /\ pc' = step
      /\ op' = [call |-> call, id |-> i, ticks |-> ticks, type |-> type]
      /\ vtmr_counters' = vtmr_counters /\ vtmr_period_limit' = vtmr_period_limit
      /\ vtmr_int_periodic_flag' = vtmr_int_periodic_flag
      /\ vtmr_int_enabled' = vtmr_int_enabled /\ vtmr_int_flag' = vtmr_int_flag
      /\ vtmr_reset_idx' = vtmr_reset_idx
      /\ acc' = acc /\ loaded' = loaded /\ shots' = shots /\ revived' = revived
  BY DEF Start, shared, masks
<1>1. TypeOK'
  BY <1>u DEF IInv, TypeOK, PCs
<1>2. CallMatchesStep'
  BY <1>u DEF CallMatchesStep
<1>3. vtmr_reset_idx = NoReset
  BY <1>u DEF IInv, RequestAwaited
<1>4. RequestAwaited'
  BY <1>u, <1>3 DEF RequestAwaited
<1>5. CyclicHasLimit' /\ EnabledIsArmed' /\ OneShotOnceUnlessRevived'
  BY <1>u DEF IInv, CyclicHasLimit, EnabledIsArmed, OneShotOnceUnlessRevived
<1>6. CyclicBelowLimit'
  BY <1>u DEF IInv, CyclicBelowLimit, Rearming
<1>7. QED
  BY <1>1, <1>2, <1>4, <1>5, <1>6 DEF IInv

(* So does every call. *)
LEMMA CallIInv ==
  ASSUME IInv, Call
  PROVE  IInv'
<1>n. 0 \in 0 .. CountMod - 1
  BY VTimerAssumption
<1>y. "oneshot" \in Types
  BY DEF Types
<1> PICK i \in Timers :
      \/ \E us \in Periods[i], type \in Types : vtmr_set_match_int(i, us, type)
      \/ \E status \in {"enable", "disable"} : vtmr_int_set_status(i, status)
      \/ vtmr_int_get_flag(i)
      \/ TimerStart(i)
      \/ \E us \in Periods[i] : vtmr_delay(i, us)
  BY DEF Call
<1>1. CASE \E us \in Periods[i], type \in Types : vtmr_set_match_int(i, us, type)
  <2> PICK us \in Periods[i], type \in Types : vtmr_set_match_int(i, us, type)
    BY <1>1
  <2>1. CASE Start("off", i, 0, "oneshot", "enabled")
    BY <2>1, <1>n, <1>y, StartIInv DEF Calls
  <2>2. CASE ~TooLong(us) /\ ~TooShort(us) /\ Start("match", i, Ticks(us), type, "limit")
    <3>1. Ticks(us) \in 0 .. CountMod - 1 /\ Ticks(us) > 0
      BY <2>2, TicksFacts DEF TooShort
    <3>2. QED
      BY <2>2, <3>1, StartIInv DEF Calls
  <2>3. QED
    BY <2>1, <2>2 DEF vtmr_set_match_int
<1>2. CASE \E status \in {"enable", "disable"} : vtmr_int_set_status(i, status)
  BY <1>2, <1>n, <1>y, StartIInv DEF vtmr_int_set_status, Calls
<1>3. CASE vtmr_int_get_flag(i)
  BY <1>3, <1>n, <1>y, StartIInv DEF vtmr_int_get_flag, Calls
<1>4. CASE TimerStart(i)
  BY <1>4, <1>n, <1>y, StartIInv DEF TimerStart, Calls
<1>5. CASE \E us \in Periods[i] : vtmr_delay(i, us)
  <2> PICK us \in Periods[i] : vtmr_delay(i, us)
    BY <1>5
  <2>1. Ticks(us) \in 0 .. CountMod - 1 /\ Start("delay", i, Ticks(us), "oneshot", "reset")
    BY TicksFacts DEF vtmr_delay
  <2>2. QED
    BY <2>1, <1>y, StartIInv DEF Calls
<1>6. QED
  BY <1>1, <1>2, <1>3, <1>4, <1>5

(* The end of a step of a call leaves the call's arguments alone or clears  *)
(* them.                                                                    *)
LEMMA AdvanceType ==
  ASSUME TypeOK, Advance
  PROVE  /\ pc' \in PCs
         /\ op' \in [call : Calls, id : Timers, ticks : 0 .. CountMod - 1, type : Types]
         /\ pc' # "idle" => op' = op
         /\ acc' = {} /\ loaded' = "no"
<1>1. 0 \in Timers /\ 0 \in 0 .. CountMod - 1
  BY VTimerAssumption DEF Timers
<1>2. NoOp \in [call : Calls, id : Timers, ticks : 0 .. CountMod - 1, type : Types]
  BY <1>1 DEF NoOp, Calls, Types
<1>3. pc' \in PCs
  BY DEF Advance, After, PCs
<1>4. QED
  BY <1>2, <1>3 DEF Advance, TypeOK

(* The main program's steps inside a call preserve the invariant. *)
LEMMA StepIInv ==
  ASSUME IInv, Step \/ AwaitCount
  PROVE  IInv'
<1>t. TypeOK
  BY DEF IInv
<1>o. /\ op.id \in Timers /\ op.ticks \in 0 .. CountMod - 1
      /\ vtmr_int_periodic_flag \subseteq Timers /\ vtmr_int_enabled \subseteq Timers
      /\ acc \subseteq Timers
  BY <1>t DEF TypeOK
<1>n. CountMod \in Nat \ {0}
  BY VTimerAssumption
<1>l. \A i \in Timers : /\ vtmr_period_limit[i] \in 0 .. CountMod - 1
                        /\ vtmr_counters[i] \in 0 .. CountMod - 1
  BY <1>t DEF TypeOK
<1>q. pc # "await" => vtmr_reset_idx = NoReset
  BY DEF IInv, RequestAwaited
<1>1. CASE StoreLimit
  <2>1. /\ pc = "limit" /\ pc' = "periodic" /\ op' = op
        /\ vtmr_period_limit' = [vtmr_period_limit EXCEPT ![op.id] = op.ticks]
        /\ vtmr_counters' = vtmr_counters
        /\ vtmr_int_periodic_flag' = vtmr_int_periodic_flag
        /\ vtmr_int_enabled' = vtmr_int_enabled /\ vtmr_int_flag' = vtmr_int_flag
        /\ vtmr_reset_idx' = vtmr_reset_idx /\ shots' = shots /\ revived' = revived
        /\ acc' = {} /\ loaded' = "no"
    BY <1>1 DEF StoreLimit, Advance, After, masks
  <2>2. op.call = "match" /\ op.ticks > 0
    BY <2>1 DEF IInv, CallMatchesStep
  <2>3. TypeOK'
    BY <2>1, <1>t, <1>o DEF TypeOK, PCs
  <2>4. vtmr_period_limit'[op.id] = op.ticks
          /\ \A i \in Timers \ {op.id} : vtmr_period_limit'[i] = vtmr_period_limit[i]
    BY <2>1, <1>t, <1>o DEF TypeOK
  <2>5. CallMatchesStep' /\ RequestAwaited'
    BY <2>1, <2>2, <2>4, <1>q DEF CallMatchesStep, RequestAwaited
  <2>6. CyclicHasLimit'
    BY <2>1, <2>2, <2>4, <1>o DEF IInv, CyclicHasLimit
  <2>7. CyclicBelowLimit'
    BY <2>1, <2>2, <2>4, <1>o DEF IInv, CyclicBelowLimit, Rearming
  <2>8. EnabledIsArmed' /\ OneShotOnceUnlessRevived'
    BY <2>1 DEF IInv, EnabledIsArmed, OneShotOnceUnlessRevived
  <2>9. QED
    BY <2>3, <2>5, <2>6, <2>7, <2>8 DEF IInv
<1>2. CASE StorePeriodic
  <2>1. /\ pc = "periodic" /\ pc' = "flag" /\ op' = op
        /\ vtmr_int_periodic_flag' \in {vtmr_int_periodic_flag \ {op.id},
                                        vtmr_int_periodic_flag \cup {op.id}}
        /\ vtmr_period_limit' = vtmr_period_limit /\ vtmr_counters' = vtmr_counters
        /\ vtmr_int_enabled' = vtmr_int_enabled /\ vtmr_int_flag' = vtmr_int_flag
        /\ vtmr_reset_idx' = vtmr_reset_idx /\ shots' = shots /\ revived' = revived
        /\ acc' = {} /\ loaded' = "no"
    BY <1>2 DEF StorePeriodic, Advance, After
  <2>2. op.call = "match" /\ op.ticks > 0 /\ vtmr_period_limit[op.id] > 0
    BY <2>1 DEF IInv, CallMatchesStep
  <2>3. TypeOK'
    BY <2>1, <1>t, <1>o DEF TypeOK, PCs
  <2>5. CallMatchesStep' /\ RequestAwaited'
    BY <2>1, <2>2, <1>q DEF CallMatchesStep, RequestAwaited
  <2>6. CyclicHasLimit'
    BY <2>1, <2>2 DEF IInv, CyclicHasLimit
  <2>7. CyclicBelowLimit'
    BY <2>1, <2>2 DEF IInv, CyclicBelowLimit, Rearming
  <2>8. EnabledIsArmed' /\ OneShotOnceUnlessRevived'
    BY <2>1 DEF IInv, EnabledIsArmed, OneShotOnceUnlessRevived
  <2>9. QED
    BY <2>3, <2>5, <2>6, <2>7, <2>8 DEF IInv
<1>3. CASE LoadMask
  <2>1. /\ pc' = pc /\ op' = op /\ loaded' = "yes"
        /\ acc' \in {vtmr_int_flag, vtmr_int_enabled}
        /\ vtmr_period_limit' = vtmr_period_limit /\ vtmr_counters' = vtmr_counters
        /\ vtmr_int_periodic_flag' = vtmr_int_periodic_flag
        /\ vtmr_int_enabled' = vtmr_int_enabled /\ vtmr_int_flag' = vtmr_int_flag
        /\ vtmr_reset_idx' = vtmr_reset_idx /\ shots' = shots /\ revived' = revived
    BY <1>3 DEF LoadMask, shared, masks
  <2>2. TypeOK'
    BY <2>1, <1>t DEF TypeOK
  <2>3. CallMatchesStep' /\ RequestAwaited' /\ CyclicHasLimit' /\ CyclicBelowLimit'
    BY <2>1 DEF IInv, CallMatchesStep, RequestAwaited, CyclicHasLimit, CyclicBelowLimit,
                Rearming
  <2>4. EnabledIsArmed' /\ OneShotOnceUnlessRevived'
    BY <2>1 DEF IInv, EnabledIsArmed, OneShotOnceUnlessRevived
  <2>5. QED
    BY <2>2, <2>3, <2>4 DEF IInv
<1>4. CASE StoreFlag
  <2>1. /\ pc = "flag" /\ pc' = IF op.call = "match" THEN "reset" ELSE "idle"
        /\ vtmr_int_flag' = acc \ {op.id}
        /\ vtmr_period_limit' = vtmr_period_limit /\ vtmr_counters' = vtmr_counters
        /\ vtmr_int_periodic_flag' = vtmr_int_periodic_flag
        /\ vtmr_int_enabled' = vtmr_int_enabled
        /\ vtmr_reset_idx' = vtmr_reset_idx /\ shots' = shots /\ revived' = revived
    BY <1>4 DEF StoreFlag, Advance, After
  <2>a. /\ pc' \in PCs
        /\ op' \in [call : Calls, id : Timers, ticks : 0 .. CountMod - 1, type : Types]
        /\ pc' # "idle" => op' = op
        /\ acc' = {} /\ loaded' = "no"
    BY <1>t, <1>4, AdvanceType DEF StoreFlag
  <2>2. TypeOK'
    BY <2>1, <2>a, <1>t, <1>o DEF TypeOK
  <2>3. CallMatchesStep' /\ RequestAwaited'
    BY <2>1, <2>a, <1>q DEF IInv, CallMatchesStep, RequestAwaited
  <2>4. CyclicHasLimit' /\ CyclicBelowLimit'
    BY <2>1, <2>a DEF IInv, CyclicHasLimit, CyclicBelowLimit, Rearming
  <2>5. EnabledIsArmed' /\ OneShotOnceUnlessRevived'
    BY <2>1 DEF IInv, EnabledIsArmed, OneShotOnceUnlessRevived
  <2>6. QED
    BY <2>2, <2>3, <2>4, <2>5 DEF IInv
<1>5. CASE StoreEnabled
  <2> DEFINE on == op.call \in {"match", "enable"}
  <2>1. /\ pc = "enabled" /\ pc' = IF op.call = "off" THEN "flag" ELSE "idle"
        /\ vtmr_int_enabled' = IF on THEN acc \cup {op.id} ELSE acc \ {op.id}
        /\ shots' = [shots EXCEPT ![op.id] = IF on THEN "armed" ELSE "none"]
        /\ revived' = (revived \cup (acc \ vtmr_int_enabled)) \ {op.id}
        /\ vtmr_period_limit' = vtmr_period_limit /\ vtmr_counters' = vtmr_counters
        /\ vtmr_int_periodic_flag' = vtmr_int_periodic_flag
        /\ vtmr_int_flag' = vtmr_int_flag /\ vtmr_reset_idx' = vtmr_reset_idx
    BY <1>5 DEF StoreEnabled, Advance, After
  <2>a. /\ pc' \in PCs
        /\ op' \in [call : Calls, id : Timers, ticks : 0 .. CountMod - 1, type : Types]
        /\ pc' # "idle" => op' = op
        /\ acc' = {} /\ loaded' = "no"
    BY <1>t, <1>5, AdvanceType DEF StoreEnabled
  <2>b. /\ shots'[op.id] = IF on THEN "armed" ELSE "none"
        /\ \A i \in Timers \ {op.id} : shots'[i] = shots[i]
    BY <2>1, <1>t, <1>o DEF TypeOK
  <2>2. TypeOK'
    <3>1. shots' \in [Timers -> {"none", "armed", "fired", "again"}]
      BY <2>1, <1>t DEF TypeOK
    <3>2. vtmr_int_enabled' \subseteq Timers /\ revived' \subseteq Timers
      BY <2>1, <1>t, <1>o DEF TypeOK
    <3>3. QED
      BY <2>1, <2>a, <3>1, <3>2, <1>t DEF TypeOK
  <2>3. CallMatchesStep' /\ RequestAwaited'
    BY <2>1, <2>a, <1>q DEF IInv, CallMatchesStep, RequestAwaited
  <2>4. CyclicHasLimit' /\ CyclicBelowLimit'
    BY <2>1, <2>a DEF IInv, CyclicHasLimit, CyclicBelowLimit, Rearming
  <2>5. EnabledIsArmed'
    <3> SUFFICES ASSUME NEW i \in vtmr_int_enabled'
                 PROVE  shots'[i] = "armed" \/ i \in revived'
      BY DEF EnabledIsArmed
    <3>1. CASE i = op.id
      BY <3>1, <2>1, <2>b
    <3>2. CASE i # op.id
      <4>1. i \in acc /\ i \in Timers /\ shots'[i] = shots[i]
        BY <3>2, <2>1, <2>b, <1>o
      <4>2. CASE i \in vtmr_int_enabled
        BY <3>2, <4>1, <4>2, <2>1 DEF IInv, EnabledIsArmed
      <4>3. CASE i \notin vtmr_int_enabled
        BY <3>2, <4>1, <4>3, <2>1
      <4>4. QED
        BY <4>2, <4>3
    <3>3. QED
      BY <3>1, <3>2
  <2>6. OneShotOnceUnlessRevived'
    <3> SUFFICES ASSUME NEW i \in Timers, shots'[i] = "again"
                 PROVE  i \in revived'
      BY DEF OneShotOnceUnlessRevived
    <3>1. i # op.id
      BY <2>b
    <3>2. QED
      BY <3>1, <2>1, <2>b DEF IInv, OneShotOnceUnlessRevived
  <2>7. QED
    BY <2>2, <2>3, <2>4, <2>5, <2>6 DEF IInv
<1>6. CASE AskReset
  <2>1. /\ pc = "reset" /\ pc' = "await" /\ op' = op
        /\ vtmr_reset_idx' = op.id
        /\ vtmr_period_limit' = vtmr_period_limit /\ vtmr_counters' = vtmr_counters
        /\ vtmr_int_periodic_flag' = vtmr_int_periodic_flag
        /\ vtmr_int_enabled' = vtmr_int_enabled /\ vtmr_int_flag' = vtmr_int_flag
        /\ shots' = shots /\ revived' = revived
        /\ acc' = {} /\ loaded' = "no"
    BY <1>6 DEF AskReset, Advance, After, masks
  <2>2. TypeOK'
    BY <2>1, <1>t, <1>o DEF TypeOK, PCs
  <2>3. op.id # NoReset
    BY <1>o, VTimerAssumption DEF Timers, NoReset
  <2>4. CallMatchesStep' /\ RequestAwaited'
    BY <2>1, <2>3 DEF IInv, CallMatchesStep, RequestAwaited
  <2>5. CyclicHasLimit' /\ CyclicBelowLimit'
    BY <2>1 DEF IInv, CyclicHasLimit, CyclicBelowLimit, Rearming
  <2>6. EnabledIsArmed' /\ OneShotOnceUnlessRevived'
    BY <2>1 DEF IInv, EnabledIsArmed, OneShotOnceUnlessRevived
  <2>7. QED
    BY <2>2, <2>4, <2>5, <2>6 DEF IInv
<1>7. CASE AwaitReset \/ AwaitCount
  <2>1. /\ \/ /\ pc = "await" /\ vtmr_reset_idx = NoReset
              /\ pc' = IF op.call = "match" THEN "enabled"
                       ELSE IF op.call = "delay" THEN "count" ELSE "idle"
           \/ pc = "count" /\ pc' = "idle"
        /\ vtmr_period_limit' = vtmr_period_limit /\ vtmr_counters' = vtmr_counters
        /\ vtmr_int_periodic_flag' = vtmr_int_periodic_flag
        /\ vtmr_int_enabled' = vtmr_int_enabled /\ vtmr_int_flag' = vtmr_int_flag
        /\ vtmr_reset_idx' = vtmr_reset_idx /\ shots' = shots /\ revived' = revived
    BY <1>7 DEF AwaitReset, AwaitCount, Advance, After, shared, masks
  <2>a. /\ pc' \in PCs
        /\ op' \in [call : Calls, id : Timers, ticks : 0 .. CountMod - 1, type : Types]
        /\ pc' # "idle" => op' = op
        /\ acc' = {} /\ loaded' = "no"
    BY <1>t, <1>7, AdvanceType DEF AwaitReset, AwaitCount
  <2>2. TypeOK'
    BY <2>1, <2>a, <1>t DEF TypeOK
  <2>3. CallMatchesStep' /\ RequestAwaited'
    BY <2>1, <2>a, <1>q DEF IInv, CallMatchesStep, RequestAwaited
  <2>4. CyclicHasLimit'
    BY <2>1 DEF IInv, CyclicHasLimit
  <2>5. \A i \in vtmr_int_periodic_flag : vtmr_counters[i] < vtmr_period_limit[i]
    BY <2>1 DEF IInv, CyclicBelowLimit, RequestAwaited, Rearming
  <2>6. CyclicBelowLimit'
    BY <2>1, <2>5 DEF CyclicBelowLimit
  <2>7. EnabledIsArmed' /\ OneShotOnceUnlessRevived'
    BY <2>1 DEF IInv, EnabledIsArmed, OneShotOnceUnlessRevived
  <2>8. QED
    BY <2>2, <2>3, <2>4, <2>6, <2>7 DEF IInv
<1>8. QED
  BY <1>1, <1>2, <1>3, <1>4, <1>5, <1>6, <1>7 DEF Step

(* The inductive invariant holds in every reachable state. *)
THEOREM Invariance == Spec => []IInv
<1>1. Init => IInv
  BY InitIInv
<1>2. IInv /\ [Next]_vars => IInv'
  <2> SUFFICES ASSUME IInv, [Next]_vars PROVE IInv'
    OBVIOUS
  <2>1. CASE cmn_virtual_timer_cb
    BY <2>1, TickIInv
  <2>2. CASE Call
    BY <2>2, CallIInv
  <2>3. CASE Step \/ AwaitCount
    BY <2>3, StepIInv
  <2>4. CASE UNCHANGED vars
    BY <2>4 DEF vars, shared, masks, main, IInv, TypeOK, CallMatchesStep, RequestAwaited,
                CyclicHasLimit, CyclicBelowLimit, Rearming, EnabledIsArmed,
                OneShotOnceUnlessRevived
  <2>5. QED
    BY <2>1, <2>2, <2>3, <2>4 DEF Next
<1>3. QED
  BY <1>1, <1>2, PTL DEF Spec

(* The state of the virtual timers keeps its type: counters and limits stay *)
(* within their width, and the reset request names a timer.                 *)
THEOREM TypeCorrect == Spec => []TypeOK
<1>1. IInv => TypeOK
  BY DEF IInv
<1>2. QED
  BY <1>1, Invariance, PTL

(* A cyclic timer that is set up stays below its limit, wherever the        *)
(* interrupt meets vtmr_set_match_int and the calls on other timers.        *)
THEOREM CyclicStaysBelow == Spec => []CyclicBelowLimit
<1>1. IInv => CyclicBelowLimit
  BY DEF IInv
<1>2. QED
  BY <1>1, Invariance, PTL

(* A one-shot timer fires again without being enabled again only if the     *)
(* store of a mask has brought its bit back: no other interleaving of       *)
(* cmn_virtual_timer_cb with the calls does it.                             *)
THEOREM OnlyTornUpdatesRepeat == Spec => []OneShotOnceUnlessRevived
<1>1. IInv => OneShotOnceUnlessRevived
  BY DEF IInv
<1>2. QED
  BY <1>1, Invariance, PTL

(* vtmr_delay on a timer that is cyclic with a period not longer than the   *)
(* delay never leaves its loop.                                             *)
THEOREM DelayOnCyclicHangs == Spec => HangsForever
<1>1. IInv /\ [Next]_vars => [Hangs /\ pc = "count" => Hangs' /\ pc' = "count"]_vars
  <2> SUFFICES ASSUME IInv, Next, Hangs, pc = "count"
               PROVE  Hangs' /\ pc' = "count"
    OBVIOUS
  <2>1. CASE cmn_virtual_timer_cb
    BY <2>1 DEF cmn_virtual_timer_cb, main, Hangs
  <2>2. CASE Call
    BY <2>2 DEF Call, vtmr_set_match_int, vtmr_int_set_status, vtmr_int_get_flag,
                TimerStart, vtmr_delay, Start
  <2>3. CASE Step
    BY <2>3 DEF Step, StoreLimit, LoadMask, StorePeriodic, StoreFlag, StoreEnabled,
                AskReset, AwaitReset
  <2>4. CASE AwaitCount
    <3>1. op.id \in Timers /\ op.ticks \in Int /\ vtmr_counters[op.id] \in Int
            /\ vtmr_period_limit[op.id] \in Int
      BY VTimerAssumption DEF IInv, TypeOK
    <3>2. vtmr_counters[op.id] < vtmr_period_limit[op.id]
      BY DEF IInv, CyclicBelowLimit, Rearming, Hangs
    <3>3. vtmr_period_limit[op.id] <= op.ticks
      BY DEF Hangs
    <3>4. vtmr_counters[op.id] >= op.ticks
      BY <2>4 DEF AwaitCount
    <3>5. QED
      BY <3>1, <3>2, <3>3, <3>4
  <2>5. QED
    BY <2>1, <2>2, <2>3, <2>4 DEF Next
<1>2. QED
  BY <1>1, Invariance, PTL DEF Spec, HangsForever
=============================================================================
