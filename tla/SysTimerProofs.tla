---------------------------- MODULE SysTimerProofs --------------------------
(***************************************************************************)
(* Proofs about SysTimer for every tick rate, interrupt period, range of   *)
(* the timer and width of the counter's halves.                            *)
(***************************************************************************)
EXTENDS SysTimer, TLAPS

Loading  == {"sys", "check"}
Measured == {"cnt", "sys", "check", "again", "sum"}
Summed   == {"zero", "enable", "diff"}
Slips    == {"late", "wrap", "start", "slow"}

(* The values of the variables. *)
TypeOK ==
  /\ raw \in 0 .. PeriodTicks - 1 /\ tempcnt \in 0 .. PeriodTicks - 1
  /\ pending \in {"yes", "no"} /\ enabled \in {"yes", "no"}
  /\ cmn_systimer_counter \in Nat /\ tempsys \in Nat /\ crtsys \in Nat /\ lo \in Nat
  /\ pc \in {"idle"} \cup Measured \cup Summed
  /\ half \in {NoHalf} \cup [part : {"low", "high"}, value : Nat]
  /\ delay \in Nat /\ tstart \in {NoTime} \cup (0 .. SysMax)
  /\ waited \in 0 .. WaitCap
  /\ slips \in SUBSET Slips

(* The interrupt is enabled but during the restart of the timer, and a half *)
(* of the counter is kept only during a load.                               *)
Control ==
  /\ IF pc \in {"zero", "enable"} THEN enabled = "no" /\ pending = "no" ELSE enabled = "yes"
  /\ pc \notin Loading => half = NoHalf
  /\ pc \in Summed => crtsys <= SysMax
  /\ "wrap" \in slips => tstart # NoTime
  /\ pc \in {"zero", "enable"} => slips \cap {"start", "wrap"} # {}

(* How long the current reading has taken. *)
InTime ==
  pc \in Measured => lo <= Now /\ ("slow" \notin slips => Now <= lo + Word - Period)

(* The counter was x when the current load began, or is x if none has. *)
LoadBegan(x) ==
  /\ lo < x + Period
  /\ half = NoHalf => x = cmn_systimer_counter
  /\ half.part = "low"  => half.value = x % Word
  /\ half.part = "high" => half.value = x \div Word

(* What a load v of the counter can have given, when the counter is x: a    *)
(* value the counter had, or one torn at a carry, with the old low half or  *)
(* with the old high half.                                                  *)
Past(v, x)     == v <= x /\ lo < v + Period
TornUp(v, x)   == lo + Word < v + Period /\ v \div Word <= x \div Word
TornDown(v, x) == v \div Word < x \div Word
AnyLoad(v, x)  == Past(v, x) \/ TornUp(v, x) \/ TornDown(v, x)

(* How far a sum of the loaded counter and the hardware count may be ahead. *)
Ahead == IF "late" \in slips THEN Period ELSE 0
InReading(v) == lo <= v /\ v <= Now + Ahead

AtSys == pc = "sys" =>
  \E x \in 0 .. cmn_systimer_counter :
    /\ LoadBegan(x)
    /\ lo <= x + tempcnt \div TicksForUs
    /\ "late" \notin slips => x = cmn_systimer_counter /\ (pending = "no" => tempcnt <= raw)

AtCheck == pc = "check" =>
  \E x \in 0 .. cmn_systimer_counter :
    /\ LoadBegan(x)
    /\ \/ /\ Past(tempsys, x)
          /\ tempsys = x => InReading(tempsys + tempcnt \div TicksForUs)
       \/ TornUp(tempsys, x)
       \/ TornDown(tempsys, x)

AtAgain == pc = "again" => AnyLoad(crtsys, cmn_systimer_counter)

AtSum == pc = "sum" /\ "slow" \notin slips => InReading(crtsys + tempcnt \div TicksForUs)

AtDiff == Complete => InReading(crtsys)

ReadingInv == InTime /\ AtSys /\ AtCheck /\ AtAgain /\ AtSum /\ AtDiff

(* The time since the last restart, in hardware ticks. *)
Ticks == (cmn_systimer_counter + (IF pending = "yes" THEN Period ELSE 0)) * TicksForUs + raw

(* At least n ticks and one more have been waited (or as many as are counted). *)
WaitedOver(n) == waited = WaitCap \/ waited > n

(* What the delay has waited, by the time its start was read, ... *)
SinceStart ==
  /\ pc # "idle" /\ slips = {} /\ tstart = NoTime => WaitedOver(Ticks - (lo + 1) * TicksForUs)
  /\ pc # "idle" /\ slips = {} /\ tstart # NoTime =>
       tstart <= lo /\ WaitedOver(Ticks - (tstart + 1) * TicksForUs)

(* ... after an overflow, ... *)
SinceWrap ==
  pc # "idle" /\ slips = {"wrap"} =>
    WaitedOver((IF pc = "zero" THEN raw ELSE Ticks)
                 + (SysMax + 1 - Period - tstart) * TicksForUs)

(* ... and when a reading is complete. *)
WaitedEnough ==
  pc \in Summed /\ tstart # NoTime =>
    /\ slips = {} => waited > (Elapsed(crtsys) - 1) * TicksForUs
    /\ slips = {"wrap"} => waited > (Elapsed(crtsys) - Shortfall) * TicksForUs

IInv == TypeOK /\ Control /\ ReadingInv /\ SinceStart /\ SinceWrap /\ WaitedEnough

-----------------------------------------------------------------------------
(* Multiples of a positive number. *)
LEMMA Multiples ==
  ASSUME NEW a \in Int, NEW b \in Int, NEW k \in Nat \ {0}
  PROVE  /\ a * k \in Int
         /\ a <= b => a * k <= b * k
         /\ a < b => a * k + k <= b * k
<1>1. a <= b => 0 <= (b - a) * k
  OBVIOUS
<1>2. a < b => 0 <= (b - a - 1) * k
  OBVIOUS
<1>3. QED
  BY <1>1, <1>2

(* Quotient and remainder. *)
LEMMA Division ==
  ASSUME NEW n \in Nat, NEW k \in Nat \ {0}
  PROVE  /\ n \div k \in Nat /\ n % k \in 0 .. k - 1
         /\ n = (n \div k) * k + (n % k)
OBVIOUS

(* The quotient is the only multiple within reach. *)
LEMMA Quotient ==
  ASSUME NEW q \in Nat, NEW k \in Nat \ {0}, NEW r \in 0 .. k - 1
  PROVE  (q * k + r) \div k = q /\ (q * k + r) % k = r /\ q * k + r \in Nat
OBVIOUS

(* Division keeps the order. *)
LEMMA DivOrder ==
  ASSUME NEW m \in Nat, NEW n \in Nat, NEW k \in Nat \ {0}, m <= n
  PROVE  m \div k <= n \div k
<1>1. SUFFICES ASSUME n \div k < m \div k PROVE FALSE
  BY Division
<1> DEFINE p == m \div k
           q == n \div k
<1>2. p \in Nat /\ q \in Nat /\ p * k <= m /\ n < q * k + k
  BY Division
<1>3. q * k + k <= p * k
  <2> HIDE DEF p, q
  <2>1. q < p
    BY <1>1 DEF p, q
  <2>2. QED
    BY <1>2, <2>1, Multiples
<1> HIDE DEF p, q
<1>4. QED
  BY <1>2, <1>3, Multiples

(* The hardware count is less than a period, in microseconds too, and       *)
(* advances by steps of at most one.                                        *)
LEMMA HardwareCount ==
  ASSUME NEW n \in 0 .. PeriodTicks - 1
  PROVE  /\ n \in Nat /\ n \div TicksForUs \in 0 .. Period - 1
         /\ (n + 1) \div TicksForUs \in {n \div TicksForUs, n \div TicksForUs + 1}
         /\ n + 1 = PeriodTicks => n \div TicksForUs = Period - 1
<1> DEFINE T == TicksForUs
           q == n \div T
<1>1. T \in Nat \ {0} /\ Period \in Nat \ {0} /\ PeriodTicks = Period * T
  BY SysTimerAssumption DEF PeriodTicks
<1>2. PeriodTicks \in Nat /\ n \in Nat
  BY <1>1, Multiples
<1>3. q \in Nat /\ q * T <= n /\ n < q * T + T /\ q * T \in Int
  BY <1>1, <1>2, Division, Multiples
<1>4. (n + 1) \div T \in {q, q + 1}
  <2>1. CASE n + 1 < q * T + T
    <3>1. n + 1 - q * T \in 0 .. T - 1 /\ n + 1 = q * T + (n + 1 - q * T)
      BY <1>1, <1>2, <1>3, <2>1
    <3> HIDE DEF q
    <3>2. (q * T + (n + 1 - q * T)) \div T = q
      BY <1>1, <1>3, <3>1, Quotient
    <3>3. QED
      BY <3>1, <3>2
  <2>2. CASE n + 1 = q * T + T
    <3> HIDE DEF q
    <3>1. n + 1 = (q + 1) * T + 0 /\ q + 1 \in Nat /\ 0 \in 0 .. T - 1
      BY <1>1, <1>2, <1>3, <2>2
    <3>2. ((q + 1) * T + 0) \div T = q + 1
      BY <1>1, <3>1, Quotient
    <3>3. QED
      BY <3>1, <3>2
  <2>3. QED
    BY <1>1, <1>2, <1>3, <2>1, <2>2
<1> HIDE DEF q
<1>5. q < Period
  <2>1. SUFFICES ASSUME Period <= q PROVE FALSE
    BY <1>1, <1>3
  <2>2. Period * T <= q * T
    BY <1>1, <1>3, <2>1, Multiples
  <2>3. QED
    BY <1>1, <1>2, <1>3, <2>2
<1>6. ASSUME n + 1 = PeriodTicks PROVE q = Period - 1
  <2>1. SUFFICES ASSUME q + 1 < Period PROVE FALSE
    BY <1>1, <1>3, <1>5
  <2>2. (q + 1) * T + T <= Period * T /\ (q + 1) * T = q * T + T
    BY <1>1, <1>3, <2>1, Multiples
  <2>3. QED
    BY <1>1, <1>2, <1>3, <1>6, <2>2
<1>7. q \in 0 .. Period - 1
  BY <1>1, <1>3, <1>5
<1>8. QED
  BY <1>2, <1>4, <1>6, <1>7 DEF q

(* The time in microseconds and in ticks. *)
LEMMA NowFacts ==
  ASSUME TypeOK
  PROVE  /\ Now \in Nat /\ Ticks \in Nat
         /\ cmn_systimer_counter <= Now
         /\ pending = "no" => Now = cmn_systimer_counter + raw \div TicksForUs
         /\ pending = "no" => Now < cmn_systimer_counter + Period
         /\ Now * TicksForUs <= Ticks /\ Ticks < Now * TicksForUs + TicksForUs
<1> DEFINE T == TicksForUs
           c == cmn_systimer_counter + (IF pending = "yes" THEN Period ELSE 0)
           q == raw \div T
<1>1. /\ T \in Nat \ {0} /\ Period \in Nat \ {0} /\ cmn_systimer_counter \in Nat
      /\ raw \in 0 .. PeriodTicks - 1
  BY SysTimerAssumption DEF TypeOK
<1>2. /\ c \in Nat /\ cmn_systimer_counter <= c
      /\ pending = "no" => c = cmn_systimer_counter
  BY <1>1
<1>3. q \in 0 .. Period - 1 /\ raw \in Nat
  BY <1>1, HardwareCount
<1>4. q * T <= raw /\ raw < q * T + T /\ q * T \in Nat
  BY <1>1, <1>3, Division, Multiples
<1>5. Now = c + q /\ Ticks = c * T + raw
  BY DEF Now, Ticks
<1> HIDE DEF c, q
<1>6. c * T \in Nat /\ (c + q) * T = c * T + q * T
  BY <1>1, <1>2, <1>3
<1>7. c * T + raw \in Nat /\ (c + q) * T <= c * T + raw /\ c * T + raw < (c + q) * T + T
  BY <1>3, <1>4, <1>6, <1>1
<1>8. QED
  BY <1>1, <1>2, <1>3, <1>5, <1>7 DEF q

(* What the two halves of the counter make together, if it was x when the   *)
(* first was loaded: a value it had unless its high half has changed.       *)
LEMMA LoadedParts ==
  ASSUME TypeOK, NEW x \in 0 .. cmn_systimer_counter, LoadBegan(x), half # NoHalf
  PROVE  /\ Loaded \in Nat
         /\ \/ /\ x \div Word = cmn_systimer_counter \div Word
               /\ Loaded = x \/ Loaded = cmn_systimer_counter
            \/ /\ x \div Word < cmn_systimer_counter \div Word
               /\ Loaded \div Word = cmn_systimer_counter \div Word /\ x + Word <= Loaded
            \/ /\ x \div Word < cmn_systimer_counter \div Word
               /\ Loaded \div Word = x \div Word /\ Loaded + Word <= cmn_systimer_counter + (Word - 1)
               /\ Loaded % Word = cmn_systimer_counter % Word
<1> DEFINE c == cmn_systimer_counter
           W == Word
           hx == x \div W
           hc == c \div W
           lx == x % W
           lc == c % W
<1>1. W \in Nat \ {0} /\ c \in Nat /\ x \in Nat /\ x <= c
  BY SysTimerAssumption DEF TypeOK
<1>2. /\ hx \in Nat /\ lx \in 0 .. W - 1 /\ x = hx * W + lx
      /\ hc \in Nat /\ lc \in 0 .. W - 1 /\ c = hc * W + lc
      /\ hx <= hc
  BY <1>1, Division, DivOrder
<1>3. \/ half.part = "low" /\ half.value = lx /\ Loaded = hc * W + lx
      \/ half.part = "high" /\ half.value = hx /\ Loaded = hx * W + lc
  BY DEF TypeOK, LoadBegan, Loaded
<1> HIDE DEF hx, hc, lx, lc, c, W
<1>4. CASE hx = hc
  BY <1>1, <1>2, <1>3, <1>4 DEF hx, hc, c, W
<1>5. CASE hx < hc /\ Loaded = hc * W + lx
  <2>1. Loaded \in Nat /\ Loaded \div W = hc
    BY <1>1, <1>2, <1>5, Quotient
  <2>2. hx * W + W <= hc * W /\ hx * W \in Int /\ hc * W \in Int
    BY <1>1, <1>2, <1>5, Multiples
  <2>3. x + W <= Loaded
    BY <1>1, <1>2, <1>5, <2>2
  <2>4. QED
    BY <1>5, <2>1, <2>3 DEF hx, hc, c, W
<1>6. CASE hx < hc /\ Loaded = hx * W + lc
  <2>1. Loaded \in Nat /\ Loaded \div W = hx /\ Loaded % W = lc
    BY <1>1, <1>2, <1>6, Quotient
  <2>2. hx * W + W <= hc * W /\ hx * W \in Int /\ hc * W \in Int
    BY <1>1, <1>2, <1>6, Multiples
  <2>3. Loaded + W <= c + (W - 1)
    BY <1>1, <1>2, <1>6, <2>1, <2>2
  <2>4. QED
    BY <1>6, <2>1, <2>3 DEF hx, hc, lc, c, W
<1>7. QED
  BY <1>1, <1>2, <1>3, <1>4, <1>5, <1>6

(* Every load is one of the kinds of AnyLoad. *)
LEMMA LoadedKinds ==
  ASSUME TypeOK, NEW x \in 0 .. cmn_systimer_counter, LoadBegan(x), half # NoHalf
  PROVE  /\ Loaded \in Nat
         /\ \/ Past(Loaded, cmn_systimer_counter) /\ x <= Loaded
            \/ TornUp(Loaded, cmn_systimer_counter)
            \/ TornDown(Loaded, cmn_systimer_counter)
<1>1. /\ cmn_systimer_counter \in Nat /\ x \in Nat /\ x <= cmn_systimer_counter
      /\ lo \in Nat /\ Word \in Nat /\ Period \in Nat /\ lo < x + Period
  BY SysTimerAssumption DEF TypeOK, LoadBegan
<1>2. cmn_systimer_counter \div Word \in Nat
  BY <1>1, SysTimerAssumption, Division
<1>3. QED
  BY <1>1, <1>2, LoadedParts DEF Past, TornUp, TornDown

(* In a reading that is not slow, two loads that agree are both the counter *)
(* as it was when the second began: a torn value is not loaded twice.       *)
LEMMA LoadsAgree ==
  ASSUME TypeOK, NEW x \in 0 .. cmn_systimer_counter, LoadBegan(x), half # NoHalf,
         Now <= lo + Word - Period, AnyLoad(tempsys, x), Loaded = tempsys
  PROVE  Past(tempsys, x) /\ tempsys = x /\ ~TornUp(tempsys, x) /\ ~TornDown(tempsys, x)
<1> DEFINE c == cmn_systimer_counter
           W == Word
<1>1. /\ W \in Nat \ {0} /\ Period \in Nat /\ c \in Nat /\ x \in Nat /\ x <= c
      /\ lo \in Nat /\ tempsys \in Nat /\ lo < x + Period
  BY SysTimerAssumption DEF TypeOK, LoadBegan
<1>2. c <= lo + W - Period
  BY <1>1, NowFacts
<1>3. /\ x \div W \in Nat /\ c \div W \in Nat /\ tempsys \div W \in Nat
      /\ x \div W <= c \div W
  BY <1>1, Division, DivOrder
<1>4. CASE x \div W = c \div W /\ (tempsys = x \/ tempsys = c)
  <2>1. ~TornUp(tempsys, x)
    BY <1>1, <1>2, <1>4 DEF TornUp
  <2>2. ~TornDown(tempsys, x)
    BY <1>1, <1>3, <1>4 DEF TornDown
  <2>3. Past(tempsys, x)
    BY <2>1, <2>2 DEF AnyLoad
  <2>4. QED
    BY <1>1, <1>4, <2>1, <2>2, <2>3 DEF Past
<1>5. CASE x \div W < c \div W /\ tempsys \div W = c \div W /\ x + W <= tempsys
  <2>1. ~Past(tempsys, x)
    BY <1>1, <1>5 DEF Past
  <2>2. ~TornUp(tempsys, x) /\ ~TornDown(tempsys, x)
    BY <1>3, <1>5 DEF TornUp, TornDown
  <2>3. QED
    BY <2>1, <2>2 DEF AnyLoad
<1>6. CASE /\ x \div W < c \div W
           /\ tempsys \div W = x \div W /\ tempsys + W <= c + (W - 1)
           /\ tempsys % W = c % W
  <2>1. ~TornUp(tempsys, x)
    BY <1>1, <1>2, <1>6 DEF TornUp
  <2>2. ~TornDown(tempsys, x)
    BY <1>3, <1>6 DEF TornDown
  <2>3. tempsys + W <= c
    <3> DEFINE ht == tempsys \div W
               hc == c \div W
               r == c % W
    <3>1. tempsys = ht * W + r /\ c = hc * W + r /\ r \in Int
      BY <1>1, <1>6, Division
    <3>2. ht < hc /\ ht \in Nat /\ hc \in Nat
      BY <1>3, <1>6
    <3> HIDE DEF ht, hc, r
    <3>3. ht * W + W <= hc * W /\ ht * W \in Int /\ hc * W \in Int
      BY <1>1, <3>2, Multiples
    <3>4. QED
      BY <1>1, <3>1, <3>3
  <2>4. ~Past(tempsys, x)
    BY <1>1, <1>2, <2>3 DEF Past
  <2>5. QED
    BY <2>1, <2>2, <2>4 DEF AnyLoad
<1>7. QED
  BY <1>4, <1>5, <1>6, LoadedParts
-----------------------------------------------------------------------------
(* The constants and what is computed from them. *)
LEMMA ConstantFacts ==
  /\ TicksForUs \in Nat \ {0} /\ Period \in Nat \ {0} /\ Word \in Nat \ {0}
  /\ SysMax \in Nat \ {0} /\ PeriodTicks \in Nat \ {0} /\ WaitCap \in Nat
  /\ Period < Word /\ Delays \subseteq Nat
  /\ 0 \in 0 .. PeriodTicks - 1
<1>1. /\ TicksForUs \in Nat \ {0} /\ Period \in Nat \ {0} /\ Word \in Nat \ {0}
      /\ SysMax \in Nat \ {0} /\ Period < Word /\ Delays \subseteq Nat
  BY SysTimerAssumption
<1>2. PeriodTicks \in Nat \ {0} /\ WaitCap \in Nat
  BY <1>1 DEF PeriodTicks, WaitCap
<1>3. QED
  BY <1>1, <1>2

(* A load gives a natural number. *)
LEMMA LoadedNat ==
  ASSUME TypeOK, half # NoHalf
  PROVE  Loaded \in Nat
<1> DEFINE hc == cmn_systimer_counter \div Word
           lc == cmn_systimer_counter % Word
<1>1. Word \in Nat \ {0} /\ hc \in Nat /\ lc \in Nat /\ half.value \in Nat
  BY ConstantFacts, Division DEF TypeOK
<1>2. Loaded = hc * Word + half.value \/ Loaded = half.value * Word + lc
  BY DEF Loaded
<1> HIDE DEF hc, lc
<1>3. QED
  BY <1>1, <1>2

(* Types and control are kept. *)
LEMMA TypeStep ==
  ASSUME TypeOK, Control, [Next]_vars
  PROVE  TypeOK' /\ Control'
<1> USE ConstantFacts
<1> DEFINE Pcs == {"idle"} \cup Measured \cup Summed
           HalfType == {NoHalf} \cup [part : {"low", "high"}, value : Nat]
<1>1. /\ raw \in 0 .. PeriodTicks - 1 /\ tempcnt \in 0 .. PeriodTicks - 1
      /\ cmn_systimer_counter \in Nat /\ tempsys \in Nat /\ crtsys \in Nat /\ lo \in Nat
      /\ waited \in 0 .. WaitCap /\ Now \in Nat
  BY NowFacts DEF TypeOK
<1>2. CASE Tick
  <2>1. waited' \in 0 .. WaitCap
    BY <1>1, <1>2 DEF Tick, Waited
  <2>2. raw' \in 0 .. PeriodTicks - 1 /\ pending' \in {"yes", "no"}
    BY <1>1, <1>2 DEF Tick, TypeOK
  <2>3. slips' \in SUBSET Slips /\ ("wrap" \in slips' <=> "wrap" \in slips)
        /\ slips \subseteq slips'
    BY <1>2 DEF Tick, TypeOK, Slips
  <2>4. enabled = "no" => pending' = "no"
    BY <1>2 DEF Tick
  <2>5. TypeOK'
    BY <1>2, <2>1, <2>2, <2>3 DEF Tick, TypeOK, readvars
  <2>6. QED
    BY <1>2, <2>3, <2>4, <2>5 DEF Tick, TypeOK, Control, readvars
<1>3. CASE cmn_systimer_periodic
  BY <1>1, <1>3 DEF cmn_systimer_periodic, TypeOK, Control, readvars, Slips, Summed
<1>4. CASE \E d \in Delays : platform_timer_delay(d)
  BY <1>1, <1>4 DEF platform_timer_delay, TypeOK, Control, hwvars, readvars, Measured, Summed,
                    Loading, NoTime, Slips
<1>5. CASE ReadCnt
  BY <1>1, <1>5 DEF ReadCnt, TypeOK, Control, hwvars, readvars, Measured, Summed, Loading, Slips
<1>6. CASE LoadHalf
  <2>1. half' \in HalfType
    BY <1>1, <1>6, Division DEF LoadHalf
  <2>2. QED
    BY <1>6, <2>1 DEF LoadHalf, TypeOK, Control, hwvars, Measured, Summed, Loading, Slips
<1>7. CASE ReadSys
  BY <1>7, LoadedNat DEF ReadSys, TypeOK, Control, hwvars, Measured, Summed, Loading, Slips
<1>8. CASE CheckSys
  BY <1>8, LoadedNat DEF CheckSys, TypeOK, Control, hwvars, Measured, Summed, Loading, Slips
<1>9. CASE Sum
  <2> DEFINE t == crtsys + tempcnt \div TicksForUs
  <2>1. t \in Nat
    BY <1>1, HardwareCount
  <2>2. Overflowed(t) \in 0 .. SysMax - 1
    BY <2>1, Division DEF Overflowed
  <2>3. /\ crtsys' = IF t > SysMax THEN Overflowed(t) ELSE t
        /\ pc' = IF t > SysMax THEN "zero" ELSE "diff"
        /\ slips' = IF t > SysMax THEN slips \cup {Wrap} ELSE slips
        /\ enabled' = IF t > SysMax THEN "no" ELSE enabled
    BY <1>9 DEF Sum
  <2> HIDE DEF t
  <2>4. crtsys' \in Nat /\ crtsys' <= SysMax
    BY <2>1, <2>2, <2>3
  <2>5. Wrap \in {"wrap", "start"} /\ (Wrap = "wrap" => tstart # NoTime)
    BY DEF Wrap
  <2>6. slips' \in SUBSET Slips /\ ("wrap" \in slips' => tstart # NoTime)
    BY <2>3, <2>5 DEF TypeOK, Control, Slips
  <2>7. pc' = "zero" => slips' \cap {"start", "wrap"} # {}
    BY <2>3, <2>5
  <2>8. enabled' \in {"yes", "no"} /\ pc' \in {"zero", "diff"} /\ (pc' = "diff" => enabled' = "yes")
    BY <1>9, <2>3 DEF Sum, TypeOK, Control
  <2>9. QED
    BY <1>9, <2>4, <2>6, <2>7, <2>8 DEF Sum, TypeOK, Control, Measured, Summed, Loading
<1>10. CASE Restart
  BY <1>10 DEF Restart, TypeOK, Control, readvars, Measured, Summed, Loading
<1>11. CASE EnableInt
  BY <1>11 DEF EnableInt, TypeOK, Control, readvars, Measured, Summed, Loading
<1>12. CASE Diff
  <2>1. tstart' \in {NoTime} \cup (0 .. SysMax) /\ (tstart # NoTime => tstart' # NoTime)
    BY <1>1, <1>12 DEF Diff, TypeOK, Control, Summed
  <2>2. pc' \in {"cnt", "idle"}
    BY <1>12 DEF Diff
  <2>3. lo' \in Nat
    BY <1>1, <1>12 DEF Diff
  <2>4. QED
    BY <1>12, <2>1, <2>2, <2>3 DEF Diff, TypeOK, Control, hwvars, readvars, Measured, Summed, Loading
<1>13. CASE UNCHANGED vars
  BY <1>13 DEF vars, hwvars, readvars, TypeOK, Control
<1>14. QED
  BY <1>2, <1>3, <1>4, <1>5, <1>6, <1>7, <1>8, <1>9, <1>10, <1>11, <1>12, <1>13 DEF Next
-----------------------------------------------------------------------------
(* A tick of the hardware counter, while the interrupt is enabled. *)
LEMMA TimeTicks ==
  ASSUME TypeOK, Tick, enabled = "yes"
  PROVE  Now' \in {Now, Now + 1} /\ Ticks' = Ticks + 1
<1> DEFINE c == cmn_systimer_counter
<1>1. /\ raw \in 0 .. PeriodTicks - 1 /\ raw \in Nat /\ c \in Nat
      /\ pending = "no" /\ c' = c
      /\ TicksForUs \in Nat \ {0} /\ Period \in Nat \ {0}
  BY ConstantFacts, HardwareCount DEF TypeOK, Tick
<1>2. Now = c + raw \div TicksForUs /\ Ticks = c * TicksForUs + raw
  BY <1>1 DEF Now, Ticks
<1>3. c * TicksForUs \in Nat /\ (c + Period) * TicksForUs = c * TicksForUs + PeriodTicks
  BY <1>1 DEF PeriodTicks
<1>4. CASE raw + 1 < PeriodTicks
  <2>1. raw' = raw + 1 /\ pending' = "no"
    BY <1>1, <1>4 DEF Tick
  <2>2. Now' = c + (raw + 1) \div TicksForUs /\ Ticks' = c * TicksForUs + (raw + 1)
    BY <1>1, <2>1 DEF Now, Ticks
  <2>3. QED
    BY <1>1, <1>2, <1>3, <2>2, HardwareCount
<1>5. CASE ~(raw + 1 < PeriodTicks)
  <2>1. raw' = 0 /\ pending' = "yes" /\ raw + 1 = PeriodTicks
    BY <1>1, <1>5, ConstantFacts DEF Tick
  <2>2. 0 \div TicksForUs = 0
    BY <1>1
  <2>3. Now' = c + Period /\ Ticks' = (c + Period) * TicksForUs
    BY <1>1, <1>3, <2>1, <2>2, ConstantFacts DEF Now, Ticks
  <2>4. QED
    BY <1>1, <1>2, <1>3, <2>1, <2>3, HardwareCount
<1>6. QED
  BY <1>4, <1>5

(* The interrupt only accounts for what has already passed. *)
LEMMA TimeStands ==
  ASSUME TypeOK, cmn_systimer_periodic
  PROVE  Now' = Now /\ Ticks' = Ticks
<1>1. /\ cmn_systimer_counter \in Nat /\ Period \in Nat
      /\ cmn_systimer_counter' = cmn_systimer_counter + Period
      /\ pending = "yes" /\ pending' = "no" /\ raw' = raw
  BY ConstantFacts DEF TypeOK, cmn_systimer_periodic
<1>2. QED
  BY <1>1 DEF Now, Ticks

-----------------------------------------------------------------------------
(* The reading, while the hardware counter advances. *)
LEMMA ReadingTick ==
  ASSUME TypeOK, Control, ReadingInv, Tick
  PROVE  ReadingInv'
<1>1. /\ UNCHANGED <<cmn_systimer_counter, pc, tempcnt, tempsys, crtsys, half, tstart, lo>>
      /\ slips \subseteq slips' /\ slips' \subseteq slips \cup {"slow"}
  BY DEF Tick, readvars
<1>2. pc \notin {"zero", "enable"} => Now' \in {Now, Now + 1} /\ enabled = "yes"
  BY TimeTicks DEF Control
<1>3. Now \in Nat /\ lo \in Nat /\ raw \in Nat /\ tempcnt \in Nat
      /\ tempcnt \div TicksForUs \in Nat
      /\ cmn_systimer_counter \in Nat /\ tempsys \in Nat /\ crtsys \in Nat
      /\ Period \in Nat /\ Word \in Nat
  BY NowFacts, HardwareCount, ConstantFacts DEF TypeOK
<1>4. Ahead' = Ahead /\ Ahead \in Nat
  BY <1>1, <1>3 DEF Ahead
<1>5. ASSUME NEW v \in Nat, InReading(v), pc \notin {"zero", "enable"}
      PROVE  lo' <= v /\ v <= Now' + Ahead'
  BY <1>1, <1>2, <1>3, <1>4, <1>5 DEF InReading
<1>6. InTime'
  <2>1. SUFFICES ASSUME pc \in Measured
                 PROVE  lo <= Now' /\ ("slow" \notin slips' => Now' <= lo + Word - Period)
    BY <1>1 DEF InTime
  <2>2. pc \notin {"zero", "enable", "idle"}
    BY <2>1 DEF Measured
  <2>3. Now' \in Nat /\ Now <= Now' /\ lo <= Now
    BY <1>2, <1>3, <2>1, <2>2 DEF ReadingInv, InTime
  <2>4. "slow" \notin slips' => ~(Now' - lo > Word - Period)
    BY <2>2 DEF Tick
  <2>5. lo <= Now'
    BY <1>3, <2>3
  <2>6. ASSUME "slow" \notin slips' PROVE Now' <= lo + Word - Period
    <3>1. PICK n \in Nat : n = Now'
      BY <2>3
    <3>2. ~(n - lo > Word - Period)
      BY <2>4, <2>6, <3>1
    <3>3. n - lo \in Int /\ Word - Period \in Int
      BY <1>3
    <3>4. n - lo <= Word - Period
      BY <3>2, <3>3
    <3>5. n <= lo + Word - Period
      BY <1>3, <3>4
    <3>6. QED
      BY <3>1, <3>5
  <2>7. QED
    BY <2>5, <2>6
<1>7. AtSys'
  <2>1. SUFFICES ASSUME pc = "sys" PROVE AtSys'
    BY <1>1 DEF AtSys
  <2>2. PICK x \in 0 .. cmn_systimer_counter :
             /\ LoadBegan(x)
             /\ lo <= x + tempcnt \div TicksForUs
             /\ "late" \notin slips => x = cmn_systimer_counter /\ (pending = "no" => tempcnt <= raw)
    BY <2>1 DEF ReadingInv, AtSys
  <2>3. LoadBegan(x)' /\ x \in 0 .. cmn_systimer_counter' /\ lo' <= x + tempcnt' \div TicksForUs
    BY <1>1, <2>2 DEF LoadBegan
  <2>4. pending = "no" /\ (pending' = "no" => raw' = raw + 1)
    BY <1>2, <2>1 DEF Tick
  <2>5. "late" \notin slips' =>
          x = cmn_systimer_counter' /\ (pending' = "no" => tempcnt' <= raw')
    BY <1>1, <1>3, <2>2, <2>4
  <2>6. QED
    BY <2>3, <2>5 DEF AtSys
<1>8. AtCheck'
  <2>1. SUFFICES ASSUME pc = "check" PROVE AtCheck'
    BY <1>1 DEF AtCheck
  <2>2. PICK x \in 0 .. cmn_systimer_counter :
             /\ LoadBegan(x)
             /\ \/ /\ Past(tempsys, x)
                   /\ tempsys = x => InReading(tempsys + tempcnt \div TicksForUs)
                \/ TornUp(tempsys, x)
                \/ TornDown(tempsys, x)
    BY <2>1 DEF ReadingInv, AtCheck
  <2>3. /\ LoadBegan(x)' /\ x \in 0 .. cmn_systimer_counter'
        /\ Past(tempsys, x) => Past(tempsys, x)'
        /\ TornUp(tempsys, x) => TornUp(tempsys, x)'
        /\ TornDown(tempsys, x) => TornDown(tempsys, x)'
    BY <1>1, <2>2 DEF LoadBegan, Past, TornUp, TornDown
  <2>4. InReading(tempsys + tempcnt \div TicksForUs)
          => InReading(tempsys + tempcnt \div TicksForUs)'
    BY <1>1, <1>3, <1>5, <2>1 DEF InReading
  <2>5. tempsys' = x => tempsys = x
    BY <1>1
  <2>6. QED
    BY <2>2, <2>3, <2>4, <2>5, Zenon DEF AtCheck
<1>9. AtAgain'
  BY <1>1 DEF ReadingInv, AtAgain, AnyLoad, Past, TornUp, TornDown
<1>10. AtSum'
  <2>1. SUFFICES ASSUME pc = "sum", "slow" \notin slips PROVE AtSum'
    BY <1>1 DEF AtSum
  <2>2. InReading(crtsys + tempcnt \div TicksForUs)
    BY <2>1 DEF ReadingInv, AtSum
  <2>3. QED
    BY <1>1, <1>3, <1>5, <2>1, <2>2 DEF AtSum, InReading
<1>11. AtDiff'
  <2>1. SUFFICES ASSUME Complete PROVE AtDiff'
    BY <1>1 DEF AtDiff, Complete
  <2>2. InReading(crtsys) /\ pc = "diff"
    BY <2>1 DEF ReadingInv, AtDiff, Complete
  <2>3. QED
    BY <1>1, <1>3, <1>5, <2>2 DEF AtDiff, InReading
<1>12. QED
  BY <1>6, <1>7, <1>8, <1>9, <1>10, <1>11 DEF ReadingInv

(* The reading, when the interrupt comes. *)
LEMMA ReadingInterrupt ==
  ASSUME TypeOK, Control, ReadingInv, cmn_systimer_periodic
  PROVE  ReadingInv'
<1> DEFINE c == cmn_systimer_counter
<1>1. /\ UNCHANGED <<pc, tempcnt, tempsys, crtsys, half, tstart, lo>>
      /\ c' = c + Period
      /\ slips' = IF pc = "sys" THEN slips \cup {"late"} ELSE slips
  BY DEF cmn_systimer_periodic, readvars
<1>2. Now' = Now
  BY TimeStands
<1>3. lo \in Nat /\ c \in Nat /\ tempsys \in Nat /\ crtsys \in Nat
      /\ tempcnt \div TicksForUs \in Nat /\ Period \in Nat \ {0} /\ Word \in Nat \ {0}
  BY HardwareCount, ConstantFacts DEF TypeOK
<1>4. c \div Word \in Nat /\ (c + Period) \div Word \in Nat
      /\ c \div Word <= (c + Period) \div Word
  BY <1>3, Division, DivOrder
<1>5. InTime'
  BY <1>1, <1>2 DEF ReadingInv, InTime
<1>6. AtSys'
  <2>1. SUFFICES ASSUME pc = "sys" PROVE AtSys'
    BY <1>1 DEF AtSys
  <2>2. PICK x \in 0 .. c : LoadBegan(x) /\ lo <= x + tempcnt \div TicksForUs
    BY <2>1 DEF ReadingInv, AtSys
  <2>3. PICK y \in 0 .. c + Period : x <= y /\ y = IF half = NoHalf THEN c + Period ELSE x
    BY <1>3, <2>2
  <2>4. LoadBegan(y)' /\ lo' <= y + tempcnt' \div TicksForUs
    BY <1>1, <1>3, <2>2, <2>3 DEF LoadBegan, NoHalf
  <2>5. "late" \in slips'
    BY <1>1, <2>1
  <2>6. QED
    BY <1>1, <2>4, <2>5 DEF AtSys
<1>7. AtCheck'
  <2>1. SUFFICES ASSUME pc = "check" PROVE AtCheck'
    BY <1>1 DEF AtCheck
  <2>2. PICK x \in 0 .. c :
             /\ LoadBegan(x)
             /\ \/ /\ Past(tempsys, x)
                   /\ tempsys = x => InReading(tempsys + tempcnt \div TicksForUs)
                \/ TornUp(tempsys, x)
                \/ TornDown(tempsys, x)
    BY <2>1 DEF ReadingInv, AtCheck
  <2>3. Ahead' = Ahead
    BY <1>1, <2>1 DEF Ahead
  <2>4. CASE half = NoHalf
    <3>1. x = c
      BY <2>2, <2>4 DEF LoadBegan
    <3>6. PICK y \in Nat : y = c + Period
      BY <1>3
    <3>2. LoadBegan(y)' /\ y \in 0 .. c'
      BY <1>1, <1>3, <2>2, <2>4, <3>6, <3>1 DEF LoadBegan, NoHalf
    <3>3. CASE Past(tempsys, x)
      <4>1. Past(tempsys, y)' /\ tempsys' # y
        BY <1>1, <1>3, <3>6, <3>1, <3>3 DEF Past
      <4>2. QED
        BY <3>2, <4>1 DEF AtCheck
    <3>4. CASE TornUp(tempsys, x) \/ TornDown(tempsys, x)
      <4>0. tempsys \div Word \in Nat
        BY <1>3, Division
      <4>1. TornUp(tempsys, y)' \/ TornDown(tempsys, y)'
        BY <1>1, <1>3, <1>4, <3>6, <3>1, <3>4, <4>0 DEF TornUp, TornDown
      <4>2. QED
        BY <3>2, <4>1 DEF AtCheck
    <3>5. QED
      BY <2>2, <3>3, <3>4
  <2>5. CASE half # NoHalf
    <3>1. /\ LoadBegan(x)' /\ x \in 0 .. c'
          /\ Past(tempsys, x) => Past(tempsys, x)'
          /\ TornUp(tempsys, x) => TornUp(tempsys, x)'
          /\ TornDown(tempsys, x) => TornDown(tempsys, x)'
      BY <1>1, <1>3, <2>2, <2>5 DEF LoadBegan, Past, TornUp, TornDown
    <3>2. InReading(tempsys + tempcnt \div TicksForUs)
            => InReading(tempsys + tempcnt \div TicksForUs)'
      BY <1>1, <1>2, <2>3 DEF InReading
    <3>3. tempsys' = x => tempsys = x
      BY <1>1
    <3>4. QED
      BY <2>2, <3>1, <3>2, <3>3, Zenon DEF AtCheck
  <2>6. QED
    BY <2>4, <2>5
<1>8. AtAgain'
  <2>1. SUFFICES ASSUME pc = "again", AnyLoad(crtsys, c) PROVE AnyLoad(crtsys, c)'
    BY <1>1 DEF ReadingInv, AtAgain
  <2>2. crtsys \div Word \in Nat
    BY <1>3, Division
  <2>3. QED
    BY <1>1, <1>3, <1>4, <2>1, <2>2 DEF AnyLoad, Past, TornUp, TornDown
<1>9. AtSum' /\ AtDiff'
  <2>1. pc # "sys" => Ahead' = Ahead /\ slips' = slips
    BY <1>1 DEF Ahead
  <2>2. QED
    BY <1>1, <1>2, <2>1 DEF ReadingInv, AtSum, AtDiff, Complete, InReading
<1>10. QED
  BY <1>5, <1>6, <1>7, <1>8, <1>9 DEF ReadingInv

(* What has to hold of the reading after a step, by where the program is. *)
LEMMA ReadingNext ==
  /\ pc' \notin Measured /\ ~Complete' => ReadingInv'
  /\ pc' = "cnt" /\ InTime' => ReadingInv'
  /\ pc' = "sys" /\ InTime' /\ AtSys' => ReadingInv'
  /\ pc' = "check" /\ InTime' /\ AtCheck' => ReadingInv'
  /\ pc' = "again" /\ InTime' /\ AtAgain' => ReadingInv'
  /\ pc' = "sum" /\ InTime' /\ AtSum' => ReadingInv'
  /\ pc' = "diff" /\ AtDiff' => ReadingInv'
BY DEF ReadingInv, InTime, AtSys, AtCheck, AtAgain, AtSum, AtDiff, Complete, Measured

(* The reading of the hardware count. *)
LEMMA ReadingCnt ==
  ASSUME TypeOK, Control, ReadingInv, ReadCnt
  PROVE  ReadingInv'
<1> DEFINE c == cmn_systimer_counter
<1>1. /\ UNCHANGED <<c, raw, pending, crtsys, half, lo, slips>>
      /\ tempcnt' = raw /\ pending = "no" /\ pc \in {"cnt", "again"}
      /\ tempsys' = IF pc = "again" THEN crtsys ELSE tempsys
      /\ pc' = IF pc = "again" THEN "check" ELSE "sys"
  BY DEF ReadCnt, hwvars
<1>2. Now' = Now
  BY <1>1 DEF Now
<1>3. /\ lo \in Nat /\ c \in Nat /\ crtsys \in Nat /\ raw \in Nat
      /\ raw \div TicksForUs \in Nat /\ Period \in Nat \ {0} /\ Word \in Nat \ {0}
      /\ Now = c + raw \div TicksForUs /\ Now < c + Period
  BY <1>1, HardwareCount, ConstantFacts, NowFacts DEF TypeOK
<1>4. lo <= Now /\ half = NoHalf
  BY <1>1 DEF ReadingInv, InTime, Measured, Control, Loading
<1>5. InTime'
  BY <1>1, <1>2, <1>4 DEF ReadingInv, InTime, Measured
<1>6. PICK x \in Nat : x = c
  BY <1>3
<1>7. LoadBegan(x)' /\ x \in 0 .. c'
  BY <1>1, <1>3, <1>4, <1>6 DEF LoadBegan, NoHalf
<1>8. CASE pc = "cnt"
  <2>1. lo' <= x + tempcnt' \div TicksForUs /\ x = c' /\ tempcnt' <= raw'
    BY <1>1, <1>3, <1>4, <1>6
  <2>2. AtSys'
    BY <1>7, <2>1 DEF AtSys
  <2>3. QED
    BY <1>1, <1>5, <1>8, <2>2, ReadingNext
<1>9. CASE pc = "again"
  <2>1. AnyLoad(crtsys, c) /\ tempsys' = crtsys
    BY <1>1, <1>9 DEF ReadingInv, AtAgain
  <2>2. Past(tempsys, x)' \/ TornUp(tempsys, x)' \/ TornDown(tempsys, x)'
    BY <1>1, <1>6, <2>1 DEF AnyLoad, Past, TornUp, TornDown
  <2>3. Ahead' \in Nat
    BY <1>3 DEF Ahead
  <2>4. tempsys' = x => InReading(tempsys + tempcnt \div TicksForUs)'
    BY <1>1, <1>2, <1>3, <1>4, <1>6, <2>3 DEF InReading
  <2>5. AtCheck'
    BY <1>7, <2>2, <2>4 DEF AtCheck
  <2>6. QED
    BY <1>1, <1>5, <1>9, <2>5, ReadingNext
<1>10. QED
  BY <1>1, <1>8, <1>9

(* The first half of a load. *)
LEMMA ReadingHalf ==
  ASSUME TypeOK, Control, ReadingInv, LoadHalf
  PROVE  ReadingInv'
<1> DEFINE c == cmn_systimer_counter
<1>1. /\ UNCHANGED <<c, raw, pending, pc, tempcnt, tempsys, lo, slips>>
      /\ half = NoHalf /\ pc \in {"sys", "check"}
      /\ \/ half' = [part |-> "low", value |-> c % Word]
         \/ half' = [part |-> "high", value |-> c \div Word]
  BY DEF LoadHalf, hwvars
<1>2. Now' = Now /\ Ahead' = Ahead
  BY <1>1 DEF Now, Ahead
<1>3. InTime'
  BY <1>1, <1>2 DEF ReadingInv, InTime
<1>4. ASSUME NEW x \in 0 .. c, LoadBegan(x)
      PROVE  LoadBegan(x)'
  <2>1. x = c /\ lo < x + Period
    BY <1>1, <1>4 DEF LoadBegan
  <2>2. half' # NoHalf
    BY <1>1 DEF NoHalf
  <2>3. (half.part = "low" => half.value = x % Word)'
    BY <1>1, <2>1
  <2>4. (half.part = "high" => half.value = x \div Word)'
    BY <1>1, <2>1
  <2>5. QED
    BY <1>1, <2>1, <2>2, <2>3, <2>4 DEF LoadBegan
<1>5. CASE pc = "sys"
  <2>1. PICK x \in 0 .. c :
             /\ LoadBegan(x)
             /\ lo <= x + tempcnt \div TicksForUs
             /\ "late" \notin slips => x = c /\ (pending = "no" => tempcnt <= raw)
    BY <1>5 DEF ReadingInv, AtSys
  <2>2. LoadBegan(x)'
    BY <1>4, <2>1
  <2>3. AtSys'
    BY <1>1, <2>1, <2>2 DEF AtSys
  <2>4. QED
    BY <1>1, <1>3, <1>5, <2>3, ReadingNext
<1>6. CASE pc = "check"
  <2>1. PICK x \in 0 .. c :
             /\ LoadBegan(x)
             /\ \/ /\ Past(tempsys, x)
                   /\ tempsys = x => InReading(tempsys + tempcnt \div TicksForUs)
                \/ TornUp(tempsys, x)
                \/ TornDown(tempsys, x)
    BY <1>6 DEF ReadingInv, AtCheck
  <2>2. LoadBegan(x)' /\ x \in 0 .. c'
    BY <1>1, <1>4, <2>1
  <2>3. /\ Past(tempsys, x) => Past(tempsys, x)'
        /\ TornUp(tempsys, x) => TornUp(tempsys, x)'
        /\ TornDown(tempsys, x) => TornDown(tempsys, x)'
        /\ tempsys' = x => tempsys = x
    BY <1>1 DEF Past, TornUp, TornDown
  <2>4. InReading(tempsys + tempcnt \div TicksForUs)
          => InReading(tempsys + tempcnt \div TicksForUs)'
    BY <1>1, <1>2 DEF InReading
  <2>5. AtCheck'
    BY <2>1, <2>2, <2>3, <2>4, Zenon DEF AtCheck
  <2>6. QED
    BY <1>1, <1>3, <1>6, <2>5, ReadingNext
<1>7. QED
  BY <1>1, <1>5, <1>6

(* The end of the first load. *)
LEMMA ReadingSys ==
  ASSUME TypeOK, Control, ReadingInv, ReadSys
  PROVE  ReadingInv'
<1> DEFINE c == cmn_systimer_counter
           q == tempcnt \div TicksForUs
<1>1. /\ UNCHANGED <<c, raw, pending, tempcnt, lo, slips>>
      /\ pending = "no" /\ pc = "sys" /\ half # NoHalf /\ half' = NoHalf
      /\ tempsys' = Loaded /\ pc' = "check"
  BY DEF ReadSys, hwvars
<1>2. Now' = Now /\ Ahead' = Ahead
  BY <1>1 DEF Now, Ahead
<1>3. /\ lo \in Nat /\ c \in Nat /\ raw \in Nat /\ tempcnt \in Nat /\ q \in Nat /\ q < Period
      /\ raw \div TicksForUs \in Nat /\ TicksForUs \in Nat \ {0}
      /\ Period \in Nat \ {0} /\ Word \in Nat \ {0}
      /\ Now = c + raw \div TicksForUs
  <2>1. raw \in 0 .. PeriodTicks - 1 /\ tempcnt \in 0 .. PeriodTicks - 1 /\ lo \in Nat /\ c \in Nat
    BY DEF TypeOK
  <2>2. q \in 0 .. Period - 1 /\ tempcnt \in Nat /\ raw \in Nat /\ raw \div TicksForUs \in 0 .. Period - 1
    BY <2>1, HardwareCount
  <2>3. Now = c + raw \div TicksForUs
    BY <1>1, NowFacts
  <2> HIDE DEF q
  <2>4. QED
    BY <2>1, <2>2, <2>3, ConstantFacts
<1>4. PICK x \in 0 .. c :
           /\ LoadBegan(x)
           /\ lo <= x + q
           /\ "late" \notin slips => x = c /\ (pending = "no" => tempcnt <= raw)
  BY <1>1 DEF ReadingInv, AtSys
<1>5. lo < x + Period
  BY <1>4 DEF LoadBegan
<1>6. PICK y \in Nat : y = c
  BY <1>3
<1>7. LoadBegan(y)' /\ y \in 0 .. c'
  BY <1>1, <1>3, <1>4, <1>5, <1>6 DEF LoadBegan, NoHalf
<1>8. Past(tempsys, y)' \/ TornUp(tempsys, y)' \/ TornDown(tempsys, y)'
  <2>1. Past(Loaded, c) \/ TornUp(Loaded, c) \/ TornDown(Loaded, c)
    BY <1>1, <1>4, LoadedKinds
  <2>2. QED
    BY <1>1, <1>6, <2>1 DEF Past, TornUp, TornDown
<1>9. InReading(c + q)
  <2>1. CASE "late" \notin slips
    <3>1. x = c /\ tempcnt <= raw
      BY <1>1, <1>4, <2>1
    <3>2. q <= raw \div TicksForUs
      BY <1>3, <3>1, DivOrder
    <3>3. Ahead = 0
      BY <2>1 DEF Ahead
    <3> HIDE DEF q, c
    <3>4. QED
      BY <1>3, <1>4, <3>1, <3>2, <3>3 DEF InReading
  <2>2. CASE "late" \in slips
    <3>1. Ahead = Period
      BY <2>2 DEF Ahead
    <3> HIDE DEF q, c
    <3>2. QED
      BY <1>3, <1>4, <3>1 DEF InReading
  <2>3. QED
    BY <2>1, <2>2
<1>10. tempsys' = y => InReading(tempsys + tempcnt \div TicksForUs)'
  <2>1. SUFFICES ASSUME tempsys' = y PROVE InReading(tempsys + tempcnt \div TicksForUs)'
    OBVIOUS
  <2>2. tempsys' + tempcnt' \div TicksForUs = c + q
    BY <1>1, <1>6, <2>1
  <2>3. QED
    BY <1>1, <1>2, <1>9, <2>2 DEF InReading
<1>11. AtCheck'
  BY <1>7, <1>8, <1>10 DEF AtCheck
<1>12. InTime'
  BY <1>1, <1>2 DEF ReadingInv, InTime, Measured
<1>13. QED
  BY <1>1, <1>11, <1>12, ReadingNext

(* The end of a further load: it is only accepted if it gave the same value. *)
LEMMA ReadingCheck ==
  ASSUME TypeOK, Control, ReadingInv, CheckSys
  PROVE  ReadingInv'
<1> DEFINE c == cmn_systimer_counter
<1>1. /\ UNCHANGED <<c, raw, pending, tempcnt, tempsys, lo, slips>>
      /\ pending = "no" /\ pc = "check" /\ half # NoHalf
      /\ crtsys' = Loaded
      /\ pc' = IF Loaded # tempsys THEN "again" ELSE "sum"
  BY DEF CheckSys, hwvars
<1>2. Now' = Now /\ Ahead' = Ahead
  BY <1>1 DEF Now, Ahead
<1>3. InTime'
  BY <1>1, <1>2 DEF ReadingInv, InTime, Measured
<1>4. PICK x \in 0 .. c :
           /\ LoadBegan(x)
           /\ \/ /\ Past(tempsys, x)
                 /\ tempsys = x => InReading(tempsys + tempcnt \div TicksForUs)
              \/ TornUp(tempsys, x)
              \/ TornDown(tempsys, x)
  BY <1>1 DEF ReadingInv, AtCheck
<1>5. CASE Loaded # tempsys
  <2>1. AnyLoad(Loaded, c)
    BY <1>1, <1>4, LoadedKinds DEF AnyLoad
  <2>2. AnyLoad(crtsys, c)'
    BY <1>1, <2>1 DEF AnyLoad, Past, TornUp, TornDown
  <2>3. QED
    BY <1>1, <1>3, <1>5, <2>2, ReadingNext DEF AtAgain
<1>6. CASE Loaded = tempsys
  <2>1. ASSUME "slow" \notin slips
        PROVE  InReading(tempsys + tempcnt \div TicksForUs)
    <3>1. Now <= lo + Word - Period
      BY <1>1, <2>1 DEF ReadingInv, InTime, Measured
    <3>2. AnyLoad(tempsys, x)
      BY <1>4 DEF AnyLoad
    <3>3. tempsys = x /\ ~TornUp(tempsys, x) /\ ~TornDown(tempsys, x)
      BY <1>1, <1>4, <1>6, <3>1, <3>2, LoadsAgree
    <3>4. QED
      BY <1>4, <3>3
  <2>2. AtSum'
    BY <1>1, <1>2, <1>6, <2>1 DEF AtSum, InReading
  <2>3. QED
    BY <1>1, <1>3, <1>6, <2>2, ReadingNext
<1>7. QED
  BY <1>5, <1>6

(* Every step keeps what is known of the current reading. *)
LEMMA ReadingStep ==
  ASSUME TypeOK, Control, ReadingInv, [Next]_vars
  PROVE  ReadingInv'
<1>1. CASE \E d \in Delays : platform_timer_delay(d)
  <2>1. pc' = "cnt" /\ lo' = Now /\ Now' = Now /\ Now \in Nat
    BY <1>1, NowFacts DEF platform_timer_delay, Now, hwvars
  <2>2. InTime'
    BY <2>1, ConstantFacts DEF InTime
  <2>3. QED
    BY <2>1, <2>2, ReadingNext
<1>2. CASE Sum
  <2>1. CASE crtsys + tempcnt \div TicksForUs > SysMax
    BY <1>2, <2>1, ReadingNext DEF Sum, Measured, Complete
  <2>2. CASE ~(crtsys + tempcnt \div TicksForUs > SysMax)
    <3>1. /\ pc = "sum" /\ pc' = "diff" /\ slips' = slips /\ UNCHANGED <<lo, tempcnt>>
          /\ crtsys' = crtsys + tempcnt \div TicksForUs
          /\ UNCHANGED <<cmn_systimer_counter, raw, pending>>
      BY <1>2, <2>2 DEF Sum
    <3>2. Now' = Now /\ Ahead' = Ahead
      BY <3>1 DEF Now, Ahead
    <3>3. Complete' => InReading(crtsys + tempcnt \div TicksForUs)
      BY <3>1 DEF Complete, ReadingInv, AtSum
    <3>4. AtDiff'
      BY <3>1, <3>2, <3>3 DEF AtDiff, InReading
    <3>5. QED
      BY <3>1, <3>4, ReadingNext
  <2>3. QED
    BY <2>1, <2>2
<1>3. CASE Restart
  BY <1>3, ReadingNext DEF Restart, Measured, Complete
<1>4. CASE EnableInt
  BY <1>4, ReadingNext DEF EnableInt, Measured, Complete, Control
<1>5. CASE Diff
  <2>1. pc' \in {"cnt", "idle"} /\ lo' = Now /\ Now' = Now /\ Now \in Nat
    BY <1>5, NowFacts DEF Diff, Now, hwvars
  <2>2. InTime'
    BY <2>1, ConstantFacts DEF InTime
  <2>3. QED
    BY <2>1, <2>2, ReadingNext DEF Measured, Complete
<1>6. CASE UNCHANGED vars
  BY <1>6 DEF vars, hwvars, readvars, ReadingInv, InTime, AtSys, AtCheck, AtAgain, AtSum, AtDiff,
              Complete, Now, LoadBegan, AnyLoad, Past, TornUp, TornDown, InReading, Ahead
<1>7. QED
  BY <1>1, <1>2, <1>3, <1>4, <1>5, <1>6, ReadingTick, ReadingInterrupt, ReadingCnt, ReadingHalf,
     ReadingSys, ReadingCheck DEF Next
-----------------------------------------------------------------------------
Waiting == SinceStart /\ SinceWrap /\ WaitedEnough

(* The numbers that a delay is measured with. *)
LEMMA WaitFacts ==
  ASSUME TypeOK
  PROVE  /\ raw \in Nat /\ waited \in Nat /\ waited <= WaitCap /\ lo \in Nat /\ crtsys \in Nat
         /\ Ticks \in Nat /\ Now \in Nat /\ tstart \in Int /\ tstart <= SysMax
         /\ tstart # NoTime => tstart \in Nat
         /\ (lo + 1) * TicksForUs \in Int /\ (tstart + 1) * TicksForUs \in Int
         /\ (SysMax + 1 - Period - tstart) * TicksForUs \in Int
         /\ pending = "no" => Ticks = cmn_systimer_counter * TicksForUs + raw
         /\ cmn_systimer_counter \in Nat /\ cmn_systimer_counter * TicksForUs \in Nat
<1>1. /\ raw \in 0 .. PeriodTicks - 1 /\ waited \in 0 .. WaitCap /\ lo \in Nat
      /\ crtsys \in Nat /\ cmn_systimer_counter \in Nat
      /\ tstart \in {NoTime} \cup (0 .. SysMax)
  BY DEF TypeOK
<1>2. raw \in Nat /\ waited \in Nat /\ waited <= WaitCap
  BY <1>1, ConstantFacts
<1>3. tstart \in Int /\ tstart <= SysMax /\ (tstart # NoTime => tstart \in Nat)
  BY <1>1, ConstantFacts DEF NoTime
<1>4. /\ (lo + 1) * TicksForUs \in Int /\ (tstart + 1) * TicksForUs \in Int
      /\ (SysMax + 1 - Period - tstart) * TicksForUs \in Int
      /\ cmn_systimer_counter * TicksForUs \in Nat
  BY <1>1, <1>3, ConstantFacts
<1>5. pending = "no" => Ticks = cmn_systimer_counter * TicksForUs + raw
  BY <1>1, ConstantFacts DEF Ticks
<1>6. QED
  BY <1>1, <1>2, <1>3, <1>4, <1>5, NowFacts

(* One tick of the hardware is one more tick waited. *)
LEMMA WaitedTick ==
  ASSUME TypeOK, Tick, pc # "idle", NEW n \in Int, WaitedOver(n), NEW m \in Int, m <= n + 1
  PROVE  WaitedOver(m)'
<1>1. waited \in Nat /\ waited <= WaitCap /\ WaitCap \in Nat
  BY WaitFacts, ConstantFacts
<1>2. waited' = IF waited < WaitCap THEN waited + 1 ELSE WaitCap
  BY DEF Tick, Waited
<1>3. waited = WaitCap \/ waited > n
  BY DEF WaitedOver
<1>4. waited' = WaitCap \/ waited' > m
  BY <1>1, <1>2, <1>3
<1>5. WaitCap' = WaitCap
  BY DEF WaitCap
<1>6. QED
  BY <1>4, <1>5 DEF WaitedOver

(* The delay, while the hardware counter advances. *)
LEMMA WaitingTick ==
  ASSUME TypeOK, Control, Waiting, Tick
  PROVE  Waiting'
<1>1. /\ UNCHANGED <<cmn_systimer_counter, pc, crtsys, tstart, lo, enabled>> /\ pending = "no"
      /\ slips \subseteq slips' /\ slips' \subseteq slips \cup {"slow"}
  BY DEF Tick, readvars
<1>2. /\ slips' = {} => slips = {}
      /\ slips' = {"wrap"} => slips = {"wrap"}
  <2>1. slips' = {"wrap"} => "wrap" \in slips
    BY <1>1
  <2>2. QED
    BY <1>1, <2>1
<1>3. slips = {} => enabled = "yes"
  BY DEF Control
<1>4. /\ raw \in Nat /\ raw' \in Nat /\ raw' <= raw + 1
      /\ enabled # "yes" => pending' = "no"
  BY WaitFacts, ConstantFacts DEF Tick
<1>5. /\ enabled = "yes" => Ticks' = Ticks + 1
      /\ enabled # "yes" => Ticks' \in Int /\ Ticks' <= Ticks + 1
  <2>1. ASSUME enabled # "yes" PROVE Ticks' \in Int /\ Ticks' <= Ticks + 1
    <3>1. Ticks' = cmn_systimer_counter * TicksForUs + raw'
      BY <1>1, <1>4, <2>1, WaitFacts, ConstantFacts DEF Ticks
    <3>2. QED
      BY <1>1, <1>4, <3>1, WaitFacts
  <2>2. QED
    BY <2>1, TimeTicks
<1>6. Ticks' \in Int /\ Ticks' <= Ticks + 1
  BY <1>5, WaitFacts
<1>7. SinceStart'
  <2>1. SUFFICES ASSUME pc # "idle", slips = {} PROVE SinceStart'
    BY <1>1, <1>2 DEF SinceStart
  <2>2. CASE tstart = NoTime
    <3>1. WaitedOver(Ticks - (lo + 1) * TicksForUs)
      BY <2>1, <2>2 DEF Waiting, SinceStart
    <3>2. PICK m \in Int : m = Ticks' - (lo + 1) * TicksForUs
      BY <1>6, WaitFacts
    <3>3. PICK n \in Int : n = Ticks - (lo + 1) * TicksForUs
      BY WaitFacts
    <3>4. m <= n + 1
      BY <1>6, <3>2, <3>3, WaitFacts
    <3>5. WaitedOver(m)'
      BY <2>1, <3>1, <3>3, <3>4, WaitedTick
    <3>6. QED
      BY <1>1, <2>2, <3>2, <3>5 DEF SinceStart, WaitedOver
  <2>3. CASE tstart # NoTime
    <3>1. tstart <= lo /\ WaitedOver(Ticks - (tstart + 1) * TicksForUs)
      BY <2>1, <2>3 DEF Waiting, SinceStart
    <3>2. PICK m \in Int : m = Ticks' - (tstart + 1) * TicksForUs
      BY <1>6, WaitFacts
    <3>3. PICK n \in Int : n = Ticks - (tstart + 1) * TicksForUs
      BY WaitFacts
    <3>4. m <= n + 1
      BY <1>6, <3>2, <3>3, WaitFacts
    <3>5. WaitedOver(m)'
      BY <2>1, <3>1, <3>3, <3>4, WaitedTick
    <3>6. QED
      BY <1>1, <2>3, <3>1, <3>2, <3>5 DEF SinceStart, WaitedOver
  <2>4. QED
    BY <2>2, <2>3
<1>8. SinceWrap'
  <2>1. SUFFICES ASSUME pc # "idle", slips = {"wrap"} PROVE SinceWrap'
    BY <1>1, <1>2 DEF SinceWrap
  <2>2. PICK p \in Int : p = (SysMax + 1 - Period - tstart) * TicksForUs
    BY WaitFacts
  <2>3. PICK k \in Int : k = (IF pc = "zero" THEN raw ELSE Ticks)
    BY WaitFacts
  <2>4. PICK l \in Int : l = (IF pc = "zero" THEN raw' ELSE Ticks') /\ l <= k + 1
    <3>1. CASE pc = "zero"
      BY <1>4, <2>3, <3>1
    <3>2. CASE pc # "zero"
      BY <1>6, <2>3, <3>2
    <3>3. QED
      BY <3>1, <3>2
  <2>5. k + p \in Int /\ l + p \in Int /\ l + p <= (k + p) + 1
    <3>1. l <= k + 1
      BY <2>4
    <3>2. QED
      BY <3>1
  <2>6. WaitedOver(k + p)
    BY <2>1, <2>2, <2>3 DEF Waiting, SinceWrap
  <2>7. WaitedOver(l + p)'
    BY <2>1, <2>5, <2>6, WaitedTick
  <2>8. QED
    BY <1>1, <2>2, <2>4, <2>7 DEF SinceWrap, WaitedOver
<1>9. WaitedEnough'
  <2>1. SUFFICES ASSUME pc \in Summed, tstart # NoTime PROVE WaitedEnough'
    BY <1>1 DEF WaitedEnough
  <2>2. PICK e \in Int : e = (Elapsed(crtsys) - 1) * TicksForUs
    BY <2>1, WaitFacts, ConstantFacts DEF Elapsed
  <2>3. PICK f \in Int : f = (Elapsed(crtsys) - Shortfall) * TicksForUs
    BY <2>1, WaitFacts, ConstantFacts DEF Elapsed, Shortfall
  <2>4. Elapsed(crtsys)' = Elapsed(crtsys) /\ Shortfall' = Shortfall
    BY <1>1 DEF Elapsed, Shortfall
  <2>5. (slips = {} => waited > e) /\ (slips = {"wrap"} => waited > f)
    BY <2>1, <2>2, <2>3 DEF Waiting, WaitedEnough
  <2>6. waited' \in Nat /\ waited <= waited' /\ waited \in Nat
    BY WaitFacts, ConstantFacts DEF Tick, Waited
  <2>7. (slips' = {} => waited' > e) /\ (slips' = {"wrap"} => waited' > f)
    BY <1>2, <2>5, <2>6
  <2>8. QED
    BY <2>2, <2>3, <2>4, <2>7 DEF WaitedEnough
<1>10. QED
  BY <1>7, <1>8, <1>9 DEF Waiting

(* The time from the start to a reading, over at most one overflow. *)
LEMMA ElapsedFacts ==
  ASSUME tstart \in Nat, tstart <= SysMax, NEW t \in Nat, t <= SysMax
  PROVE  /\ Elapsed(t) \in Int /\ Elapsed(t) <= SysMax
         /\ tstart <= t => Elapsed(t) = t - tstart
         /\ Elapsed(t) <= t + SysMax + 1 - tstart
BY ConstantFacts DEF Elapsed

(* After an overflow the time from the start is one too long at most. *)
LEMMA ElapsedOverflow ==
  ASSUME tstart \in Nat, tstart <= SysMax, NEW t \in Nat, t > SysMax
  PROVE  /\ Overflowed(t) \in Nat /\ Overflowed(t) <= SysMax
         /\ Elapsed(Overflowed(t)) <= t + 1 - tstart
<1> DEFINE q == t \div SysMax
           r == t % SysMax
<1>1. q \in Nat /\ r \in 0 .. SysMax - 1 /\ t = q * SysMax + r /\ SysMax \in Nat \ {0}
  BY ConstantFacts, Division
<1> HIDE DEF q, r
<1>2. 1 <= q
  BY <1>1
<1>3. SysMax <= q * SysMax /\ q * SysMax \in Nat
  BY <1>1, <1>2
<1>4. r \in Nat /\ r <= t - SysMax
  BY <1>1, <1>3
<1>5. Overflowed(t) = r
  BY DEF Overflowed, r
<1>6. Elapsed(r) <= t + 1 - tstart
  BY <1>1, <1>4 DEF Elapsed
<1>7. QED
  BY <1>1, <1>4, <1>5, <1>6

(* As many ticks waited as the clock went on since a. *)
LEMMA WaitedFrom ==
  ASSUME TypeOK, NEW a \in Int, WaitedOver(Ticks + a * TicksForUs),
         NEW e \in Int, e <= SysMax, e <= Now + a
  PROVE  waited > e * TicksForUs
<1> DEFINE T == TicksForUs
<1>1. T \in Nat \ {0} /\ Now \in Nat /\ Ticks \in Nat /\ Now * T <= Ticks
      /\ SysMax \in Nat /\ waited \in Nat
  BY ConstantFacts, NowFacts, WaitFacts
<1>2. e * T <= (Now + a) * T /\ (Now + a) * T = Now * T + a * T
      /\ e * T \in Int /\ Now * T \in Int /\ a * T \in Int
  BY <1>1, Multiples
<1>3. e * T + T <= (SysMax + 1) * T
  BY <1>1, Multiples
<1>4. waited = (SysMax + 1) * T \/ waited > Ticks + a * T
  BY DEF WaitedOver, WaitCap
<1>5. CASE waited = (SysMax + 1) * T
  BY <1>1, <1>2, <1>3, <1>5
<1>6. CASE waited > Ticks + a * T
  <2>1. e * T <= Ticks + a * T
    BY <1>1, <1>2
  <2>2. QED
    BY <1>1, <1>2, <1>6, <2>1
<1>7. QED
  BY <1>4, <1>5, <1>6

(* What the start and the overflow say, in the form of that lemma. *)
LEMMA SinceFacts ==
  ASSUME TypeOK, Waiting, pc # "idle"
  PROVE  /\ slips = {} /\ tstart # NoTime =>
              /\ tstart <= lo /\ 0 - tstart - 1 \in Int
              /\ WaitedOver(Ticks + (0 - tstart - 1) * TicksForUs)
         /\ slips = {"wrap"} /\ pc # "zero" =>
              /\ SysMax + 1 - Period - tstart \in Int
              /\ WaitedOver(Ticks + (SysMax + 1 - Period - tstart) * TicksForUs)
<1>1. tstart \in Int /\ TicksForUs \in Nat /\ Ticks \in Nat /\ SysMax \in Nat /\ Period \in Nat
  BY ConstantFacts, WaitFacts
<1>2. Ticks + (0 - tstart - 1) * TicksForUs = Ticks - (tstart + 1) * TicksForUs
      /\ 0 - tstart - 1 \in Int
  BY <1>1
<1>3. QED
  BY <1>1, <1>2 DEF Waiting, SinceStart, SinceWrap

(* What a delay may be short of is no less than a period or two microseconds. *)
LEMMA ShortfallFacts == Shortfall \in Nat /\ 2 <= Shortfall /\ Period <= Shortfall
BY ConstantFacts DEF Shortfall

(* The delay, when a reading is put together. *)
LEMMA WaitingSum ==
  ASSUME TypeOK, Control, ReadingInv, Waiting, Sum
  PROVE  Waiting'
<1>1. PICK t \in Nat : t = crtsys + tempcnt \div TicksForUs
  BY WaitFacts, HardwareCount DEF TypeOK
<1>2. /\ crtsys' = IF t > SysMax THEN Overflowed(t) ELSE t
      /\ slips' = IF t > SysMax THEN slips \cup {Wrap} ELSE slips
      /\ pc' = IF t > SysMax THEN "zero" ELSE "diff"
      /\ pc = "sum" /\ pending = "no"
      /\ UNCHANGED <<raw, pending, cmn_systimer_counter, tstart, waited, lo>>
  BY <1>1 DEF Sum
<1>3. Ticks' = Ticks /\ Shortfall' = Shortfall /\ WaitCap' = WaitCap
  BY <1>2 DEF Ticks, Shortfall, WaitCap
<1>4. slips \in {{}, {"wrap"}} => lo <= t /\ t <= Now
  <2>1. SUFFICES ASSUME slips \in {{}, {"wrap"}} PROVE lo <= t /\ t <= Now
    OBVIOUS
  <2>2. InReading(t) /\ Ahead = 0
    BY <1>1, <1>2, <2>1 DEF ReadingInv, AtSum, Ahead
  <2>3. QED
    BY <2>2, NowFacts DEF InReading
<1>5. /\ tstart # NoTime => tstart \in Nat /\ tstart <= SysMax
      /\ tstart \in Int /\ lo \in Nat /\ Now \in Nat /\ SysMax \in Nat /\ Period \in Nat
      /\ Shortfall \in Int /\ TicksForUs \in Nat \ {0}
  BY WaitFacts, ConstantFacts, ShortfallFacts
<1>6. CASE ~(t > SysMax)
  <2>1. crtsys' = t /\ slips' = slips /\ pc' = "diff" /\ t <= SysMax
    BY <1>2, <1>5, <1>6
  <2>2. SinceStart' /\ SinceWrap'
    BY <1>2, <1>3, <2>1 DEF Waiting, SinceStart, SinceWrap, WaitedOver
  <2>3. WaitedEnough'
    <3>1. SUFFICES ASSUME tstart # NoTime
                   PROVE  /\ slips = {} => waited > (Elapsed(t) - 1) * TicksForUs
                          /\ slips = {"wrap"} => waited > (Elapsed(t) - Shortfall) * TicksForUs
      BY <1>2, <1>3, <2>1 DEF WaitedEnough, Elapsed
    <3>2. /\ Elapsed(t) \in Int /\ Elapsed(t) <= SysMax
          /\ tstart <= t => Elapsed(t) = t - tstart
          /\ Elapsed(t) <= t + SysMax + 1 - tstart
      BY <1>5, <2>1, <3>1, ElapsedFacts
    <3>3. ASSUME slips = {} PROVE waited > (Elapsed(t) - 1) * TicksForUs
      <4>1. /\ tstart <= lo /\ 0 - tstart - 1 \in Int
            /\ WaitedOver(Ticks + (0 - tstart - 1) * TicksForUs)
        BY <1>2, <3>1, <3>3, SinceFacts
      <4>2. lo <= t /\ t <= Now
        BY <1>4, <3>3
      <4>3. /\ Elapsed(t) - 1 \in Int /\ Elapsed(t) - 1 <= SysMax
            /\ Elapsed(t) - 1 <= Now + (0 - tstart - 1)
        BY <1>5, <3>2, <4>1, <4>2
      <4>4. QED
        BY <4>1, <4>3, WaitedFrom
    <3>4. ASSUME slips = {"wrap"} PROVE waited > (Elapsed(t) - Shortfall) * TicksForUs
      <4>1. /\ SysMax + 1 - Period - tstart \in Int
            /\ WaitedOver(Ticks + (SysMax + 1 - Period - tstart) * TicksForUs)
        BY <1>2, <3>4, SinceFacts
      <4>2. t <= Now
        BY <1>4, <3>4
      <4>3. /\ Elapsed(t) - Shortfall \in Int /\ Elapsed(t) - Shortfall <= SysMax
            /\ Elapsed(t) - Shortfall <= Now + (SysMax + 1 - Period - tstart)
        BY <1>5, <3>2, <4>2, ShortfallFacts
      <4>4. QED
        BY <4>1, <4>3, WaitedFrom
    <3>5. QED
      BY <3>3, <3>4
  <2>4. QED
    BY <2>2, <2>3 DEF Waiting
<1>7. CASE t > SysMax
  <2>1. /\ crtsys' = Overflowed(t) /\ slips' = slips \cup {Wrap} /\ pc' = "zero"
        /\ slips' # {}
    BY <1>2, <1>7
  <2>2. SinceStart'
    BY <2>1 DEF SinceStart
  <2>3. SUFFICES ASSUME slips' = {"wrap"} PROVE SinceWrap' /\ WaitedEnough'
    BY <2>1, <2>2 DEF Waiting, SinceWrap, WaitedEnough
  <2>4. tstart # NoTime /\ slips \in {{}, {"wrap"}}
    <3>1. Wrap = "wrap"
      BY <2>1, <2>3
    <3>2. slips \subseteq {"wrap"}
      BY <2>1, <2>3
    <3>3. QED
      BY <3>1, <3>2 DEF Wrap
  <2>5. lo <= t /\ t <= Now
    BY <1>4, <2>4
  <2>6. /\ Overflowed(t) \in Nat /\ Overflowed(t) <= SysMax
        /\ Elapsed(Overflowed(t)) <= t + 1 - tstart
    BY <1>5, <1>7, <2>4, ElapsedOverflow
  <2>7. Elapsed(Overflowed(t)) \in Int /\ Elapsed(Overflowed(t)) <= SysMax
    BY <1>5, <2>4, <2>6, ElapsedFacts
  <2>8. SinceWrap'
    <3> DEFINE k == SysMax + 1 - Period - tstart
    <3>1. SUFFICES WaitedOver(raw + k * TicksForUs)
      BY <1>2, <1>3, <2>1 DEF SinceWrap, WaitedOver
    <3>2. /\ Ticks = cmn_systimer_counter * TicksForUs + raw /\ raw \in Nat
          /\ cmn_systimer_counter \in Nat /\ Now < cmn_systimer_counter + Period
          /\ cmn_systimer_counter * TicksForUs \in Nat
          /\ waited \in Nat /\ k \in Int /\ k * TicksForUs \in Int
      BY <1>2, <1>5, NowFacts, WaitFacts
    <3>3. CASE slips = {}
      <4>1. WaitedOver(Ticks - (tstart + 1) * TicksForUs)
        BY <1>2, <2>4, <3>3 DEF Waiting, SinceStart
      <4>2. k + (tstart + 1) <= cmn_systimer_counter
        BY <1>5, <1>7, <2>5, <3>2
      <4>3. (k + (tstart + 1)) * TicksForUs <= cmn_systimer_counter * TicksForUs
        BY <1>5, <3>2, <4>2, Multiples
      <4>4. /\ (k + (tstart + 1)) * TicksForUs = k * TicksForUs + (tstart + 1) * TicksForUs
            /\ (tstart + 1) * TicksForUs \in Int
        <5> HIDE DEF k
        <5>1. QED
          BY <1>5, <3>2
      <4>5. raw + k * TicksForUs <= Ticks - (tstart + 1) * TicksForUs
        <5> HIDE DEF k
        <5>1. QED
          BY <3>2, <4>3, <4>4
      <4> HIDE DEF k
      <4>6. QED
        BY <3>2, <4>1, <4>4, <4>5 DEF WaitedOver
    <3>4. CASE slips = {"wrap"}
      <4>1. WaitedOver(Ticks + k * TicksForUs)
        BY <1>2, <3>4 DEF Waiting, SinceWrap
      <4> HIDE DEF k
      <4>2. QED
        BY <3>2, <4>1 DEF WaitedOver
    <3>5. QED
      BY <2>4, <3>3, <3>4
  <2>9. WaitedEnough'
    <3>1. SUFFICES waited > (Elapsed(Overflowed(t)) - Shortfall) * TicksForUs
      BY <1>2, <1>3, <2>1, <2>3 DEF WaitedEnough, Elapsed
    <3>2. PICK e \in Int : e = Elapsed(Overflowed(t)) - Shortfall
      BY <1>5, <2>7
    <3>3. e <= SysMax
      BY <1>5, <2>7, <3>2, ShortfallFacts
    <3>4. CASE slips = {}
      <4>1. /\ 0 - tstart - 1 \in Int
            /\ WaitedOver(Ticks + (0 - tstart - 1) * TicksForUs)
        BY <1>2, <2>4, <3>4, SinceFacts
      <4>2. e <= Now + (0 - tstart - 1)
        BY <1>5, <2>5, <2>6, <2>7, <3>2, ShortfallFacts
      <4>3. QED
        BY <3>2, <3>3, <4>1, <4>2, WaitedFrom
    <3>5. CASE slips = {"wrap"}
      <4>1. /\ SysMax + 1 - Period - tstart \in Int
            /\ WaitedOver(Ticks + (SysMax + 1 - Period - tstart) * TicksForUs)
        BY <1>2, <3>5, SinceFacts
      <4>2. e <= Now + (SysMax + 1 - Period - tstart)
        BY <1>5, <2>5, <2>6, <2>7, <3>2, ShortfallFacts
      <4>3. QED
        BY <3>2, <3>3, <4>1, <4>2, WaitedFrom
    <3>6. QED
      BY <2>4, <3>4, <3>5
  <2>10. QED
    BY <2>8, <2>9
<1>8. QED
  BY <1>6, <1>7

(* The delay, when a reading is compared with the start. *)
LEMMA WaitingDiff ==
  ASSUME TypeOK, Control, ReadingInv, Waiting, Diff
  PROVE  Waiting'
<1>1. /\ UNCHANGED <<raw, pending, cmn_systimer_counter, crtsys, waited, slips>>
      /\ pc = "diff" /\ pc' \in {"cnt", "idle"} /\ lo' = Now
      /\ tstart' = IF tstart = NoTime THEN crtsys ELSE tstart
  BY DEF Diff, hwvars, readvars
<1>2. Ticks' = Ticks /\ WaitCap' = WaitCap
  BY <1>1 DEF Ticks, WaitCap
<1>3. slips = {} => lo <= crtsys /\ crtsys <= Now
  <2>1. SUFFICES ASSUME slips = {} PROVE lo <= crtsys /\ crtsys <= Now
    OBVIOUS
  <2>2. InReading(crtsys) /\ Ahead = 0
    BY <1>1, <2>1 DEF ReadingInv, AtDiff, Complete, Ahead
  <2>3. QED
    BY <2>2, NowFacts DEF InReading
<1>4. lo \in Nat /\ crtsys \in Nat /\ Now \in Nat /\ tstart \in Int /\ Ticks \in Nat
      /\ TicksForUs \in Nat \ {0} /\ waited \in Nat /\ WaitCap \in Nat
  BY WaitFacts, ConstantFacts
<1>5. SinceStart'
  <2>1. SUFFICES ASSUME slips = {} PROVE SinceStart'
    BY <1>1 DEF SinceStart
  <2>2. CASE tstart = NoTime
    <3>1. tstart' = crtsys /\ tstart' # NoTime
      BY <1>1, <1>4, <2>2 DEF NoTime
    <3>2. WaitedOver(Ticks - (lo + 1) * TicksForUs)
      BY <1>1, <2>1, <2>2 DEF Waiting, SinceStart
    <3>3. /\ (lo + 1) * TicksForUs <= (crtsys + 1) * TicksForUs
          /\ (lo + 1) * TicksForUs \in Int /\ (crtsys + 1) * TicksForUs \in Int
      BY <1>3, <1>4, <2>1, Multiples
    <3>4. WaitedOver(Ticks - (crtsys + 1) * TicksForUs)
      BY <1>4, <3>2, <3>3 DEF WaitedOver
    <3>5. QED
      BY <1>1, <1>2, <1>3, <2>1, <3>1, <3>4 DEF SinceStart, WaitedOver
  <2>3. CASE tstart # NoTime
    <3>1. tstart <= lo /\ WaitedOver(Ticks - (tstart + 1) * TicksForUs)
      BY <1>1, <2>1, <2>3 DEF Waiting, SinceStart
    <3>2. tstart' = tstart /\ tstart <= Now
      BY <1>1, <1>3, <1>4, <2>1, <2>3, <3>1
    <3>3. QED
      BY <1>1, <1>2, <2>3, <3>1, <3>2 DEF SinceStart, WaitedOver
  <2>4. QED
    BY <2>2, <2>3
<1>6. SinceWrap'
  <2>1. SUFFICES ASSUME slips = {"wrap"} PROVE SinceWrap'
    BY <1>1 DEF SinceWrap
  <2>2. tstart' = tstart
    BY <1>1, <2>1 DEF Control
  <2>3. QED
    BY <1>1, <1>2, <2>1, <2>2 DEF Waiting, SinceWrap, WaitedOver
<1>7. WaitedEnough'
  BY <1>1 DEF WaitedEnough, Summed
<1>8. QED
  BY <1>5, <1>6, <1>7 DEF Waiting

(* A step that leaves the clock and the delay alone. *)
LEMMA WaitingFrame ==
  ASSUME Waiting, pc # "idle", pc # "zero", pc' # "zero",
         UNCHANGED <<raw, pending, cmn_systimer_counter, tstart, waited, lo, slips>>,
         pc' \in Summed => pc \in Summed /\ crtsys' = crtsys
  PROVE  Waiting'
<1>1. Ticks' = Ticks /\ WaitCap' = WaitCap /\ Shortfall' = Shortfall
  BY DEF Ticks, WaitCap, Shortfall
<1>2. SinceStart' /\ SinceWrap'
  BY <1>1 DEF Waiting, SinceStart, SinceWrap, WaitedOver
<1>3. WaitedEnough'
  BY <1>1 DEF Waiting, WaitedEnough, Elapsed
<1>4. QED
  BY <1>2, <1>3 DEF Waiting

(* Every step keeps account of what has been waited. *)
LEMMA WaitingStep ==
  ASSUME TypeOK, Control, ReadingInv, Waiting, [Next]_vars
  PROVE  Waiting'
<1>1. CASE cmn_systimer_periodic
  <2>1. /\ UNCHANGED <<raw, pc, crtsys, tstart, waited, lo>>
        /\ slips' = IF pc = "sys" THEN slips \cup {"late"} ELSE slips
        /\ pc # "zero" /\ Ticks' = Ticks
    BY <1>1, TimeStands DEF cmn_systimer_periodic, readvars, Control
  <2>2. (slips' = {} => slips = {}) /\ (slips' = {"wrap"} => slips = {"wrap"})
    <3>1. CASE pc = "sys"
      BY <2>1, <3>1
    <3>2. CASE pc # "sys"
      BY <2>1, <3>2
    <3>3. QED
      BY <3>1, <3>2
  <2>3. WaitCap' = WaitCap /\ Shortfall' = Shortfall
    BY DEF WaitCap, Shortfall
  <2>4. SinceStart' /\ SinceWrap'
    BY <2>1, <2>2, <2>3 DEF Waiting, SinceStart, SinceWrap, WaitedOver
  <2>5. WaitedEnough'
    BY <2>1, <2>2, <2>3 DEF Waiting, WaitedEnough, Elapsed
  <2>6. QED
    BY <2>4, <2>5 DEF Waiting
<1>2. CASE \E d \in Delays : platform_timer_delay(d)
  <2>1. /\ pc' = "cnt" /\ lo' = Now /\ waited' = 0 /\ slips' = {} /\ tstart' = NoTime
        /\ UNCHANGED <<raw, pending, cmn_systimer_counter>>
    BY <1>2 DEF platform_timer_delay, hwvars
  <2>2. Ticks' = Ticks
    BY <2>1 DEF Ticks
  <2>3. 0 > Ticks - (Now + 1) * TicksForUs
    <3>1. Now \in Nat /\ Ticks \in Nat /\ TicksForUs \in Nat /\ Ticks < Now * TicksForUs + TicksForUs
      BY NowFacts, ConstantFacts
    <3>2. (Now + 1) * TicksForUs = Now * TicksForUs + TicksForUs /\ Now * TicksForUs \in Nat
      BY <3>1
    <3>3. QED
      BY <3>1, <3>2
  <2>4. QED
    BY <2>1, <2>2, <2>3 DEF Waiting, SinceStart, SinceWrap, WaitedEnough, WaitedOver, Summed
<1>3. CASE ReadCnt
  BY <1>3, WaitingFrame DEF ReadCnt, hwvars, Summed
<1>4. CASE LoadHalf
  BY <1>4, WaitingFrame DEF LoadHalf, hwvars, Summed
<1>5. CASE ReadSys
  BY <1>5, WaitingFrame DEF ReadSys, hwvars, Summed
<1>6. CASE CheckSys
  BY <1>6, WaitingFrame DEF CheckSys, hwvars, Summed
<1>7. CASE Restart
  <2>1. /\ UNCHANGED <<raw, pending, crtsys, tstart, waited, lo, slips>>
        /\ pc = "zero" /\ pc' = "enable" /\ cmn_systimer_counter' = 0 /\ pending = "no"
    BY <1>7 DEF Restart, readvars, Control
  <2>2. slips # {}
    BY <2>1 DEF Control
  <2>3. Ticks' = raw /\ WaitCap' = WaitCap /\ Shortfall' = Shortfall
    BY <2>1, WaitFacts, ConstantFacts DEF Ticks, WaitCap, Shortfall
  <2>4. SinceStart' /\ SinceWrap'
    BY <2>1, <2>2, <2>3 DEF Waiting, SinceStart, SinceWrap, WaitedOver
  <2>5. WaitedEnough'
    BY <2>1, <2>3 DEF Waiting, WaitedEnough, Elapsed, Summed
  <2>6. QED
    BY <2>4, <2>5 DEF Waiting
<1>8. CASE EnableInt
  BY <1>8, WaitingFrame DEF EnableInt, readvars, Summed
<1>9. CASE UNCHANGED vars
  BY <1>9 DEF vars, hwvars, readvars, Waiting, SinceStart, SinceWrap, WaitedEnough, WaitedOver,
              Ticks, Elapsed, Shortfall, WaitCap
<1>10. QED
  BY <1>1, <1>2, <1>3, <1>4, <1>5, <1>6, <1>7, <1>8, <1>9, WaitingTick, WaitingSum, WaitingDiff
     DEF Next

-----------------------------------------------------------------------------
(* The invariant holds at start-up, ... *)
LEMMA InitIInv == Init => IInv
<1> SUFFICES ASSUME Init PROVE IInv
  OBVIOUS
<1>1. TypeOK /\ Control
  BY ConstantFacts DEF Init, TypeOK, Control, NoTime, Summed, Measured
<1>2. ReadingInv
  BY DEF Init, ReadingInv, InTime, AtSys, AtCheck, AtAgain, AtSum, AtDiff, Complete, Measured
<1>3. Waiting
  BY DEF Init, Waiting, SinceStart, SinceWrap, WaitedEnough, Summed
<1>4. QED
  BY <1>1, <1>2, <1>3 DEF IInv, Waiting

(* ... is kept by every step, ... *)
LEMMA StepIInv == IInv /\ [Next]_vars => IInv'
BY TypeStep, ReadingStep, WaitingStep DEF IInv, Waiting

(* ... and so holds always. *)
LEMMA Invariance == Spec => []IInv
BY InitIInv, StepIInv, PTL DEF Spec

(* The variables keep their types, for every choice of the constants.       *)
THEOREM TypeCorrect == Spec => []TypeOK
<1>1. IInv => TypeOK
  BY DEF IInv
<1>2. QED
  BY <1>1, Invariance, PTL

(* cmn_systimer_get never answers with a time before it was called, nor     *)
(* with one more than an interrupt period ahead, at every tick rate, period *)
(* and width of the counter's halves (unless the timer overflowed, or the   *)
(* reading was slow).                                                       *)
THEOREM ReadingAtMostOnePeriodAhead == Spec => []AtMostOnePeriodAhead
<1>1. IInv => AtMostOnePeriodAhead
  <2>1. SUFFICES ASSUME IInv, Complete PROVE lo <= crtsys /\ crtsys <= Now + Period
    BY DEF AtMostOnePeriodAhead
  <2>2. InReading(crtsys)
    BY <2>1 DEF IInv, ReadingInv, AtDiff
  <2>3. Now \in Nat /\ crtsys \in Nat /\ Period \in Nat
    BY <2>1, NowFacts, ConstantFacts DEF IInv, TypeOK
  <2>4. QED
    BY <2>2, <2>3 DEF InReading, Ahead
<1>2. QED
  BY <1>1, Invariance, PTL

(* If no interrupt came between its reading of the hardware count and the   *)
(* end of its first load of the counter, what cmn_systimer_get answers is   *)
(* the time of a moment of the call: wherever else the interrupts came,     *)
(* between the halves of a load too, no torn value gets through the         *)
(* comparison of the two loads.                                             *)
THEOREM ReadingExactUnlessLate == Spec => []ExactUnlessLate
<1>1. IInv => ExactUnlessLate
  <2>1. SUFFICES ASSUME IInv, Complete, slips = {} PROVE lo <= crtsys /\ crtsys <= Now
    BY DEF ExactUnlessLate
  <2>2. InReading(crtsys)
    BY <2>1 DEF IInv, ReadingInv, AtDiff
  <2>3. Now \in Nat
    BY <2>1, NowFacts DEF IInv
  <2>4. QED
    BY <2>1, <2>2, <2>3 DEF InReading, Ahead
<1>2. QED
  BY <1>1, Invariance, PTL

(* platform_timer_delay does not return early, but for the microsecond of   *)
(* its resolution, if no reading slipped; across an overflow of the timer   *)
(* it is short of Shortfall at most.                                        *)
THEOREM DelaysAreWaited == Spec => DelayIsWaited
<1> DEFINE Ended == pc # "idle" /\ pc' = "idle" =>
                      /\ slips = {} => waited > (delay - 1) * TicksForUs
                      /\ slips = {"wrap"} => waited > (delay - Shortfall) * TicksForUs
<1>1. IInv /\ [Next]_vars => [Ended]_vars
  <2>1. SUFFICES ASSUME IInv, [Next]_vars, pc # "idle", pc' = "idle" PROVE Ended
    OBVIOUS
  <2>2. Diff
    BY <2>1 DEF Next, vars, Tick, cmn_systimer_periodic, platform_timer_delay, ReadCnt, LoadHalf,
                ReadSys, CheckSys, Sum, Restart, EnableInt
  <2>3. pc = "diff" /\ tstart # NoTime /\ Elapsed(crtsys) >= delay
    BY <2>1, <2>2 DEF Diff
  <2>4. /\ slips = {} => waited > (Elapsed(crtsys) - 1) * TicksForUs
        /\ slips = {"wrap"} => waited > (Elapsed(crtsys) - Shortfall) * TicksForUs
    BY <2>1, <2>3 DEF IInv, WaitedEnough, Summed
  <2>5. /\ delay \in Nat /\ waited \in Nat /\ Elapsed(crtsys) \in Int
        /\ TicksForUs \in Nat \ {0} /\ Shortfall \in Nat
    BY <2>1, <2>3, WaitFacts, ConstantFacts, ShortfallFacts DEF IInv, TypeOK, Elapsed
  <2>6. /\ (delay - 1) * TicksForUs <= (Elapsed(crtsys) - 1) * TicksForUs
        /\ (delay - Shortfall) * TicksForUs <= (Elapsed(crtsys) - Shortfall) * TicksForUs
        /\ (delay - 1) * TicksForUs \in Int /\ (Elapsed(crtsys) - 1) * TicksForUs \in Int
        /\ (delay - Shortfall) * TicksForUs \in Int
        /\ (Elapsed(crtsys) - Shortfall) * TicksForUs \in Int
    <3>1. PICK e \in Int : e = Elapsed(crtsys)
      BY <2>5
    <3>2. delay - 1 <= e - 1 /\ delay - Shortfall <= e - Shortfall
      BY <2>3, <2>5, <3>1
    <3>3. QED
      BY <2>5, <3>1, <3>2, Multiples
  <2>7. QED
    BY <2>4, <2>5, <2>6
<1>2. QED
  BY <1>1, Invariance, PTL DEF Spec, DelayIsWaited
=============================================================================
