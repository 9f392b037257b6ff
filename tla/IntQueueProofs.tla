--------------------------- MODULE IntQueueProofs ---------------------------
(***************************************************************************)
(* Proofs about IntQueue for every queue size, every set of interrupt ids  *)
(* and resource numbers, with and without handlers that fail.              *)
(***************************************************************************)
EXTENDS IntQueue, TLAPS

(* Strengthening.  The ring part bounds the number of pending elements,     *)
(* one less while the hook still occupies the slot it has copied; the hook  *)
(* part says that only HookTail removes the hook, and that a coroutine is   *)
(* outside the hook as long as nothing went wrong.                          *)
CountBounded ==
  ~lapsed => Len(pending) <= (IF pc[Main] = "clear" THEN QSize - 1 ELSE QSize)

HookInside ==
  /\ ~lapsed /\ pc[Main] \in {"clear", "advance", "handler", "tail"}
       => HookInstalled(Main)
  /\ ~lapsed => pc[Co] \in {"closed", "vm"}
  /\ pc[Main] = "closed" => pending = <<>> /\ running = Main /\ pc[Co] = "closed"

IInv == /\ TypeOK
        /\ RingHoldsPending
        /\ CountBounded
        /\ HookInside
        /\ HookMatchesQueue
        /\ CleanWhenClosed

-----------------------------------------------------------------------------
(* Arithmetic of the ring: the next index, places and slots. *)
LEMMA RingNext ==
  ASSUME NEW b \in Slots
  PROVE  /\ NextIdx(b) \in Slots
         /\ OffsetFrom(b, b) = 0
         /\ OffsetFrom(NextIdx(b), b) = QSize - 1
         /\ SlotAt(b, 0) = b /\ SlotAt(b, QSize) = b
         /\ SlotAt(NextIdx(b), QSize - 1) = b
BY ConstantsAssumption DEF NextIdx, Slots, OffsetFrom, SlotAt

(* Every slot is found again at its offset, which shrinks when the base moves on. *)
LEMMA RingOffset ==
  ASSUME NEW b \in Slots, NEW s \in Slots
  PROVE  /\ OffsetFrom(b, s) \in 0 .. QSize - 1
         /\ s = SlotAt(b, OffsetFrom(b, s))
         /\ s # b => /\ OffsetFrom(NextIdx(b), s) = OffsetFrom(b, s) - 1
                     /\ OffsetFrom(b, s) >= 1
BY ConstantsAssumption DEF NextIdx, Slots, OffsetFrom, SlotAt

(* The slot at a given place, and how places follow each other. *)
LEMMA RingSlotAt ==
  ASSUME NEW b \in Slots, NEW n \in 0 .. QSize - 1
  PROVE  /\ SlotAt(b, n) \in Slots
         /\ OffsetFrom(b, SlotAt(b, n)) = n
         /\ NextIdx(SlotAt(b, n)) = SlotAt(b, n + 1)
         /\ SlotAt(b, n + 1) = SlotAt(NextIdx(b), n)
BY ConstantsAssumption DEF NextIdx, Slots, OffsetFrom, SlotAt

(* A sequence is empty exactly when its length is zero. *)
LEMMA EmptyIffLen0 ==
  ASSUME NEW S, NEW q \in Seq(S)
  PROVE  /\ Len(q) \in Nat
         /\ q # <<>> <=> Len(q) > 0
         /\ q # <<>> => q[1] \in S
OBVIOUS

(* What appending does, element by element. *)
LEMMA AppendFacts ==
  ASSUME NEW S, NEW q \in Seq(S), NEW e \in S
  PROVE  /\ Append(q, e) \in Seq(S)
         /\ Len(Append(q, e)) = Len(q) + 1
         /\ \A i \in 1 .. Len(q) : Append(q, e)[i] = q[i]
         /\ Append(q, e)[Len(q) + 1] = e
OBVIOUS

(* What taking the tail does, element by element. *)
LEMMA TailFacts ==
  ASSUME NEW S, NEW q \in Seq(S), q # <<>>
  PROVE  /\ Tail(q) \in Seq(S)
         /\ Len(Tail(q)) = Len(q) - 1
         /\ \A i \in 1 .. Len(q) - 1 : Tail(q)[i] = q[i + 1]
OBVIOUS

(* The initial state satisfies the inductive invariant. *)
LEMMA InitIInv == Init => IInv
<1> SUFFICES ASSUME Init PROVE IInv
  OBVIOUS
<1> USE ConstantsAssumption DEF Init, EmptySlot, Threads, Main, Co
<1>1. TypeOK
  BY DEF TypeOK, Slots, Elements, Blank, PCs, HookCount
<1>2. RingHoldsPending
  BY DEF RingHoldsPending, SlotRight, Base, Offset, OffsetFrom, SlotAt, Slots, Blank
<1>3. CountBounded /\ HookInside /\ HookMatchesQueue /\ CleanWhenClosed
  BY DEF CountBounded, HookInside, HookMatchesQueue, CleanWhenClosed, Blank,
         HookInstalled
<1>4. QED
  BY <1>1, <1>2, <1>3 DEF IInv

(* An accepted interrupt found a free slot, so the count stays in bounds. *)
LEMMA AddFindsRoom ==
  ASSUME IInv, ~lapsed, ~Overflow
  PROVE  Len(pending) < (IF pc[Main] = "clear" THEN QSize - 1 ELSE QSize)
<1> USE ConstantsAssumption DEF EmptySlot
<1>1. /\ read_idx \in Slots /\ write_idx \in Slots /\ pending \in Seq(Queued)
      /\ queue[write_idx].id = 0
  BY DEF IInv, TypeOK, Overflow
<1>2. /\ Len(pending) \in 0 .. QSize
      /\ write_idx = SlotAt(Base, Len(pending))
      /\ SlotRight(write_idx)
  BY <1>1, EmptyIffLen0 DEF IInv, CountBounded, RingHoldsPending
<1>3. CASE pc[Main] = "clear"
  <2>1. SUFFICES ASSUME Len(pending) = QSize - 1 PROVE FALSE
    BY <1>2, <1>3 DEF IInv, CountBounded
  <2>2. write_idx = read_idx /\ Offset(read_idx) = QSize - 1
    BY <1>1, <1>2, <1>3, <2>1, RingNext DEF Base, Offset
  <2>3. queue[write_idx].id = crt.id
    BY <1>2, <1>3, <2>1, <2>2 DEF SlotRight
  <2>4. QED
    BY <1>1, <1>3, <2>3 DEF IInv, HookMatchesQueue
<1>4. CASE pc[Main] # "clear"
  <2>1. SUFFICES ASSUME Len(pending) = QSize PROVE FALSE
    BY <1>2, <1>4 DEF IInv, CountBounded
  <2>2. Base \in Slots
    BY <1>1, RingNext DEF Base
  <2>3. write_idx = Base /\ Offset(write_idx) = 0
    BY <1>2, <2>1, <2>2, RingNext DEF Offset
  <2>4. queue[write_idx] = pending[1] /\ pending[1] \in Queued
    BY <1>1, <1>2, <2>1, <2>3, EmptyIffLen0 DEF SlotRight
  <2>5. QED
    BY <1>1, <2>4 DEF Queued, Ids
<1>5. QED
  BY <1>3, <1>4

(* Every step, by the part of the invariant it can disturb. *)
LEMMA StepIInv == IInv /\ [Next]_vars => IInv'
<1> SUFFICES ASSUME IInv, [Next]_vars PROVE IInv'
  OBVIOUS
<1> USE ConstantsAssumption DEF HookCount, EmptySlot, Threads, Main, Co, At, InLua, Goto
<1>t. TypeOK
  BY DEF IInv
<1>p. /\ pc \in [Threads -> PCs] /\ hookcount \in [Threads -> 0 .. HookCount]
      /\ running \in Threads
  BY <1>t DEF TypeOK
<1> USE <1>p
<1>b. /\ read_idx \in Slots /\ write_idx \in Slots /\ Base \in Slots
      /\ pending \in Seq(Queued) /\ Len(pending) \in Nat
      /\ ~lapsed => Len(pending) \in 0 .. QSize
  <2>1. read_idx \in Slots /\ write_idx \in Slots /\ pending \in Seq(Queued)
    BY <1>t DEF TypeOK
  <2>2. Len(pending) \in Nat
    BY <2>1, EmptyIffLen0
  <2>3. Base \in Slots
    BY <2>1, RingNext DEF Base
  <2>4. QED
    BY <2>1, <2>2, <2>3 DEF IInv, CountBounded
<1>1. ASSUME NEW id \in AnyId, NEW r \in Resnums, elua_int_add(id, r)
      PROVE  IInv'
  <2> DEFINE e == [id |-> id, resnum |-> r]
  <2>1. id \in Ids /\ pc[Main] # "closed" /\ ~Overflow
    BY <1>1 DEF elua_int_add, Ignored
  <2>2. e \in Elements /\ e \in Queued /\ e.id # 0
    BY <2>1 DEF Elements, Ids, Queued
  <2>3. ~lapsed => pending' = Append(pending, e)
    BY <1>1 DEF elua_int_add
  <2> HIDE DEF e
  <2>4. queue' = [queue EXCEPT ![write_idx] = e] /\ queue' \in [Slots -> Elements]
    BY <1>1, <1>t, <2>2 DEF elua_int_add, TypeOK, e
  <2>5. TypeOK'
    <3>1. pending' \in Seq(Queued)
      BY <1>1, <1>b, <2>2, <2>3, AppendFacts DEF elua_int_add
    <3>2. QED
      BY <1>1, <1>t, <1>b, <2>4, <3>1, RingNext DEF elua_int_add, ArmHook, TypeOK
  <2>6. RingHoldsPending' /\ CountBounded'
    <3>1. SUFFICES ASSUME ~lapsed PROVE RingHoldsPending' /\ CountBounded'
      BY <1>1 DEF elua_int_add, lapsed, RingHoldsPending, CountBounded
    <3>2. /\ Len(pending') = Len(pending) + 1
          /\ \A i \in 1 .. Len(pending) : pending'[i] = pending[i]
          /\ pending'[Len(pending) + 1] = e
      BY <1>b, <2>2, <2>3, <3>1, AppendFacts
    <3>3. Len(pending) < (IF pc[Main] = "clear" THEN QSize - 1 ELSE QSize)
      BY <2>1, <3>1, AddFindsRoom
    <3>4. CountBounded'
      BY <1>1, <1>b, <3>2, <3>3 DEF elua_int_add, CountBounded
    <3>5. Base' = Base /\ write_idx' = NextIdx(write_idx) /\ pc' = pc
          /\ read_idx' = read_idx /\ crt' = crt
      BY <1>1 DEF elua_int_add, Base, NextIdx
    <3>6. write_idx = SlotAt(Base, Len(pending)) /\ Len(pending) < QSize
      BY <1>b, <3>1, <3>3 DEF IInv, RingHoldsPending
    <3>7. write_idx' = SlotAt(Base', Len(pending'))
      BY <1>b, <3>1, <3>2, <3>5, <3>6, RingSlotAt
    <3>8. ASSUME NEW s \in Slots PROVE SlotRight(s)'
      <4>1. OffsetFrom(Base, s) \in 0 .. QSize - 1
        BY <1>b, RingOffset
      <4>2. CASE s = write_idx
        <5>1. OffsetFrom(Base, s) = Len(pending) /\ queue'[s] = e
          BY <1>t, <1>b, <2>4, <3>1, <3>6, <4>2, RingSlotAt DEF TypeOK
        <5>2. QED
          BY <1>b, <3>2, <3>5, <5>1 DEF SlotRight, Offset
      <4>3. CASE s # write_idx
        <5>1. OffsetFrom(Base, s) # Len(pending) /\ queue'[s] = queue[s]
          BY <1>t, <1>b, <2>4, <3>1, <3>6, <4>3, RingOffset DEF TypeOK
        <5>2. SlotRight(s)
          BY <3>1 DEF IInv, RingHoldsPending
        <5>3. QED
          BY <1>b, <3>2, <3>5, <4>1, <5>1, <5>2 DEF SlotRight, Offset
      <4>4. QED
        BY <4>2, <4>3
    <3>9. QED
      BY <3>4, <3>7, <3>8 DEF RingHoldsPending
  <2>7. HookInside' /\ HookMatchesQueue'
    <3>1. ~lapsed => pending' # <<>>
      BY <1>b, <2>2, <2>3, AppendFacts, EmptyIffLen0
    <3>2. QED
      BY <1>1, <2>1, <3>1 DEF elua_int_add, ArmHook, IInv, HookInside,
         HookMatchesQueue, HookInstalled, lapsed
  <2>8. QED
    BY <1>1, <2>1, <2>5, <2>6, <2>7 DEF elua_int_add, IInv, CleanWhenClosed
<1>2. CASE VMInstr(Main)
  BY <1>2, <1>t DEF VMInstr, CountOut, qvars, IInv, TypeOK, RingHoldsPending, SlotRight,
       CountBounded, HookInside, HookMatchesQueue, CleanWhenClosed, Base,
       Offset, HookInstalled, lapsed, PCs
<1>3. CASE HookTake(Main)
  <2>1. TypeOK'
    BY <1>3, <1>t, TailFacts DEF HookTake, ArmHook, PCs, qvars, TypeOK
  <2>2. ASSUME ~lapsed
        PROVE  /\ pending # <<>> /\ pending' = Tail(pending)
               /\ Len(pending') = Len(pending) - 1 /\ Len(pending) > 0
               /\ \A i \in 1 .. Len(pending) - 1 : pending'[i] = pending[i + 1]
               /\ crt' = queue[read_idx] /\ crt'.id # 0
    <3>1. pending # <<>>
      BY <1>3, <2>2 DEF HookTake, CountOut, IInv, HookMatchesQueue, HookInstalled
    <3>2. Len(pending) > 0 /\ pending[1] \in Queued
      BY <1>b, <3>1, EmptyIffLen0
    <3>3. Offset(read_idx) = 0
      BY <1>3, <1>b, RingNext DEF HookTake, Base, Offset
    <3>4. queue[read_idx] = pending[1]
      BY <1>b, <2>2, <3>2, <3>3 DEF IInv, RingHoldsPending, SlotRight
    <3>5. QED
      BY <1>3, <1>b, <3>1, <3>2, <3>4, TailFacts DEF HookTake, Queued, Ids
  <2>3. RingHoldsPending' /\ CountBounded'
    <3>1. SUFFICES ASSUME ~lapsed PROVE RingHoldsPending' /\ CountBounded'
      BY <1>3 DEF HookTake, lapsed, RingHoldsPending, CountBounded
    <3>2. Base = read_idx /\ Base' = NextIdx(read_idx) /\ pc[Main] = "vm" /\ pc'[Main] = "clear"
          /\ read_idx' = read_idx /\ write_idx' = write_idx /\ queue' = queue
      BY <1>3 DEF HookTake, Base, NextIdx, qvars
    <3>3. CountBounded'
      BY <1>b, <2>2, <3>1, <3>2 DEF CountBounded
    <3>4. write_idx' = SlotAt(Base', Len(pending'))
      <4>1. Len(pending) - 1 \in 0 .. QSize - 1 /\ Len(pending') = Len(pending) - 1
        BY <1>b, <2>2, <3>1
      <4>2. SlotAt(read_idx, Len(pending) - 1 + 1) = SlotAt(NextIdx(read_idx), Len(pending) - 1)
        BY <1>b, <4>1, RingSlotAt
      <4>3. Len(pending) - 1 + 1 = Len(pending)
        BY <1>b
      <4>4. QED
        BY <3>1, <3>2, <4>1, <4>2, <4>3 DEF IInv, RingHoldsPending
    <3>5. ASSUME NEW s \in Slots PROVE SlotRight(s)'
      <4>1. OffsetFrom(Base, s) \in 0 .. QSize - 1 /\ SlotRight(s)
        BY <1>b, <3>1, RingOffset DEF IInv, RingHoldsPending
      <4>2. CASE s = read_idx
        BY <1>b, <2>2, <3>1, <3>2, <4>2, RingNext DEF SlotRight, Offset
      <4>3. CASE s # read_idx
        <5>1. OffsetFrom(Base', s) = OffsetFrom(Base, s) - 1 /\ OffsetFrom(Base, s) >= 1
          BY <1>b, <3>1, <3>2, <4>3, RingOffset
        <5>2. QED
          BY <1>b, <2>2, <3>1, <3>2, <4>1, <4>3, <5>1 DEF SlotRight, Offset
      <4>4. QED
        BY <4>2, <4>3
    <3>6. QED
      BY <3>3, <3>4, <3>5 DEF RingHoldsPending
  <2>4. HookInside' /\ HookMatchesQueue' /\ CleanWhenClosed'
    BY <1>3, <2>2 DEF HookTake, ArmHook, IInv, HookInside, HookMatchesQueue, CleanWhenClosed,
         HookInstalled, lapsed
  <2>5. QED
    BY <2>1, <2>3, <2>4 DEF IInv
<1>4. CASE HookClear(Main)
  <2>1. TypeOK'
    BY <1>4, <1>t DEF HookClear, Elements, PCs, TypeOK
  <2>2. RingHoldsPending' /\ CountBounded'
    <3>1. SUFFICES ASSUME ~lapsed PROVE RingHoldsPending' /\ CountBounded'
      BY <1>4 DEF HookClear, lapsed, RingHoldsPending, CountBounded
    <3>2. /\ Base = NextIdx(read_idx) /\ Base' = Base /\ pc[Main] = "clear" /\ pc'[Main] = "advance"
          /\ read_idx' = read_idx /\ write_idx' = write_idx /\ pending' = pending
          /\ Len(pending) <= QSize - 1
      BY <1>4, <3>1 DEF HookClear, Base, NextIdx, IInv, CountBounded
    <3>3. CountBounded' /\ write_idx' = SlotAt(Base', Len(pending'))
      BY <1>b, <3>1, <3>2 DEF CountBounded, IInv, RingHoldsPending
    <3>4. ASSUME NEW s \in Slots PROVE SlotRight(s)'
      <4>1. SlotRight(s)
        BY <3>1 DEF IInv, RingHoldsPending
      <4>2. CASE s = read_idx
        <5>1. OffsetFrom(Base, s) = QSize - 1
          BY <1>b, <3>2, <4>2, RingNext
        <5>2. queue'[s].id = 0
          BY <1>4, <1>t, <4>2 DEF HookClear, TypeOK, Elements
        <5>3. QED
          BY <1>b, <3>2, <5>1, <5>2 DEF SlotRight, Offset
      <4>3. CASE s # read_idx
        <5>1. queue'[s] = queue[s]
          BY <1>4, <1>t, <4>3 DEF HookClear, TypeOK
        <5>2. QED
          BY <3>2, <4>1, <4>3, <5>1 DEF SlotRight, Offset
      <4>4. QED
        BY <4>2, <4>3
    <3>5. QED
      BY <3>3, <3>4 DEF RingHoldsPending
  <2>3. HookInside' /\ HookMatchesQueue' /\ CleanWhenClosed'
    BY <1>4 DEF HookClear, IInv, HookInside, HookMatchesQueue, CleanWhenClosed,
         HookInstalled, lapsed
  <2>4. QED
    BY <2>1, <2>2, <2>3 DEF IInv
<1>5. CASE HookAdvance(Main)
  <2>1. TypeOK'
    BY <1>5, <1>t, <1>b, RingNext DEF HookAdvance, PCs, TypeOK
  <2>2. RingHoldsPending' /\ CountBounded'
    BY <1>5, <1>t DEF HookAdvance, IInv, RingHoldsPending, CountBounded,
         SlotRight, Base, Offset, lapsed
  <2>3. HookInside' /\ HookMatchesQueue' /\ CleanWhenClosed'
    BY <1>5 DEF HookAdvance, IInv, HookInside, HookMatchesQueue, CleanWhenClosed,
         HookInstalled, lapsed
  <2>4. QED
    BY <2>1, <2>2, <2>3 DEF IInv
<1>6. CASE HandlerReturn(Main)
  BY <1>6, <1>t DEF HandlerReturn, qvars, IInv, TypeOK, RingHoldsPending, SlotRight,
       CountBounded, HookInside, HookMatchesQueue, CleanWhenClosed, Base,
       Offset, HookInstalled, lapsed, PCs
<1>7. CASE HandlerError(Main)
  BY <1>7, <1>t DEF HandlerError, qvars, IInv, TypeOK, RingHoldsPending,
       CountBounded, HookInside, HookMatchesQueue, CleanWhenClosed,
       HookInstalled, lapsed, PCs
<1>8. CASE HookTail(Main)
  <2>1. TypeOK' /\ RingHoldsPending' /\ CountBounded'
    BY <1>8, <1>t DEF HookTail, DisarmHook, PCs, qvars, TypeOK, IInv, RingHoldsPending,
         SlotRight, CountBounded, Base, Offset, lapsed
  <2>2. ASSUME ~lapsed
        PROVE  queue[read_idx].id = 0 <=> pending = <<>>
    <3>1. Offset(read_idx) = 0 /\ SlotRight(read_idx)
      BY <1>8, <1>b, <2>2, RingNext DEF HookTail, Base, Offset, IInv, RingHoldsPending
    <3>2. CASE pending = <<>>
      BY <1>8, <1>b, <3>1, <3>2, EmptyIffLen0 DEF SlotRight, HookTail
    <3>3. CASE pending # <<>>
      <4>1. pending[1] \in Queued /\ queue[read_idx] = pending[1]
        BY <1>b, <3>1, <3>3, EmptyIffLen0 DEF SlotRight
      <4>2. QED
        BY <3>3, <4>1 DEF Queued, Ids
    <3>4. QED
      BY <3>2, <3>3
  <2>3. HookInside' /\ HookMatchesQueue' /\ CleanWhenClosed'
    BY <1>8, <2>2 DEF HookTail, DisarmHook, IInv, HookInside, HookMatchesQueue, CleanWhenClosed,
         HookInstalled, lapsed
  <2>4. QED
    BY <2>1, <2>3 DEF IInv
<1>9. ASSUME NEW id \in Ids, NEW f \in {"nil", "function"},
             set_int_handler(id, f)
      PROVE  IInv'
  BY <1>9, <1>t DEF set_int_handler, qvars, IInv, TypeOK, RingHoldsPending, SlotRight,
       CountBounded, HookInside, HookMatchesQueue, CleanWhenClosed, Base,
       Offset, HookInstalled, lapsed
<1>10. CASE lua_open
  <2>1. TypeOK'
    BY <1>10, <1>t DEF lua_open, DisarmHook, PCs, qvars, TypeOK
  <2>2. /\ pending = <<>> /\ pending' = <<>> /\ Base' = read_idx
        /\ read_idx = write_idx /\ write_idx' = write_idx
        /\ \A s \in Slots : queue'[s].id = 0
    BY <1>10 DEF lua_open, qvars, IInv, HookInside, CleanWhenClosed, Base
  <2>3. HookInside' /\ HookMatchesQueue' /\ CleanWhenClosed' /\ CountBounded'
    BY <1>10, <2>2 DEF lua_open, DisarmHook, IInv, HookInside, HookMatchesQueue, CleanWhenClosed,
         CountBounded, HookInstalled
  <2>4. RingHoldsPending'
    <3>1. write_idx' = SlotAt(Base', Len(pending')) /\ Base' \in Slots
      BY <1>b, <2>2, RingNext
    <3>2. ASSUME NEW s \in Slots PROVE SlotRight(s)'
      <4>1. OffsetFrom(Base', s) \in 0 .. QSize - 1
        BY <3>1, RingOffset
      <4>2. QED
        BY <1>10, <2>2, <4>1 DEF lua_open, SlotRight, Offset
    <3>3. QED
      BY <3>1, <3>2 DEF RingHoldsPending
  <2>5. QED
    BY <2>1, <2>3, <2>4 DEF IInv
<1>11. CASE lua_close
  <2>1. TypeOK'
    BY <1>11, <1>t DEF lua_close, elua_int_cleanup, DisarmHook, PCs, Slots,
         Elements, Blank, TypeOK
  <2>2. RingHoldsPending'
    BY <1>11 DEF lua_close, elua_int_cleanup, RingHoldsPending, SlotRight, Base,
         Offset, OffsetFrom, SlotAt, Slots, Blank
  <2>3. HookInside' /\ HookMatchesQueue' /\ CleanWhenClosed' /\ CountBounded'
    BY <1>11 DEF lua_close, elua_int_cleanup, DisarmHook, IInv, CountBounded, HookInside,
         HookMatchesQueue, CleanWhenClosed, HookInstalled, Blank
  <2>4. QED
    BY <2>1, <2>2, <2>3 DEF IInv
<1>12. CASE Hook(Co)
  <2>1. lapsed' /\ TypeOK' /\ pc'[Main] = pc[Main] /\ running' = Co
    <3>1. CASE HookTake(Co)
      BY <1>12, <1>t, <3>1 DEF HookTake, ArmHook, PCs, qvars, TypeOK, lapsed
    <3>2. CASE HookClear(Co)
      BY <1>t, <3>2 DEF HookClear, Elements, PCs, TypeOK, lapsed, IInv, HookInside
    <3>3. CASE HookAdvance(Co)
      BY <1>t, <1>b, <3>3, RingNext DEF HookAdvance, PCs, TypeOK, lapsed, IInv, HookInside
    <3>4. CASE HandlerReturn(Co)
      BY <1>t, <3>4 DEF HandlerReturn, PCs, qvars, TypeOK, lapsed, IInv, HookInside
    <3>6. CASE HandlerError(Co)
      BY <1>t, <3>6 DEF HandlerError, PCs, qvars, TypeOK, lapsed, Queued
    <3>5. CASE HookTail(Co)
      BY <1>t, <3>5 DEF HookTail, DisarmHook, PCs, qvars, TypeOK, lapsed, IInv, HookInside
    <3>7. QED
      BY <1>12, <3>1, <3>2, <3>3, <3>4, <3>5, <3>6 DEF Hook
  <2>2. pc[Main] # "closed"
    BY <1>12 DEF Hook, HookTake, HookClear, HookAdvance, HandlerReturn, HandlerError,
       HookTail, IInv, HookInside
  <2>3. QED
    BY <2>1, <2>2 DEF IInv, RingHoldsPending, CountBounded, HookInside, HookMatchesQueue,
       CleanWhenClosed
<1>13. CASE VMInstr(Co) \/ luaE_newthread \/ lua_resume \/ lua_yield \/ CoroutineEnds
  <2>1. /\ UNCHANGED <<qvars, flags, handlers, crt, pending, lapses>>
        /\ pc'[Main] = pc[Main] /\ hookcount'[Main] = hookcount[Main]
        /\ pc[Main] # "closed" /\ running' \in Threads
        /\ hookcount' \in [Threads -> 0 .. HookCount] /\ pc' \in [Threads -> PCs]
        /\ ~lapsed => pc'[Co] \in {"closed", "vm"}
    <3>1. CASE VMInstr(Co)
      BY <3>1 DEF VMInstr, HookInstalled, IInv, HookInside, qvars
    <3>2. CASE luaE_newthread
      BY <3>2 DEF luaE_newthread, ArmHook, DisarmHook, PCs, qvars
    <3>3. CASE lua_resume \/ lua_yield
      BY <3>3 DEF lua_resume, lua_yield, IInv, HookInside, qvars
    <3>4. CASE CoroutineEnds
      BY <3>4 DEF CoroutineEnds, DisarmHook, PCs, IInv, HookInside, qvars
    <3>5. QED
      BY <1>13, <3>1, <3>2, <3>3, <3>4
  <2>2. \A s \in Slots : SlotRight(s)' = SlotRight(s)
    BY <2>1 DEF qvars, SlotRight, Base, Offset
  <2>3. TypeOK' /\ RingHoldsPending' /\ CountBounded'
    BY <1>t, <2>1, <2>2 DEF qvars, TypeOK, IInv, RingHoldsPending, CountBounded, Base, lapsed
  <2>4. HookInside' /\ HookMatchesQueue' /\ CleanWhenClosed'
    BY <2>1 DEF qvars, IInv, HookInside, HookMatchesQueue, CleanWhenClosed, HookInstalled, lapsed
  <2>5. QED
    BY <2>1, <2>3, <2>4 DEF IInv
<1>14. CASE UNCHANGED vars
  BY <1>14, <1>t DEF vars, IInv, TypeOK, RingHoldsPending, SlotRight,
       CountBounded, HookInside, HookMatchesQueue, CleanWhenClosed, Base,
       Offset, HookInstalled, Overflow, lapsed
<1>15. QED
  BY <1>1, <1>2, <1>3, <1>4, <1>5, <1>6, <1>7, <1>8, <1>9, <1>10, <1>11,
     <1>12, <1>13, <1>14 DEF Next, Hook

-----------------------------------------------------------------------------
(* The inductive invariant holds in every reachable state. *)
THEOREM Invariance == Spec => []IInv
<1>1. Init => IInv
  BY InitIInv
<1>2. IInv /\ [Next]_vars => IInv'
  BY StepIInv
<1>3. QED
  BY <1>1, <1>2, PTL DEF Spec

(* Type correctness of the interrupt queue, the indexes included: the       *)
(* masks in elua_int_hook and elua_int_add keep them inside the queue.      *)
THEOREM TypeCorrect == Spec => []TypeOK
<1>1. IInv => TypeOK
  BY DEF IInv
<1>2. QED
  BY <1>1, Invariance, PTL

(* The ring is a first-in first-out queue of the accepted interrupts, for   *)
(* every queue size and wherever elua_int_add interrupts elua_int_hook.     *)
THEOREM RingIsFifo == Spec => []RingHoldsPending
<1>1. IInv => RingHoldsPending
  BY DEF IInv
<1>2. QED
  BY <1>1, Invariance, PTL

(* elua_int_hook never misses a wake-up and never runs on an empty queue,   *)
(* as long as no Lua handler raises an error and no coroutine runs a hook   *)
(* that it inherited from its creator.                                      *)
THEOREM NoLostWakeup == Spec => []HookMatchesQueue
<1>1. IInv => HookMatchesQueue
  BY DEF IInv
<1>2. QED
  BY <1>1, Invariance, PTL

(* lua_close leaves a clean queue, after handler errors too. *)
THEOREM CloseIsClean == Spec => []CleanWhenClosed
<1>1. IInv => CleanWhenClosed
  BY DEF IInv
<1>2. QED
  BY <1>1, Invariance, PTL

(* elua_int_add reports an overflow only when every slot is in use. *)
THEOREM OverflowIsReal == Spec => []OverflowIffFull
<1>1. IInv => OverflowIffFull
  <2> SUFFICES ASSUME IInv, ~lapsed
               PROVE  Overflow <=>
                        Len(pending) + (IF pc[Main] = "clear" THEN 1 ELSE 0) = QSize
    BY DEF OverflowIffFull
  <2> USE ConstantsAssumption
  <2>1. /\ write_idx \in Slots /\ read_idx \in Slots /\ Base \in Slots
        /\ pending \in Seq(Queued) /\ Len(pending) \in 0 .. QSize
        /\ Len(pending) <= (IF pc[Main] = "clear" THEN QSize - 1 ELSE QSize)
    BY RingNext, EmptyIffLen0 DEF IInv, TypeOK, CountBounded, Base
  <2>2. Overflow => Len(pending) + (IF pc[Main] = "clear" THEN 1 ELSE 0) = QSize
    <3>1. SUFFICES ASSUME Len(pending) + (IF pc[Main] = "clear" THEN 1 ELSE 0) < QSize
                   PROVE  ~Overflow
      BY <2>1
    <3>2. write_idx = SlotAt(Base, Len(pending)) /\ SlotRight(write_idx)
      BY <2>1 DEF IInv, RingHoldsPending
    <3>3. Len(pending) \in 0 .. QSize - 1 /\ Offset(write_idx) = Len(pending)
      BY <2>1, <3>1, <3>2, RingSlotAt DEF Offset
    <3>4. pc[Main] = "clear" => Offset(read_idx) = QSize - 1
      BY <2>1, RingNext DEF Base, Offset
    <3>5. QED
      BY <2>1, <3>1, <3>2, <3>3, <3>4 DEF SlotRight, Overflow, EmptySlot
  <2>3. ~Overflow => Len(pending) + (IF pc[Main] = "clear" THEN 1 ELSE 0) # QSize
    BY <2>1, AddFindsRoom
  <2>4. QED
    BY <2>2, <2>3
<1>2. QED
  BY <1>1, Invariance, PTL
(* A sequence is its first element followed by the rest. *)
LEMMA FirstAndRest ==
  ASSUME NEW S, NEW q \in Seq(S), q # <<>>
  PROVE  q = <<q[1]>> \o Tail(q)
OBVIOUS

(* Every step but lua_close keeps the queued interrupts in order and takes  *)
(* away at most the oldest, for every queue size: elua_int_hook hands out   *)
(* exactly the element that was accepted first.                             *)
THEOREM OldestFirst == Spec => OnlyTheOldestLeaves
<1> DEFINE Fine == \/ lapsed' \/ pc'[Main] = "closed"
                   \/ pending' = pending
                   \/ \E id \in Ids, r \in Resnums :
                        pending' = Append(pending, [id |-> id, resnum |-> r])
                   \/ pending = <<crt'>> \o pending'
<1>1. IInv /\ Next => Fine
  <2> SUFFICES ASSUME IInv, Next PROVE Fine
    OBVIOUS
  <2>1. CASE \E id \in AnyId, r \in Resnums : elua_int_add(id, r)
    BY <2>1 DEF elua_int_add, Ignored
  <2>2. CASE HookTake(Main)
    <3> SUFFICES ASSUME ~lapsed PROVE Fine
      BY <2>2 DEF HookTake, lapsed
    <3>1. pc[Main] = "vm" /\ HookInstalled(Main)
      BY <2>2 DEF HookTake, CountOut, HookInstalled, At
    <3>2. pending # <<>> /\ pending \in Seq(Queued) /\ read_idx \in Slots
      BY <3>1 DEF IInv, HookMatchesQueue, TypeOK
    <3>3. Base = read_idx
      BY <3>1 DEF Base
    <3>4. Offset(read_idx) = 0
      BY <3>2, <3>3, RingNext DEF Offset
    <3>5. SlotRight(read_idx)
      BY <3>2 DEF IInv, RingHoldsPending
    <3>6. Len(pending) > 0
      BY <3>2, EmptyIffLen0
    <3>7. queue[read_idx] = pending[1]
      BY <3>4, <3>5, <3>6 DEF SlotRight
    <3>8. crt' = pending[1] /\ pending' = Tail(pending)
      BY <2>2, <3>2, <3>7 DEF HookTake
    <3>9. QED
      BY <3>2, <3>8, FirstAndRest
  <2>3. CASE HookTake(Co) \/ (\E t \in Threads : HandlerError(t)) \/ lua_close
    BY <2>3 DEF HookTake, HandlerError, lua_close, lapsed, Main, Co, Threads
  <2>4. CASE \/ \E t \in Threads : \/ VMInstr(t) \/ HookClear(t) \/ HookAdvance(t)
                                   \/ HandlerReturn(t) \/ HookTail(t)
             \/ luaE_newthread \/ lua_resume \/ lua_yield \/ CoroutineEnds \/ lua_open
    BY <2>4 DEF VMInstr, HookClear, HookAdvance, HandlerReturn, HookTail, luaE_newthread,
       lua_resume, lua_yield, CoroutineEnds, lua_open
  <2>5. CASE \E id \in Ids, f \in {"nil", "function"} : set_int_handler(id, f)
    BY <2>5 DEF set_int_handler
  <2>6. QED
    BY <2>1, <2>2, <2>3, <2>4, <2>5 DEF Next, Hook, Threads
<1>2. IInv /\ [Next]_vars => [Fine]_vars
  BY <1>1
<1>3. QED
  BY <1>2, Invariance, PTL DEF Spec, OnlyTheOldestLeaves
=============================================================================
