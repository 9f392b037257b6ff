---------------------------- MODULE UartBufProofs ---------------------------
(***************************************************************************)
(* Proofs about UartBuf for any number of UARTs, any bytes and any buffer  *)
(* sizes the driver accepts.                                               *)
(***************************************************************************)
EXTENDS UartBuf, TLAPS

(* The values of the variables. *)
Descs   == [logsize : 0 .. 15, rptr : Nat, wptr : Nat, count : Int]
Ops     == [uart : Uarts, logsize : 0 .. 15, timeout : {"none", "limited", "infinite"}]
AnyByte == Byte \cup {NoByte}
States  == {"ok", "over", "stale", "wild"}

TypeOK ==
  /\ desc \in [Uarts -> Descs]
  /\ alloc \in [Uarts -> 0 .. MaxCells]
  /\ mem \in [Uarts -> [Cells -> AnyByte]]
  /\ hw \in [Uarts -> AnyByte]
  /\ rxint \subseteq Uarts
  /\ chandler \in {"none", "cmn"} /\ prev \in {"none", "cmn"}
  /\ pc \in {"idle", "recv", "count", "rptr", "off", "realloc", "store", "reset", "setup"}
  /\ op \in Ops
  /\ data \in AnyByte
  /\ unread \in [Uarts -> Seq(Byte)]
  /\ health \in [Uarts -> States]

(* Strengthening: the heap block has the size of the buffer, except while   *)
(* buf_set is between the assignments of the new size and of the block, or  *)
(* of "no buffer"; and a reader is never overtaken by a change of size.     *)
BlockFits(u) ==
  /\ desc[u].logsize \in {SizeNone} \cup LogSizes[u]
  /\ buf_is_enabled(u) /\ ~(pc \in {"realloc", "store", "reset"} /\ op.uart = u)
       => alloc[u] = RealSize(desc[u])

InOperation ==
  /\ pc \in {"count", "rptr", "realloc", "store"} => buf_is_enabled(op.uart)
  /\ pc \in {"realloc", "store"} => op.logsize = desc[op.uart].logsize

IInv == /\ TypeOK
        /\ \A u \in Uarts : BlockFits(u)
        /\ InOperation
        /\ BufferIsQueue
        /\ OverfullByOne

-----------------------------------------------------------------------------
(* The powers of two a buffer size can be. *)
LEMMA PowerOfTwo ==
  ASSUME NEW l \in 0 .. 15, NEW k \in 0 .. l
  PROVE  2 ^ l \in Nat \ {0} /\ 2 ^ k <= 2 ^ l
<1> DEFINE p(n) == 2 ^ n
<1>1. /\ p(0) = 1 /\ p(1) = 2 /\ p(2) = 4 /\ p(3) = 8 /\ p(4) = 16 /\ p(5) = 32
      /\ p(6) = 64 /\ p(7) = 128 /\ p(8) = 256 /\ p(9) = 512 /\ p(10) = 1024
      /\ p(11) = 2048 /\ p(12) = 4096 /\ p(13) = 8192 /\ p(14) = 16384 /\ p(15) = 32768
  OBVIOUS
<1> HIDE DEF p
<1>2. p(l) \in Nat \ {0} /\ p(k) <= p(l)
  BY <1>1
<1>3. QED
  BY <1>2 DEF p

(* A set of buffer sizes has a largest one. *)
LEMMA LargestExists ==
  ASSUME NEW S \in SUBSET (1 .. 15), S # {}
  PROVE  \E l \in S : \A k \in S : k <= l
<1>1. SUFFICES ASSUME \A l \in S : \E k \in S : l < k PROVE FALSE
  OBVIOUS
<1>2. \A l \in S : l < 11
  BY <1>1
<1>3. \A l \in S : l < 6
  BY <1>1, <1>2
<1>4. \A l \in S : l < 1
  BY <1>1, <1>3
<1>5. PICK l \in S : TRUE
  OBVIOUS
<1>6. QED
  BY <1>4, <1>5

(* The modelled memory has a cell for every place of the largest buffer. *)
LEMMA CellsSuffice ==
  /\ MaxCells \in Nat
  /\ \A u \in Uarts : \A l \in LogSizes[u] : l \in 1 .. 15 /\ 2 ^ l <= MaxCells
<1> DEFINE Largest == CHOOSE l \in LogSize : \A k \in LogSize : k <= l
<1>1. LogSize \in SUBSET (1 .. 15) /\ LogSize # {}
  BY ConstantsAssumption DEF LogSize
<1>2. Largest \in LogSize /\ \A k \in LogSize : k <= Largest
  BY <1>1, LargestExists
<1>3. ASSUME NEW k \in LogSize PROVE 2 ^ k <= 2 ^ Largest /\ 2 ^ Largest \in Nat
  <2> HIDE DEF Largest
  <2>1. Largest \in 0 .. 15 /\ k \in 0 .. Largest
    BY <1>1, <1>2
  <2>2. QED
    BY <2>1, PowerOfTwo
<1>4. QED
  BY <1>1, <1>2, <1>3 DEF MaxCells, LogSize

(* Places in a ring of R cells. *)
LEMMA RingPlace ==
  ASSUME NEW R \in Nat \ {0}, NEW b \in 0 .. R, NEW n \in 0 .. R
  PROVE  /\ (b + n) % R \in 0 .. R - 1
         /\ (((b + n) % R) + 1) % R = (b + (n + 1)) % R
<1>1. b + n < R => (b + n) % R = b + n
  OBVIOUS
<1>2. R <= b + n /\ b + n < 2 * R => (b + n) % R = b + n - R
  OBVIOUS
<1>3. b + n = 2 * R => (b + n) % R = 0
  OBVIOUS
<1>4. b + n + 1 < R => (b + n + 1) % R = b + n + 1
  OBVIOUS
<1>5. R <= b + n + 1 /\ b + n + 1 < 2 * R => (b + n + 1) % R = b + n + 1 - R
  OBVIOUS
<1>6. 2 * R <= b + n + 1 /\ b + n + 1 < 3 * R => (b + n + 1) % R = b + n + 1 - 2 * R
  OBVIOUS
<1>7. QED
  BY <1>1, <1>2, <1>3, <1>4, <1>5, <1>6

(* Different places of a ring are different cells. *)
LEMMA RingDistinct ==
  ASSUME NEW R \in Nat \ {0}, NEW b \in 0 .. R, NEW n \in 0 .. R - 1, NEW i \in 0 .. n - 1
  PROVE  (b + i) % R # (b + n) % R
<1>1. b + n < R => (b + n) % R = b + n
  OBVIOUS
<1>2. R <= b + n /\ b + n < 2 * R => (b + n) % R = b + n - R
  OBVIOUS
<1>3. b + i < R => (b + i) % R = b + i
  OBVIOUS
<1>4. R <= b + i /\ b + i < 2 * R => (b + i) % R = b + i - R
  OBVIOUS
<1>5. QED
  BY <1>1, <1>2, <1>3, <1>4

(* Moving the read pointer to the next cell renames no place. *)
LEMMA RingAdvance ==
  ASSUME NEW R \in Nat \ {0}, NEW b \in 0 .. R - 1, NEW n \in 0 .. R
  PROVE  /\ (b + 1) % R \in 0 .. R - 1
         /\ (((b + 1) % R) + n) % R = (b + 1 + n) % R
<1>1. b + 1 < R => (b + 1) % R = b + 1
  OBVIOUS
<1>2. b + 1 = R => (b + 1) % R = 0
  OBVIOUS
<1>3. R + n < 2 * R => (R + n) % R = n /\ n % R = n
  OBVIOUS
<1>4. n = R => (R + n) % R = 0 /\ n % R = 0
  OBVIOUS
<1>5. QED
  BY <1>1, <1>2, <1>3, <1>4

(* Places counted from the read pointer and from the cell after it. *)
LEMMA RingShift ==
  ASSUME NEW R \in Nat \ {0}, NEW b \in 0 .. R - 1, NEW n \in Int
  PROVE  /\ (b + 1 - 1) % R = b /\ (b + 0) % R = b
         /\ ((b + 1) + (n - 1)) % R = (b + n) % R
OBVIOUS

(* What appending does, element by element. *)
LEMMA AppendFacts ==
  ASSUME NEW S, NEW q \in Seq(S), NEW e \in S
  PROVE  /\ Append(q, e) \in Seq(S)
         /\ Len(q) \in Nat /\ Len(Append(q, e)) = Len(q) + 1
         /\ \A i \in 1 .. Len(q) : Append(q, e)[i] = q[i]
         /\ Append(q, e)[Len(q) + 1] = e
OBVIOUS

(* What taking the tail does, element by element. *)
LEMMA TailFacts ==
  ASSUME NEW S, NEW q \in Seq(S), q # <<>>
  PROVE  /\ Tail(q) \in Seq(S) /\ q[1] \in S
         /\ Len(q) \in Nat \ {0} /\ Len(Tail(q)) = Len(q) - 1
         /\ \A i \in 1 .. Len(q) - 1 : Tail(q)[i] = q[i + 1]
         /\ q = <<q[1]>> \o Tail(q)
OBVIOUS

(* The fields of a descriptor. *)
LEMMA DescFields ==
  ASSUME NEW dd \in [Uarts -> Descs], NEW u \in Uarts
  PROVE  /\ dd[u].logsize \in 0 .. 15 /\ dd[u].rptr \in Nat
         /\ dd[u].wptr \in Nat /\ dd[u].count \in Int
BY DEF Descs

(* Assignments to the fields of a descriptor: to write pointer and count, ... *)
LEMMA DescWritten ==
  ASSUME NEW dd \in [Uarts -> Descs], NEW u \in Uarts, NEW w \in Nat, NEW c \in Int
  PROVE  [dd EXCEPT ![u].wptr = w, ![u].count = c] \in [Uarts -> Descs]
BY DEF Descs

(* ... to the count, ... *)
LEMMA DescCounted ==
  ASSUME NEW dd \in [Uarts -> Descs], NEW u \in Uarts
  PROVE  [dd EXCEPT ![u].count = @ - 1] \in [Uarts -> Descs]
BY DEF Descs

(* ... to the size, ... *)
LEMMA DescSized ==
  ASSUME NEW dd \in [Uarts -> Descs], NEW u \in Uarts, NEW l \in 0 .. 15
  PROVE  [dd EXCEPT ![u].logsize = l] \in [Uarts -> Descs]
BY DEF Descs

(* ... and to the read pointer. *)
LEMMA DescAdvanced ==
  ASSUME NEW dd \in [Uarts -> Descs], NEW u \in Uarts, NEW r \in Nat
  PROVE  [dd EXCEPT ![u] = [dd[u] EXCEPT !.rptr = r]] \in [Uarts -> Descs]
BY DEF Descs

(* A byte written to the memory. *)
LEMMA MemWritten ==
  ASSUME NEW m \in [Uarts -> [Cells -> AnyByte]], NEW u \in Uarts, NEW b \in AnyByte, NEW w
  PROVE  [m EXCEPT ![u][w] = b] \in [Uarts -> [Cells -> AnyByte]]
OBVIOUS

(* A buffer has at least one cell, and its places are cells. *)
LEMMA SizeFacts ==
  ASSUME TypeOK, NEW u \in Uarts, BlockFits(u)
  PROVE  /\ RealSize(desc[u]) \in Nat \ {0}
         /\ buf_is_enabled(u) => \A c \in 0 .. RealSize(desc[u]) - 1 : c \in Cells
<1>1. desc[u].logsize \in 0 .. 15 /\ 0 \in 0 .. desc[u].logsize
  <2>1. desc \in [Uarts -> Descs]
    BY DEF TypeOK
  <2>2. QED
    BY <2>1, DescFields
<1>2. RealSize(desc[u]) \in Nat \ {0}
  BY <1>1, PowerOfTwo DEF RealSize
<1>3. buf_is_enabled(u) => RealSize(desc[u]) <= MaxCells
  BY <1>1, CellsSuffice DEF BlockFits, buf_is_enabled, RealSize
<1>4. QED
  BY <1>2, <1>3, CellsSuffice DEF Cells

-----------------------------------------------------------------------------
(* What the invariant says of one buffer. *)
Healthy(u) ==
  /\ health[u] = "ok" => IsQueue(u)
  /\ health[u] \in {"ok", "over"} /\ buf_is_enabled(u) => InBounds(u)

(* The invariant, buffer by buffer. *)
LEMMA IInvByBuffer ==
  IInv <=> TypeOK /\ InOperation /\ \A u \in Uarts : BlockFits(u) /\ Healthy(u)
BY DEF IInv, BufferIsQueue, OverfullByOne, Healthy

(* The initial state satisfies the inductive invariant. *)
LEMMA InitIInv == Init => IInv
<1> SUFFICES ASSUME Init PROVE IInv
  OBVIOUS
<1>1. TypeOK
  <2>1. NoOp \in Ops
    BY ConstantsAssumption DEF NoOp, SizeNone, Ops
  <2>2. desc \in [Uarts -> Descs]
    BY DEF Init, Descs, SizeNone
  <2>3. alloc \in [Uarts -> 0 .. MaxCells]
    BY CellsSuffice DEF Init
  <2>4. QED
    BY <2>1, <2>2, <2>3 DEF Init, TypeOK, AnyByte, States
<1>2. InOperation
  BY DEF Init, InOperation
<1>3. ASSUME NEW u \in Uarts PROVE BlockFits(u) /\ Healthy(u)
  BY DEF Init, BlockFits, Healthy, IsQueue, buf_is_enabled
<1>4. QED
  BY <1>1, <1>2, <1>3, IInvByBuffer

(* A step that leaves a buffer and the reader's place in it alone keeps it healthy. *)
LEMMA Frame ==
  ASSUME NEW u \in Uarts, Healthy(u),
         desc'[u] = desc[u], mem'[u] = mem[u], unread'[u] = unread[u],
         health'[u] = health[u], InRead(u)' <=> InRead(u),
         (pc = "count" /\ op.uart = u)' <=> (pc = "count" /\ op.uart = u)
  PROVE  Healthy(u)'
BY DEF Healthy, IsQueue, InBounds, buf_is_enabled, Base, RealSize

(* Types are preserved. *)
LEMMA TypeStep == IInv /\ [Next]_vars => TypeOK'
<1> SUFFICES ASSUME IInv, [Next]_vars PROVE TypeOK'
  OBVIOUS
<1>t. TypeOK
  BY DEF IInv
<1>d. desc \in [Uarts -> Descs] /\ op \in Ops /\ op.uart \in Uarts /\ op.logsize \in 0 .. 15
  BY <1>t DEF TypeOK, Ops
<1>n. NoOp \in Ops
  BY ConstantsAssumption DEF NoOp, SizeNone, Ops
<1>b. \A u \in Uarts : Bytes[u] \subseteq Byte
  BY DEF Byte
<1>r. ASSUME NEW u \in Uarts, NEW q \in Nat PROVE ModIncr(q, desc[u]) \in Nat
  <2>1. RealSize(desc[u]) \in Nat \ {0}
    BY <1>t, SizeFacts DEF IInv
  <2>2. QED
    BY <2>1 DEF ModIncr
<1>k. ASSUME NEW u \in Uarts, NEW size \in Nat
      PROVE  Kept(u, size) \in [Cells -> AnyByte]
  <2>1. mem[u] \in [Cells -> AnyByte] /\ NoByte \in AnyByte
    BY <1>t DEF TypeOK, AnyByte
  <2>2. QED
    BY <2>1 DEF Kept
<1>1. ASSUME NEW u \in Uarts, NEW b \in Bytes[u], Receive(u, b) PROVE TypeOK'
  BY <1>1, <1>t, <1>b DEF TypeOK, Receive, bufvars, intvars, AnyByte
<1>2. ASSUME NEW u \in Uarts, cmn_uart_rx_inthandler(u) PROVE TypeOK'
  <2>1. hw[u] \in Byte /\ hw[u] \in AnyByte /\ hw' \in [Uarts -> AnyByte]
    BY <1>2, <1>t DEF TypeOK, cmn_uart_rx_inthandler, AnyByte
  <2>2. ModIncr(desc[u].wptr, desc[u]) \in Nat /\ desc[u].count + 1 \in Int
    BY <1>d, <1>r, DescFields
  <2>b. buf_write(u, hw[u])
    BY <1>2 DEF cmn_uart_rx_inthandler
  <2>3. unread' \in [Uarts -> Seq(Byte)]
    <3>1. unread \in [Uarts -> Seq(Byte)] /\ Append(unread[u], hw[u]) \in Seq(Byte)
      BY <1>t, <2>1, AppendFacts DEF TypeOK
    <3>2. QED
      BY <2>b, <3>1 DEF buf_write
  <2>4. desc' \in [Uarts -> Descs]
    <3>1. [desc EXCEPT ![u].wptr = ModIncr(desc[u].wptr, desc[u]), ![u].count = desc[u].count + 1]
            \in [Uarts -> Descs]
      BY <1>d, <2>2, DescWritten
    <3>2. QED
      BY <2>b, <1>d, <3>1 DEF buf_write
  <2>5. mem' \in [Uarts -> [Cells -> AnyByte]]
    <3>1. mem \in [Uarts -> [Cells -> AnyByte]]
      BY <1>t DEF TypeOK
    <3>2. [mem EXCEPT ![u][desc[u].wptr] = hw[u]] \in [Uarts -> [Cells -> AnyByte]]
      BY <2>1, <3>1, MemWritten
    <3>3. QED
      BY <2>b, <3>1, <3>2 DEF buf_write
  <2>6. health' \in [Uarts -> States]
    <3>1. health \in [Uarts -> States]
      BY <1>t DEF TypeOK
    <3>2. QED
      BY <2>b, <3>1 DEF buf_write, States
  <2>7. QED
    BY <1>2, <1>t, <2>1, <2>3, <2>4, <2>5, <2>6 DEF TypeOK, cmn_uart_rx_inthandler, intvars
<1>3. ASSUME NEW u \in Uarts, NEW t \in {"limited", "infinite"}, platform_uart_recv(u, t)
      PROVE  TypeOK'
  BY <1>3, <1>t DEF TypeOK, Ops, platform_uart_recv, bufvars, intvars, SizeNone
<1>4. CASE BufReadCopy
  <2>1. ASSUME NEW c \in Nat PROVE Contents(op.uart, c) \subseteq AnyByte
    <3>1. mem[op.uart] \in [Cells -> AnyByte] /\ Bytes[op.uart] \subseteq AnyByte
      BY <1>t, <1>b, <1>d DEF TypeOK, AnyByte
    <3>2. alloc[op.uart] \in 0 .. MaxCells
      BY <1>t, <1>d DEF TypeOK
    <3>3. c < alloc[op.uart] => c \in Cells
      BY <3>2, CellsSuffice DEF Cells
    <3>4. QED
      BY <3>1, <3>3 DEF Contents
  <2>2. data' \in AnyByte
    BY <1>4, <1>d, <2>1, DescFields DEF BufReadCopy
  <2>3. unread' \in [Uarts -> Seq(Byte)]
    <3>1. unread \in [Uarts -> Seq(Byte)]
      BY <1>t DEF TypeOK
    <3>2. unread[op.uart] # <<>> => Tail(unread[op.uart]) \in Seq(Byte)
      BY <1>d, <3>1, TailFacts
    <3>3. QED
      BY <1>4, <1>d, <3>1, <3>2 DEF BufReadCopy
  <2>4. QED
    BY <1>4, <1>t, <2>2, <2>3 DEF TypeOK, BufReadCopy, bufvars, intvars
<1>5. CASE BufReadCount
  <2>1. desc' \in [Uarts -> Descs]
    BY <1>5, <1>d, DescCounted DEF BufReadCount
  <2>2. QED
    BY <1>5, <1>t, <2>1 DEF TypeOK, BufReadCount, intvars
<1>6. CASE BufReadAdvance
  <2>1. ModIncr(desc[op.uart].rptr, desc[op.uart]) \in Nat
    BY <1>d, <1>r, DescFields
  <2>2. desc' \in [Uarts -> Descs]
    BY <1>6, <1>d, <2>1, DescAdvanced DEF BufReadAdvance
  <2>3. unread' \in [Uarts -> Seq(Byte)] /\ health' \in [Uarts -> States]
    <3>1. unread \in [Uarts -> Seq(Byte)] /\ health \in [Uarts -> States]
      BY <1>t DEF TypeOK
    <3>2. "ok" \in States /\ <<>> \in Seq(Byte)
      BY DEF States
    <3>3. QED
      BY <1>6, <1>d, <3>1, <3>2 DEF BufReadAdvance
  <2>4. QED
    BY <1>6, <1>t, <1>n, <2>2, <2>3 DEF TypeOK, BufReadAdvance, intvars, AnyByte
<1>7. CASE RecvDirect
  BY <1>7, <1>t, <1>n DEF TypeOK, RecvDirect, bufvars, intvars, AnyByte
<1>8. CASE RecvTimeout
  BY <1>8, <1>t, <1>n DEF TypeOK, RecvTimeout, bufvars, intvars
<1>9. ASSUME NEW u \in Uarts, SetBufferOff(u) PROVE TypeOK'
  BY <1>9, <1>t DEF TypeOK, Ops, SetBufferOff, bufvars, SizeNone
<1>10. ASSUME NEW u \in Uarts, NEW l \in LogSizes[u], SetBufferOn(u, l) PROVE TypeOK'
  <2>1. l \in 0 .. 15
    BY CellsSuffice
  <2>2. desc' \in [Uarts -> Descs]
    BY <1>10, <1>d, <2>1, DescSized DEF SetBufferOn
  <2>3. unread' \in [Uarts -> Seq(Byte)] /\ health' \in [Uarts -> States]
    <3>1. unread \in [Uarts -> Seq(Byte)] /\ health \in [Uarts -> States]
      BY <1>t DEF TypeOK
    <3>2. Resized(u, l) \in States
      BY <3>1 DEF Resized, States
    <3>3. QED
      BY <1>10, <3>1, <3>2 DEF SetBufferOn
  <2>4. op' \in Ops
    BY <1>10, <2>1 DEF SetBufferOn, Ops
  <2>5. QED
    BY <1>10, <1>t, <2>2, <2>3, <2>4 DEF TypeOK, SetBufferOn, intvars
<1>11. CASE BufSetNone
  <2>1. desc' \in [Uarts -> Descs]
    BY <1>11, <1>d, DescSized, SizeNone \in 0 .. 15 DEF BufSetNone, SizeNone
  <2>2. 1 \in 0 .. MaxCells
    <3>1. PICK l \in LogSizes[op.uart] : TRUE
      BY <1>d, ConstantsAssumption
    <3>2. l \in 0 .. 15 /\ 0 \in 0 .. l /\ 2 ^ l <= MaxCells /\ MaxCells \in Nat
      BY <1>d, CellsSuffice
    <3>3. 2 ^ l \in Nat \ {0}
      BY <3>2, PowerOfTwo
    <3>4. QED
      BY <3>2, <3>3
  <2>3. Kept(op.uart, 1) \in [Cells -> AnyByte]
    BY <1>d, <1>k
  <2>4. QED
    BY <1>11, <1>t, <1>n, <2>1, <2>2, <2>3 DEF TypeOK, BufSetNone, intvars
<1>12. CASE BufSetRealloc \/ BufSetStore
  <2>1. 2 ^ op.logsize \in 0 .. MaxCells
    <3>1. op.logsize \in LogSizes[op.uart] /\ 0 \in 0 .. op.logsize
      BY <1>12, <1>d DEF BufSetRealloc, BufSetStore, IInv, InOperation, BlockFits, buf_is_enabled
    <3>2. 2 ^ op.logsize \in Nat
      BY <1>d, <3>1, PowerOfTwo
    <3>3. QED
      BY <1>d, <3>1, <3>2, CellsSuffice
  <2>2. Kept(op.uart, 2 ^ op.logsize) \in [Cells -> AnyByte]
    BY <1>d, <1>k, <2>1
  <2>3. CASE BufSetRealloc
    BY <2>3, <1>t, <2>1, <2>2 DEF TypeOK, BufSetRealloc, intvars
  <2>4. CASE BufSetStore
    BY <2>4, <1>t, <2>1, <2>2 DEF TypeOK, BufSetStore, intvars
  <2>5. QED
    BY <1>12, <2>3, <2>4
<1>13. CASE BufSetMoves \/ BufSetFails
  <2>1. alloc' \in [Uarts -> 0 .. MaxCells]
    <3>1. alloc \in [Uarts -> 0 .. MaxCells] /\ 0 \in 0 .. MaxCells
      BY <1>t, CellsSuffice DEF TypeOK
    <3>2. QED
      BY <1>13, <3>1 DEF BufSetMoves, BufSetFails
  <2>2. QED
    BY <1>13, <1>t, <2>1 DEF TypeOK, BufSetMoves, BufSetFails, intvars
<1>14. CASE BufSetReset
  <2>1. desc' \in [Uarts -> Descs]
    BY <1>14, <1>d DEF BufSetReset, SizeNone, Descs
  <2>2. unread' \in [Uarts -> Seq(Byte)] /\ health' \in [Uarts -> States]
    <3>1. unread \in [Uarts -> Seq(Byte)] /\ health \in [Uarts -> States]
      BY <1>t DEF TypeOK
    <3>2. "ok" \in States /\ "wild" \in States /\ <<>> \in Seq(Byte)
      BY DEF States
    <3>3. QED
      BY <1>14, <3>1, <3>2 DEF BufSetReset
  <2>3. mem' \in [Uarts -> [Cells -> AnyByte]]
    BY <1>14, <1>t, <1>d, <1>k DEF TypeOK, BufSetReset
  <2>4. QED
    BY <1>14, <1>t, <1>n, <2>1, <2>2, <2>3 DEF TypeOK, BufSetReset, intvars
<1>15. CASE SetBufferSetup
  BY <1>15, <1>t, <1>d, <1>n DEF TypeOK, SetBufferSetup, bufvars
<1>16. CASE UNCHANGED vars
  BY <1>16, <1>t DEF TypeOK, vars
<1>17. QED
  BY <1>1, <1>2, <1>3, <1>4, <1>5, <1>6, <1>7, <1>8, <1>9, <1>10, <1>11, <1>12, <1>13,
     <1>14, <1>15, <1>16 DEF Next, Interrupt, Reading, Setting

(* A write of the interrupt: the byte takes the place after the newest one, *)
(* which is free unless the buffer is full to the last cell.                *)
LEMMA WriteStep ==
  ASSUME IInv, NEW u \in Uarts, cmn_uart_rx_inthandler(u)
  PROVE  Healthy(u)'
<1> DEFINE d == desc[u]
           R == RealSize(d)
           n == Len(unread[u])
           b == hw[u]
<1>t. TypeOK /\ BlockFits(u) /\ Healthy(u)
  BY IInvByBuffer
<1>1. /\ d.rptr \in Nat /\ d.wptr \in Nat /\ d.count \in Int /\ R \in Nat \ {0}
      /\ unread[u] \in Seq(Byte) /\ n \in Nat /\ b \in Byte
      /\ mem \in [Uarts -> [Cells -> AnyByte]] /\ desc \in [Uarts -> Descs]
      /\ health \in [Uarts -> States] /\ unread \in [Uarts -> Seq(Byte)]
  <2>1. /\ desc \in [Uarts -> Descs] /\ mem \in [Uarts -> [Cells -> AnyByte]]
        /\ health \in [Uarts -> States] /\ unread \in [Uarts -> Seq(Byte)]
        /\ hw[u] \in Byte
    BY <1>t DEF TypeOK, cmn_uart_rx_inthandler, AnyByte
  <2>2. QED
    BY <1>t, <2>1, DescFields, SizeFacts
<1>2. CASE CountOverflows(desc[u])
  BY <1>2, <1>t, Frame DEF cmn_uart_rx_inthandler, buf_write, InRead
<1>3. CASE ~CountOverflows(desc[u])
  <2>1. /\ d.count <= R /\ buf_is_enabled(u) /\ pc' = pc /\ op' = op
        /\ mem' = IF d.wptr < alloc[u] THEN [mem EXCEPT ![u][d.wptr] = b] ELSE mem
        /\ desc' = [desc EXCEPT ![u].wptr = ModIncr(d.wptr, d), ![u].count = d.count + 1]
        /\ unread' = IF health[u] = "ok" THEN [unread EXCEPT ![u] = Append(@, b)] ELSE unread
        /\ health' = [health EXCEPT ![u] =
             IF ~(d.wptr < alloc[u]) THEN "wild"
             ELSE IF @ = "ok" /\ n = R THEN "over" ELSE @]
    <3>1. d.count <= R
      BY <1>1, <1>3 DEF CountOverflows
    <3>2. buf_is_enabled(u) /\ pc' = pc /\ op' = op /\ buf_write(u, b)
      BY DEF cmn_uart_rx_inthandler
    <3>3. QED
      BY <1>3, <3>1, <3>2, Zenon DEF buf_write
  <2>2. /\ desc'[u].logsize = d.logsize /\ desc'[u].rptr = d.rptr
        /\ desc'[u].wptr = (d.wptr + 1) % R /\ desc'[u].count = d.count + 1
    BY <1>1, <2>1 DEF ModIncr, Descs
  <2>3. /\ RealSize(desc[u])' = R /\ buf_is_enabled(u)' /\ (InRead(u)' <=> InRead(u))
        /\ Base(u)' = Base(u)
    BY <2>1, <2>2 DEF RealSize, buf_is_enabled, InRead, Base
  <2>4. ASSUME health'[u] \in {"ok", "over"} PROVE InBounds(u)'
    <3>1. health[u] \in {"ok", "over"}
      BY <1>1, <2>1, <2>4
    <3>2. InBounds(u)
      BY <1>t, <2>1, <3>1 DEF Healthy
    <3>3. (d.wptr + 1) % R \in 0 .. R - 1
      BY <1>1, <3>2, RingAdvance, 0 \in 0 .. R DEF InBounds
    <3>4. QED
      BY <1>1, <2>1, <2>2, <2>3, <3>2, <3>3 DEF InBounds
  <2>5. ASSUME health'[u] = "ok" PROVE IsQueue(u)'
    <3>1. health[u] = "ok" /\ d.wptr < alloc[u] /\ n # R
      BY <1>1, <2>1, <2>5
    <3>2. IsQueue(u) /\ InBounds(u)
      BY <1>t, <2>1, <3>1 DEF Healthy
    <3>3. /\ d.count = IF pc = "count" /\ op.uart = u THEN n + 1 ELSE n
          /\ n \in 0 .. R - 1 /\ d.wptr = (Base(u) + n) % R
          /\ \A i \in 1 .. n : unread[u][i] = mem[u][(Base(u) + i - 1) % R]
      BY <1>1, <2>1, <3>1, <3>2 DEF IsQueue
    <3>4. Base(u) \in 0 .. R
      BY <1>1, <3>2 DEF InBounds, Base
    <3>5. /\ unread'[u] = Append(unread[u], b)
          /\ Len(unread'[u]) = n + 1
          /\ \A i \in 1 .. n : unread'[u][i] = unread[u][i]
          /\ unread'[u][n + 1] = b
      BY <1>1, <2>1, <3>1, AppendFacts
    <3>6. desc'[u].wptr = (Base(u) + (n + 1)) % R
      BY <1>1, <2>2, <3>3, <3>4, RingPlace
    <3>7. /\ d.wptr \in Cells /\ mem'[u][d.wptr] = b
          /\ \A c \in Cells : c # d.wptr => mem'[u][c] = mem[u][c]
      <4>1. d.wptr \in Cells
        BY <1>1, <1>t, <2>1, <3>2, SizeFacts DEF InBounds
      <4>2. QED
        BY <1>1, <2>1, <3>1, <4>1
    <3>8. ASSUME NEW i \in 1 .. n + 1
          PROVE  unread'[u][i] = mem'[u][(Base(u) + i - 1) % R]
      <4>1. CASE i = n + 1
        BY <1>1, <3>3, <3>4, <3>5, <3>7, <4>1
      <4>2. CASE i # n + 1
        <5>1. i - 1 \in 0 .. n - 1 /\ i \in 1 .. n /\ i - 1 \in 0 .. R
          BY <1>1, <3>3, <4>2
        <5>2. (Base(u) + (i - 1)) % R # d.wptr
          <6>1. /\ R \in Nat \ {0} /\ Base(u) \in 0 .. R /\ n \in 0 .. R - 1
                /\ d.wptr = (Base(u) + n) % R
            BY <1>1, <3>3, <3>4
          <6>2. (Base(u) + (i - 1)) % R # (Base(u) + n) % R
            BY ONLY <5>1, <6>1, RingDistinct
          <6>3. QED
            BY <6>1, <6>2
        <5>3. (Base(u) + (i - 1)) % R \in Cells
          BY <1>1, <1>t, <2>1, <3>4, <5>1, RingPlace, SizeFacts
        <5>4. Base(u) + (i - 1) = Base(u) + i - 1
          BY <1>1, <3>4
        <5>5. QED
          BY <3>3, <3>5, <3>7, <5>1, <5>2, <5>3, <5>4
      <4>3. QED
        BY <4>1, <4>2
    <3>9. desc'[u].count = IF pc' = "count" /\ op'.uart = u THEN (n + 1) + 1 ELSE n + 1
      BY <1>1, <2>1, <2>2, <3>3
    <3>10. QED
      BY <1>1, <2>3, <3>3, <3>5, <3>6, <3>8, <3>9 DEF IsQueue
  <2>6. QED
    BY <2>4, <2>5 DEF Healthy
<1>4. QED
  BY <1>2, <1>3

(* The first part of a read takes the oldest byte out of the queue. *)
LEMMA CopyStep ==
  ASSUME IInv, NEW u \in Uarts, op.uart = u, BufReadCopy
  PROVE  Healthy(u)' /\ (health[u] = "ok" => unread[u] = <<data'>> \o unread'[u])
<1> DEFINE d == desc[u]
           R == RealSize(d)
           n == Len(unread[u])
<1>t. TypeOK /\ BlockFits(u) /\ Healthy(u)
  BY IInvByBuffer
<1>2. /\ d.rptr \in Nat /\ d.count \in Int /\ R \in Nat \ {0}
      /\ unread \in [Uarts -> Seq(Byte)] /\ unread[u] \in Seq(Byte) /\ n \in Nat
  <2>1. desc \in [Uarts -> Descs] /\ unread \in [Uarts -> Seq(Byte)]
    BY <1>t DEF TypeOK
  <2>2. QED
    BY <1>t, <2>1, DescFields, SizeFacts
<1>3. /\ pc = "recv" /\ pc' = "count" /\ op' = op /\ op.uart = u
      /\ buf_is_enabled(u) /\ d.count # 0 /\ data' \in Contents(u, d.rptr)
      /\ desc' = desc /\ mem' = mem /\ health' = health
      /\ unread' = IF health[u] = "ok" /\ unread[u] # <<>>
                     THEN [unread EXCEPT ![u] = Tail(@)] ELSE unread
  BY DEF BufReadCopy, Underflow, bufvars
<1>4. ~InRead(u) /\ InRead(u)' /\ Base(u) = d.rptr /\ Base(u)' = d.rptr + 1
  BY <1>3 DEF InRead, Base
<1>5. health[u] \in {"ok", "over"} => InBounds(u)'
  BY <1>t, <1>3 DEF Healthy, InBounds, RealSize
<1>6. ASSUME health[u] = "ok"
      PROVE  IsQueue(u)' /\ unread[u] = <<data'>> \o unread'[u]
  <2>1. InBounds(u) /\ IsQueue(u)
    BY <1>t, <1>3, <1>6 DEF Healthy
  <2>2. /\ d.rptr \in 0 .. R - 1 /\ d.count = n /\ n \in 1 .. R
        /\ d.wptr = (d.rptr + n) % R
        /\ \A i \in 1 .. n : unread[u][i] = mem[u][(d.rptr + i - 1) % R]
    BY <1>2, <1>3, <1>4, <2>1 DEF InBounds, IsQueue
  <2>3. unread[u] # <<>>
    BY <1>2, <2>2
  <2>4. /\ unread'[u] = Tail(unread[u]) /\ Len(unread'[u]) = n - 1
        /\ \A i \in 1 .. n - 1 : unread'[u][i] = unread[u][i + 1]
        /\ unread[u][1] \in Byte
        /\ unread[u] = <<unread[u][1]>> \o unread'[u]
    BY <1>2, <1>3, <1>6, <2>3, TailFacts
  <2>5. unread[u][1] = mem[u][d.rptr]
    <3>1. (d.rptr + 1 - 1) % R = d.rptr
      BY <1>2, <2>2, RingShift
    <3>2. QED
      BY <2>2, <3>1
  <2>6. data' = unread[u][1]
    <3>1. alloc[u] = R
      BY <1>t, <1>3 DEF BlockFits
    <3>2. mem[u][d.rptr] # NoByte
      BY <2>4, <2>5, ConstantsAssumption
    <3>3. QED
      BY <1>2, <1>3, <2>2, <2>5, <3>1, <3>2 DEF Contents
  <2>7. ASSUME NEW i \in 1 .. n - 1
        PROVE  unread'[u][i] = mem[u][(d.rptr + 1 + i - 1) % R]
    <3>1. i + 1 \in 1 .. n /\ d.rptr + (i + 1) - 1 = d.rptr + 1 + i - 1
      BY <1>2, <2>2
    <3>2. unread[u][i + 1] = mem[u][(d.rptr + (i + 1) - 1) % R]
      BY <2>2, <3>1
    <3>3. QED
      BY <2>4, <3>1, <3>2
  <2>8. d.wptr = ((d.rptr + 1) + (n - 1)) % R
    <3>1. ((d.rptr + 1) + (n - 1)) % R = (d.rptr + n) % R
      <4>1. R \in Nat \ {0} /\ d.rptr \in 0 .. R - 1 /\ n \in Int
        BY <1>2, <2>2
      <4>2. QED
        BY ONLY <4>1, RingShift
    <3>2. QED
      BY <2>2, <3>1
  <2>9. RealSize(desc[u])' = R /\ buf_is_enabled(u)'
    BY <1>3 DEF RealSize, buf_is_enabled
  <2>10. IsQueue(u)'
    <3>1. (desc[u].count)' = (n - 1) + 1 /\ n - 1 <= R
      BY <1>2, <1>3, <2>2
    <3>2. QED
      BY <1>3, <1>4, <2>4, <2>7, <2>8, <2>9, <3>1 DEF IsQueue
  <2>11. QED
    BY <2>4, <2>6, <2>10
<1>7. QED
  BY <1>3, <1>5, <1>6 DEF Healthy

(* The second part of a read brings the count back to the number of bytes. *)
LEMMA CountStep ==
  ASSUME IInv, NEW u \in Uarts, op.uart = u, BufReadCount
  PROVE  Healthy(u)'
<1>t. TypeOK /\ BlockFits(u) /\ Healthy(u)
  BY IInvByBuffer
<1>1. desc \in [Uarts -> Descs] /\ desc[u].count \in Int /\ RealSize(desc[u]) \in Nat
  <2>1. desc \in [Uarts -> Descs]
    BY <1>t DEF TypeOK
  <2>2. QED
    BY <1>t, <2>1, DescFields, SizeFacts
<1>2. /\ pc = "count" /\ pc' = "rptr" /\ op' = op
      /\ mem' = mem /\ health' = health /\ unread' = unread
      /\ desc' = [desc EXCEPT ![u].count = @ - 1]
  BY DEF BufReadCount
<1>3. /\ desc'[u].logsize = desc[u].logsize /\ desc'[u].rptr = desc[u].rptr
      /\ desc'[u].wptr = desc[u].wptr /\ desc'[u].count = desc[u].count - 1
  BY <1>1, <1>2 DEF Descs
<1>4. /\ RealSize(desc[u])' = RealSize(desc[u]) /\ (buf_is_enabled(u)' <=> buf_is_enabled(u))
      /\ Base(u)' = Base(u)
  BY <1>2, <1>3 DEF RealSize, buf_is_enabled, InRead, Base
<1>5. InBounds(u) => InBounds(u)'
  BY <1>1, <1>3, <1>4 DEF InBounds
<1>6. ASSUME IsQueue(u) PROVE IsQueue(u)'
  <2>1. Len(unread[u]) \in Nat
    BY <1>t DEF TypeOK
  <2>2. desc'[u].count = Len(unread'[u])
    BY <1>2, <1>3, <1>6, <2>1 DEF IsQueue
  <2>3. QED
    BY <1>2, <1>3, <1>4, <1>6, <2>2 DEF IsQueue
<1>7. QED
  BY <1>t, <1>2, <1>4, <1>5, <1>6 DEF Healthy

(* The third part moves the read pointer to where the queue begins; an      *)
(* overfull or resized buffer that has become empty is a queue again.       *)
LEMMA AdvanceStep ==
  ASSUME IInv, NEW u \in Uarts, op.uart = u, BufReadAdvance
  PROVE  Healthy(u)'
<1> DEFINE d == desc[u]
           R == RealSize(d)
           n == Len(unread[u])
           e == [desc[u] EXCEPT !.rptr = ModIncr(desc[u].rptr, desc[u])]
           again == health[u] \in {"over", "stale"} /\ e.count = 0 /\ e.rptr = e.wptr
                      /\ e.rptr < RealSize(e)
<1>t. TypeOK /\ BlockFits(u) /\ Healthy(u)
  BY IInvByBuffer
<1>1. /\ desc \in [Uarts -> Descs] /\ d.rptr \in Nat /\ d.wptr \in Nat
      /\ d.count \in Int /\ R \in Nat \ {0} /\ n \in Nat
      /\ health \in [Uarts -> States] /\ unread \in [Uarts -> Seq(Byte)]
  <2>1. /\ desc \in [Uarts -> Descs] /\ health \in [Uarts -> States]
        /\ unread \in [Uarts -> Seq(Byte)]
    BY <1>t DEF TypeOK
  <2>2. QED
    BY <1>t, <2>1, DescFields, SizeFacts
<1>2. /\ pc = "rptr" /\ pc' = "idle" /\ mem' = mem
      /\ desc' = [desc EXCEPT ![u] = e]
      /\ unread' = IF again THEN [unread EXCEPT ![u] = <<>>] ELSE unread
      /\ health' = IF again THEN [health EXCEPT ![u] = "ok"] ELSE health
  BY DEF BufReadAdvance
<1>3. /\ e.logsize = d.logsize /\ e.rptr = (d.rptr + 1) % R /\ e.wptr = d.wptr
      /\ e.count = d.count /\ desc'[u] = e
  BY <1>1, <1>2 DEF ModIncr, Descs
<1>4. /\ RealSize(desc[u])' = R /\ buf_is_enabled(u)' /\ buf_is_enabled(u)
      /\ InRead(u) /\ ~InRead(u)' /\ Base(u) = d.rptr + 1 /\ Base(u)' = e.rptr
      /\ RealSize(e) = R
  BY <1>2, <1>3 DEF RealSize, buf_is_enabled, InRead, Base, IInv, InOperation
<1> HIDE DEF e
<1>5. CASE again
  <2>1. e.count = 0 /\ e.rptr = e.wptr /\ e.wptr \in 0 .. R - 1
    BY <1>1, <1>3, <1>4, <1>5
  <2>2. unread'[u] = <<>> /\ Len(unread'[u]) = 0 /\ health'[u] = "ok"
    BY <1>1, <1>2, <1>5
  <2>3. InBounds(u)'
    BY <1>1, <1>3, <1>4, <2>1 DEF InBounds
  <2>4. (e.rptr + 0) % R = e.rptr
    BY <1>1, <2>1, RingShift
  <2>5. IsQueue(u)'
    <3>1. pc' # "count" /\ (desc[u].count)' = 0 /\ 0 <= R
      BY <1>1, <1>2, <1>3, <2>1
    <3>2. (desc[u].wptr)' = (Base(u)' + 0) % R
      BY <1>3, <1>4, <2>1, <2>4
    <3>3. QED
      BY <1>4, <2>2, <3>1, <3>2 DEF IsQueue
  <2>6. QED
    BY <2>3, <2>5 DEF Healthy
<1>6. CASE ~again
  <2>1. unread' = unread /\ health' = health
    BY <1>2, <1>6
  <2>2. ASSUME InBounds(u) PROVE InBounds(u)'
    BY <1>1, <1>3, <1>4, <2>2, RingAdvance, 0 \in 0 .. R DEF InBounds
  <2>3. ASSUME IsQueue(u), InBounds(u) PROVE IsQueue(u)'
    <3>1. d.rptr \in 0 .. R - 1 /\ n \in 0 .. R
      BY <1>1, <1>4, <2>3 DEF IsQueue, InBounds
    <3>2. ASSUME NEW k \in 0 .. R PROVE (e.rptr + k) % R = (d.rptr + 1 + k) % R
      <4>1. /\ R \in Nat \ {0} /\ d.rptr \in 0 .. R - 1 /\ k \in 0 .. R
            /\ e.rptr = (d.rptr + 1) % R
        BY <1>1, <1>3, <3>1, <3>2
      <4>2. (((d.rptr + 1) % R) + k) % R = (d.rptr + 1 + k) % R
        BY ONLY <4>1, RingAdvance
      <4>3. QED
        BY <4>1, <4>2
    <3>3. d.count = n /\ d.wptr = (e.rptr + n) % R
      BY <1>2, <1>4, <2>3, <3>1, <3>2 DEF IsQueue
    <3>4. ASSUME NEW i \in 1 .. n PROVE unread[u][i] = mem[u][(e.rptr + i - 1) % R]
      <4>1. i - 1 \in 0 .. R /\ e.rptr \in Int
        BY <1>1, <1>3, <3>1
      <4>2. (e.rptr + (i - 1)) % R = (d.rptr + 1 + (i - 1)) % R
        BY <3>2, <4>1
      <4>3. e.rptr + (i - 1) = e.rptr + i - 1 /\ d.rptr + 1 + (i - 1) = d.rptr + 1 + i - 1
        BY <1>1, <4>1
      <4>4. unread[u][i] = mem[u][(d.rptr + 1 + i - 1) % R]
        BY <1>4, <2>3 DEF IsQueue
      <4>5. QED
        BY <4>2, <4>3, <4>4
    <3>5. (desc[u].count)' = n /\ pc' # "count" /\ unread'[u] = unread[u]
      BY <1>2, <1>3, <2>1, <3>3
    <3>6. /\ n <= R /\ (desc[u].wptr)' = (Base(u)' + n) % R
          /\ \A i \in 1 .. n : unread[u][i] = mem'[u][(Base(u)' + i - 1) % R]
      <4>1. Base(u)' = e.rptr
        BY <1>2, <1>3 DEF Base, InRead
      <4>2. (desc[u].wptr)' = d.wptr
        BY <1>3
      <4>3. mem' = mem /\ n <= R
        BY <1>2, <3>1
      <4>4. QED
        BY <3>3, <3>4, <4>1, <4>2, <4>3
    <3>7. QED
      BY <1>4, <3>5, <3>6 DEF IsQueue
  <2>4. QED
    BY <1>t, <1>4, <2>1, <2>2, <2>3 DEF Healthy
<1>7. QED
  BY <1>5, <1>6

(* A new size keeps the buffer a queue if it is empty with its pointers     *)
(* inside, or the size is the old one; Resized says so.                     *)
LEMMA SizeStep ==
  ASSUME IInv, NEW u \in Uarts, NEW l \in LogSizes[u], SetBufferOn(u, l)
  PROVE  Healthy(u)'
<1> DEFINE d == desc[u]
           n == Len(unread[u])
           R == 2 ^ l
<1>t. TypeOK /\ BlockFits(u) /\ Healthy(u)
  BY IInvByBuffer
<1>1. /\ desc \in [Uarts -> Descs] /\ d.rptr \in Nat /\ d.wptr \in Nat /\ d.count \in Int
      /\ health \in [Uarts -> States] /\ unread \in [Uarts -> Seq(Byte)] /\ n \in Nat
      /\ R \in Nat \ {0} /\ l # SizeNone
  <2>1. /\ desc \in [Uarts -> Descs] /\ health \in [Uarts -> States]
        /\ unread \in [Uarts -> Seq(Byte)]
    BY <1>t DEF TypeOK
  <2>2. l \in 0 .. 15 /\ 0 \in 0 .. l /\ l # SizeNone
    BY CellsSuffice DEF SizeNone
  <2>3. R \in Nat \ {0}
    BY <2>2, PowerOfTwo
  <2>4. d.rptr \in Nat /\ d.wptr \in Nat /\ d.count \in Int
    BY <2>1, DescFields
  <2>5. n \in Nat
    BY <2>1
  <2> HIDE DEF R
  <2>6. QED
    BY <2>1, <2>2, <2>3, <2>4, <2>5
<1>2. /\ pc = "idle" /\ pc' = "realloc" /\ mem' = mem
      /\ desc' = [desc EXCEPT ![u].logsize = l]
      /\ health' = [health EXCEPT ![u] = Resized(u, l)]
      /\ unread' = IF health'[u] = "ok" THEN unread ELSE [unread EXCEPT ![u] = <<>>]
  BY DEF SetBufferOn
<1>3. /\ desc'[u].logsize = l /\ desc'[u].rptr = d.rptr
      /\ desc'[u].wptr = d.wptr /\ desc'[u].count = d.count
  BY <1>1, <1>2 DEF Descs
<1>4. /\ RealSize(desc[u])' = R /\ buf_is_enabled(u)' /\ ~InRead(u) /\ ~InRead(u)'
      /\ Base(u) = d.rptr /\ Base(u)' = d.rptr
  BY <1>1, <1>2, <1>3 DEF RealSize, buf_is_enabled, InRead, Base
<1>5. health'[u] = Resized(u, l)
  BY <1>1, <1>2
<1> HIDE DEF R
<1>6. CASE l = d.logsize
  <2>1. health'[u] = health[u] /\ buf_is_enabled(u) /\ RealSize(desc[u]) = R
    BY <1>1, <1>5, <1>6 DEF Resized, buf_is_enabled, RealSize, R
  <2>2. InBounds(u) => InBounds(u)'
    BY <1>3, <1>4, <2>1 DEF InBounds
  <2>3. ASSUME IsQueue(u), health[u] = "ok" PROVE IsQueue(u)'
    <3>1. unread' = unread
      BY <1>2, <2>1, <2>3
    <3>2. (desc[u].count)' = Len(unread'[u])
      BY <1>2, <1>3, <2>3, <3>1 DEF IsQueue
    <3>3. QED
      BY <1>2, <1>3, <1>4, <2>1, <2>3, <3>1, <3>2 DEF IsQueue
  <2>4. QED
    BY <1>t, <2>1, <2>2, <2>3 DEF Healthy
<1>7. CASE l # d.logsize
  <2>1. SUFFICES ASSUME health'[u] \in {"ok", "over"} PROVE Healthy(u)'
    BY DEF Healthy
  <2>2. d.count = 0 /\ d.rptr = d.wptr /\ d.rptr < R /\ health'[u] = health[u]
    BY <1>5, <1>7, <2>1 DEF Resized, R
  <2>3. InBounds(u)'
    BY <1>1, <1>3, <1>4, <2>2 DEF InBounds
  <2>4. ASSUME health'[u] = "ok" PROVE IsQueue(u)'
    <3>1. unread' = unread /\ n = 0
      BY <1>t, <1>1, <1>2, <2>2, <2>4 DEF Healthy, IsQueue
    <3>2. (d.rptr + 0) % R = d.rptr
      BY <1>1, <2>2, RingShift
    <3>3. pc' # "count" /\ (desc[u].count)' = 0 /\ 0 <= R
      BY <1>1, <1>2, <1>3, <2>2
    <3>4. (desc[u].wptr)' = (Base(u)' + 0) % R
      BY <1>3, <1>4, <2>2, <3>2
    <3>5. QED
      BY <1>4, <3>1, <3>3, <3>4 DEF IsQueue
  <2>5. QED
    BY <2>3, <2>4 DEF Healthy
<1>8. QED
  BY <1>6, <1>7

(* Reallocating the block, in place or by moving it, keeps every cell of    *)
(* the buffer.                                                              *)
LEMMA ReallocStep ==
  ASSUME IInv, NEW u \in Uarts, op.uart = u, BufSetRealloc \/ BufSetStore
  PROVE  Healthy(u)'
<1> DEFINE d == desc[u]
           R == RealSize(d)
<1>t. TypeOK /\ BlockFits(u) /\ Healthy(u)
  BY IInvByBuffer
<1>1. /\ pc \in {"realloc", "store"} /\ pc' = "setup" /\ desc' = desc /\ unread' = unread
      /\ health' = health /\ mem' = [mem EXCEPT ![u] = Kept(u, R)] /\ buf_is_enabled(u)
  <2>1. 2 ^ op.logsize = R
    BY DEF IInv, InOperation, BufSetRealloc, BufSetStore, RealSize
  <2>2. QED
    BY <2>1 DEF BufSetRealloc, BufSetStore, IInv, InOperation
<1>2. /\ R \in Nat \ {0} /\ d.rptr \in Nat /\ Len(unread[u]) \in Nat
      /\ mem \in [Uarts -> [Cells -> AnyByte]]
      /\ \A c \in 0 .. R - 1 : c \in Cells
  <2>1. /\ desc \in [Uarts -> Descs] /\ unread[u] \in Seq(Byte)
        /\ mem \in [Uarts -> [Cells -> AnyByte]]
    BY <1>t DEF TypeOK
  <2>2. QED
    BY <1>t, <1>1, <2>1, DescFields, SizeFacts
<1>3. \A c \in 0 .. R - 1 : mem'[u][c] = mem[u][c]
  BY <1>1, <1>2 DEF Kept
<1>4. /\ RealSize(desc[u])' = R /\ buf_is_enabled(u)' /\ Base(u) = d.rptr /\ Base(u)' = d.rptr
  BY <1>1 DEF RealSize, buf_is_enabled, Base, InRead
<1>5. InBounds(u) => InBounds(u)'
  BY <1>1, <1>4 DEF InBounds
<1>6. ASSUME IsQueue(u) PROVE IsQueue(u)'
  <2>1. ASSUME NEW i \in 1 .. Len(unread[u])
        PROVE  unread[u][i] = mem'[u][(d.rptr + i - 1) % R]
    <3>1. (d.rptr + i - 1) % R \in 0 .. R - 1
      BY <1>2
    <3>2. unread[u][i] = mem[u][(d.rptr + i - 1) % R]
      BY <1>1, <1>4, <1>6 DEF IsQueue
    <3>3. QED
      BY <1>3, <3>1, <3>2
  <2>2. (desc[u].count)' = Len(unread'[u])
    BY <1>1, <1>6 DEF IsQueue
  <2>3. QED
    BY <1>1, <1>4, <1>6, <2>1, <2>2 DEF IsQueue
<1>7. QED
  BY <1>t, <1>1, <1>5, <1>6 DEF Healthy

(* Every step preserves the inductive invariant. *)
LEMMA StepIInv == IInv /\ [Next]_vars => IInv'
<1> SUFFICES ASSUME IInv, [Next]_vars PROVE IInv'
  OBVIOUS
<1>t. TypeOK /\ InOperation /\ \A u \in Uarts : BlockFits(u) /\ Healthy(u)
  BY IInvByBuffer
<1>d. /\ desc \in [Uarts -> Descs] /\ op.uart \in Uarts
      /\ unread \in [Uarts -> Seq(Byte)] /\ health \in [Uarts -> States]
      /\ mem \in [Uarts -> [Cells -> AnyByte]] /\ alloc \in [Uarts -> 0 .. MaxCells]
  BY <1>t DEF TypeOK, Ops
<1>s. SUFFICES InOperation' /\ \A v \in Uarts : BlockFits(v)' /\ Healthy(v)'
  <2>1. TypeOK'
    BY TypeStep
  <2>2. QED
    BY <2>1 DEF IInv, BufferIsQueue, OverfullByOne, Healthy
<1>1. ASSUME desc' = desc, mem' = mem, alloc' = alloc, unread' = unread, health' = health,
             pc \notin {"count", "rptr", "realloc", "store", "reset"},
             pc' \notin {"count", "rptr", "realloc", "store", "reset"}
      PROVE  InOperation' /\ \A v \in Uarts : BlockFits(v)' /\ Healthy(v)'
  <2>1. InOperation'
    BY <1>1 DEF InOperation
  <2>2. ASSUME NEW v \in Uarts PROVE BlockFits(v)'
    BY <1>1, <1>t DEF BlockFits, RealSize, buf_is_enabled
  <2>3. ASSUME NEW v \in Uarts PROVE Healthy(v)'
    BY <1>1, <1>t, Frame DEF InRead
  <2>4. QED
    BY <2>1, <2>2, <2>3
<1>2. ASSUME desc' = desc, mem' = mem, alloc' = alloc, unread' = unread, health' = health,
             pc' = pc, op' = op
      PROVE  InOperation' /\ \A v \in Uarts : BlockFits(v)' /\ Healthy(v)'
  <2>1. InOperation'
    BY <1>2, <1>t DEF InOperation, buf_is_enabled
  <2>2. ASSUME NEW v \in Uarts PROVE BlockFits(v)'
    BY <1>2, <1>t DEF BlockFits, RealSize, buf_is_enabled
  <2>3. ASSUME NEW v \in Uarts PROVE Healthy(v)'
    BY <1>2, <1>t, Frame DEF InRead
  <2>4. QED
    BY <2>1, <2>2, <2>3
<1>3. ASSUME NEW u \in Uarts, NEW b \in Bytes[u], Receive(u, b)
      PROVE  InOperation' /\ \A v \in Uarts : BlockFits(v)' /\ Healthy(v)'
  BY <1>2, <1>3 DEF Receive, bufvars
<1>4. CASE \/ \E u \in Uarts, t \in {"limited", "infinite"} : platform_uart_recv(u, t)
           \/ RecvDirect \/ RecvTimeout \/ SetBufferSetup
           \/ \E u \in Uarts : SetBufferOff(u)
  BY <1>1, <1>4 DEF platform_uart_recv, RecvDirect, RecvTimeout, SetBufferSetup,
                    SetBufferOff, bufvars
<1>5. ASSUME NEW u \in Uarts, cmn_uart_rx_inthandler(u)
      PROVE  InOperation' /\ \A v \in Uarts : BlockFits(v)' /\ Healthy(v)'
  <2>1. pc' = pc /\ op' = op /\ alloc' = alloc /\ buf_write(u, hw[u])
    BY <1>5 DEF cmn_uart_rx_inthandler
  <2>2. \A v \in Uarts : desc'[v].logsize = desc[v].logsize
    <3> DEFINE w == ModIncr(desc[u].wptr, desc[u])
               c == desc[u].count + 1
    <3>1. desc' = desc \/ desc' = [desc EXCEPT ![u].wptr = w, ![u].count = c]
      BY <2>1 DEF buf_write
    <3> HIDE DEF w, c
    <3>2. SUFFICES ASSUME NEW v \in Uarts PROVE desc'[v].logsize = desc[v].logsize
      OBVIOUS
    <3>3. CASE v = u
      BY <1>d, <3>1, <3>3 DEF Descs
    <3>4. CASE v # u
      BY <1>d, <3>1, <3>4
    <3>5. QED
      BY <3>3, <3>4
  <2>3. \A v \in Uarts : v # u => /\ desc'[v] = desc[v] /\ mem'[v] = mem[v]
                                  /\ unread'[v] = unread[v] /\ health'[v] = health[v]
    BY <1>d, <2>1 DEF buf_write
  <2>4. InOperation'
    BY <1>t, <1>d, <2>1, <2>2 DEF InOperation, buf_is_enabled
  <2>5. ASSUME NEW v \in Uarts PROVE BlockFits(v)'
    BY <1>t, <2>1, <2>2 DEF BlockFits, RealSize, buf_is_enabled
  <2>6. ASSUME NEW v \in Uarts PROVE Healthy(v)'
    <3>1. CASE v = u
      BY <1>5, <3>1, WriteStep
    <3>2. CASE v # u
      BY <1>t, <2>1, <2>3, <3>2, Frame DEF InRead
    <3>3. QED
      BY <3>1, <3>2
  <2>7. QED
    BY <2>4, <2>5, <2>6
<1>6. CASE BufReadCopy
  <2>1. /\ pc = "recv" /\ pc' = "count" /\ op' = op /\ buf_is_enabled(op.uart)
        /\ desc' = desc /\ mem' = mem /\ alloc' = alloc /\ health' = health
        /\ \A v \in Uarts : v # op.uart => unread'[v] = unread[v]
    BY <1>6, <1>d DEF BufReadCopy, bufvars
  <2>2. InOperation' /\ \A v \in Uarts : BlockFits(v)'
    BY <1>t, <2>1 DEF InOperation, BlockFits, RealSize, buf_is_enabled
  <2>3. ASSUME NEW v \in Uarts PROVE Healthy(v)'
    <3>1. CASE v = op.uart
      BY <1>6, <3>1, CopyStep
    <3>2. CASE v # op.uart
      BY <1>t, <2>1, <3>2, Frame DEF InRead
    <3>3. QED
      BY <3>1, <3>2
  <2>4. QED
    BY <2>2, <2>3
<1>7. CASE BufReadCount
  <2>1. /\ pc = "count" /\ pc' = "rptr" /\ op' = op
        /\ mem' = mem /\ alloc' = alloc /\ health' = health /\ unread' = unread
        /\ \A v \in Uarts : v # op.uart => desc'[v] = desc[v]
        /\ \A v \in Uarts : desc'[v].logsize = desc[v].logsize
    BY <1>7, <1>d DEF BufReadCount, Descs
  <2>2. InOperation' /\ \A v \in Uarts : BlockFits(v)'
    BY <1>t, <1>d, <2>1 DEF InOperation, BlockFits, RealSize, buf_is_enabled
  <2>3. ASSUME NEW v \in Uarts PROVE Healthy(v)'
    <3>1. CASE v = op.uart
      BY <1>7, <3>1, CountStep
    <3>2. CASE v # op.uart
      BY <1>t, <2>1, <3>2, Frame DEF InRead
    <3>3. QED
      BY <3>1, <3>2
  <2>4. QED
    BY <2>2, <2>3
<1>8. CASE BufReadAdvance
  <2>1. /\ pc = "rptr" /\ pc' = "idle" /\ mem' = mem /\ alloc' = alloc
        /\ \A v \in Uarts : v # op.uart => /\ desc'[v] = desc[v] /\ unread'[v] = unread[v]
                                            /\ health'[v] = health[v]
        /\ \A v \in Uarts : desc'[v].logsize = desc[v].logsize
    BY <1>8, <1>d DEF BufReadAdvance, Descs
  <2>2. InOperation' /\ \A v \in Uarts : BlockFits(v)'
    BY <1>t, <2>1 DEF InOperation, BlockFits, RealSize, buf_is_enabled
  <2>3. ASSUME NEW v \in Uarts PROVE Healthy(v)'
    <3>1. CASE v = op.uart
      BY <1>8, <3>1, AdvanceStep
    <3>2. CASE v # op.uart
      BY <1>t, <2>1, <3>2, Frame DEF InRead
    <3>3. QED
      BY <3>1, <3>2
  <2>4. QED
    BY <2>2, <2>3
<1>9. ASSUME NEW u \in Uarts, NEW l \in LogSizes[u], SetBufferOn(u, l)
      PROVE  InOperation' /\ \A v \in Uarts : BlockFits(v)' /\ Healthy(v)'
  <2>1. /\ pc = "idle" /\ pc' = "realloc" /\ mem' = mem /\ alloc' = alloc
        /\ op'.uart = u /\ op'.logsize = l /\ l # SizeNone
        /\ \A v \in Uarts : v # u => /\ desc'[v] = desc[v] /\ unread'[v] = unread[v]
                                      /\ health'[v] = health[v]
        /\ desc'[u].logsize = l
    <3>1. l # SizeNone
      BY CellsSuffice DEF SizeNone
    <3>2. QED
      BY <1>9, <1>d, <3>1 DEF SetBufferOn, Descs
  <2>2. InOperation'
    BY <2>1 DEF InOperation, buf_is_enabled
  <2>3. ASSUME NEW v \in Uarts PROVE BlockFits(v)'
    BY <1>t, <2>1 DEF BlockFits, RealSize, buf_is_enabled
  <2>4. ASSUME NEW v \in Uarts PROVE Healthy(v)'
    <3>1. CASE v = u
      BY <1>9, <3>1, SizeStep
    <3>2. CASE v # u
      BY <1>t, <2>1, <3>2, Frame DEF InRead
    <3>3. QED
      BY <3>1, <3>2
  <2>5. QED
    BY <2>2, <2>3, <2>4
<1>10. CASE BufSetRealloc \/ BufSetStore
  <2>1. /\ pc \in {"realloc", "store"} /\ pc' = "setup" /\ desc' = desc /\ unread' = unread
        /\ health' = health /\ op' = op
        /\ \A v \in Uarts : v # op.uart => mem'[v] = mem[v] /\ alloc'[v] = alloc[v]
        /\ alloc'[op.uart] = RealSize(desc[op.uart])
    BY <1>10, <1>t, <1>d DEF BufSetRealloc, BufSetStore, InOperation, RealSize
  <2>2. InOperation'
    BY <2>1 DEF InOperation
  <2>3. ASSUME NEW v \in Uarts PROVE BlockFits(v)'
    BY <1>t, <2>1 DEF BlockFits, RealSize, buf_is_enabled
  <2>4. ASSUME NEW v \in Uarts PROVE Healthy(v)'
    <3>1. CASE v = op.uart
      BY <1>10, <3>1, ReallocStep
    <3>2. CASE v # op.uart
      BY <1>t, <2>1, <3>2, Frame DEF InRead
    <3>3. QED
      BY <3>1, <3>2
  <2>5. QED
    BY <2>2, <2>3, <2>4
<1>11. CASE BufSetNone
  <2>1. /\ pc = "off" /\ pc' = "idle" /\ unread' = unread /\ health' = health
        /\ \A v \in Uarts : v # op.uart => /\ mem'[v] = mem[v] /\ alloc'[v] = alloc[v]
                                            /\ desc'[v] = desc[v]
        /\ desc'[op.uart].logsize = SizeNone /\ desc'[op.uart].count = desc[op.uart].count
    BY <1>11, <1>d DEF BufSetNone, Descs
  <2>2. InOperation'
    BY <2>1 DEF InOperation
  <2>3. ASSUME NEW v \in Uarts PROVE BlockFits(v)'
    BY <1>t, <2>1 DEF BlockFits, RealSize, buf_is_enabled
  <2>4. ASSUME NEW v \in Uarts PROVE Healthy(v)'
    <3>1. CASE v = op.uart
      BY <1>t, <2>1, <3>1 DEF Healthy, IsQueue, buf_is_enabled
    <3>2. CASE v # op.uart
      BY <1>t, <2>1, <3>2, Frame DEF InRead
    <3>3. QED
      BY <3>1, <3>2
  <2>5. QED
    BY <2>2, <2>3, <2>4
<1>12. CASE BufSetMoves \/ BufSetFails
  <2>1. /\ pc \in {"realloc", "off"} /\ pc' \in {"store", "reset"} /\ op' = op
        /\ pc' = "store" => pc = "realloc"
        /\ desc' = desc /\ mem' = mem /\ unread' = unread /\ health' = health
        /\ \A v \in Uarts : v # op.uart => alloc'[v] = alloc[v]
    BY <1>12, <1>d DEF BufSetMoves, BufSetFails
  <2>2. InOperation' /\ \A v \in Uarts : BlockFits(v)'
    BY <1>t, <2>1 DEF InOperation, BlockFits, RealSize, buf_is_enabled
  <2>3. ASSUME NEW v \in Uarts PROVE Healthy(v)'
    BY <1>t, <2>1, Frame DEF InRead
  <2>4. QED
    BY <2>2, <2>3
<1>13. CASE BufSetReset
  <2>1. /\ pc = "reset" /\ pc' = "idle"
        /\ \A v \in Uarts : v # op.uart => /\ mem'[v] = mem[v] /\ alloc'[v] = alloc[v]
                                            /\ desc'[v] = desc[v] /\ unread'[v] = unread[v]
                                            /\ health'[v] = health[v]
        /\ desc'[op.uart].logsize = SizeNone /\ desc'[op.uart].count = 0
        /\ unread'[op.uart] = <<>>
    BY <1>13, <1>d DEF BufSetReset
  <2>2. InOperation'
    BY <2>1 DEF InOperation
  <2>3. ASSUME NEW v \in Uarts PROVE BlockFits(v)'
    BY <1>t, <2>1 DEF BlockFits, RealSize, buf_is_enabled
  <2>4. ASSUME NEW v \in Uarts PROVE Healthy(v)'
    <3>1. CASE v = op.uart
      BY <2>1, <3>1 DEF Healthy, IsQueue, buf_is_enabled
    <3>2. CASE v # op.uart
      BY <1>t, <2>1, <3>2, Frame DEF InRead
    <3>3. QED
      BY <3>1, <3>2
  <2>5. QED
    BY <2>2, <2>3, <2>4
<1>14. CASE UNCHANGED vars
  BY <1>2, <1>14 DEF vars
<1>15. QED
  BY <1>3, <1>4, <1>5, <1>6, <1>7, <1>8, <1>9, <1>10, <1>11, <1>12, <1>13, <1>14
     DEF Next, Interrupt, Reading, Setting

(* The inductive invariant holds in every reachable state. *)
LEMMA Invariance == Spec => []IInv
BY InitIInv, StepIInv, PTL DEF Spec

(* Type correctness of the buffers, their blocks and the reader's state; in *)
(* particular no pointer of a descriptor ever becomes negative.             *)
THEOREM TypeCorrect == Spec => []TypeOK
<1>1. IInv => TypeOK
  BY DEF IInv
<1>2. QED
  BY <1>1, Invariance, PTL

(* However the receive interrupt falls between the three steps of buf_read  *)
(* and those of buf_set, and whichever sizes buf_set gives it while it is   *)
(* empty, a buffer that was not overfilled and not written to through the   *)
(* pointer of a block realloc has left holds its unread bytes in order.     *)
THEOREM BufferHoldsUnread == Spec => []BufferIsQueue
<1>1. IInv => BufferIsQueue
  BY DEF IInv
<1>2. QED
  BY <1>1, Invariance, PTL

(* The overflow test of buf_write comes one byte too late, and only one:    *)
(* whatever reads and writes follow, the count of no buffer of any size     *)
(* exceeds the size by more, and its pointers stay inside it.               *)
THEOREM OverfullOnlyByOne == Spec => []OverfullByOne
<1>1. IInv => OverfullByOne
  BY DEF IInv
<1>2. QED
  BY <1>1, Invariance, PTL

(* buf_write misses the block only when buf_set is resizing the buffer. *)
THEOREM WildWritesNeedResize == Spec => WildOnlyByResizing
<1>1. IInv /\ [Next]_vars
        => [\A u \in Uarts : health'[u] = "wild" /\ health[u] \in {"ok", "over"} =>
              pc \in {"realloc", "store", "reset"} /\ op.uart = u]_vars
  <2> SUFFICES ASSUME IInv, Next, NEW u \in Uarts,
                      health'[u] = "wild", health[u] \in {"ok", "over"}
               PROVE  pc \in {"realloc", "store", "reset"} /\ op.uart = u
    OBVIOUS
  <2>t. TypeOK /\ BlockFits(u) /\ Healthy(u)
    BY IInvByBuffer
  <2>h. health \in [Uarts -> States]
    BY <2>t DEF TypeOK
  <2>1. ASSUME NEW v \in Uarts, cmn_uart_rx_inthandler(v)
        PROVE  pc \in {"realloc", "store", "reset"} /\ op.uart = u
    <3>1. buf_write(v, hw[v]) /\ buf_is_enabled(v)
      BY <2>1 DEF cmn_uart_rx_inthandler
    <3>2. u = v /\ ~(desc[u].wptr < alloc[u])
      BY <2>h, <3>1 DEF buf_write
    <3>3. InBounds(u)
      BY <2>t, <3>1, <3>2 DEF Healthy
    <3>4. alloc[u] # RealSize(desc[u])
      BY <3>2, <3>3 DEF InBounds
    <3>5. QED
      BY <2>t, <3>1, <3>2, <3>4 DEF BlockFits
  <2>2. CASE BufReadAdvance
    BY <2>2, <2>h DEF BufReadAdvance
  <2>3. ASSUME NEW v \in Uarts, NEW l \in LogSizes[v], SetBufferOn(v, l) PROVE FALSE
    BY <2>3, <2>h DEF SetBufferOn, Resized
  <2>4. CASE BufSetReset
    BY <2>4, <2>h DEF BufSetReset
  <2>5. CASE health' = health
    BY <2>5
  <2>6. QED
    BY <2>1, <2>2, <2>3, <2>4, <2>5
       DEF Next, Interrupt, Reading, Setting, Receive, platform_uart_recv, BufReadCopy,
           BufReadCount, RecvDirect, RecvTimeout, SetBufferOff, BufSetNone, BufSetRealloc,
           BufSetMoves, BufSetStore, BufSetFails, SetBufferSetup
<1>2. QED
  BY <1>1, Invariance, PTL DEF Spec, WildOnlyByResizing

(* buf_read hands out the oldest unread byte of a healthy buffer; otherwise *)
(* only the interrupt's byte enters it, and only a failing buf_set empties it. *)
THEOREM BytesLeaveInOrder == Spec => ReadsOldestFirst
<1> DEFINE Leaves(u) ==
      health[u] = "ok" /\ health'[u] = "ok" /\ unread'[u] # unread[u] =>
        \/ pc' = "count" /\ op.uart = u /\ unread[u] = <<data'>> \o unread'[u]
        \/ unread'[u] = Append(unread[u], hw[u]) /\ hw'[u] = NoByte
        \/ pc = "reset" /\ pc' = "idle"
<1>1. ASSUME IInv, Next, NEW u \in Uarts PROVE Leaves(u)
  <2>t. /\ TypeOK /\ health \in [Uarts -> States] /\ unread \in [Uarts -> Seq(Byte)]
        /\ hw \in [Uarts -> AnyByte]
    BY <1>1 DEF IInv, TypeOK
  <2>1. ASSUME NEW v \in Uarts, cmn_uart_rx_inthandler(v) PROVE Leaves(u)
    <3>1. buf_write(v, hw[v]) /\ hw' = [hw EXCEPT ![v] = NoByte]
      BY <2>1 DEF cmn_uart_rx_inthandler
    <3>2. QED
      BY <2>t, <3>1 DEF buf_write
  <2>2. CASE BufReadCopy
    <3>1. CASE op.uart = u
      BY <1>1, <2>2, <3>1, CopyStep DEF BufReadCopy
    <3>2. CASE op.uart # u
      BY <2>2, <2>t, <3>2 DEF BufReadCopy
    <3>3. QED
      BY <3>1, <3>2
  <2>3. CASE BufReadAdvance
    BY <2>3, <2>t DEF BufReadAdvance
  <2>4. ASSUME NEW v \in Uarts, NEW l \in LogSizes[v], SetBufferOn(v, l) PROVE Leaves(u)
    BY <2>4, <2>t DEF SetBufferOn
  <2>5. CASE BufSetReset
    BY <2>5 DEF BufSetReset
  <2>6. CASE unread' = unread
    BY <2>6
  <2>7. QED
    BY <1>1, <2>1, <2>2, <2>3, <2>4, <2>5, <2>6
       DEF Next, Interrupt, Reading, Setting, Receive, platform_uart_recv,
           BufReadCount, RecvDirect, RecvTimeout, SetBufferOff, BufSetNone, BufSetRealloc,
           BufSetMoves, BufSetStore, BufSetFails, SetBufferSetup
<1>2. IInv /\ [Next]_vars => [\A u \in Uarts : Leaves(u)]_vars
  BY <1>1
<1>3. QED
  BY <1>2, Invariance, PTL DEF Spec, ReadsOldestFirst
=============================================================================
