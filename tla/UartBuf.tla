------------------------------ MODULE UartBuf -------------------------------
(***************************************************************************)
(* Buffered reception on the physical UARTs: the ring buffers of           *)
(* src/buf.c, the receive interrupt and platform_uart_set_buffer,          *)
(* platform_uart_recv of src/common_uart.c, and the C handler slot of      *)
(* src/elua_int.c through which the interrupt reaches them.                *)
(*                                                                         *)
(* The interrupt writes to a buffer, the main program reads from it and    *)
(* changes its size; the interrupt may come between any two accesses of    *)
(* the main program to a buffer descriptor.  Elements are bytes            *)
(* (BUF_DSIZE_U8), so pointers count elements.                             *)
(***************************************************************************)
EXTENDS Integers, Sequences

CONSTANTS
  Uarts,     \* physical UARTs
  Bytes,     \* the bytes each UART may receive: [Uarts -> SUBSET Byte]
  LogSizes,  \* the log2 sizes its buffer may be given: [Uarts -> SUBSET Nat]
  NoByte     \* nothing: an empty receive register, a buffer cell never written

Byte     == UNION {Bytes[u] : u \in Uarts}
LogSize  == UNION {LogSizes[u] : u \in Uarts}
SizeNone == 0                                    \* BUF_SIZE_NONE
MaxCells == 2 ^ (CHOOSE l \in LogSize : \A k \in LogSize : k <= l)
Cells    == 0 .. MaxCells - 1

ASSUME ConstantsAssumption ==
  /\ Uarts # {}
  /\ \A u \in Uarts : LogSizes[u] \subseteq 1 .. 15 /\ LogSizes[u] # {}
  /\ NoByte \notin Byte

VARIABLES
  desc,    \* buf_desc_uart: logsize, rptr, wptr, count of each UART's buffer
  alloc,   \* size in bytes of the heap block each descriptor points to; 0
           \* for none, or one that realloc has left
  mem,     \* what the blocks contain
  hw,      \* the receive register of each UART (hardware)
  rxint,   \* UARTs whose receive interrupt is enabled
  chandler,\* elua_int_c_handler_list[ INT_UART_RX ]
  prev,    \* prev_uart_rx_handler
  pc,      \* where the main program is
  op,      \* the operation it is in: UART, buffer size, kind of timeout
  data,    \* the byte buf_read copied
  unread,  \* history: bytes accepted and not yet read, oldest first
  health   \* history: what the buffer has gone through, see below

bufvars == <<desc, alloc, mem>>
intvars == <<rxint, chandler, prev>>
vars    == <<desc, alloc, mem, hw, rxint, chandler, prev, pc, op, data, unread,
             health>>

NoOp == [uart |-> CHOOSE u \in Uarts : TRUE, logsize |-> SizeNone,
         timeout |-> "none"]

(* The values of health.                                                    *)
(* "ok": the buffer has behaved as a queue.  "over": a write was accepted   *)
(* although every cell held an unread byte.  "stale": its size changed      *)
(* while the pointers or the count belonged to the old size.  "wild": a     *)
(* write missed the heap block, past its end, in the block that realloc has *)
(* left, or through NULL.                                                   *)

Init ==
  /\ desc = [u \in Uarts |-> [logsize |-> SizeNone, rptr |-> 0, wptr |-> 0, count |-> 0]]
  /\ alloc = [u \in Uarts |-> 0]
  /\ mem = [u \in Uarts |-> [c \in Cells |-> NoByte]]
  /\ hw = [u \in Uarts |-> NoByte]
  /\ rxint = {}
  /\ chandler = "none" /\ prev = "none"
  /\ pc = "idle" /\ op = NoOp /\ data = NoByte
  /\ unread = [u \in Uarts |-> <<>>]
  /\ health = [u \in Uarts |-> "ok"]

-----------------------------------------------------------------------------
(* src/buf.c *)

buf_is_enabled(u) == desc[u].logsize # SizeNone

(* BUF_REALSIZE: elements in the buffer *)
RealSize(d) == 2 ^ d.logsize

(* Faulty variant: the pointer wraps one element too late. *)
ModIncr_Late(p, d) == (p + 1) % (RealSize(d) + 1)

(* BUF_MOD_INCR *)
ModIncr(p, d) == (p + 1) % RealSize(d)

(* Faulty variant: no overflow check at all. *)
CountOverflows_Never(d) == FALSE

(* The overflow test of buf_write. *)
CountOverflows(d) == d.count > RealSize(d)

(* Faulty variant: the count is not incremented. *)
buf_write_NoCount(u, b) ==
  IF CountOverflows(desc[u])
    THEN UNCHANGED <<desc, mem, unread, health>>
    ELSE /\ mem' = [mem EXCEPT ![u][desc[u].wptr] = b]
         /\ desc' = [desc EXCEPT ![u].wptr = ModIncr(desc[u].wptr, desc[u])]
         /\ UNCHANGED <<unread, health>>

(* buf_write, run by the interrupt, when buffering is enabled. *)
buf_write(u, b) ==
  LET d == desc[u]
      inside == d.wptr < alloc[u]
  IN IF CountOverflows(d)
       THEN UNCHANGED <<desc, mem, unread, health>>
       ELSE /\ mem' = IF inside THEN [mem EXCEPT ![u][d.wptr] = b] ELSE mem
            /\ desc' = [desc EXCEPT ![u].wptr = ModIncr(d.wptr, d),
                                    ![u].count = d.count + 1]
            /\ unread' = IF health[u] = "ok" THEN [unread EXCEPT ![u] = Append(@, b)]
                                             ELSE unread
            /\ health' = [health EXCEPT ![u] =
                 IF ~inside THEN "wild"
                 ELSE IF @ = "ok" /\ Len(unread[u]) = RealSize(d) THEN "over"
                 ELSE @]

(* buf_read finds nothing. *)
Underflow(u) == ~buf_is_enabled(u) \/ desc[u].count = 0

(* What a read of cell c may find: anything, if it was never written or is  *)
(* not in the heap block.                                                   *)
Contents(u, c) ==
  IF c < alloc[u] /\ mem[u][c] # NoByte THEN {mem[u][c]} ELSE Bytes[u]

(* Faulty variant: the newest byte is copied. *)
BufReadCopy_Newest ==
  /\ pc = "recv" /\ buf_is_enabled(op.uart) /\ ~Underflow(op.uart)
  /\ data' \in Contents(op.uart, (desc[op.uart].wptr - 1) % RealSize(desc[op.uart]))
  /\ unread' = IF health[op.uart] = "ok" /\ unread[op.uart] # <<>>
                 THEN [unread EXCEPT ![op.uart] = Tail(@)] ELSE unread
  /\ pc' = "count"
  /\ UNCHANGED <<bufvars, hw, intvars, op, health>>

(* buf_read, first part: the byte at rptr is copied. *)
BufReadCopy ==
  /\ pc = "recv" /\ buf_is_enabled(op.uart) /\ ~Underflow(op.uart)
  /\ data' \in Contents(op.uart, desc[op.uart].rptr)
  /\ unread' = IF health[op.uart] = "ok" /\ unread[op.uart] # <<>>
                 THEN [unread EXCEPT ![op.uart] = Tail(@)] ELSE unread
  /\ pc' = "count"
  /\ UNCHANGED <<bufvars, hw, intvars, op, health>>

(* ... second: count is decremented with interrupts disabled. *)
BufReadCount ==
  /\ pc = "count"
  /\ desc' = [desc EXCEPT ![op.uart].count = @ - 1]
  /\ pc' = "rptr"
  /\ UNCHANGED <<alloc, mem, hw, intvars, op, data, unread, health>>

(* Faulty variant: the read pointer is left alone. *)
BufReadAdvance_Stays ==
  /\ pc = "rptr"
  /\ pc' = "idle" /\ op' = NoOp /\ data' = NoByte
  /\ UNCHANGED <<desc, alloc, mem, hw, intvars, unread, health>>

(* ... third: the read pointer moves.  An overfull buffer that has been     *)
(* read empty is a proper queue again: both pointers meet.                  *)
BufReadAdvance ==
  LET u == op.uart
      d == [desc[u] EXCEPT !.rptr = ModIncr(desc[u].rptr, desc[u])]
      again == health[u] \in {"over", "stale"} /\ d.count = 0 /\ d.rptr = d.wptr
                 /\ d.rptr < RealSize(d)
  IN /\ pc = "rptr"
     /\ desc' = [desc EXCEPT ![u] = d]
     /\ unread' = IF again THEN [unread EXCEPT ![u] = <<>>] ELSE unread
     /\ health' = IF again THEN [health EXCEPT ![u] = "ok"] ELSE health
     /\ pc' = "idle" /\ op' = NoOp /\ data' = NoByte
     /\ UNCHANGED <<alloc, mem, hw, intvars>>

-----------------------------------------------------------------------------
(* src/common_uart.c *)

(* A byte arrives; one that finds the register occupied is lost (hardware). *)
Receive(u, b) ==
  /\ hw[u] = NoByte
  /\ hw' = [hw EXCEPT ![u] = b]
  /\ UNCHANGED <<bufvars, intvars, pc, op, data, unread, health>>

(* The receive interrupt: cmn_int_handler finds the C handler, which moves  *)
(* the byte to the buffer if the UART is buffered, then calls the previous  *)
(* handler (never one in this system).                                      *)
cmn_uart_rx_inthandler(u) ==
  /\ u \in rxint /\ chandler = "cmn" /\ hw[u] # NoByte
  /\ buf_is_enabled(u)
  /\ buf_write(u, hw[u])
  /\ hw' = [hw EXCEPT ![u] = NoByte]
  /\ UNCHANGED <<alloc, intvars, pc, op, data>>

(* platform_uart_recv is called, to wait without end or for a limited time. *)
platform_uart_recv(u, timeout) ==
  /\ pc = "idle"
  /\ pc' = "recv"
  /\ op' = [uart |-> u, logsize |-> SizeNone, timeout |-> timeout]
  /\ UNCHANGED <<bufvars, hw, intvars, data, unread, health>>

(* Its unbuffered case reads the register (platform_s_uart_recv). *)
RecvDirect ==
  /\ pc = "recv" /\ ~buf_is_enabled(op.uart) /\ hw[op.uart] # NoByte
  /\ hw' = [hw EXCEPT ![op.uart] = NoByte]
  /\ pc' = "idle" /\ op' = NoOp
  /\ UNCHANGED <<bufvars, intvars, data, unread, health>>

(* Nothing there and the timeout has passed: it returns -1. *)
RecvTimeout ==
  /\ pc = "recv" /\ op.timeout = "limited"
  /\ IF buf_is_enabled(op.uart) THEN Underflow(op.uart) ELSE hw[op.uart] = NoByte
  /\ pc' = "idle" /\ op' = NoOp
  /\ UNCHANGED <<bufvars, hw, intvars, data, unread, health>>

(* platform_uart_set_buffer( u, 0 ): the interrupt of u is disabled and the *)
(* C handler is replaced by the previous one.                               *)
SetBufferOff(u) ==
  /\ pc = "idle"
  /\ rxint' = rxint \ {u}
  /\ chandler' = IF chandler = "cmn" THEN prev ELSE chandler
  /\ pc' = "off"
  /\ op' = [uart |-> u, logsize |-> SizeNone, timeout |-> "none"]
  /\ UNCHANGED <<bufvars, hw, prev, data, unread, health>>

(* realloc keeps what fits in the new block. *)
Kept(u, size) == [c \in Cells |-> IF c < size THEN mem[u][c] ELSE NoByte]

(* ... and then buf_set with BUF_SIZE_NONE: the block shrinks to one byte. *)
BufSetNone ==
  /\ pc = "off"
  /\ desc' = [desc EXCEPT ![op.uart].logsize = SizeNone]
  /\ alloc' = [alloc EXCEPT ![op.uart] = 1]
  /\ mem' = [mem EXCEPT ![op.uart] = Kept(op.uart, 1)]
  /\ pc' = "idle" /\ op' = NoOp
  /\ UNCHANGED <<hw, intvars, data, unread, health>>

(* buf_set keeps the pointers and the count of a buffer that has been in    *)
(* use, whatever the new size is.                                           *)
Resized(u, logsize) ==
  LET d == desc[u]
      fits == d.count = 0 /\ d.rptr = d.wptr /\ d.rptr < 2 ^ logsize
  IN IF health[u] \in {"ok", "over"} /\ logsize # d.logsize /\ ~fits
       THEN "stale" ELSE health[u]

(* platform_uart_set_buffer( u, logsize ): buf_set stores the new size ...  *)
SetBufferOn(u, logsize) ==
  /\ pc = "idle"
  /\ desc' = [desc EXCEPT ![u].logsize = logsize]
  /\ health' = [health EXCEPT ![u] = Resized(u, logsize)]
  /\ unread' = IF health'[u] = "ok" THEN unread ELSE [unread EXCEPT ![u] = <<>>]
  /\ pc' = "realloc"
  /\ op' = [uart |-> u, logsize |-> logsize, timeout |-> "none"]
  /\ UNCHANGED <<alloc, mem, hw, intvars, data>>

(* The new block is larger than the old.  The allocators of the system give *)
(* back one that is not where it is, and never fail to (srealloc in         *)
(* src/salloc.c, dlrealloc in src/dlmalloc.c).                              *)
Grows == 2 ^ op.logsize > alloc[op.uart]

(* ... then reallocates the block, which may be done in place; contents     *)
(* are kept up to the smaller size.                                         *)
BufSetRealloc ==
  /\ pc = "realloc"
  /\ alloc' = [alloc EXCEPT ![op.uart] = 2 ^ op.logsize]
  /\ mem' = [mem EXCEPT ![op.uart] = Kept(op.uart, 2 ^ op.logsize)]
  /\ pc' = "setup"
  /\ UNCHANGED <<desc, hw, intvars, op, data, unread, health>>

(* ... or moves: realloc has copied the contents, but the descriptor still  *)
(* points to the old block,                                                 *)
BufSetMoves ==
  /\ pc = "realloc" /\ Grows
  /\ alloc' = [alloc EXCEPT ![op.uart] = 0]
  /\ pc' = "store"
  /\ UNCHANGED <<desc, mem, hw, intvars, op, data, unread, health>>

(* until pbuf->buf is assigned.                                             *)
BufSetStore ==
  /\ pc = "store"
  /\ alloc' = [alloc EXCEPT ![op.uart] = 2 ^ op.logsize]
  /\ mem' = [mem EXCEPT ![op.uart] = Kept(op.uart, 2 ^ op.logsize)]
  /\ pc' = "setup"
  /\ UNCHANGED <<desc, hw, intvars, op, data, unread, health>>

(* ... or realloc fails, NULL is stored,                                    *)
BufSetFails ==
  /\ pc \in {"realloc", "off"} /\ Grows
  /\ alloc' = [alloc EXCEPT ![op.uart] = 0]
  /\ pc' = "reset"
  /\ UNCHANGED <<desc, mem, hw, intvars, op, data, unread, health>>

(* then the buffer is disabled and reset; the interrupt ignores it as soon  *)
(* as the first of these assignments, to logsize, is made.                  *)
BufSetReset ==
  /\ pc = "reset"
  /\ desc' = [desc EXCEPT ![op.uart] =
                [logsize |-> SizeNone, rptr |-> 0, wptr |-> 0, count |-> 0]]
  /\ mem' = [mem EXCEPT ![op.uart] = Kept(op.uart, 0)]
  /\ unread' = [unread EXCEPT ![op.uart] = <<>>]
  /\ health' = [health EXCEPT ![op.uart] = IF @ = "wild" THEN @ ELSE "ok"]
  /\ pc' = "idle" /\ op' = NoOp
  /\ UNCHANGED <<alloc, hw, intvars, data>>

(* ... and installs the C handler and enables the interrupt. *)
SetBufferSetup ==
  /\ pc = "setup"
  /\ IF chandler # "cmn" THEN prev' = chandler /\ chandler' = "cmn"
                         ELSE UNCHANGED <<prev, chandler>>
  /\ rxint' = rxint \cup {op.uart}
  /\ pc' = "idle" /\ op' = NoOp
  /\ UNCHANGED <<bufvars, hw, data, unread, health>>

Interrupt == \E u \in Uarts : cmn_uart_rx_inthandler(u)
Reading   == BufReadCopy \/ BufReadCount \/ BufReadAdvance \/ RecvDirect
Setting   == BufSetNone \/ BufSetRealloc \/ BufSetMoves \/ BufSetStore
               \/ BufSetFails \/ BufSetReset \/ SetBufferSetup

Next ==
  \/ \E u \in Uarts : \E b \in Bytes[u] : Receive(u, b)
  \/ Interrupt
  \/ \E u \in Uarts, t \in {"limited", "infinite"} : platform_uart_recv(u, t)
  \/ Reading
  \/ RecvTimeout
  \/ \E u \in Uarts : SetBufferOff(u) \/ \E l \in LogSizes[u] : SetBufferOn(u, l)
  \/ Setting

(* The main program runs and an enabled interrupt is taken; nothing makes   *)
(* bytes arrive or calls happen.                                            *)
Fairness == WF_vars(Reading) /\ WF_vars(Setting)
              /\ \A u \in Uarts : WF_vars(cmn_uart_rx_inthandler(u))

Spec     == Init /\ [][Next]_vars
FairSpec == Spec /\ Fairness
-----------------------------------------------------------------------------
(* The reader has copied a byte of u and not yet moved the read pointer. *)
InRead(u) == op.uart = u /\ pc \in {"count", "rptr"}

(* The place of the oldest unread byte. *)
Base(u) == IF InRead(u) THEN desc[u].rptr + 1 ELSE desc[u].rptr

IsQueue(u) ==
  LET d == desc[u]
      n == Len(unread[u])
  IN /\ d.count = IF pc = "count" /\ op.uart = u THEN n + 1 ELSE n
     /\ buf_is_enabled(u) =>
          /\ n <= RealSize(d)
          /\ d.wptr = (Base(u) + n) % RealSize(d)
          /\ \A i \in 1 .. n : unread[u][i] = mem[u][(Base(u) + i - 1) % RealSize(d)]

(* A buffer that was neither overfilled nor resized in use is a queue,      *)
(* wherever the interrupt meets the reader: count is the number of unread   *)
(* bytes (one more until the reader has decremented it), the cells from the *)
(* read pointer on hold them in order, and the write pointer follows.       *)
BufferIsQueue == \A u \in Uarts : health[u] = "ok" => IsQueue(u)

InBounds(u) ==
  /\ desc[u].count <= RealSize(desc[u]) + 1
  /\ desc[u].rptr < RealSize(desc[u]) /\ desc[u].wptr < RealSize(desc[u])

(* The test of buf_write for > where >= was meant lets the count exceed the *)
(* size by one, and never by more, whatever the reader and the interrupt    *)
(* do; and the pointers of an overfull buffer stay inside it.  How many     *)
(* bytes that costs is not bounded: at the limit, each read followed by a   *)
(* write overwrites an unread byte, and none of them is reported.           *)
OverfullByOne ==
  \A u \in Uarts : health[u] \in {"ok", "over"} /\ buf_is_enabled(u) => InBounds(u)

(* buf_read hands out the oldest unread byte, and only reading removes one. *)
ReadsOldestFirst ==
  [][\A u \in Uarts : health[u] = "ok" /\ health'[u] = "ok" /\ unread'[u] # unread[u] =>
       \/ pc' = "count" /\ op.uart = u /\ unread[u] = <<data'>> \o unread'[u]
       \/ unread'[u] = Append(unread[u], hw[u]) /\ hw'[u] = NoByte
       \/ pc = "reset" /\ pc' = "idle"]_vars

(* buf_write misses the heap block only when the buffer is being resized:   *)
(* between the assignment of the new size in buf_set and that of the block, *)
(* or of "no buffer" when realloc fails, or later with pointers of the old  *)
(* size.                                                                    *)
WildOnlyByResizing ==
  [][\A u \in Uarts : health'[u] = "wild" /\ health[u] \in {"ok", "over"} =>
       pc \in {"realloc", "store", "reset"} /\ op.uart = u]_vars

(* platform_uart_recv without timeout returns once a byte has arrived, if   *)
(* the UART is read directly or its interrupt path is set up.               *)
RecvReturns ==
  \A u \in Uarts :
    (/\ pc = "recv" /\ op.uart = u /\ op.timeout = "infinite" /\ hw[u] # NoByte
     /\ buf_is_enabled(u) => u \in rxint /\ chandler = "cmn")
      ~> (pc = "idle")

(* doc/eluadoc/refman_gen_uart.lua on uart.set_buffer: "0 to disable        *)
(* buffering on the specified UART": a buffered UART whose interrupt is     *)
(* enabled keeps the handler that fills its buffer.                         *)
BufferedUartHasHandler ==
  \A u \in Uarts : pc = "idle" /\ buf_is_enabled(u) /\ u \in rxint => chandler = "cmn"
=============================================================================
