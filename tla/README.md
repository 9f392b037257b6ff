# Alcor6L: TLA+ models of the run-time system

Alcor6L (a descendant of eLua) runs Lua, PicoLisp, PicoC or Scheme programs on
microcontrollers without an operating system. There is one main program, the
interpreter, and the interrupt service routines of the chip; a host computer may
sit at the other end of a serial line (multiplexer, remote file system, XMODEM).
Almost everything that is hard to test in this code happens between the main
program and an interrupt, or between the device and the host.

This directory models the machine-independent core of that system in TLA+,
checks it with TLC on small instances and proves part of it with TLAPS. Paths
below are relative to the repository; `src/` in them is the repository's own
`src` directory.

## 1. Inventory

| Component | State | Operations | Interacts with | What makes it correct |
|---|---|---|---|---|
| Lua interrupt queue (`src/elua_int.c`, `src/common.c`, `src/modules/cpu.c`, hook of the Lua VM) | ring of (id, resource), two indexes, enable flags, handler table, a hook and its count per Lua thread | `elua_int_add` (ISR), `elua_int_hook` (VM), `cpu.set_int_handler`, coroutines, `lua_open`, `lua_close` | every driver that raises a Lua interrupt; virtual timers; the VM's count hook | FIFO, no lost wake-up, nothing dropped while there is room, nothing survives the Lua state |
| Buffered UARTs (`src/buf.c`, `src/common_uart.c`) | descriptor (size, pointers, count) and heap block per UART, shared C handler slot | `buf_set`, `buf_write` (ISR), `buf_read`, `platform_uart_recv`, `platform_uart_set_buffer` | C handler list of `elua_int.c`, heap, multiplexer | the buffer is a queue of the received bytes, never writes outside its block, a receiver without timeout returns |
| Virtual timers (`src/common_tmr.c`) | counters, limits, three bit masks, reset request | `cmn_virtual_timer_cb` (ISR), set match, enable/disable, get flag, start, delay | one hardware timer, interrupt queue | one-shot fires once, cyclic keeps firing, calls return |
| System timer (`src/common_tmr.c`) | 64-bit software counter and hardware counter | `cmn_systimer_periodic` (ISR), `cmn_systimer_get`, `platform_timer_delay` | every timeout in the system | a reading is the time, a delay is waited |
| Simple allocator (`src/salloc.c`) | doubly linked chain of blocks per RAM area | `smalloc`, `sfree`, `scalloc`, `srealloc` | the C library's allocation calls | grants never overlap, nothing leaks, the chain is sound |
| Serial multiplexer (`src/common_uart.c`, `mux_src/main.c`) | last service id sent and received, escape state, last byte | send, receive interrupt, host loop | physical UART, virtual UARTs, RFS | a byte reaches the service it was sent to, in order, and the host program survives; either side may restart |
| Remote file system (`src/remotefs`, `src/eluarpc.c`, `rfs_server_src`) | request/response buffer, open files of the server | open, read, write, seek, close, directory | UART or multiplexer, system timer | a response belongs to its request, also after a timeout |
| XMODEM receiver (`src/xmodem.c`) | block number, retries, buffer | `xmodem_receive` | UART, system timer, shell | the received file is the file sent, or an error |
| ADC (`src/elua_adc.c`) | per-channel state and buffers shared with the conversion interrupt | setup, sample, interrupt, get | `buf.c`, timers | no sample lost or taken twice |
| Device manager, system calls (`src/newlib`) | table of devices, descriptors | register, open, read, write | all file systems | a descriptor reaches the device it was opened on |
| ROM / write-once file system (`src/romfs.c`) | flash records, descriptor table, writing flag | open, read, write, seek, close, format | flash driver | a closed file keeps its contents, a flash byte is programmed once, an interrupted write damages no other file |
| Shell, line editing, terminal, editor | command line, history, screen | - | console | text processing, layout |
| Interpreters, FatFs, uIP, dlmalloc, LuaRPC | - | - | - | adopted code |
| Platform ports | registers | - | the functions above | chip specific |

Hard behaviours: an interrupt between any two memory accesses of the main
program (queue, buffers, timers, 64-bit counter), non-atomic updates of shared
bits, spin loops that only an interrupt can end, rings at their limit, a Lua
error that leaves C code half-way, coroutines that inherit a debug hook, resizing a
buffer that is in use, a handler slot shared by several UARTs, long call sequences on
the allocator's chain, on the serial line late answers, repeated blocks and restarts of
one side in the middle of a packet, and in the flash a loss of power between any two
bytes of a record or two sectors of a format.
`PROJECT.json` lists them under `hazards`, each at its line and with the
properties that would catch it.

## 2. Modules

| Module | Models | Kind |
|---|---|---|
| `IntQueue` | interrupt queue, hook, handler table, opening and closing of the Lua state | component |
| `IntQueueProofs` | inductive invariant and theorems about `IntQueue` | proofs |
| `UartBuf` | `buf.c` and the physical UART part of `common_uart.c` | component |
| `UartBufProofs` | inductive invariant and theorems about `UartBuf` | proofs |
| `VTimer` | virtual timers | component |
| `VTimerProofs` | inductive invariant and theorems about `VTimer` | proofs |
| `SysTimer` | system timer and delays on it | component |
| `SysTimerProofs` | inductive invariant and theorems about `SysTimer` | proofs |
| `Salloc` | simple allocator | component |
| `SallocProofs` | inductive invariant, theorems and refinement of `Salloc` | proofs |
| `Allocator` | what a program may rely on of any allocator | abstract specification |
| `Sermux` | both ends of the serial multiplexer | two communicating components |
| `Wofs` | write-once file system of `romfs.c` | component |
| `WofsProofs` | inductive invariant and theorems about `Wofs` | proofs |
| `Rfs` | remote file system: client, packets, server | two communicating components |
| `RfsProofs` | inductive invariant and theorems about `Rfs` | proofs |
| `Xmodem` | XMODEM receiver with an external sender | component and environment |
| `XmodemProofs` | inductive invariant and theorems about `Xmodem` | proofs |
| `MC...` | instances for TLC | |

An interrupt service routine is one step: the routines that reach these
components share one preemption priority on the supported platforms, so they do
not nest. The main program is a process with a program counter `pc`; it takes a
step per access to shared state, and an interrupt fits between any two steps.
Variables named *history* in the modules record what the code does not store
(the bytes accepted so far, the true time) and influence nothing. Definitions
whose comment begins with *Faulty variant* are deliberately wrong versions of
the definition below them; they show that the properties notice such a mistake.

### IntQueue

`queue`, `read_idx`, `write_idx`, `flags` are the static variables of
`elua_int.c`. `handlers` is the interrupt table in the Lua registry. A Lua hook and its
count belong to one thread (`lua_State`): `hookcount[t]` is `L->hookcount` of thread
`t`, zero when it has no hook (`lua_sethook` sets hook, mask and count together), and
an instruction counts down the hook of the thread that executes it, no other.
`elua_int_add` arms the thread that `lua_getstate` gives, the main one, whichever is
running. `elua_int_add` is the whole routine; its two early returns
leave everything unchanged and are stuttering steps. `elua_int_hook` is split at
its accesses: copy of the element (`HookTake`), clearing of the slot
(`HookClear`), move of the read index and decision about the handler
(`HookAdvance`), the Lua handler (`HandlerReturn` or `HandlerError`, any
instructions, calls and coroutines in between), and the final check under disabled
interrupts (`HookTail`), which removes the hook of the thread it runs in. `VMInstr` is a
bytecode instruction that counts down.
`lua_close` runs with interrupts disabled up to the point the model covers.

Besides the main thread there is one coroutine at a time. `luaE_newthread` gives it a
copy of its creator's hook with a full count (`src/lua/lstate.c:134`), and nothing takes
that copy away when the main thread's hook is removed. `lua_resume`, `lua_yield` and
`CoroutineEnds` pass the control between the two; the main thread waits for the
coroutine it has resumed, also in the middle of a handler. Further coroutines behave as
this one does: they get their hook from the thread that creates them.

Two things let `elua_int_hook` run on an empty queue or leave it half-way, and `lapses`
(history) records them: a handler error, which unwinds past the rest of the hook, and a
coroutine that runs the hook it has inherited. From then on read and write
index may drift apart until `lua_close` resets them, so most properties are
stated for executions without a lapse (`~lapsed`); a coroutine that has not run an
inherited hook is none. The run `int_queue_error` shows what happens otherwise.

### UartBuf

`desc`, `alloc` and `mem` are the descriptors, the sizes of their heap blocks
and the contents; reading a cell outside the block or never written yields any
byte. `buf_write` is run by the interrupt; `buf_read` is split into the copy, the
decrement of `count` under disabled interrupts and the move of the read pointer;
`buf_set` into the store of the new size, the `realloc` and the store of the block's
address: the block may grow or shrink in place (`BufSetRealloc`), it may move, and then
the descriptor points to the old block until the address is stored (`BufSetMoves`,
`BufSetStore`; `alloc` is 0 meanwhile), or `realloc` fails, when NULL is stored first and
the buffer disabled afterwards (`BufSetFails`, `BufSetReset`). A receive interrupt may
come between any two of these.
`chandler` and `prev` are the shared slot of the C handler for received bytes and
the handler saved from it. `health` is history: a write accepted by a full buffer
(`over`), a size changed while pointers or count belonged to the old size
(`stale`), a write outside the heap block: past its end, in the block that `realloc` has
left, or through NULL (`wild`). What follows a wild write is
not modelled further: it damages foreign memory. The previous handler is always
none, as nothing else in the repository's portable code installs one. Virtual
UARTs, `buf_flush` and elements of two bytes (used by the ADC) are left out so
far, as is a failure of `platform_cpu_set_interrupt`.

### VTimer

All shared variables keep their names. `mask |= m` and `mask &= ~m` are two
steps, `LoadMask` and a store, for the two masks that the interrupt also writes;
the periodic mask is only written by the main program, so its update is one
step. `vtmr_reset_timer` is `AskReset` and the waiting loop `AwaitReset`. The
conversion of microseconds to ticks is the code's integer division (`Ticks`).
`shots` and `revived` are history: how often a one-shot timer has fired since it
was enabled, and whether a store brought its enable bit back.

### SysTimer

`raw` runs through one interrupt period in hardware ticks. `cmn_systimer_get` is
modelled access by access, and each load of the 64-bit `cmn_systimer_counter` is
two loads of a word in either order (`LoadHalf`, `Loaded`). A pending interrupt
is taken before the main program's next access. The overflow branch is modelled
(remainder, interrupt disabled, counter restarted, interrupt enabled). `slips`
(history) says what disturbed the current delay: a late interrupt (`late`), the
overflow (`wrap`), the overflow at the reading of the start time (`start`), or a reading
so long that the low half of the counter may have gone once through all its values,
less one period (`slow`: 2^32 microseconds in the code, over an hour).

### Salloc and Allocator

Addresses are in units of eight bytes, as in the chain itself; a header takes one
unit. `s_compact_free` follows the free blocks in both directions up to the first
taken ones (`FirstTaken` of the blocks `Along` the links) and links the ends; `s_get_free_block` takes the best fit and splits it if the rest is worth
it; `Smalloc` tries the areas in order; `srealloc` shrinks in place or moves.
`scalloc` differs from `smalloc` by clearing the memory; contents are not
modelled. Sizes near the top of `size_t`, for which adding the header wraps, are
excluded. `Allocator` keeps only the set `live` of grants, and `Salloc` is shown
to implement it with the identity as refinement mapping on `live`.

### Sermux

One variable per pair of the code's variables, indexed by the side: `id_in`,
`id_out`, `got_esc` and `last_sent` are `uart_service_id_in` ... on the device and
`service_id_in` ... `prev_sent` in `mux_src/main.c`. `wire` holds the bytes on their
way to each side. `platform_uart_send` is split at every byte it sends and every
shared variable it assigns, and the receive interrupt (`cmn_rx_handler`) may come
between any two; the host's loop handles one byte per turn (`HostReceive`,
`HostSend`). The two receivers are the same code but for the answer to a request
that cannot be met (data on the device, a protocol error on the host) and the check
of escaped bytes on the host; the shared part is `TakeEscape`, `TakeId`,
`TakeForce`, `TakeData`. `HostRestart(j, k)` discards the `k` bytes received until then,
as `transport_ser_init` does, while what is still on the line reaches the new program;
of what the old program had put out, byte by byte, only the first `j` bytes leave the
port. `DevRestart(k)` loses the first `k` bytes on the line.
The request for a repetition (`FORCE_SID`) only comes after a restart: the first
byte of every sender is preceded by its service id.

`pending` (history) is the queue of bytes sent and not delivered, `wrong` says that
a delivery was not the head of it. `lapsed` records that one of four circumstances
has occurred in which repeating one byte cannot restore the stream; the properties
are stated for executions without them, and each of the four is needed:

* `TwoInFlight`: a side without service id has two bytes coming and no id on the line
  before them. It asks twice, the other side repeats the second byte only and has
  nothing for the second request, which a device takes for data and the host for a
  protocol error. A burst whose service id is on the line before its first byte is none.
* `AskedInMidSend`: the interrupt answers the request inside `platform_uart_send`.
  The new last byte goes out under the old id, or under -1, which is 0xFF.
* `TornEscape`: a side is stopped between an escape character and its byte. The host
  reads an impossible escape and exits; the device flips a bit of the next plain byte.
* `NoOneToRepeat`: a side starts while a request is on the line, or both start while
  a byte is.

The RFS server inside the multiplexer is a virtual port like the others here.

### Wofs

`flash` is the area byte by byte; a record is found by the code's own scan, not from
a directory kept beside it. `romfs_open_file` is a bounded iteration of `ScanStep`,
and a scan that leaves the area or visits more records than fit is reported as
`outside` or `endless`. `fds`, `num_fd` and `writing` are the descriptor table, its
count and the flag of the file system. `romfs_open_r` is `OpenRead` and `OpenWrite`
(modes "w" and "a"; the flags `O_CREAT | O_RDONLY`, which would create a file nobody
can write, are left out, as nothing in the repository uses them). Each operation is
one step; the program is sequential and only a loss of power comes between: at rest,
after the old record is marked and `k` bytes of the name, after `k` bytes of data,
or after `k` bytes of the size. `wofs_format(k)` erases sector by sector and ends behind
sector `k`: the last that is needed, or an earlier one, if the next cannot be erased
(`src/romfs.c:524` returns 0 then) or power is lost there. The erasure of one sector is the
platform's and one step. `Program` is `platform_flash_write` (`src/common.c:539`): on a
platform that writes whole units, it fills the unit up with the bytes it has just read
there, so that programmed bytes are programmed again with the values they have. `twice`
counts changes of a byte, not such repetitions. `SearchLost` is a search that never returns or reads
beyond the area; only a reset helps. `files` (history) are the contents each file was
closed with, `twice` whether a byte that was not erased has been changed. `torn` is
`yes` once a record or a format was left incomplete, and `spoilt` once a file was created
after that, or something that never was a file was taken for one and replaced
(`Phantom`), or a file was created whose name is longer than `DM_MAX_FNAME_LENGTH`: no
caller checks the length (`src/romfs.c:217`), the search compares that many bytes only,
and the record it then computes does not end where the real one does. A format that
erases everything makes all that undone. The size is four
bytes as in the code. The name "\1", by which the code looks for the end, is taken to
occur nowhere, not even inside an interrupted record.

### Rfs

Packets are sequences of units: mark, length, head (start, signature, operation),
data and end. A unit carries, as history, the number of its call and its place in the
packet; the code cannot see them. The client follows `rfsch_send_request_read_response`: draining into
`rfsc_buffer[0]` (`first` is what that byte has become), sending unit by unit,
reading the header and then as many units as it says, any wait ending in a timeout.
The server reads a header and then the request, executes it and sends `rfs_buffer`
back, whatever it holds. `transport` is decided when it first makes a difference: on a
bad header the serial transport flushes and starts over, the in-memory transport of
the multiplexer stops listening. `read` and `write` stand for the eight operations:
one has data in its answer, the other in its request. `os_read` may fail (`failed`,
history). Its -1 is then taken for a length of 0xFFFFFFFF (`src/rfs_server_src/server.c:80`):
a 32-bit server steps back by one byte when it skips the data (`eluarpc_write_ptr`) and
writes the end of the packet over the length, so that the client finds no end where it
looks for it (`Failure`, a packet whose last unit is `lost`), and a 64-bit server writes
outside its buffer and ends, which is a restart. Restarts of either side may
come at any unit: one of the device cuts the request it is sending, one of the server
(`ServerRestart(k)`) what it has received, and of the responses all but `k` units, as the
multiplexer sends them byte by byte. The line loses nothing else; over the multiplexer that is what
`Sermux` shows in the absence of lapses.

### Xmodem

`xmodem_receive` with its locals; `pc` is the place in its loop where it waits for a
byte. A flush ends when nothing is on its way, so everything sent before the answer
is thrown away. A block holds one data byte and one byte of CRC, block numbers wrap
at `Numbers`. The sender is external and follows the XMODEM protocol: it repeats a
block on NAK and when no answer comes, and its user may cancel it. The line loses
bytes in both directions; `kinds` (history) says which.

The model's checksum is one byte. A block that lost a byte and whose sender was then
stopped ends in the CAN of the sender, and `ChecksumAssumption` says that this byte is
not the right checksum by chance. The code's CRC of two bytes cannot exclude such a
chance either; how likely it is, is not a question about the protocol. No other
damaged block can pass: the assumption is the only one about checksum and file.

## 3. Runs

| Run | Instance | Distinct states | Result |
|---|---|---|---|
| `int_queue` | 4 slots, 2 ids, failing handlers, a coroutine | 605 thousand | pass |
| `int_queue_error` | the same | | `HookSetWhileQueued` violated |
| `uart_buffer` | 1 UART, buffers of 2 and 4 bytes, 2 byte values | 810 thousand | pass |
| `uart_buffer_off` | 2 UARTs, buffers of 2 bytes | | `BufferedUartHasHandler` violated |
| `virtual_timers` | 2 timers, counters modulo 3 | 317 thousand | pass |
| `virtual_timers_oneshot` | the same | | `OneShotOnce` violated |
| `system_timer` | period 3 us of 2 ticks, overflow after 10 us, halves of 3 bits | 15 million | pass |
| `simple_allocator` | areas of 10 and 4 units, sizes 0, 8, 9, 24 | 22 thousand | pass |
| `serial_multiplexer` | 2 services, 3 bytes sent, each side restarts once | 286 thousand | pass |
| `write_once_fs` | 48 bytes in 3 sectors, 3 names, 2 descriptors, 6 flash operations | 133 thousand | pass |
| `remote_fs` | 3 calls, 1 restart | 1.6 million | pass |
| `xmodem_receive` | 5 blocks, numbers modulo 4, 4 retries, 3 bytes lost | 135 thousand | pass |

What the passing runs show:

* `int_queue`: the ring holds exactly the accepted and not yet taken interrupts,
  in order (`RingHoldsPending`, `OnlyTheOldestLeaves`); an overflow is reported
  exactly when every slot is taken (`OverflowIffFull`), although the code looks at
  one slot and not at the indexes; the main thread's hook is installed exactly when
  something waits and does not run on an empty queue (`HookMatchesQueue`); all this until
  a handler fails or a coroutine runs the hook it inherited. A waiting interrupt is served
  under any rate of interrupts (`WaitingIsServed`), because an interrupt that meets a full
  queue does not restart the hook count, provided that the main thread keeps getting the
  processor: a program that stays in a coroutine for ever never serves one. Closing leaves
  nothing behind (`CleanWhenClosed`), after lapses too.
* `uart_buffer`: a buffer is a queue (`BufferIsQueue`, `ReadsOldestFirst`) until it
  is overfilled or resized in use; overfilling, possible because the test in `buf_write`
  is `>`, lets the count pass the size by one at most and leaves the pointers inside the
  buffer (`OverfullByOne`); it does not bound the loss, as at the limit each read followed
  by a write overwrites another unread byte unreported; writes outside the heap block come
  from resizing only, an empty buffer whose block moves included
  (`WildOnlyByResizing`); a receiver without timeout returns
  when its interrupt path is set up (`RecvReturns`).
* `virtual_timers`: the order of limit, type, reset and enable keeps a cyclic
  counter below its limit (`CyclicBelowLimit`); one-shot timers fire once per
  enabling unless a torn mask update revives them (`OneShotOnceUnlessRevived`);
  cyclic timers keep firing (`CyclicKeepsFiring`); every call returns
  (`CallsReturn`) except a delay on a timer that is cyclic with a period not longer
  than the delay, which never does (`HangsForever`).
* `system_timer`: a reading is the time of a moment of the reading, and never a
  torn counter (`ExactUnlessLate`), unless the interrupt comes after the first
  access and before the counter is loaded, when it is up to one period ahead
  (`AtMostOnePeriodAhead`); without such a slip a delay is not shorter than asked
  for, and across the overflow it is short by a period or two microseconds at most
  (`DelayIsWaited`).
* `simple_allocator`: the chain is sound in both directions (`ChainIsSound`), free
  neighbours are always joined (`NoFreeNeighbours`), nothing leaks
  (`TakenIffLive`), no header lies in granted memory (`HeadersOutsideLive`), and
  the allocator implements `Allocator` (`RefinesAllocator`): in particular a grant
  moved by `srealloc` never overlaps the old one.
* `serial_multiplexer`: bytes are delivered in order and under the service they were
  sent to (`DeliveredAsSent`), all of them (`EverythingArrives`), and the host program
  does not end with a protocol error (`NoProtocolError`), through restarts of both
  sides at any byte and with the interrupt anywhere in `platform_uart_send`, except
  after a lapse.
* `write_once_fs`: closed files, and descriptors opened on them, keep their contents
  (`ContentsKept`) and no programmed byte is changed (`WriteOnce`) through a loss of power
  at any byte and formats that stop half-way, until a file is created behind an interrupted
  record or format, something there is taken for a file and replaced, or a file is created
  whose name is longer than the search reads; while no record or format is incomplete
  every search for a name it reads in full ends, and finds a file exactly if one was closed
  under that name (`SearchEnds`); the
  space check of `romfs_open_r` and the reserve of `romfs_write_r` fit together, so
  that the unsigned difference never wraps (`SpaceKept`).
* `remote_fs`: an accepted answer is one whole response to a call of the same
  operation, none is accepted twice, and it is another call's only after a call was
  given up (`AnswerIsOwnOrLate`); a call made with nothing under way succeeds unless it
  is given up itself or its `os_read` fails, any other failure follows an earlier call that
  was given up; a restart of the device gives up its call, and restarts of the server, also
  in the middle of a response, are no cause (`FailureHasCause`); timeouts alone
  never bring the server out of step (`ServerInStep`); every call returns, whatever the server does (`CallsReturn`).
* `xmodem_receive`: what is stored is a beginning of the file, no block twice
  (`StoredIsPrefix`); a size is returned for the whole file unless the start byte of a
  block was lost (`SuccessIsWhole`); bytes lost inside blocks are made good
  (`LossInsideIsRepaired`); the receiver returns, whether the sender goes on, aborts or is
  stopped (`ReceiveReturns`). A sender that never pauses is not modelled; it would hold
  `xmodem_flush` (`src/xmodem.c:68`) in its loop.

Bounds. Four slots let the ring wrap with the hook inside it and an interrupt on
either side; two ids suffice to enable one and not the other; one coroutine at a time can
inherit the hook before, in or after a handler. Buffers of two and
four bytes show both growing and shrinking, two byte values show any reordering.
Two timers are enough to share a mask, counters modulo three meet every relation
between count, limit and delay, including the wrap. The system timer passes its
overflow once with several interrupts before it, and its period is no divisor of the
word, so that a torn value can be told from a counter value. In `Salloc` the
sizes need two, three and four units with the header: a block that fits exactly,
one that leaves a rest of one unit (not split) and one that leaves more. Only
`MaxCounter` (`SysTimer`) cuts behaviours of these off: the program reads the timer
before it runs that far past the overflow. `CountMod`, `SysMax` and `Word` scale down
widths of the code (32 bits, 52 bits, 32 bits) and keep the wrap.

In `Sermux` three bytes are one more than can be repeated, and one restart of each side
lets both forget. The area of `Wofs` holds three small files or one that runs into
its end, six operations write one file, lose power in a second and create a third
(four at all, `MaxSpoilt`, once the list is spoilt: little is claimed from there on);
one name has the length the search reads and one goes on behind it, and the data contain bytes that read as erased, as
a size and as a whole record. In `Rfs` the first call can be given up, its answer taken by the second,
and the answer of the second by the third; one restart cuts a request or a response. In `Xmodem`
the numbers wrap and the buffer grows within five blocks, and the losses stay below
the retries. `MaxSends`, `MaxRestarts`, `MaxSteps`, `MaxSpoilt`, `MaxCalls` and `MaxLost` bound
counters that the code does not have; behaviour beyond them is not explored.

Deadlock is checked in the runs of the components that never stop: queue, timers,
buffer, allocator. The last four runs stop when their bounded counters are used up or
`xmodem_receive` has returned, and do not check it. Nor does `MCUartBufOff.cfg`, which
is about one invariant.

## 4. Fairness

* `IntQueue`: weak fairness of the main thread's steps in the hook, strong fairness of its
  bytecode instructions and of the end of its handlers: they are enabled whenever the main
  thread has the processor, which a coroutine takes away and gives back again and again.
  `WaitingIsServed` has as its premise that it gives it back. Nothing is assumed of the
  coroutine, interrupts, configuration calls, or opening and closing.
* `UartBuf`: weak fairness of the main program's steps inside a call and of each
  enabled receive interrupt (the controller keeps it pending until it is served). No
  byte has to arrive and no call has to be made.
* `VTimer`: weak fairness of the timer interrupt and of the main program; strong
  fairness of `AwaitCount`, because the spin loop of `vtmr_delay` looks at the counter
  many times per tick and the real counter needs 2^32 ticks to go round, so it cannot
  miss the count for ever.
* `Sermux`: weak fairness of the receive interrupt, of a call of `platform_uart_send`
  that has begun and of the host's loop for bytes from the line. Nothing has to be sent
  and nobody has to restart.
* `Rfs`: weak fairness of the client's steps, its timeout included. Nothing is assumed
  of the server, of the line or of the bytes on their way: a call returns without them.
* `Xmodem`: weak fairness of the receiver (its waits are bounded by a timer), of bytes
  on their way and of the sender's reading of answers; the sender need not start.
* `SysTimer`, `Salloc` and `Wofs`: safety only.

## 5. Proofs

`IntQueueProofs` proves for every queue size, every set of ids and resource numbers,
and with or without failing handlers, from the assumptions `QSize, LastId` positive
naturals, `NoRes` a resource number, `HandlerErrors` a Boolean:

* `TypeCorrect`: `Spec => []TypeOK`
* `RingIsFifo`: `Spec => []RingHoldsPending`
* `OverflowIsReal`: `Spec => []OverflowIffFull`
* `NoLostWakeup`: `Spec => []HookMatchesQueue`
* `CloseIsClean`: `Spec => []CleanWhenClosed`
* `OldestFirst`: `Spec => OnlyTheOldestLeaves`

All rest on the inductive invariant `IInv`; none of the properties that matter is
inductive alone.
The content of the ring (`RingHoldsPending`) gives the slot the next interrupt will
be written to and the slot the hook will read; it is preserved by `elua_int_add`
only if a free slot implies that fewer than `QSize` elements wait (one fewer while
the hook has copied a slot and not yet cleared it), which is `CountBounded`, proved
from the ring itself in lemma `AddFindsRoom`. `HookTail` re-establishes
`HookMatchesQueue` because with interrupts disabled the slot at the read index is
empty exactly when nothing waits, and because the main thread's hook is still installed
on the way there, which is `HookInside`. A coroutine disturbs none of it before it runs an
inherited hook, which is a lapse. The lemmas `RingNext`, `RingOffset` and `RingSlotAt`
hold all arithmetic modulo the queue size; the step lemma `StepIInv` has a case per
action. `OverflowIffFull` then follows from `IInv` without induction, and
`OldestFirst` from the ring's content at the moment of `HookTake`.

`VTimerProofs` proves for every number of timers up to eight, every frequency,
counter width and set of periods (with the assumption that an accepted period fits
the counters, as `VTMR_MAX_PERIOD` ensures):

* `TypeCorrect`: `Spec => []TypeOK` (proved, and not part of a run)
* `CyclicStaysBelow`: `Spec => []CyclicBelowLimit`
* `OnlyTornUpdatesRepeat`: `Spec => []OneShotOnceUnlessRevived`
* `DelayOnCyclicHangs`: `Spec => HangsForever`

Its invariant adds to these which call can be at which step (`CallMatchesStep`), that
a reset request is always the one the main program waits for and that a cyclic
timer is below its new limit once it has been served (`RequestAwaited`), that a
cyclic timer has a positive limit (`CyclicHasLimit`), and that an enabled timer is
armed or was revived (`EnabledIsArmed`). The last is what excludes every other cause
of a second interrupt; `DelayOnCyclicHangs` follows because the loop of `vtmr_delay`
never finds the counter of a cyclic timer at its limit.

`UartBufProofs` proves for any number of UARTs, any set of byte values and all buffer
sizes the driver accepts (`LogSizes[u]` within 1 .. 15; a byte is never `NoByte`):

* `TypeCorrect`: `Spec => []TypeOK`
* `BufferHoldsUnread`: `Spec => []BufferIsQueue`
* `OverfullOnlyByOne`: `Spec => []OverfullByOne`
* `WildWritesNeedResize`: `Spec => WildOnlyByResizing`
* `BytesLeaveInOrder`: `Spec => ReadsOldestFirst`

`OverfullOnlyByOne` bounds the count and the pointers, not the bytes that are lost.
The cells between the two pointers hold the unread bytes only together with the bound
on their number, so `BufferIsQueue` and `OverfullByOne` are proved as one invariant;
it also needs that the heap block has the size the descriptor says, except inside
`buf_set`, where the descriptor may point to a block that is gone (`BlockFits`), and that the descriptor a call works on stays enabled until it
is done (`InOperation`). `RingPlace`, `RingDistinct` and `RingAdvance` are the ring's
arithmetic, `PowerOfTwo` its sizes.

`SysTimerProofs` proves for every tick rate, interrupt period, overflow value, word
width and set of delays, from positive constants with `Period < Word` (the period is
a 32-bit number and the words are of 32 bits) and `SysMax < MaxCounter`:

* `TypeCorrect`: `Spec => []TypeOK`
* `ReadingAtMostOnePeriodAhead`: `Spec => []AtMostOnePeriodAhead`
* `ReadingExactUnlessLate`: `Spec => []ExactUnlessLate`
* `DelaysAreWaited`: `Spec => DelayIsWaited`

The invariant says for every step of `cmn_systimer_get` what its locals can be
(`AtSys`, `AtCheck`, `AtAgain`, `AtSum`, `AtDiff`): a load of the counter in two halves
gives a value the counter had, or one torn upwards or downwards at a carry, and lemma
`LoadsAgree` shows that two loads which give the same value gave a value the counter
had, as long as the reading is shorter than the range of the low half. `SinceStart` and
`SinceWrap` relate the ticks waited to the time since the start was read, before and
after an overflow, and `WaitedEnough` what a complete reading makes of them.

`SallocProofs` proves for any number and size of memory areas and all sizes asked for
(areas at positive addresses that hold a block and do not overlap):

* `ChainsStaySound`: `Spec => []ChainIsSound`
* `FreeBlocksAreJoined`: `Spec => []NoFreeNeighbours`
* `NothingLeaks`: `Spec => []TakenIffLive`
* `HeadersAreSafe`: `Spec => []HeadersOutsideLive`
* `ImplementsAllocator`: `Spec => RefinesAllocator`

The properties speak of the blocks one meets by following the links, the proofs of a
set `B` of cells that are the blocks: `Consistent(heap, live)` says that there is one
whose neighbours are linked to each other (`Sound`), without free neighbours (`Joined`)
and with a taken block of sufficient size for each grant (`Owned`). `AlongNext` and
`AlongPrev` show that following the links yields exactly the blocks of `B` above or
below; this is an induction over the chain, done as the choice of a least or greatest
cell without the property (`LeastExists`, `GreatestExists`, from the well-foundedness of
the natural numbers). `LinkJoins` and `LinkSplits` are the two changes of a chain,
`Compacted`, `Shortened` and `GetFreeBlock` what the functions of `salloc.c` make of
them, and `StepRefines` that every step is one of `Allocator` or leaves the grants alone.

`WofsProofs` proves for every size of the area, of its sectors and of the descriptor
table, all names and all data:

* `RecordsInOrder`: `Spec => []IInv` (which includes `TypeOK`)
* `FilesKeepContents`: `Spec => []ContentsKept`
* `FlashWrittenOnce`: `Spec => []WriteOnce`
* `SearchesEnd`: `Spec => []SearchEnds`
* `SpaceIsKept`: `Spec => []SpaceKept`

It assumes what `romfs.h` and the callers give: the size of the area is a positive
multiple of four below 2^31, names consist of bytes other than 0 and 0xFF and are not
"\1", data are bytes. Nothing is assumed of the length of names. The properties speak of what
a search finds, the invariant `IInv` of a set `R` of records: they form a chain from
address 0 to the first free address `e` (`IsChain`), the flash holds each of them
(`Holds`), the live ones are the files with their contents (`Stored`), readers are at
records (`ReadersKeep`), and at `e` comes erased flash or the one record that is being
written or was interrupted (`Unfinished`). `ScanArrives` and `SearchStops` show that the
search follows the chain; that induction is done, as in `SallocProofs`, by choosing the
least address without the property. `DeletedKept`, `NewRecord`, `DataAppended`,
`RecordClosed` and `ChainGrows` are the changes of the flash, `TableAdd`,
`TableRemove` and `TableChange` those of the descriptor table. A format that stops
half-way leaves the empty chain in front of what was not erased. Once `torn` is `spoilt`
only the types and the descriptor table are claimed: the chain really is broken then.

`RfsProofs` proves for any number of calls, timeouts and restarts of either side
(`MaxCalls` and `MaxRestarts` are natural numbers, nothing else is assumed):

* `Invariant`: `Spec => []IInv` (which includes `TypeOK`)
* `AnswersAreOwnOrLate`: `Spec => []AnswerIsOwnOrLate`
* `FailuresHaveCauses`: `Spec => []FailureHasCause`
* `ServerStaysInStep`: `Spec => []ServerInStep`

No packet says which call it belongs to, so the invariant has to follow the units on
their whole way. What is under way to the server are units of requests in the order they
were sent (`Requests`), and whole requests as long as no restart cut one (`Unbroken`).
What is under way to the client, from the unit it read first, are responses in the
order of their calls, of which the first may have lost its beginning and one whose server
was restarted its end, where another packet begins instead (`GoesOn`), and between them
units of requests the server sent back unread (`Responses`). The response to a failed read
has `lost` for its end, and only calls in `failed` have such a one. `Bounds(m)` puts the two in
relation: the server has answered up to call `m`, the heads of later requests are still
to come, and every answer under way is newer than those accepted. `QuietClean` says that
a call which began with nothing under way finds only its own units, and `LateOldest` that
otherwise a call was given up that is not newer than anything under way. `FailureHasCause`
was at first stated with restarts that cut a request as a further cause; the proof showed
that they are none, and the property now says so.

`XmodemProofs` proves for every file, every range of block numbers (2 .. 256), buffer and
increment, number of retries and of lost bytes, from `ChecksumAssumption`:

* `Invariant`: `Spec => []IInv` (which includes `TypeOK`)
* `StoredDataIsPrefix`: `Spec => []StoredIsPrefix`
* `SuccessMeansWhole`: `Spec => []SuccessIsWhole`
* `LossesInsideAreRepaired`: `MaxLost < RetryLimit` implies `Spec => []LossInsideIsRepaired`

The last needs its condition: as many losses as there are retries, all in repetitions of
one block, end the transfer. The invariant says that the bytes under way, together with
the record being read, are what losses have left of one burst of the sender (`OneBurst`,
`Remains`), that a reply is only under way when no burst is (`OneReply`), and that sender
and receiver are at the same block or one apart (`SameBlock`), which with two or more
block numbers is enough to tell a repeated block from the next (`NextNumber`).
`CompleteRecord` and `StoppedRecord` show that four bytes which pass the receiver's checks
are a record no byte of which was lost. `HeadFound` says that the receiver looks for the
start of a block where it is unless a start was lost, and `Repaired` counts: every retry
spent since a block arrived was paid for by a lost byte.

Model-checked only: liveness (`WaitingIsServed`, `RecvReturns`, `CallsReturn`,
`CyclicKeepsFiring`, `EverythingArrives`, `ReceiveReturns`; temporal reasoning under
fairness is out of the prover's reach), and so far the two invariants of `Sermux`,
`DeliveredAsSent` and `NoProtocolError`.

## 6. What the models found

* `HookSetWhileQueued` (`src/elua_int.c:79`): after a Lua error in an interrupt
  handler the hook stays installed on an empty queue, runs once more, moves the read
  index past the write index, and later removes itself while an interrupt is queued.
  `doc/en/inthandlers.txt` promises the hook "as long as the queue is not empty".
  A coroutine created while the hook is installed, by a handler for instance, does the
  same without an error when it runs the hook it inherited (`src/lua/lstate.c:134`).
* `BufferedUartHasHandler` (`src/common_uart.c:202`): switching off the buffer of one
  UART removes the C handler that all UARTs share.
* `OneShotOnce` (`src/common_tmr.c:120`): a one-shot timer can fire twice when the
  timer interrupt comes inside another timer's update of the enable mask.

The passing runs state precisely how far each of these goes, and some of their
conditions are observations about the code themselves:

* Interrupt queue: while a coroutine runs, the main thread's hook does not count down, so
  no interrupt is served before the main thread goes on (`src/elua_int.c:117`).
* Buffered UARTs (`src/buf.c:89`): a byte received while `realloc` moves the block of an
  empty, healthy buffer goes to the old block; the buffer then counts it and `buf_read`
  returns whatever the new block contains. If `realloc` fails, such a byte is written
  through NULL. And once a buffer holds one byte too many (`src/buf.c:124`), every read
  followed by a write loses another unread byte without an overflow being reported.
* System timer (`src/common_tmr.c:433`): a reading can be up to a whole interrupt
  period ahead of the time, and a delay started from it ends at once. The overflow
  (after 2^31 microseconds, 36 minutes, in integer builds) restarts the software counter
  without the hardware counter (`src/common_tmr.c:442`): a delay across it is short by
  up to a period, and one whose start time is read at that moment may find the next
  reading below it, take that for another overflow and end at once, however long it is.
  The attempt to prove `ExactUnlessLate` showed one case the small instance had hidden: a
  main program held up for more than an hour inside a reading may load the same torn
  value twice. The model now records it (`slow`).
* Multiplexer: the four lapses above. The host program has no way back from a protocol
  error but to be started again.
* Write-once file system (`src/romfs.c:127`): a record that was not closed has the size
  0xFFFFFFFF, so the search goes on inside its data and finds whatever looks like a
  record, an erased byte, the end of the area or itself again. This is so while a file
  is being written, too: opening another file meanwhile scans the unfinished one. The
  next file created goes where the scan stopped, possibly into data already written.
  Files closed earlier survive, as they are found first. Opening for writing a name that
  occurs as text inside an interrupted record marks that place as deleted
  (`src/romfs.c:205`), which programs a byte of its data again; the attempt to prove
  `WriteOnce` showed this, and the model records it (`Phantom`). A format that stops at a
  sector it cannot erase, or for want of power, cannot be finished: the first free address
  is then 0, so a format that follows erases the first sector only (`src/romfs.c:523`), and
  what lies behind it meets the records written later. A name longer than `DM_MAX_FNAME_LENGTH`
  (`src/romfs.c:217`) spoils the search for itself and for what follows. Opening for
  writing gives up the old file before it is known that a new one fits. The space check is exact only
  because the area and all records start at multiples of four.
* Remote file system: late bytes drained into the request's first byte
  (`src/remotefs/client.c:41`) make the next call fail without being sent, unless the
  last of them equals the mark. After one timeout the answers can lag behind the calls
  by one for good. A request cut by a reset of the device is completed with the
  beginning of the next one and carried out. A bad header makes the server in the
  multiplexer deaf until it is restarted (`rfs_server_src/rfs_transports.c:245`). A failing
  `os_read` makes a 32-bit server send a packet without an end and a 64-bit one write
  outside its buffer (`rfs_server_src/server.c:80`).
* XMODEM: a lost ACK ends the transfer, because the repeated block is refused until the
  retries run out; a lost SOH makes every byte of the block cost a retry, and a byte 4
  among them ends the transfer as a success with a truncated file; the retries are
  shared by the waiting for the sender and the first block. `doc/en/advanced_shell.txt:81`
  says that XMODEM with checksum is supported, while `src/xmodem.c` asks for CRC and
  reads two bytes of it only.

Read beside the models and not modelled: `server_closedir` returns the handle instead
of the result and `server_readdir` tests it for zero; `rfs_read_r` and `rfs_write_r`
return 0 and not -1 when their first call fails; the loop in `src/shell/shell_recv.c:84`
that strips padding has no lower bound; `adc_setup_channel` (`src/elua_adc.c:82`) reads
the interrupt state where it means to disable interrupts.

## 7. Not modelled

See `components` in `PROJECT.json`. Adopted code (interpreters, FatFs, uIP,
dlmalloc, LuaRPC) is left aside except for the hook mechanism of the Lua VM. The
platform ports are register access; the models take from them only what the common
code relies on. Shell, terminal and editor are text processing. The language bindings
check arguments and call the platform functions. The ADC's shared state is written
by the conversion interrupt of each port, so its steps are not in the common code. The
device table is filled once at start-up and nothing calls `dm_unregister`. Of the file
system, directories (a cursor of their own), the read-only instance and the simulator's
file-backed instance; of the remote file system, what the operations do to files, the
UDP and the pipe transport and an overflow of the device's receive buffer.

## 8. Plan

Done: the interrupt queue, the virtual timers, buffered UARTs, the system timer, the
simple allocator with its abstract specification, the write-once file system, the remote
file system and XMODEM, all with proofs; the serial multiplexer. Next, in this order:

1. Theorems about the multiplexer: `DeliveredAsSent` and `NoProtocolError` of `Sermux`.
   The invariant has to describe the escapes and service ids on the line in both
   directions while either side may have forgotten them.
2. Composition: `VTimer` and `UartBuf` as sources of `elua_int_add` in `IntQueue`, so
   that a timer match reaches its Lua handler; `Rfs` over `Sermux`.
3. 16-bit elements and `buf_flush` in `UartBuf`, and
   the status that `vtmr_int_get_flag` returns.
