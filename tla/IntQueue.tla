------------------------------ MODULE IntQueue ------------------------------
(***************************************************************************)
(* Interrupt handlers written in Lua: the interrupt queue of               *)
(* src/elua_int.c, filled by the interrupt service routines through        *)
(* cmn_int_handler (src/common.c), drained by a debug hook of the Lua      *)
(* virtual machine, configured by cpu.set_int_handler (src/modules/cpu.c), *)
(* opened and torn down by lua_open and lua_close (src/lua/lstate.c).      *)
(*                                                                         *)
(* Two actors share the queue.  The interrupt side runs elua_int_add to    *)
(* completion: all callers have one preemption priority, so it is atomic   *)
(* for the other side.  The VM side is the Lua program: it executes        *)
(* bytecode and, when the hook count runs out, elua_int_hook, which may    *)
(* be interrupted between any two of its accesses to the queue.            *)
(*                                                                         *)
(* A hook and its count belong to one Lua thread.  The program has its     *)
(* main thread, the only one elua_int_add ever arms, and one coroutine at  *)
(* a time, which starts with a copy of the hook of its creator.            *)
(***************************************************************************)
EXTENDS Integers, Sequences

CONSTANTS
  QSize,        \* slots in the queue: 1 << PLATFORM_INT_QUEUE_LOG_SIZE
  LastId,       \* INT_ELUA_LAST, the largest interrupt id of the platform
  Resnums,      \* resource numbers an interrupt may carry
  NoRes,        \* the resource number a cleared slot holds (0 in the code)
  HandlerErrors \* may a Lua handler raise a Lua error?

ASSUME ConstantsAssumption ==
  /\ QSize \in Nat \ {0}
  /\ LastId \in Nat \ {0}
  /\ NoRes \in Resnums
  /\ HandlerErrors \in BOOLEAN

EmptySlot == 0                       \* ELUA_INT_EMPTY_SLOT
Ids       == 1 .. LastId             \* ELUA_INT_FIRST_ID .. INT_ELUA_LAST
AnyId     == 0 .. LastId + 1         \* what a caller may pass as an id
Slots     == 0 .. QSize - 1
Elements  == [id : {EmptySlot} \cup Ids, resnum : Resnums]
Queued    == [id : Ids, resnum : Resnums]
Blank     == [id |-> EmptySlot, resnum |-> NoRes]
HookCount == 2                       \* the count elua_int_add arms the hook with
Main      == "main"                  \* the thread lua_getstate returns
Co        == "co"
Threads   == {Main, Co}

VARIABLES
  queue,      \* elua_int_queue
  read_idx,   \* elua_int_read_idx, written by the VM side only
  write_idx,  \* elua_int_write_idx, written by the interrupt side only
  flags,      \* elua_int_flags, as the set of enabled ids
  handlers,   \* ids with a function in the registry's interrupt table
  hookcount,  \* L->hookcount: bytecode instructions a thread has left before
              \* its hook runs
  pc,         \* where each thread is
  running,    \* the thread that executes; the main thread waits for the other
  crt,        \* elua_int_hook's local copy of the element it took
  pending,    \* history: elements queued and not yet taken, oldest first;
              \* not kept up after a lapse
  lapses      \* history: 1 once, in this Lua state, a handler has raised an
              \* error or a coroutine has run the hook it was created with

qvars == <<queue, read_idx, write_idx>>
vars  == <<queue, read_idx, write_idx, flags, handlers, hookcount, pc,
           running, crt, pending, lapses>>

(* lua_sethook sets L->hook, L->hookmask and L->hookcount together, and the  *)
(* count never stays at zero while elua_int_hook is installed.              *)
HookInstalled(t) == hookcount[t] # 0

lapsed == lapses # 0

(* "closed": no Lua state, or no live coroutine.  "vm": Lua code outside    *)
(* the hook.  "clear" and "advance": inside elua_int_hook, before the slot  *)
(* is cleared and before the read index moves.  "handler": inside the Lua   *)
(* handler.  "tail": before the hook's final check with interrupts disabled.*)
PCs == {"closed", "vm", "clear", "advance", "handler", "tail"}

At(t, p) == running = t /\ pc[t] = p

(* Lua code of thread t is executing, in a handler or outside. *)
InLua(t) == At(t, "vm") \/ At(t, "handler")

Goto(t, p) == pc' = [pc EXCEPT ![t] = p]

Init ==
  /\ queue = [s \in Slots |-> Blank]
  /\ read_idx = 0 /\ write_idx = 0
  /\ flags = {} /\ handlers = {}
  /\ hookcount = [t \in Threads |-> 0]
  /\ pc = [t \in Threads |-> "closed"]
  /\ running = Main
  /\ crt = Blank
  /\ pending = <<>> /\ lapses = 0

(* Faulty variant: the index is not masked. *)
NextIdx_NoMask(idx) == idx + 1

(* ( idx + 1 ) & INT_IDX_MASK *)
NextIdx(idx) == IF idx = QSize - 1 THEN 0 ELSE idx + 1

(* lua_sethook( L, elua_int_hook, LUA_MASKCOUNT, 2 ); the interrupt side    *)
(* calls it for lua_getstate(), whichever thread is running.                *)
ArmHook(t) == hookcount' = [hookcount EXCEPT ![t] = HookCount]

(* lua_sethook( L, NULL, 0, 0 ) *)
DisarmHook(t) == hookcount' = [hookcount EXCEPT ![t] = 0]

-----------------------------------------------------------------------------
(* Interrupt side. *)

(* The conditions under which elua_int_add gives up without an error message *)
Ignored(id) == id \notin Ids \/ pc[Main] = "closed" \/ id \notin flags

(* Faulty variant: full is recognised by the indexes, one slot too early. *)
Overflow_ByIndex == NextIdx(write_idx) = read_idx

(* ... and the one under which it reports an overflow. *)
Overflow == queue[write_idx].id # EmptySlot

(* Faulty variant: the slot is not checked before it is written. *)
elua_int_add_NoCheck(id, resnum) ==
  /\ ~Ignored(id)
  /\ Len(pending) <= QSize
  /\ queue' = [queue EXCEPT ![write_idx] = [id |-> id, resnum |-> resnum]]
  /\ write_idx' = NextIdx(write_idx)
  /\ ArmHook(Main)
  /\ pending' = IF lapsed THEN pending
                  ELSE Append(pending, [id |-> id, resnum |-> resnum])
  /\ UNCHANGED <<read_idx, flags, handlers, pc, running, crt, lapses>>

(* Faulty variant: the hook is set before the overflow check. *)
elua_int_add_ArmsFirst(id, resnum) ==
  /\ ~Ignored(id)
  /\ ArmHook(Main)
  /\ IF Overflow
       THEN UNCHANGED <<queue, write_idx, pending>>
       ELSE /\ queue' = [queue EXCEPT ![write_idx] = [id |-> id, resnum |-> resnum]]
            /\ write_idx' = NextIdx(write_idx)
            /\ pending' = IF lapsed THEN pending
                           ELSE Append(pending, [id |-> id, resnum |-> resnum])
  /\ UNCHANGED <<read_idx, flags, handlers, pc, running, crt, lapses>>

(* cmn_int_handler: elua_int_add queues the interrupt and sets the hook.    *)
(* Both rejections leave everything unchanged, the hook count included.     *)
elua_int_add(id, resnum) ==
  /\ ~Ignored(id) /\ ~Overflow
  /\ queue' = [queue EXCEPT ![write_idx] = [id |-> id, resnum |-> resnum]]
  /\ write_idx' = NextIdx(write_idx)
  /\ ArmHook(Main)
  /\ pending' = IF lapsed THEN pending
                  ELSE Append(pending, [id |-> id, resnum |-> resnum])
  /\ UNCHANGED <<read_idx, flags, handlers, pc, running, crt, lapses>>

-----------------------------------------------------------------------------
(* VM side. *)

(* Does the next bytecode instruction of thread t exhaust its hook count?  *)
CountOut(t) == hookcount[t] = 1

(* One bytecode instruction that does not start the hook.  It counts down   *)
(* the hook of the thread that executes it, and no other.  Inside a handler *)
(* hooks are not allowed (L->allowhook), the count is only reset.           *)
VMInstr(t) ==
  /\ InLua(t)
  /\ HookInstalled(t)
  /\ ~(pc[t] = "vm" /\ CountOut(t))
  /\ hookcount' = [hookcount EXCEPT ![t] = IF @ = 1 THEN HookCount ELSE @ - 1]
  /\ UNCHANGED <<qvars, flags, handlers, pc, running, crt, pending, lapses>>

(* Faulty variant: the newest element is taken. *)
HookTake_Newest(t) ==
  /\ At(t, "vm") /\ CountOut(t)
  /\ ArmHook(t)
  /\ crt' = queue[IF write_idx = 0 THEN QSize - 1 ELSE write_idx - 1]
  /\ pending' = IF t = Main /\ pending # <<>> THEN Tail(pending) ELSE <<>>
  /\ lapses' = IF t = Main THEN lapses ELSE 1
  /\ Goto(t, "clear")
  /\ UNCHANGED <<qvars, flags, handlers, running>>

(* elua_int_hook, first access: crt = elua_int_queue[ elua_int_read_idx ].  *)
(* A coroutine's hook is a copy that nothing took away when the main        *)
(* thread's was removed, so it may run on an empty queue: a lapse.          *)
HookTake(t) ==
  /\ At(t, "vm") /\ CountOut(t)
  /\ ArmHook(t)
  /\ crt' = queue[read_idx]
  /\ pending' = IF t = Main /\ pending # <<>> THEN Tail(pending) ELSE <<>>
  /\ lapses' = IF t = Main THEN lapses ELSE 1
  /\ Goto(t, "clear")
  /\ UNCHANGED <<qvars, flags, handlers, running>>

(* ... second: the slot becomes empty (its resource number stays). *)
HookClear(t) ==
  /\ At(t, "clear")
  /\ queue' = [queue EXCEPT ![read_idx].id = EmptySlot]
  /\ Goto(t, "advance")
  /\ UNCHANGED <<read_idx, write_idx, flags, handlers, hookcount, running, crt,
                 pending, lapses>>

(* ... third: the read index moves; the Lua handler is called when the id   *)
(* is still enabled and has a function.                                     *)
HookAdvance(t) ==
  /\ At(t, "advance")
  /\ read_idx' = NextIdx(read_idx)
  /\ Goto(t, IF crt.id \in flags \cap handlers THEN "handler" ELSE "tail")
  /\ UNCHANGED <<queue, write_idx, flags, handlers, hookcount, running, crt,
                 pending, lapses>>

HandlerReturn(t) ==
  /\ At(t, "handler")
  /\ Goto(t, "tail")
  /\ UNCHANGED <<qvars, flags, handlers, hookcount, running, crt, pending, lapses>>

(* A Lua error in the handler unwinds to the nearest lua_pcall of the       *)
(* thread, past the rest of elua_int_hook; luaD_pcall allows hooks again.   *)
HandlerError(t) ==
  /\ HandlerErrors
  /\ At(t, "handler")
  /\ Goto(t, "vm")
  /\ lapses' = 1
  /\ pending' = <<>>
  /\ UNCHANGED <<qvars, flags, handlers, hookcount, running, crt>>

(* Faulty variant: the hook is removed without looking at the queue again. *)
HookTail_NoCheck(t) ==
  /\ At(t, "tail")
  /\ Goto(t, "vm")
  /\ DisarmHook(t)
  /\ UNCHANGED <<qvars, flags, handlers, running, crt, pending, lapses>>

(* The end of elua_int_hook runs with interrupts disabled; it removes the   *)
(* hook of the thread it runs in.                                           *)
HookTail(t) ==
  /\ At(t, "tail")
  /\ Goto(t, "vm")
  /\ IF queue[read_idx].id = EmptySlot
       THEN DisarmHook(t)
       ELSE UNCHANGED hookcount
  /\ UNCHANGED <<qvars, flags, handlers, running, crt, pending, lapses>>

(* coroutine.create: the new thread gets hook, mask and count of its        *)
(* creator; one that was suspended before is dropped.  Coroutines created   *)
(* by a coroutine get its hook in turn, and add nothing.                    *)
luaE_newthread ==
  /\ InLua(Main)
  /\ Goto(Co, "vm")
  /\ IF HookInstalled(Main) THEN ArmHook(Co) ELSE DisarmHook(Co)
  /\ UNCHANGED <<qvars, flags, handlers, running, crt, pending, lapses>>

(* coroutine.resume, from the main program or from a handler. *)
lua_resume ==
  /\ InLua(Main) /\ pc[Co] = "vm"
  /\ running' = Co
  /\ UNCHANGED <<qvars, flags, handlers, hookcount, pc, crt, pending, lapses>>

(* coroutine.yield; inside a handler it is an error (a C-call boundary). *)
lua_yield ==
  /\ At(Co, "vm")
  /\ running' = Main
  /\ UNCHANGED <<qvars, flags, handlers, hookcount, pc, crt, pending, lapses>>

(* The coroutine returns, or dies of an error outside a lua_pcall of its    *)
(* own: one in its interrupt handler gets this far too.                     *)
CoroutineEnds ==
  /\ At(Co, "vm") \/ (HandlerErrors /\ At(Co, "handler"))
  /\ running' = Main
  /\ Goto(Co, "closed")
  /\ DisarmHook(Co)
  /\ UNCHANGED <<qvars, flags, handlers, crt, pending, lapses>>

(* cpu.set_int_handler( id, f ), f a function or nil; any Lua code may call it *)
set_int_handler(id, f) ==
  /\ \E t \in Threads : InLua(t)
  /\ flags' = IF f = "nil" THEN flags \ {id} ELSE flags \cup {id}
  /\ handlers' = IF f = "nil" THEN handlers \ {id} ELSE handlers \cup {id}
  /\ UNCHANGED <<qvars, hookcount, pc, running, crt, pending, lapses>>

lua_open ==
  /\ At(Main, "closed")
  /\ Goto(Main, "vm")
  /\ DisarmHook(Main)
  /\ handlers' = {}
  /\ lapses' = 0
  /\ UNCHANGED <<qvars, flags, running, crt, pending>>

(* Faulty variant: only the flags are cleared. *)
elua_int_cleanup_FlagsOnly ==
  /\ flags' = {}
  /\ UNCHANGED qvars

(* elua_int_cleanup: flags, indexes and every slot are reset. *)
elua_int_cleanup ==
  /\ flags' = {}
  /\ read_idx' = 0 /\ write_idx' = 0
  /\ queue' = [s \in Slots |-> Blank]

(* lua_close up to the point where interrupts are enabled again; the rest   *)
(* of it frees the Lua state, its coroutines included.                      *)
lua_close ==
  /\ At(Main, "vm")
  /\ pc' = [t \in Threads |-> "closed"]
  /\ hookcount' = [t \in Threads |-> 0]
  /\ handlers' = {}
  /\ elua_int_cleanup
  /\ pending' = <<>>
  /\ UNCHANGED <<running, crt, lapses>>

Hook(t) == HookTake(t) \/ HookClear(t) \/ HookAdvance(t) \/ HandlerReturn(t)
             \/ HandlerError(t) \/ HookTail(t)

Next ==
  \/ \E id \in AnyId, r \in Resnums : elua_int_add(id, r)
  \/ \E t \in Threads : VMInstr(t) \/ Hook(t)
  \/ luaE_newthread \/ lua_resume \/ lua_yield \/ CoroutineEnds
  \/ \E id \in Ids, f \in {"nil", "function"} : set_int_handler(id, f)
  \/ lua_open
  \/ lua_close

(* The main thread executes bytecode whenever it keeps getting the          *)
(* processor, and its handlers end, the coroutines they resume included;    *)
(* interrupts, configuration calls, the coroutine and the opening or        *)
(* closing of the state go on or not as they please.                        *)
Fairness == SF_vars(VMInstr(Main) \/ HookTake(Main)) /\ WF_vars(HookClear(Main))
              /\ WF_vars(HookAdvance(Main)) /\ SF_vars(HandlerReturn(Main))
              /\ WF_vars(HookTail(Main))

Spec     == Init /\ [][Next]_vars
FairSpec == Spec /\ Fairness
-----------------------------------------------------------------------------
(* Properties.  A handler error leaves the hook installed on a queue that   *)
(* may be empty, and so does a coroutine created while the hook was         *)
(* installed: once the hook has run there, the two indexes drift apart      *)
(* until lua_close resets them.  What is promised up to such a lapse says   *)
(* ~lapsed; a coroutine that has not run an inherited hook is no lapse.     *)

TypeOK ==
  /\ queue \in [Slots -> Elements]
  /\ read_idx \in Slots /\ write_idx \in Slots
  /\ flags \subseteq Ids /\ handlers \subseteq Ids
  /\ hookcount \in [Threads -> 0 .. HookCount]
  /\ pc \in [Threads -> PCs]
  /\ running \in Threads
  /\ crt \in Elements
  /\ pending \in Seq(Queued)
  /\ lapses \in {0, 1}

(* The slot the oldest pending element is in: elua_int_hook moves the read  *)
(* index two accesses after it has taken an element.                        *)
Base == IF pc[Main] \in {"clear", "advance"} THEN NextIdx(read_idx) ELSE read_idx

(* How many slots after slot b slot s comes, around the ring. *)
OffsetFrom(b, s) == IF s >= b THEN s - b ELSE s - b + QSize

(* The slot n places after slot b. *)
SlotAt(b, n) == IF b + n >= QSize THEN b + n - QSize ELSE b + n

Offset(s) == OffsetFrom(Base, s)

(* Slot s holds the pending element due there, or none; the slot the hook   *)
(* has copied and not yet cleared still holds its id.                       *)
SlotRight(s) ==
  IF Offset(s) < Len(pending)
    THEN queue[s] = pending[Offset(s) + 1]
    ELSE queue[s].id = IF pc[Main] = "clear" /\ s = read_idx
                         THEN crt.id ELSE EmptySlot

(* Whatever is interrupted where, the ring holds exactly the interrupts     *)
(* that elua_int_add accepted and the hook has not taken, in the order they *)
(* arrived, starting at the read index; every other slot is empty, except   *)
(* the one the hook has copied and not yet cleared.                         *)
RingHoldsPending ==
  ~lapsed => /\ write_idx = SlotAt(Base, Len(pending))
            /\ \A s \in Slots : SlotRight(s)

(* elua_int_add reports a buffer overflow exactly when all slots of the     *)
(* queue are taken: no interrupt is dropped while there is room, and none   *)
(* overwrites another one.                                                  *)
OverflowIffFull ==
  ~lapsed => (Overflow <=> Len(pending) + (IF pc[Main] = "clear" THEN 1 ELSE 0) = QSize)

(* No lost wake-up: while the main thread is outside the hook, a coroutine  *)
(* it resumed running or not, its hook is installed exactly when an         *)
(* interrupt is waiting; and the hook does not run on an empty queue, which *)
(* would move the read index past the write index, until a handler fails or *)
(* a coroutine runs the hook it inherited.                                  *)
HookMatchesQueue ==
  ~lapsed => /\ pc[Main] = "vm" => (HookInstalled(Main) <=> pending # <<>>)
             /\ pc[Main] = "clear" => crt.id # EmptySlot

(* lua_close leaves nothing of the old Lua program behind, not even after a *)
(* handler error or a coroutine's run of the hook: no element, no enabled   *)
(* id and no hook survive into the next Lua state.                          *)
CleanWhenClosed ==
  pc[Main] = "closed" => /\ \A s \in Slots : queue[s].id = EmptySlot
                         /\ read_idx = write_idx
                         /\ flags = {}
                         /\ \A t \in Threads : ~HookInstalled(t)

(* Only lua_close forgets queued interrupts; every other step keeps them    *)
(* in order, and drops at most the oldest one, which it hands to the hook.  *)
(* In particular disabling an id keeps what is already queued under it.     *)
OnlyTheOldestLeaves ==
  [][ \/ lapsed' \/ pc'[Main] = "closed"
      \/ pending' = pending
      \/ \E id \in Ids, r \in Resnums :
           pending' = Append(pending, [id |-> id, resnum |-> r])
      \/ pending = <<crt'>> \o pending' ]_vars

(* A waiting interrupt is eventually taken by the hook, whatever interrupts *)
(* keep arriving: each accepted one restarts the hook count, but one that   *)
(* meets a full queue does not, so the hook cannot be postponed forever.    *)
(* That much needs a main thread that keeps running: a program that never   *)
(* leaves a coroutine never serves an interrupt.                            *)
WaitingIsServed ==
  []<>(running = Main) =>
    ((pending # <<>>) ~> (pc[Main] \in {"clear", "closed"} \/ lapsed))

(* doc/en/inthandlers.txt: "As long as the queue is not empty, a Lua hook   *)
(* is set to run every 2 Lua bytecode instructions."                        *)
HookSetWhileQueued ==
  (pc[Main] = "vm" /\ \E s \in Slots : queue[s].id # EmptySlot)
    => HookInstalled(Main)
=============================================================================
