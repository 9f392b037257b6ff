------------------------------- MODULE Salloc -------------------------------
(***************************************************************************)
(* The simple allocator of src/salloc.c: in each memory area a doubly      *)
(* linked chain of blocks between two guards, best fit, blocks split when  *)
(* the rest is worth it, free neighbours joined.                           *)
(*                                                                         *)
(* Addresses count units of DYN_SIZE_MULT bytes (the chain stores them     *)
(* divided by it); 0 is NULL.  A header takes one unit.                    *)
(***************************************************************************)
EXTENDS Integers, Sequences

CONSTANTS
  Areas,  \* the areas of free RAM in order: first and last guard of each
  Sizes   \* the sizes asked for, in bytes

MultBytes   == 8    \* DYN_SIZE_MULT
HeaderBytes == 8    \* DYN_HEADER_SIZE
MinSplit    == 2    \* DYN_MIN_SPLIT_SIZE, in units
NULL        == 0

AreaIds == 1 .. Len(Areas)
InArea(i) == Areas[i].g1 .. Areas[i].g2
Cells == UNION {InArea(i) : i \in AreaIds}

FirstGuards == {Areas[i].g1 : i \in AreaIds}
LastGuards  == {Areas[i].g2 : i \in AreaIds}
Guards      == FirstGuards \cup LastGuards

AreaOf(a) == Areas[CHOOSE i \in AreaIds : a \in InArea(i)]

(* Sizes near the top of size_t, for which the sum with the header wraps,   *)
(* are left out.                                                            *)
ASSUME SallocAssumption ==
  /\ Sizes \subseteq Nat
  /\ Areas \in Seq([g1 : Nat, g2 : Nat])
  /\ \A i \in AreaIds : Areas[i].g1 > NULL /\ Areas[i].g2 > Areas[i].g1 + 1
  /\ \A i, j \in AreaIds : i # j => InArea(i) \cap InArea(j) = {}

VARIABLES
  heap,           \* headers: next and previous block, and the taken bits
  s_initialized,
  live            \* history: what the program has been given and not freed

vars == <<heap, s_initialized, live>>

NoHeap == [next |-> [a \in Cells |-> NULL], prev |-> [a \in Cells |-> NULL], taken |-> {}]

Init ==
  /\ heap = NoHeap
  /\ s_initialized = "no"
  /\ live = {}

-----------------------------------------------------------------------------
(* Blocks *)

(* Faulty variant: rounded down. *)
ActSize_Down(bytes) == bytes \div MultBytes

(* s_act_size, in units *)
ActSize(bytes) == (bytes + MultBytes - 1) \div MultBytes

Link(h, a, b) == [h EXCEPT !.next[a] = b, !.prev[b] = a]

IsFree(h, a) == a \notin h.taken

BlockSize(h, a) == IF h.next[a] # NULL THEN h.next[a] - a ELSE 0

(* The blocks met on the way from a along a link, next or prev. *)
Along(link, a) ==
  LET chain[b \in Cells] == {b} \cup IF link[b] \in Cells THEN chain[link[b]] ELSE {}
  IN chain[a]

(* The first taken block on that way: the others lie behind it. *)
FirstTaken(h, link, a) ==
  LET met == Along(link, a) \cap h.taken
  IN CHOOSE b \in met : met \subseteq Along(link, b)

(* Faulty variant: only the blocks behind are joined. *)
s_compact_free_Forward(h0, a) ==
  LET h    == [h0 EXCEPT !.taken = @ \ {a}]
      last == FirstTaken(h, h.next, a)
  IN IF h.prev[last] # a THEN Link(h, a, last) ELSE h

(* Faulty variant: the block behind keeps its old predecessor. *)
s_compact_free_OneWay(h0, a) ==
  LET h     == [h0 EXCEPT !.taken = @ \ {a}]
      first == h.next[FirstTaken(h, h.prev, a)]
      last  == FirstTaken(h, h.next, a)
  IN [h EXCEPT !.next[first] = last]

(* s_compact_free marks block a free and makes one block of it and its free *)
(* neighbours on both sides.                                                *)
s_compact_free(h0, a) ==
  LET h     == [h0 EXCEPT !.taken = @ \ {a}]
      first == h.next[FirstTaken(h, h.prev, a)]
      last  == FirstTaken(h, h.next, a)
  IN IF first # a \/ h.prev[last] # a THEN Link(h, first, last) ELSE h

(* The rest of block a behind its first n units becomes a free block. *)
Split(h, a, n) ==
  LET rest == a + n
  IN s_compact_free(Link(Link(h, rest, h.next[a]), a, rest), rest)

(* The free blocks that hold n units; the smallest, the first of these. *)
Candidates(h, g1, n) ==
  {a \in Along(h.next, h.next[g1]) : IsFree(h, a) /\ n <= BlockSize(h, a)}

BestFit(h, cs) ==
  CHOOSE a \in cs : \A b \in cs : \/ BlockSize(h, a) < BlockSize(h, b)
                                  \/ BlockSize(h, a) = BlockSize(h, b) /\ a <= b

(* A rest of one unit stays with the block. *)
WorthSplit(size, n) == size > n /\ size - n >= MinSplit

(* s_get_free_block in one area: the heap after it, and the pointer. *)
s_get_free_block(h, bytes, g1) ==
  LET n  == ActSize(bytes + HeaderBytes)
      cs == Candidates(h, g1, n)
      a  == BestFit(h, cs)
      h1 == [h EXCEPT !.taken = @ \cup {a}]
  IN IF bytes = 0 \/ cs = {} THEN [heap |-> h, ptr |-> NULL]
     ELSE [heap |-> IF WorthSplit(BlockSize(h, a), n) THEN Split(h1, a, n) ELSE h1,
           ptr  |-> a + 1]

(* The bytes a pointer may use: s_get_actual_block_size. *)
ActualSize(h, ptr) == BlockSize(h, ptr - 1) * MultBytes - HeaderBytes

(* Shrinks a block in place. *)
s_shrink_block(h, ptr, bytes) ==
  LET n == ActSize(bytes + HeaderBytes)
  IN IF WorthSplit(BlockSize(h, ptr - 1), n) THEN Split(h, ptr - 1, n) ELSE h

(* The heap after s_init: a free block between the guards of each area. *)
s_init ==
  [next  |-> [a \in Cells |-> CASE a = AreaOf(a).g1 -> a + 1
                                [] a = AreaOf(a).g1 + 1 -> AreaOf(a).g2
                                [] OTHER -> NULL],
   prev  |-> [a \in Cells |-> CASE a = AreaOf(a).g1 + 1 -> a - 1
                                [] a = AreaOf(a).g2 -> AreaOf(a).g1 + 1
                                [] OTHER -> NULL],
   taken |-> Guards]

Ready == IF s_initialized = "yes" THEN heap ELSE s_init

-----------------------------------------------------------------------------
(* Calls *)

(* smalloc on heap h: the first area that has room. *)
Smalloc(h, bytes) ==
  LET Try(i) == s_get_free_block(h, bytes, Areas[i].g1)
      room   == {i \in AreaIds : Try(i).ptr # NULL}
  IN IF room = {} THEN [heap |-> h, ptr |-> NULL]
     ELSE Try(CHOOSE i \in room : \A j \in room : i <= j)

Grant(ptr, bytes) == [ptr |-> ptr, size |-> bytes]

(* smalloc, and scalloc for the product of its arguments. *)
smalloc(bytes) ==
  LET r == Smalloc(Ready, bytes)
  IN /\ heap' = r.heap
     /\ live' = IF r.ptr # NULL THEN live \cup {Grant(r.ptr, bytes)} ELSE live
     /\ s_initialized' = "yes"

(* sfree; with NULL nothing happens. *)
sfree(g) ==
  /\ heap' = s_compact_free(heap, g.ptr - 1)
  /\ live' = live \ {g}
  /\ UNCHANGED s_initialized

(* srealloc to the size it has or to less: in place. *)
ReallocInPlace(g, bytes) ==
  /\ bytes # 0 /\ bytes <= ActualSize(heap, g.ptr)
  /\ heap' = IF bytes < ActualSize(heap, g.ptr) THEN s_shrink_block(heap, g.ptr, bytes)
             ELSE heap
  /\ live' = (live \ {g}) \cup {Grant(g.ptr, bytes)}
  /\ UNCHANGED s_initialized

(* Faulty variant: the old block is not freed. *)
ReallocMoves_Leaks(g, bytes) ==
  LET r == Smalloc(heap, bytes)
  IN /\ bytes > ActualSize(heap, g.ptr) /\ r.ptr # NULL
     /\ heap' = r.heap
     /\ live' = (live \ {g}) \cup {Grant(r.ptr, bytes)}
     /\ UNCHANGED s_initialized

(* Faulty variant: the old block is freed first. *)
ReallocMoves_FreesFirst(g, bytes) ==
  LET r == Smalloc(s_compact_free(heap, g.ptr - 1), bytes)
  IN /\ bytes > ActualSize(heap, g.ptr) /\ r.ptr # NULL
     /\ heap' = r.heap
     /\ live' = (live \ {g}) \cup {Grant(r.ptr, bytes)}
     /\ UNCHANGED s_initialized

(* srealloc to more: a new block, then the old one is freed, or no change. *)
ReallocMoves(g, bytes) ==
  LET r == Smalloc(heap, bytes)
  IN /\ bytes > ActualSize(heap, g.ptr)
     /\ IF r.ptr = NULL THEN UNCHANGED <<heap, live>>
        ELSE /\ heap' = s_compact_free(r.heap, g.ptr - 1)
             /\ live' = (live \ {g}) \cup {Grant(r.ptr, bytes)}
     /\ UNCHANGED s_initialized

(* srealloc of a pointer; of NULL it is smalloc, to size 0 it is sfree. *)
srealloc(g, bytes) == ReallocInPlace(g, bytes) \/ ReallocMoves(g, bytes)

Next ==
  \/ \E bytes \in Sizes : smalloc(bytes)
  \/ \E g \in live : sfree(g)
  \/ \E g \in live, bytes \in Sizes : srealloc(g, bytes)

Spec == Init /\ [][Next]_vars
-----------------------------------------------------------------------------
Blocks(i) == Along(heap.next, Areas[i].g1)

(* The chain of every area leads upwards from its first guard to its last,  *)
(* and backwards through the same blocks, after any sequence of calls.      *)
ChainIsSound ==
  s_initialized = "yes" => \A i \in AreaIds :
    /\ Blocks(i) \subseteq InArea(i) /\ Areas[i].g2 \in Blocks(i)
    /\ {Areas[i].g1, Areas[i].g2} \subseteq heap.taken
    /\ heap.next[Areas[i].g2] = NULL
    /\ \A a \in Blocks(i) \ {Areas[i].g2} :
         heap.next[a] > a /\ heap.prev[heap.next[a]] = a

(* Free neighbours are always joined: an empty heap is one free block per   *)
(* area again, whatever has been allocated in between.                      *)
NoFreeNeighbours ==
  s_initialized = "yes" => \A i \in AreaIds : \A a \in Blocks(i) \ {Areas[i].g2} :
    ~(IsFree(heap, a) /\ IsFree(heap, heap.next[a]))

(* The taken blocks are the guards and exactly the blocks the program has:  *)
(* none leaks and none is handed out twice.                                 *)
TakenIffLive ==
  s_initialized = "yes" =>
    (UNION {Blocks(i) : i \in AreaIds}) \cap heap.taken =
      {g.ptr - 1 : g \in live} \cup Guards

(* The specification of what the program may rely on. *)
Abstract == INSTANCE Allocator WITH CellBytes <- MultBytes

(* No header lies in memory that the program has: neither what it writes    *)
(* there nor what the allocator writes to a header damages the other.       *)
HeadersOutsideLive ==
  s_initialized = "yes" => \A g \in live, i \in AreaIds :
    Blocks(i) \cap Abstract!Span(g) = {}

(* The allocator keeps the promises of Allocator. *)
RefinesAllocator == Abstract!Spec
=============================================================================
