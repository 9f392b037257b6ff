---------------------------- MODULE SallocProofs ----------------------------
(***************************************************************************)
(* Proofs about Salloc for every number and size of memory areas and for   *)
(* every set of sizes asked for.                                           *)
(***************************************************************************)
EXTENDS Salloc, WellFoundedInduction, TLAPS

(* B is the set of the blocks of heap h, of all areas: from each block the  *)
(* links lead to its neighbours in B and back, up to the guards.            *)
IsChain(h, B) ==
  /\ B \subseteq Cells /\ Guards \subseteq B
  /\ \A g \in FirstGuards : h.prev[g] = NULL
  /\ \A g \in LastGuards : h.next[g] = NULL
  /\ \A b \in B \ LastGuards :
       /\ h.next[b] \in B /\ b < h.next[b] /\ h.prev[h.next[b]] = b
       /\ \A c \in B : c <= b \/ h.next[b] <= c

Heaps == [next : [Cells -> Nat], prev : [Cells -> Nat], taken : SUBSET Cells]

(* A chain in which only blocks are taken, the guards among them. *)
Sound(h, B) ==
  /\ h \in Heaps /\ IsChain(h, B)
  /\ Guards \subseteq h.taken /\ h.taken \subseteq B

(* Free blocks are neighbours only where one of them is a. *)
JoinedBut(h, B, a) ==
  \A b \in B \ LastGuards : IsFree(h, b) /\ IsFree(h, h.next[b]) => a \in {b, h.next[b]}

Joined(h, B) == \A b \in B \ LastGuards : ~(IsFree(h, b) /\ IsFree(h, h.next[b]))

(* The grants in L have the taken blocks of h, each its own, with room for  *)
(* what was asked for and the header.                                       *)
Owned(h, L) ==
  /\ L \subseteq [ptr : Cells, size : Sizes \ {0}]
  /\ h.taken = {g.ptr - 1 : g \in L} \cup Guards
  /\ \A g \in L : /\ g.ptr - 1 \notin Guards
                  /\ g.ptr - 1 + ActSize(g.size + HeaderBytes) <= h.next[g.ptr - 1]
  /\ \A g, k \in L : g.ptr = k.ptr => g = k

Consistent(h, L) ==
  \E B \in SUBSET Cells : Sound(h, B) /\ Joined(h, B) /\ Owned(h, L)

(* The inductive invariant. *)
IInv ==
  /\ s_initialized \in {"yes", "no"}
  /\ s_initialized = "no" => live = {}
  /\ s_initialized = "yes" => Consistent(heap, live)

(* The cell c lies in block a of heap h, behind its header. *)
Inside(h, a, c) == a < c /\ c < h.next[a]

-----------------------------------------------------------------------------
(* A set of natural numbers has a least one ... *)
LEMMA LeastExists ==
  ASSUME NEW S \in SUBSET Nat, S # {}
  PROVE  \E m \in S : \A k \in S : m <= k
<1> DEFINE R == OpToRel(<, Nat)
<1>1. IsWellFoundedOn(R, Nat)
  BY NatLessThanWellFounded
<1>2. \A x, y \in Nat : <<x, y>> \in R <=> x < y
  BY DEF OpToRel
<1> HIDE DEF R
<1>3. PICK m \in S : \A y \in S : ~ (<<y, m>> \in R)
  BY <1>1, WFMin
<1>4. ASSUME NEW k \in S PROVE m <= k
  <2>1. ~(k < m) /\ k \in Nat /\ m \in Nat
    BY <1>2, <1>3
  <2>2. QED
    BY <2>1
<1>5. QED
  BY <1>4

(* ... and, if it is bounded, a greatest one. *)
LEMMA GreatestExists ==
  ASSUME NEW S \in SUBSET Nat, S # {}, NEW n \in Nat, \A k \in S : k <= n
  PROVE  \E m \in S : \A k \in S : k <= m
<1> DEFINE D == {n - k : k \in S}
<1>1. D \in SUBSET Nat /\ D # {}
  <2>1. ASSUME NEW k \in S PROVE n - k \in Nat
    <3>1. k \in Nat /\ k <= n
      OBVIOUS
    <3>2. QED
      BY <3>1
  <2>2. QED
    BY <2>1
<1>2. PICK d \in D : \A e \in D : d <= e
  <2> HIDE DEF D
  <2>1. QED
    BY <1>1, LeastExists
<1>3. PICK m \in S : d = n - m
  OBVIOUS
<1>4. ASSUME NEW k \in S PROVE k <= m
  <2>1. n - k \in D
    OBVIOUS
  <2>2. n - m <= n - k /\ m \in Nat /\ k \in Nat
    BY <1>2, <1>3, <2>1
  <2>3. QED
    BY <2>2
<1>5. QED
  BY <1>4

(* Along keeps its promise: the equation that defines it has a solution. *)
LEMMA AlongStep ==
  ASSUME NEW link, NEW a \in Cells
  PROVE  Along(link, a) =
           {a} \cup (IF link[a] \in Cells THEN Along(link, link[a]) ELSE {})
<1> DEFINE Closed(S) == \A x \in S : link[x] \in Cells => link[x] \in S
           Reach(b) == {c \in Cells : \A S \in SUBSET Cells : b \in S /\ Closed(S) => c \in S}
           F(f) == [b \in Cells |-> {b} \cup IF link[b] \in Cells THEN f[link[b]] ELSE {}]
           chain == CHOOSE f : f = F(f)
           reach == [b \in Cells |-> Reach(b)]
<1>1. ASSUME NEW b \in Cells
      PROVE  Reach(b) = {b} \cup (IF link[b] \in Cells THEN Reach(link[b]) ELSE {})
  <2> DEFINE U == {b} \cup (IF link[b] \in Cells THEN Reach(link[b]) ELSE {})
  <2>1. ASSUME NEW c \in U PROVE c \in Reach(b)
    BY <2>1
  <2>2. U \in SUBSET Cells /\ b \in U
    OBVIOUS
  <2>3. ASSUME NEW x \in U, link[x] \in Cells PROVE link[x] \in U
    <3>1. CASE x = b
      BY <2>3, <3>1
    <3>2. CASE x # b
      BY <2>3, <3>2
    <3>3. QED
      BY <3>1, <3>2
  <2>4. Closed(U)
    BY <2>3
  <2>5. ASSUME NEW c \in Reach(b) PROVE c \in U
    BY <2>2, <2>4
  <2>6. QED
    BY <2>1, <2>5
<1>2. reach = F(reach)
  BY <1>1
<1>3. chain = F(chain)
  BY <1>2
<1>4. \A b \in Cells : Along(link, b) = chain[b]
  BY DEF Along
<1>5. QED
  BY <1>3, <1>4

-----------------------------------------------------------------------------
(* The areas are intervals of the memory, apart from each other. *)
LEMMA AreaFacts ==
  /\ \A i \in AreaIds : /\ Areas[i].g1 \in Nat /\ Areas[i].g2 \in Nat
                        /\ NULL < Areas[i].g1 /\ Areas[i].g1 + 1 < Areas[i].g2
                        /\ InArea(i) \subseteq Cells
                        /\ Areas[i].g1 \in InArea(i) /\ Areas[i].g2 \in InArea(i)
  /\ \A a \in Cells : \E i \in AreaIds : a \in InArea(i)
  /\ Cells \subseteq Nat /\ NULL \notin Cells
  /\ \A i, j \in AreaIds : InArea(i) \cap InArea(j) # {} => i = j
<1>1. Areas \in Seq([g1 : Nat, g2 : Nat])
  BY SallocAssumption
<1>2. ASSUME NEW i \in AreaIds
      PROVE  /\ Areas[i].g1 \in Nat /\ Areas[i].g2 \in Nat
             /\ NULL < Areas[i].g1 /\ Areas[i].g1 + 1 < Areas[i].g2
  <2>1. Areas[i] \in [g1 : Nat, g2 : Nat]
    <3> DEFINE R == [g1 : Nat, g2 : Nat]
    <3>1. Areas \in Seq(R) /\ i \in 1 .. Len(Areas)
      BY <1>1 DEF AreaIds
    <3> HIDE DEF R
    <3>2. Areas[i] \in R
      BY <3>1
    <3>3. QED
      BY <3>2 DEF R
  <2>2. Areas[i].g1 > NULL /\ Areas[i].g2 > Areas[i].g1 + 1
    BY SallocAssumption
  <2>3. QED
    BY <2>1, <2>2 DEF NULL
<1>3. ASSUME NEW i \in AreaIds
      PROVE  /\ InArea(i) \subseteq Cells /\ InArea(i) \subseteq Nat
             /\ Areas[i].g1 \in InArea(i) /\ Areas[i].g2 \in InArea(i)
             /\ NULL \notin InArea(i)
  BY <1>2 DEF Cells, InArea, NULL
<1>4. \A a \in Cells : \E i \in AreaIds : a \in InArea(i)
  BY DEF Cells
<1>5. Cells \subseteq Nat /\ NULL \notin Cells
  BY <1>3, <1>4
<1>6. \A i, j \in AreaIds : InArea(i) \cap InArea(j) # {} => i = j
  BY SallocAssumption
<1>7. QED
  BY <1>2, <1>3, <1>4, <1>5, <1>6

(* Where the guards are. *)
LEMMA GuardFacts ==
  ASSUME NEW i \in AreaIds, NEW a \in InArea(i)
  PROVE  /\ a \in FirstGuards <=> a = Areas[i].g1
         /\ a \in LastGuards <=> a = Areas[i].g2
         /\ a \in Nat /\ Areas[i].g1 <= a /\ a <= Areas[i].g2
         /\ Areas[i].g1 \in Guards /\ Areas[i].g2 \in Guards
         /\ \A c \in Nat : Areas[i].g1 <= c /\ c <= Areas[i].g2 => c \in InArea(i)
<1>1. ASSUME NEW j \in AreaIds, a = Areas[j].g1 PROVE j = i
  BY <1>1, AreaFacts
<1>2. ASSUME NEW j \in AreaIds, a = Areas[j].g2 PROVE j = i
  BY <1>2, AreaFacts
<1>3. a \in Nat /\ Areas[i].g1 <= a /\ a <= Areas[i].g2
  BY AreaFacts DEF InArea
<1>4. \A c \in Nat : Areas[i].g1 <= c /\ c <= Areas[i].g2 => c \in InArea(i)
  BY AreaFacts DEF InArea
<1>5. QED
  BY <1>1, <1>2, <1>3, <1>4 DEF FirstGuards, LastGuards, Guards

(* The neighbour of a block is in the same area. *)
LEMMA NextInArea ==
  ASSUME NEW h, NEW B, IsChain(h, B), NEW i \in AreaIds,
         NEW b \in B, b \in InArea(i), b # Areas[i].g2
  PROVE  /\ b \notin LastGuards /\ h.next[b] \in B \cap InArea(i)
         /\ h.next[b] \in Nat /\ b \in Nat /\ b < h.next[b]
         /\ h.prev[h.next[b]] = b
         /\ \A c \in B : c <= b \/ h.next[b] <= c
<1>1. b \notin LastGuards /\ b \in Nat /\ Areas[i].g1 <= b /\ b <= Areas[i].g2
      /\ Areas[i].g2 \in Guards /\ Areas[i].g1 \in Nat /\ Areas[i].g2 \in Nat
  BY GuardFacts, AreaFacts
<1>2. /\ h.next[b] \in B /\ b < h.next[b] /\ h.prev[h.next[b]] = b
      /\ \A c \in B : c <= b \/ h.next[b] <= c
      /\ Areas[i].g2 \in B /\ B \subseteq Nat
  BY <1>1, AreaFacts DEF IsChain
<1>3. h.next[b] \in Nat /\ h.next[b] <= Areas[i].g2 /\ Areas[i].g1 <= h.next[b]
  <2>1. PICK n \in Nat : n = h.next[b]
    BY <1>2
  <2>2. PICK g \in Nat : g = Areas[i].g2
    BY <1>1
  <2>3. g <= b \/ n <= g
    BY <1>2, <2>1, <2>2
  <2>4. b # g /\ b <= g /\ b < n
    BY <1>1, <1>2, <2>1, <2>2
  <2>5. n <= g /\ Areas[i].g1 <= n
    BY <1>1, <2>3, <2>4
  <2>6. QED
    BY <2>1, <2>2, <2>5
<1>4. h.next[b] \in InArea(i)
  BY <1>3, GuardFacts
<1>5. QED
  BY <1>1, <1>2, <1>3, <1>4

(* The way upwards from a block: the blocks of its area from there on. *)
LEMMA AlongNext ==
  ASSUME NEW h, NEW B, IsChain(h, B), NEW i \in AreaIds, NEW a \in B, a \in InArea(i)
  PROVE  Along(h.next, a) = {c \in B \cap InArea(i) : a <= c}
<1> DEFINE Up(b) == {c \in B \cap InArea(i) : b <= c}
           T == {b \in B \cap InArea(i) : Along(h.next, b) # Up(b)}
           g2 == Areas[i].g2
<1>1. /\ B \subseteq Cells /\ Cells \subseteq Nat /\ g2 \in Nat /\ T \in SUBSET Nat
      /\ \A b \in InArea(i) : b \in Nat /\ b <= g2
  BY AreaFacts, GuardFacts DEF IsChain
<1>2. SUFFICES ASSUME T # {} PROVE FALSE
  OBVIOUS
<1>3. PICK t \in T : \A k \in T : k <= t
  <2>1. \A k \in T : k <= g2
    BY <1>1
  <2> HIDE DEF T, g2
  <2>2. QED
    BY <1>1, <1>2, <2>1, GreatestExists
<1>4. t \in B /\ t \in InArea(i) /\ t \in Cells /\ t \in Nat /\ Along(h.next, t) # Up(t)
  BY <1>1
<1>5. CASE t = g2
  <2>1. h.next[t] = NULL
    BY <1>4, <1>5, GuardFacts DEF IsChain
  <2>2. Along(h.next, t) = {t}
    BY <1>4, <2>1, AlongStep, AreaFacts
  <2>3. Up(t) = {t}
    <3>1. ASSUME NEW c \in B \cap InArea(i), t <= c PROVE c = t
      <4>1. c \in Nat /\ c <= t
        BY <1>1, <1>5
      <4>2. QED
        BY <1>4, <3>1, <4>1
    <3>2. t <= t
      BY <1>4
    <3>3. QED
      BY <1>4, <3>1, <3>2
  <2>4. QED
    BY <1>4, <2>2, <2>3
<1>6. CASE t # g2
  <2>1. PICK n \in B \cap InArea(i) :
             /\ n = h.next[t] /\ t < n /\ n \in Nat /\ \A c \in B : c <= t \/ n <= c
    BY <1>4, <1>6, NextInArea
  <2>2. n \notin T
    BY <1>3, <1>4, <2>1
  <2>3. Along(h.next, n) = Up(n)
    BY <2>2
  <2>4. Along(h.next, t) = {t} \cup Up(n)
    BY <1>1, <1>4, <2>1, <2>3, AlongStep
  <2>5. {t} \cup Up(n) = Up(t)
    <3>1. ASSUME NEW c \in B \cap InArea(i) PROVE t <= c <=> (c = t \/ n <= c)
      <4>1. c \in Nat /\ (c <= t \/ n <= c)
        BY <1>1, <2>1
      <4>2. QED
        BY <1>4, <2>1, <4>1
    <3>2. QED
      BY <1>4, <3>1
  <2>6. QED
    BY <1>4, <2>4, <2>5
<1>7. QED
  BY <1>5, <1>6

(* So is the neighbour below: it is the greatest block below. *)
LEMMA PrevInArea ==
  ASSUME NEW h, NEW B, IsChain(h, B), NEW i \in AreaIds,
         NEW b \in B, b \in InArea(i), b # Areas[i].g1
  PROVE  /\ h.prev[b] \in B \cap InArea(i) /\ h.prev[b] \in Nat /\ b \in Nat /\ h.prev[b] < b
         /\ h.next[h.prev[b]] = b /\ h.prev[b] # Areas[i].g2
         /\ \A c \in B : c <= h.prev[b] \/ b <= c
<1> DEFINE S == {c \in B \cap InArea(i) : c < b}
           g1 == Areas[i].g1
           g2 == Areas[i].g2
<1>1. /\ B \subseteq Nat /\ b \in Nat /\ g1 \in Nat /\ g2 \in Nat /\ g1 <= b /\ b <= g2
      /\ g1 \in B /\ g1 \in InArea(i) /\ S \in SUBSET Nat
      /\ \A c \in InArea(i) : c \in Nat /\ c <= g2
  BY AreaFacts, GuardFacts DEF IsChain
<1>2. g1 \in S
  BY <1>1
<1>3. PICK p \in S : \A c \in S : c <= p
  <2>1. \A c \in S : c <= b
    BY <1>1
  <2> HIDE DEF S
  <2>2. QED
    BY <1>1, <1>2, <2>1, GreatestExists
<1>4. p \in B /\ p \in InArea(i) /\ p \in Nat /\ p < b /\ p # g2
  BY <1>1
<1>5. PICK n \in B \cap InArea(i) :
           n = h.next[p] /\ n \in Nat /\ p < n /\ h.prev[n] = p /\ \A c \in B : c <= p \/ n <= c
  BY <1>4, NextInArea
<1>6. n <= b
  <2>1. b <= p \/ n <= b
    BY <1>5
  <2>2. QED
    BY <1>1, <1>4, <2>1
<1>7. ~(n < b)
  <2>1. SUFFICES ASSUME n < b PROVE FALSE
    OBVIOUS
  <2>2. n <= p
    BY <1>3, <1>5, <2>1
  <2>3. QED
    BY <1>4, <1>5, <2>2
<1>8. n = b
  BY <1>1, <1>5, <1>6, <1>7
<1>9. QED
  BY <1>4, <1>5, <1>8, <1>1

(* The way downwards from a block. *)
LEMMA AlongPrev ==
  ASSUME NEW h, NEW B, IsChain(h, B), NEW i \in AreaIds, NEW a \in B, a \in InArea(i)
  PROVE  Along(h.prev, a) = {c \in B \cap InArea(i) : c <= a}
<1> DEFINE Down(b) == {c \in B \cap InArea(i) : c <= b}
           T == {b \in B \cap InArea(i) : Along(h.prev, b) # Down(b)}
           g1 == Areas[i].g1
<1>1. /\ B \subseteq Cells /\ Cells \subseteq Nat /\ g1 \in Nat /\ T \in SUBSET Nat
      /\ \A b \in InArea(i) : b \in Nat /\ g1 <= b
  BY AreaFacts, GuardFacts DEF IsChain
<1>2. SUFFICES ASSUME T # {} PROVE FALSE
  OBVIOUS
<1>3. PICK t \in T : \A k \in T : t <= k
  <2> HIDE DEF T
  <2>1. QED
    BY <1>1, <1>2, LeastExists
<1>4. t \in B /\ t \in InArea(i) /\ t \in Cells /\ t \in Nat /\ Along(h.prev, t) # Down(t)
  BY <1>1
<1>5. CASE t = g1
  <2>1. h.prev[t] = NULL
    BY <1>4, <1>5, GuardFacts DEF IsChain
  <2>2. Along(h.prev, t) = {t}
    BY <1>4, <2>1, AlongStep, AreaFacts
  <2>3. Down(t) = {t}
    <3>1. ASSUME NEW c \in B \cap InArea(i), c <= t PROVE c = t
      <4>1. c \in Nat /\ t <= c
        BY <1>1, <1>5
      <4>2. QED
        BY <1>4, <3>1, <4>1
    <3>2. t <= t
      BY <1>4
    <3>3. QED
      BY <1>4, <3>1, <3>2
  <2>4. QED
    BY <1>4, <2>2, <2>3
<1>6. CASE t # g1
  <2>1. PICK n \in B \cap InArea(i) :
             /\ n = h.prev[t] /\ n < t /\ n \in Nat /\ \A c \in B : c <= n \/ t <= c
    BY <1>4, <1>6, PrevInArea
  <2>2. n \notin T
    BY <1>3, <1>4, <2>1
  <2>3. Along(h.prev, n) = Down(n)
    BY <2>2
  <2>4. Along(h.prev, t) = {t} \cup Down(n)
    BY <1>1, <1>4, <2>1, <2>3, AlongStep
  <2>5. {t} \cup Down(n) = Down(t)
    <3>1. ASSUME NEW c \in B \cap InArea(i) PROVE c <= t <=> (c = t \/ c <= n)
      <4>1. c \in Nat /\ (c <= n \/ t <= c)
        BY <1>1, <2>1
      <4>2. QED
        BY <1>4, <2>1, <4>1
    <3>2. QED
      BY <1>4, <3>1
  <2>6. QED
    BY <1>4, <2>4, <2>5
<1>7. QED
  BY <1>5, <1>6

(* The first taken block upwards ... *)
LEMMA TakenAbove ==
  ASSUME NEW h, NEW B, IsChain(h, B), Guards \subseteq h.taken,
         NEW i \in AreaIds, NEW a \in B, a \in InArea(i)
  PROVE  LET l == FirstTaken(h, h.next, a)
         IN /\ l \in B \cap InArea(i) /\ l \in Nat /\ l \in h.taken /\ a <= l
            /\ \A c \in B \cap InArea(i) : a <= c /\ c \in h.taken => l <= c
<1> DEFINE met == Along(h.next, a) \cap h.taken
           g2 == Areas[i].g2
           IsFirst(b) == b \in met /\ met \subseteq Along(h.next, b)
<1>1. B \subseteq Nat /\ a \in Nat /\ g2 \in Guards /\ g2 \in B \cap InArea(i) /\ a <= g2 /\ g2 \in h.taken
  BY AreaFacts, GuardFacts DEF IsChain
<1>2. met = {c \in B \cap InArea(i) : a <= c} \cap h.taken
  BY AlongNext
<1>3. met \in SUBSET Nat /\ met # {}
  BY <1>1, <1>2
<1>4. PICK m \in met : \A k \in met : m <= k
  <2> HIDE DEF met
  <2>1. QED
    BY <1>3, LeastExists
<1>5. ASSUME NEW b \in met PROVE Along(h.next, b) = {c \in B \cap InArea(i) : b <= c}
  BY <1>2, AlongNext
<1>6. IsFirst(m)
  BY <1>2, <1>4, <1>5
<1>7. FirstTaken(h, h.next, a) = CHOOSE b \in met : met \subseteq Along(h.next, b)
  BY DEF FirstTaken
<1>8. IsFirst(FirstTaken(h, h.next, a))
  <2> HIDE DEF met
  <2>1. QED
    BY <1>6, <1>7
<1>9. QED
  BY <1>1, <1>2, <1>5, <1>8

(* ... and downwards. *)
LEMMA TakenBelow ==
  ASSUME NEW h, NEW B, IsChain(h, B), Guards \subseteq h.taken,
         NEW i \in AreaIds, NEW a \in B, a \in InArea(i)
  PROVE  LET f == FirstTaken(h, h.prev, a)
         IN /\ f \in B \cap InArea(i) /\ f \in Nat /\ f \in h.taken /\ f <= a
            /\ \A c \in B \cap InArea(i) : c <= a /\ c \in h.taken => c <= f
<1> DEFINE met == Along(h.prev, a) \cap h.taken
           g1 == Areas[i].g1
           IsFirst(b) == b \in met /\ met \subseteq Along(h.prev, b)
<1>1. B \subseteq Nat /\ a \in Nat /\ g1 \in Guards /\ g1 \in B \cap InArea(i) /\ g1 <= a /\ g1 \in h.taken
  BY AreaFacts, GuardFacts DEF IsChain
<1>2. met = {c \in B \cap InArea(i) : c <= a} \cap h.taken
  BY AlongPrev
<1>3. met \in SUBSET Nat /\ met # {} /\ \A k \in met : k <= a
  BY <1>1, <1>2
<1>4. PICK m \in met : \A k \in met : k <= m
  <2> HIDE DEF met
  <2>1. QED
    BY <1>1, <1>3, GreatestExists
<1>5. ASSUME NEW b \in met PROVE Along(h.prev, b) = {c \in B \cap InArea(i) : c <= b}
  BY <1>2, AlongPrev
<1>6. IsFirst(m)
  BY <1>2, <1>4, <1>5
<1>7. FirstTaken(h, h.prev, a) = CHOOSE b \in met : met \subseteq Along(h.prev, b)
  BY DEF FirstTaken
<1>8. IsFirst(FirstTaken(h, h.prev, a))
  <2> HIDE DEF met
  <2>1. QED
    BY <1>6, <1>7
<1>9. QED
  BY <1>1, <1>2, <1>5, <1>8
-----------------------------------------------------------------------------
(* Linking two cells ... *)
LEMMA LinkHeap ==
  ASSUME NEW h \in Heaps, NEW x \in Cells, NEW y \in Cells
  PROVE  Link(h, x, y) \in Heaps
<1>1. x \in Nat /\ y \in Nat
  BY AreaFacts
<1>2. QED
  BY <1>1 DEF Heaps, Link

(* What link changes: one next and one prev. *)
LEMMA LinkFacts ==
  ASSUME NEW h \in Heaps, NEW x \in Cells, NEW y \in Cells, NEW k, k = Link(h, x, y)
  PROVE  k.taken = h.taken /\ k.next[x] = y /\ k.prev[y] = x
<1>1. k = [h EXCEPT !.next[x] = y, !.prev[y] = x] /\ x \in Nat /\ y \in Nat
  BY AreaFacts DEF Link
<1>2. PICK nx \in [Cells -> Nat], pv \in [Cells -> Nat], tk \in SUBSET Cells :
           h = [next |-> nx, prev |-> pv, taken |-> tk]
  BY DEF Heaps
<1>3. k = [next |-> [nx EXCEPT ![x] = y], prev |-> [pv EXCEPT ![y] = x], taken |-> tk]
  BY <1>1, <1>2
<1>4. QED
  BY <1>1, <1>2, <1>3 DEF Heaps

(* ... leaves the links of other cells alone. *)
LEMMA LinkFrame ==
  ASSUME NEW h \in Heaps, NEW x \in Cells, NEW y \in Cells, NEW k, k = Link(h, x, y),
         NEW c \in Cells
  PROVE  /\ c # x => k.next[c] = h.next[c]
         /\ c # y => k.prev[c] = h.prev[c]
<1>1. k = [h EXCEPT !.next[x] = y, !.prev[y] = x]
  BY DEF Link
<1>2. PICK nx \in [Cells -> Nat], pv \in [Cells -> Nat], tk \in SUBSET Cells :
           h = [next |-> nx, prev |-> pv, taken |-> tk]
  BY DEF Heaps
<1>3. k = [next |-> [nx EXCEPT ![x] = y], prev |-> [pv EXCEPT ![y] = x], taken |-> tk]
  BY <1>1, <1>2
<1>4. QED
  BY <1>2, <1>3

(* Linking two blocks of an area takes the blocks between them out.         *)
LEMMA LinkJoins ==
  ASSUME NEW h \in Heaps, NEW B, IsChain(h, B), NEW i \in AreaIds,
         NEW first \in B \cap InArea(i), NEW last \in B \cap InArea(i), first < last
  PROVE  IsChain(Link(h, first, last), {c \in B : c <= first \/ last <= c})
<1> DEFINE k == Link(h, first, last)
           D == {c \in B : c <= first \/ last <= c}
<1>1. /\ B \subseteq Cells /\ Cells \subseteq Nat /\ first \in Cells /\ last \in Cells
      /\ first \in Nat /\ last \in Nat
  BY AreaFacts DEF IsChain
<1>2. /\ \A c \in Cells : k.next[c] = IF c = first THEN last ELSE h.next[c]
      /\ \A c \in Cells : k.prev[c] = IF c = last THEN first ELSE h.prev[c]
  <2>1. PICK r : r = Link(h, first, last)
    OBVIOUS
  <2>2. first \in Cells /\ last \in Cells
    BY <1>1
  <2>3. r.next[first] = last /\ r.prev[last] = first
    BY <2>1, <2>2, LinkFacts
  <2>4. ASSUME NEW c \in Cells
        PROVE  (c # first => r.next[c] = h.next[c]) /\ (c # last => r.prev[c] = h.prev[c])
    BY <2>1, <2>2, LinkFrame
  <2>5. QED
    BY <2>1, <2>3, <2>4
<1> HIDE DEF k
<1>3. first # Areas[i].g2 /\ last # Areas[i].g1 /\ first \notin LastGuards /\ last \notin FirstGuards
  <2>1. first <= Areas[i].g2 /\ last <= Areas[i].g2 /\ Areas[i].g1 <= first
        /\ Areas[i].g1 \in Nat /\ Areas[i].g2 \in Nat
    BY GuardFacts, AreaFacts
  <2>2. first # Areas[i].g2 /\ last # Areas[i].g1
    BY <1>1, <2>1
  <2>3. QED
    BY <2>2, GuardFacts
<1>4. Guards \subseteq D
  <2>1. SUFFICES ASSUME NEW g \in Guards, first < g, g < last PROVE FALSE
    <3>1. \A g \in Guards : g \in B /\ g \in Nat
      BY <1>1 DEF IsChain
    <3>2. QED
      BY <1>1, <2>1, <3>1
  <2>2. g \in Nat
    BY <1>1 DEF IsChain
  <2>3. /\ Areas[i].g1 <= first /\ last <= Areas[i].g2
        /\ Areas[i].g1 \in Nat /\ Areas[i].g2 \in Nat
    BY GuardFacts, AreaFacts
  <2>4. Areas[i].g1 < g /\ g < Areas[i].g2
    BY <1>1, <2>1, <2>2, <2>3
  <2>5. g \in InArea(i)
    <3>1. Areas[i].g1 <= g /\ g <= Areas[i].g2
      BY <2>2, <2>3, <2>4
    <3>2. QED
      BY <2>2, <3>1, GuardFacts
  <2>6. g = Areas[i].g1 \/ g = Areas[i].g2
    BY <2>5, GuardFacts DEF Guards
  <2>7. QED
    BY <2>2, <2>3, <2>4, <2>6
<1>5. \A g \in FirstGuards : k.prev[g] = NULL
  BY <1>1, <1>2, <1>3 DEF IsChain, Guards
<1>6. \A g \in LastGuards : k.next[g] = NULL
  BY <1>1, <1>2, <1>3 DEF IsChain, Guards
<1>7. ASSUME NEW b \in D \ LastGuards
      PROVE  /\ k.next[b] \in D /\ b < k.next[b] /\ k.prev[k.next[b]] = b
             /\ \A c \in D : c <= b \/ k.next[b] <= c
  <2>1. b \in B /\ b \in Cells /\ b \in Nat /\ (b <= first \/ last <= b)
    BY <1>1
  <2>2. CASE b = first
    <3>1. k.next[b] = last
      BY <1>2, <2>1, <2>2
    <3>2. last \in D /\ k.prev[last] = first
      BY <1>1, <1>2
    <3>3. QED
      BY <2>2, <3>1, <3>2
  <2>3. CASE b # first
    <3>1. PICK n \in B : n = h.next[b] /\ b < n /\ h.prev[n] = b /\ \A c \in B : c <= b \/ n <= c
      BY <1>7, <2>1 DEF IsChain
    <3>2. n \in Nat /\ n \in Cells /\ k.next[b] = n
      BY <1>1, <1>2, <2>1, <2>3, <3>1
    <3>3. first <= b \/ n <= first
      BY <3>1
    <3>4. n <= first \/ last < n
      BY <1>1, <2>1, <2>3, <3>1, <3>2, <3>3
    <3>5. n \in D /\ n # last
      BY <1>1, <3>1, <3>2, <3>4
    <3>6. k.prev[n] = b
      BY <1>2, <3>1, <3>2, <3>5
    <3>7. QED
      BY <3>1, <3>2, <3>5, <3>6
  <2>4. QED
    BY <2>2, <2>3
<1>8. QED
  BY <1>1, <1>4, <1>5, <1>6, <1>7 DEF IsChain, k

(* Linking a cell between two others. *)
LEMMA LinkTwice ==
  ASSUME NEW h \in Heaps, NEW a \in Cells, NEW rest \in Cells, NEW n \in Cells,
         rest # a, rest # n, NEW k, k = Link(Link(h, rest, n), a, rest)
  PROVE  /\ k \in Heaps /\ k.taken = h.taken
         /\ k.next[a] = rest /\ k.next[rest] = n /\ k.prev[rest] = a /\ k.prev[n] = rest
<1>1. PICK k1 : k1 = Link(h, rest, n) /\ k = Link(k1, a, rest)
  OBVIOUS
<1>2. k1 \in Heaps
  BY <1>1, LinkHeap, Zenon
<1>3. k \in Heaps
  BY <1>1, <1>2, LinkHeap, Zenon
<1>4. k1.taken = h.taken /\ k1.next[rest] = n /\ k1.prev[n] = rest
  BY <1>1, LinkFacts
<1>5. k.taken = k1.taken /\ k.next[a] = rest /\ k.prev[rest] = a
  BY <1>1, <1>2, LinkFacts
<1>6. k.next[rest] = k1.next[rest] /\ k.prev[n] = k1.prev[n]
  BY <1>1, <1>2, LinkFrame
<1>7. QED
  BY <1>2, <1>3, <1>4, <1>5, <1>6

(* It leaves the links of other cells alone. *)
LEMMA LinkTwiceFrame ==
  ASSUME NEW h \in Heaps, NEW a \in Cells, NEW rest \in Cells, NEW n \in Cells,
         rest # a, rest # n, NEW k, k = Link(Link(h, rest, n), a, rest), NEW c \in Cells
  PROVE  /\ c # a /\ c # rest => k.next[c] = h.next[c]
         /\ c # n /\ c # rest => k.prev[c] = h.prev[c]
<1>1. PICK k1 : k1 = Link(h, rest, n) /\ k = Link(k1, a, rest)
  OBVIOUS
<1>2. k1 \in Heaps
  BY <1>1, LinkHeap, Zenon
<1>3. (c # rest => k1.next[c] = h.next[c]) /\ (c # n => k1.prev[c] = h.prev[c])
  BY <1>1, LinkFrame
<1>4. (c # a => k.next[c] = k1.next[c]) /\ (c # rest => k.prev[c] = k1.prev[c])
  BY <1>1, <1>2, LinkFrame
<1>5. QED
  BY <1>3, <1>4

(* Two links put a new block between a block and its neighbour.             *)
LEMMA LinkSplits ==
  ASSUME NEW h \in Heaps, NEW B, IsChain(h, B), NEW i \in AreaIds,
         NEW a \in B \cap InArea(i), a # Areas[i].g2,
         NEW rest \in Cells, Inside(h, a, rest),
         NEW k, k = Link(Link(h, rest, h.next[a]), a, rest)
  PROVE  /\ k \in Heaps /\ k.taken = h.taken /\ IsChain(k, B \cup {rest})
         /\ rest \in InArea(i) /\ rest \notin B
<1> DEFINE D == B \cup {rest}
<1>1. B \subseteq Cells /\ Cells \subseteq Nat /\ a \in Cells /\ a \in Nat /\ rest \in Nat
  BY AreaFacts DEF IsChain
<1>2. PICK n \in B \cap InArea(i) :
           /\ n = h.next[a] /\ n \in Nat /\ a < n /\ h.prev[n] = a
           /\ a \notin LastGuards /\ \A c \in B : c <= a \/ n <= c
           /\ a < rest /\ rest < n
  BY NextInArea DEF Inside
<1>3. rest \in InArea(i) /\ rest \in Cells
  <2>1. Areas[i].g1 <= a /\ n <= Areas[i].g2 /\ Areas[i].g1 \in Nat /\ Areas[i].g2 \in Nat
    BY GuardFacts, AreaFacts
  <2>2. Areas[i].g1 <= rest /\ rest <= Areas[i].g2
    BY <1>1, <1>2, <2>1
  <2>3. QED
    BY <1>1, <2>2, GuardFacts, AreaFacts
<1>4. rest \notin B /\ rest # a /\ rest # n
  BY <1>1, <1>2
<1>5. k = Link(Link(h, rest, n), a, rest)
  BY <1>2
<1>6. /\ k \in Heaps /\ k.taken = h.taken
      /\ k.next[a] = rest /\ k.next[rest] = n /\ k.prev[rest] = a /\ k.prev[n] = rest
      /\ \A c \in Cells : c # a /\ c # rest => k.next[c] = h.next[c]
      /\ \A c \in Cells : c # n /\ c # rest => k.prev[c] = h.prev[c]
  <2>1. rest \in Cells /\ n \in Cells /\ a \in Cells /\ rest # a /\ rest # n
    BY <1>1, <1>2, <1>3, <1>4
  <2>2. k \in Heaps /\ k.taken = h.taken
    BY <1>5, <2>1, LinkTwice
  <2>3. k.next[a] = rest /\ k.next[rest] = n /\ k.prev[rest] = a /\ k.prev[n] = rest
    BY <1>5, <2>1, LinkTwice
  <2>4. ASSUME NEW c \in Cells, c # a, c # rest PROVE k.next[c] = h.next[c]
    BY <1>5, <2>1, <2>4, LinkTwiceFrame
  <2>5. ASSUME NEW c \in Cells, c # n, c # rest PROVE k.prev[c] = h.prev[c]
    BY <1>5, <2>1, <2>5, LinkTwiceFrame
  <2>6. QED
    BY <2>2, <2>3, <2>4, <2>5
<1>7. /\ \A c \in B \ {a} : k.next[c] = h.next[c]
      /\ \A c \in B \ {n} : k.prev[c] = h.prev[c]
  BY <1>1, <1>4, <1>6
<1>8. Guards \subseteq B /\ n \notin FirstGuards
  <2>1. Areas[i].g1 <= a /\ Areas[i].g1 \in Nat
    BY GuardFacts, AreaFacts
  <2>2. n # Areas[i].g1
    BY <1>1, <1>2, <2>1
  <2>3. QED
    BY <1>2, <2>2, GuardFacts DEF IsChain
<1>9. /\ \A g \in FirstGuards : k.prev[g] = NULL
      /\ \A g \in LastGuards : k.next[g] = NULL
  BY <1>2, <1>6, <1>7, <1>8 DEF IsChain, Guards
<1>10. ASSUME NEW b \in D \ LastGuards
       PROVE  /\ k.next[b] \in D /\ b < k.next[b] /\ k.prev[k.next[b]] = b
              /\ \A c \in D : c <= b \/ k.next[b] <= c
  <2>1. CASE b = a
    <3>1. \A c \in D : c <= a \/ rest <= c
      <4>1. ASSUME NEW c \in B PROVE c <= a \/ rest <= c
        BY <1>1, <1>2
      <4>2. QED
        BY <1>1, <1>2, <4>1
    <3>2. k.next[b] = rest /\ k.prev[rest] = b /\ rest \in D /\ b < rest
      BY <1>2, <1>6, <2>1
    <3>3. QED
      BY <2>1, <3>1, <3>2
  <2>2. CASE b = rest
    <3>1. \A c \in D : c <= rest \/ n <= c
      <4>1. ASSUME NEW c \in B PROVE c <= rest \/ n <= c
        <5>1. c \in Nat /\ (c <= a \/ n <= c)
          BY <1>1, <1>2
        <5>2. QED
          BY <1>1, <1>2, <5>1
      <4>2. rest <= rest
        BY <1>1
      <4>3. QED
        BY <4>1, <4>2
    <3>2. QED
      BY <1>2, <1>6, <2>2, <3>1
  <2>3. CASE b # a /\ b # rest
    <3>1. b \in B /\ b \in Nat /\ k.next[b] = h.next[b]
      BY <1>1, <1>7, <2>3
    <3>2. PICK m \in B : m = h.next[b] /\ b < m /\ h.prev[m] = b /\ \A c \in B : c <= b \/ m <= c
      BY <1>10, <3>1 DEF IsChain
    <3>3. m # n
      BY <1>2, <2>3, <3>2
    <3>4. k.prev[m] = b
      BY <1>7, <3>2, <3>3
    <3>5. rest <= b \/ m <= rest
      <4>1. m \in Nat /\ (b <= a \/ n <= b) /\ (a <= b \/ m <= a)
        BY <1>1, <1>2, <3>1, <3>2
      <4>2. QED
        BY <1>1, <1>2, <2>3, <3>1, <4>1
    <3>6. QED
      BY <3>1, <3>2, <3>4, <3>5
  <2>4. QED
    BY <2>1, <2>2, <2>3
<1>11. IsChain(k, D)
  BY <1>1, <1>3, <1>8, <1>9, <1>10 DEF IsChain
<1>12. QED
  BY <1>2, <1>3, <1>4, <1>6, <1>7, <1>11

(* A link that is there already changes nothing. *)
LEMMA LinkAgain ==
  ASSUME NEW h \in Heaps, NEW x \in Cells, NEW y \in Cells, h.next[x] = y, h.prev[y] = x
  PROVE  Link(h, x, y) = h
<1>1. PICK nx \in [Cells -> Nat], pv \in [Cells -> Nat], tk \in SUBSET Cells :
           h = [next |-> nx, prev |-> pv, taken |-> tk]
  BY DEF Heaps
<1>2. Link(h, x, y) = [h EXCEPT !.next[x] = y, !.prev[y] = x]
  BY DEF Link
<1>3. Link(h, x, y) = [next |-> [nx EXCEPT ![x] = y], prev |-> [pv EXCEPT ![y] = x], taken |-> tk]
  BY <1>1, <1>2
<1>4. [nx EXCEPT ![x] = y] = nx /\ [pv EXCEPT ![y] = x] = pv
  BY <1>1
<1>5. QED
  BY <1>1, <1>3, <1>4

(* s_compact_free leaves a sound heap without free neighbours, and the      *)
(* blocks that are taken where they are.                                    *)
LEMMA Compacted ==
  ASSUME NEW h0, NEW B, Sound(h0, B), NEW a \in B \ Guards,
         JoinedBut([h0 EXCEPT !.taken = @ \ {a}], B, a),
         NEW r, r = s_compact_free(h0, a)
  PROVE  /\ \E D \in SUBSET Cells : Sound(r, D) /\ Joined(r, D)
         /\ r.taken = h0.taken \ {a}
         /\ \A b \in r.taken : r.next[b] = h0.next[b]
<1>1. PICK h : h = [h0 EXCEPT !.taken = @ \ {a}]
  OBVIOUS
<1>2. h \in Heaps /\ h.next = h0.next /\ h.prev = h0.prev /\ h.taken = h0.taken \ {a}
  BY <1>1 DEF Sound, Heaps
<1>3. /\ IsChain(h, B) /\ Guards \subseteq h.taken /\ h.taken \subseteq B
      /\ B \subseteq Cells /\ Cells \subseteq Nat /\ a \in Cells /\ a \in Nat
  BY <1>2, AreaFacts DEF Sound, IsChain
<1>4. JoinedBut(h, B, a)
  BY <1>1
<1>5. PICK i \in AreaIds : a \in InArea(i)
  BY <1>3, AreaFacts
<1>6. PICK back : back = FirstTaken(h, h.prev, a)
  OBVIOUS
<1>7. /\ back \in B \cap InArea(i) /\ back \in Nat /\ back \in h.taken /\ back <= a
      /\ \A c \in B \cap InArea(i) : c <= a /\ c \in h.taken => c <= back
  BY <1>3, <1>5, <1>6, TakenBelow
<1>8. back < a /\ back # Areas[i].g2
  <2>1. back # a
    BY <1>2, <1>7
  <2>2. back < a
    BY <1>3, <1>7, <2>1
  <2>3. a <= Areas[i].g2 /\ Areas[i].g2 \in Nat
    BY <1>5, GuardFacts, AreaFacts
  <2>4. QED
    BY <1>3, <1>7, <2>2, <2>3
<1>9. PICK last : last = FirstTaken(h, h.next, a)
  OBVIOUS
<1>10. /\ last \in B \cap InArea(i) /\ last \in Nat /\ last \in h.taken /\ a <= last
       /\ \A c \in B \cap InArea(i) : a <= c /\ c \in h.taken => last <= c
  BY <1>3, <1>5, <1>9, TakenAbove
<1>11. a < last
  <2>1. last # a
    BY <1>2, <1>10
  <2>2. QED
    BY <1>3, <1>10, <2>1
<1>12. PICK first \in B \cap InArea(i) :
           /\ first = h.next[back] /\ first \in Nat /\ back < first /\ h.prev[first] = back
           /\ \A c \in B : c <= back \/ first <= c
  BY <1>3, <1>7, <1>8, NextInArea
<1>13. first <= a /\ first < last /\ first \notin h.taken
  <2>1. a <= back \/ first <= a
    BY <1>12
  <2>2. first <= a
    BY <1>3, <1>7, <1>8, <1>12, <2>1
  <2>3. first <= back \/ first \notin h.taken
    BY <1>7, <1>12, <2>2
  <2>4. QED
    BY <1>3, <1>7, <1>10, <1>11, <1>12, <2>2, <2>3
<1>14. r = Link(h, first, last)
  <2>1. r = IF first # a \/ h.prev[last] # a THEN Link(h, first, last) ELSE h
    BY <1>1, <1>6, <1>9, <1>12 DEF s_compact_free
  <2>2. ASSUME first = a, h.prev[last] = a PROVE Link(h, first, last) = h
    <3>1. last # Areas[i].g1
      <4>1. Areas[i].g1 <= a /\ Areas[i].g1 \in Nat
        BY <1>5, GuardFacts, AreaFacts
      <4>2. QED
        BY <1>3, <1>10, <1>11, <4>1
    <3>2. h.next[h.prev[last]] = last
      BY <1>3, <1>10, <3>1, PrevInArea
    <3>3. first \in Cells /\ last \in Cells /\ h.next[first] = last /\ h.prev[last] = first
      BY <1>3, <1>10, <1>12, <2>2, <3>2
    <3>4. QED
      BY <1>2, <3>3, LinkAgain
  <2>3. QED
    BY <2>1, <2>2
<1> DEFINE D == {c \in B : c <= first \/ last <= c}
<1>15. r \in Heaps /\ r.taken = h.taken
  <2>1. first \in Cells /\ last \in Cells
    BY <1>3, <1>10, <1>12
  <2>2. r \in Heaps
    BY <1>2, <1>14, <2>1, LinkHeap, Zenon
  <2>3. r.taken = h.taken
    BY <1>2, <1>14, <2>1, LinkFacts
  <2>4. QED
    BY <2>2, <2>3
<1>16. IsChain(r, D)
  BY <1>2, <1>3, <1>10, <1>12, <1>13, <1>14, LinkJoins
<1>17. r.next[first] = last
  <2>1. first \in Cells /\ last \in Cells
    BY <1>3, <1>10, <1>12
  <2>2. QED
    BY <1>2, <1>14, <2>1, LinkFacts
<1>18. ASSUME NEW c \in B, c # first PROVE r.next[c] = h.next[c]
  <2>1. first \in Cells /\ last \in Cells /\ c \in Cells
    BY <1>3, <1>10, <1>12
  <2>2. QED
    BY <1>2, <1>14, <1>18, <2>1, LinkFrame
<1>19. h.taken \subseteq D
  <2>1. SUFFICES ASSUME NEW c \in h.taken, ~(c <= first), ~(last <= c) PROVE FALSE
    BY <1>3
  <2>2. c \in B /\ c \in Nat /\ first < c /\ c < last
    BY <1>3, <1>10, <1>12, <2>1
  <2>3. c \in InArea(i)
    <3>1. Areas[i].g1 <= first /\ last <= Areas[i].g2 /\ Areas[i].g1 \in Nat /\ Areas[i].g2 \in Nat
      BY <1>10, <1>12, GuardFacts, AreaFacts
    <3>2. Areas[i].g1 <= c /\ c <= Areas[i].g2
      BY <1>10, <1>12, <2>2, <3>1
    <3>3. QED
      BY <1>5, <2>2, <3>2, GuardFacts
  <2>4. ~(c <= a)
    <3>1. SUFFICES ASSUME c <= a PROVE FALSE
      OBVIOUS
    <3>2. c <= back
      BY <1>7, <2>2, <2>3, <3>1
    <3>3. QED
      BY <1>7, <1>12, <2>2, <3>2
  <2>5. a <= c
    BY <1>3, <2>2, <2>4
  <2>6. QED
    BY <1>10, <2>1, <2>2, <2>3, <2>5
<1>20. ASSUME NEW b \in D \ LastGuards, IsFree(r, b), IsFree(r, r.next[b]) PROVE FALSE
  <2>1. b \in B /\ b \in Nat /\ b \notin LastGuards /\ (b <= first \/ last <= b)
    BY <1>3
  <2>2. b # first
    BY <1>10, <1>15, <1>17, <1>20 DEF IsFree
  <2>3. r.next[b] = h.next[b]
    BY <1>18, <2>1, <2>2
  <2>4. IsFree(h, b) /\ IsFree(h, h.next[b])
    BY <1>15, <1>20, <2>3 DEF IsFree
  <2>5. a \in {b, h.next[b]}
    BY <1>4, <2>1, <2>4 DEF JoinedBut
  <2>6. CASE a = b
    BY <1>3, <1>10, <1>11, <1>12, <1>13, <2>1, <2>2, <2>6
  <2>7. CASE a = h.next[b]
    <3>1. b < a /\ h.prev[a] = b /\ \A c \in B : c <= b \/ a <= c
      BY <1>3, <2>1, <2>7 DEF IsChain
    <3>2. b < first
      BY <1>3, <1>10, <1>11, <1>12, <2>1, <2>2, <3>1
    <3>3. first <= b \/ a <= first
      BY <1>12, <3>1
    <3>4. a = first
      BY <1>3, <1>12, <1>13, <2>1, <3>2, <3>3
    <3>5. b = back
      BY <1>12, <3>1, <3>4
    <3>6. QED
      BY <1>7, <2>4, <3>5 DEF IsFree
  <2>8. QED
    BY <2>5, <2>6, <2>7
<1>21. Joined(r, D)
  BY <1>20 DEF Joined
<1>22. Sound(r, D)
  BY <1>3, <1>15, <1>16, <1>19 DEF Sound
<1>23. D \in SUBSET Cells
  BY <1>3
<1>24. ASSUME NEW b \in r.taken PROVE r.next[b] = h0.next[b]
  BY <1>2, <1>3, <1>13, <1>15, <1>18
<1>25. QED
  <2> HIDE DEF D
  <2>1. QED
    BY <1>2, <1>15, <1>21, <1>22, <1>23, <1>24

(* Split shortens a taken block; the rest joins a free block behind it. *)
LEMMA Shortened ==
  ASSUME NEW h, NEW B, Sound(h, B), Joined(h, B), NEW a \in h.taken \ LastGuards,
         NEW n \in Nat, n > 0, Inside(h, a, a + n), NEW r, r = Split(h, a, n)
  PROVE  /\ \E D \in SUBSET Cells : Sound(r, D) /\ Joined(r, D)
         /\ r.taken = h.taken /\ r.next[a] = a + n
         /\ \A b \in h.taken \ {a} : r.next[b] = h.next[b]
<1>1. /\ h \in Heaps /\ IsChain(h, B) /\ h.taken \subseteq B /\ Guards \subseteq h.taken
      /\ B \subseteq Cells /\ Cells \subseteq Nat /\ a \in B /\ a \in Cells /\ a \in Nat
  BY AreaFacts DEF Sound, IsChain
<1>2. PICK i \in AreaIds : a \in InArea(i)
  BY <1>1, AreaFacts
<1>3. a # Areas[i].g2
  BY <1>2, GuardFacts
<1>4. PICK m \in B \cap InArea(i) : m = h.next[a] /\ m \in Nat
  BY <1>1, <1>2, <1>3, NextInArea
<1>5. PICK rest \in Nat : rest = a + n
  BY <1>1
<1>6. rest \in Cells /\ Inside(h, a, rest)
  <2>1. Areas[i].g1 <= a /\ m <= Areas[i].g2 /\ Areas[i].g1 \in Nat /\ Areas[i].g2 \in Nat
    BY <1>2, <1>4, GuardFacts, AreaFacts
  <2>2. rest < m /\ a < rest
    BY <1>4, <1>5 DEF Inside
  <2>3. Areas[i].g1 <= rest /\ rest <= Areas[i].g2
    BY <1>1, <1>4, <1>5, <2>1, <2>2
  <2>4. rest \in InArea(i)
    BY <1>2, <1>5, <2>3, GuardFacts
  <2>5. QED
    BY <1>5, <2>4, AreaFacts
<1>7. PICK k : k = Link(Link(h, rest, h.next[a]), a, rest)
  OBVIOUS
<1>8. r = s_compact_free(k, rest)
  BY <1>5, <1>7 DEF Split
<1>9. /\ k \in Heaps /\ k.taken = h.taken /\ IsChain(k, B \cup {rest}) /\ rest \notin B
      /\ k.next[a] = rest /\ k.next[rest] = h.next[a]
      /\ \A c \in B \ {a} : k.next[c] = h.next[c]
  <2>1. h \in Heaps /\ IsChain(h, B) /\ a \in B \cap InArea(i) /\ a # Areas[i].g2
    BY <1>1, <1>2, <1>3
  <2>2. k \in Heaps /\ k.taken = h.taken /\ IsChain(k, B \cup {rest}) /\ rest \notin B
    BY <1>6, <1>7, <2>1, LinkSplits
  <2>3. k = Link(Link(h, rest, m), a, rest)
    BY <1>4, <1>7
  <2>4. m \in Cells /\ a \in Cells /\ rest \in Cells /\ rest # a /\ rest # m
    BY <1>1, <1>4, <1>6, <2>2
  <2>5. k.next[a] = rest /\ k.next[rest] = m
    BY <2>1, <2>3, <2>4, LinkTwice
  <2>6. ASSUME NEW c \in B \ {a} PROVE k.next[c] = h.next[c]
    <3>1. c \in Cells /\ c # a /\ c # rest
      BY <1>1, <2>2
    <3>2. QED
      BY <2>1, <2>3, <2>4, <3>1, LinkTwiceFrame
  <2>7. QED
    BY <1>4, <2>2, <2>5, <2>6
<1>10. Sound(k, B \cup {rest}) /\ rest \notin Guards
  BY <1>1, <1>9 DEF Sound
<1>11. JoinedBut([k EXCEPT !.taken = @ \ {rest}], B \cup {rest}, rest)
  <2>1. PICK k0 : k0 = [k EXCEPT !.taken = @ \ {rest}]
    OBVIOUS
  <2>2. k0.next = k.next /\ k0.taken = h.taken
    BY <1>1, <1>9, <2>1 DEF Heaps
  <2>3. ASSUME NEW b \in (B \cup {rest}) \ LastGuards, IsFree(k0, b), IsFree(k0, k0.next[b]), b # rest
        PROVE  FALSE
    <3>1. b \in B \ LastGuards /\ b # a
      BY <2>2, <2>3 DEF IsFree
    <3>2. k0.next[b] = h.next[b]
      BY <1>9, <2>2, <3>1
    <3>3. QED
      BY <2>2, <2>3, <3>1, <3>2 DEF Joined, IsFree
  <2>4. JoinedBut(k0, B \cup {rest}, rest)
    BY <2>3 DEF JoinedBut
  <2>5. QED
    BY <2>1, <2>4
<1>12. /\ \E D \in SUBSET Cells : Sound(r, D) /\ Joined(r, D)
       /\ r.taken = k.taken \ {rest}
       /\ \A b \in r.taken : r.next[b] = k.next[b]
  BY <1>8, <1>10, <1>11, Compacted
<1>13. r.taken = h.taken
  BY <1>1, <1>9, <1>12
<1>14. r.next[a] = a + n
  BY <1>5, <1>9, <1>12, <1>13
<1>15. \A b \in h.taken \ {a} : r.next[b] = h.next[b]
  BY <1>1, <1>9, <1>12, <1>13
<1>16. QED
  BY <1>12, <1>13, <1>14, <1>15
-----------------------------------------------------------------------------
(* The units of a block for a number of bytes: the header, and at least one *)
(* more.                                                                    *)
LEMMA ActSizeFacts ==
  ASSUME NEW bytes \in Nat
  PROVE  /\ ActSize(bytes + HeaderBytes) \in Nat /\ ActSize(bytes + HeaderBytes) > 0
         /\ ActSize(bytes + HeaderBytes) = (bytes + 7) \div 8 + 1
         /\ bytes # 0 => ActSize(bytes + HeaderBytes) > 1
<1>1. ActSize(bytes + HeaderBytes) = (bytes + 15) \div 8
  BY DEF ActSize, HeaderBytes, MultBytes
<1>2. /\ (bytes + 15) \div 8 = (bytes + 7) \div 8 + 1 /\ (bytes + 7) \div 8 \in Nat
      /\ bytes # 0 => (bytes + 7) \div 8 > 0
  OBVIOUS
<1>3. QED
  BY <1>1, <1>2

(* The best fit is one of the blocks that fit. *)
LEMMA BestFitFits ==
  ASSUME NEW h, NEW cs \in SUBSET Nat, cs # {}, \A a \in cs : BlockSize(h, a) \in Nat
  PROVE  BestFit(h, cs) \in cs
<1> DEFINE S == {BlockSize(h, a) : a \in cs}
<1>1. S \in SUBSET Nat /\ S # {}
  OBVIOUS
<1>2. PICK m \in S : \A s \in S : m <= s
  <2> HIDE DEF S
  <2>1. QED
    BY <1>1, LeastExists
<1> DEFINE M == {a \in cs : BlockSize(h, a) = m}
<1>3. M \in SUBSET Nat /\ M # {}
  BY <1>2
<1>4. PICK a \in M : \A b \in M : a <= b
  <2> HIDE DEF M
  <2>1. QED
    BY <1>3, LeastExists
<1>5. ASSUME NEW b \in cs
      PROVE  \/ BlockSize(h, a) < BlockSize(h, b)
             \/ BlockSize(h, a) = BlockSize(h, b) /\ a <= b
  <2>1. BlockSize(h, a) = m /\ m \in Nat /\ BlockSize(h, b) \in Nat /\ m <= BlockSize(h, b)
    BY <1>1, <1>2, <1>4
  <2>2. CASE BlockSize(h, b) = m
    BY <1>4, <2>1, <2>2
  <2>3. CASE BlockSize(h, b) # m
    BY <2>1, <2>3
  <2>4. QED
    BY <2>2, <2>3
<1>6. \E x \in cs : \A b \in cs : \/ BlockSize(h, x) < BlockSize(h, b)
                                  \/ BlockSize(h, x) = BlockSize(h, b) /\ x <= b
  BY <1>4, <1>5
<1>7. QED
  BY <1>6 DEF BestFit

(* The blocks that fit are free blocks with room. *)
LEMMA CandidatesFit ==
  ASSUME NEW h, NEW B, Sound(h, B), NEW i \in AreaIds, NEW n \in Nat,
         NEW a \in Candidates(h, Areas[i].g1, n)
  PROVE  /\ a \in B /\ a \in Nat /\ a \notin h.taken /\ a \notin LastGuards
         /\ h.next[a] \in B /\ h.next[a] \in Nat /\ a + n <= h.next[a]
         /\ BlockSize(h, a) = h.next[a] - a /\ BlockSize(h, a) \in Nat
<1>1. /\ IsChain(h, B) /\ B \subseteq Cells /\ Cells \subseteq Nat /\ NULL \notin Cells
      /\ Guards \subseteq h.taken
  BY AreaFacts DEF Sound, IsChain
<1>2. /\ Areas[i].g1 \in B /\ Areas[i].g1 \in InArea(i) /\ Areas[i].g1 # Areas[i].g2
  <2>1. Areas[i].g1 \in InArea(i) /\ Areas[i].g1 \in Nat /\ Areas[i].g2 \in Nat
        /\ Areas[i].g1 + 1 < Areas[i].g2
    BY AreaFacts
  <2>2. Areas[i].g1 \in Guards
    BY <2>1, GuardFacts
  <2>3. QED
    BY <1>1, <2>1, <2>2 DEF IsChain
<1>3. PICK b \in B \cap InArea(i) : b = h.next[Areas[i].g1]
  BY <1>1, <1>2, NextInArea
<1>4. Along(h.next, b) = {c \in B \cap InArea(i) : b <= c}
  BY <1>1, <1>3, AlongNext
<1>5. a \in Along(h.next, b) /\ IsFree(h, a) /\ n <= BlockSize(h, a)
  BY <1>3 DEF Candidates
<1>6. a \in B /\ a \in Nat /\ a \notin h.taken /\ a \notin LastGuards
  BY <1>1, <1>4, <1>5 DEF IsFree, Guards
<1>7. h.next[a] \in B /\ h.next[a] \in Nat /\ a < h.next[a] /\ h.next[a] # NULL
  BY <1>1, <1>6 DEF IsChain
<1>8. BlockSize(h, a) = h.next[a] - a
  BY <1>7 DEF BlockSize
<1>9. QED
  BY <1>5, <1>6, <1>7, <1>8

(* What an allocation gives: nothing, or a block that was free, with room   *)
(* for the header and the bytes, while the taken blocks stay as they are.   *)
GivesBlock(h, bytes, r) ==
  /\ bytes # 0 /\ r.ptr \in Cells /\ r.ptr - 1 \in Cells \ h.taken
  /\ \E D \in SUBSET Cells : Sound(r.heap, D) /\ Joined(r.heap, D)
  /\ r.heap.taken = h.taken \cup {r.ptr - 1}
  /\ r.ptr - 1 + ActSize(bytes + HeaderBytes) <= r.heap.next[r.ptr - 1]
  /\ \A b \in h.taken : r.heap.next[b] = h.next[b]

Gives(h, bytes, r) == (r.ptr = NULL /\ r.heap = h) \/ GivesBlock(h, bytes, r)

(* A block marked as taken. *)
LEMMA Marked ==
  ASSUME NEW h, NEW B, Sound(h, B), Joined(h, B), NEW a \in B,
         NEW h1, h1 = [h EXCEPT !.taken = @ \cup {a}]
  PROVE  Sound(h1, B) /\ Joined(h1, B) /\ h1.taken = h.taken \cup {a} /\ h1.next = h.next
<1>1. /\ h1 \in Heaps /\ h1.next = h.next /\ h1.prev = h.prev /\ h1.taken = h.taken \cup {a}
  <2>1. a \in Cells
    BY DEF Sound, IsChain
  <2>2. QED
    BY <2>1 DEF Sound, Heaps
<1>2. Sound(h1, B)
  BY <1>1 DEF Sound, IsChain
<1>3. Joined(h1, B)
  BY <1>1 DEF Joined, IsFree
<1>4. QED
  BY <1>1, <1>2, <1>3

(* s_get_free_block gives such a block of one area, split where it is worth *)
(* it.                                                                      *)
LEMMA GetFreeBlock ==
  ASSUME NEW h, NEW B, Sound(h, B), Joined(h, B), NEW bytes \in Nat, NEW i \in AreaIds,
         NEW r, r = s_get_free_block(h, bytes, Areas[i].g1)
  PROVE  Gives(h, bytes, r)
<1>1. PICK n \in Nat : n = ActSize(bytes + HeaderBytes) /\ n > 0 /\ (bytes # 0 => n > 1)
  BY ActSizeFacts
<1>2. PICK cs : cs = Candidates(h, Areas[i].g1, n)
  OBVIOUS
<1>3. CASE bytes = 0 \/ cs = {}
  <2>1. r = [heap |-> h, ptr |-> NULL]
    BY <1>1, <1>2, <1>3 DEF s_get_free_block
  <2>2. QED
    BY <2>1 DEF Gives
<1>4. CASE bytes # 0 /\ cs # {}
  <2>1. PICK a : a = BestFit(h, cs)
    OBVIOUS
  <2>2. PICK h1 : h1 = [h EXCEPT !.taken = @ \cup {a}]
    OBVIOUS
  <2>3. r = [heap |-> IF WorthSplit(BlockSize(h, a), n) THEN Split(h1, a, n) ELSE h1, ptr |-> a + 1]
    BY <1>1, <1>2, <1>4, <2>1, <2>2 DEF s_get_free_block
  <2>4. a \in cs
    <3>1. cs \in SUBSET Nat /\ \A b \in cs : BlockSize(h, b) \in Nat
      BY <1>2, CandidatesFit
    <3>2. QED
      BY <1>4, <2>1, <3>1, BestFitFits
  <2>5. /\ a \in B /\ a \in Nat /\ a \notin h.taken /\ a \notin LastGuards
        /\ h.next[a] \in B /\ h.next[a] \in Nat /\ a + n <= h.next[a]
        /\ BlockSize(h, a) = h.next[a] - a /\ BlockSize(h, a) \in Nat
    BY <1>2, <2>4, CandidatesFit
  <2>6. Sound(h1, B) /\ Joined(h1, B) /\ h1.taken = h.taken \cup {a} /\ h1.next = h.next
    BY <2>2, <2>5, Marked
  <2>7. PICK k : k = r.heap /\ r.ptr = a + 1
    BY <2>3
  <2>8. /\ \E D \in SUBSET Cells : Sound(k, D) /\ Joined(k, D)
        /\ k.taken = h.taken \cup {a} /\ a + n <= k.next[a]
        /\ \A b \in h.taken : k.next[b] = h.next[b]
    <3>1. CASE WorthSplit(BlockSize(h, a), n)
      <4>1. k = Split(h1, a, n)
        BY <2>3, <2>7, <3>1
      <4>2. Inside(h1, a, a + n)
        <5>1. BlockSize(h, a) > n
          BY <3>1 DEF WorthSplit
        <5>2. a < a + n /\ a + n < h.next[a]
          BY <1>1, <2>5, <5>1
        <5>3. QED
          BY <2>6, <5>2 DEF Inside
      <4>3. a \in h1.taken \ LastGuards /\ n > 0
        BY <1>1, <2>5, <2>6
      <4>4. /\ \E D \in SUBSET Cells : Sound(k, D) /\ Joined(k, D)
            /\ k.taken = h1.taken /\ k.next[a] = a + n
            /\ \A b \in h1.taken \ {a} : k.next[b] = h1.next[b]
        BY <2>6, <4>1, <4>2, <4>3, Shortened
      <4>5. a + n <= k.next[a]
        <5>1. a + n <= a + n
          BY <2>5
        <5>2. QED
          BY <4>4, <5>1
      <4>6. \A b \in h.taken : k.next[b] = h.next[b]
        BY <2>5, <2>6, <4>4
      <4>7. QED
        BY <2>6, <4>4, <4>5, <4>6
    <3>2. CASE ~WorthSplit(BlockSize(h, a), n)
      <4>1. k = h1
        BY <2>3, <2>7, <3>2
      <4>2. B \in SUBSET Cells
        BY DEF Sound, IsChain
      <4>3. QED
        BY <2>5, <2>6, <4>1, <4>2
    <3>3. QED
      BY <3>1, <3>2
  <2>9. a + 1 \in Cells /\ (a + 1) - 1 = a /\ a \in Cells
    <3>1. a \in Cells /\ IsChain(h, B)
      BY <2>5 DEF Sound, IsChain
    <3>2. PICK j \in AreaIds : a \in InArea(j)
      BY <3>1, AreaFacts
    <3>3. a # Areas[j].g2
      BY <2>5, <3>2, GuardFacts
    <3>4. Areas[j].g1 <= a /\ a <= Areas[j].g2 /\ Areas[j].g1 \in Nat /\ Areas[j].g2 \in Nat
      BY <3>2, GuardFacts, AreaFacts
    <3>5. a + 1 \in Nat /\ Areas[j].g1 <= a + 1 /\ a + 1 <= Areas[j].g2
      BY <2>5, <3>3, <3>4
    <3>6. a + 1 \in InArea(j)
      BY <3>2, <3>5, GuardFacts
    <3>7. QED
      BY <2>5, <3>1, <3>6, AreaFacts
  <2>10. GivesBlock(h, bytes, r)
    <3>1. r.ptr \in Cells /\ r.ptr - 1 = a /\ r.heap = k
      BY <2>7, <2>9
    <3>2. QED
      BY <1>1, <1>4, <2>5, <2>8, <2>9, <3>1 DEF GivesBlock
  <2>11. QED
    BY <2>10 DEF Gives
<1>5. QED
  BY <1>3, <1>4

(* smalloc gives a block of the first area that has one. *)
LEMMA SmallocGives ==
  ASSUME NEW h, NEW B, Sound(h, B), Joined(h, B), NEW bytes \in Nat,
         NEW r, r = Smalloc(h, bytes)
  PROVE  Gives(h, bytes, r)
<1> DEFINE Try(i) == s_get_free_block(h, bytes, Areas[i].g1)
           room == {i \in AreaIds : Try(i).ptr # NULL}
<1>1. CASE room = {}
  <2>1. r = [heap |-> h, ptr |-> NULL]
    BY <1>1 DEF Smalloc
  <2>2. QED
    BY <2>1 DEF Gives
<1>2. CASE room # {}
  <2>1. PICK m \in room : \A j \in room : m <= j
    <3>1. room \in SUBSET Nat
      BY DEF AreaIds
    <3> HIDE DEF room
    <3>2. QED
      BY <1>2, <3>1, LeastExists
  <2>2. PICK i : i = CHOOSE k \in room : \A j \in room : k <= j
    OBVIOUS
  <2>3. i \in room
    <3> HIDE DEF room
    <3>1. QED
      BY <2>1, <2>2
  <2>4. r = Try(i)
    BY <1>2, <2>2 DEF Smalloc
  <2>5. QED
    BY <2>3, <2>4, GetFreeBlock
<1>3. QED
  BY <1>1, <1>2

(* The area of a cell. *)
LEMMA AreaOfCell ==
  ASSUME NEW i \in AreaIds, NEW a \in InArea(i)
  PROVE  AreaOf(a) = Areas[i]
<1>1. \A j \in AreaIds : a \in InArea(j) => j = i
  BY AreaFacts
<1>2. QED
  BY <1>1 DEF AreaOf

(* After s_init there is one free block between the guards of each area. *)
LEMMA InitSound ==
  /\ \E B \in SUBSET Cells : Sound(s_init, B) /\ Joined(s_init, B)
  /\ s_init.taken = Guards
<1> DEFINE B == Guards \cup {Areas[i].g1 + 1 : i \in AreaIds}
<1>1. PICK h : h = s_init
  OBVIOUS
<1>2. h.taken = Guards
  BY <1>1 DEF s_init
<1>3. ASSUME NEW i \in AreaIds
      PROVE  /\ Areas[i].g1 + 1 \in InArea(i) /\ Areas[i].g1 + 1 \notin Guards
             /\ Areas[i].g1 + 1 \in Cells /\ Areas[i].g1 + 1 \in Nat
             /\ Areas[i].g1 \in Cells /\ Areas[i].g2 \in Cells
             /\ Areas[i].g1 \in Nat /\ Areas[i].g2 \in Nat
             /\ Areas[i].g1 + 1 < Areas[i].g2
             /\ Areas[i].g1 \in InArea(i) /\ Areas[i].g2 \in InArea(i)
  <2>1. /\ Areas[i].g1 \in Nat /\ Areas[i].g2 \in Nat /\ Areas[i].g1 + 1 < Areas[i].g2
        /\ Areas[i].g1 \in InArea(i) /\ Areas[i].g2 \in InArea(i) /\ InArea(i) \subseteq Cells
    BY AreaFacts
  <2>2. PICK m \in Nat : m = Areas[i].g1 + 1
    BY <2>1
  <2>3. Areas[i].g1 <= m /\ m <= Areas[i].g2 /\ m # Areas[i].g1 /\ m # Areas[i].g2
    BY <2>1, <2>2
  <2>4. m \in InArea(i)
    BY <2>1, <2>2, <2>3, GuardFacts
  <2>5. m \notin Guards
    BY <2>3, <2>4, GuardFacts DEF Guards
  <2>6. QED
    BY <2>1, <2>2, <2>4, <2>5
<1>4. ASSUME NEW i \in AreaIds, NEW a \in InArea(i)
      PROVE  /\ h.next[a] = CASE a = Areas[i].g1 -> a + 1
                              [] a = Areas[i].g1 + 1 -> Areas[i].g2
                              [] OTHER -> NULL
             /\ h.prev[a] = CASE a = Areas[i].g1 + 1 -> a - 1
                              [] a = Areas[i].g2 -> Areas[i].g1 + 1
                              [] OTHER -> NULL
  <2>1. AreaOf(a) = Areas[i] /\ a \in Cells
    BY AreaOfCell, AreaFacts
  <2>2. QED
    BY <1>1, <2>1 DEF s_init
<1>5. ASSUME NEW i \in AreaIds
      PROVE  /\ h.next[Areas[i].g1] = Areas[i].g1 + 1 /\ h.next[Areas[i].g1 + 1] = Areas[i].g2
             /\ h.next[Areas[i].g2] = NULL
             /\ h.prev[Areas[i].g1] = NULL /\ h.prev[Areas[i].g1 + 1] = Areas[i].g1
             /\ h.prev[Areas[i].g2] = Areas[i].g1 + 1
  <2>1. PICK x \in Nat, y \in Nat : x = Areas[i].g1 /\ y = Areas[i].g2 /\ x + 1 < y
                                   /\ x \in InArea(i) /\ y \in InArea(i) /\ x + 1 \in InArea(i)
    BY <1>3
  <2>2. /\ h.next[x] = x + 1 /\ h.next[x + 1] = y /\ h.next[y] = NULL
    BY <1>4, <2>1
  <2>3. /\ h.prev[x] = NULL /\ h.prev[x + 1] = x /\ h.prev[y] = x + 1
    BY <1>4, <2>1
  <2>4. QED
    BY <2>1, <2>2, <2>3
<1>6. h \in Heaps
  <2>1. ASSUME NEW a \in Cells PROVE h.next[a] \in Nat /\ h.prev[a] \in Nat
    <3>1. PICK i \in AreaIds : a \in InArea(i)
      BY AreaFacts
    <3>2. a \in Nat /\ Areas[i].g1 \in Nat /\ Areas[i].g2 \in Nat
      BY AreaFacts
    <3>3. h.next[a] \in Nat
      BY <1>4, <3>1, <3>2 DEF NULL
    <3>4. h.prev[a] \in Nat
      BY <1>4, <3>1, <3>2 DEF NULL
    <3>5. QED
      BY <3>3, <3>4
  <2>2. Guards \in SUBSET Cells
    BY <1>3 DEF Guards, FirstGuards, LastGuards
  <2>3. h.next = [a \in Cells |-> h.next[a]]
    BY <1>1 DEF s_init
  <2>4. h.prev = [a \in Cells |-> h.prev[a]]
    BY <1>1 DEF s_init
  <2>5. h = [next |-> h.next, prev |-> h.prev, taken |-> Guards]
    BY <1>1 DEF s_init
  <2>6. h.next \in [Cells -> Nat] /\ h.prev \in [Cells -> Nat]
    BY <2>1, <2>3, <2>4
  <2>7. QED
    BY <2>2, <2>5, <2>6 DEF Heaps
<1>7. B \in SUBSET Cells
  BY <1>3 DEF Guards, FirstGuards, LastGuards
<1>8. ASSUME NEW b \in B \ LastGuards
      PROVE  /\ h.next[b] \in B /\ b < h.next[b] /\ h.prev[h.next[b]] = b
             /\ \A c \in B : c <= b \/ h.next[b] <= c
             /\ b \in Guards \/ h.next[b] \in Guards
  <2>1. PICK i \in AreaIds : b = Areas[i].g1 \/ b = Areas[i].g1 + 1
    BY DEF Guards, FirstGuards
  <2>2. PICK x \in Nat, y \in Nat : x = Areas[i].g1 /\ y = Areas[i].g2 /\ x + 1 < y
    BY <1>3
  <2>3. x \in Guards /\ y \in Guards /\ x \in B /\ x + 1 \in B /\ y \in B
    BY <2>2 DEF Guards, FirstGuards, LastGuards
  <2>4. ASSUME NEW c \in B, x < c, c < y PROVE c = x + 1
    <3>1. c \in Nat /\ c \in Cells
      BY <1>7, AreaFacts
    <3>2. x <= c /\ c <= y
      BY <2>2, <2>4, <3>1
    <3>3. c \in InArea(i)
      <4>1. x \in InArea(i)
        BY <1>3, <2>2
      <4>2. QED
        BY <2>2, <3>1, <3>2, <4>1, GuardFacts
    <3>4. c \notin Guards
      <4>1. c # x /\ c # y
        BY <2>2, <2>4, <3>1
      <4>2. QED
        BY <2>2, <3>3, <4>1, GuardFacts DEF Guards
    <3>5. PICK j \in AreaIds : c = Areas[j].g1 + 1
      BY <3>4
    <3>6. j = i
      BY <1>3, <3>3, <3>5, AreaFacts
    <3>7. QED
      BY <2>2, <3>5, <3>6
  <2>5. ASSUME NEW c \in B PROVE c <= x \/ c = x + 1 \/ y <= c
    <3>1. c \in Nat
      BY <1>7, AreaFacts
    <3>2. QED
      BY <2>2, <2>4, <2>5, <3>1
  <2>6. CASE b = x
    <3>1. h.next[b] = x + 1 /\ h.prev[x + 1] = b
      BY <1>5, <2>2, <2>6
    <3>2. \A c \in B : c <= x \/ x + 1 <= c
      <4>1. ASSUME NEW c \in B PROVE c <= x \/ x + 1 <= c
        <5>1. c \in Nat
          BY <1>7, AreaFacts
        <5>2. QED
          BY <5>1
      <4>2. QED
        BY <4>1
    <3>3. x < x + 1
      OBVIOUS
    <3>4. QED
      BY <2>3, <2>6, <3>1, <3>2, <3>3
  <2>7. CASE b = x + 1
    <3>1. h.next[b] = y /\ h.prev[y] = b
      BY <1>5, <2>2, <2>7
    <3>2. \A c \in B : c <= x + 1 \/ y <= c
      <4>1. ASSUME NEW c \in B PROVE c <= x + 1 \/ y <= c
        <5>1. c \in Nat /\ (c <= x \/ c = x + 1 \/ y <= c)
          BY <1>7, <2>5, AreaFacts
        <5>2. QED
          BY <2>2, <5>1
      <4>2. QED
        BY <4>1
    <3>3. QED
      BY <2>2, <2>3, <2>7, <3>1, <3>2
  <2>8. QED
    BY <2>1, <2>2, <2>6, <2>7
<1>9. IsChain(h, B)
  <2>1. \A g \in FirstGuards : h.prev[g] = NULL
    BY <1>5 DEF FirstGuards
  <2>2. \A g \in LastGuards : h.next[g] = NULL
    BY <1>5 DEF LastGuards
  <2>3. B \subseteq Cells /\ Guards \subseteq B
    BY <1>7
  <2>4. QED
    BY <1>8, <2>1, <2>2, <2>3 DEF IsChain
<1>10. Sound(h, B)
  BY <1>2, <1>6, <1>9 DEF Sound
<1>11. Joined(h, B)
  BY <1>2, <1>8 DEF Joined, IsFree
<1>12. QED
  <2> HIDE DEF B
  <2>1. QED
    BY <1>1, <1>2, <1>7, <1>10, <1>11
-----------------------------------------------------------------------------
(* The block of a grant. *)
LEMMA OwnedBlock ==
  ASSUME NEW h, NEW B, Sound(h, B), NEW L, Owned(h, L), NEW g \in L,
         NEW a, a = g.ptr - 1
  PROVE  /\ a \in h.taken /\ a \in B \ Guards /\ a \in Cells /\ a \in Nat
         /\ a \notin LastGuards /\ a \notin Guards /\ g.ptr = a + 1
         /\ g.ptr \in Cells /\ g.size \in Nat /\ g.size # 0
         /\ h.next[a] \in Nat /\ a < h.next[a] /\ h.next[a] # NULL
         /\ a + ActSize(g.size + HeaderBytes) <= h.next[a]
<1>1. g.ptr \in Cells /\ g.size \in Sizes \ {0} /\ g.ptr \in Nat /\ g.size \in Nat
  BY AreaFacts, SallocAssumption DEF Owned
<1>2. a \in h.taken /\ a \notin Guards /\ a + ActSize(g.size + HeaderBytes) <= h.next[a]
  BY DEF Owned
<1>3. a \in B /\ a \in Cells /\ a \in Nat /\ B \subseteq Nat /\ NULL \notin B
  <2>1. B \subseteq Cells /\ a \in B
    BY <1>2 DEF Sound, IsChain
  <2>2. QED
    BY <2>1, AreaFacts
<1>4. a \notin LastGuards
  BY <1>2 DEF Guards
<1>5. h.next[a] \in B /\ a < h.next[a]
  BY <1>3, <1>4 DEF Sound, IsChain
<1>6. h.next[a] \in Nat /\ h.next[a] # NULL
  BY <1>3, <1>5
<1>7. g.ptr = a + 1
  BY <1>1
<1>8. QED
  BY <1>1, <1>2, <1>3, <1>4, <1>5, <1>6, <1>7

(* Different grants have different blocks. *)
LEMMA OwnBlocks ==
  ASSUME NEW h, NEW L, Owned(h, L), NEW g \in L, NEW k \in L, g # k
  PROVE  g.ptr - 1 # k.ptr - 1
<1>1. g.ptr \in Nat /\ k.ptr \in Nat /\ g.ptr # k.ptr
  BY AreaFacts DEF Owned
<1>2. QED
  BY <1>1

(* A new grant. *)
LEMMA GrantOwned ==
  ASSUME NEW h, NEW L, Owned(h, L), NEW bytes \in Sizes, NEW r, GivesBlock(h, bytes, r)
  PROVE  /\ Owned(r.heap, L \cup {Grant(r.ptr, bytes)})
         /\ \A k \in L : k.ptr # r.ptr
<1>1. PICK g : g = Grant(r.ptr, bytes)
  OBVIOUS
<1>2. g.ptr = r.ptr /\ g.size = bytes /\ g \in [ptr : Cells, size : Sizes \ {0}]
  BY <1>1 DEF Grant, GivesBlock
<1>3. L \cup {g} \subseteq [ptr : Cells, size : Sizes \ {0}]
  BY <1>2 DEF Owned
<1>4. \A k \in L : k.ptr # r.ptr
  BY DEF Owned, GivesBlock
<1>5. r.heap.taken = {k.ptr - 1 : k \in L \cup {g}} \cup Guards
  BY <1>2 DEF Owned, GivesBlock
<1>6. ASSUME NEW k \in L \cup {g}
      PROVE  /\ k.ptr - 1 \notin Guards
             /\ k.ptr - 1 + ActSize(k.size + HeaderBytes) <= r.heap.next[k.ptr - 1]
  <2>1. CASE k \in L
    <3>1. k.ptr - 1 \in h.taken /\ k.ptr - 1 \notin Guards
      BY <2>1 DEF Owned
    <3>2. r.heap.next[k.ptr - 1] = h.next[k.ptr - 1]
      BY <3>1 DEF GivesBlock
    <3>3. k.ptr - 1 + ActSize(k.size + HeaderBytes) <= h.next[k.ptr - 1]
      BY <2>1 DEF Owned
    <3>4. QED
      BY <3>1, <3>2, <3>3
  <2>2. CASE k = g
    BY <1>2, <2>2 DEF GivesBlock, Owned
  <2>3. QED
    BY <2>1, <2>2
<1>7. \A k, m \in L \cup {g} : k.ptr = m.ptr => k = m
  BY <1>2, <1>4 DEF Owned
<1>8. QED
  <2>1. Owned(r.heap, L \cup {g})
    BY <1>3, <1>5, <1>6, <1>7 DEF Owned
  <2>2. QED
    BY <1>1, <1>4, <2>1

(* A grant given back. *)
LEMMA ReleaseOwned ==
  ASSUME NEW h, NEW B, Sound(h, B), Joined(h, B), NEW L, Owned(h, L), NEW g \in L,
         NEW r, r = s_compact_free(h, g.ptr - 1)
  PROVE  /\ \E D \in SUBSET Cells : Sound(r, D) /\ Joined(r, D)
         /\ Owned(r, L \ {g})
<1>1. PICK a : a = g.ptr - 1
  OBVIOUS
<1>2. a \in B \ Guards /\ a \in h.taken
  BY <1>1, OwnedBlock
<1>3. JoinedBut([h EXCEPT !.taken = @ \ {a}], B, a)
  <2>1. PICK k : k = [h EXCEPT !.taken = @ \ {a}]
    OBVIOUS
  <2>2. k.next = h.next /\ k.taken = h.taken \ {a}
    BY <2>1 DEF Sound, Heaps
  <2>3. JoinedBut(k, B, a)
    BY <2>2 DEF Joined, JoinedBut, IsFree
  <2>4. QED
    BY <2>1, <2>3
<1>4. r = s_compact_free(h, a)
  BY <1>1
<1>5. /\ \E D \in SUBSET Cells : Sound(r, D) /\ Joined(r, D)
      /\ r.taken = h.taken \ {a}
      /\ \A b \in r.taken : r.next[b] = h.next[b]
  BY <1>2, <1>3, <1>4, Compacted
<1>6. \A k \in L \ {g} : k.ptr - 1 # a
  BY <1>1, OwnBlocks
<1>7. r.taken = {k.ptr - 1 : k \in L \ {g}} \cup Guards
  <2>1. h.taken = {k.ptr - 1 : k \in L} \cup Guards
    BY DEF Owned
  <2>2. QED
    BY <1>1, <1>2, <1>5, <1>6, <2>1
<1>8. ASSUME NEW k \in L \ {g}
      PROVE  /\ k.ptr - 1 \notin Guards
             /\ k.ptr - 1 + ActSize(k.size + HeaderBytes) <= r.next[k.ptr - 1]
  <2>1. k.ptr - 1 \in r.taken
    BY <1>7
  <2>2. r.next[k.ptr - 1] = h.next[k.ptr - 1]
    BY <1>5, <2>1
  <2>3. /\ k.ptr - 1 \notin Guards
        /\ k.ptr - 1 + ActSize(k.size + HeaderBytes) <= h.next[k.ptr - 1]
    BY DEF Owned
  <2>4. QED
    BY <2>2, <2>3
<1>9. Owned(r, L \ {g})
  BY <1>7, <1>8 DEF Owned
<1>10. QED
  BY <1>5, <1>9

(* A grant resized in place. *)
LEMMA ResizeOwned ==
  ASSUME NEW h, NEW B, Sound(h, B), Joined(h, B), NEW L, Owned(h, L), NEW g \in L,
         NEW bytes \in Sizes, bytes # 0, bytes <= ActualSize(h, g.ptr),
         NEW r, r = IF bytes < ActualSize(h, g.ptr) THEN s_shrink_block(h, g.ptr, bytes) ELSE h
  PROVE  /\ \E D \in SUBSET Cells : Sound(r, D) /\ Joined(r, D)
         /\ Owned(r, (L \ {g}) \cup {Grant(g.ptr, bytes)})
<1>1. PICK a : a = g.ptr - 1
  OBVIOUS
<1>2. /\ a \in h.taken /\ a \in Nat /\ a \notin LastGuards /\ a \notin Guards
      /\ h.next[a] \in Nat /\ a < h.next[a] /\ h.next[a] # NULL /\ g.ptr \in Cells
  BY <1>1, OwnedBlock
<1>3. PICK m \in Nat : m = h.next[a] /\ a < m
  BY <1>2
<1>4. bytes \in Nat
  BY SallocAssumption
<1>5. PICK n \in Nat : n = ActSize(bytes + HeaderBytes) /\ n > 0 /\ n = (bytes + 7) \div 8 + 1
  BY <1>4, ActSizeFacts
<1>6. BlockSize(h, a) = m - a
  BY <1>2, <1>3 DEF BlockSize
<1>7. ActualSize(h, g.ptr) = (m - a) * 8 - 8
  BY <1>1, <1>6 DEF ActualSize, MultBytes, HeaderBytes
<1>8. a + n <= m
  BY <1>2, <1>3, <1>4, <1>5, <1>7
<1>9. /\ \E D \in SUBSET Cells : Sound(r, D) /\ Joined(r, D)
      /\ r.taken = h.taken /\ a + n <= r.next[a]
      /\ \A b \in h.taken \ {a} : r.next[b] = h.next[b]
  <2>1. CASE bytes < ActualSize(h, g.ptr) /\ WorthSplit(BlockSize(h, a), n)
    <3>1. r = Split(h, a, n)
      BY <1>1, <1>5, <2>1 DEF s_shrink_block
    <3>2. BlockSize(h, a) > n
      BY <2>1 DEF WorthSplit
    <3>3. a < a + n /\ a + n < h.next[a]
      BY <1>2, <1>3, <1>5, <1>6, <3>2
    <3>4. Inside(h, a, a + n) /\ a \in h.taken \ LastGuards /\ n > 0
      BY <1>2, <1>5, <3>3 DEF Inside
    <3>5. /\ \E D \in SUBSET Cells : Sound(r, D) /\ Joined(r, D)
          /\ r.taken = h.taken /\ r.next[a] = a + n
          /\ \A b \in h.taken \ {a} : r.next[b] = h.next[b]
      BY <3>1, <3>4, Shortened
    <3>6. a + n <= a + n
      BY <1>2
    <3>7. QED
      BY <3>5, <3>6
  <2>2. CASE ~(bytes < ActualSize(h, g.ptr) /\ WorthSplit(BlockSize(h, a), n))
    <3>1. r = h
      BY <1>1, <1>5, <2>2 DEF s_shrink_block
    <3>2. B \in SUBSET Cells
      BY DEF Sound, IsChain
    <3>3. QED
      BY <1>3, <1>8, <3>1, <3>2
  <2>3. QED
    BY <2>1, <2>2
<1>10. PICK k : k = Grant(g.ptr, bytes)
  OBVIOUS
<1>11. k.ptr = g.ptr /\ k.size = bytes /\ k \in [ptr : Cells, size : Sizes \ {0}]
  BY <1>2, <1>10 DEF Grant
<1> DEFINE K == (L \ {g}) \cup {k}
<1>12. K \subseteq [ptr : Cells, size : Sizes \ {0}]
  BY <1>11 DEF Owned
<1>13. r.taken = {x.ptr - 1 : x \in K} \cup Guards
  <2>1. {x.ptr - 1 : x \in L} = {x.ptr - 1 : x \in K}
    BY <1>11
  <2>2. QED
    BY <1>9, <2>1 DEF Owned
<1>14. ASSUME NEW x \in K
       PROVE  /\ x.ptr - 1 \notin Guards
              /\ x.ptr - 1 + ActSize(x.size + HeaderBytes) <= r.next[x.ptr - 1]
  <2>1. CASE x = k
    BY <1>1, <1>2, <1>5, <1>9, <1>11, <2>1
  <2>2. CASE x \in L \ {g}
    <3>1. x.ptr - 1 # a /\ x.ptr - 1 \in h.taken
      <4>1. x.ptr - 1 # a
        BY <1>1, <2>2, OwnBlocks
      <4>2. QED
        BY <2>2, <4>1 DEF Owned
    <3>2. r.next[x.ptr - 1] = h.next[x.ptr - 1]
      BY <1>9, <3>1
    <3>3. /\ x.ptr - 1 \notin Guards
          /\ x.ptr - 1 + ActSize(x.size + HeaderBytes) <= h.next[x.ptr - 1]
      BY <2>2 DEF Owned
    <3>4. QED
      BY <3>2, <3>3
  <2>3. QED
    BY <2>1, <2>2
<1>15. \A x, y \in K : x.ptr = y.ptr => x = y
  BY <1>11 DEF Owned
<1>16. Owned(r, K)
  <2> HIDE DEF K
  <2>1. QED
    BY <1>12, <1>13, <1>14, <1>15 DEF Owned
<1>17. QED
  BY <1>9, <1>10, <1>16

(* The memory of a grant lies in its block, behind the header. *)
LEMMA SpanInside ==
  ASSUME NEW h, NEW B, Sound(h, B), NEW L, Owned(h, L), NEW g \in L,
         NEW c \in Abstract!Span(g)
  PROVE  c \in Nat /\ g.ptr - 1 < c /\ c < h.next[g.ptr - 1]
<1>1. PICK a \in Nat : a = g.ptr - 1
  BY OwnedBlock
<1>2. /\ h.next[a] \in Nat /\ g.ptr = a + 1 /\ g.size \in Nat
      /\ a + ActSize(g.size + HeaderBytes) <= h.next[a]
  BY <1>1, OwnedBlock
<1>3. ActSize(g.size + HeaderBytes) = (g.size + 7) \div 8 + 1
  BY <1>2, ActSizeFacts
<1>4. c \in (a + 1) .. (a + 1 + (g.size + 8 - 1) \div 8 - 1)
  BY <1>2 DEF Abstract!Span, MultBytes
<1>5. PICK s \in Nat, n \in Nat : s = g.size /\ n = h.next[a]
  BY <1>2
<1>6. a + ((s + 7) \div 8 + 1) <= n
  BY <1>2, <1>3, <1>5
<1>7. c \in (a + 1) .. (a + 1 + (s + 8 - 1) \div 8 - 1)
  BY <1>4, <1>5
<1>8. c \in Nat /\ a < c /\ c < n
  BY <1>6, <1>7
<1>9. QED
  BY <1>1, <1>5, <1>8

(* No block begins in it. *)
LEMMA SpanWithoutHeader ==
  ASSUME NEW h, NEW B, Sound(h, B), NEW L, Owned(h, L), NEW g \in L
  PROVE  B \cap Abstract!Span(g) = {}
<1>1. SUFFICES ASSUME NEW c \in B, c \in Abstract!Span(g) PROVE FALSE
  OBVIOUS
<1>2. PICK a \in Nat : a = g.ptr - 1
  BY OwnedBlock
<1>3. a \in B /\ a \notin LastGuards /\ h.next[a] \in Nat
  BY <1>2, OwnedBlock
<1>4. c \in Nat /\ a < c /\ c < h.next[a]
  BY <1>1, <1>2, SpanInside
<1>5. c <= a \/ h.next[a] <= c
  BY <1>3 DEF Sound, IsChain
<1>6. QED
  BY <1>2, <1>3, <1>4, <1>5

(* Grants fit: they lie in the memory and apart from each other. *)
LEMMA OwnedFit ==
  ASSUME NEW h, NEW B, Sound(h, B), NEW L, Owned(h, L), NEW g \in L,
         NEW others \in SUBSET L, g \notin others
  PROVE  Abstract!Fits(g, others)
<1>1. PICK a \in Nat : a = g.ptr - 1
  BY OwnedBlock
<1>2. a \in B /\ a \in Cells /\ a \notin LastGuards /\ h.next[a] \in Nat
  BY <1>1, OwnedBlock
<1>3. ASSUME NEW c \in Abstract!Span(g) PROVE c \in Cells
  <2>1. c \in Nat /\ a < c /\ c < h.next[a]
    BY <1>1, SpanInside
  <2>2. PICK i \in AreaIds : a \in InArea(i)
    BY <1>2, AreaFacts
  <2>3. a # Areas[i].g2
    BY <1>2, <2>2, GuardFacts
  <2>4. PICK n \in InArea(i) : n = h.next[a]
    BY <1>2, <2>2, <2>3, NextInArea DEF Sound
  <2>5. Areas[i].g1 <= a /\ n <= Areas[i].g2 /\ Areas[i].g1 \in Nat /\ Areas[i].g2 \in Nat /\ n \in Nat
    BY <2>2, <2>4, GuardFacts, AreaFacts
  <2>6. Areas[i].g1 <= c /\ c <= Areas[i].g2
    BY <1>1, <2>1, <2>4, <2>5
  <2>7. QED
    BY <2>1, <2>2, <2>6, GuardFacts, AreaFacts
<1>4. ASSUME NEW k \in others PROVE Abstract!Apart(g, k)
  <2>1. SUFFICES ASSUME NEW c \in Abstract!Span(g), c \in Abstract!Span(k) PROVE FALSE
    BY DEF Abstract!Apart
  <2>2. k \in L /\ k # g
    OBVIOUS
  <2>3. PICK b \in Nat : b = k.ptr - 1
    BY <2>2, OwnedBlock
  <2>4. b \in B /\ b \notin LastGuards /\ h.next[b] \in Nat
    BY <2>2, <2>3, OwnedBlock
  <2>5. c \in Nat /\ a < c /\ c < h.next[a] /\ b < c /\ c < h.next[b]
    BY <1>1, <2>1, <2>2, <2>3, SpanInside
  <2>6. a # b
    BY <1>1, <2>2, <2>3, OwnBlocks
  <2>7. (b <= a \/ h.next[a] <= b) /\ (a <= b \/ h.next[b] <= a)
    BY <1>2, <2>4 DEF Sound, IsChain
  <2>8. QED
    BY <1>1, <1>2, <2>3, <2>4, <2>5, <2>6, <2>7
<1>5. QED
  BY <1>3, <1>4 DEF Abstract!Fits
-----------------------------------------------------------------------------
(* The operations keep heap and grants consistent. *)
LEMMA FreshConsistent == Consistent(s_init, {})
<1>1. PICK B \in SUBSET Cells : Sound(s_init, B) /\ Joined(s_init, B)
  BY InitSound
<1>2. Owned(s_init, {})
  BY InitSound DEF Owned
<1>3. QED
  BY <1>1, <1>2 DEF Consistent

(* smalloc keeps the heap consistent, ... *)
LEMMA MallocConsistent ==
  ASSUME NEW h, NEW L, Consistent(h, L), NEW bytes \in Sizes, NEW r, r = Smalloc(h, bytes),
         NEW g, g = Grant(r.ptr, bytes)
  PROVE  \/ r.ptr = NULL /\ r.heap = h
         \/ r.ptr # NULL /\ Consistent(r.heap, L \cup {g}) /\ \A k \in L : k.ptr # g.ptr
<1>1. PICK B \in SUBSET Cells : Sound(h, B) /\ Joined(h, B) /\ Owned(h, L)
  BY DEF Consistent
<1>2. bytes \in Nat
  BY SallocAssumption
<1>3. Gives(h, bytes, r)
  BY <1>1, <1>2, SmallocGives
<1>4. CASE GivesBlock(h, bytes, r)
  <2>1. r.ptr # NULL
    BY <1>4, AreaFacts DEF GivesBlock
  <2>2. \E D \in SUBSET Cells : Sound(r.heap, D) /\ Joined(r.heap, D)
    BY <1>4 DEF GivesBlock
  <2>3. Owned(r.heap, L \cup {g}) /\ \A k \in L : k.ptr # r.ptr
    BY <1>1, <1>4, GrantOwned
  <2>4. g.ptr = r.ptr
    BY DEF Grant
  <2>5. QED
    BY <2>1, <2>2, <2>3, <2>4 DEF Consistent
<1>5. QED
  BY <1>3, <1>4 DEF Gives

(* ... so does sfree, ... *)
LEMMA FreeConsistent ==
  ASSUME NEW h, NEW L, Consistent(h, L), NEW g \in L
  PROVE  Consistent(s_compact_free(h, g.ptr - 1), L \ {g})
<1>1. PICK B \in SUBSET Cells : Sound(h, B) /\ Joined(h, B) /\ Owned(h, L)
  BY DEF Consistent
<1>2. PICK r : r = s_compact_free(h, g.ptr - 1)
  OBVIOUS
<1>3. (\E D \in SUBSET Cells : Sound(r, D) /\ Joined(r, D)) /\ Owned(r, L \ {g})
  BY <1>1, <1>2, ReleaseOwned
<1>4. QED
  BY <1>2, <1>3 DEF Consistent

(* ... and a grant that is resized in place. *)
LEMMA ResizeConsistent ==
  ASSUME NEW h, NEW L, Consistent(h, L), NEW g \in L,
         NEW bytes \in Sizes, bytes # 0, bytes <= ActualSize(h, g.ptr),
         NEW r, r = IF bytes < ActualSize(h, g.ptr) THEN s_shrink_block(h, g.ptr, bytes) ELSE h
  PROVE  Consistent(r, (L \ {g}) \cup {Grant(g.ptr, bytes)})
<1>1. PICK B \in SUBSET Cells : Sound(h, B) /\ Joined(h, B) /\ Owned(h, L)
  BY DEF Consistent
<1>2. /\ \E D \in SUBSET Cells : Sound(r, D) /\ Joined(r, D)
      /\ Owned(r, (L \ {g}) \cup {Grant(g.ptr, bytes)})
  BY <1>1, ResizeOwned
<1>3. QED
  BY <1>2 DEF Consistent

(* Consistent grants are grants of the specification and fit. *)
LEMMA ConsistentFit ==
  ASSUME NEW h, NEW L, Consistent(h, L), NEW g \in L, NEW others \in SUBSET L, g \notin others
  PROVE  g \in Abstract!Grants /\ Abstract!Fits(g, others)
<1>1. PICK B \in SUBSET Cells : Sound(h, B) /\ Joined(h, B) /\ Owned(h, L)
  BY DEF Consistent
<1>2. g \in Abstract!Grants
  BY <1>1 DEF Owned, Abstract!Grants
<1>3. Abstract!Fits(g, others)
  BY <1>1, OwnedFit
<1>4. QED
  BY <1>2, <1>3

(* The heap that smalloc works on. *)
LEMMA ReadyConsistent == IInv => Consistent(Ready, live)
BY FreshConsistent DEF IInv, Ready

(* A pointer to give back exists only after s_init. *)
LEMMA LiveConsistent ==
  ASSUME IInv, NEW g \in live
  PROVE  s_initialized = "yes" /\ Consistent(heap, live)
BY DEF IInv
-----------------------------------------------------------------------------
(* The invariant holds at start-up, ... *)
LEMMA InitIInv == Init => IInv
BY DEF Init, IInv

(* ... is kept by every call, ... *)
LEMMA StepIInv == IInv /\ [Next]_vars => IInv'
<1> SUFFICES ASSUME IInv, [Next]_vars PROVE IInv'
  OBVIOUS
<1>1. ASSUME NEW bytes \in Sizes, smalloc(bytes) PROVE IInv'
  <2>1. PICK r : r = Smalloc(Ready, bytes)
    OBVIOUS
  <2>2. /\ heap' = r.heap /\ s_initialized' = "yes"
        /\ live' = IF r.ptr # NULL THEN live \cup {Grant(r.ptr, bytes)} ELSE live
    BY <1>1, <2>1 DEF smalloc
  <2>3. Consistent(Ready, live)
    BY ReadyConsistent
  <2>4. \/ r.ptr = NULL /\ r.heap = Ready
        \/ r.ptr # NULL /\ Consistent(r.heap, live \cup {Grant(r.ptr, bytes)})
    BY <2>1, <2>3, MallocConsistent
  <2>5. Consistent(heap', live')
    BY <2>2, <2>3, <2>4
  <2>6. QED
    BY <2>2, <2>5 DEF IInv
<1>2. ASSUME NEW g \in live, sfree(g) PROVE IInv'
  <2>1. s_initialized = "yes" /\ Consistent(heap, live)
    BY LiveConsistent
  <2>2. /\ heap' = s_compact_free(heap, g.ptr - 1) /\ live' = live \ {g}
        /\ s_initialized' = s_initialized
    BY <1>2 DEF sfree
  <2>3. Consistent(heap', live')
    BY <2>1, <2>2, FreeConsistent
  <2>4. QED
    BY <2>1, <2>2, <2>3 DEF IInv
<1>3. ASSUME NEW g \in live, NEW bytes \in Sizes, ReallocInPlace(g, bytes) PROVE IInv'
  <2>1. s_initialized = "yes" /\ Consistent(heap, live)
    BY LiveConsistent
  <2>2. /\ bytes # 0 /\ bytes <= ActualSize(heap, g.ptr)
        /\ heap' = IF bytes < ActualSize(heap, g.ptr) THEN s_shrink_block(heap, g.ptr, bytes) ELSE heap
        /\ live' = (live \ {g}) \cup {Grant(g.ptr, bytes)} /\ s_initialized' = s_initialized
    BY <1>3 DEF ReallocInPlace
  <2>3. Consistent(heap', (live \ {g}) \cup {Grant(g.ptr, bytes)})
    BY <2>1, <2>2, ResizeConsistent
  <2>4. Consistent(heap', live')
    BY <2>2, <2>3
  <2>5. QED
    BY <2>1, <2>2, <2>4 DEF IInv
<1>4. ASSUME NEW g \in live, NEW bytes \in Sizes, ReallocMoves(g, bytes) PROVE IInv'
  <2>1. s_initialized = "yes" /\ Consistent(heap, live)
    BY LiveConsistent
  <2>2. PICK r : r = Smalloc(heap, bytes)
    OBVIOUS
  <2>3. PICK k : k = Grant(r.ptr, bytes)
    OBVIOUS
  <2>4. s_initialized' = s_initialized
    BY <1>4 DEF ReallocMoves
  <2>5. CASE r.ptr = NULL
    <3>1. heap' = heap /\ live' = live
      BY <1>4, <2>2, <2>5 DEF ReallocMoves
    <3>2. QED
      BY <2>1, <2>4, <3>1 DEF IInv
  <2>6. CASE r.ptr # NULL
    <3>1. heap' = s_compact_free(r.heap, g.ptr - 1) /\ live' = (live \ {g}) \cup {k}
      BY <1>4, <2>2, <2>3, <2>6 DEF ReallocMoves
    <3>2. Consistent(r.heap, live \cup {k}) /\ k # g
      BY <2>1, <2>2, <2>3, <2>6, MallocConsistent
    <3>3. Consistent(heap', (live \cup {k}) \ {g})
      BY <3>1, <3>2, FreeConsistent
    <3>4. (live \cup {k}) \ {g} = live'
      BY <3>1, <3>2
    <3>5. Consistent(heap', live')
      BY <3>3, <3>4
    <3>6. QED
      BY <2>1, <2>4, <3>5 DEF IInv
  <2>7. QED
    BY <2>5, <2>6
<1>5. CASE UNCHANGED vars
  BY <1>5 DEF IInv, vars
<1>6. QED
  BY <1>1, <1>2, <1>3, <1>4, <1>5 DEF Next, srealloc

(* ... and so holds always. *)
LEMMA Invariance == Spec => []IInv
BY InitIInv, StepIInv, PTL DEF Spec
-----------------------------------------------------------------------------
(* The blocks of an area are the cells of the chain there. *)
LEMMA BlocksAre ==
  ASSUME NEW B, Sound(heap, B), NEW i \in AreaIds
  PROVE  /\ Blocks(i) = B \cap InArea(i)
         /\ Areas[i].g1 \in Guards /\ Areas[i].g2 \in Guards
         /\ Areas[i].g2 \in LastGuards /\ Areas[i].g2 \in Blocks(i)
<1>1. Areas[i].g1 \in InArea(i) /\ Areas[i].g2 \in InArea(i)
  BY AreaFacts
<1>2. Areas[i].g1 \in Guards /\ Areas[i].g2 \in Guards /\ Areas[i].g2 \in LastGuards
  BY <1>1, GuardFacts DEF LastGuards
<1>3. IsChain(heap, B) /\ Areas[i].g1 \in B /\ Areas[i].g2 \in B
  BY <1>2 DEF Sound, IsChain
<1>4. Along(heap.next, Areas[i].g1) = {c \in B \cap InArea(i) : Areas[i].g1 <= c}
  BY <1>1, <1>3, AlongNext
<1>5. \A c \in InArea(i) : Areas[i].g1 <= c
  BY GuardFacts
<1>6. Blocks(i) = B \cap InArea(i)
  BY <1>4, <1>5 DEF Blocks
<1>7. QED
  BY <1>1, <1>2, <1>3, <1>6

(* The invariant implies the properties, one by one: the links, ... *)
LEMMA IInvChain == IInv => ChainIsSound
<1> SUFFICES ASSUME IInv, s_initialized = "yes", NEW i \in AreaIds
             PROVE  /\ Blocks(i) \subseteq InArea(i) /\ Areas[i].g2 \in Blocks(i)
                    /\ {Areas[i].g1, Areas[i].g2} \subseteq heap.taken
                    /\ heap.next[Areas[i].g2] = NULL
                    /\ \A a \in Blocks(i) \ {Areas[i].g2} :
                         heap.next[a] > a /\ heap.prev[heap.next[a]] = a
  BY DEF ChainIsSound
<1>1. PICK B \in SUBSET Cells : Sound(heap, B)
  BY DEF IInv, Consistent
<1>2. /\ Blocks(i) = B \cap InArea(i) /\ Areas[i].g1 \in Guards /\ Areas[i].g2 \in Guards
      /\ Areas[i].g2 \in LastGuards /\ Areas[i].g2 \in Blocks(i)
  BY <1>1, BlocksAre
<1>3. /\ Guards \subseteq heap.taken /\ IsChain(heap, B) /\ \A g \in LastGuards : heap.next[g] = NULL
  BY <1>1 DEF Sound, IsChain
<1>4. ASSUME NEW a \in Blocks(i) \ {Areas[i].g2}
      PROVE  heap.next[a] > a /\ heap.prev[heap.next[a]] = a
  <2>1. a \in B /\ a \in InArea(i) /\ a # Areas[i].g2
    BY <1>2
  <2>2. /\ heap.next[a] \in Nat /\ a \in Nat /\ a < heap.next[a] /\ heap.prev[heap.next[a]] = a
    BY <1>3, <2>1, NextInArea
  <2>3. QED
    BY <2>2
<1>5. QED
  BY <1>2, <1>3, <1>4

(* ... no free neighbours, ... *)
LEMMA IInvJoined == IInv => NoFreeNeighbours
<1> SUFFICES ASSUME IInv, s_initialized = "yes", NEW i \in AreaIds,
                    NEW a \in Blocks(i) \ {Areas[i].g2}
             PROVE  ~(IsFree(heap, a) /\ IsFree(heap, heap.next[a]))
  BY DEF NoFreeNeighbours
<1>1. PICK B \in SUBSET Cells : Sound(heap, B) /\ Joined(heap, B)
  BY DEF IInv, Consistent
<1>2. a \in B /\ a \in InArea(i) /\ a # Areas[i].g2
  BY <1>1, BlocksAre
<1>3. a \notin LastGuards
  BY <1>2, GuardFacts
<1>4. QED
  BY <1>1, <1>2, <1>3 DEF Joined

(* ... every taken block belongs to a grant, ... *)
LEMMA IInvTaken == IInv => TakenIffLive
<1> SUFFICES ASSUME IInv, s_initialized = "yes"
             PROVE  (UNION {Blocks(i) : i \in AreaIds}) \cap heap.taken =
                      {g.ptr - 1 : g \in live} \cup Guards
  BY DEF TakenIffLive
<1>1. PICK B \in SUBSET Cells : Sound(heap, B) /\ Owned(heap, live)
  BY DEF IInv, Consistent
<1>2. ASSUME NEW b \in B PROVE \E i \in AreaIds : b \in Blocks(i)
  <2>1. PICK i \in AreaIds : b \in InArea(i)
    BY AreaFacts
  <2>2. b \in Blocks(i)
    BY <1>1, <2>1, BlocksAre
  <2>3. QED
    BY <2>2
<1>3. heap.taken \subseteq B
  BY <1>1 DEF Sound
<1>4. heap.taken \subseteq UNION {Blocks(i) : i \in AreaIds}
  BY <1>2, <1>3
<1>5. heap.taken = {g.ptr - 1 : g \in live} \cup Guards
  BY <1>1 DEF Owned
<1>6. QED
  BY <1>4, <1>5

(* ... and no header in granted memory. *)
LEMMA IInvHeaders == IInv => HeadersOutsideLive
<1> SUFFICES ASSUME IInv, s_initialized = "yes", NEW g \in live, NEW i \in AreaIds
             PROVE  Blocks(i) \cap Abstract!Span(g) = {}
  BY DEF HeadersOutsideLive
<1>1. PICK B \in SUBSET Cells : Sound(heap, B) /\ Owned(heap, live)
  BY DEF IInv, Consistent
<1>2. B \cap Abstract!Span(g) = {}
  BY <1>1, SpanWithoutHeader
<1>3. Blocks(i) \subseteq B
  BY <1>1, BlocksAre
<1>4. QED
  BY <1>2, <1>3

(* Each call is one of the specification's operations or none of them. *)
LEMMA StepRefines == IInv /\ [Next]_vars => [Abstract!Next]_live
<1> SUFFICES ASSUME IInv, [Next]_vars PROVE Abstract!Next \/ live' = live
  OBVIOUS
<1>1. ASSUME NEW bytes \in Sizes, smalloc(bytes) PROVE Abstract!Next \/ live' = live
  <2>1. PICK r : r = Smalloc(Ready, bytes)
    OBVIOUS
  <2>2. PICK k : k = Grant(r.ptr, bytes)
    OBVIOUS
  <2>3. live' = IF r.ptr # NULL THEN live \cup {k} ELSE live
    BY <1>1, <2>1, <2>2 DEF smalloc
  <2>4. Consistent(Ready, live)
    BY ReadyConsistent
  <2>5. r.ptr # NULL => Consistent(r.heap, live \cup {k}) /\ k \notin live
    BY <2>1, <2>2, <2>4, MallocConsistent
  <2>6. CASE r.ptr # NULL
    <3>1. k \in Abstract!Grants /\ Abstract!Fits(k, live)
      BY <2>5, <2>6, ConsistentFit
    <3>2. Abstract!Malloc
      BY <2>3, <2>6, <3>1 DEF Abstract!Malloc
    <3>3. QED
      BY <3>2 DEF Abstract!Next
  <2>7. QED
    BY <2>3, <2>6
<1>2. ASSUME NEW g \in live, sfree(g) PROVE Abstract!Next
  BY <1>2 DEF sfree, Abstract!Next, Abstract!Free
<1>3. ASSUME NEW g \in live, NEW bytes \in Sizes, ReallocInPlace(g, bytes) PROVE Abstract!Next
  <2>1. Consistent(heap, live)
    BY LiveConsistent
  <2>2. PICK k : k = Grant(g.ptr, bytes)
    OBVIOUS
  <2>3. PICK r : r = IF bytes < ActualSize(heap, g.ptr) THEN s_shrink_block(heap, g.ptr, bytes) ELSE heap
    OBVIOUS
  <2>4. bytes # 0 /\ bytes <= ActualSize(heap, g.ptr) /\ live' = (live \ {g}) \cup {k}
    BY <1>3, <2>2 DEF ReallocInPlace
  <2>5. Consistent(r, (live \ {g}) \cup {k})
    BY <2>1, <2>2, <2>3, <2>4, ResizeConsistent
  <2>6. k \notin live \ {g}
    <3>1. \A x \in live : x.ptr = g.ptr => x = g
      BY <2>1 DEF Consistent, Owned
    <3>2. QED
      BY <2>2, <3>1 DEF Grant
  <2>7. k \in Abstract!Grants /\ Abstract!Fits(k, live \ {g}) /\ k.ptr = g.ptr
    BY <2>2, <2>5, <2>6, ConsistentFit DEF Grant
  <2>8. Abstract!Realloc
    BY <2>4, <2>7 DEF Abstract!Realloc
  <2>9. QED
    BY <2>8 DEF Abstract!Next
<1>4. ASSUME NEW g \in live, NEW bytes \in Sizes, ReallocMoves(g, bytes)
      PROVE  Abstract!Next \/ live' = live
  <2>1. Consistent(heap, live)
    BY LiveConsistent
  <2>2. PICK r : r = Smalloc(heap, bytes)
    OBVIOUS
  <2>3. PICK k : k = Grant(r.ptr, bytes)
    OBVIOUS
  <2>4. CASE r.ptr = NULL
    BY <1>4, <2>2, <2>4 DEF ReallocMoves
  <2>5. CASE r.ptr # NULL
    <3>1. live' = (live \ {g}) \cup {k}
      BY <1>4, <2>2, <2>3, <2>5 DEF ReallocMoves
    <3>2. Consistent(r.heap, live \cup {k}) /\ k.ptr # g.ptr /\ k \notin live
      BY <2>1, <2>2, <2>3, <2>5, MallocConsistent
    <3>3. k \in Abstract!Grants /\ Abstract!Fits(k, live)
      BY <3>2, ConsistentFit
    <3>4. Abstract!Realloc
      BY <3>1, <3>2, <3>3 DEF Abstract!Realloc
    <3>5. QED
      BY <3>4 DEF Abstract!Next
  <2>6. QED
    BY <2>4, <2>5
<1>5. CASE UNCHANGED vars
  BY <1>5 DEF vars
<1>6. QED
  BY <1>1, <1>2, <1>3, <1>4, <1>5 DEF Next, srealloc
-----------------------------------------------------------------------------
(* However many areas there are and whatever sizes are asked for: after any *)
(* sequence of smalloc, sfree and srealloc the links of every area lead     *)
(* from guard to guard and back through the same blocks.                    *)
THEOREM ChainsStaySound == Spec => []ChainIsSound
BY Invariance, IInvChain, PTL

(* s_compact_free joins free neighbours wherever a block becomes free: when *)
(* it is freed, and when it is the rest of a split.                         *)
THEOREM FreeBlocksAreJoined == Spec => []NoFreeNeighbours
BY Invariance, IInvJoined, PTL

(* The taken bits are set for the guards and the blocks handed out, and for *)
(* nothing else: srealloc neither leaks nor frees twice.                    *)
THEOREM NothingLeaks == Spec => []TakenIffLive
BY Invariance, IInvTaken, PTL

(* Rounding and the split leave every block the memory asked for between    *)
(* its header and the next.                                                 *)
THEOREM HeadersAreSafe == Spec => []HeadersOutsideLive
BY Invariance, IInvHeaders, PTL

(* smalloc, sfree and srealloc implement Allocator: what they hand out lies *)
(* in the memory and apart from everything else that is handed out.         *)
THEOREM ImplementsAllocator == Spec => RefinesAllocator
<1>1. Init => Abstract!Init
  BY DEF Init, Abstract!Init
<1>2. QED
  BY <1>1, Invariance, StepRefines, PTL DEF Spec, RefinesAllocator, Abstract!Spec
=============================================================================
