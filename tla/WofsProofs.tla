----------------------------- MODULE WofsProofs -----------------------------
(***************************************************************************)
(* Proofs about Wofs for every size of the area, of its sectors and of the *)
(* descriptor table, and for every set of names and of data written.       *)
(***************************************************************************)
EXTENDS Wofs, FiniteSetTheorems, WellFoundedInduction, TLAPS

Byte == 0 .. 255

(* The names the search reads in full. *)
Sought == {n \in Seq(1 .. 254) : Len(n) <= NameLength}
ShortNames == Names \cap Sought

(* A closed file as it lies in the flash, also after it was marked deleted: *)
(* where its name starts, its name and its data.                            *)
Records == [at : Nat, name : ShortNames, data : Seq(Byte)]

DelOf(r)  == RoundUp(r.at + Len(r.name) + 1)
BaseOf(r) == NewBase(r.at, r.name)
EndOf(r)  == RoundUp(BaseOf(r) + Len(r.data))

(* R is the list of the records: they follow each other from the start of   *)
(* the area to e, where the next one will go.                               *)
IsChain(R, e) ==
  /\ R \subseteq Records
  /\ e \in Nat /\ e % AlignTo = 0 /\ e <= MaxSize - AlignTo
  /\ e = 0 \/ \E r \in R : r.at = 0
  /\ \A r \in R : /\ r.at % AlignTo = 0 /\ EndOf(r) <= e
                  /\ EndOf(r) = e \/ \E q \in R : q.at = EndOf(r)
  /\ \A r, q \in R : r.at < q.at => EndOf(r) <= q.at
  /\ \A r, q \in R : r.at = q.at => r = q

(* What the flash fl contains of a record. *)
Named(fl, a, n) == (\A j \in 1 .. Len(n) : fl[a + j - 1] = n[j]) /\ fl[a + Len(n)] = 0
HasData(fl, b, s) == \A j \in 1 .. Len(s) : fl[b + j - 1] = s[j]
Holds(fl, r) ==
  /\ Named(fl, r.at, r.name)
  /\ fl[DelOf(r)] \in {Erased, Deleted}
  /\ SizeAt(fl, DelOf(r) + AlignTo) = Len(r.data)
  /\ HasData(fl, BaseOf(r), r.data)
Live(fl, r) == fl[DelOf(r)] # Deleted

(* The files fi are the records that are not deleted, one for each name. *)
IsTheFile(fl, R, n, q) ==
  /\ q \in R /\ q.name = n /\ Live(fl, q)
  /\ \A r \in R : r.name = n /\ Live(fl, r) => r = q
NotThere(fl, R, n) == \A r \in R : r.name = n => ~Live(fl, r)
Stored(fl, fi, R) ==
  \A n \in Names : IF fi[n] = NoFile THEN NotThere(fl, R, n)
                   ELSE \E q \in R : IsTheFile(fl, R, n, q) /\ q.data = fi[n]

(* A descriptor opened on a closed file reads one of the records. *)
ReadersKeep(fd, R) ==
  \A f \in Fds : fd[f].mode = "r" /\ fd[f].of # NoFile =>
    \E q \in R : fd[f].base = BaseOf(q) /\ fd[f].size = Len(q.data) /\ fd[f].of = q.data

Kept(fl, fi, fd, R) == (\A r \in R : Holds(fl, r)) /\ Stored(fl, fi, R) /\ ReadersKeep(fd, R)

ErasedFrom(fl, a) == \A x \in Addr : a <= x => fl[x] = Erased

(* The file being written, at e: its name and its data so far, and nothing  *)
(* in the deleted and size fields.                                          *)
Unfinished(fl, fi, e, d) ==
  /\ d.name \in ShortNames /\ fi[d.name] = NoFile
  /\ d.of \in Seq(Byte) /\ d.size = Len(d.of) /\ d.base = NewBase(e, d.name)
  /\ Named(fl, e, d.name)
  /\ \A x \in Addr : e + Len(d.name) < x /\ x < d.base => fl[x] = Erased
  /\ HasData(fl, d.base, d.of)
  /\ ErasedFrom(fl, d.base + d.size)

-----------------------------------------------------------------------------
Descs == [base : Int, offset : Int, size : Int, mode : {"free", "r", "w", "a"},
          name : Names \cup {<<>>}, of : Seq(Int)]

TypeOK ==
  /\ flash \in [Addr -> Byte]
  /\ fds \in [Fds -> Descs]
  /\ num_fd \in Nat
  /\ writing \in {"yes", "no"}
  /\ files \in [Names -> Seq(Int)]
  /\ torn \in {"no", "yes", "spoilt"}
  /\ twice \in {"no", "yes"}
  /\ steps \in Nat

Used(fd)    == {f \in Fds : fd[f] # NoFd}
Writers(fd) == {f \in Fds : fd[f].mode \in {"w", "a"}}

(* The descriptor table: free descriptors are empty, the count is right,    *)
(* one descriptor writes while the flag is set, and it has space to spare.  *)
TableOK(fd, n, w) ==
  /\ \A f \in Fds : fd[f].mode = "free" => fd[f] = NoFd
  /\ n = Cardinality(Used(fd))
  /\ IF w = "yes" THEN \E f \in Fds : Writers(fd) = {f} ELSE Writers(fd) = {}
  /\ \A f \in Writers(fd) :
       /\ fd[f].name \in Names /\ fd[f].base \in Nat /\ fd[f].base % AlignTo = 0
       /\ fd[f].size \in Nat
       /\ fd[f].base + fd[f].size <= MaxSize - AlignTo

(* What the properties need while nothing has spoilt the list.  After an   *)
(* interrupted format it is empty, whatever lies behind the first sector.  *)
Safe(R, e) ==
  /\ IsChain(R, e)
  /\ Kept(flash, files, fds, R)
  /\ torn = "no" /\ writing = "no" => ErasedFrom(flash, e)
  /\ torn = "no" => \A f \in Writers(fds) : Unfinished(flash, files, e, fds[f])

(* The inductive invariant. *)
IInv ==
  /\ TypeOK
  /\ TableOK(fds, num_fd, writing)
  /\ torn = "yes" => writing = "no"
  /\ torn # "spoilt" => twice = "no" /\ \E R \in SUBSET Records, e \in Nat : Safe(R, e)

-----------------------------------------------------------------------------
(* A set of natural numbers has a least one. *)
LEMMA LeastExists ==
  ASSUME NEW S \in SUBSET Nat, S # {}
  PROVE  \E m \in S : \A k \in S : m <= k
<1> DEFINE less == OpToRel(<, Nat)
<1>1. IsWellFoundedOn(less, Nat)
  BY NatLessThanWellFounded
<1>2. \A x, y \in Nat : <<x, y>> \in less <=> x < y
  BY DEF OpToRel
<1> HIDE DEF less
<1>3. PICK m \in S : \A y \in S : ~ (<<y, m>> \in less)
  BY <1>1, WFMin
<1>4. ASSUME NEW k \in S PROVE m <= k
  <2>1. ~(k < m) /\ k \in Nat /\ m \in Nat
    BY <1>2, <1>3
  <2>2. QED
    BY <2>1
<1>5. QED
  BY <1>4

(* Rounding up to a multiple of four. *)
LEMMA Rounded ==
  ASSUME NEW x \in Int
  PROVE  /\ RoundUp(x) \in Int /\ RoundUp(x) % AlignTo = 0
         /\ x <= RoundUp(x) /\ RoundUp(x) <= x + 3
<1> DEFINE q == (x + 3) \div 4
<1>1. q \in Int /\ 4 * q <= x + 3 /\ x + 3 < 4 * q + 4
  OBVIOUS
<1>2. RoundUp(x) = 4 * q
  BY DEF RoundUp, AlignTo
<1>3. (4 * q) % 4 = 0
  BY <1>1
<1> HIDE DEF q
<1>4. QED
  BY <1>1, <1>2, <1>3 DEF AlignTo

(* It stays below the multiples above. *)
LEMMA RoundedBelow ==
  ASSUME NEW x \in Int, NEW y \in Int, y % AlignTo = 0, x <= y
  PROVE  RoundUp(x) <= y
<1>1. PICK q \in Int : q = RoundUp(x) /\ q % 4 = 0 /\ q <= x + 3
  BY Rounded DEF AlignTo
<1>2. y % 4 = 0
  BY DEF AlignTo
<1>3. QED
  BY <1>1, <1>2

(* The constants. *)
LEMMA ConstantFacts ==
  /\ MaxSize \in Nat /\ 4 <= MaxSize /\ MaxSize % 4 = 0 /\ MaxSize <= TopSize
  /\ NameLength \in Nat \ {0} /\ MaxFds \in Nat \ {0} /\ SectorSize \in Nat \ {0}
  /\ \A n \in Names : n \in Seq(1 .. 254) /\ Len(n) \in Nat /\ 1 <= Len(n)
  /\ <<1>> \notin Names
<1>1. MaxSize \in Nat \ {0} /\ MaxSize % 4 = 0
  BY ConstantsAssumption DEF AlignTo
<1>2. 4 <= MaxSize
  BY <1>1
<1>3. QED
  BY <1>1, <1>2, ConstantsAssumption

-----------------------------------------------------------------------------
(* The parts of a record lie one behind the other. *)
LEMMA RecordParts ==
  ASSUME NEW r \in Records
  PROVE  /\ r.at \in Nat /\ r.name \in Names /\ Len(r.name) \in Nat /\ 1 <= Len(r.name)
         /\ r.data \in Seq(Byte) /\ Len(r.data) \in Nat
         /\ DelOf(r) \in Nat /\ BaseOf(r) \in Nat /\ EndOf(r) \in Nat
         /\ r.at + Len(r.name) + 1 <= DelOf(r) /\ BaseOf(r) = DelOf(r) + 8
         /\ BaseOf(r) + Len(r.data) <= EndOf(r) /\ r.at + 10 <= EndOf(r)
         /\ BaseOf(r) % AlignTo = 0 /\ EndOf(r) % AlignTo = 0
<1>1. /\ r.at \in Nat /\ r.name \in Names /\ Len(r.name) \in Nat /\ 1 <= Len(r.name)
      /\ r.data \in Seq(Byte) /\ Len(r.data) \in Nat
  BY ConstantFacts DEF Records, ShortNames
<1>2. PICK x \in Nat : x = r.at + Len(r.name) + 1
  BY <1>1
<1>3. PICK d \in Int : d = RoundUp(x) /\ x <= d /\ d % 4 = 0
  BY <1>2, Rounded DEF AlignTo
<1>4. DelOf(r) = d /\ BaseOf(r) = d + 8
  BY <1>2, <1>3 DEF DelOf, BaseOf, NewBase, AlignTo
<1>5. PICK b \in Nat : b = d + 8 + Len(r.data)
  BY <1>1, <1>2, <1>3
<1>6. PICK y \in Int : y = RoundUp(b) /\ b <= y /\ y % 4 = 0
  <2>1. b \in Int
    BY <1>5
  <2>2. RoundUp(b) \in Int /\ b <= RoundUp(b) /\ RoundUp(b) % 4 = 0
    BY <2>1, Rounded DEF AlignTo
  <2>3. QED
    BY <2>2
<1>7. EndOf(r) = y
  BY <1>4, <1>5, <1>6 DEF EndOf
<1>8. r.at + 2 <= x /\ (d + 8) % 4 = 0
  BY <1>1, <1>2, <1>3
<1>9. r.at + 10 <= y /\ d + 8 \in Nat /\ y \in Nat /\ d \in Nat
  <2>1. r.at \in Nat /\ r.at + 2 <= x /\ x <= d /\ b = d + 8 + Len(r.data) /\ b <= y
    BY <1>1, <1>3, <1>5, <1>6, <1>8
  <2>2. PICK l \in Nat, a \in Nat : l = Len(r.data) /\ a = r.at
    BY <1>1
  <2>3. a + 2 <= x /\ x <= d /\ b = d + 8 + l /\ b <= y
    BY <2>1, <2>2
  <2>4. a + 10 <= y /\ d + 8 \in Nat /\ y \in Nat /\ d \in Nat
    BY <2>3
  <2>5. QED
    BY <2>2, <2>4
<1>10. DelOf(r) \in Nat /\ BaseOf(r) \in Nat /\ EndOf(r) \in Nat
  BY <1>4, <1>7, <1>9
<1>11. r.at + Len(r.name) + 1 <= DelOf(r) /\ BaseOf(r) = DelOf(r) + 8
  BY <1>2, <1>3, <1>4
<1>12. BaseOf(r) + Len(r.data) <= EndOf(r) /\ r.at + 10 <= EndOf(r)
  BY <1>4, <1>5, <1>6, <1>7, <1>9
<1>13. BaseOf(r) % AlignTo = 0 /\ EndOf(r) % AlignTo = 0
  BY <1>4, <1>6, <1>7, <1>8 DEF AlignTo
<1>14. QED
  BY <1>1, <1>10, <1>11, <1>12, <1>13

(* The name and the deleted field are inside the record. *)
LEMMA RecordInside ==
  ASSUME NEW r \in Records
  PROVE  /\ r.at \in Nat /\ DelOf(r) \in Nat /\ EndOf(r) \in Nat /\ Len(r.name) \in Nat
         /\ r.at + Len(r.name) < EndOf(r) /\ r.at < DelOf(r) /\ DelOf(r) < EndOf(r)
<1>1. PICK a \in Nat, d \in Nat, e \in Nat, l \in Nat, b \in Nat, m \in Nat :
        /\ a = r.at /\ d = DelOf(r) /\ e = EndOf(r) /\ l = Len(r.name)
        /\ a + l + 1 <= d /\ b = d + 8 /\ b + m <= e
  <2>1. /\ r.at \in Nat /\ DelOf(r) \in Nat /\ EndOf(r) \in Nat /\ Len(r.name) \in Nat
        /\ BaseOf(r) \in Nat /\ Len(r.data) \in Nat /\ r.at + Len(r.name) + 1 <= DelOf(r)
        /\ BaseOf(r) = DelOf(r) + 8 /\ BaseOf(r) + Len(r.data) <= EndOf(r)
    BY RecordParts
  <2>2. QED
    BY <2>1
<1>2. a + l < e /\ a < d /\ d < e
  <2>1. a \in Nat /\ d \in Nat /\ e \in Nat /\ l \in Nat /\ b \in Nat /\ m \in Nat
        /\ a + l + 1 <= d /\ b = d + 8 /\ b + m <= e
    BY <1>1
  <2>2. QED
    BY ONLY <2>1
<1>3. QED
  BY <1>1, <1>2

(* An element of a sequence. *)
LEMMA ElementIn ==
  ASSUME NEW S, NEW s \in Seq(S), NEW i \in 1 .. Len(s)
  PROVE  s[i] \in S
OBVIOUS

(* The length of the name the search reads. *)
LEMMA NameLenIs ==
  ASSUME NEW fl, NEW a \in Nat, NEW n \in Seq(1 .. 254), Len(n) <= NameLength,
         a + Len(n) < MaxSize, Named(fl, a, n)
  PROVE  NameLen(fl, a) = Len(n)
<1> DEFINE zeros == {j \in 0 .. NameLength - 1 : Read8(fl, a + j) = 0}
<1>1. Len(n) \in Nat /\ NameLength \in Nat /\ MaxSize \in Nat
  BY ConstantFacts
<1>2. ASSUME NEW j \in zeros PROVE Len(n) <= j
  <2>1. SUFFICES ASSUME j < Len(n) PROVE FALSE
    BY <1>1
  <2>2. j \in Nat /\ j + 1 \in 1 .. Len(n) /\ a + j \in Addr
    BY <1>1, <2>1 DEF Addr
  <2>3. fl[a + j] = n[j + 1]
    <3>1. fl[a + (j + 1) - 1] = n[j + 1]
      BY <2>2 DEF Named
    <3>2. a + (j + 1) - 1 = a + j
      BY <2>2
    <3>3. QED
      BY <3>1, <3>2
  <2>4. n[j + 1] # 0
    <3>1. PICK v \in 1 .. 254 : v = n[j + 1]
      BY <2>2, ElementIn
    <3>2. v # 0
      OBVIOUS
    <3>3. QED
      BY <3>1, <3>2
  <2>5. Read8(fl, a + j) = 0
    OBVIOUS
  <2>6. QED
    BY <2>2, <2>3, <2>4, <2>5 DEF Read8
<1>3. Len(n) < NameLength => Len(n) \in zeros
  <2>1. a + Len(n) \in Addr /\ fl[a + Len(n)] = 0
    BY <1>1 DEF Addr, Named
  <2>2. QED
    BY <1>1, <2>1 DEF Read8
<1>4. zeros \subseteq 0 .. NameLength - 1
  OBVIOUS
<1>5. NameLen(fl, a) = IF zeros = {} THEN NameLength
                       ELSE CHOOSE j \in zeros : \A k \in zeros : j <= k
  BY DEF NameLen
<1> HIDE DEF zeros
<1>6. CASE Len(n) < NameLength
  <2>1. Len(n) \in zeros /\ \A k \in zeros : Len(n) <= k
    BY <1>2, <1>3, <1>6
  <2>2. PICK m : m = CHOOSE j \in zeros : \A k \in zeros : j <= k
    OBVIOUS
  <2>3. m \in zeros /\ \A k \in zeros : m <= k
    BY <2>1, <2>2
  <2>4. m \in Nat /\ m <= Len(n) /\ Len(n) <= m
    BY <1>4, <2>1, <2>3
  <2>5. QED
    BY <1>1, <1>5, <2>1, <2>2, <2>4
<1>7. CASE Len(n) = NameLength
  <2>1. zeros = {}
    BY <1>1, <1>2, <1>4, <1>7
  <2>2. QED
    BY <1>5, <1>7, <2>1
<1>8. QED
  BY <1>1, <1>6, <1>7

(* What the search sees of a record. *)
LEMMA Parsed ==
  ASSUME NEW fl, NEW r \in Records, Holds(fl, r), EndOf(r) <= MaxSize
  PROVE  /\ r.at \in Addr /\ Read8(fl, r.at) # Erased
         /\ NameLen(fl, r.at) = Len(r.name)
         /\ DelAddr(fl, r.at) = DelOf(r) /\ DataAddr(fl, r.at) = BaseOf(r)
         /\ RecordSize(fl, r.at) = Len(r.data) /\ NextRecord(fl, r.at) = EndOf(r)
<1>1. r.name \in Seq(1 .. 254) /\ Len(r.name) <= NameLength
  BY DEF Records, ShortNames, Sought
<1>2. r.at + Len(r.name) < MaxSize /\ r.at \in Addr /\ r.at \in Nat
  <2>1. r.at \in Nat /\ Len(r.name) \in Nat /\ EndOf(r) \in Nat /\ r.at + Len(r.name) < EndOf(r)
    BY RecordInside
  <2>2. MaxSize \in Nat
    BY ConstantFacts
  <2>3. PICK i \in Nat, l \in Nat, e \in Nat : i = r.at /\ l = Len(r.name) /\ e = EndOf(r)
    BY <2>1
  <2>4. i + l < e
    BY <2>1, <2>3
  <2>5. i + l < MaxSize /\ i < MaxSize
    BY <2>2, <2>3, <2>4
  <2>6. i \in Addr
    BY <2>2, <2>5 DEF Addr
  <2>7. QED
    BY <2>3, <2>5, <2>6
<1>3. Named(fl, r.at, r.name)
  BY DEF Holds
<1>4. NameLen(fl, r.at) = Len(r.name)
  BY <1>1, <1>2, <1>3, NameLenIs
<1>5. Read8(fl, r.at) # Erased
  <2>1. 1 \in 1 .. Len(r.name)
    BY RecordParts
  <2>2. fl[r.at] = r.name[1]
    <3>1. fl[r.at + 1 - 1] = r.name[1]
      BY <1>3, <2>1 DEF Named
    <3>2. r.at + 1 - 1 = r.at
      BY <1>2
    <3>3. QED
      BY <3>1, <3>2
  <2>3. r.name[1] # 255
    <3>1. r.name[1] \in 1 .. 254
      BY <1>1, <2>1, ElementIn
    <3>2. QED
      BY <3>1
  <2>4. QED
    BY <1>2, <2>2, <2>3 DEF Read8, Erased
<1>6. DelAddr(fl, r.at) = DelOf(r)
  BY <1>4 DEF DelAddr, DelOf
<1>7. DataAddr(fl, r.at) = BaseOf(r)
  BY <1>6 DEF DataAddr, DelOf, BaseOf, NewBase
<1>8. RecordSize(fl, r.at) = Len(r.data)
  BY <1>6 DEF RecordSize, Holds
<1>9. NextRecord(fl, r.at) = EndOf(r)
  BY <1>7, <1>8 DEF NextRecord, EndOf
<1>10. QED
  BY <1>2, <1>4, <1>5, <1>6, <1>7, <1>8, <1>9

(* The record is taken for the file n exactly if it has that name and is    *)
(* not deleted.                                                             *)
LEMMA FileIs ==
  ASSUME NEW fl, NEW r \in Records, Holds(fl, r), EndOf(r) <= MaxSize,
         NEW n \in Sought
  PROVE  IsFile(fl, r.at, n) <=> r.name = n /\ Live(fl, r)
<1>1. /\ r.name \in Seq(1 .. 254) /\ r.at \in Nat /\ Len(r.name) \in Nat /\ MaxSize \in Nat
      /\ n \in Seq(1 .. 254)
  BY RecordParts, ConstantFacts DEF Sought
<1>2. NameLen(fl, r.at) = Len(r.name) /\ DelAddr(fl, r.at) = DelOf(r)
  BY Parsed
<1>3. Read8(fl, DelOf(r)) = fl[DelOf(r)] /\ Compared(n) = Len(n)
  <2>1. DelOf(r) \in Nat /\ DelOf(r) < EndOf(r) /\ EndOf(r) \in Nat
    BY RecordInside
  <2>2. DelOf(r) \in Addr
    BY <1>1, <2>1 DEF Addr
  <2>3. QED
    BY <2>2 DEF Read8, Compared, Sought
<1>4. ASSUME NEW j \in 1 .. Len(r.name) PROVE Read8(fl, r.at + j - 1) = r.name[j]
  <2>1. r.at + j - 1 \in Addr
    <3>1. r.at \in Nat /\ Len(r.name) \in Nat /\ r.at + Len(r.name) < EndOf(r) /\ EndOf(r) \in Nat
      BY RecordInside
    <3>2. QED
      BY <1>1, <3>1 DEF Addr
  <2>2. QED
    BY <2>1 DEF Read8, Holds, Named
<1>5. ASSUME IsFile(fl, r.at, n) PROVE r.name = n /\ Live(fl, r)
  <2>1. Len(n) = Len(r.name)
    BY <1>2, <1>3, <1>5 DEF IsFile
  <2>2. \A j \in 1 .. Len(n) : r.name[j] = n[j]
    BY <1>3, <1>4, <1>5, <2>1 DEF IsFile
  <2>3. r.name = n
    BY <1>1, <2>1, <2>2
  <2>4. QED
    BY <1>2, <1>3, <1>5, <2>3 DEF IsFile, Live
<1>6. ASSUME r.name = n, Live(fl, r) PROVE IsFile(fl, r.at, n)
  BY <1>2, <1>3, <1>4, <1>6 DEF IsFile, Live
<1>7. QED
  BY <1>5, <1>6

-----------------------------------------------------------------------------
(* The function that defines a search exists: the places it visits. *)
LEMMA ScanPlaces ==
  ASSUME NEW fl, NEW n
  PROVE  \E p : /\ p = [k \in 0 .. MaxSize \div AlignTo |->
                          IF k = 0 THEN 0 ELSE ScanStep(fl, p[k - 1], n)]
                /\ Scan(fl, n) = p[MaxSize \div AlignTo]
<1> DEFINE K == MaxSize \div AlignTo
           F(p, k) == [j \in 0 .. k |-> IF j = 0 THEN 0 ELSE ScanStep(fl, p[j - 1], n)]
           bad == {k \in 0 .. K : ~ \E p : p = F(p, k)}
<1>1. K \in Nat
  <2>1. MaxSize \in Nat
    BY ConstantFacts
  <2>2. QED
    BY <2>1 DEF AlignTo
<1> HIDE DEF K
<1>2. ASSUME bad # {} PROVE FALSE
  <2>1. bad \in SUBSET Nat
    BY <1>1
  <2>2. PICK m \in bad : \A k \in bad : m <= k
    BY <1>2, <2>1, LeastExists
  <2>3. m \in 0 .. K /\ ~ \E p : p = F(p, m)
    OBVIOUS
  <2>4. CASE m = 0
    <3>1. [j \in 0 .. 0 |-> 0] = F([j \in 0 .. 0 |-> 0], 0)
      OBVIOUS
    <3>2. QED
      BY <2>3, <2>4, <3>1
  <2>5. CASE m # 0
    <3>1. m - 1 \in 0 .. K /\ m - 1 < m /\ m \in Nat
      BY <1>1, <2>3, <2>5
    <3>2. m - 1 \notin bad
      <4>1. ~(m <= m - 1)
        BY <3>1
      <4>2. QED
        BY <2>2, <4>1
    <3>3. PICK p : p = F(p, m - 1)
      BY <3>1, <3>2
    <3>4. PICK g : g = [j \in 0 .. m |-> IF j = m THEN ScanStep(fl, p[m - 1], n) ELSE p[j]]
      OBVIOUS
    <3>5. ASSUME NEW j \in 0 .. m
          PROVE  g[j] = IF j = 0 THEN 0 ELSE ScanStep(fl, g[j - 1], n)
      <4>1. CASE j = m
        <5>1. m - 1 \in 0 .. m /\ m - 1 # m
          BY <3>1
        <5>2. g[m - 1] = p[m - 1] /\ g[m] = ScanStep(fl, p[m - 1], n)
          BY <3>1, <3>4, <5>1
        <5>3. QED
          BY <2>5, <4>1, <5>2
      <4>2. CASE j # m
        <5>1. j \in 0 .. m - 1
          BY <3>1, <4>2
        <5>2. g[j] = p[j]
          BY <3>4, <4>2
        <5>3. p[j] = IF j = 0 THEN 0 ELSE ScanStep(fl, p[j - 1], n)
          BY <3>3, <5>1
        <5>4. CASE j = 0
          BY <5>2, <5>3, <5>4
        <5>5. CASE j # 0
          <6>1. j - 1 \in 0 .. m /\ j - 1 # m
            BY <3>1, <5>1, <5>5
          <6>2. g[j - 1] = p[j - 1]
            BY <3>4, <6>1
          <6>3. QED
            BY <5>2, <5>3, <5>5, <6>2
        <5>6. QED
          BY <5>4, <5>5
      <4>3. QED
        BY <4>1, <4>2
    <3>6. g = F(g, m)
      BY <3>4, <3>5
    <3>7. QED
      BY <2>3, <3>6
  <2>6. QED
    BY <2>4, <2>5
<1>3. \E p : p = F(p, K)
  <2>1. K \in 0 .. K
    BY <1>1
  <2>2. QED
    BY <1>2, <2>1
<1> DEFINE q == CHOOSE p : p = F(p, K)
<1>4. q = F(q, K)
  BY <1>3
<1>5. Scan(fl, n) = q[K]
  BY DEF Scan, K
<1>6. QED
  BY <1>4, <1>5 DEF K

(* A search does not leave a set of places that its steps do not leave. *)
LEMMA ScanStays ==
  ASSUME NEW fl, NEW n, NEW S, 0 \in S, \A i \in S : ScanStep(fl, i, n) \in S
  PROVE  Scan(fl, n) \in S
<1>1. PICK K \in Nat : K = MaxSize \div AlignTo
  <2>1. MaxSize \in Nat
    BY ConstantFacts
  <2>2. QED
    BY <2>1 DEF AlignTo
<1>2. PICK p : /\ p = [k \in 0 .. K |-> IF k = 0 THEN 0 ELSE ScanStep(fl, p[k - 1], n)]
               /\ Scan(fl, n) = p[K]
  BY <1>1, ScanPlaces
<1> DEFINE bad == {k \in 0 .. K : p[k] \notin S}
<1>3. ASSUME bad # {} PROVE FALSE
  <2>1. bad \in SUBSET Nat
    OBVIOUS
  <2>2. PICK m \in bad : \A k \in bad : m <= k
    BY <1>3, <2>1, LeastExists
  <2>3. m \in 0 .. K /\ p[m] \notin S /\ m \in Nat
    OBVIOUS
  <2>4. p[m] = IF m = 0 THEN 0 ELSE ScanStep(fl, p[m - 1], n)
    BY <1>2, <2>3
  <2>5. m # 0
    BY <2>3, <2>4
  <2>6. m - 1 \in 0 .. K /\ ~(m <= m - 1)
    BY <2>3, <2>5
  <2>7. p[m - 1] \in S
    BY <2>2, <2>6
  <2>8. QED
    BY <2>3, <2>4, <2>5, <2>7
<1>4. K \in 0 .. K
  OBVIOUS
<1>5. QED
  BY <1>2, <1>3, <1>4

(* A search that goes upwards through the places in A, which are multiples  *)
(* of four apart, comes to the place where it stops.                        *)
LEMMA ScanArrives ==
  ASSUME NEW fl, NEW n, NEW A \in SUBSET Nat, NEW stop \in Nat, stop < MaxSize,
         0 \in A \cup {stop}, 0 <= stop, ScanStep(fl, stop, n) = stop,
         \A i \in A : i < stop =>
           /\ ScanStep(fl, i, n) \in A \cup {stop}
           /\ i + 4 <= ScanStep(fl, i, n) /\ ScanStep(fl, i, n) <= stop
  PROVE  Scan(fl, n) = stop
<1>1. PICK K \in Nat : K = MaxSize \div AlignTo /\ MaxSize = 4 * K
  <2>1. MaxSize \in Nat /\ MaxSize % 4 = 0
    BY ConstantFacts
  <2>2. MaxSize \div 4 \in Nat /\ MaxSize = 4 * (MaxSize \div 4)
    BY <2>1
  <2>3. QED
    BY <2>2 DEF AlignTo
<1>2. PICK p : /\ p = [k \in 0 .. K |-> IF k = 0 THEN 0 ELSE ScanStep(fl, p[k - 1], n)]
               /\ Scan(fl, n) = p[K]
  BY <1>1, ScanPlaces
<1> DEFINE On(k) == p[k] = stop \/ (p[k] \in A /\ p[k] < stop /\ 4 * k <= p[k])
           bad == {k \in 0 .. K : ~On(k)}
<1>3. ASSUME bad # {} PROVE FALSE
  <2>1. bad \in SUBSET Nat
    OBVIOUS
  <2>2. PICK m \in bad : \A k \in bad : m <= k
    BY <1>3, <2>1, LeastExists
  <2>3. m \in 0 .. K /\ ~On(m) /\ m \in Nat
    OBVIOUS
  <2>4. p[m] = IF m = 0 THEN 0 ELSE ScanStep(fl, p[m - 1], n)
    BY <1>2, <2>3
  <2>5. CASE m = 0
    <3>1. p[0] = 0
      BY <2>4, <2>5
    <3>2. On(0)
      BY <3>1
    <3>3. QED
      BY <2>3, <2>5, <3>2
  <2>6. CASE m # 0
    <3>1. m - 1 \in 0 .. K /\ ~(m <= m - 1)
      BY <2>3, <2>6
    <3>2. On(m - 1)
      BY <2>2, <3>1
    <3>3. p[m] = ScanStep(fl, p[m - 1], n)
      BY <2>4, <2>6
    <3>4. CASE p[m - 1] = stop
      BY <2>3, <3>3, <3>4
    <3>5. CASE p[m - 1] # stop
      <4>1. PICK i \in A : i = p[m - 1] /\ i < stop /\ 4 * (m - 1) <= i
        BY <3>2, <3>5
      <4>2. PICK j : j = ScanStep(fl, i, n)
        OBVIOUS
      <4>3. j \in A \cup {stop} /\ i + 4 <= j /\ j <= stop
        BY <4>1, <4>2
      <4>4. j \in Nat /\ i \in Nat
        BY <4>3
      <4>5. 4 * m <= j /\ (j = stop \/ j < stop)
        BY <2>3, <4>1, <4>3, <4>4
      <4>6. p[m] = j
        BY <3>3, <4>1, <4>2
      <4>7. QED
        BY <2>3, <4>3, <4>5, <4>6
    <3>6. QED
      BY <3>4, <3>5
  <2>7. QED
    BY <2>5, <2>6
<1>4. On(K)
  <2>1. K \in 0 .. K
    OBVIOUS
  <2>2. QED
    BY <1>3, <2>1
<1>5. p[K] = stop
  <2>1. CASE p[K] # stop
    <3>1. PICK i \in A : i = p[K] /\ i < stop /\ 4 * K <= i
      BY <1>4, <2>1
    <3>2. i \in Nat /\ MaxSize \in Nat
      BY ConstantFacts
    <3>3. QED
      BY <1>1, <3>1, <3>2
  <2>2. QED
    BY <2>1
<1>6. QED
  BY <1>2, <1>5

-----------------------------------------------------------------------------
(* The search stays at the record it looks for and steps over another one. *)
LEMMA StepOver ==
  ASSUME NEW fl, NEW r \in Records, Holds(fl, r), EndOf(r) < MaxSize,
         NEW n \in Sought
  PROVE  ScanStep(fl, r.at, n) = IF r.name = n /\ Live(fl, r) THEN r.at ELSE EndOf(r)
<1>1. MaxSize \in Nat /\ EndOf(r) \in Nat
  BY ConstantFacts, RecordParts
<1>2. EndOf(r) <= MaxSize /\ EndOf(r) \in Addr
  BY <1>1 DEF Addr
<1>3. r.at \in Addr /\ Read8(fl, r.at) # Erased /\ NextRecord(fl, r.at) = EndOf(r)
  BY <1>2, Parsed
<1>4. r.at # Outside
  BY <1>1, <1>3 DEF Addr, Outside
<1>5. IsFile(fl, r.at, n) <=> r.name = n /\ Live(fl, r)
  BY <1>2, FileIs
<1>6. QED
  BY <1>2, <1>3, <1>4, <1>5 DEF ScanStep

(* The records of a list are records inside the area. *)
LEMMA ChainFacts ==
  ASSUME NEW R, NEW e, IsChain(R, e), NEW r \in R
  PROVE  /\ r \in Records /\ EndOf(r) <= e /\ EndOf(r) < MaxSize /\ EndOf(r) <= MaxSize
         /\ e \in Nat /\ e < MaxSize
<1>1. r \in Records /\ EndOf(r) <= e /\ e \in Nat /\ e <= MaxSize - 4
  BY DEF IsChain, AlignTo
<1>2. EndOf(r) \in Nat /\ MaxSize \in Nat
  BY <1>1, RecordParts, ConstantFacts
<1>3. QED
  BY <1>1, <1>2

(* Their names are short. *)
LEMMA NamesInList ==
  ASSUME NEW fl, NEW R, NEW e, IsChain(R, e), NEW n, NEW q, IsTheFile(fl, R, n, q)
  PROVE  n \in ShortNames /\ n \in Sought
BY DEF IsChain, IsTheFile, Records, ShortNames

(* A search through the list comes to the first place it stops at. *)
LEMMA SearchStops ==
  ASSUME NEW fl, NEW R, NEW e, IsChain(R, e), \A r \in R : Holds(fl, r),
         NEW n \in Sought, NEW stop \in {r.at : r \in R} \cup {e},
         ScanStep(fl, stop, n) = stop,
         \A r \in R : r.at < stop => ~(r.name = n /\ Live(fl, r))
  PROVE  Scan(fl, n) = stop
<1> DEFINE A == {r.at : r \in R} \cup {e}
<1>1. e \in Nat /\ e < MaxSize
  <2>1. e \in Nat /\ e <= MaxSize - 4 /\ MaxSize \in Nat
    BY ConstantFacts DEF IsChain, AlignTo
  <2>2. QED
    BY <2>1
<1>2. ASSUME NEW r \in R
      PROVE  /\ r \in Records /\ r.at \in Nat /\ EndOf(r) \in Nat /\ r.at + 10 <= EndOf(r)
             /\ EndOf(r) <= e /\ EndOf(r) < MaxSize
  BY ChainFacts, RecordParts
<1>3. A \in SUBSET Nat
  BY <1>1, <1>2
<1>4. 0 \in A
  BY DEF IsChain
<1>5. stop \in Nat /\ stop < MaxSize
  <2>1. CASE stop = e
    BY <1>1, <2>1
  <2>2. ASSUME NEW r \in R, stop = r.at PROVE stop \in Nat /\ stop < MaxSize
    <3>1. MaxSize \in Nat
      BY ConstantFacts
    <3>2. QED
      BY <1>2, <2>2, <3>1
  <2>3. QED
    BY <2>1, <2>2
<1>6. ASSUME NEW i \in A, i < stop
      PROVE  /\ ScanStep(fl, i, n) \in A
             /\ i + 4 <= ScanStep(fl, i, n) /\ ScanStep(fl, i, n) <= stop
  <2>1. PICK r \in R : i = r.at
    <3>1. CASE i = e
      <4>1. \A r \in R : r.at <= e
        BY <1>1, <1>2
      <4>2. stop <= e
        BY <1>1, <4>1
      <4>3. QED
        BY <1>1, <1>5, <1>6, <3>1, <4>2
    <3>2. QED
      BY <3>1
  <2>2. r.name # n \/ ~Live(fl, r)
    BY <1>6, <2>1
  <2>3. Holds(fl, r) /\ r \in Records /\ EndOf(r) < MaxSize
    BY <1>2
  <2>4. ScanStep(fl, i, n) = EndOf(r)
    BY <2>1, <2>2, <2>3, StepOver
  <2>5. EndOf(r) \in A
    BY DEF IsChain
  <2>6. EndOf(r) <= stop
    <3>1. CASE stop = e
      BY <1>2, <3>1
    <3>2. ASSUME NEW q \in R, stop = q.at PROVE EndOf(r) <= stop
      BY <1>6, <2>1, <3>2 DEF IsChain
    <3>3. QED
      BY <3>1, <3>2
  <2>7. i + 4 <= EndOf(r)
    <3>1. r.at \in Nat /\ EndOf(r) \in Nat /\ r.at + 10 <= EndOf(r)
      BY <1>2
    <3>2. QED
      BY <2>1, <3>1
  <2>8. QED
    BY <2>4, <2>5, <2>6, <2>7
<1>7. \A i \in A : i < stop => /\ ScanStep(fl, i, n) \in A \cup {stop}
                               /\ i + 4 <= ScanStep(fl, i, n) /\ ScanStep(fl, i, n) <= stop
  BY <1>6
<1>8. 0 <= stop /\ 0 \in A \cup {stop}
  BY <1>4, <1>5
<1> HIDE DEF A
<1>9. QED
  BY <1>3, <1>5, <1>7, <1>8, ScanArrives

(* romfs_open_file finds a file that is there, ... *)
LEMMA SearchFinds ==
  ASSUME NEW fl, NEW R, NEW e, IsChain(R, e), \A r \in R : Holds(fl, r),
         NEW n \in Sought, NEW q, IsTheFile(fl, R, n, q)
  PROVE  romfs_open_file(fl, n) = [res |-> "ok", at |-> q.at]
<1>1. q \in R /\ q.name = n /\ Live(fl, q)
  BY DEF IsTheFile
<1>2. q \in Records /\ EndOf(q) < MaxSize /\ EndOf(q) <= MaxSize /\ Holds(fl, q)
  BY <1>1, ChainFacts
<1>3. ScanStep(fl, q.at, n) = q.at
  BY <1>1, <1>2, StepOver
<1>4. ASSUME NEW r \in R, r.at < q.at PROVE ~(r.name = n /\ Live(fl, r))
  <2>1. r.at \in Nat /\ q.at \in Nat
    BY <1>2, ChainFacts, RecordParts
  <2>2. r # q
    BY <1>4, <2>1
  <2>3. QED
    BY <2>2 DEF IsTheFile
<1>5. PICK stop \in {r.at : r \in R} \cup {e} : stop = q.at
  BY <1>1
<1>6. Scan(fl, n) = q.at
  <2>1. ScanStep(fl, stop, n) = stop
    BY <1>3, <1>5
  <2>2. \A r \in R : r.at < stop => ~(r.name = n /\ Live(fl, r))
    BY <1>4, <1>5
  <2>3. QED
    BY <1>5, <2>1, <2>2, SearchStops
<1>7. q.at \in Addr /\ Read8(fl, q.at) # Erased
  BY <1>2, Parsed
<1>8. IsFile(fl, q.at, n)
  BY <1>1, <1>2, FileIs
<1>9. q.at # Outside
  <2>1. MaxSize \in Nat
    BY ConstantFacts
  <2>2. QED
    BY <1>7, <2>1 DEF Addr, Outside
<1>10. QED
  BY <1>6, <1>7, <1>8, <1>9 DEF romfs_open_file

(* ... and for one that is not, the place of the next record. *)
LEMMA SearchMisses ==
  ASSUME NEW fl, NEW R, NEW e, IsChain(R, e), \A r \in R : Holds(fl, r),
         NEW n \in Sought, NotThere(fl, R, n), fl[e] = Erased
  PROVE  romfs_open_file(fl, n) = [res |-> "not_found", at |-> e]
<1>1. e \in Nat /\ e \in Addr /\ e # Outside
  <2>1. e \in Nat /\ e <= MaxSize - 4 /\ MaxSize \in Nat
    BY ConstantFacts DEF IsChain, AlignTo
  <2>2. QED
    BY <2>1 DEF Addr, Outside
<1>2. Read8(fl, e) = Erased
  BY <1>1 DEF Read8
<1>3. ScanStep(fl, e, n) = e
  BY <1>2 DEF ScanStep
<1>4. \A r \in R : r.at < e => ~(r.name = n /\ Live(fl, r))
  BY DEF NotThere
<1>5. PICK stop \in {r.at : r \in R} \cup {e} : stop = e
  OBVIOUS
<1>6. Scan(fl, n) = e
  BY <1>3, <1>4, <1>5, SearchStops
<1>7. QED
  BY <1>1, <1>2, <1>6 DEF romfs_open_file

(* No record has the name the code looks for the end with. *)
LEMMA EndIsFound ==
  ASSUME NEW fl, NEW R, NEW e, IsChain(R, e), \A r \in R : Holds(fl, r), fl[e] = Erased
  PROVE  FirstFree(fl) = [res |-> "not_found", at |-> e]
<1>1. \A r \in R : r.name # <<1>>
  <2>1. \A r \in R : r.name \in Names
    BY DEF IsChain, Records, ShortNames
  <2>2. <<1>> \notin Names
    BY ConstantFacts
  <2>3. QED
    BY <2>1, <2>2
<1>2. NotThere(fl, R, <<1>>)
  BY <1>1 DEF NotThere
<1>3. PICK n \in Sought : n = <<1>>
  <2>1. PICK S : S = 1 .. 254
    OBVIOUS
  <2>2. 1 \in S
    BY <2>1
  <2>3. <<1>> \in Seq(S)
    BY <2>2
  <2>4. Len(<<1>>) = 1 /\ 1 <= NameLength
    BY ConstantFacts
  <2>5. QED
    BY <2>1, <2>3, <2>4 DEF Sought
<1>4. NotThere(fl, R, n)
  BY <1>2, <1>3
<1>5. romfs_open_file(fl, n) = [res |-> "not_found", at |-> e]
  BY <1>4, SearchMisses
<1>6. QED
  BY <1>3, <1>5 DEF FirstFree

-----------------------------------------------------------------------------
(* The size field. *)
LEMMA SizeIsInt ==
  ASSUME NEW fl \in [Addr -> Byte], NEW a \in Int
  PROVE  SizeAt(fl, a) \in Int
<1>1. \A x : Read8(fl, x) \in Int
  BY DEF Read8, Byte, Erased
<1>2. PICK b0 \in Int, b1 \in Int, b2 \in Int, b3 \in Int :
        b0 = Read8(fl, a) /\ b1 = Read8(fl, a + 1) /\ b2 = Read8(fl, a + 2) /\ b3 = Read8(fl, a + 3)
  BY <1>1
<1>3. SizeAt(fl, a) = b0 + b1 * 256 + b2 * 65536 + (IF b3 >= 128 THEN b3 - 256 ELSE b3) * 16777216
  BY <1>2, SMT DEF SizeAt
<1>4. QED
  BY <1>3, SMT

(* The four bytes that romfs_close_r writes are read as the size again. *)
LEMMA SizeWritten ==
  ASSUME NEW fl, NEW a \in Nat, a + 3 < MaxSize, NEW k \in Nat, k <= TopSize,
         \A j \in 1 .. 4 : fl[a + j - 1] = SizeBytes(k)[j]
  PROVE  SizeAt(fl, a) = k
<1>1. a \in Addr /\ a + 1 \in Addr /\ a + 2 \in Addr /\ a + 3 \in Addr
  <2>1. MaxSize \in Nat
    BY ConstantFacts
  <2>2. QED
    BY <2>1 DEF Addr
<1>2. /\ fl[a] = SizeBytes(k)[1] /\ fl[a + 1] = SizeBytes(k)[2]
      /\ fl[a + 2] = SizeBytes(k)[3] /\ fl[a + 3] = SizeBytes(k)[4]
  <2>1. a + 1 - 1 = a /\ a + 2 - 1 = a + 1 /\ a + 3 - 1 = a + 2 /\ a + 4 - 1 = a + 3
    OBVIOUS
  <2>2. 1 \in 1 .. 4 /\ 2 \in 1 .. 4 /\ 3 \in 1 .. 4 /\ 4 \in 1 .. 4
    OBVIOUS
  <2>3. QED
    BY <2>1, <2>2
<1>3. /\ Read8(fl, a) = k % 256 /\ Read8(fl, a + 1) = (k \div 256) % 256
      /\ Read8(fl, a + 2) = (k \div 65536) % 256 /\ Read8(fl, a + 3) = k \div 16777216
  BY <1>1, <1>2, SMT DEF Read8, SizeBytes
<1>4. k \div 16777216 \in 0 .. 127
  BY SMT DEF TopSize
<1>5. (k % 256) + ((k \div 256) % 256) * 256 + ((k \div 65536) % 256) * 65536
        + (k \div 16777216) * 16777216 = k
  BY SMT
<1>6. PICK top \in 0 .. 127 : top = k \div 16777216
  BY <1>4, SMT
<1>7. SizeAt(fl, a) = (k % 256) + ((k \div 256) % 256) * 256 + ((k \div 65536) % 256) * 65536
        + (IF top >= 128 THEN top - 256 ELSE top) * 16777216
  BY <1>3, <1>6, SMT DEF SizeAt
<1>8. QED
  BY <1>5, <1>6, <1>7, SMT

(* They are bytes. *)
LEMMA SizeBytesType ==
  ASSUME NEW k \in Nat, k <= TopSize
  PROVE  SizeBytes(k) \in Seq(Byte) /\ Len(SizeBytes(k)) = 4
<1>1. /\ k % 256 \in 0 .. 255 /\ (k \div 256) % 256 \in 0 .. 255
      /\ (k \div 65536) % 256 \in 0 .. 255 /\ k \div 16777216 \in 0 .. 255
  BY SMT DEF TopSize
<1>2. PICK a \in Byte, b \in Byte, c \in Byte, d \in Byte : SizeBytes(k) = <<a, b, c, d>>
  <2>1. PICK a \in Byte : a = k % 256
    BY <1>1, SMT DEF Byte
  <2>2. PICK b \in Byte : b = (k \div 256) % 256
    BY <1>1, SMT DEF Byte
  <2>3. PICK c \in Byte : c = (k \div 65536) % 256
    BY <1>1, SMT DEF Byte
  <2>4. PICK d \in Byte : d = k \div 16777216
    BY <1>1, SMT DEF Byte
  <2>5. SizeBytes(k) = <<a, b, c, d>>
    BY <2>1, <2>2, <2>3, <2>4, SMT DEF SizeBytes
  <2>6. QED
    BY <2>5
<1>3. <<a, b, c, d>> \in Seq(Byte) /\ Len(<<a, b, c, d>>) = 4
  OBVIOUS
<1>4. QED
  BY <1>2, <1>3

(* What the search reads at any place are numbers. *)
LEMMA PlacesAreInts ==
  ASSUME NEW fl \in [Addr -> Byte], NEW i \in Int
  PROVE  DelAddr(fl, i) \in Int /\ DataAddr(fl, i) \in Int /\ RecordSize(fl, i) \in Int
<1> DEFINE zeros == {j \in 0 .. NameLength - 1 : Read8(fl, i + j) = 0}
<1>1. NameLength \in Nat
  BY ConstantFacts
<1>2. zeros \in SUBSET Nat
  BY <1>1
<1>3. NameLen(fl, i) = IF zeros = {} THEN NameLength
                       ELSE CHOOSE j \in zeros : \A k \in zeros : j <= k
  BY DEF NameLen
<1> HIDE DEF zeros
<1>4. zeros # {} => NameLen(fl, i) \in zeros
  BY <1>2, <1>3, LeastExists
<1>5. NameLen(fl, i) \in Nat
  BY <1>1, <1>2, <1>3, <1>4
<1>6. DelAddr(fl, i) \in Int
  <2>1. i + NameLen(fl, i) + 1 \in Int
    BY <1>5
  <2>2. QED
    BY <2>1, Rounded DEF DelAddr
<1>7. DelAddr(fl, i) + AlignTo \in Int
  BY <1>6 DEF AlignTo
<1>8. QED
  BY <1>6, <1>7, SizeIsInt DEF DataAddr, RecordSize, AlignTo

(* A place the search stops at is outside or a multiple of four. *)
LEMMA ScanAligned ==
  ASSUME NEW fl \in [Addr -> Byte], NEW n
  PROVE  \/ Scan(fl, n) = Outside
         \/ Scan(fl, n) \in Addr /\ Scan(fl, n) % AlignTo = 0
<1> DEFINE S == {Outside} \cup {a \in Addr : a % AlignTo = 0}
<1>1. MaxSize \in Nat /\ 4 <= MaxSize /\ NameLength \in Nat
  BY ConstantFacts
<1>2. 0 \in S
  BY <1>1 DEF Addr, AlignTo
<1>3. ASSUME NEW i \in S PROVE ScanStep(fl, i, n) \in S
  <2>1. CASE ScanStep(fl, i, n) = i
    BY <2>1
  <2>2. CASE ScanStep(fl, i, n) = Outside
    BY <2>2
  <2>3. CASE ScanStep(fl, i, n) \notin {i, Outside}
    <3>1. ScanStep(fl, i, n) = NextRecord(fl, i) /\ NextRecord(fl, i) \in Addr
      BY <2>3 DEF ScanStep
    <3>2. i \in Int
      BY <1>1 DEF Addr, Outside
    <3>3. DataAddr(fl, i) \in Int /\ RecordSize(fl, i) \in Int
      BY <3>2, PlacesAreInts
    <3>4. DataAddr(fl, i) + RecordSize(fl, i) \in Int
      BY <3>3
    <3>5. NextRecord(fl, i) % AlignTo = 0
      BY <3>4, Rounded DEF NextRecord
    <3>6. QED
      BY <3>1, <3>5
  <2>4. QED
    BY <2>1, <2>2, <2>3
<1>4. \A i \in S : ScanStep(fl, i, n) \in S
  BY <1>3
<1> HIDE DEF S
<1>5. Scan(fl, n) \in S
  BY <1>2, <1>4, ScanStays
<1>6. QED
  BY <1>5 DEF S

(* So is the place of what romfs_open_file finds. *)
LEMMA FoundAligned ==
  ASSUME NEW fl \in [Addr -> Byte], NEW n, romfs_open_file(fl, n).res \in {"ok", "not_found"}
  PROVE  /\ romfs_open_file(fl, n).at \in Addr
         /\ romfs_open_file(fl, n).at % AlignTo = 0
<1>1. romfs_open_file(fl, n).at = Scan(fl, n)
  BY DEF romfs_open_file
<1>2. Scan(fl, n) # Outside
  BY DEF romfs_open_file
<1>3. QED
  BY <1>1, <1>2, ScanAligned

-----------------------------------------------------------------------------
(* What a write to the flash changes. *)
LEMMA PutType ==
  ASSUME NEW fl \in [Addr -> Byte], NEW a, NEW s \in Seq(Byte)
  PROVE  Put(fl, a, s) \in [Addr -> Byte]
<1>1. ASSUME NEW x \in Addr
      PROVE  (IF x - a + 1 \in DOMAIN s THEN s[x - a + 1] ELSE fl[x]) \in Byte
  <2>1. ASSUME NEW i \in DOMAIN s PROVE s[i] \in Byte
    BY ElementIn
  <2>2. QED
    BY <2>1
<1>2. QED
  BY <1>1 DEF Put

(* ... nothing elsewhere, ... *)
LEMMA PutElsewhere ==
  ASSUME NEW fl, NEW a \in Int, NEW s \in Seq(Byte), NEW x \in Addr,
         x < a \/ a + Len(s) <= x
  PROVE  Put(fl, a, s)[x] = fl[x]
<1>1. DOMAIN s = 1 .. Len(s) /\ Len(s) \in Nat
  OBVIOUS
<1>2. x \in Int
  <2>1. MaxSize \in Nat
    BY ConstantFacts
  <2>2. QED
    BY <2>1 DEF Addr
<1>3. x - a + 1 \notin DOMAIN s
  BY <1>1, <1>2
<1>4. QED
  BY <1>3 DEF Put

(* ... and there the bytes written. *)
LEMMA PutThere ==
  ASSUME NEW fl, NEW a \in Nat, NEW s \in Seq(Byte), NEW j \in 1 .. Len(s), a + j - 1 < MaxSize
  PROVE  Put(fl, a, s)[a + j - 1] = s[j]
<1>1. DOMAIN s = 1 .. Len(s) /\ Len(s) \in Nat /\ MaxSize \in Nat
  BY ConstantFacts
<1>2. a + j - 1 \in Addr /\ (a + j - 1) - a + 1 = j
  BY <1>1 DEF Addr
<1>3. QED
  BY <1>1, <1>2 DEF Put

(* So all of them are there. *)
LEMMA PutAll ==
  ASSUME NEW fl, NEW a \in Nat, NEW s \in Seq(Byte), a + Len(s) <= MaxSize
  PROVE  HasData(Put(fl, a, s), a, s)
<1>1. ASSUME NEW j \in 1 .. Len(s) PROVE Put(fl, a, s)[a + j - 1] = s[j]
  <2>1. a + j - 1 < MaxSize
    BY ConstantFacts
  <2>2. QED
    BY <2>1, PutThere
<1>2. QED
  BY <1>1 DEF HasData

(* A record stays what it is when only its deleted field changes. *)
LEMMA HoldsFrame ==
  ASSUME NEW fl, NEW g, NEW r \in Records, EndOf(r) <= MaxSize, Holds(fl, r),
         \A x \in Addr : r.at <= x /\ x < EndOf(r) /\ x # DelOf(r) => g[x] = fl[x],
         g[DelOf(r)] \in {Erased, Deleted}
  PROVE  Holds(g, r)
<1> DEFINE n == r.name  s == r.data  D == DelOf(r)  B == BaseOf(r)  E == EndOf(r)  a == r.at
<1>1. /\ a \in Nat /\ Len(n) \in Nat /\ Len(s) \in Nat /\ D \in Nat /\ B \in Nat /\ E \in Nat
      /\ a + Len(n) + 1 <= D /\ B = D + 8 /\ B + Len(s) <= E
  BY RecordParts
<1>2. MaxSize \in Nat
  BY ConstantFacts
<1>3. \A x \in Nat : a <= x /\ x < E /\ x # D => x \in Addr /\ g[x] = fl[x]
  BY <1>1, <1>2 DEF Addr
<1>4. /\ \A j \in 1 .. Len(n) : fl[a + j - 1] = n[j]
      /\ fl[a + Len(n)] = 0
      /\ SizeAt(fl, D + AlignTo) = Len(s)
      /\ \A j \in 1 .. Len(s) : fl[B + j - 1] = s[j]
  BY DEF Holds, Named, HasData
<1> HIDE DEF n, s, D, B, E, a
<1>5. ASSUME NEW j \in 1 .. Len(n) PROVE g[a + j - 1] = n[j]
  <2>1. a + j - 1 \in Nat /\ a <= a + j - 1 /\ a + j - 1 < E /\ a + j - 1 # D
    BY <1>1
  <2>2. QED
    BY <1>3, <1>4, <2>1
<1>6. g[a + Len(n)] = 0
  <2>1. a + Len(n) \in Nat /\ a <= a + Len(n) /\ a + Len(n) < E /\ a + Len(n) # D
    BY <1>1
  <2>2. QED
    BY <1>3, <1>4, <2>1
<1>7. ASSUME NEW j \in 1 .. Len(s) PROVE g[B + j - 1] = s[j]
  <2>1. B + j - 1 \in Nat /\ a <= B + j - 1 /\ B + j - 1 < E /\ B + j - 1 # D
    BY <1>1
  <2>2. QED
    BY <1>3, <1>4, <2>1
<1>8. SizeAt(g, D + AlignTo) = SizeAt(fl, D + AlignTo)
  <2>1. ASSUME NEW i \in 4 .. 7 PROVE Read8(g, D + i) = Read8(fl, D + i)
    <3>1. D + i \in Nat /\ a <= D + i /\ D + i < E /\ D + i # D
      BY <1>1
    <3>2. QED
      BY <1>3, <3>1 DEF Read8
  <2>2. PICK c \in Nat : c = D + 4
    BY <1>1
  <2>3. /\ Read8(g, c) = Read8(fl, c) /\ Read8(g, c + 1) = Read8(fl, c + 1)
        /\ Read8(g, c + 2) = Read8(fl, c + 2) /\ Read8(g, c + 3) = Read8(fl, c + 3)
    <3>1. D + 4 = c /\ D + 5 = c + 1 /\ D + 6 = c + 2 /\ D + 7 = c + 3
      BY <1>1, <2>2
    <3>2. 4 \in 4 .. 7 /\ 5 \in 4 .. 7 /\ 6 \in 4 .. 7 /\ 7 \in 4 .. 7
      OBVIOUS
    <3>3. QED
      BY <2>1, <3>1, <3>2
  <2>4. SizeAt(g, c) = SizeAt(fl, c)
    BY <2>3, SMT DEF SizeAt
  <2>5. QED
    BY <2>2, <2>4 DEF AlignTo
<1>9. Named(g, a, n) /\ HasData(g, B, s) /\ SizeAt(g, D + AlignTo) = Len(s)
  BY <1>4, <1>5, <1>6, <1>7, <1>8 DEF Named, HasData
<1>10. QED
  BY <1>9 DEF Holds, n, s, D, B, a

(* The deleted field of a record in the list. *)
LEMMA DelInside ==
  ASSUME NEW R, NEW e, IsChain(R, e), NEW r \in R
  PROVE  DelOf(r) \in Addr /\ DelOf(r) \in Nat /\ r.at < DelOf(r) /\ DelOf(r) < EndOf(r) /\ DelOf(r) < e
<1>1. r \in Records /\ EndOf(r) <= e /\ EndOf(r) < MaxSize /\ e \in Nat
  BY ChainFacts
<1>2. r.at \in Nat /\ DelOf(r) \in Nat /\ EndOf(r) \in Nat
  BY <1>1, RecordInside
<1>3. MaxSize \in Nat
  BY ConstantFacts
<1>4. r.at < DelOf(r) /\ DelOf(r) < EndOf(r)
  BY <1>1, RecordInside
<1>5. DelOf(r) < e /\ DelOf(r) < MaxSize
  BY <1>1, <1>2, <1>3, <1>4
<1>6. QED
  BY <1>2, <1>3, <1>4, <1>5 DEF Addr

(* Nothing is lost by a change behind the list. *)
LEMMA KeptFrame ==
  ASSUME NEW fl, NEW fi, NEW fd, NEW g, NEW R, NEW e, IsChain(R, e), Kept(fl, fi, fd, R),
         \A x \in Addr : x < e => g[x] = fl[x]
  PROVE  Kept(g, fi, fd, R)
<1>1. ASSUME NEW r \in R PROVE Holds(g, r) /\ (Live(g, r) <=> Live(fl, r))
  <2>1. r \in Records /\ EndOf(r) <= MaxSize /\ EndOf(r) <= e /\ e \in Nat
    BY ChainFacts
  <2>2. EndOf(r) \in Nat /\ MaxSize \in Nat
    BY <2>1, RecordParts, ConstantFacts
  <2>3. g[DelOf(r)] = fl[DelOf(r)]
    BY DelInside
  <2>4. Holds(fl, r)
    BY DEF Kept
  <2>5. fl[DelOf(r)] \in {Erased, Deleted}
    BY <2>4 DEF Holds
  <2>6. ASSUME NEW x \in Addr, x < EndOf(r) PROVE g[x] = fl[x]
    <3>1. x \in Int
      BY <2>2 DEF Addr
    <3>2. x < e
      BY <2>1, <2>2, <2>6, <3>1
    <3>3. QED
      BY <3>2
  <2>7. Holds(g, r)
    BY <2>1, <2>3, <2>4, <2>5, <2>6, HoldsFrame
  <2>8. QED
    BY <2>3, <2>7 DEF Live
<1>2. Stored(fl, fi, R) /\ ReadersKeep(fd, R)
  BY DEF Kept
<1>3. Stored(g, fi, R)
  BY <1>1, <1>2 DEF Stored, IsTheFile, NotThere
<1>4. QED
  BY <1>1, <1>2, <1>3 DEF Kept

(* The flash g is fl without the file n. *)
OnlyGone(fl, g, fi, fd, R, e, n) ==
  /\ Kept(g, [fi EXCEPT ![n] = NoFile], fd, R)
  /\ \A x \in Addr : fl[x] \in {Erased, g[x]}
  /\ \A x \in Addr : e <= x => g[x] = fl[x]

(* A file that is marked deleted is gone, and nothing else is. *)
LEMMA DeletedKept ==
  ASSUME NEW fl \in [Addr -> Byte], NEW fi \in [Names -> Seq(Int)], NEW fd, NEW R, NEW e,
         IsChain(R, e), Kept(fl, fi, fd, R), NEW n \in Names, NEW q, IsTheFile(fl, R, n, q)
  PROVE  OnlyGone(fl, Put(fl, DelOf(q), <<Deleted>>), fi, fd, R, e, n)
<1>1. q \in R /\ q.name = n /\ Live(fl, q) /\ Holds(fl, q)
  BY DEF IsTheFile, Kept
<1>2. DelOf(q) \in Addr /\ DelOf(q) \in Nat /\ q.at < DelOf(q) /\ DelOf(q) < EndOf(q) /\ DelOf(q) < e
  BY <1>1, DelInside
<1>3. PICK s \in Seq(Byte) : s = <<Deleted>> /\ Len(s) = 1 /\ s[1] = Deleted
  <2>1. Deleted \in Byte
    BY DEF Deleted, Byte
  <2>2. <<Deleted>> \in Seq(Byte) /\ Len(<<Deleted>>) = 1
    BY <2>1
  <2>3. QED
    BY <2>2
<1>4. PICK g : g = Put(fl, DelOf(q), <<Deleted>>)
  OBVIOUS
<1>5. ASSUME NEW x \in Addr, x # DelOf(q) PROVE g[x] = fl[x]
  <2>1. x \in Int /\ MaxSize \in Nat
    BY ConstantFacts DEF Addr
  <2>2. x < DelOf(q) \/ DelOf(q) + Len(s) <= x
    BY <1>2, <1>3, <1>5, <2>1
  <2>3. DelOf(q) \in Int
    BY <1>2
  <2>4. QED
    BY <1>3, <1>4, <2>2, <2>3, PutElsewhere
<1>6. g[DelOf(q)] = Deleted
  <2>1. 1 \in 1 .. Len(s) /\ DelOf(q) + 1 - 1 = DelOf(q) /\ MaxSize \in Nat
    BY <1>2, <1>3, ConstantFacts
  <2>2. DelOf(q) + 1 - 1 < MaxSize
    BY <1>2, <2>1 DEF Addr
  <2>3. Put(fl, DelOf(q), s)[DelOf(q) + 1 - 1] = s[1]
    BY <1>2, <2>1, <2>2, PutThere
  <2>4. Put(fl, DelOf(q), s)[DelOf(q)] = s[1]
    BY <2>1, <2>3
  <2>5. QED
    BY <1>3, <1>4, <2>4
<1>7. ASSUME NEW r \in R, r # q PROVE Holds(g, r) /\ (Live(g, r) <=> Live(fl, r))
  <2>1. r \in Records /\ q \in Records /\ EndOf(r) <= MaxSize
    BY <1>1, ChainFacts
  <2>2. r.at \in Nat /\ q.at \in Nat /\ EndOf(r) \in Nat /\ EndOf(q) \in Nat
    BY <2>1, RecordParts
  <2>3. r.at # q.at /\ (r.at < q.at => EndOf(r) <= q.at) /\ (q.at < r.at => EndOf(q) <= r.at)
    BY <1>1, <1>7 DEF IsChain
  <2>4. DelOf(q) < r.at \/ EndOf(r) < DelOf(q)
    BY <1>2, <2>2, <2>3
  <2>5. DelOf(r) \in Addr /\ DelOf(r) \in Nat /\ r.at < DelOf(r) /\ DelOf(r) < EndOf(r)
    BY DelInside
  <2>6. DelOf(r) # DelOf(q)
    BY <1>2, <2>2, <2>4, <2>5
  <2>7. g[DelOf(r)] = fl[DelOf(r)]
    BY <1>5, <2>5, <2>6
  <2>8. Holds(fl, r)
    BY DEF Kept
  <2>9. fl[DelOf(r)] \in {Erased, Deleted}
    BY <2>8 DEF Holds
  <2>10. ASSUME NEW x \in Addr, r.at <= x, x < EndOf(r) PROVE g[x] = fl[x]
    <3>1. x \in Int
      <4>1. MaxSize \in Nat
        BY ConstantFacts
      <4>2. QED
        BY <4>1 DEF Addr
    <3>2. x # DelOf(q)
      BY <1>2, <2>2, <2>4, <2>10, <3>1
    <3>3. QED
      BY <1>5, <3>2
  <2>11. Holds(g, r)
    BY <2>1, <2>7, <2>8, <2>9, <2>10, HoldsFrame
  <2>12. QED
    BY <2>7, <2>11 DEF Live
<1>8. Holds(g, q) /\ ~Live(g, q)
  <2>1. q \in Records /\ EndOf(q) <= MaxSize
    BY <1>1, ChainFacts
  <2>2. \A x \in Addr : q.at <= x /\ x < EndOf(q) /\ x # DelOf(q) => g[x] = fl[x]
    BY <1>5
  <2>3. g[DelOf(q)] \in {Erased, Deleted}
    BY <1>6
  <2>4. Holds(fl, q)
    BY <1>1
  <2>5. Holds(g, q)
    <3>1. ASSUME NEW h,
                 \A x \in Addr : q.at <= x /\ x < EndOf(q) /\ x # DelOf(q) => h[x] = fl[x],
                 h[DelOf(q)] \in {Erased, Deleted}
          PROVE  Holds(h, q)
      BY <2>1, <2>4, <3>1, HoldsFrame
    <3>2. QED
      BY <2>2, <2>3, <3>1
  <2>6. QED
    BY <1>6, <2>5 DEF Live
<1>9. Stored(fl, fi, R) /\ ReadersKeep(fd, R)
  BY DEF Kept
<1>10. PICK hi : hi = [fi EXCEPT ![n] = NoFile]
  OBVIOUS
<1>11. ASSUME NEW m \in Names
       PROVE  IF hi[m] = NoFile THEN NotThere(g, R, m)
              ELSE \E p \in R : IsTheFile(g, R, m, p) /\ p.data = hi[m]
  <2>1. CASE m = n
    <3>1. hi[m] = NoFile
      BY <1>10, <2>1
    <3>2. NotThere(g, R, n)
      BY <1>7, <1>8 DEF NotThere, IsTheFile
    <3>3. QED
      BY <2>1, <3>1, <3>2
  <2>2. CASE m # n
    <3>1. hi[m] = fi[m]
      BY <1>10, <2>2
    <3>2. \A r \in R : r.name = m => (Live(g, r) <=> Live(fl, r))
      BY <1>1, <1>7, <2>2
    <3>3. QED
      BY <1>9, <3>1, <3>2 DEF Stored, NotThere, IsTheFile
  <2>3. QED
    BY <2>1, <2>2
<1>12. Kept(g, hi, fd, R)
  BY <1>7, <1>8, <1>9, <1>11 DEF Kept, Stored
<1>13. \A x \in Addr : fl[x] \in {Erased, g[x]}
  <2>1. fl[DelOf(q)] = Erased
    BY <1>1 DEF Holds, Live
  <2>2. QED
    BY <1>5, <2>1
<1>14. ASSUME NEW x \in Addr, e <= x PROVE g[x] = fl[x]
  <2>1. x \in Int /\ e \in Nat
    <3>1. MaxSize \in Nat
      BY ConstantFacts
    <3>2. QED
      BY <3>1 DEF Addr, IsChain
  <2>2. x # DelOf(q)
    BY <1>2, <1>14, <2>1
  <2>3. QED
    BY <1>5, <2>2
<1>15. QED
  BY <1>4, <1>10, <1>12, <1>13, <1>14 DEF OnlyGone

-----------------------------------------------------------------------------
(* The descriptor table.  An empty descriptor is one of the descriptors. *)
LEMMA NoFdFacts ==
  /\ NoFd \in Descs /\ NoFd.mode = "free"
  /\ NoFd.mode \notin {"w", "a"} /\ NoFd.mode # "r"
<1>1. <<>> \in Seq(Int) /\ -1 \in Int
  OBVIOUS
<1>2. QED
  BY <1>1 DEF NoFd, Descs

(* All of the table is finite. *)
LEMMA FdsFinite ==
  ASSUME NEW S \in SUBSET Fds
  PROVE  /\ IsFiniteSet(S) /\ Cardinality(S) \in Nat
         /\ Cardinality(Fds) = MaxFds
<1>1. MaxFds \in Nat /\ 1 <= MaxFds
  BY ConstantFacts
<1>2. IsFiniteSet(1 .. MaxFds) /\ Cardinality(1 .. MaxFds) = MaxFds
  BY <1>1, FS_Interval
<1>3. IsFiniteSet(S)
  BY <1>2, FS_Subset DEF Fds
<1>4. QED
  BY <1>2, <1>3, FS_CardinalityType DEF Fds

(* romfs_find_empty_fd returns a descriptor that is free. *)
LEMMA FreeFd ==
  ASSUME num_fd < MaxFds, TableOK(fds, num_fd, writing)
  PROVE  romfs_find_empty_fd \in Fds /\ fds[romfs_find_empty_fd] = NoFd
<1>1. Cardinality(Fds) = MaxFds /\ MaxFds \in Nat
  BY FdsFinite, ConstantFacts
<1>2. num_fd = Cardinality(Used(fds))
  BY DEF TableOK
<1>3. FreeFds # {}
  <2>1. SUFFICES ASSUME FreeFds = {} PROVE FALSE
    OBVIOUS
  <2>2. Used(fds) = Fds
    BY <2>1 DEF FreeFds, Used
  <2>3. num_fd = MaxFds
    BY <1>1, <1>2, <2>2
  <2>4. QED
    BY <1>1, <2>3
<1>4. FreeFds \in SUBSET Nat
  BY <1>1 DEF FreeFds, Fds
<1>5. \E m \in FreeFds : \A k \in FreeFds : m <= k
  BY <1>3, <1>4, LeastExists
<1>6. romfs_find_empty_fd \in FreeFds
  BY <1>5 DEF romfs_find_empty_fd
<1>7. QED
  BY <1>6 DEF FreeFds

(* A descriptor is opened, ... *)
LEMMA TableAdd ==
  ASSUME NEW fd \in [Fds -> Descs], NEW n, NEW w \in {"yes", "no"}, TableOK(fd, n, w),
         NEW f \in Fds, fd[f] = NoFd, NEW d \in Descs, NEW v,
         \/ d.mode = "r" /\ v = w
         \/ /\ d.mode \in {"w", "a"} /\ w = "no" /\ v = "yes"
            /\ d.name \in Names /\ d.base \in Nat /\ d.base % AlignTo = 0 /\ d.size \in Nat
            /\ d.base + d.size <= MaxSize - AlignTo
  PROVE  /\ [fd EXCEPT ![f] = d] \in [Fds -> Descs]
         /\ TableOK([fd EXCEPT ![f] = d], n + 1, v)
<1>1. PICK g : g = [fd EXCEPT ![f] = d]
  OBVIOUS
<1>2. g \in [Fds -> Descs] /\ g[f] = d /\ \A h \in Fds : h # f => g[h] = fd[h]
  BY <1>1
<1>3. d.mode # "free" /\ d # NoFd
  BY NoFdFacts
<1>4. Used(g) = Used(fd) \cup {f} /\ f \notin Used(fd)
  BY <1>2, <1>3 DEF Used
<1>5. Cardinality(Used(g)) = n + 1
  <2>1. Used(fd) \in SUBSET Fds
    BY DEF Used
  <2>2. IsFiniteSet(Used(fd))
    BY <2>1, FdsFinite
  <2>3. Cardinality(Used(fd) \cup {f}) = Cardinality(Used(fd)) + 1
    BY <1>4, <2>2, FS_AddElement
  <2>4. QED
    BY <1>4, <2>3 DEF TableOK
<1>6. \A h \in Fds : g[h].mode = "free" => g[h] = NoFd
  BY <1>2, <1>3 DEF TableOK
<1>7. CASE d.mode = "r" /\ v = w
  <2>1. Writers(g) = Writers(fd)
    BY <1>2, <1>7, NoFdFacts DEF Writers
  <2>2. \A h \in Writers(g) : g[h] = fd[h]
    BY <1>2, <1>7 DEF Writers
  <2>3. TableOK(g, n + 1, v)
    BY <1>5, <1>6, <1>7, <2>1, <2>2 DEF TableOK
  <2>4. QED
    BY <1>1, <1>2, <2>3
<1>8. CASE /\ d.mode \in {"w", "a"} /\ w = "no" /\ v = "yes"
           /\ d.name \in Names /\ d.base \in Nat /\ d.base % AlignTo = 0 /\ d.size \in Nat
           /\ d.base + d.size <= MaxSize - AlignTo
  <2>1. Writers(fd) = {}
    BY <1>8 DEF TableOK
  <2>2. Writers(g) = {f}
    BY <1>2, <1>8, <2>1 DEF Writers
  <2>3. TableOK(g, n + 1, v)
    BY <1>2, <1>5, <1>6, <1>8, <2>2 DEF TableOK
  <2>4. QED
    BY <1>1, <1>2, <2>3
<1>9. QED
  BY <1>7, <1>8

(* ... or closed, ... *)
LEMMA TableRemove ==
  ASSUME NEW fd \in [Fds -> Descs], NEW n, NEW w, TableOK(fd, n, w),
         NEW f \in Fds, fd[f] # NoFd
  PROVE  /\ [fd EXCEPT ![f] = NoFd] \in [Fds -> Descs] /\ n - 1 \in Nat
         /\ TableOK([fd EXCEPT ![f] = NoFd], n - 1, IF fd[f].mode = "r" THEN w ELSE "no")
<1>1. PICK g : g = [fd EXCEPT ![f] = NoFd]
  OBVIOUS
<1>2. g \in [Fds -> Descs] /\ g[f] = NoFd /\ \A h \in Fds : h # f => g[h] = fd[h]
  BY <1>1, NoFdFacts
<1>3. fd[f].mode \in {"r", "w", "a"}
  <2>1. fd[f] \in Descs /\ fd[f].mode # "free"
    BY DEF TableOK
  <2>2. QED
    BY <2>1 DEF Descs
<1>4. Used(g) = Used(fd) \ {f} /\ f \in Used(fd)
  BY <1>2 DEF Used
<1>5. Cardinality(Used(g)) = n - 1 /\ n - 1 \in Nat
  <2>1. Used(fd) \in SUBSET Fds /\ Used(g) \in SUBSET Fds
    BY DEF Used
  <2>2. IsFiniteSet(Used(fd)) /\ Cardinality(Used(g)) \in Nat
    BY <2>1, FdsFinite
  <2>3. Cardinality(Used(fd) \ {f}) = Cardinality(Used(fd)) - 1
    BY <1>4, <2>2, FS_RemoveElement
  <2>4. QED
    BY <1>4, <2>2, <2>3 DEF TableOK
<1>6. \A h \in Fds : g[h].mode = "free" => g[h] = NoFd
  BY <1>2 DEF TableOK
<1>7. Writers(g) = Writers(fd) \ {f} /\ \A h \in Writers(g) : g[h] = fd[h]
  BY <1>2, NoFdFacts DEF Writers
<1>8. PICK v : v = IF fd[f].mode = "r" THEN w ELSE "no"
  OBVIOUS
<1>9. IF v = "yes" THEN \E h \in Fds : Writers(g) = {h} ELSE Writers(g) = {}
  <2>1. CASE fd[f].mode = "r"
    <3>1. f \notin Writers(fd)
      BY <2>1 DEF Writers
    <3>2. Writers(g) = Writers(fd) /\ v = w
      BY <1>7, <1>8, <2>1, <3>1
    <3>3. QED
      BY <3>2 DEF TableOK
  <2>2. CASE fd[f].mode # "r"
    <3>1. f \in Writers(fd) /\ v = "no"
      BY <1>3, <1>8, <2>2 DEF Writers
    <3>2. Writers(fd) \subseteq {f}
      <4>1. \E h \in Fds : Writers(fd) = {h}
        BY <3>1 DEF TableOK
      <4>2. QED
        BY <3>1, <4>1
    <3>3. Writers(g) = {}
      BY <1>7, <3>2
    <3>4. QED
      BY <3>1, <3>3
  <2>3. QED
    BY <2>1, <2>2
<1>10. \A h \in Writers(g) : h \in Writers(fd) /\ g[h] = fd[h]
  BY <1>7
<1>11. TableOK(g, n - 1, v)
  BY <1>5, <1>6, <1>9, <1>10 DEF TableOK
<1>12. QED
  BY <1>1, <1>2, <1>5, <1>8, <1>11

(* ... or its offset and size change; ... *)
LEMMA TableChange ==
  ASSUME NEW fd \in [Fds -> Descs], NEW n, NEW w, TableOK(fd, n, w),
         NEW f \in Fds, fd[f].mode # "free", NEW d \in Descs,
         d.mode = fd[f].mode, d.name = fd[f].name, d.base = fd[f].base,
         d.mode \in {"w", "a"} => d.size \in Nat /\ d.base + d.size <= MaxSize - AlignTo
  PROVE  /\ [fd EXCEPT ![f] = d] \in [Fds -> Descs]
         /\ TableOK([fd EXCEPT ![f] = d], n, w)
<1>1. PICK g : g = [fd EXCEPT ![f] = d]
  OBVIOUS
<1>2. g \in [Fds -> Descs] /\ g[f] = d /\ \A h \in Fds : h # f => g[h] = fd[h]
  BY <1>1
<1>3. Used(g) = Used(fd)
  BY <1>2, NoFdFacts DEF Used
<1>4. Writers(g) = Writers(fd)
  BY <1>2 DEF Writers
<1>5. \A h \in Fds : g[h].mode = "free" => g[h] = NoFd
  BY <1>2 DEF TableOK
<1>6. ASSUME NEW h \in Writers(g)
      PROVE  /\ g[h].name \in Names /\ g[h].base \in Nat /\ g[h].base % AlignTo = 0
             /\ g[h].size \in Nat /\ g[h].base + g[h].size <= MaxSize - AlignTo
  <2>1. /\ fd[h].name \in Names /\ fd[h].base \in Nat /\ fd[h].base % AlignTo = 0
        /\ fd[h].size \in Nat /\ fd[h].base + fd[h].size <= MaxSize - AlignTo
        /\ h \in Fds /\ fd[h].mode \in {"w", "a"}
    BY <1>4 DEF TableOK, Writers
  <2>2. CASE h = f
    BY <1>2, <2>1, <2>2
  <2>3. CASE h # f
    BY <1>2, <2>1, <2>3
  <2>4. QED
    BY <2>2, <2>3
<1>7. TableOK(g, n, w)
  BY <1>3, <1>4, <1>5, <1>6 DEF TableOK
<1>8. QED
  BY <1>1, <1>2, <1>7

(* ... and after a reset all are free. *)
LEMMA TableReset ==
  ASSUME NEW g, g = [f \in Fds |-> NoFd]
  PROVE  g \in [Fds -> Descs] /\ TableOK(g, 0, "no") /\ \A R : ReadersKeep(g, R)
<1>1. g \in [Fds -> Descs] /\ \A f \in Fds : g[f] = NoFd
  BY NoFdFacts
<1>2. Used(g) = {} /\ Writers(g) = {}
  BY <1>1, NoFdFacts DEF Used, Writers
<1>3. Cardinality({}) = 0
  BY FS_EmptySet
<1>4. TableOK(g, 0, "no")
  BY <1>1, <1>2, <1>3 DEF TableOK
<1>5. QED
  BY <1>1, <1>4, NoFdFacts DEF ReadersKeep

-----------------------------------------------------------------------------
(* The flash after the old record is marked: some flash, ... *)
LEMMA DeletedType ==
  ASSUME flash \in [Addr -> Byte], NEW n
  PROVE  AfterDelete(n) \in [Addr -> Byte]
<1>1. Deleted \in Byte
  BY DEF Deleted, Byte
<1>2. <<Deleted>> \in Seq(Byte)
  BY <1>1
<1>3. \A a : Put(flash, a, <<Deleted>>) \in [Addr -> Byte]
  BY <1>2, PutType
<1>4. QED
  BY <1>3 DEF AfterDelete

(* ... in which only the file n is gone, unless a file is found that is     *)
(* none.                                                                    *)
LEMMA Deletion ==
  ASSUME TypeOK, NEW R, NEW e, Safe(R, e), writing = "no", NEW n \in Names,
         ~((torn # "no" \/ n \notin ShortNames) /\ Phantom(n)), NEW cl, cl = AfterDelete(n)
  PROVE  OnlyGone(flash, cl, files, fds, R, e, n)
<1>1. /\ IsChain(R, e) /\ Kept(flash, files, fds, R)
      /\ \A r \in R : Holds(flash, r)
      /\ Stored(flash, files, R) /\ n \in Seq(1 .. 254)
      /\ flash \in [Addr -> Byte] /\ files \in [Names -> Seq(Int)]
  BY ConstantFacts DEF Safe, Kept, TypeOK
<1>2. CASE files[n] # NoFile
  <2>1. PICK q \in R : IsTheFile(flash, R, n, q)
    BY <1>1, <1>2 DEF Stored
  <2>2. Found(n) = [res |-> "ok", at |-> q.at]
    <3>1. n \in Sought
      BY <1>1, <2>1, NamesInList
    <3>2. QED
      BY <1>1, <2>1, <3>1, SearchFinds DEF Found
  <2>3. DelAddr(flash, q.at) = DelOf(q)
    BY <1>1, ChainFacts, Parsed
  <2>4. cl = Put(flash, DelOf(q), <<Deleted>>)
    BY <2>2, <2>3 DEF AfterDelete
  <2>5. OnlyGone(flash, Put(flash, DelOf(q), <<Deleted>>), files, fds, R, e, n)
    BY <1>1, <2>1, DeletedKept
  <2>6. QED
    BY <2>4, <2>5
<1>3. CASE files[n] = NoFile
  <2>1. [files EXCEPT ![n] = NoFile] = files
    BY <1>1, <1>3
  <2>2. Found(n).res # "ok"
    <3>1. CASE torn # "no" \/ n \notin ShortNames
      BY <1>3, <3>1 DEF Phantom
    <3>2. CASE torn = "no" /\ n \in ShortNames
      <4>1. ErasedFrom(flash, e) /\ e \in Addr /\ e \in Int
        <5>1. ErasedFrom(flash, e) /\ e \in Nat /\ e <= MaxSize - 4 /\ MaxSize \in Nat
          BY <1>1, <3>2, ConstantFacts DEF Safe, IsChain, AlignTo
        <5>2. QED
          BY <5>1 DEF Addr
      <4>2. flash[e] = Erased
        BY <4>1 DEF ErasedFrom
      <4>3. NotThere(flash, R, n)
        BY <1>1, <1>3 DEF Stored
      <4>4. Found(n) = [res |-> "not_found", at |-> e]
        <5>1. n \in Sought
          BY <3>2 DEF ShortNames
        <5>2. QED
          BY <1>1, <4>2, <4>3, <5>1, SearchMisses DEF Found
      <4>5. QED
        BY <4>4
    <3>3. QED
      BY <3>1, <3>2
  <2>3. cl = flash
    BY <2>2 DEF AfterDelete
  <2>4. QED
    BY <1>1, <2>1, <2>3 DEF OnlyGone
<1>4. QED
  BY <1>2, <1>3

(* Bytes are written where the flash is erased. *)
LEMMA PutOnErased ==
  ASSUME NEW fl, NEW a \in Int, NEW s \in Seq(Byte),
         \A x \in Addr : a <= x /\ x < a + Len(s) => fl[x] = Erased
  PROVE  \A x \in Addr : fl[x] \in {Erased, Put(fl, a, s)[x]}
<1>1. SUFFICES ASSUME NEW x \in Addr, fl[x] # Erased PROVE Put(fl, a, s)[x] = fl[x]
  OBVIOUS
<1>2. x \in Int /\ Len(s) \in Nat
  <2>1. MaxSize \in Nat
    BY ConstantFacts
  <2>2. QED
    BY <2>1 DEF Addr
<1>3. ~(a <= x /\ x < a + Len(s))
  BY <1>1
<1>4. x < a \/ a + Len(s) <= x
  BY <1>2, <1>3
<1>5. QED
  BY <1>4, PutElsewhere

(* Where the data of a new file start: there is space left. *)
LEMMA NewBaseFits ==
  ASSUME NEW a \in Nat, NEW n \in Names, a % AlignTo = 0, EnoughSpace(a, n)
  PROVE  /\ NewBase(a, n) \in Nat /\ NewBase(a, n) % AlignTo = 0
         /\ NewBase(a, n) <= MaxSize - AlignTo
         /\ a + Len(n) + 9 <= NewBase(a, n)
<1>1. MaxSize \in Nat /\ MaxSize % 4 = 0 /\ Len(n) \in Nat
  BY ConstantFacts
<1>2. PICK m \in Nat : m = MaxSize /\ m % 4 = 0
  BY <1>1
<1>3. PICK x \in Nat : x = a + Len(n) + 1
  BY <1>1
<1>4. x + 14 <= m
  BY <1>1, <1>2, <1>3 DEF EnoughSpace, MinNeeded, AlignTo
<1>5. PICK y \in Int : y = RoundUp(x) /\ y % 4 = 0 /\ x <= y /\ y <= x + 3
  BY <1>3, Rounded DEF AlignTo
<1>6. y + 12 <= m /\ (y + 8) % 4 = 0 /\ y + 8 \in Nat
  BY <1>2, <1>3, <1>4, <1>5
<1>7. NewBase(a, n) = y + 8
  BY <1>3, <1>5 DEF NewBase, AlignTo
<1>8. QED
  BY <1>1, <1>2, <1>3, <1>5, <1>6, <1>7 DEF AlignTo

(* The name with its 0 byte. *)
LEMMA NameBytes ==
  ASSUME NEW n \in Names
  PROVE  /\ Append(n, 0) \in Seq(Byte) /\ Len(Append(n, 0)) = Len(n) + 1
         /\ \A j \in 1 .. Len(n) : Append(n, 0)[j] = n[j]
         /\ Append(n, 0)[Len(n) + 1] = 0
<1>1. n \in Seq(1 .. 254) /\ Len(n) \in Nat
  BY ConstantFacts
<1>2. \A j \in 1 .. Len(n) : n[j] \in 1 .. 254
  BY <1>1, ElementIn
<1>3. n \in Seq(Byte) /\ 0 \in Byte
  BY <1>1, <1>2 DEF Byte
<1>4. QED
  BY <1>1, <1>3

(* After it is written the name is there. *)
LEMMA NameWritten ==
  ASSUME NEW fl, NEW a \in Nat, NEW n \in Names, a + Len(n) < MaxSize, NEW g,
         g = Put(fl, a, Append(n, 0))
  PROVE  Named(g, a, n)
<1>1. Len(n) \in Nat /\ MaxSize \in Nat
  BY ConstantFacts
<1>2. PICK s \in Seq(Byte) : /\ s = Append(n, 0) /\ Len(s) = Len(n) + 1
                             /\ \A j \in 1 .. Len(n) : s[j] = n[j]
                             /\ s[Len(n) + 1] = 0
  BY NameBytes
<1>3. ASSUME NEW j \in 1 .. Len(s) PROVE Put(fl, a, s)[a + j - 1] = s[j]
  <2>1. a + j - 1 < MaxSize
    BY <1>1, <1>2
  <2>2. QED
    BY <2>1, PutThere
<1>4. ASSUME NEW j \in 1 .. Len(n) PROVE g[a + j - 1] = n[j]
  <2>1. j \in 1 .. Len(s)
    BY <1>1, <1>2
  <2>2. QED
    BY <1>2, <1>3, <2>1
<1>5. g[a + Len(n)] = 0
  <2>1. Len(n) + 1 \in 1 .. Len(s) /\ a + (Len(n) + 1) - 1 = a + Len(n)
    BY <1>1, <1>2
  <2>2. Put(fl, a, s)[a + (Len(n) + 1) - 1] = s[Len(n) + 1]
    BY <1>3, <2>1
  <2>3. QED
    BY <1>2, <2>1, <2>2
<1>6. QED
  BY <1>4, <1>5 DEF Named

-----------------------------------------------------------------------------
(* The inductive invariant.  It holds at the start: there is no record. *)
LEMMA InitIInv == Init => IInv
<1> SUFFICES ASSUME Init PROVE IInv
  OBVIOUS
<1>1. MaxSize \in Nat /\ 4 <= MaxSize
  BY ConstantFacts
<1>2. TypeOK
  <2>1. Erased \in Byte /\ 0 \in Nat
    BY DEF Erased, Byte
  <2>2. NoFile \in Seq(Int)
    BY DEF NoFile
  <2>3. fds \in [Fds -> Descs]
    BY TableReset DEF Init
  <2>4. flash \in [Addr -> Byte]
    BY <2>1 DEF Init
  <2>5. files \in [Names -> Seq(Int)]
    BY <2>2 DEF Init
  <2>6. QED
    BY <2>1, <2>3, <2>4, <2>5 DEF Init, TypeOK
<1>3. TableOK(fds, num_fd, writing)
  BY TableReset DEF Init
<1>4. Safe({}, 0)
  <2>1. IsChain({}, 0)
    BY <1>1 DEF IsChain, AlignTo
  <2>2. ReadersKeep(fds, {})
    BY TableReset DEF Init
  <2>3. Stored(flash, files, {})
    BY DEF Init, Stored, NotThere
  <2>4. Kept(flash, files, fds, {})
    BY <2>2, <2>3 DEF Kept
  <2>5. ErasedFrom(flash, 0)
    BY DEF Init, ErasedFrom
  <2>6. Writers(fds) = {}
    BY NoFdFacts DEF Init, Writers
  <2>7. QED
    BY <2>1, <2>4, <2>5, <2>6 DEF Safe
<1>5. {} \in SUBSET Records /\ 0 \in Nat
  OBVIOUS
<1>6. torn = "no" /\ twice = "no"
  BY DEF Init
<1>7. \E R \in SUBSET Records, e \in Nat : Safe(R, e)
  BY <1>4, <1>5
<1>8. QED
  BY <1>2, <1>3, <1>6, <1>7 DEF IInv

(* A file opened for reading is one of the records. *)
LEMMA OpenReadIInv ==
  ASSUME IInv, NEW n \in Names, OpenRead(n)
  PROVE  IInv'
<1>1. TypeOK /\ TableOK(fds, num_fd, writing)
  BY DEF IInv
<1>2. PICK f : f = romfs_find_empty_fd
  OBVIOUS
<1>3. f \in Fds /\ fds[f] = NoFd
  BY <1>1, <1>2, FreeFd DEF OpenRead
<1>4. PICK d : /\ d = [base |-> DataAddr(flash, Found(n).at), offset |-> 0,
                       size |-> RecordSize(flash, Found(n).at), mode |-> "r", name |-> n,
                       of |-> IF RecordSize(flash, Found(n).at) < 0 THEN NoFile ELSE files[n]]
  OBVIOUS
<1>5. /\ fds' = [fds EXCEPT ![f] = d] /\ num_fd' = num_fd + 1
      /\ UNCHANGED <<flash, writing, files, torn, twice, steps>>
      /\ Found(n).res = "ok"
  BY <1>2, <1>4 DEF OpenRead
<1>6. d \in Descs /\ d.mode = "r"
  <2>1. flash \in [Addr -> Byte] /\ MaxSize \in Nat /\ files \in [Names -> Seq(Int)]
    BY <1>1, ConstantFacts DEF TypeOK
  <2>2. Found(n).at \in Addr
    BY <1>5, <2>1, FoundAligned DEF Found
  <2>3. Found(n).at \in Int
    BY <2>1, <2>2 DEF Addr
  <2>4. DataAddr(flash, Found(n).at) \in Int /\ RecordSize(flash, Found(n).at) \in Int
    BY <2>1, <2>3, PlacesAreInts
  <2>5. NoFile \in Seq(Int) /\ files[n] \in Seq(Int)
    BY <2>1 DEF NoFile
  <2>6. QED
    BY <1>4, <2>4, <2>5 DEF Descs
<1>7. fds' \in [Fds -> Descs] /\ TableOK(fds', num_fd', writing')
  <2>1. fds \in [Fds -> Descs] /\ writing \in {"yes", "no"}
    BY <1>1 DEF TypeOK
  <2>2. QED
    BY <1>1, <1>3, <1>5, <1>6, <2>1, TableAdd
<1>8. TypeOK'
  BY <1>1, <1>5, <1>7 DEF TypeOK
<1>9. ASSUME NEW R \in SUBSET Records, NEW e \in Nat, Safe(R, e) PROVE Safe(R, e)'
  <2>1. IsChain(R, e) /\ Kept(flash, files, fds, R) /\ \A r \in R : Holds(flash, r)
    BY <1>9 DEF Safe, Kept
  <2>2. \A h \in Fds : h # f => fds'[h] = fds[h]
    BY <1>1, <1>3, <1>5 DEF TypeOK
  <2>3. fds'[f] = d
    BY <1>1, <1>3, <1>5 DEF TypeOK
  <2>4. ASSUME d.of # NoFile
        PROVE  \E q \in R : d.base = BaseOf(q) /\ d.size = Len(q.data) /\ d.of = q.data
    <3>1. files[n] # NoFile /\ d.of = files[n]
      BY <1>4, <2>4
    <3>2. PICK q \in R : IsTheFile(flash, R, n, q) /\ q.data = files[n]
      BY <2>1, <3>1 DEF Kept, Stored
    <3>3. n \in Sought
      BY <2>1, <3>2, NamesInList
    <3>4. Found(n) = [res |-> "ok", at |-> q.at]
      BY <2>1, <3>2, <3>3, SearchFinds DEF Found
    <3>5. DataAddr(flash, q.at) = BaseOf(q) /\ RecordSize(flash, q.at) = Len(q.data)
      BY <2>1, ChainFacts, Parsed
    <3>6. Found(n).at = q.at
      BY <3>4
    <3>7. d.base = BaseOf(q) /\ d.size = Len(q.data)
      BY <1>4, <3>5, <3>6
    <3>8. QED
      BY <3>1, <3>2, <3>7
  <2>5. ReadersKeep(fds, R)
    BY <2>1 DEF Kept
  <2>6. ReadersKeep(fds', R)
    BY <2>2, <2>3, <2>4, <2>5 DEF ReadersKeep
  <2>7. Kept(flash', files', fds', R)
    BY <1>5, <2>1, <2>6 DEF Kept
  <2>8. Writers(fds') = Writers(fds) /\ \A h \in Writers(fds) : fds'[h] = fds[h]
    BY <1>3, <1>6, <2>2, <2>3, NoFdFacts DEF Writers
  <2>9. QED
    BY <1>5, <1>9, <2>7, <2>8 DEF Safe
<1>10. QED
  BY <1>5, <1>7, <1>8, <1>9 DEF IInv

(* What the history says after bytes were programmed. *)
LEMMA Programmed ==
  ASSUME NEW g, Program(g), twice \in {"no", "yes"}
  PROVE  /\ flash' = g /\ twice' \in {"no", "yes"}
         /\ (twice = "no" /\ \A x \in Addr : flash[x] \in {Erased, g[x]}) => twice' = "no"
BY DEF Program

(* A reset keeps the records. *)
LEMMA ResetIInv ==
  ASSUME Restarted, flash' \in [Addr -> Byte], files' \in [Names -> Seq(Int)],
         torn' \in {"no", "yes", "spoilt"}, twice' \in {"no", "yes"}, steps' \in Nat,
         torn' # "spoilt" => twice' = "no" /\ \E R \in SUBSET Records, e \in Nat :
           /\ IsChain(R, e) /\ Kept(flash', files', fds, R)
           /\ torn' = "no" => ErasedFrom(flash', e)
  PROVE  IInv'
<1>1. fds' = [f \in Fds |-> NoFd] /\ num_fd' = 0 /\ writing' = "no"
  BY DEF Restarted
<1>2. fds' \in [Fds -> Descs] /\ TableOK(fds', num_fd', writing') /\ \A R : ReadersKeep(fds', R)
  BY <1>1, TableReset
<1>3. TypeOK'
  BY <1>1, <1>2 DEF TypeOK
<1>4. ASSUME NEW R, NEW e, IsChain(R, e), Kept(flash', files', fds, R),
             torn' = "no" => ErasedFrom(flash', e)
      PROVE  Safe(R, e)'
  <2>1. Kept(flash', files', fds', R)
    BY <1>2, <1>4 DEF Kept
  <2>2. Writers(fds') = {}
    BY <1>1, <1>2 DEF TableOK
  <2>3. QED
    BY <1>4, <2>1, <2>2 DEF Safe
<1>5. torn' # "spoilt" => twice' = "no" /\ \E R \in SUBSET Records, e \in Nat : Safe(R, e)'
  BY <1>4
<1>6. QED
  BY <1>1, <1>2, <1>3, <1>5 DEF IInv

(* The flash g has the file n marked deleted and k bytes more at e. *)
Begun(g, R, e, n, k) ==
  /\ Kept(g, [files EXCEPT ![n] = NoFile], fds, R)
  /\ \A x \in Addr : flash[x] \in {Erased, g[x]}
  /\ \A x \in Addr : e + k <= x => g[x] = Erased

(* Bytes of a new record go behind the list, where all is erased. *)
LEMMA NewRecord ==
  ASSUME TypeOK, NEW R, NEW e, Safe(R, e), writing = "no", torn = "no", NEW n \in Names,
         n \in ShortNames \/ ~Phantom(n), NEW s \in Seq(Byte)
  PROVE  /\ FirstFree(AfterDelete(n)) = [res |-> "not_found", at |-> e]
         /\ Begun(Put(AfterDelete(n), e, s), R, e, n, Len(s))
<1>1. PICK cl : cl = AfterDelete(n)
  OBVIOUS
<1>2. OnlyGone(flash, cl, files, fds, R, e, n)
  BY <1>1, Deletion
<1>3. IsChain(R, e) /\ ErasedFrom(flash, e)
  BY DEF Safe
<1>4. e \in Nat /\ e \in Addr /\ MaxSize \in Nat
  <2>1. e \in Nat /\ e <= MaxSize - 4 /\ MaxSize \in Nat
    BY <1>3, ConstantFacts DEF IsChain, AlignTo
  <2>2. QED
    BY <2>1 DEF Addr
<1>5. \A x \in Addr : e <= x => cl[x] = Erased
  BY <1>2, <1>3 DEF OnlyGone, ErasedFrom
<1>6. Kept(cl, [files EXCEPT ![n] = NoFile], fds, R)
  BY <1>2 DEF OnlyGone
<1>7. FirstFree(cl) = [res |-> "not_found", at |-> e]
  <2>1. cl[e] = Erased
    BY <1>4, <1>5
  <2>2. \A r \in R : Holds(cl, r)
    BY <1>6 DEF Kept
  <2>3. QED
    BY <1>3, <2>1, <2>2, EndIsFound
<1>8. PICK g : g = Put(cl, e, s)
  OBVIOUS
<1>9. ASSUME NEW x \in Addr
      PROVE  /\ x < e => g[x] = cl[x]
             /\ e + Len(s) <= x => g[x] = Erased
             /\ flash[x] \in {Erased, g[x]}
  <2>1. x \in Int /\ Len(s) \in Nat
    BY <1>4 DEF Addr
  <2>2. x < e \/ e + Len(s) <= x => g[x] = cl[x]
    <3>1. e \in Int
      BY <1>4
    <3>2. \A b : b = Put(cl, e, s) /\ (x < e \/ e + Len(s) <= x) => b[x] = cl[x]
      BY ONLY <3>1, x \in Addr, s \in Seq(Byte), PutElsewhere
    <3>3. QED
      BY <1>8, <3>2
  <2>3. e + Len(s) <= x => e <= x
    BY <1>4, <2>1
  <2>4. flash[x] \in {Erased, cl[x]} /\ (e <= x => cl[x] = flash[x])
    BY <1>2 DEF OnlyGone
  <2>5. x < e \/ e <= x
    BY <1>4, <2>1
  <2>6. QED
    BY <1>5, <2>2, <2>3, <2>4, <2>5
<1>10. Kept(g, [files EXCEPT ![n] = NoFile], fds, R)
  BY <1>3, <1>6, <1>9, KeptFrame
<1>11. QED
  BY <1>1, <1>7, <1>8, <1>9, <1>10 DEF Begun

(* A file is opened for writing: its record begins behind the list. *)
LEMMA OpenWriteIInv ==
  ASSUME IInv, NEW n \in Names, NEW mode \in {"w", "a"}, OpenWrite(n, mode)
  PROVE  IInv'
<1>1. /\ TypeOK /\ TableOK(fds, num_fd, writing)
      /\ flash \in [Addr -> Byte] /\ files \in [Names -> Seq(Int)] /\ fds \in [Fds -> Descs]
      /\ twice \in {"no", "yes"} /\ torn \in {"no", "yes", "spoilt"}
      /\ writing \in {"yes", "no"} /\ steps \in Nat /\ num_fd \in Nat
  BY DEF IInv, TypeOK
<1>2. PICK cl : cl = AfterDelete(n)
  OBVIOUS
<1>3. PICK a : a = FirstFree(cl).at
  OBVIOUS
<1>4. /\ num_fd < MaxFds /\ writing = "no" /\ FirstFree(cl).res = "not_found"
      /\ files' = [files EXCEPT ![n] = NoFile] /\ steps' = steps + 1
      /\ torn' = IF Spoils(EnoughSpace(a, n), n) THEN "spoilt" ELSE torn
  BY <1>2, <1>3 DEF OpenWrite, MayCreate, CountStep
<1>5. files' \in [Names -> Seq(Int)] /\ steps' \in Nat /\ torn' \in {"no", "yes", "spoilt"}
  <2>1. NoFile \in Seq(Int)
    BY DEF NoFile
  <2>2. QED
    BY <1>1, <1>4, <2>1
<1>6. cl \in [Addr -> Byte]
  BY <1>1, <1>2, DeletedType
<1>7. a \in Nat /\ a \in Addr /\ a % AlignTo = 0 /\ MaxSize \in Nat
  <2>1. a \in Addr /\ a % AlignTo = 0
    BY <1>3, <1>4, <1>6, FoundAligned DEF FirstFree
  <2>2. MaxSize \in Nat
    BY ConstantFacts
  <2>3. QED
    BY <2>1, <2>2 DEF Addr
<1>8. torn # "spoilt" => twice = "no" /\ \E R \in SUBSET Records, e \in Nat : Safe(R, e)
  BY DEF IInv
<1>9. CASE EnoughSpace(a, n)
  <2>1. PICK f : f = romfs_find_empty_fd
    OBVIOUS
  <2>2. f \in Fds /\ fds[f] = NoFd
    BY <1>1, <1>4, <2>1, FreeFd
  <2>3. PICK d : d = [base |-> NewBase(a, n), offset |-> 0, size |-> 0, mode |-> mode,
                      name |-> n, of |-> <<>>]
    OBVIOUS
  <2>4. PICK g : g = Put(cl, a, Append(n, 0))
    OBVIOUS
  <2>5. /\ Program(g) /\ writing' = "yes"
        /\ fds' = [fds EXCEPT ![f] = d] /\ num_fd' = num_fd + 1
    BY <1>2, <1>3, <1>9, <2>1, <2>3, <2>4 DEF OpenWrite
  <2>6. /\ NewBase(a, n) \in Nat /\ NewBase(a, n) % AlignTo = 0
        /\ NewBase(a, n) <= MaxSize - AlignTo /\ a + Len(n) + 9 <= NewBase(a, n)
    BY <1>7, <1>9, NewBaseFits
  <2>7. /\ d.base = NewBase(a, n) /\ d.size = 0 /\ d.mode = mode /\ d.name = n /\ d.of = <<>>
        /\ d \in Descs
    <3>1. NewBase(a, n) \in Int /\ 0 \in Int /\ <<>> \in Seq(Int)
      BY <2>6
    <3>2. QED
      BY <2>3, <3>1 DEF Descs
  <2>8. fds' \in [Fds -> Descs] /\ TableOK(fds', num_fd', writing')
    <3>1. d.base + d.size <= MaxSize - AlignTo /\ d.size \in Nat
      BY <1>7, <2>6, <2>7 DEF AlignTo
    <3>2. /\ d.mode \in {"w", "a"} /\ d.name \in Names /\ d.base \in Nat
          /\ d.base % AlignTo = 0
      BY <2>6, <2>7
    <3>3. /\ [fds EXCEPT ![f] = d] \in [Fds -> Descs]
          /\ TableOK([fds EXCEPT ![f] = d], num_fd + 1, "yes")
      BY <1>1, <1>4, <2>2, <2>7, <3>1, <3>2, TableAdd
    <3>4. QED
      BY <2>5, <3>3
  <2>9. g \in [Addr -> Byte] /\ flash' = g /\ twice' \in {"no", "yes"}
    BY <1>1, <1>6, <2>4, <2>5, NameBytes, PutType, Programmed
  <2>10. TypeOK'
    BY <1>1, <1>5, <2>5, <2>8, <2>9 DEF TypeOK
  <2>11. torn' # "spoilt" => torn = "no" /\ torn' = "no" /\ n \in ShortNames
    BY <1>4, <1>9, ConstantFacts DEF Spoils, ShortNames, Sought
  <2>12. ASSUME torn' # "spoilt"
         PROVE  twice' = "no" /\ \E R \in SUBSET Records, e \in Nat : Safe(R, e)'
    <3>1. PICK R \in SUBSET Records, e \in Nat : Safe(R, e)
      BY <1>8, <2>11, <2>12
    <3>2. PICK s \in Seq(Byte) : s = Append(n, 0) /\ Len(s) = Len(n) + 1
      BY NameBytes
    <3>3. FirstFree(cl) = [res |-> "not_found", at |-> e] /\ Begun(Put(cl, e, s), R, e, n, Len(s))
      <4>1. writing = "no" /\ torn = "no" /\ n \in ShortNames
        BY <1>4, <2>11, <2>12
      <4>2. QED
        BY <1>1, <1>2, <3>1, <4>1, NewRecord
    <3>4. a = e /\ g = Put(cl, e, s)
      BY <1>3, <2>4, <3>2, <3>3
    <3>5. /\ Kept(g, files', fds, R) /\ \A x \in Addr : flash[x] \in {Erased, g[x]}
          /\ \A x \in Addr : e + Len(s) <= x => g[x] = Erased
      BY <1>4, <3>3, <3>4 DEF Begun
    <3>6. twice' = "no"
      BY <1>1, <1>8, <2>5, <2>11, <2>12, <3>5, Programmed
    <3>7. fds'[f] = d /\ \A h \in Fds : h # f => fds'[h] = fds[h]
      BY <1>1, <2>2, <2>5
    <3>8. ReadersKeep(fds', R)
      BY <2>7, <3>5, <3>7 DEF ReadersKeep, Kept
    <3>9. Kept(flash', files', fds', R)
      BY <2>9, <3>5, <3>8 DEF Kept
    <3>10. Writers(fds') = {f}
      BY <1>1, <1>4, <2>2, <2>7, <3>7 DEF Writers, TableOK
    <3>11. Unfinished(flash', files', e, d)
      <4>1. Len(n) \in Nat
        BY ConstantFacts
      <4>2. a + Len(n) < MaxSize
        BY <1>7, <2>6, <4>1 DEF AlignTo
      <4>3. Named(g, e, n)
        BY <1>7, <2>4, <3>4, <4>2, NameWritten
      <4>4. ASSUME NEW x \in Addr, e + Len(n) < x PROVE g[x] = Erased
        <5>1. x \in Int
          BY <1>7 DEF Addr
        <5>2. e + Len(s) <= x
          BY <3>2, <4>1, <4>4, <5>1
        <5>3. QED
          BY <3>5, <5>2
      <4>5. ErasedFrom(g, NewBase(a, n) + 0)
        <5>1. SUFFICES ASSUME NEW x \in Addr, NewBase(a, n) + 0 <= x PROVE g[x] = Erased
          BY DEF ErasedFrom
        <5>2. x \in Int
          BY <1>7 DEF Addr
        <5>3. e + Len(n) < x
          BY <1>7, <2>6, <3>4, <4>1, <5>1, <5>2
        <5>4. QED
          BY <4>4, <5>3
      <4>6. HasData(g, NewBase(a, n), <<>>) /\ <<>> \in Seq(Byte) /\ Len(<<>>) = 0
        BY DEF HasData
      <4>7. files'[n] = NoFile
        BY <1>1, <1>4
      <4>8. QED
        BY <2>7, <2>9, <2>11, <2>12, <3>4, <4>3, <4>4, <4>5, <4>6, <4>7 DEF Unfinished
    <3>12. Safe(R, e)'
      BY <2>5, <3>1, <3>7, <3>9, <3>10, <3>11 DEF Safe
    <3>13. QED
      BY <3>6, <3>12
  <2>13. QED
    BY <2>8, <2>10, <2>11, <2>12 DEF IInv
<1>10. CASE ~EnoughSpace(a, n)
  <2>1. Program(cl) /\ UNCHANGED <<fds, num_fd, writing>>
    BY <1>2, <1>3, <1>10 DEF OpenWrite
  <2>2. flash' = cl /\ twice' \in {"no", "yes"}
    BY <1>1, <2>1, Programmed
  <2>3. TypeOK'
    BY <1>1, <1>5, <1>6, <2>1, <2>2 DEF TypeOK
  <2>4. ASSUME torn' # "spoilt"
        PROVE  twice' = "no" /\ \E R \in SUBSET Records, e \in Nat : Safe(R, e)'
    <3>1. torn' = torn /\ ~((torn # "no" \/ n \notin ShortNames) /\ Phantom(n))
      BY <1>4, <1>10, <2>4, ConstantFacts DEF Spoils, ShortNames, Sought
    <3>2. PICK R \in SUBSET Records, e \in Nat : Safe(R, e)
      BY <1>8, <2>4, <3>1
    <3>3. OnlyGone(flash, cl, files, fds, R, e, n)
      BY <1>1, <1>2, <1>4, <3>1, <3>2, Deletion
    <3>4. twice' = "no"
      BY <1>1, <1>8, <2>1, <2>4, <3>1, <3>3, Programmed DEF OnlyGone
    <3>5. Kept(flash', files', fds', R)
      BY <1>4, <2>1, <2>2, <3>3 DEF OnlyGone
    <3>6. torn = "no" => ErasedFrom(flash', e)
      BY <1>4, <2>2, <3>2, <3>3 DEF OnlyGone, Safe, ErasedFrom
    <3>7. Writers(fds') = {}
      BY <1>1, <1>4, <2>1 DEF TableOK
    <3>8. Safe(R, e)'
      BY <3>1, <3>2, <3>5, <3>6, <3>7 DEF Safe
    <3>9. QED
      BY <3>4, <3>8
  <2>5. QED
    BY <1>1, <1>4, <2>1, <2>3, <2>4 DEF IInv
<1>11. QED
  BY <1>9, <1>10

-----------------------------------------------------------------------------
(* The first bytes of a sequence. *)
LEMMA Prefix ==
  ASSUME NEW s \in Seq(Byte), NEW k \in Nat, k <= Len(s)
  PROVE  SubSeq(s, 1, k) \in Seq(Byte) /\ Len(SubSeq(s, 1, k)) = k
OBVIOUS

(* A sequence of bytes is one of numbers. *)
LEMMA BytesAreInts ==
  ASSUME NEW s \in Seq(Byte)
  PROVE  s \in Seq(Int)
<1>1. \A i \in 1 .. Len(s) : s[i] \in Int
  <2>1. \A i \in 1 .. Len(s) : s[i] \in Byte
    BY ElementIn
  <2>2. \A x \in Byte : x \in Int
    BY DEF Byte
  <2>3. QED
    BY <2>1, <2>2
<1>2. QED
  BY <1>1

(* One sequence behind another. *)
LEMMA ConcatParts ==
  ASSUME NEW o \in Seq(Byte), NEW s \in Seq(Byte), NEW j \in Nat,
         1 <= j, j <= Len(o) + Len(s)
  PROVE  (o \o s)[j] = IF j <= Len(o) THEN o[j] ELSE s[j - Len(o)]
OBVIOUS

(* How much of s is accepted: some of it, and as much as fits. *)
LEMMA AcceptedFits ==
  ASSUME NEW d, d.base \in Nat, d.size \in Nat, d.base + d.size <= MaxSize - AlignTo,
         NEW s \in Seq(Byte)
  PROVE  /\ Accepted(d, s) \in Nat /\ Accepted(d, s) <= Len(s)
         /\ d.base + d.size + Accepted(d, s) <= MaxSize - AlignTo
<1>1. MaxSize \in Nat /\ Len(s) \in Nat
  BY ConstantFacts
<1>2. PICK b \in Nat, z \in Nat : b = d.base /\ z = d.size
  OBVIOUS
<1>3. Accepted(d, s) = IF b + z + Len(s) > MaxSize - 4 THEN MaxSize - (b + z) - 4 ELSE Len(s)
  BY <1>2 DEF Accepted, AlignTo
<1>4. b + z <= MaxSize - 4
  BY <1>2 DEF AlignTo
<1>5. CASE b + z + Len(s) > MaxSize - 4
  <2>1. Accepted(d, s) = MaxSize - (b + z) - 4
    BY <1>3, <1>5
  <2>2. PICK m \in Int : m = MaxSize - (b + z) - 4
    BY <1>1
  <2>3. m \in Nat /\ m <= Len(s) /\ b + z + m <= MaxSize - 4
    BY <1>1, <1>4, <1>5, <2>2
  <2>4. QED
    BY <1>2, <2>1, <2>2, <2>3 DEF AlignTo
<1>6. CASE ~(b + z + Len(s) > MaxSize - 4)
  <2>1. Accepted(d, s) = Len(s)
    BY <1>3, <1>6
  <2>2. QED
    BY <1>1, <1>2, <1>4, <1>6, <2>1 DEF AlignTo
<1>7. QED
  BY <1>5, <1>6

(* What is known of the descriptor that writes. *)
LEMMA WriterFacts ==
  ASSUME IInv, NEW f \in Fds, fds[f].mode \in {"w", "a"}
  PROVE  /\ fds[f] \in Descs /\ fds[f].name \in Names /\ fds[f].base \in Nat
         /\ fds[f].base % AlignTo = 0 /\ fds[f].size \in Nat
         /\ fds[f].base + fds[f].size <= MaxSize - AlignTo
         /\ Writers(fds) = {f} /\ writing = "yes" /\ torn \in {"no", "spoilt"}
<1>1. f \in Writers(fds)
  BY DEF Writers
<1>2. TableOK(fds, num_fd, writing) /\ TypeOK
  BY DEF IInv
<1>3. writing = "yes"
  BY <1>1, <1>2 DEF TableOK, TypeOK
<1>4. \E h \in Fds : Writers(fds) = {h}
  BY <1>2, <1>3 DEF TableOK
<1>5. Writers(fds) = {f}
  BY <1>1, <1>4
<1>6. torn \in {"no", "spoilt"}
  BY <1>2, <1>3 DEF IInv, TypeOK
<1>7. QED
  BY <1>1, <1>2, <1>3, <1>5, <1>6 DEF TableOK, TypeOK

(* Where the parts of the unfinished file lie. *)
LEMMA UnfinishedParts ==
  ASSUME NEW fl, NEW fi, NEW e \in Nat, NEW d, Unfinished(fl, fi, e, d)
  PROVE  /\ d.name \in Names /\ Len(d.name) \in Nat /\ 1 <= Len(d.name)
         /\ d.base = NewBase(e, d.name) /\ d.base \in Nat
         /\ e + Len(d.name) + 9 <= d.base
         /\ d.of \in Seq(Byte) /\ d.size = Len(d.of) /\ d.size \in Nat
         /\ d.base % AlignTo = 0
<1>1. /\ d.name \in Names /\ d.base = NewBase(e, d.name) /\ d.of \in Seq(Byte)
      /\ d.size = Len(d.of)
  BY DEF Unfinished, ShortNames
<1>2. Len(d.name) \in Nat /\ 1 <= Len(d.name)
  BY <1>1, ConstantFacts
<1>3. PICK x \in Nat : x = e + Len(d.name) + 1
  BY <1>2
<1>4. PICK y \in Int : y = RoundUp(x) /\ y % 4 = 0 /\ x <= y
  <2>1. x \in Int
    BY <1>3
  <2>2. RoundUp(x) \in Int /\ RoundUp(x) % 4 = 0 /\ x <= RoundUp(x)
    BY <2>1, Rounded DEF AlignTo
  <2>3. QED
    BY <2>2
<1>5. NewBase(e, d.name) = y + 8
  BY <1>3, <1>4 DEF NewBase, AlignTo
<1>6. (y + 8) % 4 = 0 /\ y + 8 \in Nat /\ e + Len(d.name) + 9 <= y + 8
  BY <1>2, <1>3, <1>4
<1>7. QED
  BY <1>1, <1>2, <1>5, <1>6 DEF AlignTo

(* The flash g is fl with erased bytes behind e written. *)
OnlyBehind(fl, g, e) ==
  /\ \A x \in Addr : fl[x] \in {Erased, g[x]}
  /\ \A x \in Addr : x < e => g[x] = fl[x]

(* Data appended to the file being written. *)
LEMMA DataAppended ==
  ASSUME NEW fl, NEW fi, NEW e \in Nat, NEW d, Unfinished(fl, fi, e, d),
         NEW s \in Seq(Byte), d.base + d.size + Len(s) <= MaxSize,
         NEW c, c.name = d.name, c.base = d.base, c.size = d.size + Len(s), c.of = d.of \o s
  PROVE  /\ Unfinished(Put(fl, d.base + d.size, s), fi, e, c)
         /\ OnlyBehind(fl, Put(fl, d.base + d.size, s), e)
<1>1. /\ d.name \in Names /\ Len(d.name) \in Nat /\ d.base = NewBase(e, d.name)
      /\ d.base \in Nat /\ e + Len(d.name) + 9 <= d.base
      /\ d.of \in Seq(Byte) /\ d.size = Len(d.of) /\ d.size \in Nat
  BY UnfinishedParts
<1>2. PICK b \in Nat, z \in Nat, n \in Names, o \in Seq(Byte) :
        b = d.base /\ z = d.size /\ n = d.name /\ o = d.of /\ Len(o) = z
  BY <1>1
<1>3. Len(n) \in Nat /\ e + Len(n) + 9 <= b /\ b + z + Len(s) <= MaxSize /\ Len(s) \in Nat
      /\ MaxSize \in Nat
  BY <1>1, <1>2, ConstantFacts
<1>4. /\ fi[n] = NoFile /\ b = NewBase(e, n) /\ Named(fl, e, n)
      /\ \A x \in Addr : e + Len(n) < x /\ x < b => fl[x] = Erased
      /\ HasData(fl, b, o) /\ ErasedFrom(fl, b + z)
  BY <1>2 DEF Unfinished
<1>5. PICK g : g = Put(fl, b + z, s)
  OBVIOUS
<1>6. ASSUME NEW x \in Nat, x < b + z PROVE g[x] = fl[x]
  <2>1. x \in Addr /\ b + z \in Int
    BY <1>3, <1>6 DEF Addr
  <2>2. QED
    BY <1>5, <1>6, <2>1, PutElsewhere
<1>7. ASSUME NEW j \in 1 .. Len(s) PROVE g[(b + z) + j - 1] = s[j]
  <2>1. (b + z) + j - 1 < MaxSize /\ b + z \in Nat
    BY <1>3
  <2>2. QED
    BY <1>5, <2>1, PutThere
<1>8. Named(g, e, n)
  <2>1. \A j \in 1 .. Len(n) : e + j - 1 \in Nat /\ e + j - 1 < b + z
    <3>1. SUFFICES ASSUME NEW j \in 1 .. Len(n) PROVE e + j - 1 \in Nat /\ e + j - 1 < b + z
      OBVIOUS
    <3>2. PICK l \in Nat : l = Len(n) /\ e + l + 9 <= b /\ j \in 1 .. l
      BY <1>3
    <3>3. QED
      BY ONLY e \in Nat, b \in Nat, z \in Nat, l \in Nat, <3>2
  <2>2. e + Len(n) \in Nat /\ e + Len(n) < b + z
    BY <1>3
  <2>3. QED
    BY <1>4, <1>6, <2>1, <2>2 DEF Named
<1>9. ASSUME NEW x \in Addr, e + Len(n) < x, x < b PROVE g[x] = Erased
  <2>1. x \in Nat
    BY <1>3 DEF Addr
  <2>2. x < b + z
    BY <1>3, <1>9, <2>1
  <2>3. QED
    BY <1>4, <1>6, <1>9, <2>1, <2>2
<1>10. HasData(g, b, o \o s)
  <2>1. ASSUME NEW j \in 1 .. Len(o \o s) PROVE g[b + j - 1] = (o \o s)[j]
    <3>1. Len(o \o s) = z + Len(s) /\ j \in Nat /\ 1 <= j /\ j <= z + Len(s)
      BY <1>2, <1>3
    <3>2. CASE j <= z
      <4>1. b + j - 1 \in Nat /\ b + j - 1 < b + z
        BY <3>1, <3>2
      <4>2. g[b + j - 1] = fl[b + j - 1]
        BY <1>6, <4>1
      <4>3. fl[b + j - 1] = o[j] /\ (o \o s)[j] = o[j]
        <5>1. j \in 1 .. Len(o)
          BY <1>2, <3>1, <3>2
        <5>2. (o \o s)[j] = o[j]
          BY <1>2, <3>1, <3>2, ConcatParts
        <5>3. QED
          BY <1>4, <5>1, <5>2 DEF HasData
      <4>4. QED
        BY <4>2, <4>3
    <3>3. CASE z < j
      <4>1. PICK i \in 1 .. Len(s) : i = j - z
        BY <1>3, <3>1, <3>3
      <4>2. (b + z) + i - 1 = b + j - 1
        BY <3>1, <4>1
      <4>3. g[(b + z) + i - 1] = s[i]
        BY <1>7
      <4>4. (o \o s)[j] = s[i]
        <5>1. ~(j <= Len(o)) /\ j <= Len(o) + Len(s)
          BY <1>2, <3>1, <3>3
        <5>2. (o \o s)[j] = s[j - Len(o)]
          BY <3>1, <5>1, ConcatParts
        <5>3. QED
          BY <1>2, <4>1, <5>2
      <4>5. QED
        BY <4>2, <4>3, <4>4
    <3>4. QED
      BY <3>1, <3>2, <3>3
  <2>2. QED
    BY <2>1 DEF HasData
<1>11. ErasedFrom(g, b + (z + Len(s)))
  <2>1. SUFFICES ASSUME NEW x \in Addr, b + (z + Len(s)) <= x PROVE g[x] = Erased
    BY DEF ErasedFrom
  <2>2. x \in Int /\ b + z \in Int
    BY <1>3 DEF Addr
  <2>3. (b + z) + Len(s) <= x /\ b + z <= x
    BY <1>3, <2>1, <2>2
  <2>4. g[x] = fl[x]
    BY <1>5, <2>2, <2>3, PutElsewhere
  <2>5. QED
    BY <1>4, <2>3, <2>4 DEF ErasedFrom
<1>12. \A x \in Addr : fl[x] \in {Erased, g[x]}
  <2>1. b + z \in Int /\ \A x \in Addr : b + z <= x /\ x < (b + z) + Len(s) => fl[x] = Erased
    BY <1>4 DEF ErasedFrom
  <2>2. QED
    BY <1>5, <2>1, PutOnErased
<1>13. ASSUME NEW x \in Addr, x < e PROVE g[x] = fl[x]
  <2>1. x \in Nat
    BY <1>3 DEF Addr
  <2>2. x < b + z
    BY <1>3, <1>13, <2>1
  <2>3. QED
    BY <1>6, <2>1, <2>2
<1>14. o \o s \in Seq(Byte) /\ Len(o \o s) = z + Len(s)
  BY <1>2
<1>15. c.name = n /\ c.base = b /\ c.size = z + Len(s) /\ c.of = o \o s
  BY <1>2
<1>16. Unfinished(g, fi, e, c)
  BY <1>4, <1>8, <1>9, <1>10, <1>11, <1>14, <1>15 DEF Unfinished
<1>17. QED
  BY <1>2, <1>5, <1>12, <1>13, <1>16 DEF OnlyBehind

-----------------------------------------------------------------------------
(* Data are written at the end of the file being written. *)
LEMMA WriteIInv ==
  ASSUME IInv, NEW f \in Fds, NEW s \in Chunks, romfs_write_r(f, s)
  PROVE  IInv'
<1>1. PICK d : d = fds[f]
  OBVIOUS
<1>2. d.mode \in {"w", "a"} /\ WritesHere(d)
  BY <1>1 DEF romfs_write_r
<1>3. /\ d \in Descs /\ d.name \in Names /\ d.base \in Nat /\ d.base % AlignTo = 0
      /\ d.size \in Nat /\ d.base + d.size <= MaxSize - AlignTo
      /\ Writers(fds) = {f} /\ writing = "yes" /\ torn \in {"no", "spoilt"}
  BY <1>1, <1>2, WriterFacts
<1>4. /\ TypeOK /\ TableOK(fds, num_fd, writing) /\ fds \in [Fds -> Descs]
      /\ flash \in [Addr -> Byte] /\ twice \in {"no", "yes"} /\ steps \in Nat
  BY DEF IInv, TypeOK
<1>5. s \in Seq(Byte)
  BY ConstantsAssumption DEF Byte
<1>6. PICK p : p = SubSeq(s, 1, Accepted(d, s))
  OBVIOUS
<1>7. p \in Seq(Byte) /\ Len(p) \in Nat /\ d.base + d.size + Len(p) <= MaxSize - AlignTo
  <2>1. /\ Accepted(d, s) \in Nat /\ Accepted(d, s) <= Len(s)
        /\ d.base + d.size + Accepted(d, s) <= MaxSize - AlignTo
    BY <1>3, <1>5, AcceptedFits
  <2>2. p \in Seq(Byte) /\ Len(p) = Accepted(d, s)
    BY <1>5, <1>6, <2>1, Prefix
  <2>3. QED
    BY <2>1, <2>2
<1>8. PICK g : g = Put(flash, d.base + d.size, p)
  OBVIOUS
<1>9. PICK c : c = [d EXCEPT !.offset = d.size + Len(p), !.size = d.size + Len(p),
                             !.of = d.of \o p]
  OBVIOUS
<1>10. /\ Program(g) /\ steps' = steps + 1
       /\ fds' = [fds EXCEPT ![f] = c] /\ UNCHANGED <<num_fd, writing, files, torn>>
  <2>1. (IF d.mode = "a" THEN d.size ELSE d.offset) = d.size
    BY <1>2 DEF WritesHere
  <2>2. /\ Program(Put(flash, d.base + d.size, p)) /\ steps' = steps + 1
        /\ fds' = [fds EXCEPT ![f].offset = d.size + Len(p), ![f].size = @ + Len(p),
                              ![f].of = @ \o p]
        /\ UNCHANGED <<num_fd, writing, files, torn>>
    BY <1>1, <1>6, <2>1 DEF romfs_write_r, CountStep
  <2>3. [fds EXCEPT ![f].offset = d.size + Len(p), ![f].size = @ + Len(p), ![f].of = @ \o p]
          = [fds EXCEPT ![f] = c]
    BY <1>1, <1>4, <1>9
  <2>4. QED
    BY <1>8, <2>2, <2>3
<1>11. /\ c.mode = d.mode /\ c.name = d.name /\ c.base = d.base
       /\ c.size = d.size + Len(p) /\ c.of = d.of \o p
  BY <1>3, <1>9 DEF Descs
<1>12. c \in Descs
  <2>1. d.size + Len(p) \in Int
    BY <1>3, <1>7
  <2>2. d.of \in Seq(Int) /\ p \in Seq(Int)
    BY <1>3, <1>7, BytesAreInts DEF Descs
  <2>3. d.of \o p \in Seq(Int)
    BY <2>2
  <2>4. QED
    BY <1>3, <1>9, <2>1, <2>3 DEF Descs
<1>13. fds' \in [Fds -> Descs] /\ TableOK(fds', num_fd', writing')
  <2>1. c.size \in Nat /\ c.base + c.size <= MaxSize - AlignTo
    <3>1. MaxSize \in Nat
      BY ConstantFacts
    <3>2. QED
      BY <1>3, <1>7, <1>11, <3>1 DEF AlignTo
  <2>2. d.mode # "free"
    BY <1>2
  <2>3. /\ [fds EXCEPT ![f] = c] \in [Fds -> Descs]
        /\ TableOK([fds EXCEPT ![f] = c], num_fd, writing)
    BY <1>1, <1>3, <1>4, <1>11, <1>12, <2>1, <2>2, TableChange
  <2>4. QED
    BY <1>10, <2>3
<1>14. flash' = g /\ g \in [Addr -> Byte] /\ twice' \in {"no", "yes"}
  BY <1>4, <1>7, <1>8, <1>10, PutType, Programmed
<1>15. TypeOK'
  BY <1>4, <1>10, <1>13, <1>14 DEF TypeOK
<1>16. ASSUME torn' # "spoilt"
       PROVE  twice' = "no" /\ \E R \in SUBSET Records, e \in Nat : Safe(R, e)'
  <2>1. torn = "no" /\ twice = "no"
    BY <1>3, <1>10, <1>16 DEF IInv
  <2>2. PICK R \in SUBSET Records, e \in Nat : Safe(R, e)
    BY <2>1 DEF IInv
  <2>3. Unfinished(flash, files, e, d) /\ IsChain(R, e) /\ Kept(flash, files, fds, R)
    BY <1>1, <1>3, <2>1, <2>2 DEF Safe
  <2>4. d.base + d.size + Len(p) <= MaxSize
    <3>1. MaxSize \in Nat
      BY ConstantFacts
    <3>2. QED
      BY <1>3, <1>7, <3>1 DEF AlignTo
  <2>5. /\ Unfinished(g, files, e, c)
        /\ \A x \in Addr : flash[x] \in {Erased, g[x]}
        /\ \A x \in Addr : x < e => g[x] = flash[x]
    <3>1. /\ Unfinished(Put(flash, d.base + d.size, p), files, e, c)
          /\ OnlyBehind(flash, Put(flash, d.base + d.size, p), e)
      BY <1>7, <1>11, <2>3, <2>4, DataAppended
    <3>2. QED
      BY <1>8, <3>1 DEF OnlyBehind
  <2>6. twice' = "no"
    BY <1>4, <1>10, <2>1, <2>5, Programmed
  <2>7. Kept(g, files, fds, R)
    BY <2>3, <2>5, KeptFrame
  <2>8. fds'[f] = c /\ \A h \in Fds : h # f => fds'[h] = fds[h]
    BY <1>4, <1>10
  <2>9. ReadersKeep(fds', R)
    BY <1>2, <1>11, <2>7, <2>8 DEF ReadersKeep, Kept
  <2>10. Kept(flash', files', fds', R)
    BY <1>10, <1>14, <2>7, <2>9 DEF Kept
  <2>11. Writers(fds') = {f}
    BY <1>2, <1>3, <1>11, <2>8 DEF Writers
  <2>12. Safe(R, e)'
    BY <1>3, <1>10, <1>14, <2>3, <2>5, <2>8, <2>10, <2>11 DEF Safe
  <2>13. QED
    BY <2>6, <2>12
<1>17. QED
  BY <1>3, <1>10, <1>13, <1>15, <1>16 DEF IInv

(* The power is lost while data are written. *)
LEMMA LossInWriteIInv ==
  ASSUME IInv, NEW f \in Fds, NEW s \in Chunks, NEW k \in 1 .. Len(s), PowerLossInWrite(f, s, k)
  PROVE  IInv'
<1>1. PICK d : d = fds[f]
  OBVIOUS
<1>2. d.mode \in {"w", "a"} /\ k < Accepted(d, s)
  BY <1>1 DEF PowerLossInWrite
<1>3. /\ d.base \in Nat /\ d.size \in Nat /\ d.base + d.size <= MaxSize - AlignTo
      /\ Writers(fds) = {f} /\ writing = "yes" /\ torn \in {"no", "spoilt"}
  BY <1>1, <1>2, WriterFacts
<1>4. /\ flash \in [Addr -> Byte] /\ twice \in {"no", "yes"} /\ steps \in Nat
      /\ files \in [Names -> Seq(Int)]
  BY DEF IInv, TypeOK
<1>5. s \in Seq(Byte)
  BY ConstantsAssumption DEF Byte
<1>6. PICK p : p = SubSeq(s, 1, k)
  OBVIOUS
<1>7. p \in Seq(Byte) /\ d.base + d.size + Len(p) <= MaxSize
  <2>1. /\ Accepted(d, s) \in Nat /\ Accepted(d, s) <= Len(s) /\ Len(s) \in Nat
        /\ d.base + d.size + Accepted(d, s) <= MaxSize - AlignTo
    BY <1>3, <1>5, AcceptedFits
  <2>2. MaxSize \in Nat /\ k \in Nat /\ k <= Len(s)
    BY <2>1, ConstantFacts
  <2>3. p \in Seq(Byte) /\ Len(p) = k
    BY <1>5, <1>6, <2>2, Prefix
  <2>4. d.base + d.size + k <= MaxSize
    BY <1>2, <1>3, <2>1, <2>2 DEF AlignTo
  <2>5. QED
    BY <2>3, <2>4
<1>8. PICK g : g = Put(flash, d.base + d.size, p)
  OBVIOUS
<1>9. /\ Program(g) /\ steps' = steps + 1 /\ Restarted /\ files' = files
      /\ torn' = IF torn = "no" THEN "yes" ELSE torn
  BY <1>1, <1>6, <1>8 DEF PowerLossInWrite, CountStep, Interrupted
<1>10. flash' = g /\ g \in [Addr -> Byte] /\ twice' \in {"no", "yes"}
  BY <1>4, <1>7, <1>8, <1>9, PutType, Programmed
<1>11. ASSUME torn' # "spoilt"
       PROVE  twice' = "no" /\ \E R \in SUBSET Records, e \in Nat :
                /\ IsChain(R, e) /\ Kept(flash', files', fds, R)
                /\ torn' = "no" => ErasedFrom(flash', e)
  <2>1. torn = "no" /\ twice = "no" /\ torn' = "yes"
    BY <1>3, <1>9, <1>11 DEF IInv
  <2>2. PICK R \in SUBSET Records, e \in Nat : Safe(R, e)
    BY <2>1 DEF IInv
  <2>3. Unfinished(flash, files, e, d) /\ IsChain(R, e) /\ Kept(flash, files, fds, R)
    BY <1>1, <1>3, <2>1, <2>2 DEF Safe
  <2>4. PICK c : c = [name |-> d.name, base |-> d.base, size |-> d.size + Len(p), of |-> d.of \o p]
    OBVIOUS
  <2>5. c.name = d.name /\ c.base = d.base /\ c.size = d.size + Len(p) /\ c.of = d.of \o p
    BY <2>4
  <2>6. /\ \A x \in Addr : flash[x] \in {Erased, g[x]}
        /\ \A x \in Addr : x < e => g[x] = flash[x]
    <3>1. OnlyBehind(flash, Put(flash, d.base + d.size, p), e)
      BY <1>7, <2>3, <2>5, DataAppended
    <3>2. QED
      BY <1>8, <3>1 DEF OnlyBehind
  <2>7. twice' = "no"
    BY <1>4, <1>9, <2>1, <2>6, Programmed
  <2>8. Kept(g, files, fds, R)
    BY <2>3, <2>6, KeptFrame
  <2>9. Kept(flash', files', fds, R)
    BY <1>9, <1>10, <2>8
  <2>10. QED
    BY <2>1, <2>3, <2>7, <2>9
<1>12. /\ files' \in [Names -> Seq(Int)] /\ steps' \in Nat /\ torn' \in {"no", "yes", "spoilt"}
  BY <1>3, <1>4, <1>9
<1>13. QED
  BY <1>9, <1>10, <1>11, <1>12, ResetIInv

-----------------------------------------------------------------------------
(* The descriptors d and c differ in the offset alone. *)
SameFile(d, c) ==
  c.mode = d.mode /\ c.name = d.name /\ c.base = d.base /\ c.size = d.size /\ c.of = d.of

WithOffset(fd, f, o) == [fd EXCEPT ![f].offset = o]

(* Another offset in the table. *)
LEMMA OffsetChanged ==
  ASSUME NEW fd \in [Fds -> Descs], NEW f \in Fds, NEW o \in Int
  PROVE  \E c \in Descs : SameFile(fd[f], c) /\ WithOffset(fd, f, o) = [fd EXCEPT ![f] = c]
<1>1. PICK d \in Descs : d = fd[f]
  OBVIOUS
<1>2. PICK c : c = [d EXCEPT !.offset = o]
  OBVIOUS
<1>3. c \in Descs /\ SameFile(d, c)
  BY <1>2 DEF Descs, SameFile
<1>4. WithOffset(fd, f, o) = [fd EXCEPT ![f] = c]
  BY <1>1, <1>2 DEF WithOffset
<1>5. QED
  BY <1>1, <1>3, <1>4

(* The table stays in order. *)
LEMMA OffsetTable ==
  ASSUME IInv, NEW f \in Fds, fds[f].mode # "free", NEW c \in Descs, SameFile(fds[f], c)
  PROVE  /\ [fds EXCEPT ![f] = c] \in [Fds -> Descs]
         /\ TableOK([fds EXCEPT ![f] = c], num_fd, writing)
<1>1. TableOK(fds, num_fd, writing) /\ fds \in [Fds -> Descs] /\ writing \in {"yes", "no"}
  BY DEF IInv, TypeOK
<1>2. c.mode = fds[f].mode /\ c.name = fds[f].name /\ c.base = fds[f].base
  BY DEF SameFile
<1>3. c.mode \in {"w", "a"} => c.size \in Nat /\ c.base + c.size <= MaxSize - AlignTo
  BY WriterFacts DEF SameFile
<1>4. QED
  BY <1>1, <1>2, <1>3, TableChange

(* Reading and seeking change the offset alone. *)
LEMMA OffsetIInv ==
  ASSUME IInv, NEW f \in Fds, fds[f].mode # "free", NEW c \in Descs, SameFile(fds[f], c),
         fds' = [fds EXCEPT ![f] = c],
         UNCHANGED <<flash, num_fd, writing, files, torn, twice, steps>>
  PROVE  IInv'
<1>1. /\ TypeOK /\ TableOK(fds, num_fd, writing) /\ fds \in [Fds -> Descs]
      /\ writing \in {"yes", "no"}
  BY DEF IInv, TypeOK
<1>2. /\ c.mode = fds[f].mode /\ c.name = fds[f].name /\ c.base = fds[f].base
      /\ c.size = fds[f].size /\ c.of = fds[f].of
  BY DEF SameFile
<1>3. fds' \in [Fds -> Descs] /\ TableOK(fds', num_fd', writing')
  BY OffsetTable
<1>4. TypeOK'
  BY <1>1, <1>3 DEF TypeOK
<1>5. ASSUME NEW R, NEW e, Safe(R, e) PROVE Safe(R, e)'
  <2>1. IsChain(R, e) /\ Kept(flash, files, fds, R)
    BY <1>5 DEF Safe
  <2>2. fds'[f] = c /\ \A h \in Fds : h # f => fds'[h] = fds[h]
    BY <1>1
  <2>3. \A h \in Fds : /\ fds'[h].mode = fds[h].mode /\ fds'[h].name = fds[h].name
                       /\ fds'[h].base = fds[h].base /\ fds'[h].size = fds[h].size
                       /\ fds'[h].of = fds[h].of
    BY <1>2, <2>2
  <2>4. ReadersKeep(fds', R)
    BY <2>1, <2>3 DEF ReadersKeep, Kept
  <2>5. Kept(flash', files', fds', R)
    BY <2>1, <2>4 DEF Kept
  <2>6. Writers(fds') = Writers(fds)
    BY <2>3 DEF Writers
  <2>7. ASSUME NEW h \in Writers(fds), Unfinished(flash, files, e, fds[h])
        PROVE  Unfinished(flash, files, e, fds'[h])
    <3>1. h \in Fds
      BY DEF Writers
    <3>2. QED
      BY <2>3, <2>7, <3>1 DEF Unfinished
  <2>8. QED
    BY <1>5, <2>1, <2>5, <2>6, <2>7 DEF Safe
<1>6. QED
  BY <1>3, <1>4, <1>5 DEF IInv

(* So a read ... *)
LEMMA ReadIInv ==
  ASSUME IInv, NEW f \in Fds, romfs_read_r(f, MaxSize)
  PROVE  IInv'
<1>1. fds \in [Fds -> Descs] /\ MaxSize \in Nat
  BY ConstantFacts DEF IInv, TypeOK
<1>2. fds[f].offset \in Int /\ fds[f].size \in Int
  BY <1>1 DEF Descs
<1>3. PICK left \in Int : left = fds[f].size - fds[f].offset
  BY <1>2
<1>4. PICK o \in Int : o = fds[f].offset + (IF MaxSize < left THEN MaxSize ELSE left)
  BY <1>1, <1>2
<1>5. fds' = WithOffset(fds, f, o)
  BY <1>1, <1>3, <1>4 DEF romfs_read_r, WithOffset
<1>6. /\ fds[f].mode # "free"
      /\ UNCHANGED <<flash, num_fd, writing, files, torn, twice, steps>>
  BY DEF romfs_read_r
<1>7. PICK c \in Descs : SameFile(fds[f], c) /\ fds' = [fds EXCEPT ![f] = c]
  BY <1>1, <1>5, OffsetChanged
<1>8. QED
  BY <1>6, <1>7, OffsetIInv

(* ... and a seek keep the invariant. *)
LEMMA SeekIInv ==
  ASSUME IInv, NEW f \in Fds, romfs_lseek_r(f, 0)
  PROVE  IInv'
<1>1. /\ fds[f].mode # "free" /\ fds' = WithOffset(fds, f, 0) /\ 0 \in Int
      /\ UNCHANGED <<flash, num_fd, writing, files, torn, twice, steps>>
  BY DEF romfs_lseek_r, WithOffset
<1>2. fds \in [Fds -> Descs]
  BY DEF IInv, TypeOK
<1>3. PICK c \in Descs : SameFile(fds[f], c) /\ fds' = [fds EXCEPT ![f] = c]
  BY <1>1, <1>2, OffsetChanged
<1>4. QED
  BY <1>1, <1>3, OffsetIInv

-----------------------------------------------------------------------------
(* Nothing was written before where the size field goes. *)
LEMMA SizeSpace ==
  ASSUME NEW fl, NEW fi, NEW e \in Nat, NEW d, Unfinished(fl, fi, e, d), NEW s \in Seq(Byte),
         Len(s) <= 4
  PROVE  OnlyBehind(fl, Put(fl, d.base - AlignTo, s), e)
<1>1. /\ d.base \in Nat /\ e + Len(d.name) + 9 <= d.base /\ Len(d.name) \in Nat
      /\ \A x \in Addr : e + Len(d.name) < x /\ x < d.base => fl[x] = Erased
  BY UnfinishedParts DEF Unfinished
<1>2. PICK b \in Nat : b = d.base
  BY <1>1
<1>3. PICK z \in Int : z = b - AlignTo /\ z = b - 4
  BY DEF AlignTo
<1>4. Len(s) \in Nat /\ MaxSize \in Nat
  BY ConstantFacts
<1>5. ASSUME NEW x \in Addr, z <= x, x < z + Len(s) PROVE fl[x] = Erased
  <2>1. x \in Int
    BY <1>4 DEF Addr
  <2>2. x < b
    BY <1>3, <1>4, <1>5, <2>1
  <2>3. PICK l \in Nat : l = Len(d.name) /\ e + l + 9 <= b
    BY <1>1, <1>2
  <2>4. e + l < x
    BY <1>3, <1>5, <2>1, <2>3
  <2>5. QED
    BY <1>1, <1>2, <2>2, <2>3, <2>4
<1>6. \A x \in Addr : fl[x] \in {Erased, Put(fl, z, s)[x]}
  BY <1>5, PutOnErased
<1>7. ASSUME NEW x \in Addr, x < e PROVE Put(fl, z, s)[x] = fl[x]
  <2>1. x \in Int
    BY <1>4 DEF Addr
  <2>2. x < z
    BY <1>1, <1>2, <1>3, <1>7, <2>1
  <2>3. QED
    BY <2>2, PutElsewhere
<1>8. QED
  BY <1>2, <1>3, <1>6, <1>7 DEF OnlyBehind

(* The size of a file fits into the size field. *)
LEMMA SizeFits ==
  ASSUME NEW d, d.base \in Nat, d.size \in Nat, d.base + d.size <= MaxSize - AlignTo
  PROVE  d.size <= TopSize /\ SizeBytes(d.size) \in Seq(Byte) /\ Len(SizeBytes(d.size)) = 4
<1>1. MaxSize \in Nat /\ MaxSize <= TopSize
  BY ConstantFacts
<1>2. TopSize \in Nat
  BY SMT DEF TopSize
<1>3. d.size <= MaxSize
  BY <1>1 DEF AlignTo
<1>4. d.size <= TopSize
  BY <1>1, <1>2, <1>3
<1>5. QED
  BY <1>4, SizeBytesType

(* The power is lost while the size is written. *)
LEMMA LossInCloseIInv ==
  ASSUME IInv, NEW f \in Fds, NEW k \in 1 .. 3, PowerLossInClose(f, k)
  PROVE  IInv'
<1>1. PICK d : d = fds[f]
  OBVIOUS
<1>2. d.mode \in {"w", "a"}
  BY <1>1 DEF PowerLossInClose
<1>3. /\ d.base \in Nat /\ d.size \in Nat /\ d.base + d.size <= MaxSize - AlignTo
      /\ Writers(fds) = {f} /\ writing = "yes" /\ torn \in {"no", "spoilt"}
  BY <1>1, <1>2, WriterFacts
<1>4. /\ flash \in [Addr -> Byte] /\ twice \in {"no", "yes"} /\ steps \in Nat
      /\ files \in [Names -> Seq(Int)]
  BY DEF IInv, TypeOK
<1>5. PICK p : p = SubSeq(SizeBytes(d.size), 1, k)
  OBVIOUS
<1>6. p \in Seq(Byte) /\ Len(p) <= 4
  <2>1. SizeBytes(d.size) \in Seq(Byte) /\ Len(SizeBytes(d.size)) = 4
    BY <1>3, SizeFits
  <2>2. k \in Nat /\ k <= Len(SizeBytes(d.size)) /\ k <= 4
    BY <2>1
  <2>3. p \in Seq(Byte) /\ Len(p) = k
    BY <1>5, <2>1, <2>2, Prefix
  <2>4. QED
    BY <2>2, <2>3
<1>7. PICK g : g = Put(flash, d.base - AlignTo, p)
  OBVIOUS
<1>8. /\ Program(g) /\ steps' = steps + 1 /\ Restarted /\ files' = files
      /\ torn' = IF torn = "no" THEN "yes" ELSE torn
  BY <1>1, <1>5, <1>7 DEF PowerLossInClose, CountStep, Interrupted
<1>9. flash' = g /\ g \in [Addr -> Byte] /\ twice' \in {"no", "yes"}
  BY <1>4, <1>6, <1>7, <1>8, PutType, Programmed
<1>10. ASSUME torn' # "spoilt"
       PROVE  twice' = "no" /\ \E R \in SUBSET Records, e \in Nat :
                /\ IsChain(R, e) /\ Kept(flash', files', fds, R)
                /\ torn' = "no" => ErasedFrom(flash', e)
  <2>1. torn = "no" /\ twice = "no" /\ torn' = "yes"
    BY <1>3, <1>8, <1>10 DEF IInv
  <2>2. PICK R \in SUBSET Records, e \in Nat : Safe(R, e)
    BY <2>1 DEF IInv
  <2>3. Unfinished(flash, files, e, d) /\ IsChain(R, e) /\ Kept(flash, files, fds, R)
    BY <1>1, <1>3, <2>1, <2>2 DEF Safe
  <2>4. /\ \A x \in Addr : flash[x] \in {Erased, g[x]}
        /\ \A x \in Addr : x < e => g[x] = flash[x]
    <3>1. OnlyBehind(flash, Put(flash, d.base - AlignTo, p), e)
      BY <1>6, <2>3, SizeSpace
    <3>2. QED
      BY <1>7, <3>1 DEF OnlyBehind
  <2>5. twice' = "no"
    BY <1>4, <1>8, <2>1, <2>4, Programmed
  <2>6. Kept(g, files, fds, R)
    BY <2>3, <2>4, KeptFrame
  <2>7. Kept(flash', files', fds, R)
    BY <1>8, <1>9, <2>6
  <2>8. QED
    BY <2>1, <2>3, <2>5, <2>7
<1>11. /\ files' \in [Names -> Seq(Int)] /\ steps' \in Nat /\ torn' \in {"no", "yes", "spoilt"}
  BY <1>3, <1>4, <1>8
<1>12. QED
  BY <1>8, <1>9, <1>10, <1>11, ResetIInv

-----------------------------------------------------------------------------
(* A record behind the list makes the list longer. *)
LEMMA ChainGrows ==
  ASSUME NEW R, NEW e, IsChain(R, e), NEW q \in Records, q.at = e,
         EndOf(q) <= MaxSize - AlignTo
  PROVE  IsChain(R \cup {q}, EndOf(q))
<1>1. /\ R \subseteq Records /\ e \in Nat /\ e % AlignTo = 0
      /\ e = 0 \/ \E r \in R : r.at = 0
      /\ \A r, p \in R : r.at < p.at => EndOf(r) <= p.at
      /\ \A r, p \in R : r.at = p.at => r = p
  BY DEF IsChain
<1>2. EndOf(q) \in Nat /\ EndOf(q) % AlignTo = 0 /\ e + 10 <= EndOf(q)
  BY RecordParts
<1>3. PICK E \in Nat : E = EndOf(q) /\ e + 10 <= E
  BY <1>2
<1>4. ASSUME NEW r \in R
      PROVE  /\ r.at \in Nat /\ EndOf(r) \in Nat /\ r.at + 10 <= EndOf(r)
             /\ r.at % AlignTo = 0 /\ EndOf(r) <= e
             /\ EndOf(r) = e \/ \E p \in R : p.at = EndOf(r)
  <2>1. r \in Records
    BY <1>1
  <2>2. QED
    BY <2>1, RecordParts DEF IsChain
<1>5. ASSUME NEW r \in R PROVE r.at < e /\ EndOf(r) <= E
  <2>1. r.at \in Nat /\ EndOf(r) \in Nat /\ r.at + 10 <= EndOf(r) /\ EndOf(r) <= e
    BY <1>4
  <2>2. QED
    BY <1>1, <1>3, <2>1
<1>6. ASSUME NEW r \in R \cup {q}
      PROVE  /\ r.at % AlignTo = 0 /\ EndOf(r) <= E
             /\ EndOf(r) = E \/ \E p \in R \cup {q} : p.at = EndOf(r)
  <2>1. CASE r = q
    BY <1>1, <1>3, <2>1
  <2>2. CASE r \in R
    <3>1. EndOf(r) = e => q.at = EndOf(r)
      OBVIOUS
    <3>2. QED
      BY <1>4, <1>5, <2>2, <3>1
  <2>3. QED
    BY <2>1, <2>2
<1>7. ASSUME NEW r \in R \cup {q}, NEW p \in R \cup {q}
      PROVE  (r.at < p.at => EndOf(r) <= p.at) /\ (r.at = p.at => r = p)
  <2>1. CASE r \in R /\ p \in R
    BY <1>1, <2>1
  <2>2. CASE r \in R /\ p = q
    <3>1. r.at \in Nat /\ r.at < e /\ EndOf(r) <= e
      BY <1>4, <1>5, <2>2
    <3>2. QED
      BY <1>1, <2>2, <3>1
  <2>3. CASE r = q /\ p \in R
    <3>1. p.at \in Nat /\ p.at < e
      BY <1>4, <1>5, <2>3
    <3>2. QED
      BY <1>1, <2>3, <3>1
  <2>4. CASE r = q /\ p = q
    <3>1. ~(e < e)
      BY <1>1
    <3>2. QED
      BY <2>4, <3>1
  <2>5. QED
    BY <2>1, <2>2, <2>3, <2>4
<1>8. \E r \in R \cup {q} : r.at = 0
  BY <1>1
<1>9. QED
  BY <1>1, <1>2, <1>3, <1>6, <1>7, <1>8 DEF IsChain

(* Once its size is written, the file is a record. *)
LEMMA RecordClosed ==
  ASSUME NEW fl, NEW fi, NEW e \in Nat, NEW d, Unfinished(fl, fi, e, d),
         d.base + d.size <= MaxSize - AlignTo,
         NEW q, q = [at |-> e, name |-> d.name, data |-> d.of],
         NEW g, g = Put(fl, d.base - AlignTo, SizeBytes(d.size))
  PROVE  /\ q \in Records /\ EndOf(q) <= MaxSize - AlignTo /\ EndOf(q) \in Nat
         /\ Holds(g, q) /\ Live(g, q) /\ ErasedFrom(g, EndOf(q))
<1>1. /\ d.name \in Names /\ Len(d.name) \in Nat /\ d.base = NewBase(e, d.name) /\ d.base \in Nat
      /\ e + Len(d.name) + 9 <= d.base /\ d.base % AlignTo = 0
      /\ d.of \in Seq(Byte) /\ d.size = Len(d.of) /\ d.size \in Nat
  BY UnfinishedParts
<1>2. PICK b \in Nat, z \in Nat, n \in Names, o \in Seq(Byte) :
        /\ b = d.base /\ z = d.size /\ n = d.name /\ o = d.of /\ Len(o) = z
        /\ b = NewBase(e, n)
  BY <1>1
<1>3. /\ Len(n) \in Nat /\ e + Len(n) + 9 <= b /\ b + z <= MaxSize - 4
      /\ MaxSize \in Nat /\ MaxSize % 4 = 0
  BY <1>1, <1>2, ConstantFacts DEF AlignTo
<1>4. /\ Named(fl, e, n) /\ HasData(fl, b, o) /\ ErasedFrom(fl, b + z)
      /\ \A x \in Addr : e + Len(n) < x /\ x < b => fl[x] = Erased
  BY <1>2 DEF Unfinished
<1>5. q \in Records /\ q.at = e /\ q.name = n /\ q.data = o
  BY <1>2 DEF Records, Unfinished
<1>6. PICK D \in Nat, E \in Nat :
        /\ D = DelOf(q) /\ E = EndOf(q) /\ BaseOf(q) = b /\ b = D + 8
        /\ e + Len(n) + 1 <= D /\ b + z <= E
  <2>1. BaseOf(q) = b
    BY <1>2, <1>5 DEF BaseOf
  <2>2. /\ DelOf(q) \in Nat /\ EndOf(q) \in Nat /\ BaseOf(q) = DelOf(q) + 8
        /\ e + Len(n) + 1 <= DelOf(q) /\ BaseOf(q) + Len(o) <= EndOf(q)
    BY <1>5, RecordParts
  <2>3. QED
    BY <1>2, <2>1, <2>2
<1>7. E <= MaxSize - AlignTo
  <2>1. b + z \in Int /\ MaxSize - AlignTo \in Int /\ b + z <= MaxSize - AlignTo
        /\ (MaxSize - AlignTo) % AlignTo = 0
    BY <1>3 DEF AlignTo
  <2>2. RoundUp(b + z) <= MaxSize - AlignTo
    BY <2>1, RoundedBelow
  <2>3. E = RoundUp(b + z)
    BY <1>2, <1>5, <1>6 DEF EndOf
  <2>4. QED
    BY <2>2, <2>3
<1>8. PICK s \in Seq(Byte) : s = SizeBytes(z) /\ Len(s) = 4
  BY <1>1, <1>2, SizeFits
<1>9. z <= TopSize
  BY <1>1, <1>2, SizeFits
<1>10. PICK a \in Nat : a = D + 4 /\ a + 4 = b /\ a < b /\ d.base - AlignTo = a
  <2>1. b - 4 = D + 4 /\ D + 4 \in Nat /\ D + 4 < b /\ (D + 4) + 4 = b
    <3>1. b = D + 8
      BY <1>6
    <3>2. QED
      BY ONLY D \in Nat, b \in Nat, <3>1
  <2>2. d.base - AlignTo = b - 4
    BY <1>2 DEF AlignTo
  <2>3. QED
    BY <2>1, <2>2
<1>11. PICK k \in Nat : k = Len(n) /\ e + k < D
  <2>1. Len(n) \in Nat /\ e + Len(n) + 1 <= D
    BY <1>3, <1>6
  <2>2. PICK k \in Nat : k = Len(n) /\ e + k + 1 <= D
    BY <2>1
  <2>3. e + k < D
    BY <2>2
  <2>4. QED
    BY <2>2, <2>3
<1>12. D < a /\ b <= b + z /\ b + z < MaxSize /\ MaxSize \in Nat
  <2>1. b + z <= MaxSize - 4 /\ MaxSize \in Nat
    BY <1>3
  <2>2. D < a
    BY <1>10
  <2>3. b <= b + z /\ b + z < MaxSize
    BY <2>1
  <2>4. QED
    BY <2>1, <2>2, <2>3
<1>13. e + k < D /\ D < a /\ a < b /\ a + 4 = b /\ b <= b + z /\ b + z < MaxSize /\ MaxSize \in Nat
  BY <1>10, <1>11, <1>12
<1>14. ASSUME NEW x \in Nat, x < MaxSize, x < a \/ b <= x PROVE g[x] = fl[x]
  <2>1. x \in Addr /\ a \in Int
    BY <1>3, <1>14 DEF Addr
  <2>2. x < a \/ a + Len(s) <= x
    BY <1>8, <1>10, <1>14
  <2>3. Put(fl, a, s)[x] = fl[x]
    BY <2>1, <2>2, PutElsewhere
  <2>4. QED
    BY <1>2, <1>8, <1>10, <2>3
<1>15. Named(g, e, n)
  <2>1. ASSUME NEW j \in 1 .. k PROVE e + j - 1 \in Nat /\ e + j - 1 < a /\ e + j - 1 < MaxSize
    BY <1>13
  <2>2. e + k \in Nat /\ e + k < a /\ e + k < MaxSize
    BY <1>13
  <2>3. QED
    BY <1>4, <1>14, <1>11, <2>1, <2>2 DEF Named
<1>16. HasData(g, b, o)
  <2>1. ASSUME NEW j \in 1 .. z PROVE b + j - 1 \in Nat /\ b <= b + j - 1 /\ b + j - 1 < MaxSize
    BY <1>13
  <2>2. QED
    BY <1>2, <1>4, <1>14, <2>1 DEF HasData
<1>17. g[D] = Erased
  <2>1. D < MaxSize /\ D \in Addr /\ D < b
    BY <1>13 DEF Addr
  <2>2. QED
    BY <1>4, <1>14, <1>11, <1>13, <2>1
<1>18. SizeAt(g, a) = z
  <2>1. HasData(g, a, s)
    <3>1. a + Len(s) <= MaxSize
      BY <1>8, <1>13
    <3>2. HasData(Put(fl, a, s), a, s)
      BY <3>1, PutAll
    <3>3. QED
      BY <1>2, <1>8, <1>10, <3>2
  <2>2. \A j \in 1 .. 4 : g[a + j - 1] = SizeBytes(z)[j]
    BY <1>8, <2>1 DEF HasData
  <2>3. a + 3 < MaxSize
    BY <1>13
  <2>4. QED
    BY <1>9, <2>2, <2>3, SizeWritten
<1>19. ErasedFrom(g, E)
  <2>1. SUFFICES ASSUME NEW x \in Addr, E <= x PROVE g[x] = Erased
    BY DEF ErasedFrom
  <2>2. x \in Nat /\ x < MaxSize
    BY <1>3 DEF Addr
  <2>3. b <= x /\ b + z <= x
    <3>1. b + z <= E /\ E <= x
      BY <1>6, <2>1
    <3>2. QED
      BY ONLY b \in Nat, z \in Nat, E \in Nat, <2>2, <3>1
  <2>4. QED
    BY <1>4, <1>14, <2>2, <2>3 DEF ErasedFrom
<1>20. Holds(g, q)
  <2>1. SizeAt(g, DelOf(q) + AlignTo) = Len(q.data)
    BY <1>2, <1>5, <1>6, <1>10, <1>18 DEF AlignTo
  <2>2. Named(g, q.at, q.name) /\ HasData(g, BaseOf(q), q.data) /\ g[DelOf(q)] = Erased
    BY <1>5, <1>6, <1>15, <1>16, <1>17
  <2>3. QED
    BY <2>1, <2>2 DEF Holds
<1>21. Live(g, q)
  <2>1. g[DelOf(q)] = 255
    BY <1>6, <1>17 DEF Erased
  <2>2. QED
    BY ONLY <2>1 DEF Live, Deleted
<1>22. QED
  BY <1>5, <1>6, <1>7, <1>19, <1>20, <1>21

(* The list with the new record holds the files with the new one. *)
LEMMA FileClosed ==
  ASSUME NEW fi \in [Names -> Seq(Int)], NEW g, NEW fd, NEW R, Kept(g, fi, fd, R),
         NEW q \in Records, Holds(g, q), Live(g, q), fi[q.name] = NoFile
  PROVE  Kept(g, [fi EXCEPT ![q.name] = q.data], fd, R \cup {q})
<1>1. (\A r \in R : Holds(g, r)) /\ Stored(g, fi, R) /\ ReadersKeep(fd, R)
  BY DEF Kept
<1>2. q.name \in Names /\ q.data \in Seq(Byte)
  BY DEF Records, ShortNames
<1>3. q.data # NoFile
  <2>1. SUFFICES ASSUME q.data = NoFile PROVE FALSE
    OBVIOUS
  <2>2. NoFile \in Seq(Byte) /\ 1 \in 1 .. Len(NoFile) /\ NoFile[1] = -1
    BY <1>2, <2>1 DEF NoFile
  <2>3. -1 \in Byte
    BY <2>2, ElementIn
  <2>4. QED
    BY <2>3 DEF Byte
<1>4. PICK hi : hi = [fi EXCEPT ![q.name] = q.data]
  OBVIOUS
<1>5. ASSUME NEW m \in Names
      PROVE  IF hi[m] = NoFile THEN NotThere(g, R \cup {q}, m)
             ELSE \E p \in R \cup {q} : IsTheFile(g, R \cup {q}, m, p) /\ p.data = hi[m]
  <2>1. CASE m = q.name
    <3>1. hi[m] = q.data
      BY <1>2, <1>4, <2>1
    <3>2. NotThere(g, R, m)
      BY <1>1, <1>2, <2>1 DEF Stored
    <3>3. IsTheFile(g, R \cup {q}, m, q)
      BY <2>1, <3>2 DEF IsTheFile, NotThere
    <3>4. QED
      BY <1>3, <3>1, <3>3
  <2>2. CASE m # q.name
    <3>1. hi[m] = fi[m]
      BY <1>4, <2>2
    <3>2. CASE fi[m] = NoFile
      <4>1. NotThere(g, R, m)
        BY <1>1, <3>2 DEF Stored
      <4>2. NotThere(g, R \cup {q}, m)
        BY <2>2, <4>1 DEF NotThere
      <4>3. QED
        BY <3>1, <3>2, <4>2
    <3>3. CASE fi[m] # NoFile
      <4>1. PICK p \in R : IsTheFile(g, R, m, p) /\ p.data = fi[m]
        BY <1>1, <3>3 DEF Stored
      <4>2. IsTheFile(g, R \cup {q}, m, p)
        BY <2>2, <4>1 DEF IsTheFile
      <4>3. QED
        BY <3>1, <3>3, <4>1, <4>2
    <3>4. QED
      BY <3>2, <3>3
  <2>3. QED
    BY <2>1, <2>2
<1>6. ReadersKeep(fd, R \cup {q})
  BY <1>1 DEF ReadersKeep
<1>7. Kept(g, hi, fd, R \cup {q})
  BY <1>1, <1>5, <1>6 DEF Kept, Stored
<1>8. QED
  BY <1>4, <1>7

(* A descriptor less reads nothing else. *)
LEMMA FewerReaders ==
  ASSUME NEW fd \in [Fds -> Descs], NEW f \in Fds, NEW R, ReadersKeep(fd, R)
  PROVE  ReadersKeep([fd EXCEPT ![f] = NoFd], R)
<1>1. PICK g : g = [fd EXCEPT ![f] = NoFd]
  OBVIOUS
<1>2. g[f] = NoFd /\ \A h \in Fds : h # f => g[h] = fd[h]
  BY <1>1
<1>3. g[f].mode # "r"
  BY <1>2, NoFdFacts
<1>4. ReadersKeep(g, R)
  BY <1>2, <1>3 DEF ReadersKeep
<1>5. QED
  BY <1>1, <1>4

(* A file read is closed. *)
LEMMA CloseReadIInv ==
  ASSUME IInv, NEW f \in Fds, romfs_close_r(f), fds[f].mode = "r"
  PROVE  IInv'
<1>1. /\ TypeOK /\ TableOK(fds, num_fd, writing) /\ fds \in [Fds -> Descs]
      /\ writing \in {"yes", "no"}
  BY DEF IInv, TypeOK
<1>2. /\ fds[f] # NoFd /\ fds' = [fds EXCEPT ![f] = NoFd] /\ num_fd' = num_fd - 1
      /\ UNCHANGED <<flash, writing, files, torn, twice, steps>>
  BY DEF romfs_close_r
<1>3. fds' \in [Fds -> Descs] /\ num_fd' \in Nat /\ TableOK(fds', num_fd', writing')
  <2>1. /\ [fds EXCEPT ![f] = NoFd] \in [Fds -> Descs] /\ num_fd - 1 \in Nat
        /\ TableOK([fds EXCEPT ![f] = NoFd], num_fd - 1,
                   IF fds[f].mode = "r" THEN writing ELSE "no")
    BY <1>1, <1>2, TableRemove
  <2>2. QED
    BY <1>2, <2>1
<1>4. TypeOK'
  BY <1>1, <1>2, <1>3 DEF TypeOK
<1>5. ASSUME NEW R, NEW e, Safe(R, e) PROVE Safe(R, e)'
  <2>1. IsChain(R, e) /\ Kept(flash, files, fds, R) /\ ReadersKeep(fds, R)
    BY <1>5 DEF Safe, Kept
  <2>2. ReadersKeep(fds', R)
    BY <1>1, <1>2, <2>1, FewerReaders
  <2>3. Kept(flash', files', fds', R)
    BY <1>2, <2>1, <2>2 DEF Kept
  <2>4. fds'[f] = NoFd /\ \A h \in Fds : h # f => fds'[h] = fds[h]
    BY <1>1, <1>2
  <2>5. Writers(fds') = Writers(fds) /\ \A h \in Writers(fds) : fds'[h] = fds[h]
    BY <2>4, NoFdFacts DEF Writers
  <2>6. QED
    BY <1>2, <1>5, <2>3, <2>5 DEF Safe
<1>6. QED
  BY <1>2, <1>3, <1>4, <1>5 DEF IInv

(* A file written is closed: its record joins the list. *)
LEMMA CloseWriteIInv ==
  ASSUME IInv, NEW f \in Fds, romfs_close_r(f), fds[f].mode # "r"
  PROVE  IInv'
<1>1. /\ TypeOK /\ TableOK(fds, num_fd, writing) /\ fds \in [Fds -> Descs]
      /\ writing \in {"yes", "no"} /\ flash \in [Addr -> Byte] /\ twice \in {"no", "yes"}
      /\ steps \in Nat /\ files \in [Names -> Seq(Int)]
  BY DEF IInv, TypeOK
<1>2. PICK d : d = fds[f]
  OBVIOUS
<1>3. d \in Descs /\ d.mode \in {"w", "a"}
  <2>1. d \in Descs /\ d # NoFd /\ d.mode # "free" /\ d.mode # "r"
    BY <1>1, <1>2 DEF romfs_close_r, TableOK
  <2>2. QED
    BY <2>1 DEF Descs
<1>4. /\ d.name \in Names /\ d.base \in Nat /\ d.size \in Nat
      /\ d.base + d.size <= MaxSize - AlignTo
      /\ Writers(fds) = {f} /\ torn \in {"no", "spoilt"}
  BY <1>2, <1>3, WriterFacts
<1>5. PICK g : g = Put(flash, d.base - AlignTo, SizeBytes(d.size))
  OBVIOUS
<1>6. /\ d # NoFd /\ fds' = [fds EXCEPT ![f] = NoFd] /\ num_fd' = num_fd - 1
      /\ Program(g) /\ writing' = "no" /\ files' = [files EXCEPT ![d.name] = d.of]
      /\ torn' = torn /\ steps' = steps + 1
  BY <1>2, <1>5 DEF romfs_close_r, CountStep
<1>7. fds' \in [Fds -> Descs] /\ num_fd' \in Nat /\ TableOK(fds', num_fd', writing')
  <2>1. /\ [fds EXCEPT ![f] = NoFd] \in [Fds -> Descs] /\ num_fd - 1 \in Nat
        /\ TableOK([fds EXCEPT ![f] = NoFd], num_fd - 1,
                   IF fds[f].mode = "r" THEN writing ELSE "no")
    BY <1>1, <1>2, <1>6, TableRemove
  <2>2. QED
    BY <1>6, <2>1
<1>8. flash' = g /\ g \in [Addr -> Byte] /\ twice' \in {"no", "yes"}
  BY <1>1, <1>4, <1>5, <1>6, SizeFits, PutType, Programmed
<1>9. files' \in [Names -> Seq(Int)]
  <2>1. d.of \in Seq(Int)
    BY <1>3 DEF Descs
  <2>2. QED
    BY <1>1, <1>6, <2>1
<1>10. TypeOK'
  BY <1>1, <1>6, <1>7, <1>8, <1>9 DEF TypeOK
<1>11. ASSUME torn' # "spoilt"
       PROVE  twice' = "no" /\ \E R \in SUBSET Records, e \in Nat : Safe(R, e)'
  <2>1. torn = "no" /\ twice = "no" /\ torn' = "no"
    BY <1>4, <1>6, <1>11 DEF IInv
  <2>2. PICK R \in SUBSET Records, e \in Nat : Safe(R, e)
    BY <2>1 DEF IInv
  <2>3. Unfinished(flash, files, e, d) /\ IsChain(R, e) /\ Kept(flash, files, fds, R)
    BY <1>2, <1>4, <2>1, <2>2 DEF Safe
  <2>4. /\ \A x \in Addr : flash[x] \in {Erased, g[x]}
        /\ \A x \in Addr : x < e => g[x] = flash[x]
    <3>1. SizeBytes(d.size) \in Seq(Byte) /\ Len(SizeBytes(d.size)) <= 4
      <4>1. SizeBytes(d.size) \in Seq(Byte) /\ Len(SizeBytes(d.size)) = 4
        BY <1>4, SizeFits
      <4>2. QED
        BY <4>1
    <3>2. OnlyBehind(flash, Put(flash, d.base - AlignTo, SizeBytes(d.size)), e)
      BY <2>3, <3>1, SizeSpace
    <3>3. QED
      BY <1>5, <3>2 DEF OnlyBehind
  <2>5. twice' = "no"
    BY <1>1, <1>6, <2>1, <2>4, Programmed
  <2>6. Kept(g, files, fds, R)
    BY <2>3, <2>4, KeptFrame
  <2>7. PICK q : q = [at |-> e, name |-> d.name, data |-> d.of]
    OBVIOUS
  <2>8. /\ q \in Records /\ EndOf(q) <= MaxSize - AlignTo /\ EndOf(q) \in Nat
        /\ Holds(g, q) /\ Live(g, q) /\ ErasedFrom(g, EndOf(q))
    BY <1>4, <1>5, <2>3, <2>7, RecordClosed
  <2>9. q.at = e /\ q.name = d.name /\ q.data = d.of /\ files[q.name] = NoFile
    BY <2>3, <2>7 DEF Unfinished
  <2>10. IsChain(R \cup {q}, EndOf(q))
    BY <2>3, <2>8, <2>9, ChainGrows
  <2>11. Kept(g, [files EXCEPT ![q.name] = q.data], fds, R \cup {q})
    BY <1>1, <2>6, <2>8, <2>9, FileClosed
  <2>12. ReadersKeep(fds', R \cup {q})
    <3>1. ReadersKeep(fds, R \cup {q})
      BY <2>11 DEF Kept
    <3>2. QED
      BY <1>1, <1>6, <3>1, FewerReaders
  <2>13. Kept(flash', files', fds', R \cup {q})
    BY <1>6, <1>8, <2>9, <2>11, <2>12 DEF Kept
  <2>14. Writers(fds') = {}
    BY <1>6, <1>7 DEF TableOK
  <2>15. Safe(R \cup {q}, EndOf(q))'
    BY <1>8, <2>8, <2>10, <2>13, <2>14 DEF Safe
  <2>16. R \cup {q} \in SUBSET Records
    BY <2>8
  <2>17. QED
    BY <2>5, <2>8, <2>15, <2>16
<1>12. QED
  BY <1>6, <1>7, <1>10, <1>11 DEF IInv

-----------------------------------------------------------------------------
(* A reset between two operations. *)
LEMMA QuietResetIInv ==
  ASSUME IInv, Restarted, CountStep, Interrupted(writing = "yes"),
         UNCHANGED <<flash, files, twice>>
  PROVE  IInv'
<1>1. /\ flash \in [Addr -> Byte] /\ twice \in {"no", "yes"} /\ steps \in Nat
      /\ files \in [Names -> Seq(Int)] /\ torn \in {"no", "yes", "spoilt"}
      /\ writing \in {"yes", "no"}
  BY DEF IInv, TypeOK
<1>2. /\ steps' = steps + 1 /\ flash' = flash /\ files' = files /\ twice' = twice
      /\ torn' = IF writing = "yes" /\ torn = "no" THEN "yes" ELSE torn
  BY DEF CountStep, Interrupted
<1>3. ASSUME torn' # "spoilt"
      PROVE  twice' = "no" /\ \E R \in SUBSET Records, e \in Nat :
               /\ IsChain(R, e) /\ Kept(flash', files', fds, R)
               /\ torn' = "no" => ErasedFrom(flash', e)
  <2>1. torn # "spoilt" /\ (torn' = "no" => torn = "no" /\ writing = "no")
    BY <1>1, <1>2, <1>3
  <2>2. twice = "no"
    BY <2>1 DEF IInv
  <2>3. PICK R \in SUBSET Records, e \in Nat : Safe(R, e)
    BY <2>1 DEF IInv
  <2>4. IsChain(R, e) /\ Kept(flash', files', fds, R)
    BY <1>2, <2>3 DEF Safe
  <2>5. torn' = "no" => ErasedFrom(flash', e)
    BY <1>2, <2>1, <2>3 DEF Safe
  <2>6. QED
    BY <1>2, <2>2, <2>4, <2>5
<1>4. torn' \in {"no", "yes", "spoilt"} /\ steps' \in Nat
  BY <1>1, <1>2
<1>5. QED
  BY <1>1, <1>2, <1>3, <1>4, ResetIInv

(* A search is lost. *)
LEMMA SearchLostIInv ==
  ASSUME IInv, NEW n \in Names, SearchLost(n)
  PROVE  IInv'
<1>1. Restarted /\ CountStep
  BY DEF SearchLost
<1>2. CASE Interrupted(writing = "yes") /\ UNCHANGED <<flash, twice, files>>
  BY <1>1, <1>2, QuietResetIInv
<1>3. CASE /\ MayCreate(n, "w") /\ Program(AfterDelete(n))
           /\ files' = [files EXCEPT ![n] = NoFile]
           /\ torn' = IF Spoils(FALSE, n) THEN "spoilt" ELSE torn
  <2>1. /\ TypeOK /\ flash \in [Addr -> Byte] /\ twice \in {"no", "yes"} /\ steps \in Nat
        /\ files \in [Names -> Seq(Int)] /\ torn \in {"no", "yes", "spoilt"} /\ writing = "no"
    BY <1>3 DEF IInv, TypeOK, MayCreate
  <2>2. PICK cl : cl = AfterDelete(n)
    OBVIOUS
  <2>3. flash' = cl /\ cl \in [Addr -> Byte] /\ twice' \in {"no", "yes"}
    BY <1>3, <2>1, <2>2, DeletedType, Programmed
  <2>4. files' \in [Names -> Seq(Int)] /\ torn' \in {"no", "yes", "spoilt"} /\ steps' \in Nat
    <3>1. NoFile \in Seq(Int)
      BY DEF NoFile
    <3>2. files' \in [Names -> Seq(Int)] /\ torn' \in {"no", "yes", "spoilt"}
      BY <1>3, <2>1, <3>1
    <3>3. steps' \in Nat
      BY <1>1, <2>1 DEF CountStep
    <3>4. QED
      BY <3>2, <3>3
  <2>5. ASSUME torn' # "spoilt"
        PROVE  twice' = "no" /\ \E R \in SUBSET Records, e \in Nat :
                 /\ IsChain(R, e) /\ Kept(flash', files', fds, R)
                 /\ torn' = "no" => ErasedFrom(flash', e)
    <3>1. torn' = torn /\ torn # "spoilt" /\ ~((torn # "no" \/ n \notin ShortNames) /\ Phantom(n))
      BY <1>3, <2>5, ConstantFacts DEF Spoils, ShortNames, Sought
    <3>2. twice = "no"
      BY <3>1 DEF IInv
    <3>3. PICK R \in SUBSET Records, e \in Nat : Safe(R, e)
      BY <3>1 DEF IInv
    <3>4. OnlyGone(flash, cl, files, fds, R, e, n)
      BY <2>1, <2>2, <3>1, <3>3, Deletion
    <3>5. twice' = "no"
      BY <1>3, <2>1, <2>2, <3>2, <3>4, Programmed DEF OnlyGone
    <3>6. Kept(flash', files', fds, R)
      BY <1>3, <2>3, <3>4 DEF OnlyGone
    <3>7. torn' = "no" => ErasedFrom(flash', e)
      BY <2>1, <2>3, <3>1, <3>3, <3>4 DEF OnlyGone, Safe, ErasedFrom
    <3>8. IsChain(R, e)
      BY <3>3 DEF Safe
    <3>9. QED
      BY <3>5, <3>6, <3>7, <3>8
  <2>6. QED
    BY <1>1, <2>3, <2>4, <2>5, ResetIInv
<1>4. QED
  BY <1>2, <1>3 DEF SearchLost

(* Nothing written changes nothing. *)
LEMMA PutNothing ==
  ASSUME NEW fl \in [Addr -> Byte], NEW a, NEW s \in Seq(Byte), Len(s) = 0
  PROVE  Put(fl, a, s) = fl
<1>1. DOMAIN s = {}
  OBVIOUS
<1>2. QED
  BY <1>1 DEF Put

(* The power is lost while a file is opened for writing. *)
LEMMA LossInOpenIInv ==
  ASSUME IInv, NEW n \in Names, NEW k \in 0 .. Len(n), PowerLossInOpen(n, k)
  PROVE  IInv'
<1>1. /\ TypeOK /\ flash \in [Addr -> Byte] /\ twice \in {"no", "yes"} /\ steps \in Nat
      /\ files \in [Names -> Seq(Int)] /\ torn \in {"no", "yes", "spoilt"} /\ writing = "no"
  BY DEF IInv, TypeOK, PowerLossInOpen, MayCreate
<1>2. PICK cl : cl = AfterDelete(n)
  OBVIOUS
<1>3. PICK a : a = FirstFree(cl).at
  OBVIOUS
<1>4. PICK s : s = SubSeq(Append(n, 0), 1, k)
  OBVIOUS
<1>5. s \in Seq(Byte) /\ Len(s) = k /\ k \in Nat
  <2>1. Append(n, 0) \in Seq(Byte) /\ Len(Append(n, 0)) = Len(n) + 1 /\ Len(n) \in Nat
    BY NameBytes, ConstantFacts
  <2>2. k \in Nat /\ k <= Len(Append(n, 0))
    BY <2>1
  <2>3. QED
    BY <1>4, <2>1, <2>2, Prefix
<1>6. PICK g : g = Put(cl, a, s)
  OBVIOUS
<1>7. /\ Program(g) /\ steps' = steps + 1 /\ Restarted
      /\ files' = [files EXCEPT ![n] = NoFile]
      /\ torn' = IF Spoils(k > 0, n) THEN "spoilt"
                 ELSE IF k > 0 /\ torn = "no" THEN "yes" ELSE torn
  BY <1>2, <1>3, <1>4, <1>6 DEF PowerLossInOpen, CountStep, Interrupted
<1>8. cl \in [Addr -> Byte]
  BY <1>1, <1>2, DeletedType
<1>9. flash' = g /\ g \in [Addr -> Byte] /\ twice' \in {"no", "yes"}
  BY <1>1, <1>5, <1>6, <1>7, <1>8, PutType, Programmed
<1>10. files' \in [Names -> Seq(Int)] /\ torn' \in {"no", "yes", "spoilt"} /\ steps' \in Nat
  <2>1. NoFile \in Seq(Int)
    BY DEF NoFile
  <2>2. QED
    BY <1>1, <1>7, <2>1
<1>11. ASSUME torn' # "spoilt"
       PROVE  twice' = "no" /\ \E R \in SUBSET Records, e \in Nat :
                /\ IsChain(R, e) /\ Kept(flash', files', fds, R)
                /\ torn' = "no" => ErasedFrom(flash', e)
  <2>1. torn # "spoilt" /\ ~Spoils(k > 0, n)
    BY <1>7, <1>11
  <2>2. twice = "no"
    BY <2>1 DEF IInv
  <2>3. PICK R \in SUBSET Records, e \in Nat : Safe(R, e)
    BY <2>1 DEF IInv
  <2>4. IsChain(R, e)
    BY <2>3 DEF Safe
  <2>5. CASE torn = "no"
    <3>1. /\ FirstFree(cl) = [res |-> "not_found", at |-> e]
          /\ Begun(Put(cl, e, s), R, e, n, Len(s))
      <4>1. n \in ShortNames \/ ~Phantom(n)
        BY <2>1, ConstantFacts DEF Spoils, ShortNames, Sought
      <4>2. QED
        BY <1>1, <1>2, <1>5, <2>3, <2>5, <4>1, NewRecord
    <3>2. a = e
      BY <1>3, <3>1
    <3>3. Begun(g, R, e, n, k)
      BY <1>5, <1>6, <3>1, <3>2
    <3>4. twice' = "no"
      BY <1>1, <1>7, <2>2, <3>3, Programmed DEF Begun
    <3>5. Kept(flash', files', fds, R)
      BY <1>7, <1>9, <3>3 DEF Begun
    <3>6. ASSUME torn' = "no" PROVE ErasedFrom(flash', e)
      <4>1. ~(k > 0)
        BY <1>7, <2>1, <2>5, <3>6
      <4>2. k = 0 /\ e + 0 = e
        BY <1>5, <4>1
      <4>3. QED
        BY <1>9, <3>3, <4>2 DEF Begun, ErasedFrom
    <3>7. QED
      BY <2>4, <3>4, <3>5, <3>6
  <2>6. CASE torn # "no"
    <3>1. ~(k > 0) /\ ~Phantom(n) /\ torn' = torn
      BY <1>7, <2>1, <2>6 DEF Spoils
    <3>2. Len(s) = 0
      BY <1>5, <3>1
    <3>3. g = cl
      BY <1>5, <1>6, <1>8, <3>2, PutNothing
    <3>4. OnlyGone(flash, cl, files, fds, R, e, n)
      BY <1>1, <1>2, <2>3, <3>1, Deletion
    <3>5. twice' = "no"
      BY <1>1, <1>7, <2>2, <3>3, <3>4, Programmed DEF OnlyGone
    <3>6. Kept(flash', files', fds, R)
      BY <1>7, <1>9, <3>3, <3>4 DEF OnlyGone
    <3>7. QED
      BY <2>4, <2>6, <3>1, <3>5, <3>6
  <2>7. QED
    BY <2>5, <2>6
<1>12. QED
  BY <1>7, <1>9, <1>10, <1>11, ResetIInv

-----------------------------------------------------------------------------
(* The sector of a lower address is no higher. *)
LEMMA SectorMonotone ==
  ASSUME NEW x \in Nat, NEW e \in Nat, NEW k \in Nat \ {0}, x <= e
  PROVE  x \div k <= e \div k
<1>1. PICK p \in Int : p = x \div k
  OBVIOUS
<1>2. PICK q \in Int : q = e \div k
  OBVIOUS
<1>3. k * p <= x
  BY <1>1
<1>4. e < k * (q + 1)
  BY <1>2
<1>5. SUFFICES ASSUME q + 1 <= p PROVE FALSE
  BY <1>1, <1>2
<1>6. k * (q + 1) <= k * p
  BY <1>5
<1>7. k * (q + 1) \in Int /\ k * p \in Int
  OBVIOUS
<1>8. QED
  BY <1>3, <1>4, <1>6, <1>7

(* Formatting: nothing is open, and with the first sector the list is gone. *)
LEMMA FormatIInv ==
  ASSUME IInv, NEW k \in 0 .. (MaxSize - 1) \div SectorSize, wofs_format(k)
  PROVE  IInv'
<1>1. /\ TypeOK /\ TableOK(fds, num_fd, writing) /\ flash \in [Addr -> Byte]
      /\ twice \in {"no", "yes"} /\ steps \in Nat /\ torn \in {"no", "yes", "spoilt"}
      /\ writing \in {"yes", "no"}
  BY DEF IInv, TypeOK
<1>2. PICK a : a = FirstFree(flash).at
  OBVIOUS
<1>3. /\ num_fd = 0 /\ steps' = steps + 1
      /\ k <= a \div SectorSize
      /\ flash' = [x \in Addr |-> IF x \div SectorSize <= k THEN Erased ELSE flash[x]]
      /\ files' = [n \in Names |-> NoFile] /\ UNCHANGED <<fds, num_fd, writing>>
      /\ torn' = IF \A x \in Addr : flash'[x] = Erased THEN "no"
                 ELSE IF k < a \div SectorSize /\ torn = "no" THEN "yes" ELSE torn
      /\ twice' = IF \A x \in Addr : flash'[x] = Erased THEN "no" ELSE twice
  BY <1>2 DEF wofs_format, LastSector, CountStep
<1>4. flash' \in [Addr -> Byte]
  <2>1. Erased \in Byte
    BY DEF Erased, Byte
  <2>2. QED
    BY <1>1, <1>3, <2>1
<1>5. files' \in [Names -> Seq(Int)]
  <2>1. NoFile \in Seq(Int)
    BY DEF NoFile
  <2>2. QED
    BY <1>3, <2>1
<1>6. TypeOK'
  <2>1. torn' \in {"no", "yes", "spoilt"} /\ twice' \in {"no", "yes"}
    BY <1>1, <1>3
  <2>2. QED
    BY <1>1, <1>3, <1>4, <1>5, <2>1 DEF TypeOK
<1>7. \A f \in Fds : fds[f] = NoFd
  <2>1. Used(fds) \in SUBSET Fds
    BY DEF Used
  <2>2. IsFiniteSet(Used(fds)) /\ Cardinality(Used(fds)) = 0
    BY <1>1, <1>3, <2>1, FdsFinite DEF TableOK
  <2>3. Used(fds) = {}
    BY <2>2, FS_EmptySet
  <2>4. QED
    BY <2>3 DEF Used
<1>8. Writers(fds) = {} /\ writing = "no"
  <2>1. Writers(fds) = {}
    BY <1>7, NoFdFacts DEF Writers
  <2>2. QED
    BY <1>1, <2>1 DEF TableOK
<1>9. MaxSize \in Nat /\ 4 <= MaxSize /\ SectorSize \in Nat \ {0}
  BY ConstantFacts
<1>10. torn' = "no" => \A x \in Addr : flash'[x] = Erased
  <2>1. SUFFICES ASSUME torn = "no", ~(k < a \div SectorSize)
                 PROVE  \A x \in Addr : flash'[x] = Erased
    BY <1>3
  <2>2. PICK R \in SUBSET Records, e \in Nat : Safe(R, e)
    BY <2>1 DEF IInv
  <2>3. IsChain(R, e) /\ ErasedFrom(flash, e) /\ \A r \in R : Holds(flash, r)
    BY <1>8, <2>1, <2>2 DEF Safe, Kept
  <2>4. e \in Addr
    <3>1. e <= MaxSize - 4
      BY <2>3 DEF IsChain, AlignTo
    <3>2. QED
      BY <1>9, <3>1 DEF Addr
  <2>5. flash[e] = Erased
    <3>1. e <= e
      OBVIOUS
    <3>2. QED
      BY <2>3, <2>4, <3>1 DEF ErasedFrom
  <2>6. a = e
    BY <1>2, <2>3, <2>5, EndIsFound
  <2>7. ASSUME NEW x \in Addr, ~(x \div SectorSize <= k) PROVE flash[x] = Erased
    <3>1. x \in Nat
      BY <1>9 DEF Addr
    <3>2. ~(x <= e)
      <4>1. SUFFICES ASSUME x <= e PROVE FALSE
        OBVIOUS
      <4>2. x \div SectorSize <= a \div SectorSize
        BY <1>9, <2>6, <3>1, <4>1, SectorMonotone
      <4>3. PICK p \in Int, q \in Int : p = x \div SectorSize /\ q = a \div SectorSize
        BY <1>9, <2>6, <3>1
      <4>4. k \in Int
        BY <1>9
      <4>5. QED
        BY <2>1, <2>7, <4>2, <4>3, <4>4
    <3>3. e <= x
      BY <3>1, <3>2
    <3>4. QED
      BY <2>3, <3>3 DEF ErasedFrom
  <2>8. QED
    BY <1>3, <2>7
<1>11. ASSUME torn' # "spoilt" PROVE twice' = "no" /\ Safe({}, 0)'
  <2>1. IsChain({}, 0)
    BY <1>9 DEF IsChain, AlignTo
  <2>2. Kept(flash', files', fds', {})
    <3>1. Stored(flash', files', {})
      BY <1>3 DEF Stored, NotThere
    <3>2. ReadersKeep(fds', {})
      BY <1>3, <1>7, NoFdFacts DEF ReadersKeep
    <3>3. QED
      BY <3>1, <3>2 DEF Kept
  <2>3. torn' = "no" => ErasedFrom(flash', 0)
    BY <1>10 DEF ErasedFrom
  <2>4. twice' = "no"
    <3>1. CASE \A x \in Addr : flash'[x] = Erased
      BY <1>3, <3>1
    <3>2. CASE ~ \A x \in Addr : flash'[x] = Erased
      <4>1. torn # "spoilt" /\ twice' = twice
        BY <1>3, <1>11, <3>2
      <4>2. QED
        BY <4>1 DEF IInv
    <3>3. QED
      BY <3>1, <3>2
  <2>5. QED
    BY <1>3, <1>8, <2>1, <2>2, <2>3, <2>4 DEF Safe
<1>12. {} \in SUBSET Records /\ 0 \in Nat
  OBVIOUS
<1>13. TableOK(fds', num_fd', writing')
  BY <1>1, <1>3
<1>14. QED
  BY <1>3, <1>6, <1>8, <1>11, <1>12, <1>13 DEF IInv

(* Every step keeps the inductive invariant. *)
LEMMA NextIInv == IInv /\ [Next]_vars => IInv'
<1> SUFFICES ASSUME IInv, [Next]_vars PROVE IInv'
  OBVIOUS
<1>1. CASE UNCHANGED vars
  BY <1>1 DEF vars, IInv, TypeOK, Safe
<1>2. ASSUME NEW n \in Names, OpenRead(n) PROVE IInv'
  BY <1>2, OpenReadIInv
<1>3. ASSUME NEW n \in Names, NEW mode \in {"w", "a"}, OpenWrite(n, mode) PROVE IInv'
  BY <1>3, OpenWriteIInv
<1>4. ASSUME NEW f \in Fds, NEW s \in Chunks, romfs_write_r(f, s) PROVE IInv'
  BY <1>4, WriteIInv
<1>5. ASSUME NEW f \in Fds, romfs_read_r(f, MaxSize) PROVE IInv'
  BY <1>5, ReadIInv
<1>6. ASSUME NEW f \in Fds, romfs_lseek_r(f, 0) PROVE IInv'
  BY <1>6, SeekIInv
<1>7. ASSUME NEW f \in Fds, romfs_close_r(f) PROVE IInv'
  BY <1>7, CloseReadIInv, CloseWriteIInv
<1>8. ASSUME NEW f \in Fds, NEW s \in Chunks, NEW k \in 1 .. Len(s), PowerLossInWrite(f, s, k)
      PROVE  IInv'
  BY <1>8, LossInWriteIInv
<1>9. ASSUME NEW f \in Fds, NEW k \in 1 .. 3, PowerLossInClose(f, k) PROVE IInv'
  BY <1>9, LossInCloseIInv
<1>10. ASSUME NEW n \in Names, SearchLost(n) PROVE IInv'
  BY <1>10, SearchLostIInv
<1>11. ASSUME NEW k \in 0 .. (MaxSize - 1) \div SectorSize, wofs_format(k) PROVE IInv'
  BY <1>11, FormatIInv
<1>12. CASE PowerLoss
  BY <1>12, QuietResetIInv DEF PowerLoss
<1>13. ASSUME NEW n \in Names, NEW k \in 0 .. Len(n), PowerLossInOpen(n, k) PROVE IInv'
  BY <1>13, LossInOpenIInv
<1>14. QED
  BY <1>1, <1>2, <1>3, <1>4, <1>5, <1>6, <1>7, <1>8, <1>9, <1>10, <1>11, <1>12, <1>13 DEF Next

-----------------------------------------------------------------------------
(* The type of the state of the file system, and the bookkeeping of records *)
(* and descriptors that the other theorems rest on, in every state.         *)
THEOREM RecordsInOrder == Spec => []IInv
<1>1. Init => IInv
  BY InitIInv
<1>2. IInv /\ [Next]_vars => IInv'
  BY NextIInv
<1>3. QED
  BY <1>1, <1>2, PTL DEF Spec

(* The bytes of a record are its data. *)
LEMMA BytesOfRecord ==
  ASSUME NEW r \in Records, Holds(flash, r), EndOf(r) <= MaxSize
  PROVE  Bytes(BaseOf(r), Len(r.data)) = r.data
<1>1. PICK b \in Nat, s \in Seq(Byte) :
        b = BaseOf(r) /\ s = r.data /\ b + Len(s) <= MaxSize /\ HasData(flash, b, s)
  <2>1. /\ BaseOf(r) \in Nat /\ r.data \in Seq(Byte) /\ Len(r.data) \in Nat
        /\ EndOf(r) \in Nat /\ BaseOf(r) + Len(r.data) <= EndOf(r)
    BY RecordParts
  <2>2. BaseOf(r) + Len(r.data) <= MaxSize
    BY <2>1, ConstantFacts
  <2>3. HasData(flash, BaseOf(r), r.data)
    BY DEF Holds
  <2>4. QED
    BY <2>1, <2>2, <2>3
<1>2. ASSUME NEW j \in 1 .. Len(s) PROVE Read8(flash, b + j - 1) = s[j]
  <2>1. b + j - 1 \in Addr
    BY <1>1, ConstantFacts DEF Addr
  <2>2. QED
    BY <1>1, <2>1 DEF HasData, Read8
<1>3. Bytes(b, Len(s)) = [j \in 1 .. Len(s) |-> s[j]]
  BY <1>2 DEF Bytes
<1>4. s = [j \in 1 .. Len(s) |-> s[j]]
  OBVIOUS
<1>5. QED
  BY <1>1, <1>3, <1>4

(* What the code relies on: a closed file is found again with its contents, *)
(* whatever was done to other files since, and readers still see theirs, up *)
(* to a format - until a new record may run into what an interrupted write  *)
(* or format left, or a name is longer than the search reads.               *)
THEOREM FilesKeepContents == Spec => []ContentsKept
<1>1. IInv => ContentsKept
  <2>1. SUFFICES ASSUME IInv, torn # "spoilt" PROVE ContentsKept
    BY DEF ContentsKept
  <2>2. PICK R \in SUBSET Records, e \in Nat : Safe(R, e)
    BY <2>1 DEF IInv
  <2>3. /\ IsChain(R, e) /\ \A r \in R : Holds(flash, r)
        /\ Stored(flash, files, R) /\ ReadersKeep(fds, R)
    BY <2>2 DEF Safe, Kept
  <2>4. \A q \in R : q \in Records /\ EndOf(q) <= MaxSize
    BY <2>3, ChainFacts
  <2>5. ASSUME NEW n \in Names, files[n] # NoFile
        PROVE  /\ Found(n).res = "ok"
               /\ Bytes(DataAddr(flash, Found(n).at), RecordSize(flash, Found(n).at)) = files[n]
    <3>1. PICK q \in R : IsTheFile(flash, R, n, q) /\ q.data = files[n]
      BY <2>3, <2>5 DEF Stored
    <3>2. n \in Sought
      BY <2>3, <3>1, NamesInList
    <3>3. Found(n) = [res |-> "ok", at |-> q.at]
      BY <2>3, <3>1, <3>2, SearchFinds DEF Found
    <3>4. Found(n).res = "ok" /\ Found(n).at = q.at
      BY <3>3
    <3>5. DataAddr(flash, q.at) = BaseOf(q) /\ RecordSize(flash, q.at) = Len(q.data)
      BY <2>3, <2>4, Parsed
    <3>6. Bytes(BaseOf(q), Len(q.data)) = q.data
      BY <2>3, <2>4, BytesOfRecord
    <3>7. QED
      BY <3>1, <3>4, <3>5, <3>6
  <2>6. ASSUME NEW f \in Fds, fds[f].mode = "r", fds[f].of # NoFile
        PROVE  Bytes(fds[f].base, fds[f].size) = fds[f].of
    <3>1. PICK q \in R : /\ fds[f].base = BaseOf(q) /\ fds[f].size = Len(q.data)
                         /\ fds[f].of = q.data
      BY <2>3, <2>6 DEF ReadersKeep
    <3>2. Bytes(BaseOf(q), Len(q.data)) = q.data
      BY <2>3, <2>4, BytesOfRecord
    <3>3. QED
      BY <3>1, <3>2
  <2>7. QED
    BY <2>5, <2>6 DEF ContentsKept
<1>2. QED
  BY <1>1, RecordsInOrder, PTL

(* No byte of the flash changes its value twice between two erasures, even  *)
(* if formats and writes stop anywhere, until what such a format or write   *)
(* left is taken for free space or for a file, or a name is too long.       *)
THEOREM FlashWrittenOnce == Spec => []WriteOnce
<1>1. IInv => WriteOnce
  BY DEF IInv, WriteOnce
<1>2. QED
  BY <1>1, RecordsInOrder, PTL

(* While no record and no format is incomplete, every search of             *)
(* romfs_open_file for a name it reads in full ends, and tells exactly the  *)
(* closed files from the others.                                            *)
THEOREM SearchesEnd == Spec => []SearchEnds
<1>1. IInv => SearchEnds
  <2>1. SUFFICES ASSUME IInv, torn = "no", writing = "no", NEW n \in Names,
                        Len(n) <= NameLength
                 PROVE  Found(n).res = (IF files[n] = NoFile THEN "not_found" ELSE "ok")
    BY DEF SearchEnds
  <2>2. PICK R \in SUBSET Records, e \in Nat : Safe(R, e)
    BY <2>1 DEF IInv
  <2>3. /\ IsChain(R, e) /\ \A r \in R : Holds(flash, r)
        /\ Stored(flash, files, R) /\ ErasedFrom(flash, e)
    BY <2>1, <2>2 DEF Safe, Kept
  <2>4. n \in Sought
    BY <2>1, ConstantFacts DEF Sought
  <2>5. CASE files[n] = NoFile
    <3>1. flash[e] = Erased
      <4>1. e <= MaxSize - 4 /\ MaxSize \in Nat
        BY <2>3, ConstantFacts DEF IsChain, AlignTo
      <4>2. e \in Addr /\ e <= e
        BY <4>1 DEF Addr
      <4>3. QED
        BY <2>3, <4>2 DEF ErasedFrom
    <3>2. NotThere(flash, R, n)
      BY <2>3, <2>5 DEF Stored
    <3>3. Found(n) = [res |-> "not_found", at |-> e]
      BY <2>3, <2>4, <3>1, <3>2, SearchMisses DEF Found
    <3>4. QED
      BY <2>5, <3>3
  <2>6. CASE files[n] # NoFile
    <3>1. PICK q \in R : IsTheFile(flash, R, n, q)
      BY <2>3, <2>6 DEF Stored
    <3>2. Found(n) = [res |-> "ok", at |-> q.at]
      BY <2>3, <2>4, <3>1, SearchFinds DEF Found
    <3>3. QED
      BY <2>6, <3>2
  <2>7. QED
    BY <2>5, <2>6
<1>2. QED
  BY <1>1, RecordsInOrder, PTL

(* The space that romfs_write_r computes is never negative, the writing     *)
(* flag agrees with the descriptors and romfs_num_fd counts them.           *)
THEOREM SpaceIsKept == Spec => []SpaceKept
<1>1. IInv => SpaceKept
  <2>1. SUFFICES ASSUME IInv PROVE SpaceKept
    OBVIOUS
  <2>2. TableOK(fds, num_fd, writing) /\ writing \in {"yes", "no"}
    BY <2>1 DEF IInv, TypeOK
  <2>3. \A f \in Writers(fds) : fds[f].base + fds[f].size <= MaxSize - AlignTo
    BY <2>2 DEF TableOK
  <2>4. Cardinality(Writers(fds)) = IF writing = "yes" THEN 1 ELSE 0
    <3>1. CASE writing = "yes"
      <4>1. PICK f \in Fds : Writers(fds) = {f}
        BY <2>2, <3>1 DEF TableOK
      <4>2. Cardinality({f}) = 1
        BY FS_Singleton
      <4>3. QED
        BY <3>1, <4>1, <4>2
    <3>2. CASE writing # "yes"
      <4>1. Writers(fds) = {} /\ Cardinality({}) = 0
        BY <2>2, <3>2, FS_EmptySet DEF TableOK
      <4>2. QED
        BY <3>2, <4>1
    <3>3. QED
      BY <3>1, <3>2
  <2>5. num_fd = Cardinality(Used(fds))
    BY <2>2 DEF TableOK
  <2>6. QED
    BY <2>3, <2>4, <2>5 DEF SpaceKept, Writers, Used
<1>2. QED
  BY <1>1, RecordsInOrder, PTL
=============================================================================
