---------------------------- MODULE XmodemProofs ----------------------------
(***************************************************************************)
(* Proofs about Xmodem for every file, every modulus of the block numbers  *)
(* and any number of retries and of lost bytes.                            *)
(***************************************************************************)
EXTENDS Xmodem, SequenceTheorems, TLAPS

TypeOK ==
  /\ pc \in {"top", "control", "record", "flush"}
  /\ after \in {"none", "accept", "exceed", "nomem", "size", "cancel"}
  /\ starting \in {"yes", "no"} /\ packnum \in 0 .. Numbers - 1
  /\ retries \in Nat /\ limit \in Nat
  /\ buf \in Seq(Byte) /\ stored \in Seq(Byte)
  /\ result \in {"none", "exceed", "nomem", "size", "cancel"}
  /\ rx \in Seq(Byte) /\ out \in Seq(Byte) /\ tx \in Seq({C, ACK, NAK, CAN})
  /\ sender \in {"off", "start", "wait", "end", "gone"}
  /\ block \in 1 .. Len(File) + 1
  /\ lost \in 0 .. MaxLost /\ kinds \in SUBSET {"soh", "inside", "end", "answer"}

(* The transfer may still go on. *)
Live == after \in {"none", "accept"}

(* Where the receiver is. *)
Place ==
  /\ pc # "flush" => after = "none"
  /\ pc = "flush" => after # "none"
  /\ result # "none" => after = result
  /\ pc = "record" => Len(buf) < RecordSize
  /\ pc = "record" \/ after = "accept" => starting = "no"
  /\ after = "accept" => Len(buf) = RecordSize /\ block = Len(stored) + 1
                         /\ block <= Len(File) /\ buf[3] = File[block]

(* What the receiver has stored, and the number it waits for. *)
Storing ==
  /\ Len(stored) <= Len(File) /\ \A i \in 1 .. Len(stored) : stored[i] = File[i]
  /\ Len(stored) <= limit
  /\ Live => packnum = (Len(stored) + 1) % Numbers

(* What is under way to the receiver, from the byte that began the record   *)
(* it is in.                                                                *)
Way(p, b, r, o) == (IF p = "record" THEN <<SOH>> \o b ELSE <<>>) \o r \o o
Coming          == Way(pc, buf, rx, out)

(* What losses leave of the bytes for block k: less, and with one byte gone *)
(* either the last of them is there or all the others are.                  *)
Remains(k, u) ==
  /\ Len(u) <= Len(Burst(k))
  /\ Len(u) = Len(Burst(k)) => u = Burst(k)
  /\ Len(u) = RecordSize /\ Len(Burst(k)) = RecordSize + 1 =>
       \/ u[RecordSize] = Burst(k)[RecordSize + 1]
       \/ \A i \in 1 .. RecordSize : u[i] = Burst(k)[i]

(* One burst is under way at a time, and the CAN of a stopped sender. *)
OneBurst ==
  /\ sender = "wait" => Remains(block, Coming)
  /\ sender = "gone" =>
       /\ out \in {<<>>, <<CAN>>}
       /\ \E u \in Seq(Byte) : Remains(block, u) /\ Coming \in {u, Append(u, CAN)}
  /\ after = "accept" => Coming \in {<<>>, <<CAN>>} /\ (sender = "wait" => Coming = <<>>)

(* Before the sender begins. *)
NotBegun ==
  sender \in {"off", "start"} =>
    /\ block = 1 /\ stored = <<>> /\ rx = <<>> /\ out = <<>>
    /\ pc \in {"top", "control"} /\ \A i \in 1 .. Len(tx) : tx[i] = C

(* An ACK or NAK is the last byte under way to the sender, and nothing is   *)
(* under way to the receiver.  An ACK is for the block stored last.         *)
OneReply ==
  sender = "wait" => \A i \in 1 .. Len(tx) : tx[i] \in {ACK, NAK} =>
    /\ i = Len(tx) /\ starting = "no" /\ Coming = <<>> /\ pc \in {"top", "control"}
    /\ tx[i] = ACK => block = Len(stored)

(* Sender and receiver are at most one block apart. *)
SameBlock ==
  /\ sender # "end"
  /\ sender \in {"wait", "gone"} => block = Len(stored) \/ block = Len(stored) + 1

(* As long as no SOH is lost, the receiver looks for it where it is. *)
HeadFound ==
  "soh" \notin kinds /\ pc \in {"top", "control"} /\ block <= Len(File) =>
    /\ Coming # <<>> => Coming[1] = SOH \/ (sender = "gone" /\ Coming = <<CAN>>)
    /\ sender = "wait" /\ out # <<>> /\ rx = <<>> => Len(out) = RecordSize + 1

(* Nothing was lost but bytes inside blocks, and a block has arrived: each  *)
(* retry was spent on a block that lost one.                                *)
Calm    == stored # <<>> /\ sender = "wait" /\ kinds \subseteq {"inside"}
Replied == Len(tx) > 0 /\ tx[Len(tx)] \in {ACK, NAK}
Damage  == IF Coming # <<>> /\ Len(Coming) < Len(Burst(block)) THEN 1 ELSE 0
Left    == IF pc = "top" THEN retries ELSE retries + 1
Repaired ==
  Calm =>
    /\ block = Len(stored) => Replied /\ tx[Len(tx)] = ACK
    /\ pc \in {"top", "control"} => Replied \/ Coming # <<>>
    /\ pc # "flush" => Left >= RetryLimit - lost + Damage

Protocol == OneBurst /\ NotBegun /\ OneReply /\ SameBlock /\ HeadFound /\ Repaired

Ends ==
  /\ after = "size" => stored = File \/ "soh" \in kinds
  /\ after = "exceed" /\ MaxLost < RetryLimit =>
       stored = <<>> \/ sender = "gone" \/ kinds \ {"inside"} # {}

IInv == TypeOK /\ Place /\ Storing /\ (Live => Protocol) /\ Ends

(***************************************************************************)
(* Numbers and sequences.                                                  *)
(***************************************************************************)
(* Quotient and remainder. *)
LEMMA Division ==
  ASSUME NEW n \in Nat, NEW k \in Nat \ {0}
  PROVE  /\ n \div k \in Nat /\ n % k \in 0 .. k - 1
         /\ n = (n \div k) * k + (n % k)
OBVIOUS

(* The remainder is the only one within reach. *)
LEMMA Remainder ==
  ASSUME NEW q \in Nat, NEW k \in Nat \ {0}, NEW r \in 0 .. k - 1
  PROVE  (q * k + r) % k = r /\ q * k + r \in Nat
OBVIOUS

(* Block numbers: the next one differs, and is found from the last one. *)
LEMMA NextNumber ==
  ASSUME NEW n \in Nat
  PROVE  /\ n % Numbers \in 0 .. Numbers - 1
         /\ (n + 1) % Numbers = ((n % Numbers) + 1) % Numbers
         /\ (n + 1) % Numbers # n % Numbers
<1>1. Numbers \in Nat /\ Numbers >= 2
  BY ConstantsAssumption
<1> DEFINE q == n \div Numbers
           r == n % Numbers
<1>2. q \in Nat /\ r \in 0 .. Numbers - 1 /\ n = q * Numbers + r
  <2>1. Numbers \in Nat \ {0}
    BY <1>1
  <2> QED
    BY <2>1, Division
<1> HIDE DEF q, r
<1>3. CASE r + 1 < Numbers
  <2>1. r + 1 \in 0 .. Numbers - 1
    BY <1>1, <1>2, <1>3
  <2>2. (q * Numbers + (r + 1)) % Numbers = r + 1
    BY <1>1, <1>2, <2>1, Remainder
  <2>3. n + 1 = q * Numbers + (r + 1)
    BY <1>1, <1>2
  <2>4. (0 * Numbers + (r + 1)) % Numbers = r + 1
    BY <1>1, <2>1, Remainder
  <2>5. (r + 1) % Numbers = r + 1
    BY <1>1, <1>2, <2>4
  <2>6. (n + 1) % Numbers = r + 1
    BY <2>2, <2>3
  <2>7. r + 1 # r
    BY <1>2
  <2> QED
    BY <1>2, <2>5, <2>6, <2>7 DEF r
<1>4. CASE r + 1 = Numbers
  <2>1. ((q + 1) * Numbers + 0) % Numbers = 0
    BY <1>1, <1>2, Remainder
  <2>2. n + 1 = (q + 1) * Numbers + 0
    BY <1>1, <1>2, <1>4
  <2>3. (1 * Numbers + 0) % Numbers = 0
    BY <1>1, Remainder
  <2>4. (r + 1) % Numbers = 0
    BY <1>1, <1>4, <2>3
  <2>5. (n + 1) % Numbers = 0
    BY <2>1, <2>2
  <2>6. r # 0
    BY <1>1, <1>2, <1>4
  <2> QED
    BY <1>2, <2>4, <2>5, <2>6 DEF r
<1>5. QED
  BY <1>1, <1>2, <1>3, <1>4

(* A byte that goes from the front of one sequence to the end of another   *)
(* leaves their concatenation as it was.                                   *)
LEMMA MoveByte ==
  ASSUME NEW a \in Seq(Byte), NEW b \in Seq(Byte), b # <<>>
  PROVE  /\ Head(b) \in Byte /\ Tail(b) \in Seq(Byte) /\ Append(a, Head(b)) \in Seq(Byte)
         /\ Append(a, Head(b)) \o Tail(b) = a \o b
<1> DEFINE l == Append(a, Head(b)) \o Tail(b)
           r == a \o b
<1>1. Head(b) \in Byte /\ Head(b) = b[1] /\ Tail(b) \in Seq(Byte) /\ Len(Tail(b)) = Len(b) - 1
      /\ Len(b) \in Nat /\ Len(b) > 0 /\ \A i \in 1 .. Len(Tail(b)) : Tail(b)[i] = b[i + 1]
  BY HeadTailProperties, EmptySeq
<1>2. Append(a, Head(b)) \in Seq(Byte) /\ Len(Append(a, Head(b))) = Len(a) + 1
      /\ (\A i \in 1 .. Len(a) : Append(a, Head(b))[i] = a[i])
      /\ Append(a, Head(b))[Len(a) + 1] = b[1]
  BY <1>1, AppendProperties
<1>3. l \in Seq(Byte) /\ Len(l) = Len(a) + Len(b)
      /\ \A i \in 1 .. Len(a) + Len(b) : l[i] =
           IF i <= Len(a) + 1 THEN Append(a, Head(b))[i] ELSE Tail(b)[i - (Len(a) + 1)]
  BY <1>1, <1>2, ConcatProperties
<1>4. r \in Seq(Byte) /\ Len(r) = Len(a) + Len(b)
      /\ \A i \in 1 .. Len(a) + Len(b) : r[i] = IF i <= Len(a) THEN a[i] ELSE b[i - Len(a)]
  BY ConcatProperties
<1>5. ASSUME NEW i \in 1 .. Len(a) + Len(b) PROVE l[i] = r[i]
  <2>1. CASE i <= Len(a)
    BY <2>1, <1>2, <1>3, <1>4
  <2>2. CASE i = Len(a) + 1
    <3>1. l[i] = b[1]
      BY <2>2, <1>2, <1>3
    <3>2. i - Len(a) = 1 /\ ~ (i <= Len(a))
      BY <2>2
    <3> QED
      BY <3>1, <3>2, <1>4
  <2>3. CASE i > Len(a) + 1
    <3>1. l[i] = Tail(b)[i - (Len(a) + 1)] /\ i - (Len(a) + 1) \in 1 .. Len(Tail(b))
      BY <2>3, <1>1, <1>3
    <3>2. l[i] = b[i - (Len(a) + 1) + 1]
      BY <3>1, <1>1
    <3>3. i - (Len(a) + 1) + 1 = i - Len(a)
      OBVIOUS
    <3> QED
      BY <3>2, <3>3, <2>3, <1>4
  <2> QED
    BY <2>1, <2>2, <2>3
<1> HIDE DEF l, r
<1>6. l = r
  BY <1>3, <1>4, <1>5, SeqEqual
<1>7. QED
  BY <1>1, <1>2, <1>6 DEF l, r

(* Both ends of a concatenation. *)
LEMMA ConcatBytes ==
  ASSUME NEW a \in Seq(Byte), NEW b \in Seq(Byte)
  PROVE  /\ a \o b \in Seq(Byte) /\ Len(a \o b) = Len(a) + Len(b)
         /\ a \o b = <<>> <=> a = <<>> /\ b = <<>>
         /\ a # <<>> => (a \o b)[1] = a[1] /\ Tail(a \o b) = Tail(a) \o b
         /\ a = <<>> => a \o b = b
         /\ b = <<>> => a \o b = a
         /\ \A x : b = <<x>> => a \o b = Append(a, x)
<1>1. a \o b \in Seq(Byte) /\ Len(a \o b) = Len(a) + Len(b)
      /\ \A i \in 1 .. Len(a) + Len(b) : (a \o b)[i] = IF i <= Len(a) THEN a[i] ELSE b[i - Len(a)]
  BY ConcatProperties
<1>2. a \o b = <<>> <=> a = <<>> /\ b = <<>>
  BY ConcatEqualIffEmpty
<1>3. (a = <<>> => a \o b = b) /\ (b = <<>> => a \o b = a)
  BY ConcatEmptySeq
<1>4. ASSUME NEW x, b = <<x>> PROVE a \o b = Append(a, x)
  <2>1. x \in Byte
    BY <1>4, ElementOfSeq, Len(<<x>>) = 1, <<x>>[1] = x
  <2> QED
    BY <1>4, <2>1, AppendIsConcat
<1>5. ASSUME a # <<>> PROVE (a \o b)[1] = a[1] /\ Tail(a \o b) = Tail(a) \o b
  <2>1. Len(a) \in Nat /\ Len(a) > 0 /\ Len(b) \in Nat
    BY <1>5, EmptySeq, LenProperties
  <2>2. (a \o b)[1] = a[1]
    BY <1>1, <2>1
  <2>3. a \o b # <<>>
    BY <1>2, <1>5
  <2> DEFINE s == a \o b
             t == Tail(a)
  <2>4. Tail(s) \in Seq(Byte) /\ Len(Tail(s)) = Len(a) + Len(b) - 1
        /\ \A i \in 1 .. Len(a) + Len(b) - 1 : Tail(s)[i] = s[i + 1]
    BY <1>1, <2>3, HeadTailProperties
  <2>5. t \in Seq(Byte) /\ Len(t) = Len(a) - 1 /\ \A i \in 1 .. Len(a) - 1 : t[i] = a[i + 1]
    BY <1>5, HeadTailProperties
  <2> HIDE DEF t
  <2>6. t \o b \in Seq(Byte) /\ Len(t \o b) = Len(a) - 1 + Len(b)
        /\ \A i \in 1 .. Len(a) - 1 + Len(b) :
             (t \o b)[i] = IF i <= Len(a) - 1 THEN t[i] ELSE b[i - (Len(a) - 1)]
    <3>1. t \o b \in Seq(Byte) /\ Len(t \o b) = Len(t) + Len(b)
          /\ \A i \in 1 .. Len(t) + Len(b) : (t \o b)[i] = IF i <= Len(t) THEN t[i] ELSE b[i - Len(t)]
      BY <2>5, ConcatProperties
    <3> QED
      BY <3>1, <2>5
  <2>7. ASSUME NEW i \in 1 .. Len(a) + Len(b) - 1 PROVE Tail(s)[i] = (t \o b)[i]
    <3>1. Tail(s)[i] = s[i + 1] /\ i + 1 \in 1 .. Len(a) + Len(b)
      BY <2>1, <2>4
    <3>2. CASE i <= Len(a) - 1
      BY <3>1, <3>2, <1>1, <2>1, <2>5, <2>6
    <3>3. CASE i > Len(a) - 1
      <4>1. s[i + 1] = b[i + 1 - Len(a)]
        BY <3>1, <3>3, <1>1, <2>1
      <4>2. i + 1 - Len(a) = i - (Len(a) - 1)
        BY <2>1
      <4> QED
        BY <3>1, <3>3, <4>1, <4>2, <2>1, <2>6
    <3>4. i <= Len(a) - 1 \/ i > Len(a) - 1
      BY <2>1
    <3> QED
      BY <3>2, <3>3, <3>4
  <2> HIDE DEF s
  <2>8. Tail(s) = t \o b
    BY <2>1, <2>4, <2>6, <2>7, SeqEqual
  <2> QED
    BY <2>2, <2>8 DEF s, t
<1>6. QED
  BY <1>1, <1>2, <1>3, <1>4, <1>5

(***************************************************************************)
(* A burst and what is left of it.                                         *)
(***************************************************************************)
(* The bytes of a record are bytes. *)
LEMMA RecordBytes ==
  ASSUME NEW k \in 1 .. Len(File)
  PROVE  /\ Record(k) \in Seq(Byte) /\ Len(Record(k)) = RecordSize
         /\ Record(k)[1] = k % Numbers /\ Record(k)[2] = Complement(k % Numbers)
         /\ Record(k)[3] = File[k] /\ Record(k)[4] = Crc(File[k])
         /\ File[k] \in Byte /\ Crc(File[k]) \in Byte
<1>1. k % Numbers \in 0 .. Numbers - 1
  <2>1. k \in Nat
    OBVIOUS
  <2> QED
    BY <2>1, NextNumber
<1>2. Numbers \in 2 .. 256
  BY ConstantsAssumption
<1>3. k % Numbers \in Byte /\ Complement(k % Numbers) \in Byte
  <2>1. PICK m \in 0 .. Numbers - 1 : m = k % Numbers
    BY <1>1
  <2>2. m \in 0 .. 255 /\ Numbers - 1 - m \in 0 .. 255
    BY <1>2
  <2> QED
    BY <2>1, <2>2 DEF Byte, Complement
<1>4. File[k] \in Byte
  BY ConstantsAssumption, ElementOfSeq
<1>5. Crc(File[k]) \in Byte
  <2>1. PICK d \in 0 .. 255 : d = File[k]
    BY <1>4 DEF Byte
  <2>2. (d + 100) % 256 \in 0 .. 255
    OBVIOUS
  <2> QED
    BY <2>1, <2>2 DEF Crc, Byte
<1>6. QED
  <2>1. PICK x \in Byte : x = k % Numbers
    BY <1>3
  <2>2. PICK y \in Byte : y = Complement(k % Numbers)
    BY <1>3
  <2>3. PICK z \in Byte : z = File[k]
    BY <1>4
  <2>4. PICK w \in Byte : w = Crc(File[k])
    BY <1>5
  <2>5. Record(k) = <<x, y, z, w>>
    BY <2>1, <2>2, <2>3, <2>4 DEF Record
  <2>6. <<x, y, z, w>> \in Seq(Byte) /\ Len(<<x, y, z, w>>) = 4 /\ <<x, y, z, w>>[1] = x
        /\ <<x, y, z, w>>[2] = y /\ <<x, y, z, w>>[3] = z /\ <<x, y, z, w>>[4] = w
    OBVIOUS
  <2> QED
    BY <2>1, <2>2, <2>3, <2>4, <2>5, <2>6, <1>4, <1>5 DEF RecordSize

(* A burst is SOH and a record, or EOT. *)
LEMMA BurstBytes ==
  ASSUME NEW k \in 1 .. Len(File) + 1
  PROVE  /\ Burst(k) \in Seq(Byte) /\ Len(Burst(k)) \in Nat /\ Burst(k) # <<>>
         /\ k <= Len(File) => /\ Len(Burst(k)) = 5 /\ Burst(k)[1] = SOH
                              /\ Burst(k) = <<SOH>> \o Record(k)
                              /\ \A i \in 1 .. 4 : Burst(k)[i + 1] = Record(k)[i]
         /\ k > Len(File) => Len(Burst(k)) = 1 /\ Burst(k) = <<EOT>> /\ Burst(k)[1] = EOT
<1>1. Len(File) \in Nat
  BY ConstantsAssumption, LenProperties
<1>2. CASE k <= Len(File)
  <2>1. k \in 1 .. Len(File) /\ Burst(k) = <<SOH>> \o Record(k)
    BY <1>1, <1>2 DEF Burst
  <2>2. Record(k) \in Seq(Byte) /\ Len(Record(k)) = 4
    BY <2>1, RecordBytes DEF RecordSize
  <2>3. <<SOH>> \in Seq(Byte) /\ Len(<<SOH>>) = 1 /\ <<SOH>>[1] = SOH
    BY DEF SOH, Byte
  <2>4. Burst(k) \in Seq(Byte) /\ Len(Burst(k)) = 5
        /\ \A i \in 1 .. 5 : Burst(k)[i] = IF i <= 1 THEN <<SOH>>[i] ELSE Record(k)[i - 1]
    <3>1. PICK h \in Seq(Byte) : h = <<SOH>>
      BY <2>3
    <3>2. /\ h \o Record(k) \in Seq(Byte) /\ Len(h \o Record(k)) = Len(h) + Len(Record(k))
          /\ \A i \in 1 .. Len(h) + Len(Record(k)) :
               (h \o Record(k))[i] = IF i <= Len(h) THEN h[i] ELSE Record(k)[i - Len(h)]
      BY <2>2, ConcatProperties, Zenon
    <3>3. Burst(k) = h \o Record(k) /\ Len(h) = 1 /\ Len(Record(k)) = 4
      BY <2>1, <2>2, <2>3, <3>1, Zenon
    <3>4. Burst(k) \in Seq(Byte) /\ Len(Burst(k)) = 1 + 4
          /\ \A i \in 1 .. 1 + 4 : Burst(k)[i] = IF i <= 1 THEN h[i] ELSE Record(k)[i - 1]
      BY <3>2, <3>3, Zenon
    <3> QED
      BY <3>1, <3>4
  <2>5. Burst(k)[1] = SOH
    BY <2>3, <2>4
  <2>6. ASSUME NEW i \in 1 .. 4 PROVE Burst(k)[i + 1] = Record(k)[i]
    <3>1. i + 1 \in 1 .. 5 /\ ~ (i + 1 <= 1) /\ i + 1 - 1 = i
      OBVIOUS
    <3> QED
      BY <3>1, <2>4
  <2>7. Burst(k) # <<>>
    <3>1. Len(Burst(k)) = 5 /\ Len(<<>>) = 0 /\ 0 # 5
      BY <2>4
    <3> QED
      BY <3>1, Zenon
  <2> QED
    BY <2>1, <2>4, <2>5, <2>6, <2>7, <1>1, <1>2
<1>3. CASE k > Len(File)
  <2>1. Burst(k) = <<EOT>>
    BY <1>1, <1>3 DEF Burst
  <2>2. <<EOT>> \in Seq(Byte) /\ Len(<<EOT>>) = 1 /\ <<EOT>>[1] = EOT /\ <<EOT>> # <<>>
    BY DEF EOT, Byte
  <2> QED
    BY <2>1, <2>2, <1>1, <1>3
<1>4. k <= Len(File) \/ k > Len(File)
  BY <1>1
<1>5. QED
  BY <1>2, <1>3, <1>4, Zenon

(* A whole burst and nothing are both left of a burst. *)
LEMMA RemainsEnds ==
  ASSUME NEW k \in 1 .. Len(File) + 1
  PROVE  Remains(k, Burst(k)) /\ Remains(k, <<>>)
<1>1. Len(Burst(k)) \in Nat /\ Len(Burst(k)) > 0
  BY BurstBytes, EmptySeq
<1>2. Len(<<>>) = 0
  OBVIOUS
<1>3. QED
  BY <1>1, <1>2 DEF Remains, RecordSize

(* One byte less still is something left of the burst. *)
LEMMA RemainsDelete ==
  ASSUME NEW k \in 1 .. Len(File) + 1, NEW a \in Seq(Byte), NEW b \in Seq(Byte), b # <<>>,
         Remains(k, a \o b)
  PROVE  Remains(k, a \o Tail(b))
<1> DEFINE s == a \o b
           v == a \o Tail(b)
           B == Burst(k)
<1>1. B \in Seq(Byte) /\ Len(B) \in Nat
  BY BurstBytes
<1>2. Tail(b) \in Seq(Byte) /\ Len(Tail(b)) = Len(b) - 1 /\ Len(b) \in Nat /\ Len(b) > 0
      /\ \A i \in 1 .. Len(Tail(b)) : Tail(b)[i] = b[i + 1]
  BY HeadTailProperties, EmptySeq
<1>3. s \in Seq(Byte) /\ Len(s) = Len(a) + Len(b)
      /\ \A i \in 1 .. Len(a) + Len(b) : s[i] = IF i <= Len(a) THEN a[i] ELSE b[i - Len(a)]
  BY ConcatProperties
<1>4. v \in Seq(Byte) /\ Len(v) = Len(a) + Len(b) - 1
      /\ \A i \in 1 .. Len(a) + Len(b) - 1 : v[i] = IF i <= Len(a) THEN a[i] ELSE Tail(b)[i - Len(a)]
  <2>1. v \in Seq(Byte) /\ Len(v) = Len(a) + Len(Tail(b))
      /\ \A i \in 1 .. Len(a) + Len(Tail(b)) : v[i] = IF i <= Len(a) THEN a[i] ELSE Tail(b)[i - Len(a)]
    BY <1>2, ConcatProperties
  <2>2. Len(a) + Len(Tail(b)) = Len(a) + Len(b) - 1
    BY <1>2
  <2> QED
    BY <2>1, <2>2
<1>5. Len(a) \in Nat
  BY LenProperties
<1>6. Len(s) <= Len(B) /\ (Len(s) = Len(B) => s = B)
  BY DEF Remains
<1>7. Len(v) < Len(B)
  BY <1>1, <1>2, <1>3, <1>4, <1>5, <1>6
<1>8. ASSUME Len(v) = 4, Len(B) = 5
      PROVE  v[4] = B[5] \/ \A i \in 1 .. 4 : v[i] = B[i]
  <2>1. s = B /\ Len(a) + Len(b) = 5
    BY <1>2, <1>3, <1>4, <1>5, <1>6, <1>8
  <2>2. CASE Len(a) = 4
    <3>1. ASSUME NEW i \in 1 .. 4 PROVE v[i] = B[i]
      <4>1. v[i] = a[i] /\ s[i] = a[i]
        BY <2>1, <2>2, <1>3, <1>4
      <4> QED
        BY <4>1, <2>1
    <3> QED
      BY <3>1
  <2>3. CASE Len(a) < 4
    <3>1. v[4] = Tail(b)[4 - Len(a)] /\ 4 - Len(a) \in 1 .. Len(Tail(b))
      BY <2>1, <2>3, <1>2, <1>4, <1>5
    <3>2. v[4] = b[4 - Len(a) + 1] /\ 4 - Len(a) + 1 = 5 - Len(a)
      BY <3>1, <1>2, <1>5
    <3>3. s[5] = b[5 - Len(a)]
      BY <2>1, <2>3, <1>3, <1>5
    <3> QED
      BY <3>2, <3>3, <2>1
  <2> QED
    BY <2>1, <2>2, <2>3, <1>2, <1>5
<1>9. Len(v) \in Nat
  BY <1>4, LenProperties
<1> HIDE DEF v, B
<1>10. Len(v) <= Len(B) /\ Len(v) # Len(B)
  BY <1>1, <1>7, <1>9
<1>11. Remains(k, v)
  BY <1>8, <1>10 DEF Remains, RecordSize, B
<1>12. QED
  BY <1>11 DEF v

(***************************************************************************)
(* What is under way to the receiver.                                      *)
(***************************************************************************)
(* Concatenations may be grouped as one likes. *)
LEMMA Associative == \A x, y, z \in Seq(Byte) : (x \o y) \o z = x \o (y \o z)
BY ConcatAssociative

(* Inside a record the receiver has taken the beginning. *)
LEMMA WayIn ==
  \A b, r, o \in Seq(Byte) : Way("record", b, r, o) = (<<SOH>> \o b) \o (r \o o)
<1> TAKE b, r, o \in Seq(Byte)
<1>1. <<SOH>> \in Seq(Byte)
  BY DEF SOH, Byte
<1>2. <<SOH>> \o b \in Seq(Byte)
  BY <1>1, ConcatBytes
<1>3. Way("record", b, r, o) = (<<SOH>> \o b) \o r \o o
  BY DEF Way
<1>4. QED
  BY <1>2, <1>3, Associative, Zenon

(* Elsewhere it has taken nothing. *)
LEMMA WayOut ==
  ASSUME NEW p, NEW b, p # "record"
  PROVE  \A r, o \in Seq(Byte) : Way(p, b, r, o) = r \o o
<1> TAKE r, o \in Seq(Byte)
<1>1. Way(p, b, r, o) = <<>> \o r \o o
  BY DEF Way
<1>2. <<>> \o r = r
  BY ConcatEmptySeq
<1>3. QED
  BY <1>1, <1>2, Zenon

(* What is under way begins with what the receiver has taken. *)
LEMMA WayTaken ==
  ASSUME NEW b \in Seq(Byte), NEW r \in Seq(Byte), NEW o \in Seq(Byte)
  PROVE  /\ Way("record", b, r, o) \in Seq(Byte)
         /\ Way("record", b, r, o)[1] = SOH /\ Way("record", b, r, o) # <<>>
         /\ Len(Way("record", b, r, o)) = 1 + Len(b) + Len(r) + Len(o)
<1>1. <<SOH>> \in Seq(Byte) /\ Len(<<SOH>>) = 1 /\ <<SOH>>[1] = SOH /\ <<SOH>> # <<>>
  BY DEF SOH, Byte
<1>2. r \o o \in Seq(Byte) /\ Len(r \o o) = Len(r) + Len(o)
  BY ConcatBytes
<1> DEFINE h == <<SOH>> \o b
<1>3. h \in Seq(Byte) /\ Len(h) = 1 + Len(b) /\ h[1] = SOH /\ h # <<>>
  BY <1>1, ConcatBytes
<1> HIDE DEF h
<1>4. Way("record", b, r, o) = h \o (r \o o)
  BY WayIn, Zenon DEF h
<1>5. h \o (r \o o) \in Seq(Byte) /\ Len(h \o (r \o o)) = Len(h) + Len(r \o o)
      /\ h \o (r \o o) # <<>> /\ (h \o (r \o o))[1] = h[1]
  BY <1>2, <1>3, ConcatBytes
<1>6. Len(b) \in Nat /\ Len(r) \in Nat /\ Len(o) \in Nat
  BY LenProperties
<1>7. Len(Way("record", b, r, o)) = 1 + Len(b) + Len(r) + Len(o)
  BY <1>2, <1>3, <1>4, <1>5, <1>6
<1>8. QED
  BY <1>3, <1>4, <1>5, <1>7, Zenon

(* What the receiver has taken, then what it has not. *)
InParts(p, b) ==
  \E h \in Seq(Byte) : \A x, y \in Seq(Byte) : Way(p, b, x, y) = h \o (x \o y)

(* Whatever the receiver has taken is in front of the rest. *)
LEMMA WayParts ==
  ASSUME NEW p, NEW b \in Seq(Byte)
  PROVE  InParts(p, b)
<1>1. PICK h : h = IF p = "record" THEN <<SOH>> \o b ELSE <<>>
  OBVIOUS
<1>2. h \in Seq(Byte)
  <2>1. <<SOH>> \in Seq(Byte) /\ <<>> \in Seq(Byte)
    BY DEF SOH, Byte
  <2>2. <<SOH>> \o b \in Seq(Byte)
    BY <2>1, ConcatBytes
  <2> QED
    BY <1>1, <2>1, <2>2, Zenon
<1>3. ASSUME NEW x \in Seq(Byte), NEW y \in Seq(Byte) PROVE Way(p, b, x, y) = h \o (x \o y)
  <2>1. Way(p, b, x, y) = (h \o x) \o y
    BY <1>1, Zenon DEF Way
  <2>2. (h \o x) \o y = h \o (x \o y)
    BY <1>2, Associative, Zenon
  <2> QED
    BY <2>1, <2>2, Zenon
<1>4. QED
  BY <1>2, <1>3, Zenon DEF InParts

(* A byte that is sent stays under way. *)
LEMMA WaySend ==
  ASSUME NEW p, NEW b \in Seq(Byte), NEW r \in Seq(Byte), NEW o \in Seq(Byte), o # <<>>
  PROVE  Way(p, b, Append(r, Head(o)), Tail(o)) = Way(p, b, r, o)
<1>1. Append(r, Head(o)) \o Tail(o) = r \o o
  BY MoveByte
<1>2. Append(r, Head(o)) \in Seq(Byte) /\ Tail(o) \in Seq(Byte)
  BY MoveByte
<1>3. InParts(p, b)
  BY WayParts, Zenon
<1>4. PICK h : \A x, y \in Seq(Byte) : Way(p, b, x, y) = h \o (x \o y)
  BY <1>3, Zenon DEF InParts
<1>5. Way(p, b, r, o) = h \o (r \o o)
  BY <1>4, Zenon
<1>6. Way(p, b, Append(r, Head(o)), Tail(o)) = h \o (Append(r, Head(o)) \o Tail(o))
  BY <1>2, <1>4, Zenon
<1>7. QED
  BY <1>1, <1>5, <1>6, Zenon

(* The byte that begins a record stays in the account. *)
LEMMA WayBegin ==
  ASSUME NEW p, NEW b \in Seq(Byte), NEW r \in Seq(Byte), NEW o \in Seq(Byte),
         p # "record", r # <<>>, Head(r) = SOH
  PROVE  Way("record", <<>>, Tail(r), o) = Way(p, b, r, o)
<1>1. Tail(r) \in Seq(Byte) /\ Append(<<>>, Head(r)) \o Tail(r) = <<>> \o r
  BY MoveByte, EmptySeq
<1>2. <<>> \o r = r /\ Append(<<>>, SOH) = <<SOH>>
  BY ConcatEmptySeq
<1>3. <<SOH>> \o Tail(r) = r
  BY <1>1, <1>2, Zenon
<1>4. <<SOH>> \in Seq(Byte) /\ <<>> \in Seq(Byte)
  BY DEF SOH, Byte
<1>5. <<SOH>> \o <<>> = <<SOH>>
  BY <1>4, ConcatEmptySeq
<1>6. Way("record", <<>>, Tail(r), o) = (<<SOH>> \o <<>>) \o (Tail(r) \o o)
  <2>1. PICK e \in Seq(Byte) : e = <<>>
    BY <1>4
  <2>2. Way("record", e, Tail(r), o) = (<<SOH>> \o e) \o (Tail(r) \o o)
    BY <1>1, WayIn, Zenon
  <2> QED
    BY <2>1, <2>2, Zenon
<1>7. (<<SOH>> \o Tail(r)) \o o = <<SOH>> \o (Tail(r) \o o)
  <2>1. PICK x \in Seq(Byte) : x = <<SOH>>
    BY <1>4
  <2>2. (x \o Tail(r)) \o o = x \o (Tail(r) \o o)
    BY <1>1, Associative, Zenon
  <2> QED
    BY <2>1, <2>2, Zenon
<1>8. Way(p, b, r, o) = r \o o
  BY WayOut, Zenon
<1>9. QED
  BY <1>3, <1>5, <1>6, <1>7, <1>8, Zenon

(* How much of it the receiver has taken makes no difference. *)
LEMMA WayFlat ==
  \A b, r, o \in Seq(Byte) : Way("record", b, r, o) = (<<SOH>> \o (b \o r)) \o o
<1> TAKE b, r, o \in Seq(Byte)
<1>1. PICK x \in Seq(Byte) : x = <<SOH>>
  <2>1. <<SOH>> \in Seq(Byte)
    BY DEF SOH, Byte
  <2> QED
    BY <2>1, Zenon
<1>2. (x \o b) \o r = x \o (b \o r)
  BY Associative, Zenon
<1>3. Way("record", b, r, o) = ((x \o b) \o r) \o o
  BY <1>1 DEF Way
<1>4. QED
  BY <1>1, <1>2, <1>3, Zenon

(* A byte of the record stays in the account, too. *)
LEMMA WayTakes ==
  \A b, r, o \in Seq(Byte) : r # <<>> =>
    /\ Way("record", Append(b, Head(r)), Tail(r), o) = Way("record", b, r, o)
    /\ Way("record", b, r, o) = (<<SOH>> \o Append(b, Head(r))) \o (Tail(r) \o o)
    /\ Tail(r) \o o \in Seq(Byte) /\ Len(Tail(r) \o o) \in Nat
    /\ Append(b, Head(r)) \in Seq(Byte) /\ Len(Append(b, Head(r))) = Len(b) + 1
<1>1. SUFFICES ASSUME NEW b, NEW r, NEW o,
                      b \in Seq(Byte), r \in Seq(Byte), o \in Seq(Byte), r # <<>>
      PROVE  /\ Way("record", Append(b, Head(r)), Tail(r), o) = Way("record", b, r, o)
             /\ Way("record", b, r, o) = (<<SOH>> \o Append(b, Head(r))) \o (Tail(r) \o o)
             /\ Tail(r) \o o \in Seq(Byte) /\ Len(Tail(r) \o o) \in Nat
             /\ Append(b, Head(r)) \in Seq(Byte) /\ Len(Append(b, Head(r))) = Len(b) + 1
  BY Zenon
<1>2. PICK c : c = Append(b, Head(r))
  OBVIOUS
<1>3. PICK t : t = Tail(r)
  OBVIOUS
<1>4. c \in Seq(Byte) /\ t \in Seq(Byte) /\ Head(r) \in Byte
  BY <1>1, <1>2, <1>3, MoveByte
<1>5. c \o t = b \o r
  BY <1>1, <1>2, <1>3, MoveByte
<1>6. o \in Seq(Byte)
  BY <1>1
<1>7. Way("record", c, t, o) = (<<SOH>> \o c) \o (t \o o)
  BY <1>4, <1>6, WayIn
<1>8. Way("record", c, t, o) = (<<SOH>> \o (c \o t)) \o o
  BY <1>4, <1>6, WayFlat
<1>9. Way("record", b, r, o) = (<<SOH>> \o (b \o r)) \o o
  BY <1>1, WayFlat
<1>10. Way("record", c, t, o) = Way("record", b, r, o)
  BY <1>5, <1>8, <1>9, Zenon
<1>11. t \o o \in Seq(Byte) /\ Len(t \o o) \in Nat
  BY <1>4, <1>6, ConcatBytes, LenProperties
<1>12. Len(c) = Len(b) + 1
  BY <1>1, <1>2, <1>4, AppendProperties
<1>13. QED
  BY <1>2, <1>3, <1>4, <1>7, <1>10, <1>11, <1>12, Zenon

(* The same, for one record and one stream. *)
LEMMA WayTake ==
  ASSUME NEW b \in Seq(Byte), NEW r \in Seq(Byte), NEW o \in Seq(Byte), r # <<>>
  PROVE  /\ Way("record", Append(b, Head(r)), Tail(r), o) = Way("record", b, r, o)
         /\ Way("record", b, r, o) = (<<SOH>> \o Append(b, Head(r))) \o (Tail(r) \o o)
         /\ Tail(r) \o o \in Seq(Byte) /\ Len(Tail(r) \o o) \in Nat
         /\ Append(b, Head(r)) \in Seq(Byte) /\ Len(Append(b, Head(r))) = Len(b) + 1
BY WayTakes

(* What is not sent yet is the end of what is under way. *)
LEMMA WayEnd ==
  ASSUME NEW p, NEW b \in Seq(Byte), NEW r \in Seq(Byte)
  PROVE  \E a \in Seq(Byte) : /\ \A o \in Seq(Byte) : Way(p, b, r, o) = a \o o
                              /\ p # "record" => a = r
<1>1. <<SOH>> \in Seq(Byte) /\ <<SOH>> # <<>> /\ <<>> \in Seq(Byte)
  BY DEF SOH, Byte
<1> DEFINE h == IF p = "record" THEN <<SOH>> \o b ELSE <<>>
<1>2. h \in Seq(Byte) /\ (p # "record" => h = <<>>)
  BY <1>1, ConcatBytes
<1>3. \A o \in Seq(Byte) : Way(p, b, r, o) = (h \o r) \o o
  BY DEF Way
<1> HIDE DEF h
<1>4. h \o r \in Seq(Byte) /\ (h = <<>> => h \o r = r)
  BY <1>2, ConcatBytes
<1>5. QED
  BY <1>2, <1>3, <1>4, Zenon

(***************************************************************************)
(* A complete record.                                                      *)
(***************************************************************************)
(* The bytes of a record and of what follows it, by their places. *)
LEMMA Whole ==
  ASSUME NEW p \in Seq(Byte), Len(p) = 4, NEW e \in Seq(Byte)
  PROVE  LET t == (<<SOH>> \o p) \o e
         IN  /\ t \in Seq(Byte) /\ Len(t) = 5 + Len(e) /\ t[1] = SOH
             /\ \A i \in 1 .. 4 : t[i + 1] = p[i]
             /\ \A i \in 1 .. Len(e) : t[i + 5] = e[i]
<1>1. <<SOH>> \in Seq(Byte) /\ Len(<<SOH>>) = 1 /\ <<SOH>>[1] = SOH
  BY DEF SOH, Byte
<1>2. PICK s \in Seq(Byte) : s = <<SOH>> \o p
  BY <1>1, ConcatBytes
<1>3. Len(s) = 5 /\ \A i \in 1 .. 5 : s[i] = IF i <= 1 THEN <<SOH>>[i] ELSE p[i - 1]
  <2>1. Len(s) = Len(<<SOH>>) + Len(p)
        /\ \A i \in 1 .. Len(<<SOH>>) + Len(p) :
             s[i] = IF i <= Len(<<SOH>>) THEN <<SOH>>[i] ELSE p[i - Len(<<SOH>>)]
    <3>1. PICK h \in Seq(Byte) : h = <<SOH>>
      BY <1>1
    <3>2. /\ Len(h \o p) = Len(h) + Len(p)
          /\ \A i \in 1 .. Len(h) + Len(p) : (h \o p)[i] = IF i <= Len(h) THEN h[i] ELSE p[i - Len(h)]
      BY ConcatProperties, Zenon
    <3> QED
      BY <1>2, <3>1, <3>2, Zenon
  <2>2. Len(<<SOH>>) + Len(p) = 5
    BY <1>1
  <2> QED
    BY <2>1, <2>2, <1>1
<1>4. s[1] = SOH /\ \A i \in 1 .. 4 : s[i + 1] = p[i]
  <2>1. s[1] = SOH
    BY <1>1, <1>3
  <2>2. ASSUME NEW i \in 1 .. 4 PROVE s[i + 1] = p[i]
    <3>1. i + 1 \in 1 .. 5 /\ ~ (i + 1 <= 1) /\ i + 1 - 1 = i
      OBVIOUS
    <3> QED
      BY <3>1, <1>3
  <2> QED
    BY <2>1, <2>2
<1>5. PICK t \in Seq(Byte) : t = s \o e
  BY ConcatBytes
<1>6. Len(t) = 5 + Len(e) /\ \A i \in 1 .. 5 + Len(e) : t[i] = IF i <= 5 THEN s[i] ELSE e[i - 5]
  <2>1. Len(t) = Len(s) + Len(e)
        /\ \A i \in 1 .. Len(s) + Len(e) : t[i] = IF i <= Len(s) THEN s[i] ELSE e[i - Len(s)]
    BY <1>5, ConcatProperties
  <2> QED
    BY <2>1, <1>3
<1>7. Len(e) \in Nat
  BY LenProperties
<1>8. ASSUME NEW i \in 1 .. 4 PROVE t[i + 1] = p[i]
  <2>1. i + 1 \in 1 .. 5 + Len(e) /\ i + 1 <= 5
    BY <1>7
  <2>2. t[i + 1] = s[i + 1]
    BY <2>1, <1>6, Zenon
  <2> QED
    BY <2>2, <1>4
<1>9. ASSUME NEW i \in 1 .. Len(e) PROVE t[i + 5] = e[i]
  <2>1. i + 5 \in 1 .. 5 + Len(e) /\ ~ (i + 5 <= 5) /\ i + 5 - 5 = i
    BY <1>7
  <2> QED
    BY <2>1, <1>6
<1>10. t[1] = SOH
  BY <1>4, <1>6, <1>7
<1>11. QED
  BY <1>2, <1>5, <1>6, <1>8, <1>9, <1>10

(* t is SOH, the record p and what follows it. *)
Spells(t, p, e) ==
  /\ Len(t) = 5 + Len(e)
  /\ \A i \in 1 .. 4 : t[i + 1] = p[i]
  /\ \A i \in 1 .. Len(e) : t[i + 5] = e[i]

(* A record that is complete when nothing was lost of the burst is the     *)
(* record of the block, and nothing follows it.                            *)
LEMMA CompleteRecord ==
  ASSUME NEW k \in 1 .. Len(File) + 1, NEW p \in Seq(Byte), NEW e \in Seq(Byte), NEW t \in Seq(Byte),
         Spells(t, p, e), Remains(k, t)
  PROVE  /\ e = <<>> /\ k \in 1 .. Len(File)
         /\ p[1] = k % Numbers /\ p[2] = Complement(k % Numbers)
         /\ p[3] = File[k] /\ p[4] = Crc(File[k])
<1>1. Len(t) = 5 + Len(e) /\ \A i \in 1 .. 4 : t[i + 1] = p[i]
  BY DEF Spells
<1>2. PICK l \in Nat : l = Len(e)
  BY LenProperties
<1>3. PICK f \in Nat : f = Len(File)
  BY ConstantsAssumption, LenProperties
<1>4. PICK m \in Nat : m = Len(Burst(k))
  BY BurstBytes
<1>5. (k <= f => m = 5) /\ (k > f => m = 1)
  BY <1>3, <1>4, BurstBytes
<1>6. 5 + l <= m /\ (5 + l = m => t = Burst(k))
  BY <1>2, <1>4, <1>1 DEF Remains
<1>7. k \in Nat
  BY <1>3
<1>8. m = 5 /\ k <= f /\ l = 0
  BY <1>5, <1>6, <1>7
<1>9. t = Burst(k)
  BY <1>6, <1>8
<1>10. e = <<>>
  BY <1>2, <1>8, EmptySeq
<1>11. k \in 1 .. Len(File) /\ \A i \in 1 .. 4 : Burst(k)[i + 1] = Record(k)[i]
  BY <1>3, <1>8, BurstBytes
<1>12. \A i \in 1 .. 4 : p[i] = Record(k)[i]
  BY <1>9, <1>11, <1>1
<1>13. p[1] = Record(k)[1] /\ p[2] = Record(k)[2] /\ p[3] = Record(k)[3] /\ p[4] = Record(k)[4]
  BY <1>12
<1>14. QED
  BY <1>10, <1>11, <1>13, RecordBytes

(* When the sender was stopped, its CAN may follow the record, or take the *)
(* place of its last byte.  The record passes for a good one only if its   *)
(* data is that of the block.                                              *)
LEMMA StoppedRecord ==
  ASSUME NEW k \in 1 .. Len(File) + 1, NEW p \in Seq(Byte), NEW e \in Seq(Byte), NEW t \in Seq(Byte),
         Spells(t, p, e), NEW u \in Seq(Byte), Remains(k, u), t = Append(u, CAN)
  PROVE  /\ e \in {<<>>, <<CAN>>} /\ k \in 1 .. Len(File)
         /\ p[4] = Crc(p[3]) => p[1] = k % Numbers /\ p[3] = File[k]
<1>1. Len(t) = 5 + Len(e)
  BY DEF Spells
<1>2. t[2] = p[1] /\ t[4] = p[3] /\ t[5] = p[4]
  <2>1. \A i \in 1 .. 4 : t[i + 1] = p[i]
    BY DEF Spells
  <2>2. 1 \in 1 .. 4 /\ 3 \in 1 .. 4 /\ 4 \in 1 .. 4
    OBVIOUS
  <2>3. t[1 + 1] = p[1] /\ t[3 + 1] = p[3] /\ t[4 + 1] = p[4]
    BY <2>1, <2>2, Zenon
  <2> QED
    BY <2>3, 1 + 1 = 2, 3 + 1 = 4, 4 + 1 = 5, Zenon
<1>3. \A i \in 1 .. Len(e) : t[i + 5] = e[i]
  BY DEF Spells
<1>4. PICK l \in Nat : l = Len(e)
  BY LenProperties
<1>5. PICK f \in Nat : f = Len(File)
  BY ConstantsAssumption, LenProperties
<1>6. PICK m \in Nat : m = Len(Burst(k))
  BY BurstBytes
<1>7. PICK n \in Nat : n = Len(u)
  BY LenProperties
<1>8. CAN \in Byte
  BY DEF CAN, Byte
<1>9. Len(t) = n + 1 /\ (\A i \in 1 .. n : t[i] = u[i]) /\ t[n + 1] = CAN
  BY <1>7, <1>8, AppendProperties
<1>10. (k <= f => m = 5) /\ (k > f => m = 1)
  BY <1>5, <1>6, BurstBytes
<1>11. n <= m /\ (n = m => u = Burst(k))
  BY <1>6, <1>7 DEF Remains
<1>12. 5 + l = n + 1
  BY <1>4, <1>9, <1>1
<1>13. k \in Nat
  BY <1>5
<1>14. m = 5 /\ k <= f /\ ((n = 4 /\ l = 0) \/ (n = 5 /\ l = 1))
  BY <1>10, <1>11, <1>12, <1>13
<1>15. k \in 1 .. Len(File) /\ \A i \in 1 .. 4 : Burst(k)[i + 1] = Record(k)[i]
  BY <1>5, <1>14, BurstBytes
<1>16. Record(k)[1] = k % Numbers /\ Record(k)[3] = File[k] /\ Record(k)[4] = Crc(File[k])
  BY <1>15, RecordBytes
<1>17. CASE n = 5
  <2>1. u = Burst(k) /\ l = 1
    BY <1>11, <1>14, <1>17
  <2>2. t[6] = CAN /\ t[2] = u[2] /\ t[4] = u[4]
    BY <1>9, <1>17
  <2>3. 1 \in 1 .. Len(e)
    BY <1>4, <2>1
  <2>4. t[1 + 5] = e[1]
    BY <2>3, <1>3
  <2>5. e[1] = CAN
    BY <2>2, <2>4, 1 + 5 = 6, Zenon
  <2>6. e = <<CAN>>
    <3>1. <<CAN>> \in Seq(Byte) /\ Len(<<CAN>>) = 1 /\ <<CAN>>[1] = CAN
      BY <1>8
    <3>2. Len(e) = 1 /\ \A i \in 1 .. 1 : e[i] = <<CAN>>[i]
      BY <1>4, <2>1, <2>5, <3>1
    <3> QED
      BY <3>1, <3>2, SeqEqual
  <2>7. t[2] = p[1] /\ t[4] = p[3]
    BY <1>2
  <2>8. Burst(k)[2] = Record(k)[1] /\ Burst(k)[4] = Record(k)[3]
    BY <1>15
  <2>9. p[1] = Record(k)[1] /\ p[3] = Record(k)[3]
    BY <2>1, <2>2, <2>7, <2>8
  <2> QED
    BY <2>6, <2>9, <1>15, <1>16
<1>18. CASE n = 4
  <2>1. l = 0
    BY <1>14, <1>18
  <2>2. e = <<>>
    BY <2>1, <1>4, EmptySeq
  <2>3. t[2] = p[1] /\ t[4] = p[3] /\ t[5] = p[4]
    BY <1>2
  <2>4. t[2] = u[2] /\ t[4] = u[4] /\ t[5] = CAN
    BY <1>9, <1>18
  <2>5. u[4] = Burst(k)[5] \/ \A i \in 1 .. 4 : u[i] = Burst(k)[i]
    BY <1>6, <1>7, <1>14, <1>18 DEF Remains, RecordSize
  <2>6. Burst(k)[2] = Record(k)[1] /\ Burst(k)[4] = Record(k)[3] /\ Burst(k)[5] = Record(k)[4]
    BY <1>15
  <2>7. CASE u[4] = Burst(k)[5]
    <3>1. p[3] = Crc(File[k]) /\ p[4] = CAN
      BY <2>3, <2>4, <2>6, <2>7, <1>16
    <3>2. Crc(Crc(File[k])) # CAN
      BY <1>15, ChecksumAssumption
    <3>3. p[4] # Crc(p[3])
      BY <3>1, <3>2, Zenon
    <3> QED
      BY <3>3, <2>2, <1>15
  <2>8. CASE \A i \in 1 .. 4 : u[i] = Burst(k)[i]
    <3>1. u[2] = Record(k)[1] /\ u[4] = Record(k)[3]
      BY <2>6, <2>8
    <3> QED
      BY <3>1, <2>2, <2>3, <2>4, <1>15, <1>16
  <2> QED
    BY <2>5, <2>7, <2>8
<1>19. QED
  BY <1>14, <1>17, <1>18

(***************************************************************************)
(* Types.                                                                  *)
(***************************************************************************)
(* The file has a length. *)
LEMMA FileLength == Len(File) \in Nat
BY ConstantsAssumption, LenProperties

(* The receiver's steps keep the types. *)
LEMMA ReceiverTypes ==
  ASSUME TypeOK, Place, Receive
  PROVE  TypeOK'
<1> DEFINE Answers == {C, ACK, NAK, CAN}
<1>1. CASE Top
  <2>1. retries \in Nat /\ (retries # 0 => retries - 1 \in Nat) /\ tx \in Seq(Answers) /\ C \in Answers
    BY DEF TypeOK
  <2>2. Append(tx, C) \in Seq(Answers)
    BY <2>1, AppendProperties
  <2>3. retries' \in Nat /\ tx' \in Seq(Answers)
    BY <1>1, <2>1, <2>2 DEF Top, OneLess
  <2>4. pc' \in {"control", "flush"} /\ (after' = after \/ after' = "exceed")
    BY <1>1 DEF Top
  <2> QED
    BY <1>1, <2>3, <2>4 DEF TypeOK, Top, other, losses
<1>2. CASE Control
  <2>1. rx \in Seq(Byte) /\ rx # <<>> /\ tx \in Seq(Answers) /\ ACK \in Answers
    BY <1>2 DEF TypeOK, Control
  <2>2. Tail(rx) \in Seq(Byte) /\ Append(tx, ACK) \in Seq(Answers) /\ <<>> \in Seq(Byte)
    BY <2>1, AppendProperties, HeadTailProperties
  <2>3. rx' \in Seq(Byte) /\ tx' \in Seq(Answers) /\ buf' \in Seq(Byte)
    BY <1>2, <2>1, <2>2 DEF Control, TypeOK
  <2>4. pc' \in {"record", "flush", "top"} /\ starting' \in {"yes", "no"}
        /\ (after' = after \/ after' \in {"size", "cancel"})
    BY <1>2 DEF Control, TypeOK, AfterAck
  <2> QED
    BY <1>2, <2>3, <2>4 DEF TypeOK, Control, other, losses
<1>3. CASE GetRecord
  <2>1. rx \in Seq(Byte) /\ rx # <<>> /\ tx \in Seq(Answers) /\ NAK \in Answers /\ buf \in Seq(Byte)
    BY <1>3 DEF TypeOK, GetRecord
  <2>2. Tail(rx) \in Seq(Byte) /\ Append(tx, NAK) \in Seq(Answers) /\ Append(buf, Head(rx)) \in Seq(Byte)
    BY <2>1, AppendProperties, HeadTailProperties
  <2>3. rx' \in Seq(Byte) /\ tx' \in Seq(Answers) /\ buf' \in Seq(Byte)
    BY <1>3, <2>1, <2>2 DEF GetRecord
  <2>4. (pc' = pc \/ pc' \in {"flush", "top"}) /\ (after' = after \/ after' = "accept")
    BY <1>3 DEF GetRecord
  <2> QED
    BY <1>3, <2>3, <2>4 DEF TypeOK, GetRecord, other, losses
<1>4. CASE Timeout
  <2>1. tx \in Seq(Answers) /\ NAK \in Answers
    BY DEF TypeOK
  <2>2. Append(tx, NAK) \in Seq(Answers)
    BY <2>1, AppendProperties
  <2>3. tx' \in Seq(Answers)
    BY <1>4, <2>1, <2>2 DEF Timeout
  <2> QED
    BY <1>4, <2>3 DEF TypeOK, Timeout, other, losses
<1>5. CASE Flush
  <2>1. <<>> \in Seq(Byte)
    OBVIOUS
  <2> QED
    BY <1>5, <2>1 DEF TypeOK, Flush, receiver, other, losses
<1>6. CASE AfterFlush
  <2>1. tx \in Seq(Answers) /\ ACK \in Answers /\ CAN \in Answers /\ stored \in Seq(Byte)
    BY DEF TypeOK
  <2>2. Append(tx, ACK) \in Seq(Answers) /\ Cancels \in Seq(Answers)
    BY <2>1, AppendProperties DEF Cancels
  <2>3. tx \o Cancels \in Seq(Answers)
    BY <2>1, <2>2, ConcatProperties
  <2>4. ASSUME after = "accept" PROVE Append(stored, buf[3]) \in Seq(Byte)
    <3>1. Len(buf) = 4 /\ buf \in Seq(Byte)
      BY <2>4 DEF TypeOK, Place, RecordSize
    <3>2. buf \in Seq(Byte) /\ 3 \in 1 .. Len(buf)
      BY <3>1
    <3>3. buf[3] \in Byte
      BY <3>2, ElementOfSeq
    <3> QED
      BY <3>3, <2>1, AppendProperties
  <2>5. retries' \in Nat
    BY <1>6, ConstantsAssumption DEF AfterFlush, Renewed, TypeOK
  <2>6. packnum' \in 0 .. Numbers - 1
    <3>1. Numbers \in 2 .. 256 /\ packnum \in 0 .. Numbers - 1
      BY ConstantsAssumption DEF TypeOK
    <3>2. packnum + 1 \in Nat
      BY <3>1
    <3>3. (packnum + 1) % Numbers \in 0 .. Numbers - 1
      BY <3>2, NextNumber
    <3> QED
      BY <1>6, <3>1, <3>3 DEF AfterFlush
  <2>7. limit' \in Nat
    BY <1>6, ConstantsAssumption DEF AfterFlush, TypeOK
  <2>8. tx' \in Seq(Answers)
    BY <1>6, <2>1, <2>2, <2>3 DEF AfterFlush
  <2>9. stored' \in Seq(Byte)
    BY <1>6, <2>1, <2>4 DEF AfterFlush
  <2>10. (pc' = pc \/ pc' = "top") /\ (after' = after \/ after' \in {"none", "nomem"})
         /\ (result' = result \/ result' \in {"exceed", "nomem", "size", "cancel"})
    BY <1>6 DEF AfterFlush
  <2> QED
    BY <1>6, <2>5, <2>6, <2>7, <2>8, <2>9, <2>10 DEF TypeOK, AfterFlush, other, losses
<1>7. QED
  BY <1>1, <1>2, <1>3, <1>4, <1>5, <1>6 DEF Receive

(* So do the sender's and the line's. *)
LEMMA SenderTypes ==
  ASSUME TypeOK, Start \/ SendByte \/ Answer \/ NoAnswer \/ Abort \/ LoseData \/ LoseAnswer
  PROVE  TypeOK'
<1> DEFINE Answers == {C, ACK, NAK, CAN}
<1>1. rx \in Seq(Byte) /\ out \in Seq(Byte) /\ tx \in Seq(Answers) /\ block \in 1 .. Len(File) + 1
  BY DEF TypeOK
<1>2. CASE Start
  BY <1>2 DEF TypeOK, Start, receiver, losses
<1>3. CASE SendByte
  <2>1. Append(rx, Head(out)) \in Seq(Byte) /\ Tail(out) \in Seq(Byte)
    BY <1>1, <1>3, MoveByte DEF SendByte
  <2> QED
    BY <1>3, <2>1 DEF TypeOK, SendByte, receiver, losses
<1>4. CASE Answer
  <2>1. Tail(tx) \in Seq(Answers)
    BY <1>1, <1>4, HeadTailProperties DEF Answer
  <2>2. block' \in 1 .. Len(File) + 1
    BY <1>1, <1>4, FileLength DEF Answer, other
  <2>3. Burst(block) \in Seq(Byte)
    BY <1>1, BurstBytes
  <2>4. block <= Len(File) => Burst(block + 1) \in Seq(Byte)
    <3>1. block <= Len(File) => block + 1 \in 1 .. Len(File) + 1
      BY <1>1, FileLength
    <3> QED
      BY <3>1, BurstBytes
  <2>5. ~ (block > Len(File)) => block <= Len(File)
    BY <1>1, FileLength
  <2>6. out' \in Seq(Byte)
    BY <1>1, <1>4, <2>3, <2>4, <2>5 DEF Answer, other
  <2>7. sender' = sender \/ sender' \in {"wait", "end"}
    BY <1>4 DEF Answer, other
  <2> QED
    BY <1>4, <2>1, <2>2, <2>6, <2>7 DEF TypeOK, Answer, receiver, losses
<1>5. CASE NoAnswer
  <2>1. Burst(block) \in Seq(Byte)
    BY <1>1, BurstBytes
  <2> QED
    BY <1>5, <2>1 DEF TypeOK, NoAnswer, receiver, losses
<1>6. CASE Abort
  <2>1. <<CAN>> \in Seq(Byte)
    BY DEF CAN, Byte
  <2> QED
    BY <1>6, <2>1 DEF TypeOK, Abort, receiver, losses
<1>7. CASE LoseData
  <2>1. Tail(out) \in Seq(Byte)
    BY <1>1, <1>7, MoveByte DEF LoseData
  <2>2. lost' \in 0 .. MaxLost
    BY <1>7, ConstantsAssumption DEF LoseData, TypeOK
  <2>3. kinds' \in SUBSET {"soh", "inside", "end", "answer"}
    BY <1>7 DEF LoseData, TypeOK
  <2> QED
    BY <1>7, <2>1, <2>2, <2>3 DEF TypeOK, LoseData, receiver
<1>8. CASE LoseAnswer
  <2>1. Tail(tx) \in Seq(Answers)
    BY <1>1, <1>8, HeadTailProperties DEF LoseAnswer
  <2>2. lost' \in 0 .. MaxLost
    BY <1>8, ConstantsAssumption DEF LoseAnswer, TypeOK
  <2>3. kinds' \in SUBSET {"soh", "inside", "end", "answer"}
    BY <1>8 DEF LoseAnswer, TypeOK
  <2> QED
    BY <1>8, <2>1, <2>2, <2>3 DEF TypeOK, LoseAnswer, receiver, other
<1>9. QED
  BY <1>2, <1>3, <1>4, <1>5, <1>6, <1>7, <1>8

(***************************************************************************)
(* Once the transfer has ended.                                            *)
(***************************************************************************)
(* Nothing is stored any more, and what the end was for stays true. *)
LEMMA Ended ==
  ASSUME IInv, Next, ~ Live
  PROVE  Place' /\ Storing' /\ Ends' /\ ~ Live'
<1>1. TypeOK /\ Place /\ Storing /\ Ends
  BY DEF IInv
<1>2. pc = "flush" /\ after \in {"exceed", "nomem", "size", "cancel"}
  BY <1>1 DEF TypeOK, Place, Live
<1>3. /\ pc' = pc /\ after' = after /\ stored' = stored /\ limit' = limit
      /\ (result' = result \/ result' = after) /\ kinds \subseteq kinds'
      /\ (sender = "gone" => sender' = "gone")
  <2>1. CASE Flush
    BY <2>1 DEF Flush, receiver, other, losses
  <2>2. CASE AfterFlush
    BY <1>2, <2>2 DEF AfterFlush, other, losses
  <2>3. CASE Start \/ SendByte \/ Abort
    BY <2>3 DEF Start, SendByte, Abort, receiver, losses
  <2>4. CASE Answer
    BY <2>4 DEF Answer, receiver, other, losses
  <2>5. CASE LoseData \/ LoseAnswer
    BY <2>5 DEF LoseData, LoseAnswer, receiver, other
  <2>6. ~ Top /\ ~ Control /\ ~ GetRecord /\ ~ Timeout /\ ~ NoAnswer
    BY <1>2 DEF Top, Control, GetRecord, Timeout, NoAnswer
  <2> QED
    BY <2>1, <2>2, <2>3, <2>4, <2>5, <2>6 DEF Next, Receive
<1>4. ~ Live'
  BY <1>2, <1>3 DEF Live
<1>5. Place'
  BY <1>1, <1>2, <1>3 DEF Place
<1>6. Storing'
  <2>1. Len(stored') <= Len(File) /\ (\A i \in 1 .. Len(stored') : stored'[i] = File[i])
        /\ Len(stored') <= limit'
    BY <1>1, <1>3 DEF Storing
  <2> QED
    BY <2>1, <1>4 DEF Storing
<1>7. Ends'
  BY <1>1, <1>3 DEF Ends
<1>8. QED
  BY <1>4, <1>5, <1>6, <1>7

(***************************************************************************)
(* While it goes on: the sender and the line.                              *)
(***************************************************************************)
(* A step that leaves the receiver alone. *)
LEMMA OtherSide ==
  ASSUME IInv, Live, UNCHANGED receiver, block' = block \/ after = "none"
  PROVE  Place' /\ Storing' /\ Ends' /\ Live'
<1>1. Place /\ Storing /\ Ends
  BY DEF IInv
<1>2. /\ pc' = pc /\ after' = after /\ stored' = stored /\ limit' = limit /\ result' = result
      /\ buf' = buf /\ packnum' = packnum /\ starting' = starting
  BY DEF receiver
<1>3. after \in {"none", "accept"}
  BY DEF Live
<1>4. Live'
  BY <1>2, <1>3 DEF Live
<1>5. Place'
  BY <1>1, <1>2, <1>3 DEF Place
<1>6. Storing'
  BY <1>1, <1>2 DEF Storing, Live
<1>7. Ends'
  BY <1>2, <1>3 DEF Ends
<1>8. QED
  BY <1>4, <1>5, <1>6, <1>7

(* The parts of the invariant while the transfer goes on. *)
LEMMA Parts ==
  ASSUME IInv, Live
  PROVE  /\ TypeOK /\ Place /\ Storing /\ OneBurst /\ NotBegun /\ OneReply /\ SameBlock
         /\ HeadFound /\ Repaired /\ after \in {"none", "accept"}
         /\ rx \in Seq(Byte) /\ out \in Seq(Byte) /\ buf \in Seq(Byte) /\ stored \in Seq(Byte)
         /\ block \in 1 .. Len(File) + 1 /\ Len(stored) \in Nat
         /\ tx \in Seq({C, ACK, NAK, CAN}) /\ Len(tx) \in Nat
<1>1. TypeOK /\ Place /\ Storing /\ Protocol
  BY DEF IInv
<1>2. stored \in Seq(Byte) /\ tx \in Seq({C, ACK, NAK, CAN})
  BY <1>1 DEF TypeOK
<1>3. Len(stored) \in Nat /\ Len(tx) \in Nat
  BY <1>2, LenProperties
<1>4. QED
  BY <1>1, <1>3 DEF TypeOK, Protocol, Live

(* Start *)
LEMMA StartStep ==
  ASSUME IInv, Live, Start, TypeOK'
  PROVE  IInv'
<1>1. UNCHANGED <<receiver, rx, tx, block, out, losses>> /\ sender = "off" /\ sender' = "start"
  BY DEF Start
<1>2. Place' /\ Storing' /\ Ends' /\ Live'
  BY <1>1, OtherSide
<1>3. NotBegun /\ after \in {"none", "accept"} /\ Place
  BY Parts
<1>4. pc' = pc /\ pc # "flush" /\ after' = "none" /\ UNCHANGED <<stored, kinds, rx, tx, out, block, buf>>
  BY <1>1, <1>3 DEF receiver, losses, NotBegun, Place
<1>5. NotBegun'
  BY <1>1, <1>3, <1>4 DEF NotBegun
<1>6. stored' = <<>> /\ rx' = <<>> /\ out' = <<>> /\ pc' # "record"
  BY <1>1, <1>3, <1>4 DEF NotBegun
<1>7. Coming' = <<>>
  <2>1. <<>> \in Seq(Byte) /\ <<>> \o <<>> = <<>>
    BY ConcatEmptySeq, EmptySeq
  <2>2. Coming' = Way(pc', buf', rx', out')
    BY DEF Coming
  <2>3. PICK e \in Seq(Byte) : e = <<>>
    BY <2>1
  <2>4. Way(pc', buf', e, e) = e \o e
    BY <1>6, WayOut, Zenon
  <2> QED
    BY <2>1, <2>2, <2>3, <2>4, <1>6, Zenon
<1>8. OneBurst' /\ OneReply' /\ SameBlock' /\ Repaired' /\ HeadFound'
  BY <1>1, <1>4, <1>6, <1>7 DEF OneBurst, OneReply, SameBlock, Repaired, Calm, HeadFound
<1>9. QED
  BY <1>2, <1>5, <1>8 DEF IInv, Protocol

(* SendByte *)
LEMMA SendByteStep ==
  ASSUME IInv, Live, SendByte, TypeOK'
  PROVE  IInv'
<1>1. UNCHANGED <<receiver, tx, sender, block, losses>> /\ out # <<>>
      /\ rx' = Append(rx, Head(out)) /\ out' = Tail(out)
  BY DEF SendByte
<1>2. Place' /\ Storing' /\ Ends' /\ Live'
  BY <1>1, OtherSide
<1>3. UNCHANGED <<pc, after, starting, retries, buf, stored, tx, sender, block, lost, kinds>>
  BY <1>1 DEF receiver, losses
<1>4. rx \in Seq(Byte) /\ out \in Seq(Byte) /\ buf \in Seq(Byte)
  BY Parts
<1>5. Coming' = Coming
  <2>1. Coming' = Way(pc, buf, Append(rx, Head(out)), Tail(out))
    BY <1>1, <1>3 DEF Coming
  <2> QED
    BY <2>1, <1>1, <1>4, WaySend DEF Coming
<1>6. OneBurst'
  <2>1. OneBurst
    BY Parts
  <2>2. sender = "gone" => out' \in {<<>>, <<CAN>>}
    <3>1. sender = "gone" => out = <<CAN>>
      BY <2>1, <1>1 DEF OneBurst
    <3>2. Tail(<<CAN>>) = <<>>
      OBVIOUS
    <3> QED
      BY <3>1, <3>2, <1>1
  <2> QED
    BY <2>1, <2>2, <1>3, <1>5 DEF OneBurst
<1>7. NotBegun'
  <2>1. NotBegun
    BY Parts
  <2> QED
    BY <2>1, <1>1, <1>3 DEF NotBegun
<1>8. OneReply' /\ SameBlock'
  <2>1. OneReply /\ SameBlock
    BY Parts
  <2> QED
    BY <2>1, <1>3, <1>5 DEF OneReply, SameBlock
<1>9. HeadFound'
  <2>1. HeadFound
    BY Parts
  <2>2. Append(rx, Head(out)) # <<>>
    BY <1>1, <1>4, MoveByte, AppendProperties
  <2> QED
    BY <2>1, <2>2, <1>1, <1>3, <1>5 DEF HeadFound
<1>10. Repaired'
  <2>1. Repaired
    BY Parts
  <2> QED
    BY <2>1, <1>3, <1>5 DEF Repaired, Calm, Replied, Damage, Left
<1>11. QED
  BY <1>2, <1>6, <1>7, <1>8, <1>9, <1>10 DEF IInv, Protocol

(* A burst the sender begins when nothing is under way is all there is. *)
LEMMA NewBurst ==
  ASSUME NEW k \in 1 .. Len(File) + 1, NEW p, NEW b, p # "record"
  PROVE  Way(p, b, <<>>, Burst(k)) = Burst(k) /\ Way(p, b, <<>>, <<>>) = <<>>
<1>1. PICK e \in Seq(Byte) : e = <<>>
  BY EmptySeq
<1>2. PICK u \in Seq(Byte) : u = Burst(k)
  BY BurstBytes
<1>3. Way(p, b, e, u) = e \o u /\ Way(p, b, e, e) = e \o e
  BY WayOut, Zenon
<1>4. e \o u = u /\ e \o e = e
  BY <1>1, ConcatBytes
<1>5. QED
  BY <1>1, <1>2, <1>3, <1>4, Zenon

(* The sender begins a burst: a first one, the next one or one more. *)
LEMMA BeginBurst ==
  ASSUME IInv, Live, TypeOK', UNCHANGED <<receiver, rx, losses>>,
         pc \in {"top", "control"}, rx = <<>>,
         sender' = "wait", out' = Burst(block'),
         \A i \in 1 .. Len(tx') : tx'[i] \notin {ACK, NAK},
         block' = Len(stored) \/ block' = Len(stored) + 1,
         Calm' => block' # Len(stored) /\ Left >= RetryLimit - lost
  PROVE  IInv'
<1>1. UNCHANGED <<pc, after, starting, retries, buf, stored, rx, lost, kinds>>
  BY DEF receiver, losses
<1>2. after = "none"
  BY Parts DEF Place
<1>3. Place' /\ Storing' /\ Ends' /\ Live'
  BY <1>2, OtherSide
<1>4. block' \in 1 .. Len(File) + 1
  BY DEF TypeOK
<1>5. Coming' = Burst(block')
  <2>1. Coming' = Way(pc', buf', <<>>, Burst(block'))
    BY <1>1 DEF Coming
  <2>2. pc' # "record"
    BY <1>1
  <2> QED
    BY <2>1, <2>2, <1>4, NewBurst
<1>6. OneBurst'
  BY <1>1, <1>2, <1>4, <1>5, RemainsEnds DEF OneBurst
<1>7. NotBegun' /\ SameBlock'
  BY <1>1 DEF NotBegun, SameBlock
<1>8. OneReply'
  BY DEF OneReply
<1>9. HeadFound'
  <2>1. block' <= Len(File) => Len(Burst(block')) = 5 /\ Burst(block')[1] = SOH
    BY <1>4, BurstBytes
  <2> QED
    BY <2>1, <1>5 DEF HeadFound, RecordSize
<1>10. Repaired'
  <2>1. Burst(block') # <<>> /\ Len(Burst(block')) \in Nat
    BY <1>4, BurstBytes
  <2>2. Damage' = 0
    BY <2>1, <1>5 DEF Damage
  <2>3. Left' = Left /\ Left \in Int /\ lost \in Nat /\ RetryLimit \in Nat
    BY <1>1, Parts, ConstantsAssumption DEF Left, TypeOK
  <2>4. Calm' => Left' >= RetryLimit - lost' + Damage'
    BY <2>2, <2>3, <1>1
  <2> QED
    BY <2>1, <2>4, <1>1, <1>5 DEF Repaired
<1>11. QED
  BY <1>3, <1>6, <1>7, <1>8, <1>9, <1>10 DEF IInv, Protocol

(* When nothing is under way, nothing is in any of the parts. *)
LEMMA NothingComing ==
  ASSUME TypeOK
  PROVE  /\ Coming \in Seq(Byte) /\ Len(Coming) \in Nat
         /\ Coming = <<>> <=> pc # "record" /\ rx = <<>> /\ out = <<>>
         /\ pc = "record" => Coming[1] = SOH
<1>1. rx \in Seq(Byte) /\ out \in Seq(Byte) /\ buf \in Seq(Byte) /\ block \in 1 .. Len(File) + 1
  BY DEF TypeOK
<1>2. CASE pc = "record"
  <2>1. Coming = Way("record", buf, rx, out)
    BY <1>2 DEF Coming
  <2>2. Coming \in Seq(Byte) /\ Coming # <<>> /\ Coming[1] = SOH
    BY <2>1, <1>1, WayTaken
  <2> QED
    BY <2>2, <1>2, LenProperties
<1>3. CASE pc # "record"
  <2>1. Coming = rx \o out
    BY <1>1, <1>3, WayOut, Zenon DEF Coming
  <2>2. rx \o out \in Seq(Byte) /\ (rx \o out = <<>> <=> rx = <<>> /\ out = <<>>)
    BY <1>1, ConcatBytes
  <2> QED
    BY <2>1, <2>2, <1>3, LenProperties
<1>4. QED
  BY <1>2, <1>3

(* Outside a record the receiver reads the first byte under way. *)
LEMMA FirstByte ==
  ASSUME TypeOK, pc # "record", rx # <<>>
  PROVE  /\ Coming = rx \o out /\ Coming # <<>> /\ Coming[1] = Head(rx)
         /\ Tail(rx) \in Seq(Byte) /\ Tail(rx) \o out = Tail(Coming)
<1>1. rx \in Seq(Byte) /\ out \in Seq(Byte) /\ buf \in Seq(Byte)
  BY DEF TypeOK
<1>2. Coming = rx \o out
  BY <1>1, WayOut, Zenon DEF Coming
<1>3. Head(rx) = rx[1] /\ Tail(rx) \in Seq(Byte)
  BY <1>1, MoveByte
<1>4. rx \o out # <<>> /\ (rx \o out)[1] = rx[1] /\ Tail(rx \o out) = Tail(rx) \o out
  BY <1>1, ConcatBytes
<1>5. QED
  BY <1>2, <1>3, <1>4, Zenon

(* The answers under way when one has arrived or is lost. *)
LEMMA Answers ==
  ASSUME TypeOK, tx # <<>>
  PROVE  /\ Len(tx) \in Nat /\ Len(tx) > 0 /\ Head(tx) = tx[1]
         /\ Len(Tail(tx)) = Len(tx) - 1
         /\ \A i \in 1 .. Len(Tail(tx)) : Tail(tx)[i] = tx[i + 1]
<1>1. tx \in Seq({C, ACK, NAK, CAN})
  BY DEF TypeOK
<1>2. QED
  BY <1>1, HeadTailProperties, EmptySeq

(* One answer less leaves a reply the last. *)
LEMMA FewerAnswers ==
  ASSUME TypeOK, OneReply, tx # <<>>, tx' = Tail(tx), UNCHANGED <<receiver, rx, other>>
  PROVE  OneReply'
<1>1. UNCHANGED <<pc, starting, stored, buf, rx, out, sender, block>>
  BY DEF receiver, other
<1>2. Coming' = Coming
  BY <1>1 DEF Coming
<1>3. ASSUME sender = "wait", NEW i \in 1 .. Len(tx'), tx'[i] \in {ACK, NAK}
      PROVE  /\ i = Len(tx') /\ starting = "no" /\ Coming = <<>> /\ pc \in {"top", "control"}
             /\ tx'[i] = ACK => block = Len(stored)
  <2>1. Len(tx') = Len(tx) - 1 /\ Len(tx) \in Nat /\ tx'[i] = tx[i + 1]
    BY Answers
  <2>2. i + 1 \in 1 .. Len(tx) /\ i \in Nat
    BY <2>1
  <2>3. tx[i + 1] \in {ACK, NAK}
    BY <2>1, <1>3
  <2>4. /\ i + 1 = Len(tx) /\ starting = "no" /\ Coming = <<>> /\ pc \in {"top", "control"}
        /\ tx[i + 1] = ACK => block = Len(stored)
    BY <2>2, <2>3, <1>3 DEF OneReply
  <2>5. i = Len(tx')
    <3>1. PICK n \in Nat : n = Len(tx)
      BY <2>1
    <3>2. i + 1 = n /\ Len(tx') = n - 1
      BY <3>1, <2>1, <2>4
    <3> QED
      BY <3>2, <2>2
  <2> QED
    BY <2>1, <2>4, <2>5
<1>4. QED
  BY <1>1, <1>2, <1>3 DEF OneReply

(* NoAnswer *)
LEMMA NoAnswerStep ==
  ASSUME IInv, Live, NoAnswer, TypeOK'
  PROVE  IInv'
<1>1. UNCHANGED <<receiver, rx, tx, sender, block, losses>> /\ sender = "wait" /\ pc = "control"
      /\ rx = <<>> /\ tx = <<>> /\ out = <<>> /\ out' = Burst(block)
  BY DEF NoAnswer, Silence
<1>2. SameBlock /\ Repaired /\ TypeOK
  BY Parts
<1>3. Coming = <<>>
  BY <1>1, <1>2, NothingComing
<1>4. ~ Replied /\ Len(tx') = 0
  BY <1>1 DEF Replied
<1>5. ~ Calm
  BY <1>1, <1>2, <1>3, <1>4 DEF Repaired
<1>6. ~ Calm'
  BY <1>1, <1>5 DEF Calm, receiver, losses
<1>7. block = Len(stored) \/ block = Len(stored) + 1
  BY <1>1, <1>2 DEF SameBlock
<1>8. \A i \in 1 .. Len(tx') : tx'[i] \notin {ACK, NAK}
  BY <1>4
<1>9. QED
  BY <1>1, <1>6, <1>7, <1>8, BeginBurst

(* Answer *)
LEMMA AnswerStep ==
  ASSUME IInv, Live, Answer, TypeOK'
  PROVE  IInv'
<1>1. UNCHANGED <<receiver, rx, losses>> /\ tx # <<>> /\ out = <<>> /\ tx' = Tail(tx)
  BY DEF Answer
<1>2. /\ TypeOK /\ Place /\ Storing /\ OneBurst /\ NotBegun /\ OneReply /\ SameBlock /\ HeadFound
      /\ Repaired /\ Len(stored) \in Nat /\ block \in 1 .. Len(File) + 1
  BY Parts
<1>3. /\ Len(tx) \in Nat /\ Len(tx) > 0 /\ Head(tx) = tx[1] /\ Len(tx') = Len(tx) - 1
      /\ \A i \in 1 .. Len(tx') : tx'[i] = tx[i + 1]
  BY <1>1, <1>2, Answers
<1>4. UNCHANGED <<pc, after, starting, retries, buf, stored, rx, lost, kinds>>
  BY <1>1 DEF receiver, losses
<1>5. Left \in Int /\ lost \in Nat /\ RetryLimit \in Nat /\ Damage \in {0, 1}
  BY <1>2, ConstantsAssumption DEF Left, TypeOK, Damage
<1>6. CASE sender = "start" /\ Head(tx) = C
  <2>1. sender' = "wait" /\ out' = Burst(block) /\ block' = block
    BY <1>6 DEF Answer
  <2>2. block = 1 /\ stored = <<>> /\ rx = <<>> /\ pc \in {"top", "control"}
        /\ \A i \in 1 .. Len(tx) : tx[i] = C
    BY <1>2, <1>6 DEF NotBegun
  <2>3. ASSUME NEW i \in 1 .. Len(tx') PROVE tx'[i] \notin {ACK, NAK}
    <3>1. tx'[i] = tx[i + 1] /\ i + 1 \in 1 .. Len(tx)
      BY <1>3
    <3> QED
      BY <3>1, <2>2 DEF C, ACK, NAK
  <2>4. Len(stored) = 0 /\ block' = Len(stored) + 1
    BY <2>1, <2>2
  <2>5. ~ Calm'
    BY <2>2, <1>4 DEF Calm
  <2> QED
    BY <2>1, <2>2, <2>3, <2>4, <2>5, <1>1, BeginBurst
<1>7. CASE sender = "wait" /\ Head(tx) \in {ACK, NAK}
  <2>1. /\ 1 = Len(tx) /\ Coming = <<>> /\ pc \in {"top", "control"}
        /\ tx[1] = ACK => block = Len(stored)
    BY <1>2, <1>3, <1>7 DEF OneReply
  <2>2. rx = <<>>
    BY <2>1, <1>2, NothingComing
  <2>3. \A i \in 1 .. Len(tx') : tx'[i] \notin {ACK, NAK}
    BY <2>1, <1>3
  <2>4. Calm => Left >= RetryLimit - lost
    <3>1. Calm => Left >= RetryLimit - lost + Damage
      BY <2>1, <1>2 DEF Repaired
    <3> QED
      BY <3>1, <1>5
  <2>5. Calm' => Calm
    BY <1>4, <1>7 DEF Calm
  <2>6. CASE Head(tx) = ACK
    <3>1. block = Len(stored) /\ Len(stored) <= Len(File)
      BY <2>1, <2>6, <1>2, <1>3 DEF Storing
    <3>2. ~ (block > Len(File))
      BY <3>1, <1>2, FileLength
    <3>3. sender' = sender /\ block' = block + 1 /\ out' = Burst(block + 1)
      BY <3>2, <2>6, <1>7 DEF Answer, ACK, NAK
    <3>4. block' = Len(stored) + 1 /\ block' # Len(stored)
      BY <3>1, <3>3, <1>2
    <3>5. sender' = "wait" /\ out' = Burst(block')
      BY <3>3, <1>7
    <3> QED
      BY <3>4, <3>5, <2>1, <2>2, <2>3, <2>4, <2>5, <1>1, BeginBurst
  <2>7. CASE Head(tx) = NAK
    <3>1. sender' = "wait" /\ block' = block /\ out' = Burst(block)
      BY <2>7, <1>7 DEF Answer, ACK, NAK
    <3>2. block' = Len(stored) \/ block' = Len(stored) + 1
      BY <3>1, <1>2, <1>7 DEF SameBlock
    <3>3. tx[1] = NAK /\ NAK # ACK
      BY <2>7, <1>3 DEF ACK, NAK
    <3>4. tx[Len(tx)] # ACK
      BY <3>3, <2>1, Zenon
    <3>5. Calm => block # Len(stored)
      BY <3>4, <1>2 DEF Repaired
    <3>6. out' = Burst(block')
      BY <3>1
    <3>7. Calm' => block' # Len(stored) /\ Left >= RetryLimit - lost
      BY <3>1, <3>5, <2>4, <2>5
    <3> QED
      BY <3>1, <3>2, <3>6, <3>7, <2>1, <2>2, <2>3, <1>1, BeginBurst
  <2> QED
    BY <2>6, <2>7, <1>7
<1>8. CASE /\ ~ (sender = "start" /\ Head(tx) = C)
           /\ ~ (sender = "wait" /\ Head(tx) \in {ACK, NAK})
  <2>1. UNCHANGED other
    BY <1>8 DEF Answer
  <2>2. UNCHANGED <<sender, block, out>>
    BY <2>1 DEF other
  <2>3. Coming' = Coming
    BY <2>2, <1>4 DEF Coming
  <2>4. Place' /\ Storing' /\ Ends' /\ Live'
    BY <2>2, <1>1, OtherSide
  <2>5. OneBurst' /\ SameBlock'
    BY <2>2, <2>3, <1>2, <1>4 DEF OneBurst, SameBlock
  <2>6. NotBegun'
    <3>1. ASSUME sender \in {"off", "start"}, NEW i \in 1 .. Len(tx') PROVE tx'[i] = C
      <4>1. tx'[i] = tx[i + 1] /\ i + 1 \in 1 .. Len(tx)
        BY <1>3
      <4> QED
        BY <4>1, <3>1, <1>2 DEF NotBegun
    <3> QED
      BY <3>1, <2>2, <1>2, <1>4 DEF NotBegun
  <2>7. OneReply'
    BY <2>1, <1>1, <1>2, FewerAnswers
  <2>8. HeadFound'
    BY <2>2, <2>3, <1>2, <1>4 DEF HeadFound
  <2>9. Repaired'
    <3>1. Calm' = Calm /\ Damage' = Damage /\ Left' = Left
      BY <2>2, <2>3, <1>4 DEF Calm, Damage, Left
    <3>2. ASSUME sender = "wait", Replied
          PROVE  Replied' /\ tx'[Len(tx')] = tx[Len(tx)]
      <4>1. Len(tx) # 1
        BY <3>2, <1>3, <1>8 DEF Replied
      <4>2. Len(tx') \in 1 .. Len(tx') /\ Len(tx') + 1 = Len(tx)
        BY <4>1, <1>3
      <4>3. tx'[Len(tx')] = tx[Len(tx)]
        BY <4>2, <1>3
      <4>4. Len(tx') > 0
        BY <4>2
      <4> QED
        BY <4>3, <4>4, <3>2 DEF Replied
    <3>3. Calm => sender = "wait"
      BY DEF Calm
    <3> QED
      BY <3>1, <3>2, <3>3, <2>2, <2>3, <1>2, <1>4 DEF Repaired
  <2> QED
    BY <2>4, <2>5, <2>6, <2>7, <2>8, <2>9 DEF IInv, Protocol
<1>9. QED
  BY <1>6, <1>7, <1>8

(* Abort *)
LEMMA AbortStep ==
  ASSUME IInv, Live, Abort, TypeOK'
  PROVE  IInv'
<1>1. UNCHANGED <<receiver, rx, tx, block, losses>> /\ sender = "wait" /\ out = <<>>
      /\ sender' = "gone" /\ out' = <<CAN>>
  BY DEF Abort
<1>2. Place' /\ Storing' /\ Ends' /\ Live'
  BY <1>1, OtherSide
<1>3. UNCHANGED <<pc, after, stored, buf, rx, kinds>>
  BY <1>1 DEF receiver, losses
<1>4. /\ OneBurst /\ SameBlock /\ HeadFound /\ rx \in Seq(Byte) /\ buf \in Seq(Byte)
  BY Parts
<1>5. <<CAN>> \in Seq(Byte) /\ <<>> \in Seq(Byte) /\ CAN \in Byte
  BY DEF CAN, Byte
<1>6. PICK a \in Seq(Byte) : /\ \A o \in Seq(Byte) : Way(pc, buf, rx, o) = a \o o
                             /\ pc # "record" => a = rx
  BY <1>4, WayEnd, Zenon
<1>7. a \o <<>> = a /\ a \o <<CAN>> = Append(a, CAN)
  BY <1>5, ConcatBytes
<1>8. Coming = a /\ Coming' = Append(a, CAN)
  <2>1. PICK e, c \in Seq(Byte) : e = <<>> /\ c = <<CAN>>
    BY <1>5
  <2>2. Way(pc, buf, rx, e) = a \o e /\ Way(pc, buf, rx, c) = a \o c
    BY <1>6, Zenon
  <2>3. Coming = Way(pc, buf, rx, e) /\ Coming' = Way(pc, buf, rx, c)
    BY <2>1, <1>1, <1>3 DEF Coming
  <2> QED
    BY <2>1, <2>2, <2>3, <1>7, Zenon
<1>9. Append(a, CAN) # <<>> /\ (a = <<>> => Append(a, CAN) = <<CAN>>)
      /\ (a # <<>> => Append(a, CAN)[1] = a[1])
  <2>1. a # <<>> => Len(a) \in Nat \ {0}
    BY EmptySeq
  <2>2. Append(a, CAN) # <<>> /\ (a # <<>> => Append(a, CAN)[1] = a[1])
    BY <2>1, <1>5, AppendProperties
  <2>3. Append(<<>>, CAN) = <<CAN>>
    OBVIOUS
  <2>4. ASSUME a = <<>> PROVE Append(a, CAN) = <<CAN>>
    BY <2>3, <2>4
  <2> QED
    BY <2>2, <2>4
<1>10. OneBurst'
  <2>1. Remains(block, a) /\ (after = "accept" => a = <<>>)
    BY <1>1, <1>4, <1>8 DEF OneBurst
  <2> QED
    BY <2>1, <1>1, <1>3, <1>8, <1>9 DEF OneBurst
<1>11. NotBegun' /\ OneReply' /\ SameBlock'
  BY <1>1, <1>3, <1>4 DEF NotBegun, OneReply, SameBlock
<1>12. HeadFound'
  BY <1>1, <1>3, <1>4, <1>8, <1>9 DEF HeadFound
<1>13. Repaired'
  BY <1>1 DEF Repaired, Calm
<1>14. QED
  BY <1>2, <1>10, <1>11, <1>12, <1>13 DEF IInv, Protocol

(* LoseAnswer *)
LEMMA LoseAnswerStep ==
  ASSUME IInv, Live, LoseAnswer, TypeOK'
  PROVE  IInv'
<1>1. UNCHANGED <<receiver, rx, other>> /\ tx # <<>> /\ tx' = Tail(tx)
      /\ kinds' = kinds \cup {"answer"}
  BY DEF LoseAnswer
<1>2. UNCHANGED <<pc, after, stored, buf, rx, out, sender, block>>
  BY <1>1 DEF receiver, other
<1>3. Place' /\ Storing' /\ Ends' /\ Live'
  BY <1>1, <1>2, OtherSide
<1>4. TypeOK /\ OneBurst /\ NotBegun /\ OneReply /\ SameBlock /\ HeadFound
  BY Parts
<1>5. Coming' = Coming
  BY <1>2 DEF Coming
<1>6. OneBurst' /\ SameBlock'
  BY <1>2, <1>4, <1>5 DEF OneBurst, SameBlock
<1>7. NotBegun'
  <2>1. ASSUME sender \in {"off", "start"}, NEW i \in 1 .. Len(tx') PROVE tx'[i] = C
    <3>1. Len(tx) \in Nat /\ Len(tx') = Len(tx) - 1 /\ tx'[i] = tx[i + 1]
      BY <1>1, <1>4, Answers
    <3>2. i + 1 \in 1 .. Len(tx)
      BY <3>1
    <3> QED
      BY <3>1, <3>2, <2>1, <1>4 DEF NotBegun
  <2> QED
    BY <2>1, <1>2, <1>4 DEF NotBegun
<1>8. OneReply'
  BY <1>1, <1>4, FewerAnswers
<1>9. HeadFound'
  BY <1>1, <1>2, <1>4, <1>5 DEF HeadFound
<1>10. Repaired'
  BY <1>1 DEF Repaired, Calm
<1>11. QED
  BY <1>3, <1>6, <1>7, <1>8, <1>9, <1>10 DEF IInv, Protocol

(* LoseData *)
LEMMA LoseDataStep ==
  ASSUME IInv, Live, LoseData, TypeOK'
  PROVE  IInv'
<1>1. UNCHANGED <<receiver, rx, tx, sender, block>> /\ out # <<>> /\ out' = Tail(out)
      /\ lost' = lost + 1 /\ kinds \subseteq kinds'
      /\ (Len(out) = 5 => "soh" \in kinds')
  BY DEF LoseData, RecordSize
<1>2. UNCHANGED <<pc, after, starting, retries, stored, buf, rx, tx, sender, block>>
  BY <1>1 DEF receiver
<1>3. Place' /\ Storing' /\ Ends' /\ Live'
  BY <1>1, OtherSide
<1>4. /\ TypeOK /\ OneBurst /\ NotBegun /\ OneReply /\ SameBlock /\ HeadFound /\ Repaired
      /\ rx \in Seq(Byte) /\ buf \in Seq(Byte) /\ out \in Seq(Byte) /\ block \in 1 .. Len(File) + 1
  BY Parts
<1>5. Coming # <<>>
  BY <1>1, <1>4, NothingComing
<1>6. PICK a \in Seq(Byte) : /\ \A o \in Seq(Byte) : Way(pc, buf, rx, o) = a \o o
                             /\ pc # "record" => a = rx
  BY <1>4, WayEnd, Zenon
<1>7. Tail(out) \in Seq(Byte)
  BY <1>1, <1>4, MoveByte
<1>8. Coming = a \o out /\ Coming' = a \o Tail(out)
  BY <1>1, <1>2, <1>4, <1>6, <1>7, Zenon DEF Coming
<1>9. sender \in {"wait", "gone"}
  BY <1>1, <1>4 DEF NotBegun, SameBlock, TypeOK
<1>10. ASSUME sender = "gone" PROVE out = <<CAN>> /\ Coming = Append(a, CAN) /\ Coming' = a
  <2>1. out = <<CAN>>
    BY <1>1, <1>4, <1>10 DEF OneBurst
  <2>2. Tail(<<CAN>>) = <<>> /\ <<>> \in Seq(Byte) /\ <<CAN>> \in Seq(Byte)
    BY DEF CAN, Byte
  <2>3. a \o <<>> = a /\ a \o <<CAN>> = Append(a, CAN)
    BY <2>2, ConcatBytes
  <2> QED
    BY <2>1, <2>2, <2>3, <1>8, Zenon
<1>11. OneBurst'
  <2>1. sender = "wait" => Remains(block, Coming')
    BY <1>1, <1>4, <1>8, RemainsDelete DEF OneBurst
  <2>2. ASSUME sender = "gone"
        PROVE  out' = <<>> /\ \E u \in Seq(Byte) : Remains(block, u) /\ Coming' \in {u, Append(u, CAN)}
    <3>1. out = <<CAN>> /\ Coming = Append(a, CAN) /\ Coming' = a /\ Tail(<<CAN>>) = <<>>
      BY <2>2, <1>10
    <3>2. PICK u \in Seq(Byte) : Remains(block, u) /\ Coming \in {u, Append(u, CAN)}
      BY <2>2, <1>4 DEF OneBurst
    <3>3. CASE Coming = Append(u, CAN)
      <4>1. CAN \in Byte
        BY DEF CAN, Byte
      <4>2. \A x, y \in Seq(Byte) : Append(x, CAN) = Append(y, CAN) => x = y
        BY <4>1, AppendInjective
      <4>3. Append(a, CAN) = Append(u, CAN)
        BY <3>1, <3>3, Zenon
      <4>4. a = u
        BY <4>2, <4>3, Zenon
      <4> QED
        BY <4>4, <3>1, <3>2, <1>1
    <3>4. CASE Coming = u
      <4>1. Remains(block, a \o out)
        BY <3>2, <3>4, <1>8
      <4>2. Remains(block, a \o Tail(out))
        BY <4>1, <1>1, <1>4, RemainsDelete
      <4>3. Remains(block, a)
        BY <4>2, <3>1, <1>8
      <4> QED
        BY <4>3, <3>1, <1>1
    <3> QED
      BY <3>2, <3>3, <3>4
  <2>3. ASSUME after = "accept" PROVE Coming' = <<>>
    <3>1. Coming = <<CAN>> /\ sender = "gone"
      BY <2>3, <1>4, <1>5, <1>9 DEF OneBurst
    <3>2. Append(a, CAN) = <<CAN>> /\ Coming' = a
      BY <3>1, <1>10
    <3>3. CAN \in Byte
      BY DEF CAN, Byte
    <3>4. Len(Append(a, CAN)) = Len(a) + 1 /\ Len(<<CAN>>) = 1 /\ Len(a) \in Nat
      BY <3>3, AppendProperties, LenProperties
    <3>5. Len(a) = 0
      BY <3>2, <3>4
    <3> QED
      BY <3>2, <3>5, EmptySeq
  <2> QED
    BY <2>1, <2>2, <2>3, <1>2 DEF OneBurst
<1>12. NotBegun'
  BY <1>2, <1>9 DEF NotBegun
<1>13. OneReply' /\ SameBlock'
  <2>1. sender = "wait" => \A i \in 1 .. Len(tx) : tx[i] \notin {ACK, NAK}
    BY <1>4, <1>5 DEF OneReply
  <2> QED
    BY <2>1, <1>2, <1>4 DEF OneReply, SameBlock
<1>14. ASSUME "soh" \notin kinds', pc \in {"top", "control"}, block <= Len(File), rx = <<>>
       PROVE  sender = "gone" /\ Coming' = <<>>
  <2>1. Len(out) # 5 /\ "soh" \notin kinds
    BY <1>1, <1>14
  <2>2. sender = "gone"
    BY <2>1, <1>1, <1>4, <1>9, <1>14 DEF HeadFound, RecordSize
  <2> QED
    BY <2>2, <1>6, <1>10, <1>14
<1>15. ASSUME "soh" \notin kinds', pc \in {"top", "control"}, block <= Len(File), rx # <<>>
       PROVE  Coming'[1] = SOH /\ Coming' # <<>>
  <2>1. a = rx /\ "soh" \notin kinds
    BY <1>1, <1>6, <1>15
  <2>2. Coming[1] = rx[1] /\ Coming'[1] = rx[1] /\ Coming' # <<>> /\ Len(Coming) = Len(rx) + Len(out)
    BY <2>1, <1>4, <1>7, <1>8, <1>15, ConcatBytes
  <2>3. Len(Coming) # 1
    <3>1. Len(rx) \in Nat \ {0} /\ Len(out) \in Nat \ {0}
      BY <1>1, <1>4, <1>15, EmptySeq
    <3> QED
      BY <3>1, <2>2
  <2>4. Coming # <<CAN>>
    BY <2>3
  <2> QED
    BY <2>1, <2>2, <2>4, <1>4, <1>5, <1>15 DEF HeadFound
<1>16. HeadFound'
  BY <1>2, <1>14, <1>15 DEF HeadFound
<1>17. Repaired'
  <2>1. SUFFICES ASSUME Calm' PROVE /\ block = Len(stored) => Replied /\ tx[Len(tx)] = ACK
                                    /\ pc \in {"top", "control"} => Coming' # <<>>
                                    /\ pc # "flush" => Left >= RetryLimit - (lost + 1) + Damage'
    BY <1>1, <1>2 DEF Repaired, Replied, Left
  <2>2. Calm /\ "soh" \notin kinds' /\ sender = "wait"
    BY <2>1, <1>1, <1>2 DEF Calm
  <2>3. block <= Len(File)
    <3>1. "end" \notin kinds'
      BY <2>1 DEF Calm
    <3> QED
      BY <3>1, <2>2 DEF LoseData
  <2>4. pc \in {"top", "control"} => Coming' # <<>>
    BY <2>2, <2>3, <1>14, <1>15
  <2>5. Damage' \in {0, 1} /\ Damage \in {0, 1}
    BY DEF Damage
  <2>6. Left \in Int /\ lost \in Nat /\ RetryLimit \in Nat
    BY <1>4, ConstantsAssumption DEF Left, TypeOK
  <2>7. pc # "flush" => Left >= RetryLimit - lost + Damage
    BY <2>2, <1>4 DEF Repaired
  <2>8. pc # "flush" => Left >= RetryLimit - (lost + 1) + Damage'
    <3>1. PICK d \in {0, 1} : d = Damage'
      BY <2>5
    <3>2. PICK l \in Int : l = Left
      BY <2>6
    <3>3. pc # "flush" => l >= RetryLimit - lost
      BY <3>2, <2>5, <2>6, <2>7
    <3>4. pc # "flush" => l >= RetryLimit - (lost + 1) + d
      BY <3>3, <2>6
    <3> QED
      BY <3>1, <3>2, <3>4
  <2>9. block = Len(stored) => Replied /\ tx[Len(tx)] = ACK
    BY <2>2, <1>4 DEF Repaired
  <2> QED
    BY <2>4, <2>8, <2>9
<1>18. QED
  BY <1>3, <1>11, <1>12, <1>13, <1>16, <1>17 DEF IInv, Protocol

(***************************************************************************)
(* While it goes on: the receiver.                                         *)
(***************************************************************************)
(* A transfer is given up for too many retries. *)
LEMMA GiveUp ==
  ASSUME IInv, Live, Top, retries = 0, TypeOK'
  PROVE  IInv'
<1>1. /\ pc = "top" /\ pc' = "flush" /\ after' = "exceed" /\ result = "none"
      /\ UNCHANGED <<limit, stored, result, sender, lost, kinds>>
  BY DEF Top, Running, other, losses
<1>2. TypeOK /\ Storing /\ NotBegun /\ SameBlock /\ Repaired
  BY Parts
<1>3. ~ Live'
  BY <1>1 DEF Live
<1>4. Place'
  BY <1>1 DEF Place
<1>5. Storing'
  BY <1>1, <1>2, <1>3 DEF Storing
<1>6. MaxLost < RetryLimit => ~ Calm
  <2>1. SUFFICES ASSUME MaxLost < RetryLimit, Calm PROVE FALSE
    OBVIOUS
  <2>2. Left >= RetryLimit - lost + Damage /\ Left = 0
    BY <2>1, <1>1, <1>2 DEF Repaired, Left
  <2>3. Damage \in {0, 1} /\ lost \in 0 .. MaxLost /\ RetryLimit \in Nat /\ MaxLost \in Nat
    BY <1>2, ConstantsAssumption DEF Damage, TypeOK
  <2>4. PICK d \in {0, 1} : d = Damage
    BY <2>3
  <2>5. 0 >= RetryLimit - lost + d
    BY <2>2, <2>4
  <2> QED
    BY <2>1, <2>3, <2>5
<1>7. sender \in {"off", "start"} => stored = <<>>
  BY <1>2 DEF NotBegun
<1>8. sender \in {"off", "start", "wait", "gone"}
  BY <1>2 DEF SameBlock, TypeOK
<1>9. ~ Calm => stored = <<>> \/ sender = "gone" \/ kinds \ {"inside"} # {}
  BY <1>7, <1>8 DEF Calm
<1>10. Ends'
  BY <1>1, <1>6, <1>9 DEF Ends
<1>11. QED
  BY <1>3, <1>4, <1>5, <1>10 DEF IInv

(* Top *)
LEMMA TopStep ==
  ASSUME IInv, Live, Top, retries # 0, TypeOK'
  PROVE  IInv'
<1>1. /\ pc = "top" /\ pc' = "control" /\ retries' = retries - 1 /\ result = "none"
      /\ tx' = (IF starting = "yes" THEN Append(tx, C) ELSE tx)
      /\ UNCHANGED <<after, starting, packnum, limit, buf, stored, result, rx, sender, block, out>>
      /\ UNCHANGED <<lost, kinds>>
  BY DEF Top, OneLess, Running, other, losses
<1>2. /\ TypeOK /\ Place /\ Storing /\ OneBurst /\ NotBegun /\ OneReply /\ SameBlock /\ HeadFound
      /\ Repaired /\ rx \in Seq(Byte) /\ out \in Seq(Byte) /\ tx \in Seq({C, ACK, NAK, CAN})
      /\ Len(tx) \in Nat
  BY Parts
<1>3. after = "none"
  BY <1>1, <1>2 DEF Place
<1>4. Place' /\ Storing' /\ Ends' /\ Live'
  <2>1. Live'
    BY <1>1, <1>3 DEF Live
  <2>2. Place'
    BY <1>1, <1>2, <1>3 DEF Place
  <2>3. Storing'
    BY <1>1, <1>2 DEF Storing, Live
  <2>4. Ends'
    BY <1>1, <1>3 DEF Ends
  <2> QED
    BY <2>1, <2>2, <2>3, <2>4
<1>5. Coming' = Coming
  <2>1. Way(pc', buf, rx, out) = rx \o out /\ Way(pc, buf, rx, out) = rx \o out
    BY <1>1, <1>2, WayOut, Zenon
  <2> QED
    BY <2>1, <1>1, Zenon DEF Coming
<1>6. OneBurst' /\ SameBlock' /\ HeadFound'
  BY <1>1, <1>2, <1>3, <1>5 DEF OneBurst, SameBlock, HeadFound
<1>7. /\ starting = "yes" => /\ Len(tx') = Len(tx) + 1 /\ tx'[Len(tx) + 1] = C
                             /\ \A i \in 1 .. Len(tx) : tx'[i] = tx[i]
      /\ starting # "yes" => tx' = tx
  <2>1. C \in {C, ACK, NAK, CAN}
    OBVIOUS
  <2> QED
    BY <2>1, <1>1, <1>2, AppendProperties
<1>8. NotBegun'
  <2>1. ASSUME sender \in {"off", "start"}, NEW i \in 1 .. Len(tx') PROVE tx'[i] = C
    <3>1. \A j \in 1 .. Len(tx) : tx[j] = C
      BY <2>1, <1>2 DEF NotBegun
    <3>2. CASE starting = "yes"
      <4>1. i \in 1 .. Len(tx) \/ i = Len(tx) + 1
        BY <3>2, <1>2, <1>7
      <4> QED
        BY <4>1, <3>1, <3>2, <1>7
    <3>3. CASE starting # "yes"
      BY <3>1, <3>3, <1>7
    <3> QED
      BY <3>2, <3>3
  <2> QED
    BY <2>1, <1>1, <1>2 DEF NotBegun
<1>9. ASSUME sender = "wait", starting = "yes"
      PROVE  ~ Replied /\ ~ Replied' /\ \A i \in 1 .. Len(tx') : tx'[i] \notin {ACK, NAK}
  <2>1. \A i \in 1 .. Len(tx) : tx[i] \notin {ACK, NAK}
    BY <1>2, <1>9 DEF OneReply
  <2>2. C \notin {ACK, NAK}
    BY DEF C, ACK, NAK
  <2>3. ASSUME NEW i \in 1 .. Len(tx') PROVE tx'[i] \notin {ACK, NAK}
    <3>1. i \in 1 .. Len(tx) \/ i = Len(tx) + 1
      BY <1>2, <1>7, <1>9
    <3> QED
      BY <3>1, <2>1, <2>2, <1>7, <1>9
  <2>4. ~ Replied
    BY <2>1, <1>2 DEF Replied
  <2>5. Len(tx') \in 1 .. Len(tx')
    BY <1>2, <1>7, <1>9
  <2>6. ~ Replied'
    BY <2>3, <2>5 DEF Replied
  <2> QED
    BY <2>3, <2>4, <2>6
<1>10. OneReply'
  <2>1. CASE starting = "yes"
    BY <2>1, <1>1, <1>9 DEF OneReply
  <2>2. CASE starting # "yes"
    BY <2>2, <1>1, <1>2, <1>5, <1>7 DEF OneReply
  <2> QED
    BY <2>1, <2>2
<1>11. Repaired'
  <2>1. Calm' = Calm /\ Damage' = Damage /\ Left' = Left
    <3>1. retries - 1 + 1 = retries
      BY <1>2 DEF TypeOK
    <3> QED
      BY <3>1, <1>1, <1>5 DEF Calm, Damage, Left
  <2>2. Calm => sender = "wait"
    BY DEF Calm
  <2>3. CASE starting = "yes"
    BY <2>1, <2>2, <2>3, <1>1, <1>2, <1>5, <1>9 DEF Repaired
  <2>4. CASE starting # "yes"
    BY <2>1, <2>4, <1>1, <1>2, <1>5, <1>7 DEF Repaired, Replied
  <2> QED
    BY <2>3, <2>4
<1>12. QED
  BY <1>4, <1>6, <1>8, <1>10, <1>11 DEF IInv, Protocol

(* No burst begins with a byte that is neither SOH nor EOT unless one was  *)
(* lost or the sender was stopped.                                         *)
LEMMA HeadIsControl ==
  ASSUME IInv, Live, Coming # <<>>, pc \in {"top", "control"}, "soh" \notin kinds,
         sender = "wait"
  PROVE  Coming[1] \in {SOH, EOT} /\ (Coming[1] = EOT => block = Len(File) + 1)
<1>1. TypeOK /\ OneBurst /\ HeadFound /\ block \in 1 .. Len(File) + 1
  BY Parts
<1>2. CASE block <= Len(File)
  <2>1. Coming[1] = SOH /\ SOH # EOT
    BY <1>1, <1>2 DEF HeadFound, SOH, EOT
  <2> QED
    BY <2>1
<1>3. CASE block > Len(File)
  <2>1. Burst(block)[1] = EOT /\ Len(Burst(block)) = 1
    BY <1>1, <1>3, BurstBytes
  <2>2. Remains(block, Coming)
    BY <1>1 DEF OneBurst
  <2>3. Len(Coming) \in Nat \ {0}
    BY <1>1, NothingComing, EmptySeq
  <2>4. Coming = Burst(block)
    <3>1. PICK n \in Nat \ {0} : n = Len(Coming)
      BY <2>3
    <3>2. n <= 1 /\ (n = 1 => Coming = Burst(block))
      BY <3>1, <2>1, <2>2 DEF Remains
    <3> QED
      BY <3>2
  <2>5. block = Len(File) + 1
    BY <1>1, <1>3, FileLength
  <2> QED
    BY <2>1, <2>4, <2>5
<1>4. QED
  BY <1>1, <1>2, <1>3, FileLength

(* A transfer ends with an EOT, or is cancelled. *)
LEMMA EndStep ==
  ASSUME IInv, Live, Control, Head(rx) \in {EOT, CAN}, TypeOK'
  PROVE  IInv'
<1>1. /\ pc = "control" /\ pc' = "flush" /\ after' = AfterAck(Head(rx)) /\ result = "none"
      /\ rx # <<>> /\ UNCHANGED <<limit, stored, result, sender, kinds>>
  BY DEF Control, Running, other, losses, SOH, EOT, CAN
<1>2. /\ TypeOK /\ Storing /\ OneBurst /\ NotBegun /\ SameBlock /\ HeadFound /\ rx \in Seq(Byte)
      /\ out \in Seq(Byte) /\ buf \in Seq(Byte) /\ stored \in Seq(Byte) /\ Len(stored) \in Nat
      /\ block \in 1 .. Len(File) + 1
  BY Parts
<1>3. after' \in {"size", "cancel"} /\ (after' = "size" => Head(rx) = EOT)
  BY <1>1 DEF AfterAck
<1>4. ~ Live'
  BY <1>3 DEF Live
<1>5. Place'
  BY <1>1, <1>3 DEF Place
<1>6. Storing'
  BY <1>1, <1>2, <1>4 DEF Storing
<1>7. ASSUME Head(rx) = EOT, "soh" \notin kinds PROVE stored = File
  <2>1. Coming # <<>> /\ Coming[1] = EOT
    BY <1>1, <1>2, <1>7, FirstByte
  <2>2. sender \in {"wait", "gone"}
    BY <1>1, <1>2 DEF NotBegun, SameBlock, TypeOK
  <2>3. ~ (block <= Len(File))
    <3>1. EOT # SOH /\ EOT # CAN /\ <<CAN>>[1] = CAN
      BY DEF EOT, SOH, CAN
    <3>2. Coming # <<CAN>>
      BY <2>1, <3>1
    <3> QED
      BY <3>1, <3>2, <2>1, <1>1, <1>2, <1>7 DEF HeadFound
  <2>4. Len(stored) = Len(File)
    BY <2>2, <2>3, <1>2, FileLength DEF SameBlock, Storing
  <2>5. \A i \in 1 .. Len(stored) : stored[i] = File[i]
    BY <1>2 DEF Storing
  <2> QED
    BY <2>4, <2>5, <1>2, SeqEqual, ConstantsAssumption
<1>8. Ends'
  BY <1>1, <1>3, <1>7 DEF Ends
<1>9. QED
  BY <1>4, <1>5, <1>6, <1>8 DEF IInv

(* While a byte is under way no reply is. *)
LEMMA NoReply ==
  ASSUME IInv, Live, Coming # <<>> \/ pc \notin {"top", "control"}, sender = "wait"
  PROVE  (\A i \in 1 .. Len(tx) : tx[i] \notin {ACK, NAK}) /\ ~ Replied
<1>1. OneReply /\ Len(tx) \in Nat
  BY Parts
<1>2. \A i \in 1 .. Len(tx) : tx[i] \notin {ACK, NAK}
  BY <1>1 DEF OneReply
<1>3. QED
  BY <1>1, <1>2 DEF Replied

(* A block begins. *)
LEMMA SohStep ==
  ASSUME IInv, Live, Control, Head(rx) = SOH, TypeOK'
  PROVE  IInv'
<1>1. /\ pc = "control" /\ pc' = "record" /\ rx # <<>> /\ rx' = Tail(rx) /\ starting' = "no"
      /\ buf' = <<>> /\ result = "none"
      /\ UNCHANGED <<after, packnum, retries, limit, stored, result, sender, block, out, tx>>
      /\ UNCHANGED <<lost, kinds>>
  BY DEF Control, Running, other, losses, SOH, EOT, CAN
<1>2. /\ TypeOK /\ Place /\ Storing /\ OneBurst /\ NotBegun /\ OneReply /\ SameBlock /\ Repaired
      /\ rx \in Seq(Byte) /\ out \in Seq(Byte) /\ buf \in Seq(Byte)
  BY Parts
<1>3. after = "none"
  BY <1>1, <1>2 DEF Place
<1>4. Place' /\ Storing' /\ Ends' /\ Live'
  <2>1. Live'
    BY <1>1, <1>3 DEF Live
  <2>2. Place'
    <3>1. Len(<<>>) < 4
      OBVIOUS
    <3> QED
      BY <3>1, <1>1, <1>3 DEF Place, RecordSize
  <2>3. Storing'
    BY <1>1, <1>2 DEF Storing, Live
  <2>4. Ends'
    BY <1>1, <1>3 DEF Ends
  <2> QED
    BY <2>1, <2>2, <2>3, <2>4
<1>5. Coming' = Coming
  <2>1. Coming' = Way("record", <<>>, Tail(rx), out) /\ Coming = Way(pc, buf, rx, out)
    BY <1>1 DEF Coming
  <2>2. Way("record", <<>>, Tail(rx), out) = Way(pc, buf, rx, out)
    BY <1>1, <1>2, WayBegin
  <2> QED
    BY <2>1, <2>2
<1>6. Coming # <<>>
  BY <1>1, <1>2, NothingComing
<1>7. OneBurst' /\ SameBlock'
  BY <1>1, <1>2, <1>3, <1>5 DEF OneBurst, SameBlock
<1>8. NotBegun' /\ HeadFound'
  BY <1>1, <1>2 DEF NotBegun, HeadFound
<1>9. OneReply'
  BY <1>1, <1>6, NoReply DEF OneReply
<1>10. Repaired'
  <2>1. Calm' = Calm /\ Damage' = Damage /\ Left' = Left /\ Replied' = Replied
    BY <1>1, <1>5 DEF Calm, Damage, Left, Replied
  <2> QED
    BY <2>1, <1>1, <1>2 DEF Repaired
<1>11. QED
  BY <1>4, <1>7, <1>8, <1>9, <1>10 DEF IInv, Protocol

(* Any other byte takes the loop round once more. *)
LEMMA SkipStep ==
  ASSUME IInv, Live, Control, Head(rx) \notin {SOH, EOT, CAN}, TypeOK'
  PROVE  IInv'
<1>1. /\ pc = "control" /\ pc' = "top" /\ rx # <<>> /\ rx' = Tail(rx) /\ result = "none"
      /\ UNCHANGED <<after, starting, buf, tx>>
      /\ UNCHANGED <<packnum, retries, limit, stored, result, sender, block, out, lost, kinds>>
  BY DEF Control, Running, other, losses
<1>2. /\ TypeOK /\ Place /\ Storing /\ OneBurst /\ NotBegun /\ OneReply /\ SameBlock /\ HeadFound
      /\ rx \in Seq(Byte) /\ out \in Seq(Byte) /\ buf \in Seq(Byte) /\ block \in 1 .. Len(File) + 1
  BY Parts
<1>3. after = "none"
  BY <1>1, <1>2 DEF Place
<1>4. Place' /\ Storing' /\ Ends' /\ Live'
  <2>1. Live'
    BY <1>1, <1>3 DEF Live
  <2>2. Place'
    BY <1>1, <1>3 DEF Place
  <2>3. Storing'
    BY <1>1, <1>2 DEF Storing, Live
  <2>4. Ends'
    BY <1>1, <1>3 DEF Ends
  <2> QED
    BY <2>1, <2>2, <2>3, <2>4
<1>5. Coming' = Tail(Coming) /\ Coming # <<>> /\ Coming[1] = Head(rx)
  <2>1. Coming' = Way(pc', buf, Tail(rx), out)
    BY <1>1 DEF Coming
  <2>2. Tail(rx) \in Seq(Byte) /\ Tail(rx) \o out = Tail(Coming)
        /\ Coming # <<>> /\ Coming[1] = Head(rx)
    BY <1>1, <1>2, FirstByte
  <2>3. pc' # "record" /\ Tail(rx) \in Seq(Byte) /\ out \in Seq(Byte)
    BY <1>1, <1>2, <2>2
  <2>4. Way(pc', buf, Tail(rx), out) = Tail(rx) \o out
    BY <2>3, WayOut, Zenon
  <2> QED
    BY <2>1, <2>2, <2>4, Zenon
<1>6. sender \in {"wait", "gone"}
  BY <1>1, <1>2 DEF NotBegun, SameBlock, TypeOK
<1>7. Coming[1] \notin {SOH, EOT, CAN} /\ Coming \in Seq(Byte)
  BY <1>2, <1>5, NothingComing
<1>8. \A u \in Seq(Byte) : u # <<>> /\ Remains(block, u) => Remains(block, Tail(u))
  <2>1. SUFFICES ASSUME NEW u \in Seq(Byte), u # <<>>, Remains(block, u) PROVE Remains(block, Tail(u))
    OBVIOUS
  <2>2. PICK e \in Seq(Byte) : e = <<>>
    BY EmptySeq
  <2>3. Tail(u) \in Seq(Byte)
    BY <2>1, MoveByte
  <2>4. e \o u = u /\ e \o Tail(u) = Tail(u)
    BY <2>1, <2>2, <2>3, ConcatBytes
  <2>5. Remains(block, e \o u)
    BY <2>1, <2>4
  <2>6. Remains(block, e \o Tail(u))
    BY <2>1, <2>5, <1>2, RemainsDelete
  <2> QED
    BY <2>4, <2>6
<1>9. OneBurst'
  <2>1. sender = "wait" => Remains(block, Tail(Coming))
    BY <1>2, <1>5, <1>7, <1>8 DEF OneBurst
  <2>2. ASSUME sender = "gone"
        PROVE  \E u \in Seq(Byte) : Remains(block, u) /\ Tail(Coming) \in {u, Append(u, CAN)}
    <3>1. PICK u \in Seq(Byte) : Remains(block, u) /\ Coming \in {u, Append(u, CAN)}
      BY <2>2, <1>2 DEF OneBurst
    <3>2. u # <<>>
      <4>1. Append(<<>>, CAN) = <<CAN>> /\ <<CAN>>[1] = CAN
        OBVIOUS
      <4> QED
        BY <4>1, <3>1, <1>5, <1>7
    <3>3. Tail(Append(u, CAN)) = Append(Tail(u), CAN) /\ Tail(u) \in Seq(Byte)
      BY <3>2, HeadTailAppend, MoveByte
    <3>4. Remains(block, Tail(u))
      BY <3>1, <3>2, <1>8
    <3>5. Tail(Coming) \in {Tail(u), Append(Tail(u), CAN)}
      BY <3>1, <3>3
    <3> QED
      BY <3>3, <3>4, <3>5
  <2> QED
    BY <2>1, <2>2, <1>1, <1>2, <1>3, <1>5 DEF OneBurst
<1>10. NotBegun' /\ SameBlock'
  BY <1>1, <1>2, <1>6 DEF NotBegun, SameBlock
<1>11. OneReply'
  BY <1>1, <1>5, NoReply DEF OneReply
<1>12. HeadFound'
  <2>1. <<CAN>>[1] = CAN
    OBVIOUS
  <2>2. "soh" \in kinds \/ ~ (block <= Len(File))
    BY <2>1, <1>1, <1>2, <1>5, <1>7 DEF HeadFound
  <2> QED
    BY <2>2, <1>1 DEF HeadFound
<1>13. Repaired'
  <2>1. ~ Calm
    BY <1>1, <1>5, <1>7, HeadIsControl DEF Calm
  <2> QED
    BY <2>1, <1>1 DEF Repaired, Calm
<1>14. QED
  BY <1>4, <1>9, <1>10, <1>11, <1>12, <1>13 DEF IInv, Protocol

(* What a complete record p holds and what follows it. *)
AtEnd(p, e) ==
  /\ sender \in {"wait", "gone"} /\ block \in 1 .. Len(File)
  /\ e \in {<<>>, <<CAN>>} /\ (sender = "wait" => e = <<>>)
  /\ sender = "wait" => /\ p[1] = block % Numbers /\ p[2] = Complement(block % Numbers)
                        /\ p[3] = File[block] /\ p[4] = Crc(File[block])
  /\ p[4] = Crc(p[3]) => p[1] = block % Numbers /\ p[3] = File[block]

(* The byte that makes a record complete. *)
LEMMA RecordEnd ==
  ASSUME IInv, Live, pc = "record", rx # <<>>, Len(Append(buf, Head(rx))) = 4
  PROVE  AtEnd(Append(buf, Head(rx)), Tail(rx) \o out)
<1>1. /\ TypeOK /\ OneBurst /\ NotBegun /\ SameBlock /\ rx \in Seq(Byte) /\ out \in Seq(Byte)
      /\ buf \in Seq(Byte) /\ block \in 1 .. Len(File) + 1
  BY Parts
<1>2. sender \in {"wait", "gone"}
  BY <1>1 DEF NotBegun, SameBlock, TypeOK
<1>3. Coming = (<<SOH>> \o Append(buf, Head(rx))) \o (Tail(rx) \o out)
      /\ Append(buf, Head(rx)) \in Seq(Byte) /\ Tail(rx) \o out \in Seq(Byte)
  BY <1>1, WayTake DEF Coming
<1>4. PICK p \in Seq(Byte) : p = Append(buf, Head(rx))
  BY <1>3
<1>5. PICK e \in Seq(Byte) : e = Tail(rx) \o out
  BY <1>3
<1>6. PICK k \in 1 .. Len(File) + 1 : k = block
  BY <1>1
<1>7. PICK t \in Seq(Byte) : t = Coming
  BY <1>1, NothingComing
<1>8. Spells(t, p, e)
  <2>1. Len(p) = 4
    BY <1>4
  <2>2. t = (<<SOH>> \o p) \o e
    BY <1>3, <1>4, <1>5, <1>7, Zenon
  <2>3. Len((<<SOH>> \o p) \o e) = 5 + Len(e)
        /\ (\A i \in 1 .. 4 : ((<<SOH>> \o p) \o e)[i + 1] = p[i])
        /\ \A i \in 1 .. Len(e) : ((<<SOH>> \o p) \o e)[i + 5] = e[i]
    BY <2>1, Whole, Zenon
  <2> QED
    BY <2>2, <2>3, Zenon DEF Spells
<1>9. ASSUME Remains(k, t)
      PROVE  /\ e = <<>> /\ k \in 1 .. Len(File)
             /\ p[1] = k % Numbers /\ p[2] = Complement(k % Numbers)
             /\ p[3] = File[k] /\ p[4] = Crc(File[k])
  BY <1>8, <1>9, CompleteRecord, Zenon
<1>10. AtEnd(p, e)
  <2>1. CASE sender = "wait"
    <3>1. Remains(k, t)
      BY <2>1, <1>1, <1>6, <1>7 DEF OneBurst
    <3> QED
      BY <3>1, <2>1, <1>6, <1>9 DEF AtEnd
  <2>2. CASE sender = "gone"
    <3>1. PICK u \in Seq(Byte) : Remains(k, u) /\ t \in {u, Append(u, CAN)}
      BY <2>2, <1>1, <1>6, <1>7 DEF OneBurst
    <3>2. CASE t = u
      BY <3>1, <3>2, <2>2, <1>6, <1>9 DEF AtEnd
    <3>3. CASE t = Append(u, CAN)
      <4>1. /\ e \in {<<>>, <<CAN>>} /\ k \in 1 .. Len(File)
            /\ p[4] = Crc(p[3]) => p[1] = k % Numbers /\ p[3] = File[k]
        BY <3>1, <3>3, <1>8, StoppedRecord, Zenon
      <4> QED
        BY <4>1, <2>2, <1>6 DEF AtEnd
    <3> QED
      BY <3>1, <3>2, <3>3
  <2> QED
    BY <2>1, <2>2, <1>2
<1>11. QED
  BY <1>4, <1>5, <1>10

(* xmodem_get_record, a byte that does not complete the record *)
LEMMA MoreStep ==
  ASSUME IInv, Live, GetRecord, Len(Append(buf, Head(rx))) < 4, TypeOK'
  PROVE  IInv'
<1>1. /\ pc = "record" /\ rx # <<>> /\ rx' = Tail(rx) /\ buf' = Append(buf, Head(rx))
      /\ result = "none" /\ UNCHANGED <<pc, after, tx, starting, packnum, retries, limit, stored>>
      /\ UNCHANGED <<result, sender, block, out, lost, kinds>>
  BY DEF GetRecord, Running, RecordSize, other, losses
<1>2. /\ TypeOK /\ Place /\ Storing /\ OneBurst /\ NotBegun /\ OneReply /\ SameBlock /\ Repaired
      /\ rx \in Seq(Byte) /\ out \in Seq(Byte) /\ buf \in Seq(Byte)
  BY Parts
<1>3. after = "none"
  BY <1>1, <1>2 DEF Place
<1>4. Place' /\ Storing' /\ Ends' /\ Live'
  <2>1. Live'
    BY <1>1, <1>3 DEF Live
  <2>2. Place'
    BY <1>1, <1>2, <1>3 DEF Place, RecordSize
  <2>3. Storing'
    BY <1>1, <1>2 DEF Storing, Live
  <2>4. Ends'
    BY <1>1, <1>3 DEF Ends
  <2> QED
    BY <2>1, <2>2, <2>3, <2>4
<1>5. Coming' = Coming
  BY <1>1, <1>2, WayTake DEF Coming
<1>6. OneBurst' /\ SameBlock' /\ OneReply'
  BY <1>1, <1>2, <1>3, <1>5 DEF OneBurst, SameBlock, OneReply
<1>7. NotBegun' /\ HeadFound'
  BY <1>1, <1>2 DEF NotBegun, HeadFound
<1>8. Repaired'
  <2>1. Calm' = Calm /\ Damage' = Damage /\ Left' = Left /\ Replied' = Replied
    BY <1>1, <1>5 DEF Calm, Damage, Left, Replied
  <2> QED
    BY <2>1, <1>1, <1>2 DEF Repaired
<1>9. QED
  BY <1>4, <1>6, <1>7, <1>8 DEF IInv, Protocol

(* Nothing, or a lone CAN, is left after the block. *)
LEMMA LeftOver ==
  ASSUME NEW k \in 1 .. Len(File) + 1, NEW e \in {<<>>, <<CAN>>}
  PROVE  /\ Remains(k, <<>>)
         /\ \E u \in Seq(Byte) : Remains(k, u) /\ e \in {u, Append(u, CAN)}
<1>1. PICK u \in Seq(Byte) : u = <<>>
  BY EmptySeq
<1>2. Remains(k, u) /\ Remains(k, <<>>)
  BY <1>1, RemainsEnds
<1>3. Append(<<>>, CAN) = <<CAN>>
  OBVIOUS
<1>4. e \in {u, Append(u, CAN)}
  BY <1>1, <1>3
<1>5. QED
  BY <1>2, <1>4

(* xmodem_get_record, a good record *)
LEMMA GoodStep ==
  ASSUME IInv, Live, GetRecord, Len(Append(buf, Head(rx))) = 4, Valid(Append(buf, Head(rx))), TypeOK'
  PROVE  IInv'
<1> DEFINE p == Append(buf, Head(rx))
<1>1. /\ pc = "record" /\ rx # <<>> /\ rx' = Tail(rx) /\ buf' = p /\ pc' = "flush"
      /\ after' = "accept" /\ result = "none"
      /\ UNCHANGED <<tx, starting, packnum, retries, limit, stored>>
      /\ UNCHANGED <<result, sender, block, out, lost, kinds>>
  BY DEF GetRecord, Running, RecordSize, other, losses
<1>2. /\ TypeOK /\ Place /\ Storing /\ OneBurst /\ NotBegun /\ OneReply /\ SameBlock /\ Repaired
      /\ rx \in Seq(Byte) /\ out \in Seq(Byte) /\ buf \in Seq(Byte) /\ Len(stored) \in Nat
      /\ block \in 1 .. Len(File) + 1
  BY Parts
<1>3. PICK e : e = Tail(rx) \o out
  OBVIOUS
<1>4. p[1] = packnum /\ p[4] = Crc(p[3]) /\ Len(p) = 4
  BY DEF Valid
<1>5. /\ sender \in {"wait", "gone"} /\ block \in 1 .. Len(File)
      /\ e \in {<<>>, <<CAN>>} /\ (sender = "wait" => e = <<>>)
      /\ p[1] = block % Numbers /\ p[3] = File[block]
  <2>1. AtEnd(p, e)
    BY <1>1, <1>3, <1>4, RecordEnd
  <2> HIDE DEF p
  <2> QED
    BY <2>1, <1>4 DEF AtEnd
<1> HIDE DEF p
<1>6. block = Len(stored) + 1
  <2>1. block % Numbers = (Len(stored) + 1) % Numbers
    BY <1>2, <1>4, <1>5 DEF Storing
  <2>2. (Len(stored) + 1) % Numbers # Len(stored) % Numbers
    BY <1>2, NextNumber
  <2>3. block = Len(stored) \/ block = Len(stored) + 1
    BY <1>2, <1>5 DEF SameBlock
  <2> QED
    BY <2>1, <2>2, <2>3
<1>7. Place' /\ Storing' /\ Ends' /\ Live'
  <2>1. Live'
    BY <1>1 DEF Live
  <2>2. Place'
    <3>1. starting = "no" /\ block <= Len(File)
      BY <1>1, <1>2, <1>5, FileLength DEF Place
    <3> QED
      BY <3>1, <1>1, <1>4, <1>5, <1>6 DEF Place, RecordSize
  <2>3. Storing'
    BY <1>1, <1>2 DEF Storing, Live
  <2>4. Ends'
    BY <1>1 DEF Ends
  <2> QED
    BY <2>1, <2>2, <2>3, <2>4
<1>8. Coming' = e
  <2>1. Tail(rx) \in Seq(Byte)
    BY <1>1, <1>2, MoveByte
  <2>2. pc' # "record" /\ out \in Seq(Byte)
    BY <1>1, <1>2
  <2>3. Way(pc', buf', Tail(rx), out) = Tail(rx) \o out
    BY <2>1, <2>2, WayOut, Zenon
  <2>4. Coming' = Way(pc', buf', Tail(rx), out)
    BY <1>1 DEF Coming
  <2> QED
    BY <2>3, <2>4, <1>3
<1>9. OneBurst'
  <2>1. /\ Remains(block, <<>>)
        /\ \E u \in Seq(Byte) : Remains(block, u) /\ e \in {u, Append(u, CAN)}
    BY <1>2, <1>5, LeftOver
  <2> QED
    BY <2>1, <1>1, <1>2, <1>5, <1>8 DEF OneBurst
<1>10. NotBegun' /\ HeadFound' /\ SameBlock'
  BY <1>1, <1>2, <1>5 DEF NotBegun, HeadFound, SameBlock
<1>11. OneReply'
  BY <1>1, NoReply DEF OneReply
<1>12. Repaired'
  BY <1>1, <1>2, <1>6 DEF Repaired, Calm
<1>13. QED
  BY <1>7, <1>9, <1>10, <1>11, <1>12 DEF IInv, Protocol

(* A NAK is sent: the sender has nothing under way but a CAN. *)
LEMMA NakStep ==
  ASSUME IInv, Live, pc = "record", pc' = "top", tx' = Append(tx, NAK), TypeOK',
         UNCHANGED <<after, starting, packnum, retries, limit, stored>>,
         UNCHANGED <<result, other, losses>>, result = "none",
         rx' \o out \in {<<>>, <<CAN>>}, sender = "wait" => rx' \o out = <<>>,
         Calm => block # Len(stored) /\ retries >= RetryLimit - lost
  PROVE  IInv'
<1>1. UNCHANGED <<sender, block, out, lost, kinds>>
  BY DEF other, losses
<1>2. /\ TypeOK /\ Place /\ Storing /\ OneBurst /\ NotBegun /\ SameBlock
      /\ out \in Seq(Byte) /\ Len(stored) \in Nat /\ tx \in Seq({C, ACK, NAK, CAN})
      /\ block \in 1 .. Len(File) + 1 /\ Len(tx) \in Nat
  BY Parts
<1>3. after = "none" /\ starting = "no"
  BY <1>2 DEF Place
<1>4. sender \in {"wait", "gone"}
  BY <1>2 DEF NotBegun, SameBlock, TypeOK
<1>5. Place' /\ Storing' /\ Ends' /\ Live'
  <2>1. Live'
    BY <1>3 DEF Live
  <2>2. Place'
    BY <1>3 DEF Place
  <2>3. Storing'
    BY <1>2 DEF Storing, Live
  <2>4. Ends'
    BY <1>3 DEF Ends
  <2> QED
    BY <2>1, <2>2, <2>3, <2>4
<1>6. Coming' \in {<<>>, <<CAN>>} /\ (sender = "wait" => Coming' = <<>>)
  <2>1. rx' \in Seq(Byte)
    BY DEF TypeOK
  <2>2. Way(pc', buf', rx', out) = rx' \o out
    BY <2>1, <1>2, WayOut, Zenon
  <2>3. Coming' = Way(pc', buf', rx', out)
    BY <1>1 DEF Coming
  <2> QED
    BY <2>2, <2>3
<1>7. OneBurst'
  <2>1. /\ Remains(block, <<>>)
        /\ \E u \in Seq(Byte) : Remains(block, u) /\ Coming' \in {u, Append(u, CAN)}
    BY <1>2, <1>6, LeftOver
  <2> QED
    BY <2>1, <1>1, <1>2, <1>3, <1>6 DEF OneBurst
<1>8. NotBegun' /\ SameBlock'
  BY <1>1, <1>2, <1>4 DEF NotBegun, SameBlock
<1>9. Len(tx') = Len(tx) + 1 /\ (\A i \in 1 .. Len(tx) : tx'[i] = tx[i]) /\ tx'[Len(tx) + 1] = NAK
  BY <1>2, AppendProperties
<1>10. OneReply'
  <2>1. ASSUME sender = "wait", NEW i \in 1 .. Len(tx'), tx'[i] \in {ACK, NAK}
        PROVE  i = Len(tx') /\ tx'[i] # ACK
    <3>1. \A j \in 1 .. Len(tx) : tx[j] \notin {ACK, NAK}
      BY <2>1, NoReply
    <3>2. i \in 1 .. Len(tx) \/ i = Len(tx) + 1
      BY <1>2, <1>9
    <3>3. i = Len(tx) + 1
      BY <3>1, <3>2, <2>1, <1>9
    <3> QED
      BY <3>3, <1>9 DEF ACK, NAK
  <2> QED
    BY <2>1, <1>1, <1>3, <1>6 DEF OneReply
<1>11. HeadFound'
  <2>1. sender = "wait" => out = <<>>
    BY <1>2, ConcatEqualIffEmpty DEF TypeOK
  <2> QED
    BY <2>1, <1>1, <1>4, <1>6 DEF HeadFound
<1>12. Repaired'
  <2>1. SUFFICES ASSUME Calm' PROVE /\ block # Len(stored) /\ Replied'
                                    /\ Left' >= RetryLimit - lost' + Damage'
    BY <1>1 DEF Repaired
  <2>2. Calm /\ sender = "wait"
    BY <2>1, <1>1 DEF Calm
  <2>3. Damage' = 0 /\ Left' = retries
    BY <2>2, <1>6 DEF Damage, Left
  <2>4. Replied'
    <3>1. Len(tx') > 0 /\ tx'[Len(tx')] = NAK
      BY <1>2, <1>9
    <3> QED
      BY <3>1 DEF Replied
  <2>5. RetryLimit \in Nat /\ lost \in Nat /\ retries >= RetryLimit - lost /\ block # Len(stored)
    BY <2>2, <1>2, ConstantsAssumption DEF TypeOK
  <2>6. RetryLimit - lost' + Damage' = RetryLimit - lost
    BY <2>3, <2>5, <1>1
  <2> QED
    BY <2>3, <2>4, <2>5, <2>6
<1>13. QED
  BY <1>5, <1>7, <1>8, <1>10, <1>11, <1>12 DEF IInv, Protocol

(* xmodem_get_record, a bad record *)
LEMMA BadStep ==
  ASSUME IInv, Live, GetRecord, Len(Append(buf, Head(rx))) = 4, ~ Valid(Append(buf, Head(rx))), TypeOK'
  PROVE  IInv'
<1>1. /\ pc = "record" /\ rx # <<>> /\ rx' = Tail(rx) /\ pc' = "top" /\ tx' = Append(tx, NAK)
      /\ result = "none" /\ UNCHANGED <<after, starting, packnum, retries, limit, stored>>
      /\ UNCHANGED <<result, other, losses>>
  BY DEF GetRecord, Running, RecordSize
<1>2. Storing /\ SameBlock /\ Repaired
  BY Parts
<1>3. AtEnd(Append(buf, Head(rx)), Tail(rx) \o out)
  BY <1>1, RecordEnd
<1>4. Tail(rx) \o out \in {<<>>, <<CAN>>} /\ (sender = "wait" => Tail(rx) \o out = <<>>)
  BY <1>3 DEF AtEnd
<1>5. ~ Calm
  <2>1. SUFFICES ASSUME Calm PROVE FALSE
    OBVIOUS
  <2>2. sender = "wait"
    BY <2>1 DEF Calm
  <2>3. ~ Replied
    BY <2>2, <1>1, NoReply
  <2>4. block # Len(stored)
    BY <2>1, <2>3, <1>2 DEF Repaired
  <2>5. block = Len(stored) + 1
    BY <2>2, <2>4, <1>2 DEF SameBlock
  <2>6. packnum = block % Numbers
    BY <2>5, <1>2 DEF Storing
  <2>7. PICK p : p = Append(buf, Head(rx))
    OBVIOUS
  <2>8. /\ p[1] = block % Numbers /\ p[2] = Complement(block % Numbers)
        /\ p[3] = File[block] /\ p[4] = Crc(File[block])
    BY <2>2, <2>7, <1>3 DEF AtEnd
  <2>9. Valid(p)
    BY <2>6, <2>8, Zenon DEF Valid
  <2> QED
    BY <2>7, <2>9
<1>6. rx' \o out \in {<<>>, <<CAN>>} /\ (sender = "wait" => rx' \o out = <<>>)
  BY <1>1, <1>4
<1>7. QED
  BY <1>1, <1>5, <1>6, NakStep

(* A timeout within a record *)
LEMMA RecordTimeout ==
  ASSUME IInv, Live, Timeout, pc = "record", TypeOK'
  PROVE  IInv'
<1>1. /\ pc' = "top" /\ tx' = Append(tx, NAK) /\ rx = <<>> /\ out = <<>> /\ tx = <<>> /\ rx' = rx
      /\ result = "none" /\ UNCHANGED <<after, starting, packnum, retries, limit, stored>>
      /\ UNCHANGED <<result, other, losses>>
  BY DEF Timeout, Silence, Running
<1>2. /\ TypeOK /\ Place /\ OneBurst /\ Repaired /\ buf \in Seq(Byte) /\ block \in 1 .. Len(File) + 1
      /\ rx \in Seq(Byte) /\ out \in Seq(Byte)
  BY Parts
<1>3. rx' \o out = <<>>
  BY <1>1
<1>4. ASSUME Calm PROVE block # Len(stored) /\ retries >= RetryLimit - lost
  <2>1. ~ Replied /\ sender = "wait"
    BY <1>1, <1>4 DEF Replied, Calm
  <2>2. block # Len(stored)
    BY <2>1, <1>2, <1>4 DEF Repaired
  <2>3. Remains(block, Coming)
    BY <2>1, <1>2 DEF OneBurst
  <2>4. Coming[1] = SOH /\ Coming # <<>> /\ Len(Coming) = 1 + Len(buf) + Len(rx) + Len(out)
    BY <1>2, WayTaken DEF Coming
  <2>5. PICK n \in Nat : n = Len(buf)
    BY <1>2, LenProperties
  <2>6. n < 4 /\ Len(Coming) = 1 + n
    <3>1. Len(rx) = 0 /\ Len(out) = 0
      BY <1>1
    <3> QED
      BY <3>1, <2>4, <2>5, <1>2 DEF Place, RecordSize
  <2>7. Len(Burst(block)) = 5
    <3>1. CASE block > Len(File)
      <4>1. Len(Burst(block)) = 1 /\ Burst(block)[1] = EOT /\ EOT # SOH
        BY <3>1, <1>2, BurstBytes DEF EOT, SOH
      <4>2. 1 + n <= 1 /\ (1 + n = 1 => Coming = Burst(block))
        BY <4>1, <2>3, <2>6 DEF Remains
      <4>3. Coming = Burst(block)
        BY <4>2
      <4> QED
        BY <4>1, <4>3, <2>4
    <3>2. CASE block <= Len(File)
      BY <3>2, <1>2, BurstBytes
    <3> QED
      BY <3>1, <3>2, <1>2, FileLength
  <2>8. Damage = 1
    BY <2>4, <2>6, <2>7 DEF Damage
  <2>9. Left = retries + 1 /\ Left >= RetryLimit - lost + 1
    BY <2>8, <1>2, <1>4 DEF Repaired, Left
  <2>10. retries \in Nat /\ RetryLimit \in Nat /\ lost \in Nat
    BY <1>2, ConstantsAssumption DEF TypeOK
  <2> QED
    BY <2>2, <2>9, <2>10
<1>5. QED
  BY <1>1, <1>3, <1>4, NakStep

(* A timeout in the loop *)
LEMMA LoopTimeout ==
  ASSUME IInv, Live, Timeout, pc # "record", TypeOK'
  PROVE  IInv'
<1>1. /\ pc = "control" /\ pc' = "top" /\ tx' = tx /\ rx = <<>> /\ out = <<>> /\ tx = <<>>
      /\ UNCHANGED <<after, starting, packnum, retries, limit, buf, stored, result, rx>>
      /\ UNCHANGED <<sender, block, out, lost, kinds>> /\ result = "none"
  BY DEF Timeout, Silence, Running, other, losses
<1>2. /\ TypeOK /\ Place /\ Storing /\ OneBurst /\ NotBegun /\ SameBlock /\ Repaired
  BY Parts
<1>3. after = "none"
  BY <1>1, <1>2 DEF Place
<1>4. Place' /\ Storing' /\ Ends' /\ Live'
  <2>1. Live'
    BY <1>1, <1>3 DEF Live
  <2>2. Place'
    BY <1>1, <1>3 DEF Place
  <2>3. Storing'
    BY <1>1, <1>2 DEF Storing, Live
  <2>4. Ends'
    BY <1>1, <1>3 DEF Ends
  <2> QED
    BY <2>1, <2>2, <2>3, <2>4
<1>5. Coming = <<>> /\ Coming' = <<>>
  <2>1. Coming = <<>>
    BY <1>1, <1>2, NothingComing
  <2>2. Coming' = Way(pc', buf, <<>>, <<>>)
    BY <1>1 DEF Coming
  <2>3. 1 \in 1 .. Len(File) + 1
    BY FileLength
  <2>4. Way(pc', buf, <<>>, <<>>) = <<>>
    BY <2>3, <1>1, NewBurst
  <2> QED
    BY <2>1, <2>2, <2>4
<1>6. OneBurst' /\ SameBlock' /\ NotBegun'
  BY <1>1, <1>2, <1>3, <1>5 DEF OneBurst, SameBlock, NotBegun
<1>7. Len(tx) = 0
  BY <1>1
<1>8. OneReply'
  BY <1>1, <1>7 DEF OneReply
<1>9. HeadFound'
  BY <1>1, <1>5 DEF HeadFound
<1>10. Repaired'
  <2>1. ~ Replied
    BY <1>7 DEF Replied
  <2>2. ~ Calm
    BY <2>1, <1>1, <1>2, <1>5 DEF Repaired
  <2> QED
    BY <2>2, <1>1 DEF Repaired, Calm
<1>11. QED
  BY <1>4, <1>6, <1>8, <1>9, <1>10 DEF IInv, Protocol

(* xmodem_flush *)
LEMMA FlushStep ==
  ASSUME IInv, Live, Flush, TypeOK'
  PROVE  IInv'
<1>1. /\ pc = "flush" /\ rx # <<>> /\ rx' = <<>>
      /\ UNCHANGED <<receiver, tx, other, losses>>
  BY DEF Flush
<1>2. UNCHANGED <<pc, after, starting, retries, buf, stored, tx, sender, block, out, lost, kinds>>
  BY <1>1 DEF receiver, other, losses
<1>3. Place' /\ Storing' /\ Ends' /\ Live'
  BY <1>1, <1>2, OtherSide
<1>4. /\ TypeOK /\ Place /\ OneBurst /\ NotBegun /\ OneReply /\ SameBlock /\ Repaired
      /\ rx \in Seq(Byte) /\ out \in Seq(Byte) /\ after \in {"none", "accept"}
      /\ block \in 1 .. Len(File) + 1
  BY Parts
<1>5. after = "accept"
  BY <1>1, <1>4 DEF Place
<1>6. Coming # <<>> /\ Coming = rx \o out
  BY <1>1, <1>4, FirstByte
<1>7. sender = "gone" /\ Coming = <<CAN>>
  BY <1>1, <1>4, <1>5, <1>6 DEF OneBurst, NotBegun, SameBlock, TypeOK
<1>8. out = <<>>
  <2>1. Len(rx \o out) = Len(rx) + Len(out) /\ Len(<<CAN>>) = 1
    BY <1>4, ConcatBytes
  <2>2. Len(rx) \in Nat \ {0} /\ Len(out) \in Nat
    BY <1>1, <1>4, EmptySeq, LenProperties
  <2>3. Len(rx) + Len(out) = 1
    BY <2>1, <1>6, <1>7
  <2>4. Len(out) = 0
    BY <2>2, <2>3
  <2> QED
    BY <2>4, <1>4, EmptySeq
<1>9. Coming' = <<>>
  <2>1. Coming' = Way(pc, buf, <<>>, <<>>)
    BY <1>1, <1>2, <1>8 DEF Coming
  <2> QED
    BY <2>1, <1>1, <1>4, NewBurst
<1>10. OneBurst'
  <2>1. \E u \in Seq(Byte) : Remains(block, u) /\ <<>> \in {u, Append(u, CAN)}
    BY <1>4, LeftOver
  <2> QED
    BY <2>1, <1>2, <1>7, <1>8, <1>9 DEF OneBurst
<1>11. NotBegun' /\ OneReply' /\ SameBlock' /\ HeadFound' /\ Repaired'
  BY <1>1, <1>2, <1>4, <1>7 DEF NotBegun, OneReply, SameBlock, HeadFound, Repaired, Calm
<1>12. QED
  BY <1>3, <1>10, <1>11 DEF IInv, Protocol

(* The block is acknowledged and stored. *)
LEMMA StoreStep ==
  ASSUME IInv, Live, AfterFlush, after' = "none", TypeOK'
  PROVE  IInv'
<1>1. /\ TypeOK /\ Place /\ Storing /\ OneBurst /\ NotBegun /\ OneReply /\ SameBlock
      /\ Len(stored) \in Nat /\ after \in {"none", "accept"} /\ tx \in Seq({C, ACK, NAK, CAN})
      /\ block \in 1 .. Len(File) + 1 /\ Len(tx) \in Nat /\ stored \in Seq(Byte) /\ buf \in Seq(Byte)
  BY Parts
<1>2. after = "accept" /\ pc = "flush"
  BY <1>1 DEF AfterFlush, Place
<1>3. /\ pc' = "top" /\ rx = <<>> /\ out = <<>> /\ retries' = RetryLimit /\ result = "none"
      /\ packnum' = (packnum + 1) % Numbers
      /\ limit' = (IF Len(stored) + 1 > limit THEN limit + Increment ELSE limit)
      /\ tx' = Append(tx, ACK) /\ stored' = Append(stored, buf[3])
      /\ UNCHANGED <<result, starting, buf, rx, sender, block, out, lost, kinds>>
  BY <1>2 DEF AfterFlush, Renewed, Running, other, losses
<1>4. /\ Len(buf) = 4 /\ block = Len(stored) + 1 /\ block <= Len(File) /\ buf[3] = File[block]
      /\ starting = "no"
  BY <1>1, <1>2 DEF Place, RecordSize
<1>5. Len(stored') = block /\ (\A i \in 1 .. Len(stored) : stored'[i] = stored[i])
      /\ stored'[block] = File[block] /\ stored' # <<>>
  <2>1. buf[3] \in Byte
    <3>1. 3 \in 1 .. Len(buf)
      BY <1>4
    <3> QED
      BY <3>1, <1>1, ElementOfSeq
  <2> QED
    BY <2>1, <1>1, <1>3, <1>4, AppendProperties
<1>6. Live'
  BY DEF Live
<1>7. Place'
  BY <1>3 DEF Place
<1>8. Ends'
  BY DEF Ends
<1>9. Storing'
  <2>1. Len(stored') <= Len(File)
    BY <1>4, <1>5
  <2>2. ASSUME NEW i \in 1 .. Len(stored') PROVE stored'[i] = File[i]
    <3>1. i \in 1 .. Len(stored) \/ i = block
      BY <1>1, <1>4, <1>5
    <3>2. \A j \in 1 .. Len(stored) : stored[j] = File[j]
      BY <1>1 DEF Storing
    <3> QED
      BY <3>1, <3>2, <1>5
  <2>3. Len(stored') <= limit'
    <3>1. limit \in Nat /\ Increment \in Nat \ {0} /\ Len(stored) <= limit
      BY <1>1, ConstantsAssumption DEF TypeOK, Storing
    <3>2. Len(stored) + 1 <= limit'
      BY <3>1, <1>1, <1>3
    <3> QED
      BY <3>2, <1>4, <1>5
  <2>4. packnum' = (Len(stored') + 1) % Numbers
    <3>1. packnum = block % Numbers
      BY <1>1, <1>4, <1>2 DEF Storing, Live
    <3>2. block \in Nat
      BY <1>1, FileLength
    <3>3. (block + 1) % Numbers = ((block % Numbers) + 1) % Numbers
      BY <3>2, NextNumber
    <3> QED
      BY <3>1, <3>3, <1>3, <1>5
  <2> QED
    BY <2>1, <2>2, <2>3, <2>4 DEF Storing
<1>10. Coming' = <<>>
  <2>1. Coming' = Way(pc', buf, <<>>, <<>>)
    BY <1>3 DEF Coming
  <2> QED
    BY <2>1, <1>1, <1>3, NewBurst
<1>11. sender \in {"wait", "gone"}
  BY <1>1, <1>2 DEF NotBegun, SameBlock, TypeOK
<1>12. OneBurst'
  <2>1. /\ Remains(block, <<>>)
        /\ \E u \in Seq(Byte) : Remains(block, u) /\ <<>> \in {u, Append(u, CAN)}
    BY <1>1, LeftOver
  <2> QED
    BY <2>1, <1>3, <1>10 DEF OneBurst
<1>13. NotBegun' /\ SameBlock' /\ HeadFound'
  BY <1>3, <1>5, <1>10, <1>11 DEF NotBegun, SameBlock, HeadFound
<1>14. Len(tx') = Len(tx) + 1 /\ (\A i \in 1 .. Len(tx) : tx'[i] = tx[i]) /\ tx'[Len(tx) + 1] = ACK
  BY <1>1, <1>3, AppendProperties
<1>15. OneReply'
  <2>1. ASSUME sender = "wait", NEW i \in 1 .. Len(tx'), tx'[i] \in {ACK, NAK} PROVE i = Len(tx')
    <3>1. \A j \in 1 .. Len(tx) : tx[j] \notin {ACK, NAK}
      BY <2>1, <1>2, NoReply
    <3>2. i \in 1 .. Len(tx) \/ i = Len(tx) + 1
      BY <1>1, <1>14
    <3>3. i = Len(tx) + 1
      BY <3>1, <3>2, <2>1, <1>14
    <3> QED
      BY <3>3, <1>14
  <2> QED
    BY <2>1, <1>3, <1>4, <1>5, <1>10 DEF OneReply
<1>16. Repaired'
  <2>1. Len(tx') > 0 /\ tx'[Len(tx')] = ACK
    BY <1>1, <1>14
  <2>2. Replied'
    BY <2>1 DEF Replied
  <2>3. Damage' = 0 /\ Left' = RetryLimit
    BY <1>3, <1>10 DEF Damage, Left
  <2>4. lost' \in Nat /\ RetryLimit \in Nat
    BY <1>1, <1>3, ConstantsAssumption DEF TypeOK
  <2>5. Left' >= RetryLimit - lost' + Damage'
    <3>1. PICK l \in Nat : l = lost'
      BY <2>4
    <3>2. RetryLimit >= RetryLimit - l + 0
      BY <2>4
    <3> QED
      BY <3>1, <3>2, <2>3
  <2> QED
    BY <2>1, <2>2, <2>5 DEF Repaired
<1>17. QED
  BY <1>6, <1>7, <1>8, <1>9, <1>12, <1>13, <1>15, <1>16 DEF IInv, Protocol

(* There is no memory for the block. *)
LEMMA NoMemoryStep ==
  ASSUME IInv, Live, AfterFlush, after' # "none", TypeOK'
  PROVE  IInv'
<1>1. Place /\ Storing /\ after \in {"none", "accept"}
  BY Parts
<1>2. after = "accept" /\ pc = "flush"
  BY <1>1 DEF AfterFlush, Place
<1>3. after' = "nomem" /\ result = "none" /\ UNCHANGED <<pc, limit, stored, result>>
  BY <1>2 DEF AfterFlush, Running
<1>4. ~ Live' /\ Place' /\ Ends'
  BY <1>2, <1>3 DEF Live, Place, Ends
<1>5. Storing'
  BY <1>1, <1>3, <1>4 DEF Storing
<1>6. QED
  BY <1>4, <1>5 DEF IInv

(***************************************************************************)
(* The invariant.                                                          *)
(***************************************************************************)
(* It holds at the start. *)
LEMMA InitHolds == Init => IInv
<1> SUFFICES ASSUME Init PROVE IInv
  OBVIOUS
<1>1. /\ pc = "top" /\ after = "none" /\ starting = "yes" /\ packnum = 1 % Numbers
      /\ retries = RetryLimit /\ limit = InitialBuffer /\ buf = <<>> /\ stored = <<>>
      /\ result = "none" /\ rx = <<>> /\ tx = <<>> /\ sender = "off" /\ block = 1 /\ out = <<>>
      /\ lost = 0 /\ kinds = {}
  BY DEF Init
<1>2. Len(stored) = 0 /\ Len(tx) = 0 /\ <<>> \in Seq(Byte) /\ <<>> \in Seq({C, ACK, NAK, CAN})
  BY <1>1
<1>3. 1 % Numbers \in 0 .. Numbers - 1
  BY NextNumber
<1>4. TypeOK
  BY <1>1, <1>2, <1>3, ConstantsAssumption, FileLength DEF TypeOK
<1>5. Place /\ Ends
  BY <1>1 DEF Place, Ends
<1>6. Storing
  <2>1. InitialBuffer \in Nat /\ 0 + 1 = 1
    BY ConstantsAssumption
  <2> QED
    BY <2>1, <1>1, <1>2, FileLength DEF Storing
<1>7. Coming = <<>>
  BY <1>1, <1>4, NothingComing
<1>8. OneBurst /\ NotBegun /\ OneReply /\ SameBlock /\ HeadFound /\ Repaired
  BY <1>1, <1>2, <1>7 DEF OneBurst, NotBegun, OneReply, SameBlock, HeadFound, Repaired, Calm
<1>9. QED
  BY <1>4, <1>5, <1>6, <1>8 DEF IInv, Protocol

(* Every step keeps it. *)
LEMMA StepHolds == IInv /\ [Next]_vars => IInv'
<1> SUFFICES ASSUME IInv, [Next]_vars PROVE IInv'
  OBVIOUS
<1>1. CASE UNCHANGED vars
  <2>1. UNCHANGED <<pc, after, starting, packnum, retries, limit, buf, stored, result>>
        /\ UNCHANGED <<rx, tx, sender, block, out, lost, kinds>>
    BY <1>1 DEF vars, receiver, other, losses
  <2>2. Coming' = Coming /\ Live' = Live
    BY <2>1 DEF Coming, Live
  <2>3. TypeOK' /\ Place' /\ Storing' /\ Ends'
    BY <2>1 DEF IInv, TypeOK, Place, Storing, Ends, Live
  <2>4. Live => OneBurst' /\ NotBegun' /\ OneReply' /\ SameBlock' /\ HeadFound'
    BY <2>1, <2>2, Parts DEF OneBurst, NotBegun, OneReply, SameBlock, HeadFound
  <2>5. Live => Repaired'
    <3>1. Calm' = Calm /\ Damage' = Damage /\ Left' = Left /\ Replied' = Replied
      BY <2>1, <2>2 DEF Calm, Damage, Left, Replied
    <3> QED
      BY <3>1, <2>1, <2>2, Parts DEF Repaired
  <2> QED
    BY <2>2, <2>3, <2>4, <2>5 DEF IInv, Protocol
<1>2. CASE Next
  <2>1. TypeOK'
    BY <1>2, ReceiverTypes, SenderTypes DEF IInv, Next
  <2>2. CASE ~ Live
    BY <2>1, <2>2, <1>2, Ended DEF IInv
  <2>3. CASE Live
    <3>1. CASE Top
      BY <3>1, <2>1, <2>3, GiveUp, TopStep
    <3>2. CASE Control
      BY <3>2, <2>1, <2>3, EndStep, SohStep, SkipStep
    <3>3. CASE GetRecord
      <4>1. \/ Len(Append(buf, Head(rx))) < 4
            \/ Len(Append(buf, Head(rx))) = 4 /\ Valid(Append(buf, Head(rx)))
            \/ Len(Append(buf, Head(rx))) = 4 /\ ~ Valid(Append(buf, Head(rx)))
        BY <3>3 DEF GetRecord, RecordSize
      <4> QED
        BY <4>1, <3>3, <2>1, <2>3, MoreStep, GoodStep, BadStep
    <3>4. CASE Timeout
      BY <3>4, <2>1, <2>3, RecordTimeout, LoopTimeout
    <3>5. CASE Flush
      BY <3>5, <2>1, <2>3, FlushStep
    <3>6. CASE AfterFlush
      BY <3>6, <2>1, <2>3, StoreStep, NoMemoryStep
    <3>7. CASE Start
      BY <3>7, <2>1, <2>3, StartStep
    <3>8. CASE SendByte
      BY <3>8, <2>1, <2>3, SendByteStep
    <3>9. CASE Answer
      BY <3>9, <2>1, <2>3, AnswerStep
    <3>10. CASE NoAnswer
      BY <3>10, <2>1, <2>3, NoAnswerStep
    <3>11. CASE Abort
      BY <3>11, <2>1, <2>3, AbortStep
    <3>12. CASE LoseData
      BY <3>12, <2>1, <2>3, LoseDataStep
    <3>13. CASE LoseAnswer
      BY <3>13, <2>1, <2>3, LoseAnswerStep
    <3> QED
      BY <3>1, <3>2, <3>3, <3>4, <3>5, <3>6, <3>7, <3>8, <3>9, <3>10, <3>11, <3>12, <3>13, <1>2
         DEF Next, Receive
  <2> QED
    BY <2>2, <2>3
<1>3. QED
  BY <1>1, <1>2

(* The inductive invariant holds throughout, for every file and every      *)
(* number of retries and of bytes lost (xmodem_receive and the sender).    *)
THEOREM Invariant == Spec => []IInv
<1>1. Init => IInv
  BY InitHolds
<1>2. IInv /\ [Next]_vars => IInv'
  BY StepHolds
<1>3. QED
  BY <1>1, <1>2, PTL DEF Spec

(* xmodem_receive stores a beginning of the file, no block twice and none  *)
(* left out, whatever is lost and however often the block numbers wrap,    *)
(* and what it stores fits into the buffer.                                *)
THEOREM StoredDataIsPrefix == Spec => []StoredIsPrefix
<1>1. IInv => StoredIsPrefix
  <2> SUFFICES ASSUME IInv PROVE StoredIsPrefix
    OBVIOUS
  <2>1. stored \in Seq(Byte) /\ Storing
    BY DEF IInv, TypeOK
  <2>2. PICK n \in Nat : n = Len(stored)
    BY <2>1, LenProperties
  <2>3. n <= Len(File) /\ n <= limit /\ \A i \in 1 .. n : stored[i] = File[i]
    BY <2>1, <2>2 DEF Storing
  <2>4. PICK s : s = SubSeq(File, 1, n)
    OBVIOUS
  <2>5. \A i \in 1 .. n : File[i] \in Byte
    <3>1. ASSUME NEW i \in 1 .. n PROVE File[i] \in Byte
      <4>1. i \in 1 .. Len(File)
        BY <2>3, FileLength
      <4> QED
        BY <4>1, ConstantsAssumption, ElementOfSeq
    <3> QED
      BY <3>1
  <2>6. s \in Seq(Byte) /\ Len(s) = n /\ \A i \in 1 .. n : s[i] = File[i]
    <3>1. SubSeq(File, 1, n) \in Seq(Byte) /\ Len(SubSeq(File, 1, n)) = (IF 1 <= n THEN n - 1 + 1 ELSE 0)
          /\ \A i \in 1 .. n - 1 + 1 : SubSeq(File, 1, n)[i] = File[1 + i - 1]
      BY <2>5, SubSeqProperties
    <3>2. n - 1 + 1 = n /\ \A i \in 1 .. n : 1 + i - 1 = i
      OBVIOUS
    <3> QED
      BY <3>1, <3>2, <2>4
  <2>7. stored = s
    BY <2>1, <2>2, <2>3, <2>6, SeqEqual
  <2> QED
    BY <2>2, <2>3, <2>4, <2>7 DEF StoredIsPrefix
<1>2. QED
  BY <1>1, Invariant, PTL

(* When xmodem_receive returns a size, it has stored the whole file, as    *)
(* long as no SOH is lost.                                                 *)
THEOREM SuccessMeansWhole == Spec => []SuccessIsWhole
<1>1. IInv => SuccessIsWhole
  BY DEF IInv, Place, Ends, SuccessIsWhole
<1>2. QED
  BY <1>1, Invariant, PTL

(* As long as fewer bytes are lost than there are retries, xmodem_receive  *)
(* gives up a transfer that has begun only if the sender was stopped, or   *)
(* an answer or a control byte was lost.                                   *)
THEOREM LossesInsideAreRepaired ==
  ASSUME MaxLost < RetryLimit
  PROVE  Spec => []LossInsideIsRepaired
<1>1. IInv => LossInsideIsRepaired
  BY DEF IInv, Place, Ends, LossInsideIsRepaired
<1>2. QED
  BY <1>1, Invariant, PTL

=============================================================================
