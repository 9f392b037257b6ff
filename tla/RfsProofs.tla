----------------------------- MODULE RfsProofs -----------------------------
(***************************************************************************)
(* Proofs about Rfs for any number of calls and of restarts.               *)
(***************************************************************************)
EXTENDS Rfs, SequenceTheorems, TLAPS

Kinds == {"mark", "len", "head", "data", "end"}
AnyKind == Kinds \cup {"lost"}
Ways  == {"request", "response"}
Units == [kind : AnyKind, call : Nat, way : Ways, pos : 1 .. 7]

(* The kinds of the units of u's packet, os being the operations called.    *)
KindsOf(os, u) == IF u.way = "request" THEN RequestOf(os[u.call]) ELSE ResponseOf(os[u.call])
Whole(os, u)   == Len(KindsOf(os, u))

(* u was put into a packet by a call or in answer to one: the answer to a   *)
(* read that failed differs in its last unit.                               *)
Genuine(os, u) ==
  /\ u.call \in 1 .. Len(os) /\ u.pos \in 1 .. Whole(os, u)
  /\ \/ u.kind = KindsOf(os, u)[u.pos]
     \/ u.kind = "lost" /\ u.way = "response" /\ u.pos = Whole(os, u)
AllGenuine(os, s) == \A i \in 1 .. Len(s) : Genuine(os, s[i])

Before(u, v) == u.call < v.call \/ (u.call = v.call /\ u.pos < v.pos)
Follows(u, v)  == v.way = u.way /\ v.call = u.call /\ v.pos = u.pos + 1

(* What is under way to the server: requests, in the order they were sent,  *)
(* of which restarts may have cut out parts.                                *)
InOrder(s) == \A i, j \in 1 .. Len(s) : i < j => Before(s[i], s[j])
Requests(os, s) ==
  /\ AllGenuine(os, s) /\ InOrder(s)
  /\ \A i \in 1 .. Len(s) : s[i].way = "request"

(* Without such cuts: each request from its start to its end. *)
Unbroken(os, s) ==
  /\ Len(s) > 0 => s[1].pos = 1
  /\ \A i \in 1 .. Len(s) - 1 :
       IF s[i].pos < Whole(os, s[i]) THEN Follows(s[i], s[i + 1]) ELSE s[i + 1].pos = 1

(* What is under way to the client, from the unit it read first.  Responses *)
(* are whole, except that the first one may have lost its beginning, and    *)
(* that one whose server was restarted has lost its end, where a packet     *)
(* begins instead; units of requests the server could not make sense of     *)
(* come between them.                                                       *)
Outbound == got \o rx \o back
GoesOn(s, i) ==
  i < Len(s) => \/ Follows(s[i], s[i + 1])
                \/ s[i + 1].pos = 1 /\ (i + 1 < Len(s) => s[i + 2].pos <= 2)
IsResp(u) == u.way = "response"
Responses(os, s) ==
  /\ AllGenuine(os, s)
  /\ \A i, j \in 1 .. Len(s) : i < j /\ IsResp(s[i]) /\ IsResp(s[j]) => Before(s[i], s[j])
  /\ \A i \in 1 .. Len(s) :
       /\ IsResp(s[i]) /\ s[i].pos < Whole(os, s[i]) => GoesOn(s, i)
       /\ IsResp(s[i]) /\ s[i].pos > 1 /\ i > 1 => Follows(s[i - 1], s[i])

(* Where the calls of the units under way lie: the server has answered      *)
(* requests up to call m and the heads of later ones are to come; the       *)
(* answers that were accepted are older than those under way.               *)
HeadIsOut == pc \notin {"drain", "send"} \/ sent > 2
Bounds(m) ==
  /\ m <= This /\ (~HeadIsOut => m < This)
  /\ \A i \in 1 .. Len(Inbound) :
       /\ Inbound[i].kind = "head" => m < Inbound[i].call
       /\ Inbound[i].call = This /\ pc # "idle" => Inbound[i].pos <= sent
  /\ \A i \in 1 .. Len(Outbound) : IsResp(Outbound[i]) =>
       /\ Outbound[i].call <= m
       /\ \A c \in Answered : outcome[c].of < Outbound[i].call
  /\ \A c \in Answered : outcome[c].of <= m

(* The call that was made with nothing under way: what the server has not   *)
(* read is the end of what was sent of the request, or the response, or the *)
(* beginning of it, is under way.                                           *)
Clean ==
  /\ done = "yes" => Outbound = <<>>
  /\ first = "mark"
  /\ Len(Inbound) <= sent
  /\ \A i \in 1 .. Len(Inbound) :
       Inbound[i].call = This /\ Inbound[i].pos = sent - Len(Inbound) + i
  /\ buf # <<>> => Len(Inbound) = sent
  /\ Outbound # <<>> =>
       /\ pc = "read" /\ Inbound = <<>>
       /\ Len(Outbound) <= Len(ResponseOf(ops[This]))
       /\ \A i \in 1 .. Len(Outbound) :
            /\ Outbound[i].call = This /\ IsResp(Outbound[i]) /\ Outbound[i].pos = i
            /\ Outbound[i].kind = "lost" => This \in failed

Empty == Inbound = <<>> /\ Outbound = <<>> /\ done = "no"

(* Until a call was given up each one begins with nothing under way; after  *)
(* that everything under way belongs to the first such call or later ones.  *)
OldestLate(e) ==
  /\ \A i \in 1 .. Len(Inbound) : e <= Inbound[i].call
  /\ \A i \in 1 .. Len(Outbound) : e <= Outbound[i].call

(* In step with the client, as long as no restart cut a request. *)
InStep ==
  /\ Unbroken(ops, Inbound)
  /\ IF pc = "send" /\ sent > 0
     THEN Len(Inbound) > 0 /\ Inbound[Len(Inbound)].call = This
          /\ Inbound[Len(Inbound)].pos = sent
     ELSE Len(Inbound) > 0 => Inbound[Len(Inbound)].pos = Whole(ops, Inbound[Len(Inbound)])

Hows     == {"unsent", "garbled", "answered", "refused", "timeout", "restart"}
Outcomes == [how : Hows, of : Nat]

TypeOK ==
  /\ transport \in Transports \cup {"any"}
  /\ pc \in {"idle", "drain", "send", "read"}
  /\ ops \in Seq(Operations)
  /\ first \in AnyKind
  /\ sent \in Nat /\ got \in Seq(Units)
  /\ line \in Seq(Units) /\ back \in Seq(Units) /\ rx \in Seq(Units)
  /\ buf \in Seq(Units) /\ done \in {"no", "yes"}
  /\ outcome \in Seq(Outcomes)
  /\ quiet \in SUBSET Nat /\ late \in SUBSET Nat
  /\ executed \in Seq(Nat) /\ failed \in SUBSET Nat
  /\ torn \in {"no", "yes"} /\ restarts \in Nat

(* Where a call is, and how the histories grow with the calls. *)
Phase ==
  /\ This = IF pc = "idle" THEN Len(outcome) ELSE Len(outcome) + 1
  /\ pc # "read" => got = <<>>
  /\ pc \in {"idle", "drain"} => sent = 0
  /\ pc = "send" => sent < Len(RequestOf(ops[This]))
  /\ pc = "read" => sent = Len(RequestOf(ops[This]))
  /\ quiet \subseteq 1 .. Len(ops) /\ late \subseteq 1 .. Len(outcome)
  /\ buf # <<>> => done = "no" /\ Len(buf) = 2 /\ HasSize(buf)

(* The invariant in six parts. *)
Streams    == Requests(ops, Inbound) /\ Responses(ops, Outbound)
Bounded    == \E m \in Nat : Bounds(m)
QuietClean == pc # "idle" /\ This \in quiet => Clean
LateOldest ==
  /\ late = {} => IF pc = "idle" THEN Empty ELSE This \in quiet
  /\ late # {} => \E e \in late : OldestLate(e)
Stepping   == torn = "no" => InStep /\ ServerInStep
Answers    == AnswerIsOwnOrLate /\ FailureHasCause

IInv == TypeOK /\ Phase /\ Streams /\ Bounded /\ QuietClean /\ LateOldest /\ Stepping /\ Answers

-----------------------------------------------------------------------------
(* What the proofs need of the packets' layout. *)
Layout(ks) ==
  /\ ks \in Seq(Kinds) /\ Len(ks) \in Nat /\ Len(ks) >= 4 /\ Len(ks) <= 7
  /\ ks[1] = "mark"
  /\ \A k \in 1 .. Len(ks) :
       /\ ks[k] \in Kinds
       /\ (ks[k] = "len") <=> (k = 2)
       /\ (ks[k] = "head") <=> (k = 3)
       /\ (ks[k] = "end") <=> (k = Len(ks))
OneMark(ks) == \A k \in 1 .. Len(ks) : (ks[k] = "mark") <=> (k = 1)

(* A request is laid out so, and has a mark at its start only. *)
LEMMA RequestLayout ==
  ASSUME NEW o \in Operations
  PROVE  Layout(RequestOf(o)) /\ OneMark(RequestOf(o))
<1>1. CASE o = "write"
  <2>1. PICK ks : ks = RequestOf(o) /\ ks = <<"mark", "len", "head", "data", "data", "data", "end">>
    BY <1>1 DEF RequestOf
  <2>2. ks \in Seq(Kinds) /\ Len(ks) = 7 /\ ks[1] = "mark"
    BY <2>1 DEF Kinds
  <2>3. ASSUME NEW k \in 1 .. 7
        PROVE  /\ ks[k] \in Kinds
               /\ (ks[k] = "len") <=> (k = 2)
               /\ (ks[k] = "head") <=> (k = 3)
               /\ (ks[k] = "end") <=> (k = 7)
               /\ (ks[k] = "mark") <=> (k = 1)
    <3>1. k = 1 \/ k = 2 \/ k = 3 \/ k = 4 \/ k = 5 \/ k = 6 \/ k = 7
      OBVIOUS
    <3>2. QED
      BY <2>1, <3>1 DEF Kinds
  <2>4. QED
    BY <2>1, <2>2, <2>3 DEF Layout, OneMark
<1>2. CASE o # "write"
  <2>1. PICK ks : ks = RequestOf(o) /\ ks = <<"mark", "len", "head", "end">>
    BY <1>2 DEF RequestOf
  <2>2. ks \in Seq(Kinds) /\ Len(ks) = 4 /\ ks[1] = "mark"
    BY <2>1 DEF Kinds
  <2>3. ASSUME NEW k \in 1 .. 4
        PROVE  /\ ks[k] \in Kinds
               /\ (ks[k] = "len") <=> (k = 2)
               /\ (ks[k] = "head") <=> (k = 3)
               /\ (ks[k] = "end") <=> (k = 4)
               /\ (ks[k] = "mark") <=> (k = 1)
    <3>1. k = 1 \/ k = 2 \/ k = 3 \/ k = 4
      OBVIOUS
    <3>2. QED
      BY <2>1, <3>1 DEF Kinds
  <2>4. QED
    BY <2>1, <2>2, <2>3 DEF Layout, OneMark
<1>3. QED
  BY <1>1, <1>2

(* A response is laid out so. *)
LEMMA ResponseLayout ==
  ASSUME NEW o \in Operations
  PROVE  Layout(ResponseOf(o)) /\ Len(ResponseOf(o)) <= 5
<1>1. CASE o = "read"
  <2>1. PICK ks : ks = ResponseOf(o) /\ ks = <<"mark", "len", "head", "mark", "end">>
    BY <1>1 DEF ResponseOf
  <2>2. ks \in Seq(Kinds) /\ Len(ks) = 5 /\ ks[1] = "mark"
    BY <2>1 DEF Kinds
  <2>3. ASSUME NEW k \in 1 .. 5
        PROVE  /\ ks[k] \in Kinds
               /\ (ks[k] = "len") <=> (k = 2)
               /\ (ks[k] = "head") <=> (k = 3)
               /\ (ks[k] = "end") <=> (k = 5)
    <3>1. k = 1 \/ k = 2 \/ k = 3 \/ k = 4 \/ k = 5
      OBVIOUS
    <3>2. QED
      BY <2>1, <3>1 DEF Kinds
  <2>4. QED
    BY <2>1, <2>2, <2>3 DEF Layout
<1>2. CASE o # "read"
  <2>1. PICK ks : ks = ResponseOf(o) /\ ks = <<"mark", "len", "head", "end">>
    BY <1>2 DEF ResponseOf
  <2>2. ks \in Seq(Kinds) /\ Len(ks) = 4 /\ ks[1] = "mark"
    BY <2>1 DEF Kinds
  <2>3. ASSUME NEW k \in 1 .. 4
        PROVE  /\ ks[k] \in Kinds
               /\ (ks[k] = "len") <=> (k = 2)
               /\ (ks[k] = "head") <=> (k = 3)
               /\ (ks[k] = "end") <=> (k = 4)
    <3>1. k = 1 \/ k = 2 \/ k = 3 \/ k = 4
      OBVIOUS
    <3>2. QED
      BY <2>1, <3>1 DEF Kinds
  <2>4. QED
    BY <2>1, <2>2, <2>3 DEF Layout
<1>3. QED
  BY <1>1, <1>2

(* A unit of a packet. *)
LEMMA GenuineUnit ==
  ASSUME NEW os \in Seq(Operations), NEW u \in Units, Genuine(os, u)
  PROVE  /\ u.call \in 1 .. Len(os) /\ u.call \in Nat /\ os[u.call] \in Operations
         /\ u.pos \in Nat /\ u.pos >= 1 /\ u.pos <= Whole(os, u)
         /\ Whole(os, u) \in Nat /\ Whole(os, u) >= 4 /\ Whole(os, u) <= 7
         /\ u.way = "response" => Whole(os, u) <= 5
         /\ u.kind = "len" <=> u.pos = 2
         /\ u.kind = "head" <=> u.pos = 3
         /\ u.kind = "end" => u.pos = Whole(os, u)
         /\ u.pos = Whole(os, u) => u.kind = "end" \/ (u.kind = "lost" /\ u.way = "response")
         /\ u.way = "request" => (u.kind = "mark" <=> u.pos = 1)
         /\ u.pos = 1 => u.kind = "mark"
<1>1. u.call \in 1 .. Len(os) /\ u.call \in Nat /\ os[u.call] \in Operations
  BY DEF Genuine
<1>2. PICK ks : ks = KindsOf(os, u)
  OBVIOUS
<1>3. Layout(ks) /\ (u.way = "request" => OneMark(ks)) /\ (u.way = "response" => Len(ks) <= 5)
  BY <1>1, <1>2, RequestLayout, ResponseLayout DEF KindsOf
<1>4. /\ u.pos \in 1 .. Len(ks) /\ Whole(os, u) = Len(ks)
      /\ u.kind = ks[u.pos] \/ (u.kind = "lost" /\ u.way = "response" /\ u.pos = Len(ks))
  BY <1>2 DEF Genuine, Whole
<1>5. PICK n \in Nat : n = Len(ks) /\ n >= 4 /\ n <= 7
  BY <1>3 DEF Layout
<1>6. u.pos \in 1 .. n /\ u.pos \in Nat /\ u.pos >= 1 /\ u.pos <= n
  BY <1>4, <1>5
<1>7. \A k \in 1 .. n :
         /\ (ks[k] = "len") <=> (k = 2)
         /\ (ks[k] = "head") <=> (k = 3)
         /\ (ks[k] = "end") <=> (k = n)
  BY <1>3, <1>5 DEF Layout
<1>8. /\ u.kind = "len" <=> u.pos = 2
      /\ u.kind = "head" <=> u.pos = 3
      /\ u.kind = "end" => u.pos = n
      /\ u.pos = n => u.kind = "end" \/ (u.kind = "lost" /\ u.way = "response")
      /\ u.pos = 1 => u.kind = "mark"
  <2>1. CASE u.kind = ks[u.pos]
    <3>1. u.pos = 1 => u.kind = "mark"
      BY <1>3, <2>1 DEF Layout
    <3>2. QED
      BY <1>6, <1>7, <2>1, <3>1
  <2>2. CASE u.kind = "lost" /\ u.way = "response" /\ u.pos = n
    BY <1>5, <1>6, <2>2
  <2>3. QED
    BY <1>4, <1>5, <2>1, <2>2
<1>9. u.way = "request" => (u.kind = "mark" <=> u.pos = 1)
  BY <1>3, <1>4, <1>5, <1>6 DEF OneMark
<1>10. QED
  BY <1>1, <1>3, <1>4, <1>5, <1>6, <1>8, <1>9

-----------------------------------------------------------------------------
(* t is what is left of s without its first k units. *)
After(t, s, k) ==
  /\ t \in Seq(Units) /\ s \in Seq(Units) /\ k \in 0 .. Len(s)
  /\ Len(t) = Len(s) - k
  /\ \A i \in 1 .. Len(t) : t[i] = s[i + k]

(* t is a part of it: also the end may be missing. *)
Within(t, s, k) ==
  /\ t \in Seq(Units) /\ s \in Seq(Units) /\ k \in 0 .. Len(s)
  /\ Len(t) <= Len(s) - k
  /\ \A i \in 1 .. Len(t) : t[i] = s[i + k]

(* The whole of the rest is such a part. *)
LEMMA AfterWithin ==
  ASSUME NEW t, NEW s, NEW k, After(t, s, k)
  PROVE  Within(t, s, k)
BY DEF After, Within

(* Where a unit of a part was before. *)
LEMMA WithinIndex ==
  ASSUME NEW t, NEW s, NEW k, Within(t, s, k), NEW i \in 1 .. Len(t)
  PROVE  /\ i + k \in 1 .. Len(s) /\ t[i] = s[i + k] /\ i \in Nat /\ k \in Nat
         /\ Len(s) \in Nat /\ Len(t) <= Len(s) - k /\ Len(t) \in Nat /\ t[i] \in Units
BY DEF Within

(* Where a unit of the rest was before. *)
LEMMA AfterIndex ==
  ASSUME NEW t, NEW s, NEW k, After(t, s, k), NEW i \in 1 .. Len(t)
  PROVE  /\ i + k \in 1 .. Len(s) /\ t[i] = s[i + k] /\ i \in Nat /\ k \in Nat
         /\ Len(s) \in Nat /\ Len(t) = Len(s) - k /\ t[i] \in Units
BY DEF After

(* The rest of requests are requests. *)
LEMMA RequestsAfter ==
  ASSUME NEW os, NEW t, NEW s, NEW k, After(t, s, k), Requests(os, s)
  PROVE  Requests(os, t)
<1>1. ASSUME NEW i \in 1 .. Len(t) PROVE Genuine(os, t[i]) /\ t[i].way = "request"
  <2>1. i + k \in 1 .. Len(s) /\ t[i] = s[i + k]
    BY AfterIndex
  <2>2. QED
    BY <2>1 DEF Requests, AllGenuine
<1>2. ASSUME NEW i \in 1 .. Len(t), NEW j \in 1 .. Len(t), i < j PROVE Before(t[i], t[j])
  <2>1. /\ i + k \in 1 .. Len(s) /\ j + k \in 1 .. Len(s) /\ t[i] = s[i + k] /\ t[j] = s[j + k]
        /\ i \in Nat /\ j \in Nat /\ k \in Nat
    BY AfterIndex
  <2>2. i + k < j + k
    BY <1>2, <2>1
  <2>3. QED
    BY <2>1, <2>2 DEF Requests, InOrder
<1>3. QED
  BY <1>1, <1>2 DEF Requests, AllGenuine, InOrder

(* A part of what is under way to the client may begin and end within a     *)
(* response.                                                                *)
LEMMA ResponsesWithin ==
  ASSUME NEW os, NEW t, NEW s, NEW k, Within(t, s, k), Responses(os, s)
  PROVE  Responses(os, t)
<1>1. ASSUME NEW i \in 1 .. Len(t) PROVE Genuine(os, t[i])
  <2>1. i + k \in 1 .. Len(s) /\ t[i] = s[i + k]
    BY WithinIndex
  <2>2. QED
    BY <2>1 DEF Responses, AllGenuine
<1>2. ASSUME NEW i \in 1 .. Len(t), NEW j \in 1 .. Len(t), i < j, IsResp(t[i]), IsResp(t[j])
      PROVE  Before(t[i], t[j])
  <2>1. /\ i + k \in 1 .. Len(s) /\ j + k \in 1 .. Len(s) /\ t[i] = s[i + k] /\ t[j] = s[j + k]
        /\ i \in Nat /\ j \in Nat /\ k \in Nat
    BY WithinIndex
  <2>2. i + k < j + k
    BY <1>2, <2>1
  <2>3. QED
    BY <1>2, <2>1, <2>2 DEF Responses
<1>3. ASSUME NEW i \in 1 .. Len(t), IsResp(t[i]), t[i].pos < Whole(os, t[i])
      PROVE  GoesOn(t, i)
  <2>1. /\ i + k \in 1 .. Len(s) /\ t[i] = s[i + k] /\ i \in Nat /\ k \in Nat
        /\ Len(s) \in Nat /\ Len(t) <= Len(s) - k /\ Len(t) \in Nat
    BY WithinIndex
  <2>2. GoesOn(s, i + k)
    BY <1>3, <2>1 DEF Responses
  <2>3. SUFFICES ASSUME i < Len(t)
                 PROVE  \/ Follows(t[i], t[i + 1])
                        \/ t[i + 1].pos = 1 /\ (i + 1 < Len(t) => t[i + 2].pos <= 2)
    BY DEF GoesOn
  <2>4. i + 1 \in 1 .. Len(t) /\ i + k + 1 = (i + 1) + k /\ i + k < Len(s)
    BY <2>1, <2>3
  <2>5. t[i + 1] = s[i + k + 1]
    BY <2>4, WithinIndex
  <2>6. ASSUME i + 1 < Len(t) PROVE t[i + 2] = s[i + k + 2] /\ i + k + 1 < Len(s)
    <3>1. i + 2 \in 1 .. Len(t) /\ i + k + 2 = (i + 2) + k /\ i + k + 1 < Len(s)
      BY <2>1, <2>6
    <3>2. QED
      BY <3>1, WithinIndex
  <2>7. QED
    BY <2>1, <2>2, <2>4, <2>5, <2>6 DEF GoesOn
<1>4. ASSUME NEW i \in 1 .. Len(t), IsResp(t[i]), t[i].pos > 1, i > 1
      PROVE  Follows(t[i - 1], t[i])
  <2>1. /\ i + k \in 1 .. Len(s) /\ t[i] = s[i + k] /\ i \in Nat /\ k \in Nat
        /\ Len(s) \in Nat /\ Len(t) <= Len(s) - k
    BY WithinIndex
  <2>2. i + k > 1 /\ i - 1 \in 1 .. Len(t) /\ i + k - 1 = (i - 1) + k
    BY <1>4, <2>1
  <2>3. Follows(s[i + k - 1], s[i + k])
    BY <1>4, <2>1, <2>2 DEF Responses
  <2>4. t[i - 1] = s[i + k - 1]
    BY <2>2 DEF Within
  <2>5. QED
    BY <2>1, <2>3, <2>4
<1>5. QED
  BY <1>1, <1>2, <1>3, <1>4 DEF Responses, AllGenuine

(* What is left of requests without cuts after whole ones. *)
LEMMA UnbrokenAfter ==
  ASSUME NEW os, NEW t, NEW s, NEW k, After(t, s, k), Unbroken(os, s),
         k \in 1 .. Len(s), ~(s[k].pos < Whole(os, s[k]))
  PROVE  Unbroken(os, t)
<1>1. ASSUME Len(t) > 0 PROVE t[1].pos = 1
  <2>1. 1 \in 1 .. Len(t) /\ Len(t) = Len(s) - k /\ k \in Nat /\ Len(s) \in Nat
    BY <1>1 DEF After
  <2>2. t[1] = s[1 + k]
    BY <2>1, AfterIndex
  <2>3. k \in 1 .. Len(s) - 1 /\ 1 + k = k + 1
    BY <1>1, <2>1
  <2>4. QED
    BY <2>2, <2>3 DEF Unbroken
<1>2. ASSUME NEW i \in 1 .. Len(t) - 1
      PROVE  IF t[i].pos < Whole(os, t[i]) THEN Follows(t[i], t[i + 1]) ELSE t[i + 1].pos = 1
  <2>1. i \in Nat /\ k \in Nat /\ Len(t) = Len(s) - k /\ Len(t) \in Nat /\ Len(s) \in Nat
    BY DEF After
  <2>2. i \in 1 .. Len(t) /\ i + 1 \in 1 .. Len(t)
    BY <2>1
  <2>3. t[i] = s[i + k] /\ t[i + 1] = s[(i + 1) + k]
    BY <2>2 DEF After
  <2>4. i + k \in 1 .. Len(s) - 1 /\ (i + 1) + k = (i + k) + 1
    BY <2>1, <2>2
  <2>5. QED
    BY <2>3, <2>4 DEF Unbroken
<1>3. QED
  BY <1>1, <1>2 DEF Unbroken

(* A unit is sent after the others. *)
LEMMA RequestsAppend ==
  ASSUME NEW os, NEW s \in Seq(Units), NEW u \in Units, Requests(os, s), Genuine(os, u),
         u.way = "request", \A i \in 1 .. Len(s) : Before(s[i], u)
  PROVE  Requests(os, Append(s, u))
<1>1. PICK t \in Seq(Units) : t = Append(s, u)
  BY AppendProperties
<1>2. /\ Len(s) \in Nat /\ Len(t) = Len(s) + 1 /\ t[Len(s) + 1] = u
      /\ \A i \in 1 .. Len(s) : t[i] = s[i]
  BY <1>1
<1>3. ASSUME NEW i \in 1 .. Len(t) PROVE Genuine(os, t[i]) /\ t[i].way = "request"
  <2>1. CASE i \in 1 .. Len(s)
    BY <1>2, <2>1 DEF Requests, AllGenuine
  <2>2. CASE i = Len(s) + 1
    BY <1>2, <2>2
  <2>3. QED
    BY <1>2, <2>1, <2>2
<1>4. ASSUME NEW i \in 1 .. Len(t), NEW j \in 1 .. Len(t), i < j PROVE Before(t[i], t[j])
  <2>1. i \in 1 .. Len(s)
    BY <1>2, <1>4
  <2>2. CASE j \in 1 .. Len(s)
    BY <1>2, <1>4, <2>1, <2>2 DEF Requests, InOrder
  <2>3. CASE j = Len(s) + 1
    BY <1>2, <2>1, <2>3
  <2>4. QED
    BY <1>2, <2>2, <2>3
<1>5. QED
  BY <1>1, <1>3, <1>4 DEF Requests, AllGenuine, InOrder

(* A unit is sent where the request before it goes on or has ended. *)
LEMMA UnbrokenAppend ==
  ASSUME NEW os, NEW s \in Seq(Units), NEW u \in Units, Unbroken(os, s),
         IF Len(s) > 0 /\ s[Len(s)].pos < Whole(os, s[Len(s)]) THEN Follows(s[Len(s)], u)
                                                               ELSE u.pos = 1
  PROVE  Unbroken(os, Append(s, u))
<1>1. PICK t \in Seq(Units) : t = Append(s, u)
  BY AppendProperties
<1>2. /\ Len(s) \in Nat /\ Len(t) = Len(s) + 1 /\ t[Len(s) + 1] = u
      /\ \A i \in 1 .. Len(s) : t[i] = s[i]
  BY <1>1
<1>3. t[1].pos = 1
  <2>1. CASE Len(s) = 0
    BY <1>2, <2>1
  <2>2. CASE Len(s) > 0
    <3>1. 1 \in 1 .. Len(s) /\ s[1].pos = 1
      BY <1>2, <2>2 DEF Unbroken
    <3>2. QED
      BY <1>2, <3>1
  <2>3. QED
    BY <1>2, <2>1, <2>2
<1>4. ASSUME NEW i \in 1 .. Len(t) - 1
      PROVE  IF t[i].pos < Whole(os, t[i]) THEN Follows(t[i], t[i + 1]) ELSE t[i + 1].pos = 1
  <2>1. i \in 1 .. Len(s) /\ t[i] = s[i]
    BY <1>2
  <2>2. CASE i = Len(s)
    <3>1. t[i + 1] = u /\ Len(s) > 0
      BY <1>2, <2>1, <2>2
    <3>2. QED
      BY <2>1, <2>2, <3>1
  <2>3. CASE i # Len(s)
    <3>1. i \in 1 .. Len(s) - 1 /\ i + 1 \in 1 .. Len(s)
      BY <1>2, <2>1, <2>3
    <3>2. t[i + 1] = s[i + 1]
      BY <1>2, <3>1
    <3>3. QED
      BY <2>1, <3>1, <3>2 DEF Unbroken
  <2>4. QED
    BY <2>2, <2>3
<1>5. QED
  BY <1>1, <1>3, <1>4 DEF Unbroken

(* Streams put together. *)
LEMMA Joined ==
  ASSUME NEW a \in Seq(Units), NEW b \in Seq(Units)
  PROVE  /\ a \o b \in Seq(Units) /\ Len(a) \in Nat /\ Len(b) \in Nat
         /\ Len(a \o b) = Len(a) + Len(b)
         /\ \A i \in 1 .. Len(a) : (a \o b)[i] = a[i]
         /\ \A i \in 1 .. Len(b) : (a \o b)[i + Len(a)] = b[i]
         /\ After(b, a \o b, Len(a))
<1>1. PICK t \in Seq(Units) : t = a \o b
  BY ConcatProperties
<1>2. /\ Len(a) \in Nat /\ Len(b) \in Nat /\ Len(t) = Len(a) + Len(b)
      /\ \A i \in 1 .. Len(a) + Len(b) : t[i] = IF i <= Len(a) THEN a[i] ELSE b[i - Len(a)]
  BY <1>1, ConcatProperties
<1>3. \A i \in 1 .. Len(a) : t[i] = a[i]
  BY <1>2
<1>4. ASSUME NEW i \in 1 .. Len(b) PROVE t[i + Len(a)] = b[i]
  <2>1. i + Len(a) \in 1 .. Len(a) + Len(b) /\ ~(i + Len(a) <= Len(a)) /\ (i + Len(a)) - Len(a) = i
    BY <1>2
  <2>2. QED
    BY <1>2, <2>1
<1>5. After(b, t, Len(a))
  BY <1>2, <1>4 DEF After
<1>6. QED
  BY <1>1, <1>2, <1>3, <1>4, <1>5

(* Where a response lost its end the next packet begins. *)
LEMMA GoesOnGrown ==
  ASSUME NEW s \in Seq(Units), NEW q \in Seq(Units), NEW i \in 1 .. Len(s), GoesOn(s, i),
         Len(q) >= 2, q[1].pos = 1, q[2].pos = 2
  PROVE  GoesOn(s \o q, i)
<1>1. PICK t : t = s \o q
  OBVIOUS
<1>2. PICK n \in Nat : n = Len(s) /\ i \in 1 .. n
  OBVIOUS
<1>3. /\ \A k \in 1 .. n : t[k] = s[k]
      /\ \A k \in 1 .. Len(q) : t[k + n] = q[k]
  BY <1>1, <1>2, Joined
<1>4. t[n + 1] = q[1] /\ t[n + 2] = q[2]
  <2>1. 1 \in 1 .. Len(q) /\ 2 \in 1 .. Len(q) /\ 1 + n = n + 1 /\ 2 + n = n + 2
    OBVIOUS
  <2>2. QED
    BY <1>3, <2>1
<1>5. CASE i = n
  <2>1. t[i + 1].pos = 1 /\ t[i + 2].pos <= 2
    BY <1>4, <1>5
  <2>2. QED
    BY <1>1, <2>1 DEF GoesOn
<1>6. CASE i = n - 1
  <2>1. i \in 1 .. n /\ i + 1 \in 1 .. n /\ i + 2 = n + 1 /\ i < n
    BY <1>2, <1>6
  <2>2. t[i] = s[i] /\ t[i + 1] = s[i + 1] /\ t[i + 2].pos = 1
    BY <1>3, <1>4, <2>1
  <2>3. Follows(s[i], s[i + 1]) \/ s[i + 1].pos = 1
    BY <1>2, <2>1 DEF GoesOn
  <2>4. QED
    BY <1>1, <2>2, <2>3 DEF GoesOn
<1>7. CASE i < n - 1
  <2>1. i \in 1 .. n /\ i + 1 \in 1 .. n /\ i + 2 \in 1 .. n /\ i < n /\ i + 1 < n
    BY <1>2, <1>7
  <2>2. t[i] = s[i] /\ t[i + 1] = s[i + 1] /\ t[i + 2] = s[i + 2]
    BY <1>3, <2>1
  <2>3. Follows(s[i], s[i + 1]) \/ (s[i + 1].pos = 1 /\ s[i + 2].pos <= 2)
    BY <1>2, <2>1 DEF GoesOn
  <2>4. QED
    BY <1>1, <2>2, <2>3 DEF GoesOn
<1>8. QED
  BY <1>2, <1>5, <1>6, <1>7

(* Units of requests go back to the client, from a size on. *)
LEMMA ResponsesEcho ==
  ASSUME NEW os, NEW s \in Seq(Units), NEW q \in Seq(Units), Responses(os, s),
         Len(q) >= 2, q[1].pos = 1, q[2].pos = 2,
         \A i \in 1 .. Len(q) : Genuine(os, q[i]) /\ ~IsResp(q[i])
  PROVE  Responses(os, s \o q)
<1>1. PICK t \in Seq(Units) : t = s \o q
  BY ConcatProperties
<1>2. /\ Len(s) \in Nat /\ Len(q) \in Nat /\ Len(t) = Len(s) + Len(q)
      /\ \A i \in 1 .. Len(s) : t[i] = s[i]
      /\ \A i \in 1 .. Len(t) : i > Len(s) => i - Len(s) \in 1 .. Len(q) /\ t[i] = q[i - Len(s)]
  BY <1>1
<1>3. ASSUME NEW i \in 1 .. Len(t) PROVE Genuine(os, t[i]) /\ (IsResp(t[i]) => i \in 1 .. Len(s))
  <2>1. CASE i \in 1 .. Len(s)
    BY <1>2, <2>1 DEF Responses, AllGenuine
  <2>2. CASE i > Len(s)
    BY <1>2, <2>2
  <2>3. QED
    BY <1>2, <2>1, <2>2
<1>4. ASSUME NEW i \in 1 .. Len(t), NEW j \in 1 .. Len(t), i < j, IsResp(t[i]), IsResp(t[j])
      PROVE  Before(t[i], t[j])
  <2>1. i \in 1 .. Len(s) /\ j \in 1 .. Len(s)
    BY <1>3, <1>4
  <2>2. QED
    BY <1>2, <1>4, <2>1 DEF Responses
<1>5. ASSUME NEW i \in 1 .. Len(t), IsResp(t[i]), t[i].pos < Whole(os, t[i])
      PROVE  GoesOn(t, i)
  <2>1. i \in 1 .. Len(s) /\ t[i] = s[i]
    BY <1>2, <1>3, <1>5
  <2>2. GoesOn(s, i)
    BY <1>5, <2>1 DEF Responses
  <2>3. QED
    BY <1>1, <2>1, <2>2, GoesOnGrown
<1>6. ASSUME NEW i \in 1 .. Len(t), IsResp(t[i]), t[i].pos > 1, i > 1
      PROVE  Follows(t[i - 1], t[i])
  <2>1. i \in 1 .. Len(s) /\ t[i] = s[i]
    BY <1>2, <1>3, <1>6
  <2>2. Follows(s[i - 1], s[i])
    BY <1>6, <2>1 DEF Responses
  <2>3. i - 1 \in 1 .. Len(s)
    BY <1>2, <1>6, <2>1
  <2>4. QED
    BY <1>2, <2>1, <2>2, <2>3
<1>7. QED
  BY <1>1, <1>3, <1>4, <1>5, <1>6 DEF Responses, AllGenuine

(* The packets that are sent. *)
LEMMA PacketUnits ==
  ASSUME NEW os \in Seq(Operations), NEW c \in 1 .. Len(os), NEW ks, NEW w \in Ways,
         ks = IF w = "request" THEN RequestOf(os[c]) ELSE ResponseOf(os[c])
  PROVE  /\ Packet(ks, c, w) \in Seq(Units) /\ Len(Packet(ks, c, w)) = Len(ks)
         /\ Len(ks) \in Nat /\ Len(ks) >= 4 /\ Len(ks) <= 7
         /\ \A i \in 1 .. Len(ks) :
              /\ Packet(ks, c, w)[i] = [kind |-> ks[i], call |-> c, way |-> w, pos |-> i]
              /\ Packet(ks, c, w)[i] \in Units
              /\ Genuine(os, Packet(ks, c, w)[i])
<1>1. os[c] \in Operations /\ c \in Nat
  OBVIOUS
<1>2. Layout(ks)
  BY <1>1, RequestLayout, ResponseLayout DEF Ways
<1>3. PICK n \in Nat : n = Len(ks) /\ n >= 4 /\ n <= 7
  BY <1>2 DEF Layout
<1>4. PICK q : q = Packet(ks, c, w)
  OBVIOUS
<1>5. q = [k \in 1 .. n |-> [kind |-> ks[k], call |-> c, way |-> w, pos |-> k]]
  BY <1>3, <1>4 DEF Packet
<1>6. \A k \in 1 .. n : ks[k] \in Kinds
  BY <1>2, <1>3 DEF Layout
<1>7. ASSUME NEW i \in 1 .. n
      PROVE  /\ q[i] = [kind |-> ks[i], call |-> c, way |-> w, pos |-> i]
             /\ q[i] \in Units
             /\ Genuine(os, q[i])
  <2>1. q[i] = [kind |-> ks[i], call |-> c, way |-> w, pos |-> i]
    BY <1>5
  <2>2. i \in 1 .. 7
    BY <1>3
  <2>3. q[i] \in Units
    BY <1>1, <1>6, <2>1, <2>2 DEF Units, AnyKind
  <2>4. KindsOf(os, q[i]) = ks
    BY <2>1 DEF KindsOf
  <2>5. Genuine(os, q[i])
    BY <1>3, <2>1, <2>4 DEF Genuine, Whole
  <2>6. QED
    BY <2>1, <2>3, <2>5
<1>8. q \in [1 .. n -> Units]
  BY <1>5, <1>7
<1>9. q \in Seq(Units) /\ Len(q) = n
  BY <1>8
<1>10. QED
  BY <1>3, <1>4, <1>7, <1>9

(* The answer to call c: a response, or what is sent after a read failed. *)
IsAnswer(os, q, c) ==
  \/ q = Packet(ResponseOf(os[c]), c, "response")
  \/ os[c] = "read" /\ q = Packet(FailureOf, c, "response")

(* A function on 1 .. n is a sequence of n units. *)
LEMMA UnitsInRow ==
  ASSUME NEW n \in Nat, NEW q \in [1 .. n -> Units]
  PROVE  q \in Seq(Units) /\ Len(q) = n
OBVIOUS

(* Its units. *)
LEMMA AnswerUnits ==
  ASSUME NEW os \in Seq(Operations), NEW c \in 1 .. Len(os), NEW q, IsAnswer(os, q, c)
  PROVE  /\ q \in Seq(Units) /\ Len(q) = Len(ResponseOf(os[c]))
         /\ Len(q) \in Nat /\ Len(q) >= 4
         /\ \A i \in 1 .. Len(q) :
              /\ q[i].call = c /\ q[i].way = "response" /\ q[i].pos = i /\ Genuine(os, q[i])
              /\ q[i].kind = "lost" => q # Packet(ResponseOf(os[c]), c, "response")
<1>1. CASE q = Packet(ResponseOf(os[c]), c, "response")
  <2>1. PICK ks : ks = ResponseOf(os[c])
    OBVIOUS
  <2>2. PICK w \in Ways : w = "response"
    BY DEF Ways
  <2>3. q = Packet(ks, c, w) /\ ks = IF w = "request" THEN RequestOf(os[c]) ELSE ResponseOf(os[c])
    BY <1>1, <2>1, <2>2
  <2>4. /\ q \in Seq(Units) /\ Len(q) = Len(ks) /\ Len(ks) \in Nat /\ Len(ks) >= 4
        /\ \A i \in 1 .. Len(ks) :
             q[i] = [kind |-> ks[i], call |-> c, way |-> w, pos |-> i] /\ Genuine(os, q[i])
    BY <2>3, PacketUnits
  <2>5. os[c] \in Operations
    OBVIOUS
  <2>6. \A i \in 1 .. Len(ks) : ks[i] \in Kinds
    BY <2>1, <2>5, ResponseLayout DEF Layout
  <2>7. ASSUME NEW i \in 1 .. Len(ks)
        PROVE  /\ q[i].call = c /\ q[i].way = "response" /\ q[i].pos = i /\ Genuine(os, q[i])
               /\ q[i].kind # "lost"
    <3>1. q[i] = [kind |-> ks[i], call |-> c, way |-> w, pos |-> i] /\ Genuine(os, q[i])
      BY <2>4
    <3>2. ks[i] # "lost"
      BY <2>6 DEF Kinds
    <3>3. QED
      BY <2>2, <3>1, <3>2
  <2>8. QED
    BY <2>1, <2>4, <2>7
<1>2. CASE /\ q # Packet(ResponseOf(os[c]), c, "response")
           /\ os[c] = "read" /\ q = Packet(FailureOf, c, "response")
  <2>1. c \in Nat
    OBVIOUS
  <2>2. PICK ks : ks = FailureOf /\ ks = <<"mark", "len", "head", "mark", "lost">>
    BY DEF FailureOf
  <2>3. PICK rs : rs = ResponseOf(os[c]) /\ rs = <<"mark", "len", "head", "mark", "end">>
    BY <1>2 DEF ResponseOf
  <2>4. Len(ks) = 5 /\ Len(rs) = 5
    BY <2>2, <2>3
  <2>5. q = [k \in 1 .. 5 |-> [kind |-> ks[k], call |-> c, way |-> "response", pos |-> k]]
    BY <1>2, <2>2, <2>4 DEF Packet
  <2>6. ASSUME NEW i \in 1 .. 5
        PROVE  /\ q[i].call = c /\ q[i].way = "response" /\ q[i].pos = i
               /\ q[i] \in Units /\ Genuine(os, q[i])
    <3>1. q[i] = [kind |-> ks[i], call |-> c, way |-> "response", pos |-> i]
      BY <2>5
    <3>2. ks[i] \in AnyKind /\ (ks[i] = rs[i] \/ (i = 5 /\ ks[i] = "lost"))
      <4>1. i = 1 \/ i = 2 \/ i = 3 \/ i = 4 \/ i = 5
        OBVIOUS
      <4>2. QED
        BY <2>2, <2>3, <4>1 DEF AnyKind, Kinds
    <3>3. q[i] \in Units
      BY <2>1, <3>1, <3>2 DEF Units, Ways
    <3>4. KindsOf(os, q[i]) = rs /\ Whole(os, q[i]) = 5
      <4>1. q[i].call = c /\ q[i].way = "response"
        BY <3>1
      <4>2. KindsOf(os, q[i]) = rs
        BY <2>3, <4>1 DEF KindsOf
      <4>3. QED
        BY <2>4, <4>2 DEF Whole
    <3>5. Genuine(os, q[i])
      BY <3>1, <3>2, <3>4 DEF Genuine
    <3>6. QED
      BY <3>1, <3>3, <3>5
  <2>7. q \in [1 .. 5 -> Units]
    BY <2>5, <2>6
  <2>8. q \in Seq(Units) /\ Len(q) = 5
    <3>1. 5 \in Nat
      OBVIOUS
    <3>2. QED
      BY <2>7, <3>1, UnitsInRow
  <2>9. Len(q) = Len(ResponseOf(os[c])) /\ Len(q) \in Nat /\ Len(q) >= 4
    BY <2>3, <2>4, <2>8
  <2>10. ASSUME NEW i \in 1 .. Len(q)
         PROVE  /\ q[i].call = c /\ q[i].way = "response" /\ q[i].pos = i /\ Genuine(os, q[i])
                /\ q[i].kind = "lost" => q # Packet(ResponseOf(os[c]), c, "response")
    <3>1. i \in 1 .. 5
      BY <2>8
    <3>2. QED
      BY <1>2, <2>6, <3>1
  <2>11. QED
    BY <2>8, <2>9, <2>10
<1>3. QED
  BY <1>1, <1>2 DEF IsAnswer

(* A place k behind the first d ones. *)
LEMMA Behind ==
  \A n \in Nat : \A d : d \in Nat => \A w : w = d + n =>
    \A k : k \in 1 .. w /\ k > d => k - d \in 1 .. n /\ (k - d) + d = k
OBVIOUS

(* The server answers call c, later than the calls answered before. *)
LEMMA ResponsesAnswer ==
  ASSUME NEW os \in Seq(Operations), NEW s \in Seq(Units), NEW c \in 1 .. Len(os), NEW q,
         Responses(os, s), IsAnswer(os, q, c),
         \A i \in 1 .. Len(s) : IsResp(s[i]) => s[i].call < c
  PROVE  Responses(os, s \o q)
<1>1. PICK n \in Nat : n = Len(ResponseOf(os[c])) /\ n >= 4
  BY AnswerUnits
<1>2. /\ q \in Seq(Units) /\ Len(q) = n
      /\ \A i \in 1 .. n :
           q[i].call = c /\ q[i].way = "response" /\ q[i].pos = i /\ Genuine(os, q[i])
  BY <1>1, AnswerUnits
<1>3. \A i \in 1 .. n : Whole(os, q[i]) = n
  BY <1>1, <1>2 DEF Whole, KindsOf
<1>4. PICK t \in Seq(Units) : t = s \o q
  BY <1>2, ConcatProperties
<1>5. /\ Len(s) \in Nat /\ Len(t) = Len(s) + n
      /\ \A i \in 1 .. Len(s) : t[i] = s[i]
      /\ \A i \in 1 .. Len(t) : i > Len(s) => i - Len(s) \in 1 .. n /\ t[i] = q[i - Len(s)]
  <2>1. q \in Seq(Units) /\ Len(q) = n
    BY <1>2
  <2>2. /\ Len(s \o q) = Len(s) + Len(q)
        /\ \A i \in 1 .. Len(s) + Len(q) :
             (s \o q)[i] = IF i <= Len(s) THEN s[i] ELSE q[i - Len(s)]
    BY <2>1, ConcatProperties, Zenon
  <2>3. /\ Len(t) = Len(s) + n
        /\ \A i \in 1 .. Len(s) + n : t[i] = IF i <= Len(s) THEN s[i] ELSE q[i - Len(s)]
    BY <1>4, <2>1, <2>2, Zenon
  <2>4. Len(s) \in Nat
    OBVIOUS
  <2>5. QED
    BY <2>3, <2>4
<1>6. ASSUME NEW i \in 1 .. Len(t) PROVE Genuine(os, t[i])
  <2>1. CASE i \in 1 .. Len(s)
    BY <1>5, <2>1 DEF Responses, AllGenuine
  <2>2. CASE i > Len(s)
    BY <1>2, <1>5, <2>2
  <2>3. QED
    BY <1>5, <2>1, <2>2
<1>7. ASSUME NEW i \in 1 .. Len(t), NEW j \in 1 .. Len(t), i < j, IsResp(t[i]), IsResp(t[j])
      PROVE  Before(t[i], t[j])
  <2>1. CASE i \in 1 .. Len(s) /\ j \in 1 .. Len(s)
    BY <1>5, <1>7, <2>1 DEF Responses
  <2>2. CASE i \in 1 .. Len(s) /\ j > Len(s)
    <3>1. t[i] = s[i] /\ t[j].call = c
      BY <1>2, <1>5, <2>2
    <3>2. s[i].call < c
      BY <1>7, <2>2, <3>1
    <3>3. QED
      BY <3>1, <3>2 DEF Before
  <2>3. CASE i > Len(s) /\ j > Len(s)
    <3>1. t[i].call = c /\ t[j].call = c /\ t[i].pos = i - Len(s) /\ t[j].pos = j - Len(s)
      <4>1. PICK a \in 1 .. n : a = i - Len(s) /\ t[i] = q[a]
        BY <1>5, <2>3, Zenon
      <4>2. PICK b \in 1 .. n : b = j - Len(s) /\ t[j] = q[b]
        BY <1>5, <2>3, Zenon
      <4>3. q[a].call = c /\ q[a].pos = a /\ q[b].call = c /\ q[b].pos = b
        BY <1>2, Zenon
      <4>4. QED
        BY <4>1, <4>2, <4>3, Zenon
    <3>2. i - Len(s) < j - Len(s)
      BY <1>5, <1>7
    <3>3. QED
      BY <3>1, <3>2 DEF Before
  <2>4. QED
    BY <1>5, <1>7, <2>1, <2>2, <2>3
<1>8. ASSUME NEW i \in 1 .. Len(t), IsResp(t[i]), t[i].pos < Whole(os, t[i])
      PROVE  GoesOn(t, i)
  <2>1. CASE i \in 1 .. Len(s)
    <3>1. GoesOn(s, i)
      BY <1>5, <1>8, <2>1 DEF Responses
    <3>2. 1 \in 1 .. n /\ 2 \in 1 .. n /\ Len(q) >= 2
      BY <1>1, <1>2
    <3>3. q[1].pos = 1 /\ q[2].pos = 2
      BY <1>2, <3>2
    <3>4. QED
      BY <1>2, <1>4, <2>1, <3>1, <3>2, <3>3, GoesOnGrown
  <2>2. CASE i > Len(s)
    <3>1. i - Len(s) \in 1 .. n /\ t[i] = q[i - Len(s)]
      BY <1>5, <2>2
    <3>2. i - Len(s) < n
      BY <1>2, <1>3, <1>8, <3>1
    <3>3. i + 1 \in 1 .. Len(t) /\ i + 1 > Len(s) /\ i < Len(t)
      BY <1>5, <2>2, <3>2
    <3>4. t[i + 1] = q[(i + 1) - Len(s)] /\ (i + 1) - Len(s) \in 1 .. n
      BY <1>5, <3>3
    <3>5. (i + 1) - Len(s) = (i - Len(s)) + 1
      BY <1>5
    <3>6. PICK a \in 1 .. n : a = i - Len(s) /\ t[i] = q[a]
      BY <3>1, Zenon
    <3>7. PICK b \in 1 .. n : b = a + 1 /\ t[i + 1] = q[b]
      BY <3>4, <3>5, <3>6, Zenon
    <3>8. /\ q[a].way = "response" /\ q[a].call = c /\ q[a].pos = a
          /\ q[b].way = "response" /\ q[b].call = c /\ q[b].pos = b
      BY <1>2, Zenon
    <3>9. Follows(t[i], t[i + 1])
      BY <3>6, <3>7, <3>8, Zenon DEF Follows
    <3>10. QED
      BY <3>9 DEF GoesOn
  <2>3. QED
    BY <1>5, <2>1, <2>2
<1>9. ASSUME NEW i \in 1 .. Len(t), IsResp(t[i]), t[i].pos > 1, i > 1
      PROVE  Follows(t[i - 1], t[i])
  <2>1. CASE i \in 1 .. Len(s)
    <3>1. Follows(s[i - 1], s[i])
      BY <1>5, <1>9, <2>1 DEF Responses
    <3>2. i - 1 \in 1 .. Len(s)
      BY <1>5, <1>9, <2>1
    <3>3. QED
      BY <1>5, <2>1, <3>1, <3>2
  <2>2. CASE i > Len(s)
    <3>1. i - Len(s) \in 1 .. n /\ t[i] = q[i - Len(s)]
      BY <1>5, <2>2
    <3>2. i - Len(s) > 1
      BY <1>2, <1>9, <3>1
    <3>3. i - 1 \in 1 .. Len(t) /\ i - 1 > Len(s)
      BY <1>5, <2>2, <3>2
    <3>4. t[i - 1] = q[(i - 1) - Len(s)] /\ (i - 1) - Len(s) \in 1 .. n
      BY <1>5, <3>3
    <3>5. ((i - 1) - Len(s)) + 1 = i - Len(s)
      BY <1>5
    <3>6. PICK a \in 1 .. n : a = i - Len(s) /\ t[i] = q[a]
      BY <3>1, Zenon
    <3>7. PICK b \in 1 .. n : b + 1 = a /\ t[i - 1] = q[b]
      BY <3>4, <3>5, <3>6, Zenon
    <3>8. /\ q[a].way = "response" /\ q[a].call = c /\ q[a].pos = a
          /\ q[b].way = "response" /\ q[b].call = c /\ q[b].pos = b
      BY <1>2, Zenon
    <3>9. QED
      BY <3>6, <3>7, <3>8, Zenon DEF Follows
  <2>3. QED
    BY <1>5, <2>1, <2>2
<1>10. QED
  BY <1>4, <1>6, <1>7, <1>8, <1>9 DEF Responses, AllGenuine

(* A further call leaves the packets of earlier ones as they are. *)
LEMMA OneMoreCall ==
  ASSUME NEW os \in Seq(Operations), NEW o \in Operations, NEW s \in Seq(Units),
         AllGenuine(os, s)
  PROVE  /\ AllGenuine(Append(os, o), s)
         /\ \A i \in 1 .. Len(s) : Whole(Append(os, o), s[i]) = Whole(os, s[i])
<1>1. PICK os2 : os2 = Append(os, o)
  OBVIOUS
<1>2. Len(os) \in Nat /\ Len(os2) = Len(os) + 1 /\ \A c \in 1 .. Len(os) : os2[c] = os[c]
  BY <1>1
<1>3. ASSUME NEW i \in 1 .. Len(s)
      PROVE  Genuine(os2, s[i]) /\ Whole(os2, s[i]) = Whole(os, s[i])
  <2>1. Genuine(os, s[i]) /\ s[i].call \in 1 .. Len(os)
    BY DEF AllGenuine, Genuine
  <2>2. os2[s[i].call] = os[s[i].call] /\ s[i].call \in 1 .. Len(os2)
    BY <1>2, <2>1
  <2>3. KindsOf(os2, s[i]) = KindsOf(os, s[i])
    BY <2>2 DEF KindsOf
  <2>4. QED
    BY <2>1, <2>2, <2>3 DEF Genuine, Whole
<1>4. QED
  BY <1>1, <1>3 DEF AllGenuine

(* The units in places 1, 2, ... of the packets of one call are a packet.   *)
IsPlaced(s, k, c, w) == s[k].call = c /\ s[k].way = w /\ s[k].pos = k

(* The length of the packet such a unit belongs to. *)
LEMMA PlacedWhole ==
  ASSUME NEW os, NEW s, NEW k, NEW c, NEW w, IsPlaced(s, k, c, w)
  PROVE  Whole(os, s[k]) = Len(IF w = "request" THEN RequestOf(os[c]) ELSE ResponseOf(os[c]))
BY DEF IsPlaced, Whole, KindsOf

(* All of them, in order, are the packet. *)
LEMMA PlacedIsPacket ==
  ASSUME NEW os \in Seq(Operations), NEW c \in 1 .. Len(os), NEW ks, NEW w \in Ways,
         ks = IF w = "request" THEN RequestOf(os[c]) ELSE ResponseOf(os[c]),
         NEW p \in Seq(Units), Len(p) = Len(ks), AllGenuine(os, p),
         \A k \in 1 .. Len(ks) : IsPlaced(p, k, c, w) /\ p[k].kind # "lost"
  PROVE  p = Packet(ks, c, w)
<1>1. PICK q \in Seq(Units) : q = Packet(ks, c, w) /\ Len(q) = Len(ks) /\ Len(ks) \in Nat
  BY PacketUnits
<1>2. ASSUME NEW k \in 1 .. Len(p) PROVE p[k] = q[k]
  <2>1. q[k] = [kind |-> ks[k], call |-> c, way |-> w, pos |-> k]
    BY <1>1, PacketUnits
  <2>2. Genuine(os, p[k]) /\ IsPlaced(p, k, c, w) /\ p[k].kind # "lost"
    BY DEF AllGenuine
  <2>3. p[k].kind = ks[k] /\ p[k].call = c /\ p[k].way = w /\ p[k].pos = k
    BY <2>2 DEF Genuine, IsPlaced, KindsOf
  <2>4. p[k] \in Units
    OBVIOUS
  <2>5. QED
    BY <2>1, <2>3, <2>4 DEF Units
<1>3. QED
  BY <1>1, <1>2, SeqEqual

(* The first request under way when none was cut. *)
LEMMA FirstRequest ==
  ASSUME NEW os \in Seq(Operations), NEW s \in Seq(Units), Requests(os, s), Unbroken(os, s),
         Len(s) > 0, Len(s) >= Whole(os, s[1])
  PROVE  \A k \in 1 .. Whole(os, s[1]) : IsPlaced(s, k, s[1].call, "request")
<1>1. PICK c : c = s[1].call
  OBVIOUS
<1>2. /\ Len(s) \in Nat /\ 1 \in 1 .. Len(s) /\ s[1] \in Units /\ Genuine(os, s[1])
      /\ s[1].way = "request" /\ s[1].pos = 1
  BY DEF Requests, AllGenuine, Unbroken
<1>3. PICK n \in Nat : n = Whole(os, s[1]) /\ n >= 4 /\ n <= 7
  BY <1>2, GenuineUnit
<1>4. IsPlaced(s, 1, c, "request")
  BY <1>1, <1>2 DEF IsPlaced
<1>5. n = Len(RequestOf(os[c]))
  BY <1>3, <1>4, PlacedWhole
<1>6. ASSUME NEW k \in 1 .. 7, k < n, IsPlaced(s, k, c, "request")
      PROVE  IsPlaced(s, k + 1, c, "request")
  <2>1. Whole(os, s[k]) = n
    BY <1>5, <1>6, PlacedWhole
  <2>2. k \in 1 .. Len(s) - 1
    BY <1>2, <1>3, <1>6
  <2>3. s[k].pos < Whole(os, s[k])
    BY <1>6, <2>1 DEF IsPlaced
  <2>4. Follows(s[k], s[k + 1])
    BY <2>2, <2>3 DEF Unbroken
  <2>5. QED
    BY <1>6, <2>4 DEF Follows, IsPlaced
<1>7. /\ IsPlaced(s, 2, c, "request") /\ IsPlaced(s, 3, c, "request")
      /\ IsPlaced(s, 4, c, "request")
  <2>1. IsPlaced(s, 1 + 1, c, "request")
    BY <1>3, <1>4, <1>6
  <2>2. IsPlaced(s, 2 + 1, c, "request")
    BY <1>3, <1>6, <2>1
  <2>3. IsPlaced(s, 3 + 1, c, "request")
    BY <1>3, <1>6, <2>2
  <2>4. QED
    BY <2>1, <2>2, <2>3
<1>8. n > 4 => IsPlaced(s, 5, c, "request")
  <2>1. n > 4 => IsPlaced(s, 4 + 1, c, "request")
    BY <1>6, <1>7
  <2>2. QED
    BY <2>1
<1>9. n > 5 => IsPlaced(s, 6, c, "request")
  <2>1. n > 5 => IsPlaced(s, 5 + 1, c, "request")
    BY <1>6, <1>8
  <2>2. QED
    BY <2>1
<1>10. n > 6 => IsPlaced(s, 7, c, "request")
  <2>1. n > 6 => IsPlaced(s, 6 + 1, c, "request")
    BY <1>6, <1>9
  <2>2. QED
    BY <2>1
<1>11. ASSUME NEW k \in 1 .. n PROVE IsPlaced(s, k, c, "request")
  <2>1. k = 1 \/ k = 2 \/ k = 3 \/ k = 4 \/ (k = 5 /\ n > 4) \/ (k = 6 /\ n > 5) \/ (k = 7 /\ n > 6)
    BY <1>3
  <2>2. QED
    BY <1>4, <1>7, <1>8, <1>9, <1>10, <2>1
<1>12. QED
  BY <1>1, <1>3, <1>11

(* A response whose head is in the third place is there from its beginning, *)
(* and, if the unit where it is to end is an end, whole.                    *)
LEMMA FirstResponse ==
  ASSUME NEW os \in Seq(Operations), NEW s \in Seq(Units), Responses(os, s),
         Len(s) >= 3, IsResp(s[3]), s[3].kind = "head",
         NEW n \in Nat, n = Whole(os, s[3]), Len(s) >= n, s[n].kind = "end"
  PROVE  \A k \in 1 .. n : IsPlaced(s, k, s[3].call, "response") /\ s[k].kind # "lost"
<1>1. PICK c : c = s[3].call
  OBVIOUS
<1>2. Len(s) \in Nat /\ 1 \in 1 .. Len(s) /\ 2 \in 1 .. Len(s) /\ 3 \in 1 .. Len(s)
  OBVIOUS
<1>3. s[3] \in Units /\ Genuine(os, s[3])
  BY <1>2 DEF Responses, AllGenuine
<1>4. n = 4 \/ n = 5
  BY <1>3, GenuineUnit DEF IsResp
<1>5. IsPlaced(s, 3, c, "response")
  BY <1>1, <1>3, GenuineUnit DEF IsPlaced, IsResp
<1>6. n = Len(ResponseOf(os[c]))
  BY <1>5, PlacedWhole
<1>7. IsPlaced(s, 2, c, "response")
  <2>1. Follows(s[3 - 1], s[3])
    BY <1>2, <1>5 DEF Responses, IsPlaced
  <2>2. s[2] \in Units
    BY <1>2
  <2>3. QED
    BY <1>5, <2>1, <2>2 DEF Follows, IsPlaced, Units
<1>8. IsPlaced(s, 1, c, "response")
  <2>1. s[2].pos = 2 /\ s[2].call = c /\ s[2].way = "response"
    BY <1>7 DEF IsPlaced
  <2>2. Follows(s[2 - 1], s[2])
    BY <1>2, <2>1 DEF Responses, IsResp
  <2>3. s[1].call = c /\ s[1].way = "response" /\ 2 = s[1].pos + 1
    BY <2>1, <2>2 DEF Follows
  <2>4. s[1].pos \in Nat
    <3>1. s[1] \in Units
      BY <1>2
    <3>2. QED
      BY <3>1 DEF Units
  <2>5. s[1].pos = 1
    BY ONLY <2>3, <2>4
  <2>6. QED
    BY <2>3, <2>5 DEF IsPlaced
<1>9. s[n].pos \in Nat /\ s[n].pos >= 4
  <2>1. n \in 1 .. Len(s)
    BY <1>2, <1>4
  <2>2. s[n] \in Units /\ Genuine(os, s[n])
    BY <2>1 DEF Responses, AllGenuine
  <2>3. QED
    BY <2>2, GenuineUnit
<1>10. IsPlaced(s, 4, c, "response")
  <2>1. GoesOn(s, 3)
    BY <1>2, <1>4, <1>5 DEF Responses, IsPlaced, IsResp
  <2>2. \/ Follows(s[3], s[3 + 1])
        \/ s[3 + 1].pos = 1 /\ (3 + 1 < Len(s) => s[3 + 2].pos <= 2)
    BY <1>2, <1>4, <2>1 DEF GoesOn
  <2>3. ~(s[4].pos = 1 /\ (4 < Len(s) => s[5].pos <= 2))
    BY <1>2, <1>4, <1>9
  <2>4. Follows(s[3], s[4])
    BY <2>2, <2>3
  <2>5. QED
    BY <1>5, <2>4 DEF Follows, IsPlaced
<1>11. n = 5 => IsPlaced(s, 5, c, "response")
  <2>1. SUFFICES ASSUME n = 5 PROVE IsPlaced(s, 5, c, "response")
    OBVIOUS
  <2>2. 4 \in 1 .. Len(s) /\ 4 < Len(s)
    BY <1>2, <2>1
  <2>3. Whole(os, s[4]) = 5
    BY <1>6, <1>10, <2>1 DEF IsPlaced, Whole, KindsOf
  <2>4. GoesOn(s, 4)
    BY <1>10, <2>2, <2>3 DEF Responses, IsPlaced, IsResp
  <2>5. Follows(s[4], s[4 + 1]) \/ s[4 + 1].pos = 1
    BY <2>2, <2>4 DEF GoesOn
  <2>6. Follows(s[4], s[5])
    BY <1>9, <2>1, <2>5
  <2>7. QED
    BY <1>10, <2>6 DEF Follows, IsPlaced
<1>12. ASSUME NEW k \in 1 .. n PROVE IsPlaced(s, k, c, "response")
  <2>1. k = 1 \/ k = 2 \/ k = 3 \/ k = 4 \/ (k = 5 /\ n = 5)
    BY <1>4
  <2>2. QED
    BY <1>5, <1>7, <1>8, <1>10, <1>11, <2>1
<1>13. ASSUME NEW k \in 1 .. n PROVE s[k].kind # "lost"
  <2>1. SUFFICES ASSUME s[k].kind = "lost" PROVE FALSE
    OBVIOUS
  <2>2. k \in 1 .. Len(s)
    BY <1>2, <1>4
  <2>3. Genuine(os, s[k]) /\ s[k].way = "response" /\ s[k].pos = k /\ Whole(os, s[k]) = n
    <3>1. Genuine(os, s[k]) /\ IsPlaced(s, k, c, "response")
      BY <1>12, <2>2 DEF Responses, AllGenuine
    <3>2. QED
      BY <1>6, <3>1 DEF IsPlaced, Whole, KindsOf
  <2>4. s[k].pos # n
    BY <2>1, <2>3
  <2>5. PICK ks : ks = KindsOf(os, s[k])
    OBVIOUS
  <2>6. ks[k] = "lost" /\ k \in 1 .. Len(ks)
    BY <2>1, <2>3, <2>4, <2>5 DEF Genuine, Whole
  <2>7. Layout(ks)
    <3>1. os[c] \in Operations
      BY <1>1, <1>3, GenuineUnit
    <3>2. ks = ResponseOf(os[c])
      BY <1>12, <2>5 DEF IsPlaced, KindsOf
    <3>3. QED
      BY <3>1, <3>2, ResponseLayout
  <2>8. QED
    BY <2>6, <2>7 DEF Layout, Kinds
<1>14. QED
  BY <1>1, <1>12, <1>13

-----------------------------------------------------------------------------
(* What is left of streams. *)
(* Nothing is taken. *)
LEMMA AfterNothing ==
  ASSUME NEW s \in Seq(Units)
  PROVE  After(s, s, 0)
BY DEF After

(* Everything is taken. *)
LEMMA AfterEverything ==
  ASSUME NEW s \in Seq(Units)
  PROVE  After(<<>>, s, Len(s))
BY DEF After

(* One unit is taken. *)
LEMMA AfterTail ==
  ASSUME NEW s \in Seq(Units), s # <<>>
  PROVE  After(Tail(s), s, 1)
<1>1. Tail(s) \in Seq(Units) /\ Len(Tail(s)) = Len(s) - 1 /\ Len(s) \in Nat /\ Len(s) >= 1
  OBVIOUS
<1>2. \A i \in 1 .. Len(Tail(s)) : Tail(s)[i] = s[i + 1]
  BY HeadTailProperties
<1>3. QED
  BY <1>1, <1>2 DEF After

(* The first k units are taken. *)
LEMMA AfterSubSeq ==
  ASSUME NEW s \in Seq(Units), NEW k \in 0 .. Len(s)
  PROVE  After(SubSeq(s, k + 1, Len(s)), s, k)
<1>1. Len(s) \in Nat /\ k \in Nat /\ k <= Len(s)
  OBVIOUS
<1>2. \A i \in k + 1 .. Len(s) : s[i] \in Units
  BY <1>1
<1>3. PICK t : t = SubSeq(s, k + 1, Len(s))
  OBVIOUS
<1>4. /\ t \in Seq(Units)
      /\ Len(t) = IF k + 1 <= Len(s) THEN Len(s) - (k + 1) + 1 ELSE 0
      /\ \A i \in 1 .. Len(s) - (k + 1) + 1 : t[i] = s[(k + 1) + i - 1]
  BY <1>1, <1>2, <1>3, SubSeqProperties
<1>5. Len(t) = Len(s) - k
  BY <1>1, <1>4
<1>6. ASSUME NEW i \in 1 .. Len(t) PROVE t[i] = s[i + k]
  <2>1. i \in 1 .. Len(s) - (k + 1) + 1 /\ (k + 1) + i - 1 = i + k
    BY <1>1, <1>5
  <2>2. QED
    BY <1>4, <2>1
<1>7. QED
  BY <1>1, <1>3, <1>4, <1>5, <1>6 DEF After

(* Packets are put together in any order. *)
LEMMA UnitsAssociate == \A x, y, z \in Seq(Units) : (x \o y) \o z = x \o (y \o z)
BY ConcatAssociative

(* The two streams of a state. *)
LEMMA StreamTypes ==
  ASSUME TypeOK
  PROVE  /\ Inbound \in Seq(Units) /\ Outbound \in Seq(Units)
         /\ Len(Inbound) \in Nat /\ Len(Outbound) \in Nat
         /\ \A i \in 1 .. Len(Inbound) : Inbound[i] \in Units
         /\ \A i \in 1 .. Len(Outbound) : Outbound[i] \in Units
         /\ Len(Inbound) = Len(buf) + Len(line)
         /\ Len(Outbound) = Len(got) + Len(rx) + Len(back)
<1>1. /\ buf \in Seq(Units) /\ line \in Seq(Units) /\ got \in Seq(Units) /\ rx \in Seq(Units)
      /\ back \in Seq(Units)
  BY DEF TypeOK
<1>2. Inbound \in Seq(Units) /\ Len(Inbound) = Len(buf) + Len(line)
  BY <1>1, Joined DEF Inbound
<1>3. got \o rx \in Seq(Units) /\ Len(got \o rx) = Len(got) + Len(rx)
  BY <1>1, Joined
<1>4. Outbound \in Seq(Units) /\ Len(Outbound) = Len(got \o rx) + Len(back)
  BY <1>1, <1>3, Joined DEF Outbound
<1>5. QED
  BY <1>2, <1>3, <1>4

(* What Outbound is without what the client has read, or could read. *)
LEMMA OutboundAfter ==
  ASSUME NEW g \in Seq(Units), NEW r \in Seq(Units), NEW b \in Seq(Units)
  PROVE  /\ After(<<>> \o <<>> \o b, g \o r \o b, Len(g) + Len(r))
         /\ After(<<>> \o r \o b, g \o r \o b, Len(g))
         /\ g \o r \o b = g \o (r \o b)
         /\ r # <<>> => Append(g, Head(r)) \o Tail(r) \o b = g \o r \o b
<1>1. g \o r \in Seq(Units) /\ Len(g \o r) = Len(g) + Len(r) /\ r \o b \in Seq(Units)
  BY Joined
<1>2. <<>> \o <<>> \o b = b /\ <<>> \o r \o b = r \o b
  <2>1. <<>> \o <<>> = <<>> /\ <<>> \o b = b /\ <<>> \o r = r
    BY ConcatEmptySeq
  <2>2. QED
    BY <2>1
<1>3. After(b, (g \o r) \o b, Len(g \o r))
  BY <1>1, Joined
<1>4. g \o r \o b = g \o (r \o b)
  BY ConcatAssociative
<1>5. After(r \o b, g \o (r \o b), Len(g))
  BY <1>1, Joined
<1>6. ASSUME r # <<>> PROVE Append(g, Head(r)) \o Tail(r) \o b = g \o r \o b
  <2>1. Append(g, Head(r)) \o Tail(r) = g \o r
    BY <1>6
  <2>2. QED
    BY <2>1
<1>7. QED
  BY <1>1, <1>2, <1>3, <1>4, <1>5, <1>6

-----------------------------------------------------------------------------
(* How a step may change the history of the calls' ends. *)
SameAnswers == Answered' = Answered /\ \A c \in Answered : outcome'[c].of = outcome[c].of

(* A call ends: the history of the earlier ones stays. *)
LEMMA ReturnOutcome ==
  ASSUME TypeOK, NEW r, NEW d, outcome' = Append(outcome, [how |-> r, of |-> d])
  PROVE  /\ Len(outcome') = Len(outcome) + 1 /\ Len(outcome) \in Nat
         /\ \A c \in Returned : outcome'[c] = outcome[c]
         /\ outcome'[Len(outcome) + 1] = [how |-> r, of |-> d]
         /\ Returned' = Returned \cup {Len(outcome) + 1}
         /\ Answered' = IF r = "answered" THEN Answered \cup {Len(outcome) + 1} ELSE Answered
         /\ r # "answered" => SameAnswers
<1>1. outcome \in Seq(Outcomes)
  BY DEF TypeOK
<1>2. Len(outcome) \in Nat /\ Len(outcome') = Len(outcome) + 1
  BY <1>1
<1>3. \A c \in Returned : outcome'[c] = outcome[c]
  BY <1>1 DEF Returned
<1>4. outcome'[Len(outcome) + 1] = [how |-> r, of |-> d]
  BY <1>1
<1>5. Returned' = Returned \cup {Len(outcome) + 1}
  BY <1>2 DEF Returned
<1>6. outcome'[Len(outcome) + 1].how = r
  BY <1>4
<1>7. Answered' = IF r = "answered" THEN Answered \cup {Len(outcome) + 1} ELSE Answered
  BY <1>3, <1>5, <1>6 DEF Answered
<1>8. r # "answered" => SameAnswers
  BY <1>3, <1>7 DEF SameAnswers, Answered
<1>9. QED
  BY <1>2, <1>3, <1>4, <1>5, <1>7, <1>8

(* Steps by which units only leave the streams keep the bounds... *)
LEMMA BoundsKept ==
  ASSUME NEW m \in Nat, Bounds(m), ops' = ops, NEW k, NEW l,
         After(Inbound', Inbound, k), Within(Outbound', Outbound, l), SameAnswers,
         HeadIsOut => HeadIsOut', pc' # "idle" => pc # "idle" /\ sent' = sent
  PROVE  Bounds(m)'
<1>1. m <= This' /\ (~HeadIsOut' => m < This')
  BY DEF Bounds, This
<1>2. ASSUME NEW i \in 1 .. Len(Inbound')
      PROVE  /\ Inbound'[i].kind = "head" => m < Inbound'[i].call
             /\ Inbound'[i].call = This' /\ pc' # "idle" => Inbound'[i].pos <= sent'
  <2>1. i + k \in 1 .. Len(Inbound) /\ Inbound'[i] = Inbound[i + k]
    BY AfterIndex
  <2>2. QED
    BY <2>1 DEF Bounds, This
<1>3. ASSUME NEW i \in 1 .. Len(Outbound'), IsResp(Outbound'[i])
      PROVE  /\ Outbound'[i].call <= m
             /\ \A c \in Answered' : outcome'[c].of < Outbound'[i].call
  <2>1. i + l \in 1 .. Len(Outbound) /\ Outbound'[i] = Outbound[i + l]
    BY WithinIndex
  <2>2. QED
    BY <1>3, <2>1 DEF Bounds, SameAnswers
<1>4. \A c \in Answered' : outcome'[c].of <= m
  BY DEF Bounds, SameAnswers
<1>5. QED
  BY <1>1, <1>2, <1>3, <1>4 DEF Bounds, IsResp

(* ... and what is under way no older than a call that was given up. *)
LEMMA OldestKept ==
  ASSUME NEW e, OldestLate(e), NEW k, NEW l,
         After(Inbound', Inbound, k), Within(Outbound', Outbound, l)
  PROVE  OldestLate(e)'
<1>1. ASSUME NEW i \in 1 .. Len(Inbound') PROVE e <= Inbound'[i].call
  <2>1. i + k \in 1 .. Len(Inbound) /\ Inbound'[i] = Inbound[i + k]
    BY AfterIndex
  <2>2. QED
    BY <2>1 DEF OldestLate
<1>2. ASSUME NEW i \in 1 .. Len(Outbound') PROVE e <= Outbound'[i].call
  <2>1. i + l \in 1 .. Len(Outbound) /\ Outbound'[i] = Outbound[i + l]
    BY WithinIndex
  <2>2. QED
    BY <2>1 DEF OldestLate
<1>3. QED
  BY <1>1, <1>2 DEF OldestLate

(* The streams are still such streams. *)
LEMMA StreamsKept ==
  ASSUME Streams, ops' = ops, NEW k, NEW l,
         After(Inbound', Inbound, k), Within(Outbound', Outbound, l)
  PROVE  Streams'
BY RequestsAfter, ResponsesWithin DEF Streams

(* A step that ends no call. *)
LEMMA AnswersKept ==
  ASSUME Answers, UNCHANGED <<ops, outcome, quiet, late>>, failed \subseteq failed'
  PROVE  Answers'
BY DEF Answers, AnswerIsOwnOrLate, FailureHasCause, Returned, Answered

(* A call ends in failure: it was not made with nothing under way, or is    *)
(* given up, or its read failed.                                            *)
LEMMA AnswersFailed ==
  ASSUME IInv, pc # "idle", NEW r, r # "answered", NEW d,
         outcome' = Append(outcome, [how |-> r, of |-> d]), UNCHANGED <<ops, quiet, failed>>,
         late \subseteq late', late' \subseteq late \cup {This},
         This \in late' \/ This \notin quiet \/ This \in failed
  PROVE  Answers'
<1>1. /\ Len(outcome') = Len(outcome) + 1 /\ Len(outcome) \in Nat
      /\ \A c \in Returned : outcome'[c] = outcome[c]
      /\ Returned' = Returned \cup {Len(outcome) + 1} /\ Answered' = Answered
  BY ReturnOutcome DEF IInv
<1>2. This = Len(outcome) + 1 /\ This \in Nat
  BY <1>1 DEF IInv, Phase
<1>3. AnswerIsOwnOrLate'
  <2>1. \A c \in Answered : c \in Returned
    BY DEF Answered
  <2>2. QED
    BY <1>1, <2>1 DEF IInv, Answers, AnswerIsOwnOrLate
<1>4. ASSUME NEW c \in Returned' \ (Answered' \cup late' \cup failed')
      PROVE  c \notin quiet' /\ \E e \in late' : e < c
  <2>1. CASE c \in Returned
    BY <1>1, <2>1 DEF IInv, Answers, FailureHasCause
  <2>2. CASE c = This
    <3>1. late # {}
      BY <2>2 DEF IInv, LateOldest
    <3>2. \A e \in late : e \in 1 .. Len(outcome)
      BY DEF IInv, Phase
    <3>3. \A e \in late : e < This
      BY <1>1, <1>2, <3>2
    <3>4. QED
      BY <2>2, <3>1, <3>3
  <2>3. QED
    BY <1>1, <1>2, <2>1, <2>2
<1>5. QED
  BY <1>3, <1>4 DEF Answers, FailureHasCause

(* Whether a request was sent does not change when its call ends. *)
LEMMA SentAtReturn ==
  ASSUME TypeOK, Phase, pc # "idle", pc' = "idle", ops' = ops, NEW r, NEW d,
         r # "unsent" => pc = "read", pc = "read" => r # "unsent",
         outcome' = Append(outcome, [how |-> r, of |-> d])
  PROVE  \A c \in Calls : WasSent(c)' <=> WasSent(c)
<1>1. PICK n \in Nat : n = Len(outcome)
  BY DEF TypeOK
<1>2. Len(outcome') = n + 1 /\ outcome'[n + 1].how = r
  <2>1. outcome'[n + 1] = [how |-> r, of |-> d] /\ Len(outcome') = n + 1
    BY <1>1, ReturnOutcome
  <2>2. QED
    BY <2>1
<1>3. \A c \in 1 .. n : outcome'[c] = outcome[c]
  BY <1>1, ReturnOutcome DEF Returned
<1>4. Calls = 1 .. n + 1
  BY <1>1 DEF Phase, This, Calls
<1>5. ASSUME NEW c \in 1 .. n PROVE WasSent(c)' <=> WasSent(c)
  <2>1. c <= n /\ c <= n + 1
    OBVIOUS
  <2>2. outcome'[c] = outcome[c]
    BY <1>3
  <2>3. QED
    BY <1>1, <1>2, <2>1, <2>2 DEF WasSent
<1>6. WasSent(n + 1)' <=> WasSent(n + 1)
  <2>1. ~(n + 1 <= n) /\ n + 1 <= n + 1
    OBVIOUS
  <2>2. QED
    BY <1>1, <1>2, <2>1 DEF WasSent
<1>7. \A c \in 1 .. n + 1 : c \in 1 .. n \/ c = n + 1
  OBVIOUS
<1>8. QED
  BY <1>4, <1>5, <1>6, <1>7

(* Steps that leave what the server is to read alone keep it in step. *)
LEMMA SteppingKept ==
  ASSUME Stepping, Inbound' = Inbound, UNCHANGED <<executed, done, ops>>,
         torn' = "no" => torn = "no",
         \A c \in Calls : WasSent(c)' <=> WasSent(c),
         torn' = "no" => ((pc' = "send" /\ sent' > 0) <=> (pc = "send" /\ sent > 0)),
         torn' = "no" /\ pc = "send" => sent' = sent \/ pc' # "send"
  PROVE  Stepping'
<1> SUFFICES ASSUME torn' = "no" PROVE InStep' /\ ServerInStep'
  BY DEF Stepping
<1>1. InStep /\ ServerInStep /\ torn = "no"
  BY DEF Stepping
<1>2. Waiting' = Waiting /\ Calls' = Calls
  BY DEF Waiting, Calls
<1>3. {c \in Calls : WasSent(c)}' = {c \in Calls : WasSent(c)}
  BY <1>2
<1>4. ServerInStep'
  BY <1>1, <1>2, <1>3 DEF ServerInStep
<1>5. InStep'
  BY <1>1 DEF InStep, This
<1>6. QED
  BY <1>4, <1>5

-----------------------------------------------------------------------------
(* At the start nothing was called and nothing is under way. *)
LEMMA InitIInv == Init => IInv
<1> SUFFICES ASSUME Init PROVE IInv
  OBVIOUS
<1>1. Inbound = <<>> /\ Outbound = <<>>
  <2>1. <<>> \o <<>> = <<>>
    BY ConcatEmptySeq
  <2>2. QED
    BY <2>1 DEF Init, Inbound, Outbound
<1>2. Len(Inbound) = 0 /\ Len(Outbound) = 0 /\ Len(ops) = 0 /\ Len(outcome) = 0 /\ Len(executed) = 0
  BY <1>1 DEF Init
<1>3. TypeOK
  BY DEF Init, TypeOK, Transports, AnyKind, Kinds
<1>4. Phase
  BY <1>2 DEF Init, Phase, This
<1>5. Streams
  BY <1>2 DEF Streams, Requests, Responses, AllGenuine, InOrder
<1>6. Returned = {} /\ Answered = {} /\ Waiting = {} /\ Calls = {}
  BY <1>2 DEF Returned, Answered, Waiting, Calls
<1>7. Bounds(0)
  BY <1>2, <1>6 DEF Init, Bounds, This, HeadIsOut
<1>8. QuietClean /\ LateOldest
  BY <1>1 DEF Init, QuietClean, LateOldest, Empty
<1>9. Stepping
  BY <1>2, <1>6 DEF Init, Stepping, InStep, Unbroken, ServerInStep
<1>10. Answers
  BY <1>6 DEF Answers, AnswerIsOwnOrLate, FailureHasCause
<1>11. QED
  BY <1>3, <1>4, <1>5, <1>7, <1>8, <1>9, <1>10 DEF IInv, Bounded

(* A call begins. *)
LEMMA CallIInv ==
  ASSUME IInv, NEW o \in Operations, Call(o)
  PROVE  IInv'
<1>1. /\ pc = "idle" /\ pc' = "drain" /\ ops' = Append(ops, o) /\ first' = "mark"
      /\ quiet' = IF line = <<>> /\ back = <<>> /\ rx = <<>> /\ buf = <<>> /\ done = "no"
                  THEN quiet \cup {This + 1} ELSE quiet
      /\ UNCHANGED <<transport, sent, got, line, back, rx, buf, done, executed, failed, outcome, late,
                     torn, restarts>>
  BY DEF Call, server
<1>2. Inbound' = Inbound /\ Outbound' = Outbound
  BY <1>1 DEF Inbound, Outbound
<1>3. /\ Len(ops) \in Nat /\ Len(ops') = Len(ops) + 1 /\ \A c \in 1 .. Len(ops) : ops'[c] = ops[c]
      /\ ops' \in Seq(Operations)
  <2>1. ops \in Seq(Operations)
    BY DEF IInv, TypeOK
  <2>2. QED
    BY <1>1, <2>1, AppendProperties
<1>4. /\ This = Len(outcome) /\ Len(outcome) = Len(ops) /\ sent = 0 /\ got = <<>>
      /\ quiet \subseteq 1 .. Len(ops) /\ late \subseteq 1 .. Len(outcome)
  BY <1>1 DEF IInv, Phase, This
<1>5. /\ Inbound \in Seq(Units) /\ Outbound \in Seq(Units)
      /\ Len(Inbound) \in Nat /\ Len(Outbound) \in Nat
      /\ \A i \in 1 .. Len(Inbound) : Inbound[i] \in Units
  BY StreamTypes DEF IInv
<1>6. /\ AllGenuine(ops, Inbound) /\ AllGenuine(ops, Outbound)
  BY DEF IInv, Streams, Requests, Responses
<1>7. /\ AllGenuine(ops', Inbound) /\ AllGenuine(ops', Outbound)
      /\ \A i \in 1 .. Len(Inbound) : Whole(ops', Inbound[i]) = Whole(ops, Inbound[i])
      /\ \A i \in 1 .. Len(Outbound) : Whole(ops', Outbound[i]) = Whole(ops, Outbound[i])
  <2>1. ops \in Seq(Operations)
    BY DEF IInv, TypeOK
  <2>2. QED
    BY <1>1, <1>5, <1>6, <2>1, OneMoreCall
<1>8. TypeOK'
  <2>1. quiet' \in SUBSET Nat
    <3>1. quiet' \subseteq quiet \cup {This + 1} /\ This + 1 \in Nat /\ quiet \subseteq Nat
      BY <1>1, <1>3, <1>4 DEF This
    <3>2. QED
      BY <3>1
  <2>2. QED
    BY <1>1, <1>3, <2>1 DEF IInv, TypeOK, AnyKind, Kinds
<1>9. Phase'
  <2>1. quiet' \subseteq 1 .. Len(ops')
    <3>1. quiet' \subseteq quiet \cup {This + 1}
      BY <1>1
    <3>2. This + 1 \in 1 .. Len(ops') /\ quiet \subseteq 1 .. Len(ops')
      BY <1>3, <1>4 DEF This
    <3>3. QED
      BY <3>1, <3>2
  <2>2. This' = Len(outcome') + 1
    BY <1>1, <1>3, <1>4 DEF This
  <2>3. buf' # <<>> => done' = "no" /\ Len(buf') = 2 /\ HasSize(buf)'
    BY <1>1 DEF IInv, Phase, HasSize
  <2>4. QED
    BY <1>1, <1>4, <2>1, <2>2, <2>3 DEF Phase
<1>10. Streams'
  <2>1. Requests(ops', Inbound)
    BY <1>7 DEF IInv, Streams, Requests
  <2>2. Responses(ops', Outbound)
    BY <1>7 DEF IInv, Streams, Responses
  <2>3. QED
    BY <1>2, <2>1, <2>2 DEF Streams
<1>11. Bounded'
  <2>1. PICK m \in Nat : Bounds(m)
    BY DEF IInv, Bounded
  <2>2. Answered' = Answered
    BY <1>1 DEF Answered, Returned
  <2>3. ASSUME NEW i \in 1 .. Len(Inbound) PROVE Inbound[i].call # This'
    <3>1. Inbound[i].call \in 1 .. Len(ops)
      BY <1>6 DEF AllGenuine, Genuine
    <3>2. QED
      BY <1>3, <3>1 DEF This
  <2>4. m <= This' /\ m < This'
    BY <1>3, <2>1 DEF Bounds, This
  <2>5. Bounds(m)'
    BY <1>1, <1>2, <2>1, <2>2, <2>3, <2>4 DEF Bounds
  <2>6. QED
    BY <2>5 DEF Bounded
<1>12. This + 1 = This' /\ This \in Nat /\ This' \notin quiet
  BY <1>3, <1>4 DEF This
<1>13. line = <<>> /\ back = <<>> /\ rx = <<>> /\ buf = <<>> <=> Inbound = <<>> /\ Outbound = <<>>
  <2>1. /\ Len(Inbound) = Len(buf) + Len(line) /\ Len(Outbound) = Len(got) + Len(rx) + Len(back)
    BY StreamTypes DEF IInv
  <2>2. /\ Len(buf) \in Nat /\ Len(line) \in Nat /\ Len(rx) \in Nat /\ Len(back) \in Nat
        /\ (buf = <<>> <=> Len(buf) = 0) /\ (line = <<>> <=> Len(line) = 0)
        /\ (rx = <<>> <=> Len(rx) = 0) /\ (back = <<>> <=> Len(back) = 0)
    <3>1. buf \in Seq(Units) /\ line \in Seq(Units) /\ rx \in Seq(Units) /\ back \in Seq(Units)
      BY DEF IInv, TypeOK
    <3>2. QED
      BY <3>1
  <2>3. Inbound = <<>> <=> Len(Inbound) = 0
    BY <1>5
  <2>4. Outbound = <<>> <=> Len(Outbound) = 0
    BY <1>5
  <2>5. Len(got) = 0
    BY <1>4
  <2>6. QED
    BY <2>1, <2>2, <2>3, <2>4, <2>5
<1>14. QuietClean'
  <2>1. SUFFICES ASSUME This' \in quiet' PROVE Clean'
    BY DEF QuietClean
  <2>2. Inbound' = <<>> /\ Outbound' = <<>> /\ buf' = <<>> /\ done' = "no"
    BY <1>1, <1>2, <1>12, <1>13, <2>1
  <2>3. Len(Inbound') = 0
    BY <2>2
  <2>4. QED
    BY <1>1, <1>4, <2>2, <2>3 DEF Clean
<1>15. LateOldest'
  <2>1. CASE late = {}
    BY <1>1, <1>12, <1>13, <2>1 DEF IInv, LateOldest, Empty
  <2>2. CASE late # {}
    BY <1>1, <1>2, <2>2 DEF IInv, LateOldest, OldestLate
  <2>3. QED
    BY <2>1, <2>2
<1>16. Stepping'
  <2>1. SUFFICES ASSUME torn' = "no" PROVE InStep' /\ ServerInStep'
    BY DEF Stepping
  <2>2. InStep /\ ServerInStep
    BY <1>1, <2>1 DEF IInv, Stepping
  <2>3. InStep'
    <3>1. Unbroken(ops', Inbound)
      <4>1. \A i \in 1 .. Len(Inbound) - 1 : i \in 1 .. Len(Inbound)
        BY <1>5
      <4>2. QED
        BY <1>7, <2>2, <4>1 DEF InStep, Unbroken
    <3>2. Len(Inbound) > 0 => Inbound[Len(Inbound)].pos = Whole(ops', Inbound[Len(Inbound)])
      <4>1. Len(Inbound) > 0 => Len(Inbound) \in 1 .. Len(Inbound)
        BY <1>5
      <4>2. QED
        BY <1>1, <1>7, <2>2, <4>1 DEF InStep
    <3>3. QED
      BY <1>1, <1>2, <3>1, <3>2 DEF InStep
  <2>4. {c \in Calls : WasSent(c)}' = {c \in Calls : WasSent(c)}
    <3>1. Calls' = Calls \cup {Len(ops) + 1} /\ Calls = 1 .. Len(outcome)
      BY <1>3, <1>4 DEF Calls
    <3>2. ASSUME NEW c \in Calls', c \notin Calls PROVE ~WasSent(c)'
      <4>1. ~(c <= Len(outcome'))
        BY <1>1, <1>3, <1>4, <3>1, <3>2
      <4>2. QED
        BY <1>1, <4>1 DEF WasSent
    <3>3. \A c \in Calls : WasSent(c)' <=> WasSent(c)
      BY <1>1, <1>3, <1>4, <3>1 DEF WasSent
    <3>4. QED
      BY <3>1, <3>2, <3>3
  <2>5. Waiting' = Waiting
    BY <1>2 DEF Waiting
  <2>6. ServerInStep'
    BY <1>1, <1>2, <2>2, <2>1, <2>4, <2>5 DEF ServerInStep
  <2>7. QED
    BY <2>3, <2>6
<1>17. Answers'
  <2>1. Answered' = Answered /\ Returned' = Returned
    BY <1>1 DEF Answered, Returned
  <2>2. \A c \in Returned : c \in 1 .. Len(ops) /\ c # This' /\ ops'[c] = ops[c]
    BY <1>3, <1>4, <1>12 DEF Returned, This
  <2>3. \A c \in Returned : c \in quiet' <=> c \in quiet
    BY <1>1, <1>12, <2>2
  <2>4. Answered \subseteq Returned
    BY DEF Answered
  <2>5. ASSUME NEW c \in Answered
        PROVE  LET d == outcome'[c].of IN
               /\ d \in 1 .. c /\ ops'[d] = ops'[c]
               /\ d # c => c \notin quiet' /\ \E e \in late' : e <= d
    <3>1. PICK d : d = outcome[c].of
      OBVIOUS
    <3>2. /\ d \in 1 .. c /\ ops[d] = ops[c]
          /\ d # c => c \notin quiet /\ \E e \in late : e <= d
      BY <3>1 DEF IInv, Answers, AnswerIsOwnOrLate
    <3>3. d \in Returned
      BY <2>4, <3>2, <1>3, <1>4 DEF Returned
    <3>4. ops'[d] = ops'[c]
      BY <2>2, <2>4, <3>2, <3>3
    <3>5. QED
      BY <1>1, <2>3, <2>4, <3>1, <3>2, <3>4
  <2>6. AnswerIsOwnOrLate'
    BY <1>1, <2>1, <2>5 DEF IInv, Answers, AnswerIsOwnOrLate
  <2>7. FailureHasCause'
    BY <1>1, <2>1, <2>3 DEF IInv, Answers, FailureHasCause
  <2>8. QED
    BY <2>6, <2>7 DEF Answers
<1>18. QED
  BY <1>8, <1>9, <1>10, <1>11, <1>14, <1>15, <1>16, <1>17 DEF IInv

-----------------------------------------------------------------------------
(* The end of a call. *)
LEMMA ReturnPhase ==
  ASSUME IInv, pc # "idle", NEW r \in Hows, NEW d \in Nat, Return(r, d),
         UNCHANGED <<ops, quiet, buf, done>>, late' \subseteq late \cup {This}
  PROVE  /\ Phase' /\ outcome' \in Seq(Outcomes) /\ late' \subseteq Nat
         /\ pc' = "idle" /\ first' = "mark" /\ sent' = 0 /\ got' = <<>>
         /\ outcome' = Append(outcome, [how |-> r, of |-> d])
         /\ This = Len(outcome) + 1 /\ Len(outcome) \in Nat /\ Len(outcome') = Len(outcome) + 1
<1>1. /\ pc' = "idle" /\ first' = "mark" /\ sent' = 0 /\ got' = <<>>
      /\ outcome' = Append(outcome, [how |-> r, of |-> d])
  BY DEF Return
<1>2. outcome' \in Seq(Outcomes) /\ Len(outcome) \in Nat /\ Len(outcome') = Len(outcome) + 1
  <2>1. outcome \in Seq(Outcomes)
    BY DEF IInv, TypeOK
  <2>2. [how |-> r, of |-> d] \in Outcomes
    BY DEF Outcomes
  <2>3. QED
    BY <1>1, <2>1, <2>2, AppendProperties
<1>3. This = Len(outcome) + 1
  BY DEF IInv, Phase
<1>4. late' \subseteq 1 .. Len(outcome')
  <2>1. late \subseteq 1 .. Len(outcome)
    BY DEF IInv, Phase
  <2>2. 1 .. Len(outcome) \subseteq 1 .. Len(outcome') /\ This \in 1 .. Len(outcome')
    BY <1>2, <1>3
  <2>3. QED
    BY <2>1, <2>2
<1>5. late' \subseteq Nat
  BY <1>4, <1>2
<1>6. Phase'
  <2>1. This' = Len(outcome')
    BY <1>2, <1>3 DEF This
  <2>2. HasSize(buf)' = HasSize(buf)
    BY DEF HasSize
  <2>3. QED
    BY <1>1, <1>4, <2>1, <2>2 DEF IInv, Phase
<1>7. QED
  BY <1>1, <1>2, <1>3, <1>5, <1>6

(* A call ends in failure.  What its client did not read is left for the    *)
(* next one; it may now be the first that was given up.                     *)
LEMMA FailedReturn ==
  ASSUME IInv, pc # "idle", NEW r \in Hows, r # "answered", Return(r, None), TypeOK',
         UNCHANGED <<ops, quiet, buf, line, done, executed, failed>>,
         late \subseteq late', late' \subseteq late \cup {This},
         This \in late' \/ This \notin quiet \/ (This \in failed /\ Empty'),
         NEW l, After(Outbound', Outbound, l),
         torn' = "no" => torn = "no" /\ ~(pc = "send" /\ sent > 0),
         torn' = "no" => (r # "unsent" => pc = "read") /\ (pc = "read" => r # "unsent")
  PROVE  IInv'
<1>1. /\ Phase' /\ pc' = "idle" /\ sent' = 0
      /\ outcome' = Append(outcome, [how |-> r, of |-> None])
      /\ This = Len(outcome) + 1 /\ Len(outcome) \in Nat
  BY ReturnPhase DEF None
<1>2. Inbound' = Inbound
  BY DEF Inbound
<1>3. After(Inbound', Inbound, 0)
  BY <1>2, AfterNothing, StreamTypes DEF IInv
<1>4. Streams'
  BY <1>3, AfterWithin, StreamsKept DEF IInv
<1>5. Bounded'
  <2>1. PICK m \in Nat : Bounds(m)
    BY DEF IInv, Bounded
  <2>2. SameAnswers
    BY <1>1, ReturnOutcome DEF IInv
  <2>3. HeadIsOut'
    BY <1>1 DEF HeadIsOut
  <2>4. Bounds(m)'
    BY <1>1, <1>3, <2>1, <2>2, <2>3, AfterWithin, BoundsKept
  <2>5. QED
    BY <2>4 DEF Bounded
<1>6. QuietClean'
  BY <1>1 DEF QuietClean
<1>7. LateOldest'
  <2>1. CASE late = {}
    <3>1. SUFFICES ASSUME late' # {} PROVE \E e \in late' : OldestLate(e)'
      <4>1. late' = {} => Empty'
        BY <2>1 DEF IInv, LateOldest
      <4>2. QED
        BY <1>1, <4>1 DEF LateOldest
    <3>0. This \in quiet /\ late' = {This}
      BY <2>1, <3>1 DEF IInv, LateOldest
    <3>2. Clean
      BY <3>0 DEF IInv, QuietClean
    <3>3. This \in Nat /\ This <= This
      BY <1>1
    <3>4. /\ \A i \in 1 .. Len(Inbound) : Inbound[i].call = This
          /\ Outbound # <<>> => \A i \in 1 .. Len(Outbound) : Outbound[i].call = This
      BY <3>2 DEF Clean
    <3>5. Outbound = <<>> => Len(Outbound) = 0
      OBVIOUS
    <3>6. \A i \in 1 .. Len(Outbound) : Outbound # <<>>
      BY <3>5
    <3>7. OldestLate(This)
      BY <3>3, <3>4, <3>6 DEF OldestLate
    <3>8. OldestLate(This)'
      <4>1. PICK e : e = This
        OBVIOUS
      <4>2. OldestLate(e)'
        BY <1>3, <3>7, <4>1, AfterWithin, OldestKept
      <4>3. This' = e
        BY <4>1 DEF This
      <4>4. QED
        BY <4>2, <4>3 DEF OldestLate
    <3>9. This' = This
      BY DEF This
    <3>10. QED
      BY <3>0, <3>8, <3>9 DEF OldestLate
  <2>2. CASE late # {}
    <3>1. PICK e \in late : OldestLate(e)
      BY <2>2 DEF IInv, LateOldest
    <3>2. OldestLate(e)'
      BY <1>3, <3>1, AfterWithin, OldestKept
    <3>3. QED
      BY <3>2 DEF LateOldest
  <2>3. QED
    BY <2>1, <2>2
<1>8. Stepping'
  <2>1. CASE torn' = "no"
    <3>1. \A c \in Calls : WasSent(c)' <=> WasSent(c)
      BY <1>1, <2>1, SentAtReturn DEF IInv
    <3>2. QED
      BY <1>1, <1>2, <2>1, <3>1, SteppingKept DEF IInv
  <2>2. CASE torn' # "no"
    BY <2>2 DEF Stepping
  <2>3. QED
    BY <2>1, <2>2
<1>9. Answers'
  BY <1>1, AnswersFailed
<1>10. QED
  BY <1>1, <1>4, <1>5, <1>6, <1>7, <1>8, <1>9 DEF IInv

(* The client makes a step within a call and only takes units from those    *)
(* that came for it.                                                        *)
LEMMA ListenStep ==
  ASSUME IInv, TypeOK', Phase', QuietClean', NEW l, After(Outbound', Outbound, l),
         UNCHANGED <<ops, outcome, quiet, late, buf, line, done, executed, failed, sent, torn>>,
         pc' = pc \/ (pc = "drain" /\ pc' = "send")
  PROVE  IInv'
<1>1. Inbound' = Inbound
  BY DEF Inbound
<1>2. After(Inbound', Inbound, 0)
  BY <1>1, AfterNothing, StreamTypes DEF IInv
<1>3. Streams'
  BY <1>2, AfterWithin, StreamsKept DEF IInv
<1>4. Bounded'
  <2>1. PICK m \in Nat : Bounds(m)
    BY DEF IInv, Bounded
  <2>2. SameAnswers
    BY DEF SameAnswers, Answered, Returned
  <2>3. HeadIsOut => HeadIsOut'
    BY DEF HeadIsOut
  <2>4. Bounds(m)'
    BY <1>2, <2>1, <2>2, <2>3, AfterWithin, BoundsKept
  <2>5. QED
    BY <2>4 DEF Bounded
<1>5. LateOldest'
  <2>1. CASE late # {}
    <3>1. PICK e \in late : OldestLate(e)
      BY <2>1 DEF IInv, LateOldest
    <3>2. OldestLate(e)'
      BY <1>2, <3>1, AfterWithin, OldestKept
    <3>3. QED
      BY <2>1, <3>2 DEF LateOldest
  <2>2. CASE late = {} /\ pc = "idle"
    <3>1. Empty /\ pc' = "idle"
      BY <2>2 DEF IInv, LateOldest
    <3>2. Outbound' = <<>>
      BY <3>1 DEF Empty, After
    <3>3. QED
      BY <1>1, <2>2, <3>1, <3>2 DEF LateOldest, Empty
  <2>3. CASE late = {} /\ pc # "idle"
    BY <2>3 DEF IInv, LateOldest, This
  <2>4. QED
    BY <2>1, <2>2, <2>3
<1>6. Stepping'
  <2>1. \A c \in Calls : WasSent(c)' <=> WasSent(c)
    BY DEF WasSent
  <2>2. (pc' = "send" /\ sent' > 0) <=> (pc = "send" /\ sent > 0)
    BY DEF IInv, Phase
  <2>3. QED
    BY <1>1, <2>1, <2>2, SteppingKept DEF IInv
<1>7. Answers'
  BY AnswersKept DEF IInv
<1>8. QED
  BY <1>3, <1>4, <1>5, <1>6, <1>7 DEF IInv

(* Draining takes what came before the call; with nothing under way there   *)
(* is nothing to take.                                                      *)
LEMMA DrainIInv ==
  ASSUME IInv, Drain
  PROVE  IInv'
<1>1. /\ pc = "drain" /\ rx # <<>> /\ first' = rx[Len(rx)].kind /\ rx' = <<>>
      /\ UNCHANGED <<transport, pc, sent, got, ops, line, back, buf, done, executed, failed, outcome,
                     quiet, late, torn, restarts>>
  BY DEF Drain, server, hist
<1>2. got \in Seq(Units) /\ rx \in Seq(Units) /\ back \in Seq(Units) /\ got = <<>>
  BY <1>1 DEF IInv, TypeOK, Phase
<1>3. PICK l : After(Outbound', Outbound, l)
  <2>1. Outbound' = <<>> \o <<>> \o back
    BY <1>1, <1>2 DEF Outbound
  <2>2. QED
    BY <1>2, <2>1, OutboundAfter DEF Outbound
<1>4. TypeOK'
  <2>1. Len(rx) \in 1 .. Len(rx)
    BY <1>1, <1>2
  <2>2. rx[Len(rx)] \in Units
    BY <1>2, <2>1
  <2>3. first' \in AnyKind
    BY <1>1, <2>2 DEF Units
  <2>4. QED
    BY <1>1, <2>3 DEF IInv, TypeOK
<1>5. Phase'
  <2>1. HasSize(buf)' = HasSize(buf)
    BY <1>1 DEF HasSize
  <2>2. QED
    BY <1>1, <2>1 DEF IInv, Phase, This
<1>6. QuietClean'
  <2>1. SUFFICES ASSUME This' \in quiet' PROVE FALSE
    BY DEF QuietClean
  <2>2. Clean
    BY <1>1, <2>1 DEF IInv, QuietClean, This
  <2>3. Outbound = <<>>
    BY <1>1, <2>2 DEF Clean
  <2>4. Len(Outbound) = Len(got) + Len(rx) + Len(back) /\ Len(Outbound) = 0
    BY <2>3, StreamTypes DEF IInv
  <2>5. Len(got) \in Nat /\ Len(rx) \in Nat /\ Len(back) \in Nat /\ Len(rx) > 0
    BY <1>1, <1>2
  <2>6. QED
    BY <2>4, <2>5
<1>7. QED
  BY <1>1, <1>3, <1>4, <1>5, <1>6, ListenStep

(* The request is begun, or given up because it was spoilt. *)
LEMMA StartSendingIInv ==
  ASSUME IInv, StartSending
  PROVE  IInv'
<1>1. /\ pc = "drain"
      /\ UNCHANGED <<transport, ops, line, back, rx, buf, done, executed, failed, quiet, late, torn, restarts>>
  BY DEF StartSending, server
<1>2. got = <<>> /\ sent = 0
  BY <1>1 DEF IInv, Phase
<1>3. ASSUME got' = got PROVE After(Outbound', Outbound, 0)
  <2>1. Outbound' = Outbound
    BY <1>1, <1>3 DEF Outbound
  <2>2. QED
    BY <2>1, StreamTypes, AfterNothing DEF IInv
<1>4. CASE first = "mark" /\ pc' = "send" /\ UNCHANGED <<first, sent, got, outcome>>
  <2>1. TypeOK'
    BY <1>1, <1>4 DEF IInv, TypeOK
  <2>2. Phase'
    <3>1. HasSize(buf)' = HasSize(buf)
      BY <1>1 DEF HasSize
    <3>2. This = Len(outcome) + 1 /\ This' = This /\ This \in Calls
      BY <1>1 DEF IInv, TypeOK, Phase, This, Calls
    <3>3. ops[This] \in Operations
      BY <3>2 DEF IInv, TypeOK, Calls
    <3>4. sent' < Len(RequestOf(ops'[This']))
      BY <1>1, <1>2, <1>4, <3>2, <3>3, RequestLayout DEF Layout
    <3>5. QED
      BY <1>1, <1>4, <1>2, <3>1, <3>2, <3>4 DEF IInv, Phase
  <2>3. QuietClean'
    <3>1. Inbound' = Inbound /\ Outbound' = Outbound /\ This' = This
      BY <1>1, <1>4 DEF Inbound, Outbound, This
    <3>2. SUFFICES ASSUME This \in quiet PROVE Clean'
      BY <1>1, <3>1 DEF QuietClean
    <3>3. Clean /\ Outbound = <<>>
      BY <1>1, <3>2 DEF IInv, QuietClean, Clean
    <3>4. QED
      BY <1>1, <1>4, <3>1, <3>3 DEF Clean
  <2>4. QED
    BY <1>1, <1>3, <1>4, <2>1, <2>2, <2>3, ListenStep
<1>5. CASE first # "mark" /\ Return("unsent", None)
  <2>1. This \notin quiet
    BY <1>1, <1>5 DEF IInv, QuietClean, Clean
  <2>2. PICK r \in Hows : r = "unsent"
    BY DEF Hows
  <2>3. /\ outcome' \in Seq(Outcomes) /\ pc' = "idle" /\ first' = "mark" /\ sent' = 0 /\ got' = <<>>
    BY <1>1, <1>5, <2>2, ReturnPhase DEF None
  <2>4. TypeOK'
    BY <1>1, <2>3 DEF IInv, TypeOK, AnyKind, Kinds
  <2>5. After(Outbound', Outbound, 0)
    BY <1>2, <1>3, <2>3
  <2>6. QED
    BY <1>1, <1>2, <1>5, <2>1, <2>2, <2>4, <2>5, FailedReturn
<1>6. QED
  BY <1>4, <1>5 DEF StartSending

(* A call is given up; what has come of its answer is thrown away. *)
LEMMA TimeoutIInv ==
  ASSUME IInv, Timeout
  PROVE  IInv'
<1>1. /\ pc = "read" /\ Return("timeout", None) /\ late' = late \cup {This}
      /\ UNCHANGED <<transport, ops, line, back, rx, buf, done, executed, failed, quiet, torn, restarts>>
  BY DEF Timeout, server
<1>2. PICK r \in Hows : r = "timeout"
  BY DEF Hows
<1>3. /\ outcome' \in Seq(Outcomes) /\ pc' = "idle" /\ first' = "mark" /\ sent' = 0 /\ got' = <<>>
      /\ late' \subseteq Nat
  BY <1>1, <1>2, ReturnPhase DEF None
<1>4. TypeOK'
  BY <1>1, <1>3 DEF IInv, TypeOK, AnyKind, Kinds
<1>5. PICK l : After(Outbound', Outbound, l)
  <2>1. got \in Seq(Units) /\ rx \in Seq(Units) /\ back \in Seq(Units)
    BY DEF IInv, TypeOK
  <2>2. Outbound' = <<>> \o rx \o back
    BY <1>1, <1>3 DEF Outbound
  <2>3. QED
    BY <2>1, <2>2, OutboundAfter DEF Outbound
<1>6. QED
  BY <1>1, <1>2, <1>4, <1>5, FailedReturn

(* The first unit of b put at the end of a. *)
LEMMA HeadMoves ==
  ASSUME NEW a \in Seq(Units), NEW b \in Seq(Units), b # <<>>
  PROVE  Append(a, Head(b)) \o Tail(b) = a \o b
OBVIOUS

(* A unit reaches the device. *)
LEMMA ArriveIInv ==
  ASSUME IInv, Arrive
  PROVE  IInv'
<1>1. /\ back # <<>> /\ rx' = Append(rx, Head(back)) /\ back' = Tail(back)
      /\ UNCHANGED <<transport, pc, first, sent, got, ops, line, buf, done, executed, failed, outcome,
                     quiet, late, torn, restarts>>
  BY DEF Arrive, client, server, hist
<1>2. got \in Seq(Units) /\ rx \in Seq(Units) /\ back \in Seq(Units)
  BY DEF IInv, TypeOK
<1>3. Outbound' = Outbound
  <2>1. PICK gr : gr = got \o rx /\ gr \in Seq(Units)
    BY <1>2, Joined
  <2>2. got \o Append(rx, Head(back)) = Append(got \o rx, Head(back))
    BY <1>1, <1>2
  <2>3. Append(gr, Head(back)) \o Tail(back) = gr \o back
    BY <1>1, <1>2, <2>1, HeadMoves, Zenon
  <2>4. QED
    BY <1>1, <2>1, <2>2, <2>3 DEF Outbound
<1>4. TypeOK'
  <2>1. Head(back) \in Units /\ Tail(back) \in Seq(Units)
    BY <1>1, <1>2
  <2>2. Append(rx, Head(back)) \in Seq(Units)
    BY <1>2, <2>1, AppendProperties
  <2>3. QED
    BY <1>1, <2>1, <2>2 DEF IInv, TypeOK
<1>5. Phase'
  <2>1. HasSize(buf)' = HasSize(buf)
    BY <1>1 DEF HasSize
  <2>2. QED
    BY <1>1, <2>1 DEF IInv, Phase, This
<1>6. QuietClean'
  <2>1. Inbound' = Inbound /\ This' = This
    BY <1>1 DEF Inbound, This
  <2>2. QED
    BY <1>1, <1>3, <2>1 DEF IInv, QuietClean, Clean
<1>7. After(Outbound', Outbound, 0)
  BY <1>3, StreamTypes, AfterNothing DEF IInv
<1>8. QED
  BY <1>1, <1>4, <1>5, <1>6, <1>7, ListenStep

(* The device restarts.  The call under way is given up, and its request is *)
(* cut if some of it was sent.                                              *)
LEMMA DeviceRestartIInv ==
  ASSUME IInv, DeviceRestart
  PROVE  IInv'
<1>1. /\ rx' = <<>> /\ torn' = IF pc = "send" /\ sent > 0 THEN "yes" ELSE torn
      /\ restarts' = restarts + 1
      /\ UNCHANGED <<transport, ops, line, back, buf, done, executed, failed, quiet>>
  BY DEF DeviceRestart, server
<1>2. got \in Seq(Units) /\ rx \in Seq(Units) /\ back \in Seq(Units) /\ restarts + 1 \in Nat
  BY DEF IInv, TypeOK
<1>3. ASSUME got' = <<>> PROVE \E l : After(Outbound', Outbound, l)
  <2>1. Outbound' = <<>> \o <<>> \o back
    BY <1>1, <1>3 DEF Outbound
  <2>2. QED
    BY <1>2, <2>1, OutboundAfter DEF Outbound
<1>4. CASE pc = "idle"
  <2>1. UNCHANGED <<pc, first, sent, got, outcome, late>>
    BY <1>4 DEF DeviceRestart, client
  <2>2. got' = <<>> /\ torn' = torn
    BY <1>1, <1>4, <2>1 DEF IInv, Phase
  <2>3. PICK l : After(Outbound', Outbound, l)
    BY <1>3, <2>2
  <2>4. TypeOK'
    BY <1>1, <1>2, <2>1, <2>2 DEF IInv, TypeOK
  <2>5. Phase'
    <3>1. HasSize(buf)' = HasSize(buf)
      BY <1>1 DEF HasSize
    <3>2. QED
      BY <1>1, <2>1, <3>1 DEF IInv, Phase, This
  <2>6. QuietClean'
    BY <1>4, <2>1 DEF QuietClean
  <2>7. QED
    BY <1>1, <2>1, <2>2, <2>3, <2>4, <2>5, <2>6, ListenStep
<1>5. CASE pc # "idle"
  <2>1. PICK r \in Hows : r = IF sent = 0 THEN "unsent" ELSE "restart"
    BY DEF Hows
  <2>2. Return(r, None) /\ late' = late \cup {This}
    BY <1>5, <2>1 DEF DeviceRestart
  <2>3. /\ outcome' \in Seq(Outcomes) /\ pc' = "idle" /\ first' = "mark" /\ sent' = 0 /\ got' = <<>>
        /\ late' \subseteq Nat
    BY <1>1, <1>5, <2>1, <2>2, ReturnPhase DEF None
  <2>4. TypeOK'
    BY <1>1, <1>2, <2>3 DEF IInv, TypeOK, AnyKind, Kinds
  <2>5. PICK l : After(Outbound', Outbound, l)
    BY <1>3, <2>3
  <2>6. torn' = "no" => torn = "no" /\ ~(pc = "send" /\ sent > 0)
    BY <1>1
  <2>7. torn' = "no" => (r # "unsent" => pc = "read") /\ (pc = "read" => r # "unsent")
    <3>1. pc \in {"drain", "send", "read"} /\ sent \in Nat
      BY <1>5 DEF IInv, TypeOK
    <3>2. pc = "drain" => sent = 0
      BY DEF IInv, Phase
    <3>3. pc = "read" => sent > 0
      <4>1. SUFFICES ASSUME pc = "read" PROVE sent > 0
        OBVIOUS
      <4>2. This \in 1 .. Len(ops)
        BY <4>1 DEF IInv, TypeOK, Phase, This
      <4>3. ops[This] \in Operations
        BY <4>2 DEF IInv, TypeOK
      <4>4. QED
        BY <4>1, <4>3, RequestLayout DEF IInv, Phase, Layout
    <3>4. QED
      BY <2>1, <2>6, <3>1, <3>2, <3>3
  <2>8. r # "answered"
    BY <2>1
  <2>9. QED
    BY <1>1, <1>5, <2>1, <2>2, <2>4, <2>5, <2>6, <2>7, <2>8, FailedReturn
<1>6. QED
  BY <1>4, <1>5

(* What is left of the units of the call made with nothing under way. *)
LEMMA CleanAfter ==
  ASSUME Clean, TypeOK, TypeOK', UNCHANGED <<ops, pc, first, sent, failed>>, buf' = <<>>,
         NEW k, After(Inbound', Inbound, k), done' = "yes" => Inbound # <<>>,
         Within(Outbound', Outbound, 0)
  PROVE  Clean'
<1>1. /\ This' = This /\ Len(Outbound') <= Len(Outbound)
      /\ Len(Outbound') \in Nat /\ Len(Outbound) \in Nat
      /\ \A i \in 1 .. Len(Outbound') : i \in 1 .. Len(Outbound) /\ Outbound'[i] = Outbound[i]
  <2>1. /\ Outbound' \in Seq(Units) /\ Outbound \in Seq(Units)
        /\ Len(Outbound') <= Len(Outbound) - 0
        /\ \A i \in 1 .. Len(Outbound') : Outbound'[i] = Outbound[i + 0]
    BY DEF Within
  <2>2. \A i \in 1 .. Len(Outbound') : i \in 1 .. Len(Outbound) /\ i + 0 = i
    BY <2>1
  <2>3. QED
    BY <2>1, <2>2 DEF This
<1>2. PICK n \in Nat : n = Len(Inbound)
  BY StreamTypes
<1>3. PICK n1 \in Nat : n1 = Len(Inbound') /\ n1 = n - k /\ k \in Nat
  <2>1. /\ Inbound' \in Seq(Units) /\ k \in 0 .. Len(Inbound)
        /\ Len(Inbound') = Len(Inbound) - k
    BY DEF After
  <2>2. Len(Inbound') \in Nat
    BY <2>1
  <2>3. QED
    BY <1>2, <2>1, <2>2
<1>4. sent \in Nat /\ n <= sent /\ n1 <= sent
  <2>1. sent \in Nat
    BY DEF TypeOK
  <2>2. n <= sent
    BY <1>2 DEF Clean
  <2>3. n1 = n - k /\ k \in Nat
    BY <1>3
  <2>4. QED
    BY ONLY <1>2, <1>3, <2>1, <2>2, <2>3
<1>5. ASSUME NEW i \in 1 .. n1
      PROVE  Inbound'[i].call = This /\ Inbound'[i].pos = sent - n1 + i
  <2>1. i + k \in 1 .. n /\ Inbound'[i] = Inbound[i + k]
    <3>1. i \in 1 .. Len(Inbound')
      BY <1>3
    <3>2. QED
      BY <1>2, <3>1, AfterIndex
  <2>2. Inbound[i + k].call = This /\ Inbound[i + k].pos = sent - n + (i + k)
    BY <1>2, <2>1 DEF Clean
  <2>3. sent - n + (i + k) = sent - n1 + i
    BY <1>3, <1>4
  <2>4. QED
    BY <2>1, <2>2, <2>3
<1>6. Outbound # <<>> => Inbound = <<>>
  BY DEF Clean
<1>7. Inbound = <<>> => Inbound' = <<>>
  BY DEF After
<1>8. Outbound = <<>> => Outbound' = <<>>
  BY <1>1 DEF Within
<1>9. Outbound' # <<>> =>
        /\ pc' = "read" /\ Inbound' = <<>>
        /\ Len(Outbound') <= Len(ResponseOf(ops'[This']))
        /\ \A i \in 1 .. Len(Outbound') :
             /\ Outbound'[i].call = This' /\ IsResp(Outbound'[i]) /\ Outbound'[i].pos = i
             /\ Outbound'[i].kind = "lost" => This' \in failed'
  <2>1. SUFFICES ASSUME Outbound # <<>>
                 PROVE  /\ pc' = "read" /\ Inbound' = <<>>
                        /\ Len(Outbound') <= Len(ResponseOf(ops'[This']))
                        /\ \A i \in 1 .. Len(Outbound') :
                             /\ Outbound'[i].call = This' /\ IsResp(Outbound'[i])
                             /\ Outbound'[i].pos = i
                             /\ Outbound'[i].kind = "lost" => This' \in failed'
    BY <1>8
  <2>2. Len(Outbound') <= Len(ResponseOf(ops'[This']))
    <3>1. Len(ResponseOf(ops[This])) \in Nat
      <4>1. ops[This] = "read" \/ ops[This] # "read"
        OBVIOUS
      <4>2. QED
        BY <4>1 DEF ResponseOf
    <3>2. Len(Outbound) <= Len(ResponseOf(ops[This]))
      BY <2>1 DEF Clean
    <3>3. QED
      BY <1>1, <3>1, <3>2
  <2>3. QED
    BY <1>1, <1>6, <1>7, <2>1, <2>2 DEF Clean
<1>10. QED
  BY <1>1, <1>3, <1>4, <1>5, <1>6, <1>8, <1>9 DEF Clean, IsResp

(* The server throws units away, and what it had not sent yet is lost. *)
LEMMA ServerDrops ==
  ASSUME IInv, TypeOK', Stepping', NEW k, After(Inbound', Inbound, k), buf' = <<>>,
         UNCHANGED <<ops, pc, first, sent, got, outcome, quiet, late, failed>>,
         done' = "yes" => Inbound # <<>>, Within(Outbound', Outbound, 0)
  PROVE  IInv'
<1>1. This' = This /\ (Outbound = <<>> => Outbound' = <<>>)
  BY DEF This, Within
<1>2. Within(Outbound', Outbound, 0)
  OBVIOUS
<1>3. Streams'
  BY <1>2, StreamsKept DEF IInv
<1>4. Bounded'
  <2>1. PICK m \in Nat : Bounds(m)
    BY DEF IInv, Bounded
  <2>2. SameAnswers
    BY DEF SameAnswers, Answered, Returned
  <2>3. HeadIsOut => HeadIsOut'
    BY DEF HeadIsOut
  <2>4. Bounds(m)'
    BY <1>2, <2>1, <2>2, <2>3, BoundsKept
  <2>5. QED
    BY <2>4 DEF Bounded
<1>5. LateOldest'
  <2>1. CASE late # {}
    <3>1. PICK e \in late : OldestLate(e)
      BY <2>1 DEF IInv, LateOldest
    <3>2. OldestLate(e)'
      BY <1>2, <3>1, OldestKept
    <3>3. QED
      BY <2>1, <3>2 DEF LateOldest
  <2>2. CASE late = {} /\ pc = "idle"
    <3>1. Inbound = <<>> /\ Outbound = <<>>
      BY <2>2 DEF IInv, LateOldest, Empty
    <3>2. Inbound' = <<>>
      BY <3>1 DEF After
    <3>3. done' = "no"
      BY <3>1 DEF TypeOK
    <3>4. QED
      BY <1>1, <2>2, <3>1, <3>2, <3>3 DEF LateOldest, Empty
  <2>3. CASE late = {} /\ pc # "idle"
    BY <1>1, <2>3 DEF IInv, LateOldest
  <2>4. QED
    BY <2>1, <2>2, <2>3
<1>6. QuietClean'
  <2>1. SUFFICES ASSUME pc # "idle", This \in quiet PROVE Clean'
    BY <1>1 DEF QuietClean
  <2>2. Clean
    BY <2>1 DEF IInv, QuietClean
  <2>3. QED
    BY <2>2, CleanAfter DEF IInv
<1>7. Phase'
  BY <1>1 DEF IInv, Phase
<1>8. Answers'
  BY AnswersKept DEF IInv
<1>9. QED
  BY <1>3, <1>4, <1>5, <1>6, <1>7, <1>8 DEF IInv

(* The server has lost its place and reads no further. *)
LEMMA IgnoreIInv ==
  ASSUME IInv, Ignore
  PROVE  IInv'
<1>1. /\ line # <<>> /\ done = "yes" /\ line' = Tail(line)
      /\ UNCHANGED <<transport, pc, first, sent, got, ops, back, rx, buf, done, executed, failed, outcome,
                     quiet, late, torn, restarts>>
  BY DEF Ignore, client, server, hist
<1>2. line \in Seq(Units) /\ Tail(line) \in Seq(Units) /\ buf = <<>>
  BY <1>1 DEF IInv, TypeOK, Phase
<1>3. Inbound = line /\ Inbound' = Tail(line)
  <2>1. <<>> \o line = line /\ <<>> \o Tail(line) = Tail(line)
    BY <1>2, ConcatEmptySeq
  <2>2. QED
    BY <1>1, <1>2, <2>1 DEF Inbound
<1>4. After(Inbound', Inbound, 1)
  BY <1>1, <1>2, <1>3, AfterTail
<1>5. TypeOK'
  BY <1>1, <1>2 DEF IInv, TypeOK
<1>6. Stepping'
  BY <1>1 DEF IInv, Stepping, ServerInStep
<1>7. Within(Outbound', Outbound, 0)
  <2>1. Outbound' = Outbound
    BY <1>1 DEF Outbound
  <2>2. QED
    BY <2>1, AfterNothing, AfterWithin, StreamTypes DEF IInv
<1>8. QED
  BY <1>1, <1>2, <1>3, <1>4, <1>5, <1>6, <1>7, ServerDrops

(* The first n units of s. *)
LEMMA FirstUnits ==
  ASSUME NEW s \in Seq(Units), NEW n \in 1 .. Len(s)
  PROVE  /\ SubSeq(s, 1, n) \in Seq(Units) /\ Len(SubSeq(s, 1, n)) = n
         /\ \A i \in 1 .. n : SubSeq(s, 1, n)[i] = s[i]
<1>1. \A i \in 1 .. n : s[i] \in Units
  OBVIOUS
<1>2. 1 \in Int /\ n \in Int
  OBVIOUS
<1>3. PICK q : q = SubSeq(s, 1, n)
  OBVIOUS
<1>4. /\ q \in Seq(Units) /\ Len(q) = IF 1 <= n THEN n - 1 + 1 ELSE 0
      /\ \A i \in 1 .. n - 1 + 1 : q[i] = s[1 + i - 1]
  BY <1>1, <1>2, <1>3, SubSeqProperties
<1>5. Len(q) = n
  BY <1>4
<1>6. ASSUME NEW i \in 1 .. n PROVE q[i] = s[i]
  <2>1. i \in 1 .. n - 1 + 1 /\ 1 + i - 1 = i
    OBVIOUS
  <2>2. QED
    BY <1>4, <2>1
<1>7. QED
  BY <1>3, <1>4, <1>5, <1>6

(* A stream that lost its end. *)
LEMMA WithoutEnd ==
  ASSUME NEW g \in Seq(Units), NEW b \in Seq(Units), NEW k \in 0 .. Len(b)
  PROVE  SubSeq(b, 1, k) \in Seq(Units) /\ Within(g \o SubSeq(b, 1, k), g \o b, 0)
<1>1. k \in Nat /\ k <= Len(b) /\ Len(b) \in Nat /\ Len(g) \in Nat
  OBVIOUS
<1>2. PICK c : c = SubSeq(b, 1, k)
  OBVIOUS
<1>3. c \in Seq(Units) /\ Len(c) = k /\ \A i \in 1 .. k : c[i] = b[i]
  BY <1>1, <1>2, FirstUnits
<1>4. /\ Len(g \o b) = Len(g) + Len(b) /\ g \o b \in Seq(Units)
      /\ \A i \in 1 .. Len(g) : (g \o b)[i] = g[i]
      /\ \A i \in 1 .. Len(b) : (g \o b)[i + Len(g)] = b[i]
  BY Joined
<1>5. /\ Len(g \o c) = Len(g) + k /\ g \o c \in Seq(Units)
      /\ \A i \in 1 .. Len(g) : (g \o c)[i] = g[i]
      /\ \A i \in 1 .. k : (g \o c)[i + Len(g)] = c[i]
  BY <1>3, Joined
<1>6. ASSUME NEW i \in 1 .. Len(g \o c) PROVE (g \o c)[i] = (g \o b)[i + 0]
  <2>1. CASE i \in 1 .. Len(g)
    BY <1>4, <1>5, <2>1
  <2>2. CASE i > Len(g)
    <3>1. i - Len(g) \in 1 .. k /\ (i - Len(g)) + Len(g) = i /\ i + 0 = i
      BY <1>1, <1>5, <2>2, Behind
    <3>2. i - Len(g) \in 1 .. Len(b)
      BY <1>1, <3>1
    <3>3. QED
      BY <1>3, <1>4, <1>5, <3>1, <3>2
  <2>3. QED
    BY <1>1, <1>5, <2>1, <2>2
<1>7. QED
  BY <1>1, <1>2, <1>3, <1>4, <1>5, <1>6 DEF Within

(* The server restarts, and loses what was under way to it and the end of   *)
(* what was to be sent.                                                     *)
LEMMA ServerRestartIInv ==
  ASSUME IInv, NEW k \in 0 .. Len(back), ServerRestart(k)
  PROVE  IInv'
<1>1. /\ torn' = IF line # <<>> \/ buf # <<>> \/ (pc = "send" /\ sent > 0) THEN "yes" ELSE torn
      /\ line' = <<>> /\ buf' = <<>> /\ done' = "no" /\ restarts' = restarts + 1
      /\ back' = SubSeq(back, 1, k)
      /\ UNCHANGED <<transport, pc, first, sent, got, ops, rx, executed, failed, outcome,
                     quiet, late>>
  BY DEF ServerRestart, client, hist
<1>2. Inbound' = <<>>
  <2>1. <<>> \o <<>> = <<>>
    BY ConcatEmptySeq
  <2>2. QED
    BY <1>1, <2>1 DEF Inbound
<1>3. After(Inbound', Inbound, Len(Inbound))
  BY <1>2, StreamTypes, AfterEverything DEF IInv
<1>4. TypeOK'
  <2>1. restarts' \in Nat
    BY <1>1 DEF IInv, TypeOK
  <2>2. torn' \in {"no", "yes"}
    BY <1>1 DEF IInv, TypeOK
  <2>3. back' \in Seq(Units)
    BY <1>1, WithoutEnd DEF IInv, TypeOK
  <2>4. QED
    BY <1>1, <2>1, <2>2, <2>3 DEF IInv, TypeOK
<1>5. Stepping'
  <2>1. CASE torn' # "no"
    BY <2>1 DEF Stepping
  <2>2. CASE torn' = "no"
    <3>1. line = <<>> /\ buf = <<>> /\ torn = "no" /\ ~(pc = "send" /\ sent > 0)
      BY <1>1, <2>2
    <3>2. Inbound' = Inbound
      BY <1>1, <3>1 DEF Inbound
    <3>3. done = "no"
      BY <3>1 DEF IInv, Stepping, ServerInStep
    <3>4. \A c \in Calls : WasSent(c)' <=> WasSent(c)
      BY <1>1 DEF WasSent
    <3>5. QED
      BY <1>1, <3>1, <3>2, <3>3, <3>4, SteppingKept DEF IInv
  <2>3. QED
    BY <2>1, <2>2
<1>6. Within(Outbound', Outbound, 0)
  <2>1. PICK g \in Seq(Units) : g = got \o rx
    BY Joined DEF IInv, TypeOK
  <2>2. Within(g \o SubSeq(back, 1, k), g \o back, 0)
    BY WithoutEnd DEF IInv, TypeOK
  <2>3. QED
    BY <1>1, <2>1, <2>2 DEF Outbound
<1>7. QED
  BY <1>1, <1>3, <1>4, <1>5, <1>6, ServerDrops

(* A header is read.  Where no request was cut, one is there. *)
LEMMA ReadHeaderIInv ==
  ASSUME IInv, ReadHeader
  PROVE  IInv'
<1> DEFINE p == SubSeq(line, 1, 2)
<1>1. /\ buf = <<>> /\ done = "no" /\ Len(line) >= 2
      /\ UNCHANGED <<pc, first, sent, got, ops, back, rx, executed, failed, outcome, quiet, late, torn,
                     restarts>>
  BY DEF ReadHeader, client, hist
<1>2. line \in Seq(Units) /\ Len(line) \in Nat /\ Inbound = line
  <2>1. line \in Seq(Units)
    BY DEF IInv, TypeOK
  <2>2. <<>> \o line = line
    BY <2>1, ConcatEmptySeq
  <2>3. QED
    BY <1>1, <2>1, <2>2 DEF Inbound
<1>3. p \in Seq(Units) /\ Len(p) = 2 /\ p[1] = line[1] /\ p[2] = line[2]
  <2>1. \A i \in 1 .. 2 : line[i] \in Units
    BY <1>1, <1>2
  <2>2. QED
    BY <2>1, <1>1, <1>2, SubSeqProperties
<1>4. /\ 1 \in 1 .. Len(line) /\ 2 \in 1 .. Len(line) /\ line[1] \in Units /\ line[2] \in Units
      /\ Genuine(ops, line[1]) /\ Genuine(ops, line[2])
      /\ line[1].way = "request" /\ line[2].way = "request" /\ ops \in Seq(Operations)
  BY <1>1, <1>2 DEF IInv, Streams, Requests, AllGenuine, TypeOK
<1>5. After(SubSeq(line, 3, Len(line)), line, 2)
  <2>1. 2 \in 0 .. Len(line) /\ 2 + 1 = 3
    BY <1>1, <1>2
  <2>2. QED
    BY <1>2, <2>1, AfterSubSeq
<1>6. SubSeq(line, 3, Len(line)) \in Seq(Units) /\ Len(SubSeq(line, 3, Len(line))) = Len(line) - 2
  BY <1>5 DEF After
<1>7. CASE /\ HasSize(p) /\ buf' = p /\ line' = SubSeq(line, 3, Len(line))
           /\ UNCHANGED <<done, transport>>
  <2>1. TypeOK'
    BY <1>1, <1>3, <1>6, <1>7 DEF IInv, TypeOK
  <2>2. Inbound' = Inbound
    <3>1. PICK q \in Seq(Units) : q = p \o SubSeq(line, 3, Len(line))
      BY <1>3, <1>6, ConcatProperties
    <3>2. Len(q) = Len(line)
      BY <1>2, <1>3, <1>6, <3>1, ConcatProperties
    <3>3. ASSUME NEW i \in 1 .. Len(line) PROVE q[i] = line[i]
      <4>1. CASE i \in 1 .. 2
        <5>1. q[i] = p[i]
          BY <1>3, <1>6, <3>1, <4>1, Joined
        <5>2. i = 1 \/ i = 2
          BY <4>1
        <5>3. QED
          BY <1>3, <5>1, <5>2
      <4>2. CASE i > 2
        <5>1. i - 2 \in 1 .. Len(line) - 2 /\ (i - 2) + 2 = i
          BY <1>2, <4>2
        <5>2. q[(i - 2) + 2] = SubSeq(line, 3, Len(line))[i - 2]
          BY <1>3, <1>6, <3>1, <5>1, Joined
        <5>3. SubSeq(line, 3, Len(line))[i - 2] = line[(i - 2) + 2]
          BY <1>5, <1>6, <5>1 DEF After
        <5>4. QED
          BY <5>1, <5>2, <5>3
      <4>3. QED
        BY <1>2, <4>1, <4>2
    <3>4. q = line
      BY <1>2, <3>2, <3>3, SeqEqual
    <3>5. QED
      BY <1>2, <1>7, <3>1, <3>4 DEF Inbound
  <2>3. Outbound' = Outbound /\ This' = This
    BY <1>1 DEF Outbound, This
  <2>4. After(Inbound', Inbound, 0) /\ After(Outbound', Outbound, 0)
    BY <2>2, <2>3, AfterNothing, StreamTypes DEF IInv
  <2>5. Streams'
    BY <1>1, <2>4, AfterWithin, StreamsKept DEF IInv
  <2>6. Bounded'
    <3>1. PICK m \in Nat : Bounds(m)
      BY DEF IInv, Bounded
    <3>2. SameAnswers
      BY <1>1 DEF SameAnswers, Answered, Returned
    <3>3. HeadIsOut => HeadIsOut'
      BY <1>1 DEF HeadIsOut
    <3>4. Bounds(m)'
      BY <1>1, <2>4, <3>1, <3>2, <3>3, AfterWithin, BoundsKept
    <3>5. QED
      BY <3>4 DEF Bounded
  <2>7. LateOldest'
    BY <1>1, <1>7, <2>2, <2>3 DEF IInv, LateOldest, Empty, OldestLate
  <2>8. QuietClean'
    <3>1. SUFFICES ASSUME pc # "idle", This \in quiet PROVE Clean'
      BY <1>1, <2>3 DEF QuietClean
    <3>2. Clean
      BY <3>1 DEF IInv, QuietClean
    <3>3. line[1].kind = "mark"
      BY <1>3, <1>7 DEF HasSize
    <3>4. line[1].pos = 1
      BY <1>4, <3>3, GenuineUnit
    <3>5. line[1].pos = sent - Len(line) + 1
      BY <1>2, <1>4, <3>2 DEF Clean
    <3>6. sent \in Nat
      BY DEF IInv, TypeOK
    <3>7. Len(line) = sent
      BY <1>2, <3>4, <3>5, <3>6
    <3>8. Len(Inbound') = sent'
      BY <1>1, <1>2, <2>2, <3>7
    <3>9. QED
      BY <1>1, <1>7, <2>2, <2>3, <3>2, <3>8 DEF Clean
  <2>9. Stepping'
    <3>1. \A c \in Calls : WasSent(c)' <=> WasSent(c)
      BY <1>1 DEF WasSent
    <3>2. QED
      BY <1>1, <1>7, <2>2, <3>1, SteppingKept DEF IInv
  <2>10. Phase'
    <3>1. HasSize(buf)'
      BY <1>7 DEF HasSize
    <3>2. Len(buf') = 2 /\ done' = "no"
      BY <1>1, <1>3, <1>7
    <3>3. QED
      BY <1>1, <2>3, <3>1, <3>2 DEF IInv, Phase
  <2>11. Answers'
    BY <1>1, AnswersKept DEF IInv
  <2>12. QED
    BY <2>1, <2>5, <2>6, <2>7, <2>8, <2>9, <2>10, <2>11 DEF IInv
<1>8. CASE /\ ~HasSize(p) /\ UNCHANGED buf
           /\ transport' \in IF transport = "any" THEN Transports ELSE {transport}
           /\ line' = IF transport' = "ser" THEN <<>> ELSE SubSeq(line, 3, Len(line))
           /\ done' = IF transport' = "ser" THEN "no" ELSE "yes"
  <2>1. TypeOK'
    <3>1. line' \in Seq(Units)
      BY <1>6, <1>8
    <3>2. transport' \in Transports \cup {"any"} /\ done' \in {"no", "yes"}
      BY <1>8 DEF IInv, TypeOK
    <3>3. QED
      BY <1>1, <1>8, <3>1, <3>2 DEF IInv, TypeOK
  <2>2. Inbound' = line'
    <3>1. <<>> \o line' = line'
      BY <2>1, ConcatEmptySeq DEF TypeOK
    <3>2. QED
      BY <1>1, <1>8, <3>1 DEF Inbound
  <2>3. PICK k : After(Inbound', Inbound, k)
    <3>1. CASE transport' = "ser"
      BY <1>2, <1>8, <2>2, <3>1, AfterEverything
    <3>2. CASE transport' # "ser"
      BY <1>2, <1>5, <1>8, <2>2, <3>2
    <3>3. QED
      BY <3>1, <3>2
  <2>4. torn # "no"
    <3>1. SUFFICES ASSUME torn = "no" PROVE FALSE
      OBVIOUS
    <3>2. Unbroken(ops, line)
      BY <1>2, <3>1 DEF IInv, Stepping, InStep
    <3>3. line[1].pos = 1
      BY <1>1, <1>2, <3>2 DEF Unbroken
    <3>4. Whole(ops, line[1]) \in Nat /\ Whole(ops, line[1]) >= 4 /\ line[1].kind = "mark"
      BY <1>4, <3>3, GenuineUnit
    <3>5. 1 \in 1 .. Len(line) - 1 /\ 1 + 1 = 2
      BY <1>1, <1>2
    <3>6. Follows(line[1], line[1 + 1])
      BY <3>2, <3>3, <3>4, <3>5 DEF Unbroken
    <3>7. line[2].pos = 2
      BY <3>3, <3>5, <3>6 DEF Follows
    <3>8. line[2].kind = "len"
      BY <1>4, <3>7, GenuineUnit
    <3>9. QED
      BY <1>3, <1>8, <3>4, <3>8 DEF HasSize
  <2>5. Stepping'
    BY <1>1, <2>4 DEF Stepping
  <2>6. Inbound # <<>>
    BY <1>1, <1>2
  <2>7. Within(Outbound', Outbound, 0)
    <3>1. Outbound' = Outbound
      BY <1>1 DEF Outbound
    <3>2. QED
      BY <3>1, AfterNothing, AfterWithin, StreamTypes DEF IInv
  <2>8. QED
    BY <1>1, <1>8, <2>1, <2>3, <2>5, <2>6, <2>7, ServerDrops
<1>9. QED
  BY <1>7, <1>8 DEF ReadHeader

(* The current call while it is under way. *)
LEMMA ThisCall ==
  ASSUME IInv, pc # "idle"
  PROVE  /\ ops \in Seq(Operations) /\ This \in 1 .. Len(ops) /\ This \in Nat
         /\ ops[This] \in Operations /\ This = Len(outcome) + 1 /\ Len(outcome) \in Nat
<1>1. ops \in Seq(Operations) /\ Len(outcome) \in Nat
  BY DEF IInv, TypeOK
<1>2. This = Len(outcome) + 1 /\ This = Len(ops)
  BY DEF IInv, Phase, This
<1>3. This \in 1 .. Len(ops) /\ This \in Nat
  BY <1>1, <1>2
<1>4. QED
  BY <1>1, <1>2, <1>3

(* A request under way carries no unit that was not sent yet. *)
LEMMA SentBefore ==
  ASSUME IInv, pc # "idle", NEW i \in 1 .. Len(Inbound)
  PROVE  /\ Inbound[i] \in Units /\ Genuine(ops, Inbound[i]) /\ Inbound[i].way = "request"
         /\ Inbound[i].call \in Nat /\ Inbound[i].pos \in Nat /\ Inbound[i].call <= This
         /\ Inbound[i].call = This => Inbound[i].pos <= sent
<1>1. Inbound[i] \in Units /\ Genuine(ops, Inbound[i]) /\ Inbound[i].way = "request"
  BY StreamTypes DEF IInv, Streams, Requests, AllGenuine
<1>2. Inbound[i].call \in 1 .. Len(ops) /\ Inbound[i].call \in Nat /\ Inbound[i].pos \in Nat
  BY <1>1, ThisCall, GenuineUnit
<1>3. Inbound[i].call <= This
  BY <1>2, ThisCall DEF This
<1>4. PICK m \in Nat : Bounds(m)
  BY DEF IInv, Bounded
<1>5. Inbound[i].call = This => Inbound[i].pos <= sent
  BY <1>4 DEF Bounds
<1>6. QED
  BY <1>1, <1>2, <1>3, <1>5

(* A unit of the request is sent. *)
LEMMA SendIInv ==
  ASSUME IInv, Send
  PROVE  IInv'
<1>1. /\ pc = "send" /\ line' = Append(line, Request(This)[sent + 1]) /\ sent' = sent + 1
      /\ pc' = IF sent + 1 = Len(Request(This)) THEN "read" ELSE "send"
      /\ UNCHANGED <<transport, first, got, ops, back, rx, buf, done, executed, failed, outcome, quiet,
                     late, torn, restarts>>
  BY DEF Send, server, hist
<1>2. /\ ops \in Seq(Operations) /\ This \in 1 .. Len(ops) /\ This \in Nat
      /\ This = Len(outcome) + 1 /\ Len(outcome) \in Nat
  BY <1>1, ThisCall
<1>3. PICK w \in Nat : /\ w = Len(RequestOf(ops[This])) /\ w = Len(Request(This))
                       /\ sent \in Nat /\ sent < w
  <2>1. sent < Len(RequestOf(ops[This])) /\ sent \in Nat
    BY <1>1 DEF IInv, Phase, TypeOK
  <2>2. "request" \in Ways
    BY DEF Ways
  <2>3. Len(Request(This)) = Len(RequestOf(ops[This])) /\ Len(RequestOf(ops[This])) \in Nat
    BY <1>2, <2>2, PacketUnits DEF Request
  <2>4. QED
    BY <2>1, <2>3
<1>4. PICK u \in Units : /\ u = Request(This)[sent + 1] /\ Genuine(ops, u) /\ u.call = This
                         /\ u.way = "request" /\ u.pos = sent + 1
  <2>1. "request" \in Ways
    BY DEF Ways
  <2>2. sent + 1 \in 1 .. Len(RequestOf(ops[This]))
    BY <1>3
  <2>3. PICK u : u = Request(This)[sent + 1]
    OBVIOUS
  <2>4. /\ u = [kind |-> RequestOf(ops[This])[sent + 1], call |-> This, way |-> "request",
                pos |-> sent + 1]
        /\ u \in Units /\ Genuine(ops, u)
    BY <1>2, <2>1, <2>2, <2>3, PacketUnits DEF Request
  <2>5. QED
    BY <2>3, <2>4
<1>5. /\ Whole(ops, u) = w /\ (u.kind = "end" <=> sent + 1 = w) /\ (u.kind = "head" => sent = 2)
      /\ w >= 4
  <2>1. Whole(ops, u) = w
    BY <1>3, <1>4 DEF Whole, KindsOf
  <2>2. (u.kind = "end" <=> u.pos = w) /\ (u.kind = "head" <=> u.pos = 3) /\ w >= 4
    BY <1>2, <1>4, <2>1, GenuineUnit
  <2>3. QED
    BY <1>3, <1>4, <2>1, <2>2
<1>6. PICK s \in Seq(Units) : s = Inbound /\ Inbound' = Append(s, u)
  <2>1. buf \in Seq(Units) /\ line \in Seq(Units) /\ Inbound \in Seq(Units)
    BY StreamTypes DEF IInv, TypeOK
  <2>2. buf \o Append(line, u) = Append(buf \o line, u)
    BY <2>1
  <2>3. QED
    BY <1>1, <1>4, <2>1, <2>2 DEF Inbound
<1>7. PICK n \in Nat : /\ n = Len(s) /\ Len(Inbound') = n + 1 /\ Inbound'[n + 1] = u
                       /\ \A i \in 1 .. n : Inbound'[i] = s[i]
  <2>1. Len(s) \in Nat
    BY <1>6
  <2>2. /\ Len(Inbound') = Len(s) + 1 /\ Inbound'[Len(s) + 1] = u
        /\ \A i \in 1 .. Len(s) : Inbound'[i] = s[i]
    BY <1>6
  <2>3. QED
    BY <2>1, <2>2
<1>8. \A i \in 1 .. n + 1 : i \in 1 .. n \/ i = n + 1
  OBVIOUS
<1>9. ASSUME NEW i \in 1 .. n
      PROVE  /\ s[i] \in Units /\ Genuine(ops, s[i]) /\ s[i].way = "request"
             /\ s[i].call \in Nat /\ s[i].pos \in Nat /\ s[i].call <= This
             /\ s[i].call = This => s[i].pos <= sent
  BY <1>1, <1>6, <1>7, SentBefore
<1>10. Outbound' = Outbound /\ This' = This /\ Calls' = Calls
  BY <1>1 DEF Outbound, This, Calls
<1>11. TypeOK'
  <2>1. line' \in Seq(Units)
    <3>1. line \in Seq(Units)
      BY DEF IInv, TypeOK
    <3>2. QED
      BY <1>1, <1>4, <3>1, AppendProperties
  <2>2. sent' \in Nat /\ pc' \in {"idle", "drain", "send", "read"}
    BY <1>1, <1>3
  <2>3. QED
    BY <1>1, <2>1, <2>2 DEF IInv, TypeOK
<1>12. Phase'
  <2>1. HasSize(buf)' = HasSize(buf)
    BY <1>1 DEF HasSize
  <2>2. got = <<>>
    BY <1>1 DEF IInv, Phase
  <2>3. pc' = IF sent + 1 = w THEN "read" ELSE "send"
    BY <1>1, <1>3
  <2>4. pc' = "send" => sent' < Len(RequestOf(ops'[This']))
    <3>1. sent + 1 = w \/ sent + 1 < w
      BY <1>3
    <3>2. QED
      BY <1>1, <1>3, <1>10, <2>3, <3>1
  <2>5. pc' = "read" => sent' = Len(RequestOf(ops'[This']))
    BY <1>1, <1>3, <1>10, <2>3
  <2>6. pc' \notin {"idle", "drain"}
    BY <2>3
  <2>7. QED
    BY <1>1, <1>2, <1>10, <2>1, <2>2, <2>4, <2>5, <2>6 DEF IInv, Phase
<1>13. Streams'
  <2>1. ASSUME NEW i \in 1 .. Len(s) PROVE Before(s[i], u)
    <3>1. /\ s[i].call \in Nat /\ s[i].pos \in Nat /\ s[i].call <= This
          /\ s[i].call = This => s[i].pos <= sent
      BY <1>7, <1>9
    <3>2. QED
      BY <1>2, <1>3, <1>4, <3>1 DEF Before
  <2>2. Requests(ops, s)
    BY <1>6 DEF IInv, Streams
  <2>3. Requests(ops, Append(s, u))
    BY <1>4, <2>1, <2>2, RequestsAppend
  <2>4. QED
    BY <1>1, <1>6, <1>10, <2>3 DEF IInv, Streams
<1>14. Bounded'
  <2>1. PICK m \in Nat : Bounds(m)
    BY DEF IInv, Bounded
  <2>2. m <= This /\ (sent <= 2 => m < This)
    BY <1>1, <1>3, <2>1 DEF Bounds, HeadIsOut
  <2>3. ~HeadIsOut' => m < This
    BY <1>1, <1>3, <2>2 DEF HeadIsOut
  <2>4. ASSUME NEW i \in 1 .. n + 1
        PROVE  /\ Inbound'[i].kind = "head" => m < Inbound'[i].call
               /\ Inbound'[i].call = This => Inbound'[i].pos <= sent + 1
    <3>1. CASE i \in 1 .. n
      <4>1. Inbound'[i] = s[i] /\ s[i].pos \in Nat /\ (s[i].call = This => s[i].pos <= sent)
        BY <1>7, <1>9, <3>1
      <4>2. s[i].kind = "head" => m < s[i].call
        BY <1>6, <1>7, <2>1, <3>1 DEF Bounds
      <4>3. QED
        BY <1>3, <4>1, <4>2
    <3>2. CASE i = n + 1
      BY <1>3, <1>4, <1>5, <1>7, <2>2, <3>2
    <3>3. QED
      BY <1>8, <3>1, <3>2
  <2>5. Answered' = Answered
    BY <1>1 DEF Answered, Returned
  <2>6. Bounds(m)'
    BY <1>1, <1>7, <1>10, <2>1, <2>2, <2>3, <2>4, <2>5 DEF Bounds
  <2>7. QED
    BY <2>6 DEF Bounded
<1>15. QuietClean'
  <2>1. SUFFICES ASSUME This \in quiet PROVE Clean'
    BY <1>1, <1>10 DEF QuietClean
  <2>2. Clean /\ Outbound = <<>>
    BY <1>1, <2>1 DEF IInv, QuietClean, Clean
  <2>3. n <= sent
    BY <1>6, <1>7, <2>2 DEF Clean
  <2>4. ASSUME NEW i \in 1 .. n + 1
        PROVE  Inbound'[i].call = This /\ Inbound'[i].pos = (sent + 1) - (n + 1) + i
    <3>1. CASE i \in 1 .. n
      <4>1. Inbound'[i] = s[i] /\ s[i].call = This /\ s[i].pos = sent - n + i
        BY <1>6, <1>7, <2>2, <3>1 DEF Clean
      <4>2. sent - n + i = (sent + 1) - (n + 1) + i
        BY <1>3
      <4>3. QED
        BY <4>1, <4>2
    <3>2. CASE i = n + 1
      BY <1>3, <1>4, <1>7, <3>2
    <3>3. QED
      BY <1>8, <3>1, <3>2
  <2>5. n + 1 <= sent + 1 /\ (buf # <<>> => n + 1 = sent + 1)
    BY <1>3, <1>6, <1>7, <2>2, <2>3 DEF Clean
  <2>6. QED
    BY <1>1, <1>7, <1>10, <2>2, <2>4, <2>5 DEF Clean
<1>16. LateOldest'
  <2>1. CASE late = {}
    BY <1>1, <1>10, <2>1 DEF IInv, LateOldest
  <2>2. CASE late # {}
    <3>1. PICK e \in late : OldestLate(e)
      BY <2>2 DEF IInv, LateOldest
    <3>2. e <= This
      <4>1. e \in 1 .. Len(outcome)
        BY DEF IInv, Phase
      <4>2. QED
        BY <1>2, <4>1
    <3>3. ASSUME NEW i \in 1 .. n + 1 PROVE e <= Inbound'[i].call
      BY <1>4, <1>6, <1>7, <1>8, <3>1, <3>2 DEF OldestLate
    <3>4. OldestLate(e)'
      BY <1>7, <1>10, <3>1, <3>3 DEF OldestLate
    <3>5. QED
      BY <1>1, <2>2, <3>4 DEF LateOldest
  <2>3. QED
    BY <2>1, <2>2
<1>17. Stepping'
  <2>1. SUFFICES ASSUME torn = "no" PROVE InStep' /\ ServerInStep'
    BY <1>1 DEF Stepping
  <2>2. InStep /\ ServerInStep
    BY <2>1 DEF IInv, Stepping
  <2>3. InStep'
    <3>1. Unbroken(ops, s)
      BY <1>6, <2>2 DEF InStep
    <3>2. ASSUME sent > 0 PROVE Unbroken(ops, Append(s, u))
      <4>1. n > 0 /\ s[n].call = This /\ s[n].pos = sent
        BY <1>1, <1>6, <1>7, <2>2, <3>2 DEF InStep
      <4>2. n \in 1 .. n
        BY <4>1
      <4>3. s[n].way = "request" /\ Whole(ops, s[n]) = w
        <5>1. s[n].way = "request"
          BY <1>9, <4>2
        <5>2. QED
          BY <1>3, <4>1, <5>1 DEF Whole, KindsOf
      <4>4. Follows(s[n], u)
        BY <1>4, <4>1, <4>3 DEF Follows
      <4>5. n > 0 /\ s[n].pos < Whole(ops, s[n])
        BY <1>3, <4>1, <4>3
      <4>6. QED
        BY <1>7, <3>1, <4>4, <4>5, UnbrokenAppend
    <3>3. ASSUME ~(sent > 0) PROVE Unbroken(ops, Append(s, u))
      <4>1. u.pos = 1
        BY <1>3, <1>4, <3>3
      <4>2. n > 0 => s[n].pos = Whole(ops, s[n])
        BY <1>6, <1>7, <2>2, <3>3 DEF InStep
      <4>3. n > 0 => s[n].pos \in Nat
        <5>1. n > 0 => n \in 1 .. n
          OBVIOUS
        <5>2. QED
          BY <1>9, <5>1
      <4>4. ~(n > 0 /\ s[n].pos < Whole(ops, s[n]))
        BY <4>2, <4>3
      <4>5. QED
        BY <1>7, <3>1, <4>1, <4>4, UnbrokenAppend
    <3>4. Unbroken(ops', Inbound')
      BY <1>1, <1>6, <3>2, <3>3
    <3>5. pc' = "read" => u.pos = Whole(ops, u)
      BY <1>1, <1>3, <1>4, <1>5
    <3>6. n + 1 > 0
      OBVIOUS
    <3>7. CASE pc' = "send"
      <4>1. Inbound'[Len(Inbound')].call = This' /\ Inbound'[Len(Inbound')].pos = sent'
        BY <1>1, <1>4, <1>7, <1>10
      <4>2. Len(Inbound') > 0 /\ sent' > 0
        BY <1>1, <1>3, <1>7, <3>6
      <4>3. QED
        BY <3>4, <3>7, <4>1, <4>2 DEF InStep
    <3>8. CASE pc' = "read"
      <4>1. Inbound'[Len(Inbound')].pos = Whole(ops', Inbound'[Len(Inbound')])
        BY <1>1, <1>7, <3>5, <3>8
      <4>2. QED
        BY <3>4, <3>8, <4>1 DEF InStep
    <3>9. QED
      BY <1>1, <3>7, <3>8
  <2>4. WasSent(This)' <=> u.kind = "end"
    <3>1. ~(This <= Len(outcome))
      BY <1>2
    <3>2. WasSent(This)' <=> pc' = "read"
      BY <1>1, <1>10, <3>1 DEF WasSent
    <3>3. pc' = "read" <=> sent + 1 = w
      BY <1>1, <1>3
    <3>4. QED
      BY <1>5, <3>2, <3>3
  <2>5. ~WasSent(This) /\ \A c \in Calls : c # This => (WasSent(c)' <=> WasSent(c))
    <3>1. ~(This <= Len(outcome))
      BY <1>2
    <3>2. ASSUME NEW c \in Calls, c # This PROVE WasSent(c)' <=> WasSent(c)
      <4>1. c <= Len(outcome)
        BY <1>2, <3>2 DEF Calls, This
      <4>2. QED
        BY <1>1, <4>1 DEF WasSent
    <3>3. QED
      BY <1>1, <3>1, <3>2 DEF WasSent
  <2>6. /\ Waiting = {i \in 1 .. n : s[i].kind = "end"}
        /\ Waiting' = Waiting \cup {i \in {n + 1} : u.kind = "end"}
        /\ \A i \in Waiting : Inbound'[i] = s[i] /\ i \in 1 .. n
    <3>1. Waiting = {i \in 1 .. n : s[i].kind = "end"}
      BY <1>6, <1>7 DEF Waiting
    <3>2. Waiting' = {i \in 1 .. n + 1 : Inbound'[i].kind = "end"}
      BY <1>7 DEF Waiting
    <3>3. 1 .. n \subseteq 1 .. n + 1 /\ n + 1 \in 1 .. n + 1 /\ n + 1 \notin 1 .. n
      OBVIOUS
    <3>4. QED
      BY <1>7, <1>8, <3>1, <3>2, <3>3
  <2>7. ASSUME NEW i \in Waiting PROVE s[i].call < This
    <3>1. /\ i \in 1 .. n /\ s[i].kind = "end" /\ s[i] \in Units /\ Genuine(ops, s[i])
          /\ s[i].way = "request" /\ s[i].call \in Nat /\ s[i].pos \in Nat /\ s[i].call <= This
          /\ s[i].call = This => s[i].pos <= sent
      BY <1>9, <2>6
    <3>2. s[i].pos = Whole(ops, s[i])
      BY <1>2, <3>1, GenuineUnit
    <3>3. s[i].call = This => Whole(ops, s[i]) = w
      BY <1>3, <3>1 DEF Whole, KindsOf
    <3>4. s[i].call # This
      BY <1>3, <3>1, <3>2, <3>3
    <3>5. QED
      BY <1>2, <3>1, <3>4
  <2>8. ASSUME NEW i \in 1 .. Len(executed) PROVE executed[i] < This
    <3>1. executed[i] \in {c \in Calls : WasSent(c)}
      BY <2>2, <2>1 DEF ServerInStep
    <3>2. executed[i] \in Calls /\ executed[i] # This
      BY <2>5, <3>1
    <3>3. QED
      BY <1>2, <3>2 DEF Calls, This
  <2>9. \A i, j \in Waiting' : i < j => Inbound'[i].call < Inbound'[j].call
    <3>1. SUFFICES ASSUME NEW i \in Waiting', NEW j \in Waiting', i < j
                   PROVE  Inbound'[i].call < Inbound'[j].call
      OBVIOUS
    <3>2. i \in Waiting
      BY <2>6, <3>1
    <3>3. CASE j \in Waiting
      BY <1>6, <2>1, <2>2, <2>6, <3>1, <3>2, <3>3 DEF ServerInStep
    <3>4. CASE j = n + 1
      BY <1>4, <1>7, <2>6, <2>7, <3>2, <3>4
    <3>5. QED
      BY <2>6, <3>3, <3>4
  <2>10. \A i \in 1 .. Len(executed), j \in Waiting' : executed[i] < Inbound'[j].call
    <3>1. SUFFICES ASSUME NEW i \in 1 .. Len(executed), NEW j \in Waiting'
                   PROVE  executed[i] < Inbound'[j].call
      OBVIOUS
    <3>2. CASE j \in Waiting
      BY <1>6, <2>1, <2>2, <2>6, <3>2 DEF ServerInStep
    <3>3. CASE j = n + 1
      BY <1>4, <1>7, <2>8, <3>3
    <3>4. QED
      BY <2>6, <3>2, <3>3
  <2>11. {c \in Calls : WasSent(c)}' =
           {executed[i] : i \in 1 .. Len(executed)} \cup {Inbound'[j].call : j \in Waiting'}
    <3>1. {c \in Calls : WasSent(c)} =
            {executed[i] : i \in 1 .. Len(executed)} \cup {s[j].call : j \in Waiting}
      BY <1>6, <2>1, <2>2 DEF ServerInStep
    <3>2. {c \in Calls : WasSent(c)}' = {c \in Calls : WasSent(c)} \cup {c \in {This} : u.kind = "end"}
      <4>1. This \in Calls
        BY <1>2 DEF Calls
      <4>2. QED
        BY <1>10, <2>4, <2>5, <4>1
    <3>3. {Inbound'[j].call : j \in Waiting'} =
            {s[j].call : j \in Waiting} \cup {c \in {This} : u.kind = "end"}
      BY <1>4, <1>7, <2>6
    <3>4. QED
      BY <3>1, <3>2, <3>3
  <2>12. ServerInStep'
    <3>1. done' = "no" /\ \A i, j \in 1 .. Len(executed) : i < j => executed[i] < executed[j]
      BY <1>1, <2>1, <2>2 DEF ServerInStep
    <3>2. QED
      BY <1>1, <2>9, <2>10, <2>11, <3>1 DEF ServerInStep
  <2>13. QED
    BY <2>3, <2>12
<1>18. Answers'
  BY <1>1, AnswersKept DEF IInv
<1>19. QED
  BY <1>11, <1>12, <1>13, <1>14, <1>15, <1>16, <1>17, <1>18 DEF IInv

-----------------------------------------------------------------------------
(* What the client has read after one more unit. *)
LEMMA ReadSoFar ==
  ASSUME TypeOK, rx # <<>>, NEW p, p = Append(got, Head(rx))
  PROVE  /\ p \in Seq(Units) /\ Len(p) \in Nat /\ Len(p) >= 1 /\ Len(p) <= Len(Outbound)
         /\ \A k \in 1 .. Len(p) : p[k] = Outbound[k]
         /\ After(<<>> \o Tail(rx) \o back, Outbound, Len(p))
         /\ p \o Tail(rx) \o back = Outbound
<1>1. /\ got \in Seq(Units) /\ rx \in Seq(Units) /\ back \in Seq(Units) /\ Head(rx) \in Units
      /\ Tail(rx) \in Seq(Units)
  BY DEF TypeOK
<1>2. p \in Seq(Units) /\ Len(p) = Len(got) + 1 /\ Len(got) \in Nat
  BY <1>1, AppendProperties
<1>3. p \o Tail(rx) \o back = Outbound
  BY <1>1, OutboundAfter DEF Outbound
<1>4. p \o Tail(rx) \o back = p \o (Tail(rx) \o back)
  <2>1. PICK q \in Seq(Units) : q = p
    BY <1>2
  <2>2. (q \o Tail(rx)) \o back = q \o (Tail(rx) \o back)
    BY <1>1, UnitsAssociate, Zenon
  <2>3. QED
    BY <2>1, <2>2, Zenon
<1>5. Tail(rx) \o back \in Seq(Units)
  BY <1>1, Joined
<1>6. /\ Len(Outbound) = Len(p) + Len(Tail(rx) \o back) /\ Len(Tail(rx) \o back) \in Nat
      /\ \A k \in 1 .. Len(p) : Outbound[k] = p[k]
  BY <1>2, <1>3, <1>4, <1>5, Joined
<1>7. After(<<>> \o Tail(rx) \o back, p \o Tail(rx) \o back, Len(p))
  BY <1>1, <1>2, OutboundAfter
<1>8. Len(p) \in Nat /\ Len(p) >= 1 /\ Len(p) <= Len(Outbound)
  <2>1. PICK g \in Nat : g = Len(got)
    BY <1>2
  <2>2. PICK b \in Nat : b = Len(Tail(rx) \o back)
    BY <1>6
  <2>3. g + 1 \in Nat /\ g + 1 >= 1 /\ g + 1 <= (g + 1) + b
    OBVIOUS
  <2>4. Len(p) = g + 1 /\ Len(Outbound) = (g + 1) + b
    BY <1>2, <1>6, <2>1, <2>2
  <2>5. QED
    BY <2>3, <2>4
<1>9. QED
  BY <1>2, <1>3, <1>6, <1>7, <1>8

(* A call made with nothing under way can read nothing but its own answer,  *)
(* and with it all that is under way.                                       *)
LEMMA CleanReads ==
  ASSUME IInv, pc = "read", This \in quiet, rx # <<>>, NEW p, p = Append(got, Head(rx))
  PROVE  /\ Len(p) >= 2 => HasSize(p)
         /\ Len(p) > 2 /\ Len(p) = SizeOf(p) =>
              /\ Accepted(p) \/ This \in failed
              /\ Len(Outbound) = Len(p) /\ Inbound = <<>> /\ done = "no"
<1>1. /\ p \in Seq(Units) /\ Len(p) \in Nat /\ Len(p) >= 1 /\ Len(p) <= Len(Outbound)
      /\ \A k \in 1 .. Len(p) : p[k] = Outbound[k]
  BY ReadSoFar DEF IInv
<1>2. Outbound # <<>> /\ Len(Outbound) \in Nat
  <2>1. Len(Outbound) \in Nat
    BY StreamTypes DEF IInv
  <2>2. Outbound = <<>> => Len(Outbound) = 0
    OBVIOUS
  <2>3. QED
    BY <1>1, <2>1, <2>2
<1>3. ASSUME NEW k \in 1 .. Len(p)
      PROVE  /\ p[k].call = This /\ p[k].way = "response" /\ p[k].pos = k
             /\ p[k] \in Units /\ Genuine(ops, p[k])
             /\ p[k].kind = "lost" => This \in failed
  <2>1. k \in 1 .. Len(Outbound)
    BY <1>1, <1>2
  <2>2. p[k] = Outbound[k] /\ p[k] \in Units
    BY <1>1
  <2>3. /\ Outbound[k].call = This /\ IsResp(Outbound[k]) /\ Outbound[k].pos = k
        /\ Outbound[k].kind = "lost" => This \in failed
    BY <1>2, <2>1 DEF IInv, QuietClean, Clean
  <2>4. Genuine(ops, Outbound[k])
    BY <2>1 DEF IInv, Streams, Responses, AllGenuine
  <2>5. QED
    BY <2>2, <2>3, <2>4 DEF IsResp
<1>4. ops \in Seq(Operations) /\ ops[This] \in Operations
  BY ThisCall
<1>5. ASSUME Len(p) >= 2 PROVE HasSize(p)
  <2>1. 1 \in 1 .. Len(p) /\ 2 \in 1 .. Len(p)
    BY <1>1, <1>5
  <2>2. p[1].pos = 1 /\ p[1] \in Units /\ Genuine(ops, p[1])
    BY <1>3, <2>1
  <2>3. p[2].pos = 2 /\ p[2] \in Units /\ Genuine(ops, p[2])
    BY <1>3, <2>1
  <2>4. p[1].kind = "mark"
    BY <1>4, <2>2, GenuineUnit
  <2>5. p[2].kind = "len"
    BY <1>4, <2>3, GenuineUnit
  <2>6. QED
    BY <2>4, <2>5 DEF HasSize
<1>6. ASSUME Len(p) > 2, Len(p) = SizeOf(p)
      PROVE  /\ Accepted(p) \/ This \in failed
             /\ Len(Outbound) = Len(p) /\ Inbound = <<>> /\ done = "no"
  <2>1. 2 \in 1 .. Len(p) /\ 3 \in 1 .. Len(p) /\ Len(p) \in 1 .. Len(p)
    BY <1>1, <1>6
  <2>2. PICK n \in Nat : n = Len(p) /\ n = Len(ResponseOf(ops[This]))
    BY <1>1, <1>3, <1>6, <2>1 DEF SizeOf
  <2>3. p[3].kind = "head" /\ p[3].way = "response" /\ ops[p[3].call] = ops[This]
    <3>1. /\ p[3].call = This /\ p[3].way = "response" /\ p[3].pos = 3
          /\ p[3] \in Units /\ Genuine(ops, p[3])
      BY <1>3, <2>1, Zenon
    <3>2. p[3].kind = "head"
      BY <1>4, <3>1, GenuineUnit
    <3>3. QED
      BY <3>1, <3>2, Zenon
  <2>4. p[n].kind = "end" \/ This \in failed
    <3>1. Whole(ops, p[n]) = n /\ p[n].pos = n
      BY <1>3, <2>1, <2>2 DEF Whole, KindsOf
    <3>2. QED
      BY <1>3, <1>4, <2>1, <2>2, <3>1, GenuineUnit
  <2>5. Len(p) >= n /\ Len(IF "response" = "request" THEN RequestOf(ops[This])
                                                   ELSE ResponseOf(ops[This])) = n
    BY <2>2
  <2>6. Accepted(p) \/ This \in failed
    BY <2>3, <2>4, <2>5 DEF Accepted, WellFormed
  <2>7. Len(Outbound) <= n /\ Inbound = <<>> /\ done # "yes"
    BY <1>2, <2>2 DEF IInv, QuietClean, Clean
  <2>8. Len(Outbound) = Len(p)
    BY <1>1, <1>2, <2>2, <2>7
  <2>9. done = "no"
    BY <2>7 DEF IInv, TypeOK
  <2>10. QED
    BY <2>6, <2>7, <2>8, <2>9
<1>7. QED
  BY <1>5, <1>6

(* Nothing is under way when it has read an answer.                         *)
LEMMA CleanReturn ==
  ASSUME IInv, pc = "read", This \in quiet, rx # <<>>, NEW p, p = Append(got, Head(rx)),
         Len(p) > 2, Len(p) = SizeOf(p), After(Outbound', Outbound, Len(p)),
         UNCHANGED <<buf, line, done>>
  PROVE  Empty'
<1>1. Len(Outbound) = Len(p) /\ Inbound = <<>> /\ done = "no"
  BY CleanReads
<1>2. Outbound' \in Seq(Units) /\ Len(Outbound') = Len(Outbound) - Len(p) /\ Len(Outbound) \in Nat
  BY StreamTypes DEF After, IInv
<1>3. Outbound' = <<>>
  BY <1>1, <1>2
<1>4. QED
  BY <1>1, <1>3 DEF Empty, Inbound

(* What is accepted is one whole response. *)
LEMMA AcceptedIsWhole ==
  ASSUME IInv, pc = "read", rx # <<>>, NEW p, p = Append(got, Head(rx)),
         Len(p) > 2, Len(p) = SizeOf(p), Accepted(p), NEW d, d = p[3].call
  PROVE  /\ d \in 1 .. Len(ops) /\ Origin(p) = d /\ ops[d] = ops[This]
         /\ Len(p) = Len(ResponseOf(ops[d]))
         /\ \A k \in 1 .. Len(p) : IsPlaced(Outbound, k, d, "response")
<1>1. /\ p \in Seq(Units) /\ Len(p) \in Nat /\ Len(p) >= 1 /\ Len(p) <= Len(Outbound)
      /\ \A k \in 1 .. Len(p) : p[k] = Outbound[k]
  BY ReadSoFar DEF IInv
<1>2. Outbound \in Seq(Units) /\ Len(Outbound) \in Nat /\ Responses(ops, Outbound)
  BY StreamTypes DEF IInv, Streams
<1>3. 2 \in 1 .. Len(p) /\ 3 \in 1 .. Len(p) /\ 3 \in 1 .. Len(Outbound)
  BY <1>1, <1>2
<1>4. p[3].kind = "head" /\ p[3].way = "response" /\ ops[d] = ops[This]
  BY DEF Accepted, WellFormed
<1>5. p[3] = Outbound[3] /\ p[2] = Outbound[2]
  BY <1>1, <1>3
<1>6. Outbound[3] \in Units /\ Genuine(ops, Outbound[3]) /\ IsResp(Outbound[3])
  BY <1>2, <1>3, <1>4, <1>5 DEF Responses, AllGenuine, IsResp
<1>7. ops \in Seq(Operations)
  BY DEF IInv, TypeOK
<1>8. d \in 1 .. Len(ops)
  BY <1>5, <1>6, <1>7, GenuineUnit
<1>9. PICK n \in Nat : n = Whole(ops, Outbound[3]) /\ n >= 4 /\ n = Len(ResponseOf(ops[d]))
  <2>1. Whole(ops, Outbound[3]) = Len(ResponseOf(ops[d]))
    BY <1>4, <1>5 DEF Whole, KindsOf
  <2>2. QED
    BY <1>6, <1>7, <2>1, GenuineUnit
<1>10. /\ Len(p) >= n /\ p[n].kind = "end"
       /\ \A k \in 1 .. n : IsPlaced(Outbound, k, d, "response") /\ Outbound[k].kind # "lost"
  <2>1. Len(Outbound) >= 3 /\ Outbound[3].kind = "head" /\ Outbound[3].call = d
    BY <1>1, <1>2, <1>4, <1>5
  <2>2. Len(p) >= n /\ p[n].kind = "end"
    BY <1>4, <1>9 DEF Accepted, WellFormed
  <2>3. Len(Outbound) >= n /\ Outbound[n].kind = "end"
    <3>1. n \in 1 .. Len(p)
      BY <1>1, <1>9, <2>2
    <3>2. p[n] = Outbound[n]
      BY <1>1, <3>1
    <3>3. Len(Outbound) >= n
      BY <1>1, <1>2, <1>9, <2>2
    <3>4. QED
      BY <2>2, <3>2, <3>3
  <2>4. QED
    BY <1>2, <1>6, <1>7, <1>9, <2>1, <2>2, <2>3, FirstResponse
<1>11. Len(p) = n
  <2>1. 2 \in 1 .. n
    BY <1>9
  <2>2. IsPlaced(Outbound, 2, d, "response")
    BY <1>10, <2>1
  <2>3. QED
    BY <1>5, <1>9, <2>2 DEF IsPlaced, SizeOf
<1>12. AllGenuine(ops, p)
  <2>1. \A k \in 1 .. Len(p) : k \in 1 .. Len(Outbound)
    BY <1>1, <1>2
  <2>2. QED
    BY <1>1, <1>2, <2>1 DEF Responses, AllGenuine
<1>13. \A k \in 1 .. n : IsPlaced(p, k, d, "response") /\ p[k].kind # "lost"
  BY <1>1, <1>10, <1>11 DEF IsPlaced
<1>14. p = Response(d)
  <2>1. PICK w \in Ways : w = "response"
    BY DEF Ways
  <2>2. PICK ks : ks = ResponseOf(ops[d])
    OBVIOUS
  <2>3. ks = IF w = "request" THEN RequestOf(ops[d]) ELSE ResponseOf(ops[d])
    BY <2>1, <2>2
  <2>4. Len(p) = Len(ks) /\ \A k \in 1 .. Len(ks) : IsPlaced(p, k, d, w) /\ p[k].kind # "lost"
    BY <1>9, <1>11, <1>13, <2>1, <2>2
  <2>5. p = Packet(ks, d, w)
    <3>1. p \in Seq(Units)
      BY <1>1
    <3>2. QED
      BY ONLY <1>7, <1>8, <1>12, <2>1, <2>3, <2>4, <3>1, PlacedIsPacket
  <2>6. QED
    BY <2>1, <2>2, <2>5 DEF Response
<1>15. Origin(p) = d
  BY <1>14 DEF Origin
<1>16. QED
  BY <1>4, <1>8, <1>9, <1>10, <1>11, <1>15

(* A call ends with an answer. *)
LEMMA AnsweredReturn ==
  ASSUME IInv, pc = "read", rx # <<>>, NEW p, p = Append(got, Head(rx)),
         Len(p) > 2, Len(p) = SizeOf(p), Accepted(p), Return("answered", Origin(p)),
         rx' = Tail(rx),
         UNCHANGED <<transport, ops, line, back, buf, done, executed, failed, quiet, late, torn, restarts>>
  PROVE  IInv'
<1>1. PICK d \in Nat : /\ d = Origin(p) /\ d = p[3].call /\ d \in 1 .. Len(ops)
                       /\ ops[d] = ops[This] /\ Len(p) = Len(ResponseOf(ops[d]))
                       /\ \A k \in 1 .. Len(p) : IsPlaced(Outbound, k, d, "response")
  <2>1. PICK d : d = p[3].call
    OBVIOUS
  <2>2. /\ d \in 1 .. Len(ops) /\ Origin(p) = d /\ ops[d] = ops[This]
        /\ Len(p) = Len(ResponseOf(ops[d]))
        /\ \A k \in 1 .. Len(p) : IsPlaced(Outbound, k, d, "response")
    BY <2>1, AcceptedIsWhole
  <2>3. d \in Nat
    BY <2>2
  <2>4. QED
    BY <2>1, <2>2, <2>3
<1>2. PICK r \in Hows : r = "answered"
  BY DEF Hows
<1>3. /\ Phase' /\ outcome' \in Seq(Outcomes)
      /\ pc' = "idle" /\ first' = "mark" /\ sent' = 0 /\ got' = <<>>
      /\ outcome' = Append(outcome, [how |-> "answered", of |-> d])
      /\ This = Len(outcome) + 1 /\ Len(outcome) \in Nat /\ Len(outcome') = Len(outcome) + 1
  BY <1>1, <1>2, ReturnPhase
<1>4. PICK n \in Nat : /\ n = Len(p) /\ n >= 1 /\ n <= Len(Outbound)
                       /\ After(Outbound', Outbound, n) /\ n = Len(ResponseOf(ops[d]))
  <2>1. /\ Len(p) \in Nat /\ Len(p) >= 1 /\ Len(p) <= Len(Outbound)
        /\ After(<<>> \o Tail(rx) \o back, Outbound, Len(p))
    BY ReadSoFar DEF IInv
  <2>2. Outbound' = <<>> \o Tail(rx) \o back
    BY <1>3 DEF Outbound
  <2>3. QED
    BY <1>1, <2>1, <2>2
<1>5. Inbound' = Inbound /\ This' = This
  BY DEF Inbound, This
<1>6. After(Inbound', Inbound, 0)
  BY <1>5, AfterNothing, StreamTypes DEF IInv
<1>7. TypeOK'
  <2>1. rx' \in Seq(Units)
    BY DEF IInv, TypeOK
  <2>2. /\ pc' \in {"idle", "drain", "send", "read"} /\ first' \in AnyKind /\ sent' \in Nat
        /\ got' \in Seq(Units)
    BY <1>3 DEF AnyKind, Kinds
  <2>3. QED
    BY <1>3, <2>1, <2>2 DEF IInv, TypeOK
<1>8. Streams'
  BY <1>4, <1>6, AfterWithin, StreamsKept DEF IInv
<1>9. PICK m \in Nat : Bounds(m)
  BY DEF IInv, Bounded
<1>10. /\ Outbound \in Seq(Units) /\ Len(Outbound) \in Nat /\ n \in 1 .. Len(Outbound)
       /\ \A k \in 1 .. Len(Outbound) : Outbound[k] \in Units
  BY <1>4, StreamTypes DEF IInv
<1>11. Outbound[n].call = d /\ IsResp(Outbound[n]) /\ Outbound[n].pos = n
  <2>1. n \in 1 .. Len(p)
    BY <1>4
  <2>2. QED
    BY <1>1, <2>1 DEF IsPlaced, IsResp
<1>12. d <= m /\ \A c \in Answered : outcome[c].of < d
  BY <1>9, <1>10, <1>11 DEF Bounds
<1>13. /\ Answered' = Answered \cup {This} /\ This \notin Answered
       /\ \A c \in Answered : outcome'[c] = outcome[c]
       /\ outcome'[This].of = d /\ Returned' = Returned \cup {This}
  <2>1. /\ \A c \in Returned : outcome'[c] = outcome[c]
        /\ outcome'[Len(outcome) + 1] = [how |-> "answered", of |-> d]
        /\ Answered' = Answered \cup {Len(outcome) + 1}
        /\ Returned' = Returned \cup {Len(outcome) + 1}
    BY <1>3, ReturnOutcome DEF IInv
  <2>2. outcome'[Len(outcome) + 1].of = d
    BY <2>1
  <2>3. Answered \subseteq Returned /\ Len(outcome) + 1 \notin Returned
    BY <1>3 DEF Answered, Returned
  <2>4. QED
    BY <1>3, <2>1, <2>2, <2>3
<1>14. Bounded'
  <2>1. ASSUME NEW i \in 1 .. Len(Outbound'), IsResp(Outbound'[i])
        PROVE  Outbound'[i].call <= m /\ d < Outbound'[i].call
               /\ \A c \in Answered : outcome[c].of < Outbound'[i].call
    <3>1. i + n \in 1 .. Len(Outbound) /\ Outbound'[i] = Outbound[i + n] /\ i \in Nat /\ i >= 1
      BY <1>4, AfterIndex
    <3>2. PICK v \in Units : v = Outbound[i + n]
      BY <1>10, <3>1
    <3>3. v.call <= m /\ \A c \in Answered : outcome[c].of < v.call
      BY <1>9, <2>1, <3>1, <3>2 DEF Bounds
    <3>4. n < i + n
      BY <3>1
    <3>5. Before(Outbound[n], v)
      BY <1>10, <1>11, <2>1, <3>1, <3>2, <3>4 DEF IInv, Streams, Responses
    <3>6. Genuine(ops, v) /\ ops \in Seq(Operations)
      BY <3>1, <3>2 DEF IInv, Streams, Responses, AllGenuine, TypeOK
    <3>7. v.call \in Nat /\ v.pos \in Nat /\ v.pos <= Whole(ops, v)
      BY <3>6, GenuineUnit
    <3>8. v.call # d
      <4>1. SUFFICES ASSUME v.call = d PROVE FALSE
        OBVIOUS
      <4>2. Whole(ops, v) = n
        <5>1. v.way = "response"
          BY <2>1, <3>1, <3>2 DEF IsResp
        <5>2. QED
          BY <1>4, <4>1, <5>1 DEF Whole, KindsOf
      <4>3. n < v.pos
        BY <1>11, <3>5, <3>7, <4>1 DEF Before
      <4>4. QED
        BY <3>7, <4>2, <4>3
    <3>9. d < v.call
      BY <1>11, <3>5, <3>8 DEF Before
    <3>10. QED
      BY <3>1, <3>2, <3>3, <3>9
  <2>2. m <= This'
    BY <1>5, <1>9 DEF Bounds
  <2>3. HeadIsOut'
    BY <1>3 DEF HeadIsOut
  <2>4. \A i \in 1 .. Len(Inbound') : Inbound'[i].kind = "head" => m < Inbound'[i].call
    BY <1>5, <1>9 DEF Bounds
  <2>5. \A c \in Answered' : outcome'[c].of <= m
    BY <1>9, <1>12, <1>13 DEF Bounds
  <2>6. \A i \in 1 .. Len(Outbound') : IsResp(Outbound'[i]) =>
          /\ Outbound'[i].call <= m
          /\ \A c \in Answered' : outcome'[c].of < Outbound'[i].call
    BY <1>13, <2>1
  <2>7. Bounds(m)'
    BY <1>3, <2>2, <2>3, <2>4, <2>5, <2>6 DEF Bounds, IsResp
  <2>8. QED
    BY <2>7 DEF Bounded
<1>15. QuietClean'
  BY <1>3 DEF QuietClean
<1>16. This \in quiet => d = This /\ Empty'
  <2>1. SUFFICES ASSUME This \in quiet PROVE d = This /\ Empty'
    OBVIOUS
  <2>2. Clean
    BY <2>1 DEF IInv, QuietClean
  <2>3. Outbound # <<>>
    BY <1>4
  <2>4. d = This
    BY <1>10, <1>11, <2>2, <2>3 DEF Clean
  <2>5. Empty'
    BY <1>4, <2>1, CleanReturn
  <2>6. QED
    BY <2>4, <2>5
<1>17. LateOldest'
  <2>1. CASE late # {}
    <3>1. PICK e \in late : OldestLate(e)
      BY <2>1 DEF IInv, LateOldest
    <3>2. OldestLate(e)'
      BY <1>4, <1>6, <3>1, AfterWithin, OldestKept
    <3>3. QED
      BY <2>1, <3>2 DEF LateOldest
  <2>2. CASE late = {}
    <3>1. This \in quiet
      BY <2>2 DEF IInv, LateOldest
    <3>2. QED
      BY <1>3, <1>16, <2>2, <3>1 DEF LateOldest
  <2>3. QED
    BY <2>1, <2>2
<1>18. Stepping'
  <2>1. \A c \in Calls : WasSent(c)' <=> WasSent(c)
    BY <1>3, SentAtReturn DEF IInv
  <2>2. QED
    BY <1>3, <1>5, <2>1, SteppingKept DEF IInv
<1>19. AnswerIsOwnOrLate'
  <2>1. d \in 1 .. This
    BY <1>1 DEF This
  <2>2. d # This => This \notin quiet /\ \E e \in late : e <= d
    <3>1. SUFFICES ASSUME d # This PROVE This \notin quiet /\ \E e \in late : e <= d
      OBVIOUS
    <3>2. This \notin quiet
      BY <1>16, <3>1
    <3>3. PICK e \in late : OldestLate(e)
      BY <3>2 DEF IInv, LateOldest
    <3>4. e <= d
      BY <1>10, <1>11, <3>3 DEF OldestLate
    <3>5. QED
      BY <3>2, <3>4
  <2>3. ASSUME NEW c \in Answered'
        PROVE  LET a == outcome'[c].of IN
               /\ a \in 1 .. c /\ ops'[a] = ops'[c]
               /\ a # c => c \notin quiet' /\ \E e \in late' : e <= a
    <3>1. CASE c \in Answered
      BY <1>13, <3>1 DEF IInv, Answers, AnswerIsOwnOrLate
    <3>2. CASE c = This
      BY <1>1, <1>13, <2>1, <2>2, <3>2
    <3>3. QED
      BY <1>13, <3>1, <3>2
  <2>4. ASSUME NEW c \in Answered', NEW e \in Answered', c < e
        PROVE  outcome'[c].of < outcome'[e].of
    <3>1. c \in Answered
      <4>1. SUFFICES ASSUME c = This PROVE FALSE
        BY <1>13
      <4>2. e \in 1 .. Len(outcome')
        BY DEF Answered, Returned
      <4>3. QED
        BY <1>3, <2>4, <4>1, <4>2
    <3>2. CASE e \in Answered
      BY <1>13, <2>4, <3>1, <3>2 DEF IInv, Answers, AnswerIsOwnOrLate
    <3>3. CASE e = This
      BY <1>12, <1>13, <3>1, <3>3
    <3>4. QED
      BY <1>13, <3>2, <3>3
  <2>5. QED
    BY <2>3, <2>4 DEF AnswerIsOwnOrLate
<1>20. FailureHasCause'
  BY <1>13 DEF IInv, Answers, FailureHasCause
<1>21. QED
  BY <1>3, <1>7, <1>8, <1>14, <1>15, <1>17, <1>18, <1>19, <1>20 DEF IInv, Answers

(* The client reads a unit. *)
LEMMA ReceiveIInv ==
  ASSUME IInv, Receive
  PROVE  IInv'
<1>1. PICK p : p = Append(got, Head(rx))
  OBVIOUS
<1>2. /\ pc = "read" /\ rx # <<>> /\ rx' = Tail(rx)
      /\ UNCHANGED <<transport, ops, line, back, buf, done, executed, failed, quiet, late, torn, restarts>>
  BY DEF Receive, server
<1>3. \/ Len(p) = 2 /\ ~HasSize(p) /\ Return("garbled", None)
      \/ Len(p) >= 2 /\ HasSize(p) /\ Complete(p) /\ Accepted(p) /\ Return("answered", Origin(p))
      \/ Len(p) >= 2 /\ HasSize(p) /\ Complete(p) /\ ~Accepted(p) /\ Return("refused", None)
      \/ got' = p /\ UNCHANGED <<pc, first, sent, outcome>>
  BY <1>1 DEF Receive
<1>4. /\ p \in Seq(Units) /\ Len(p) \in Nat
      /\ After(<<>> \o Tail(rx) \o back, Outbound, Len(p))
      /\ p \o Tail(rx) \o back = Outbound
  BY <1>1, <1>2, ReadSoFar DEF IInv
<1>5. rx' \in Seq(Units)
  BY <1>2 DEF IInv, TypeOK
<1>6. ASSUME NEW r \in Hows, Return(r, None), r # "answered", r # "unsent",
             This \notin quiet \/ (This \in failed /\ Empty')
      PROVE  IInv'
  <2>1. outcome' \in Seq(Outcomes) /\ pc' = "idle" /\ first' = "mark" /\ sent' = 0 /\ got' = <<>>
    BY <1>2, <1>6, ReturnPhase DEF None
  <2>2. TypeOK'
    BY <1>2, <1>5, <2>1 DEF IInv, TypeOK, AnyKind, Kinds
  <2>3. After(Outbound', Outbound, Len(p))
    BY <1>2, <1>4, <2>1 DEF Outbound
  <2>4. QED
    BY <1>2, <1>6, <2>2, <2>3, FailedReturn
<1>7. CASE Len(p) = 2 /\ ~HasSize(p) /\ Return("garbled", None)
  <2>1. This \notin quiet
    <3>1. Len(p) >= 2
      BY <1>4, <1>7
    <3>2. QED
      BY <1>1, <1>2, <1>7, <3>1, CleanReads
  <2>2. PICK r \in Hows : r = "garbled"
    BY DEF Hows
  <2>3. QED
    BY <1>6, <1>7, <2>1, <2>2
<1>8. CASE Len(p) >= 2 /\ HasSize(p) /\ Complete(p) /\ Accepted(p) /\ Return("answered", Origin(p))
  BY <1>1, <1>2, <1>8, AnsweredReturn DEF Complete
<1>9. CASE Len(p) >= 2 /\ HasSize(p) /\ Complete(p) /\ ~Accepted(p) /\ Return("refused", None)
  <2>1. This \notin quiet \/ (This \in failed /\ Empty')
    <3>1. got' = <<>>
      BY <1>9 DEF Return
    <3>2. After(Outbound', Outbound, Len(p))
      BY <1>2, <1>4, <3>1 DEF Outbound
    <3>3. ASSUME This \in quiet PROVE This \in failed /\ Empty'
      <4>1. Len(p) > 2 /\ Len(p) = SizeOf(p)
        BY <1>9 DEF Complete
      <4>2. This \in failed
        BY <1>1, <1>2, <1>9, <3>3, <4>1, CleanReads
      <4>3. Empty'
        BY <1>1, <1>2, <3>2, <3>3, <4>1, CleanReturn
      <4>4. QED
        BY <4>2, <4>3
    <3>4. QED
      BY <3>3
  <2>2. PICK r \in Hows : r = "refused"
    BY DEF Hows
  <2>3. QED
    BY <1>6, <1>9, <2>1, <2>2
<1>10. CASE got' = p /\ UNCHANGED <<pc, first, sent, outcome>>
  <2>1. Outbound' = Outbound
    BY <1>2, <1>4, <1>10 DEF Outbound
  <2>2. TypeOK'
    BY <1>2, <1>4, <1>5, <1>10 DEF IInv, TypeOK
  <2>3. Phase'
    <3>1. HasSize(buf)' = HasSize(buf)
      BY <1>2 DEF HasSize
    <3>2. QED
      BY <1>2, <1>10, <3>1 DEF IInv, Phase, This
  <2>4. QuietClean'
    <3>1. Inbound' = Inbound /\ This' = This
      BY <1>2 DEF Inbound, This
    <3>2. QED
      BY <1>2, <1>10, <2>1, <3>1 DEF IInv, QuietClean, Clean
  <2>5. After(Outbound', Outbound, 0)
    BY <2>1, StreamTypes, AfterNothing DEF IInv
  <2>6. QED
    BY <1>2, <1>10, <2>2, <2>3, <2>4, <2>5, ListenStep
<1>11. QED
  BY <1>3, <1>7, <1>8, <1>9, <1>10

-----------------------------------------------------------------------------
(* Units are taken twice. *)
LEMMA AfterAfter ==
  ASSUME NEW a, NEW b, NEW c, NEW k, NEW l, After(a, b, k), After(b, c, l)
  PROVE  After(a, c, l + k)
<1>0. a \in Seq(Units) /\ b \in Seq(Units) /\ c \in Seq(Units)
  BY DEF After
<1>1. PICK x \in Nat : x = Len(a)
  BY <1>0
<1>2. PICK y \in Nat : y = Len(b)
  BY <1>0
<1>3. PICK z \in Nat : z = Len(c)
  BY <1>0
<1>4. x = y - k /\ y = z - l /\ k \in 0 .. y /\ l \in 0 .. z
  BY <1>1, <1>2, <1>3 DEF After
<1>5. l + k \in 0 .. z /\ x = z - (l + k)
  BY <1>4
<1>6. ASSUME NEW i \in 1 .. x PROVE a[i] = c[i + (l + k)]
  <2>1. i + k \in 1 .. y /\ (i + k) + l = i + (l + k)
    BY <1>4
  <2>2. a[i] = b[i + k]
    BY <1>1 DEF After
  <2>3. b[i + k] = c[(i + k) + l]
    BY <1>2, <2>1 DEF After
  <2>4. QED
    BY <2>1, <2>2, <2>3
<1>7. QED
  BY <1>1, <1>3, <1>5, <1>6 DEF After

(* The size w of a packet and what is left of it after the header. *)
LEMMA HeaderLeft ==
  ASSUME NEW w \in Nat, w >= 4, NEW n, n = w - 2, NEW m \in Nat, m >= n
  PROVE  n \in Nat /\ n \in 1 .. m /\ n \in 0 .. m /\ w = 2 + n /\ 2 \in Nat /\ n >= 1
OBVIOUS

(* The packet that the server takes: as many units as the length in the     *)
(* header says.                                                             *)
LEMMA ServedUnits ==
  ASSUME IInv, buf # <<>>, NEW n, n = SizeOf(buf) - 2, Len(line) >= n,
         NEW p, p = buf \o SubSeq(line, 1, n), NEW rest, rest = SubSeq(line, n + 1, Len(line))
  PROVE  \E w \in Nat :
           /\ w >= 4 /\ w <= Len(Inbound) /\ w = Whole(ops, Inbound[2])
           /\ p \in Seq(Units) /\ Len(p) = w /\ (\A k \in 1 .. w : p[k] = Inbound[k])
           /\ After(rest, Inbound, w)
<1>1. /\ buf \in Seq(Units) /\ line \in Seq(Units) /\ Len(line) \in Nat /\ Len(buf) = 2
      /\ ops \in Seq(Operations)
  BY DEF IInv, TypeOK, Phase
<1>2. /\ Len(Inbound) = Len(buf) + Len(line) /\ \A k \in 1 .. Len(buf) : Inbound[k] = buf[k]
      /\ \A k \in 1 .. Len(line) : Inbound[k + Len(buf)] = line[k]
      /\ After(line, Inbound, Len(buf))
  BY <1>1, Joined DEF Inbound
<1>3. Len(Inbound) = 2 + Len(line)
  BY <1>1, <1>2
<1>4. \A k \in 1 .. Len(line) : Inbound[k + 2] = line[k]
  BY <1>1, <1>2
<1>5. 2 \in 1 .. Len(Inbound) /\ Inbound[2] = buf[2] /\ Inbound[1] = buf[1]
  <2>1. 1 \in 1 .. Len(buf) /\ 2 \in 1 .. Len(buf) /\ 2 \in 1 .. Len(Inbound)
    BY <1>1, <1>3
  <2>2. QED
    BY <1>2, <2>1
<1>6. Inbound[2] \in Units /\ Genuine(ops, Inbound[2]) /\ Inbound[2].way = "request"
  BY <1>5, StreamTypes DEF IInv, Streams, Requests, AllGenuine
<1>7. PICK w \in Nat : w = Whole(ops, Inbound[2]) /\ w >= 4
  BY <1>1, <1>6, GenuineUnit
<1>8. SizeOf(buf) = w
  BY <1>5, <1>6, <1>7 DEF SizeOf, Whole, KindsOf
<1>9. /\ n \in Nat /\ n \in 1 .. Len(line) /\ n \in 0 .. Len(line)
      /\ w = 2 + n /\ 2 \in Nat /\ n >= 1
  <2>1. n = w - 2
    BY <1>8, Zenon
  <2>2. QED
    BY <1>1, <1>7, <2>1, HeaderLeft, Zenon
<1>10. PICK q : q = SubSeq(line, 1, n)
  OBVIOUS
<1>11. q \in Seq(Units) /\ Len(q) = n /\ \A i \in 1 .. n : q[i] = line[i]
  BY <1>1, <1>9, <1>10, FirstUnits, Zenon
<1>12. /\ p \in Seq(Units) /\ Len(p) = 2 + n /\ p[1] = buf[1] /\ p[2] = buf[2]
       /\ \A k \in 1 .. n : p[k + 2] = q[k]
  <2>1. /\ p \in Seq(Units) /\ Len(p) = Len(buf) + Len(q)
        /\ \A k \in 1 .. Len(buf) : p[k] = buf[k]
        /\ \A k \in 1 .. Len(q) : p[k + Len(buf)] = q[k]
    <3>1. PICK x \in Seq(Units) : x = buf
      BY <1>1
    <3>2. PICK y \in Seq(Units) : y = q
      BY <1>11
    <3>3. p = x \o y
      BY <1>10, <3>1, <3>2
    <3>4. PICK z : z = x \o y
      OBVIOUS
    <3>5. /\ z \in Seq(Units) /\ Len(z) = Len(x) + Len(y)
          /\ \A k \in 1 .. Len(x) : z[k] = x[k]
          /\ \A k \in 1 .. Len(y) : z[k + Len(x)] = y[k]
      BY <3>4, Joined, Zenon
    <3>6. p = z
      BY <3>3, <3>4, Zenon
    <3>7. QED
      BY <3>1, <3>2, <3>5, <3>6, Zenon
  <2>2. 1 \in 1 .. Len(buf) /\ 2 \in 1 .. Len(buf)
    BY <1>1
  <2>3. p[1] = buf[1] /\ p[2] = buf[2]
    BY <2>1, <2>2
  <2>4. QED
    BY <1>1, <1>11, <2>1, <2>3
<1>13. ASSUME NEW k \in 1 .. w PROVE p[k] = Inbound[k]
  <2>1. CASE k = 1 \/ k = 2
    BY <1>5, <1>12, <2>1
  <2>2. CASE k > 2
    <3>1. k - 2 \in 1 .. n /\ (k - 2) + 2 = k
      <4>1. n \in Nat /\ w = 2 + n
        BY <1>9, Zenon
      <4>2. QED
        BY <2>2, <4>1, Behind
    <3>2. p[(k - 2) + 2] = q[k - 2] /\ q[k - 2] = line[k - 2]
      BY <1>11, <1>12, <3>1
    <3>3. Inbound[(k - 2) + 2] = line[k - 2]
      <4>1. k - 2 \in 1 .. Len(line)
        BY <1>1, <1>9, <3>1
      <4>2. QED
        BY <1>4, <4>1, Zenon
    <3>4. QED
      BY <3>1, <3>2, <3>3, Zenon
  <2>3. k = 1 \/ k = 2 \/ k > 2
    OBVIOUS
  <2>4. QED
    BY <2>1, <2>2, <2>3
<1>14. After(rest, line, n)
  BY <1>1, <1>9, AfterSubSeq
<1>15. After(rest, Inbound, w)
  <2>1. After(rest, Inbound, 2 + n)
    BY <1>1, <1>2, <1>14, AfterAfter
  <2>2. QED
    BY <1>9, <2>1
<1>16. w <= Len(Inbound) /\ Len(p) = w
  BY <1>1, <1>3, <1>9, <1>12
<1>17. QED
  BY <1>7, <1>12, <1>13, <1>15, <1>16

(* A whole request is understood. *)
LEMMA WholeRequest ==
  ASSUME IInv, NEW c \in 1 .. Len(ops), NEW p \in Seq(Units), Len(p) = Len(RequestOf(ops[c])),
         AllGenuine(ops, p), \A k \in 1 .. Len(p) : IsPlaced(p, k, c, "request")
  PROVE  /\ p = Request(c) /\ Origin(p) = c /\ p[3].call = c
         /\ \E o \in Operations : WellFormed(p, o, "request")
<1>1. ops \in Seq(Operations) /\ ops[c] \in Operations
  BY DEF IInv, TypeOK
<1>2. PICK n \in Nat : n = Len(RequestOf(ops[c])) /\ n >= 4
  BY <1>1, RequestLayout DEF Layout
<1>3. ASSUME NEW k \in 1 .. Len(p) PROVE p[k].kind # "lost"
  <2>1. Genuine(ops, p[k]) /\ p[k].way = "request"
    BY DEF AllGenuine, IsPlaced
  <2>2. PICK ks : ks = KindsOf(ops, p[k])
    OBVIOUS
  <2>3. p[k].kind = ks[p[k].pos] /\ p[k].pos \in 1 .. Len(ks)
    BY <2>1, <2>2 DEF Genuine, Whole
  <2>4. Layout(ks)
    <3>1. p[k].call = c
      BY DEF IsPlaced
    <3>2. ks = RequestOf(ops[c])
      BY <2>1, <2>2, <3>1 DEF KindsOf
    <3>3. QED
      BY <1>1, <3>2, RequestLayout
  <2>5. QED
    BY <2>3, <2>4 DEF Layout, Kinds
<1>4. p = Request(c)
  <2>1. PICK w \in Ways : w = "request"
    BY DEF Ways
  <2>2. PICK ks : ks = RequestOf(ops[c])
    OBVIOUS
  <2>3. ks = IF w = "request" THEN RequestOf(ops[c]) ELSE ResponseOf(ops[c])
    BY <2>1, <2>2
  <2>4. Len(p) = Len(ks) /\ \A k \in 1 .. Len(ks) : IsPlaced(p, k, c, w) /\ p[k].kind # "lost"
    BY <1>3, <2>1, <2>2
  <2>5. p = Packet(ks, c, w)
    BY <1>1, <2>3, <2>4, PlacedIsPacket
  <2>6. QED
    BY <2>1, <2>2, <2>5 DEF Request
<1>5. 3 \in 1 .. Len(p) /\ n \in 1 .. Len(p) /\ Len(p) = n /\ Len(p) >= n
  BY <1>2
<1>6. /\ p[3].call = c /\ p[3].way = "request" /\ p[3].pos = 3
      /\ p[n].way = "request" /\ p[n].pos = n
  BY <1>5 DEF IsPlaced
<1>7. p[3] \in Units /\ Genuine(ops, p[3]) /\ p[n] \in Units /\ Genuine(ops, p[n])
  BY <1>5 DEF AllGenuine
<1>8. Whole(ops, p[n]) = n
  BY <1>2, <1>5 DEF IsPlaced, Whole, KindsOf
<1>9. p[3].kind = "head" /\ p[n].kind = "end"
  BY <1>1, <1>6, <1>7, <1>8, GenuineUnit
<1>10. WellFormed(p, ops[c], "request")
  BY <1>2, <1>5, <1>6, <1>9 DEF WellFormed
<1>11. Origin(p) = c
  BY <1>4, <1>6 DEF Origin
<1>12. QED
  BY <1>1, <1>4, <1>6, <1>10, <1>11

(* What comes back for a request is put after what is under way. *)
LEMMA BackGrows ==
  ASSUME TypeOK, NEW q \in Seq(Units), back' = back \o q, UNCHANGED <<got, rx>>
  PROVE  Outbound' = Outbound \o q
<1>1. got \in Seq(Units) /\ rx \in Seq(Units) /\ back \in Seq(Units)
  BY DEF TypeOK
<1>2. PICK g \in Seq(Units) : g = got \o rx
  BY <1>1, Joined
<1>3. (g \o back) \o q = g \o (back \o q)
  BY <1>1, UnitsAssociate, Zenon
<1>4. QED
  BY <1>2, <1>3 DEF Outbound

(* The server answers call c with q. *)
Answering(q, c) ==
  /\ back' = back \o q
  /\ \/ q = Response(c) /\ failed' = failed
     \/ ops[c] = "read" /\ q = Failure(c) /\ failed' = failed \cup {c}

(* The server carries out a request or sends it back. *)
ServeSome(p, w) ==
  /\ buf # <<>> /\ w \in Nat /\ w >= 4 /\ w <= Len(Inbound) /\ w = Whole(ops, Inbound[2])
  /\ p \in Seq(Units) /\ Len(p) = w /\ (\A k \in 1 .. w : p[k] = Inbound[k])
  /\ After(Inbound', Inbound, w) /\ buf' = <<>> /\ line' \in Seq(Units)
  /\ IF \E o \in Operations : WellFormed(p, o, "request")
     THEN executed' = Append(executed, Origin(p)) /\ \E q : Answering(q, p[3].call)
     ELSE executed' = executed /\ back' = back \o p /\ failed' = failed
  /\ UNCHANGED <<transport, pc, first, sent, got, ops, rx, done, outcome, quiet, late, torn,
                 restarts>>

(* Serve is such a step. *)
LEMMA ServeTakes ==
  ASSUME IInv, Serve
  PROVE  \E p, w : ServeSome(p, w)
<1>1. PICK n, p : /\ n = SizeOf(buf) - 2 /\ p = buf \o SubSeq(line, 1, n) /\ Len(line) >= n
                  /\ line' = SubSeq(line, n + 1, Len(line)) /\ buf' = <<>>
                  /\ IF \E o \in Operations : WellFormed(p, o, "request")
                     THEN executed' = Append(executed, Origin(p)) /\ \E q : Answering(q, p[3].call)
                     ELSE back' = back \o p /\ executed' = executed /\ failed' = failed
  BY DEF Serve, AfterServing, Answering
<1>2. /\ buf # <<>>
      /\ UNCHANGED <<transport, pc, first, sent, got, ops, rx, done, outcome, quiet, late, torn,
                     restarts>>
  BY DEF Serve, client, hist
<1>3. PICK rest : rest = SubSeq(line, n + 1, Len(line))
  OBVIOUS
<1>4. PICK w \in Nat :
        /\ w >= 4 /\ w <= Len(Inbound) /\ w = Whole(ops, Inbound[2])
        /\ p \in Seq(Units) /\ Len(p) = w /\ (\A k \in 1 .. w : p[k] = Inbound[k])
        /\ After(rest, Inbound, w)
  BY <1>1, <1>2, <1>3, ServedUnits
<1>5. line' = rest /\ rest \in Seq(Units)
  BY <1>1, <1>3, <1>4 DEF After
<1>6. Inbound' = rest
  <2>1. <<>> \o rest = rest
    BY <1>5, ConcatEmptySeq
  <2>2. QED
    BY <1>1, <1>5, <2>1 DEF Inbound
<1>7. ServeSome(p, w)
  BY <1>1, <1>2, <1>4, <1>5, <1>6 DEF ServeSome
<1>8. QED
  BY <1>7

(* The units the server takes. *)
LEMMA ServeUnits ==
  ASSUME IInv, NEW p, NEW w, ServeSome(p, w)
  PROVE  /\ ops \in Seq(Operations) /\ AllGenuine(ops, p)
         /\ \A k \in 1 .. w : /\ k \in 1 .. Len(Inbound) /\ p[k] = Inbound[k] /\ p[k] \in Units
                              /\ Genuine(ops, p[k]) /\ p[k].way = "request"
<1>1. /\ w \in Nat /\ w <= Len(Inbound) /\ Len(p) = w /\ \A k \in 1 .. w : p[k] = Inbound[k]
  BY DEF ServeSome
<1>2. /\ ops \in Seq(Operations) /\ Len(Inbound) \in Nat
      /\ \A i \in 1 .. Len(Inbound) : Inbound[i] \in Units
      /\ \A i \in 1 .. Len(Inbound) : Genuine(ops, Inbound[i]) /\ Inbound[i].way = "request"
  BY StreamTypes DEF IInv, TypeOK, Streams, Requests, AllGenuine
<1>3. \A k \in 1 .. w : k \in 1 .. Len(Inbound)
  BY <1>1, <1>2
<1>4. QED
  BY <1>1, <1>2, <1>3 DEF AllGenuine

(* With nothing else under way the server takes the whole request. *)
LEMMA CleanServe ==
  ASSUME IInv, NEW p, NEW w, ServeSome(p, w), pc # "idle", This \in quiet
  PROVE  /\ p = Request(This) /\ p[3].call = This /\ pc = "read" /\ Inbound' = <<>>
         /\ \E o \in Operations : WellFormed(p, o, "request")
         /\ Outbound = <<>> /\ done = "no"
<1>1. /\ buf # <<>> /\ w \in Nat /\ w >= 4 /\ w <= Len(Inbound) /\ w = Whole(ops, Inbound[2])
      /\ p \in Seq(Units) /\ Len(p) = w /\ After(Inbound', Inbound, w)
  BY DEF ServeSome
<1>2. /\ ops \in Seq(Operations) /\ AllGenuine(ops, p)
      /\ \A k \in 1 .. w : /\ k \in 1 .. Len(Inbound) /\ p[k] = Inbound[k] /\ p[k] \in Units
                           /\ Genuine(ops, p[k]) /\ p[k].way = "request"
  BY ServeUnits
<1>3. PICK n \in Nat : n = Len(Inbound)
  BY StreamTypes DEF IInv
<1>4. Clean
  BY DEF IInv, QuietClean
<1>5. n = sent /\ \A i \in 1 .. n : Inbound[i].call = This /\ Inbound[i].pos = sent - n + i
  BY <1>1, <1>3, <1>4 DEF Clean
<1>6. \A k \in 1 .. w : IsPlaced(p, k, This, "request")
  <2>1. ASSUME NEW k \in 1 .. w PROVE IsPlaced(p, k, This, "request")
    <3>1. Inbound[k].call = This /\ Inbound[k].pos = sent - n + k
      BY <1>2, <1>3, <1>5
    <3>2. sent - n + k = k
      BY <1>1, <1>3, <1>5
    <3>3. QED
      BY <1>2, <3>1, <3>2 DEF IsPlaced
  <2>2. QED
    BY <2>1
<1>7. w = Len(RequestOf(ops[This]))
  <2>1. 2 \in 1 .. w
    BY <1>1
  <2>2. QED
    BY <1>1, <1>2, <1>6, <2>1, PlacedWhole
<1>8. /\ p = Request(This) /\ p[3].call = This
      /\ \E o \in Operations : WellFormed(p, o, "request")
  BY <1>1, <1>2, <1>6, <1>7, ThisCall, WholeRequest
<1>9. pc = "read" /\ n = w
  <2>1. sent >= w
    BY <1>1, <1>3, <1>5
  <2>2. pc \in {"drain", "send", "read"}
    BY DEF IInv, TypeOK
  <2>3. /\ pc = "drain" => sent = 0
        /\ pc = "send" => sent < w
        /\ pc = "read" => sent = w
    BY <1>7 DEF IInv, Phase
  <2>4. pc = "read"
    BY <1>1, <1>3, <1>5, <2>1, <2>2, <2>3
  <2>5. QED
    BY <1>5, <2>3, <2>4
<1>10. Inbound' = <<>>
  BY <1>1, <1>3, <1>9 DEF After
<1>11. Outbound = <<>> /\ done = "no"
  <2>1. Inbound # <<>>
    BY <1>1
  <2>2. QED
    BY <1>1, <1>4, <2>1 DEF Clean, IInv, Phase
<1>12. QED
  BY <1>8, <1>9, <1>10, <1>11

(* In step, the server takes the oldest request that was sent. *)
LEMMA SteppingServed ==
  ASSUME IInv, NEW p, NEW w, ServeSome(p, w), torn = "no"
  PROVE  Stepping'
<1>1. /\ buf # <<>> /\ w \in Nat /\ w >= 4 /\ w <= Len(Inbound) /\ w = Whole(ops, Inbound[2])
      /\ p \in Seq(Units) /\ Len(p) = w /\ After(Inbound', Inbound, w)
      /\ UNCHANGED <<pc, sent, ops, done, outcome, torn>>
  BY DEF ServeSome
<1>2. /\ ops \in Seq(Operations) /\ AllGenuine(ops, p)
      /\ \A k \in 1 .. w : /\ k \in 1 .. Len(Inbound) /\ p[k] = Inbound[k] /\ p[k] \in Units
                           /\ Genuine(ops, p[k]) /\ p[k].way = "request"
  BY ServeUnits
<1>3. PICK s \in Seq(Units) : s = Inbound /\ Requests(ops, s)
  BY StreamTypes DEF IInv, Streams
<1>4. PICK n \in Nat : n = Len(s)
  BY <1>3
<1>5. InStep /\ ServerInStep /\ Unbroken(ops, s)
  BY <1>3 DEF IInv, Stepping, InStep
<1>6. 1 \in 1 .. w /\ 2 \in 1 .. w /\ w \in 1 .. w /\ n > 0 /\ n >= w
  BY <1>1, <1>3, <1>4
<1>7. PICK c \in Nat : c = s[1].call /\ c \in 1 .. Len(ops)
  BY <1>2, <1>3, <1>6, GenuineUnit
<1>8. Whole(ops, s[1]) = w
  <2>1. s[1].pos = 1
    BY <1>4, <1>5, <1>6 DEF Unbroken
  <2>2. Whole(ops, s[1]) \in Nat /\ Whole(ops, s[1]) >= 4
    BY <1>2, <1>3, <1>6, GenuineUnit
  <2>3. 1 \in 1 .. n - 1 /\ 1 + 1 = 2
    BY <1>1, <1>6
  <2>4. Follows(s[1], s[1 + 1])
    BY <1>4, <1>5, <2>1, <2>2, <2>3 DEF Unbroken
  <2>5. s[2].way = s[1].way /\ s[2].call = s[1].call
    BY <2>3, <2>4 DEF Follows
  <2>6. QED
    BY <1>1, <1>3, <2>5 DEF Whole, KindsOf
<1>9. \A k \in 1 .. w : IsPlaced(s, k, c, "request")
  BY <1>2, <1>3, <1>4, <1>5, <1>6, <1>7, <1>8, FirstRequest
<1>10. w = Len(RequestOf(ops[c]))
  BY <1>6, <1>8, <1>9, PlacedWhole
<1>11. Origin(p) = c /\ \E o \in Operations : WellFormed(p, o, "request")
  <2>1. \A k \in 1 .. w : IsPlaced(p, k, c, "request")
    BY <1>2, <1>3, <1>9 DEF IsPlaced
  <2>2. QED
    BY <1>1, <1>2, <1>7, <1>10, <2>1, WholeRequest
<1>12. executed' = Append(executed, c)
  BY <1>11 DEF ServeSome
<1>13. s[w].call = c /\ s[w].pos = w /\ Whole(ops, s[w]) = w /\ s[w].kind = "end"
  <2>1. s[w].call = c /\ s[w].pos = w /\ s[w].way = "request"
    BY <1>6, <1>9 DEF IsPlaced
  <2>2. Whole(ops, s[w]) = w
    BY <1>10, <2>1 DEF Whole, KindsOf
  <2>3. QED
    BY <1>2, <1>3, <1>6, <2>1, <2>2, GenuineUnit
<1>14. PICK t \in Seq(Units) : t = Inbound'
  BY <1>1 DEF After
<1>15. PICK n1 \in Nat : n1 = Len(t)
  BY <1>14
<1>16. n1 = n - w /\ \A i \in 1 .. n1 : i + w \in 1 .. n /\ t[i] = s[i + w]
  <2>1. n1 = n - w
    BY <1>1, <1>3, <1>4, <1>14, <1>15 DEF After
  <2>2. ASSUME NEW i \in 1 .. n1 PROVE i + w \in 1 .. n /\ t[i] = s[i + w]
    BY <1>1, <1>3, <1>4, <1>14, <1>15, AfterIndex
  <2>3. QED
    BY <2>1, <2>2
<1>17. InStep'
  <2>1. Unbroken(ops, t)
    <3>1. w \in 1 .. Len(s) /\ ~(s[w].pos < Whole(ops, s[w]))
      BY <1>1, <1>4, <1>6, <1>13
    <3>2. QED
      BY <1>1, <1>3, <1>5, <1>14, <3>1, UnbrokenAfter
  <2>2. n1 > 0 => t[n1] = s[n]
    <3>1. n1 > 0 => n1 \in 1 .. n1 /\ n1 + w = n
      BY <1>1, <1>16
    <3>2. QED
      BY <1>16, <3>1
  <2>3. CASE pc = "send" /\ sent > 0
    <3>1. s[n].call = This /\ s[n].pos = sent /\ sent < Len(RequestOf(ops[This]))
      BY <1>3, <1>4, <1>5, <2>3 DEF InStep, IInv, Phase
    <3>2. n1 > 0
      <4>1. SUFFICES ASSUME n1 = 0 PROVE FALSE
        OBVIOUS
      <4>2. n = w
        BY <1>1, <1>16, <4>1
      <4>3. c = This /\ sent = w
        BY <1>13, <3>1, <4>2
      <4>4. QED
        BY <1>1, <1>10, <3>1, <4>3
    <3>3. QED
      BY <1>1, <1>14, <1>15, <2>1, <2>2, <2>3, <3>1, <3>2 DEF InStep, This
  <2>4. CASE ~(pc = "send" /\ sent > 0)
    <3>1. s[n].pos = Whole(ops, s[n])
      BY <1>3, <1>4, <1>5, <1>6, <2>4 DEF InStep
    <3>2. QED
      BY <1>1, <1>14, <1>15, <2>1, <2>2, <2>4, <3>1 DEF InStep
  <2>5. QED
    BY <2>3, <2>4
<1>18. Waiting = {i \in 1 .. n : s[i].kind = "end"} /\ w \in Waiting
  <2>1. Waiting = {i \in 1 .. n : s[i].kind = "end"}
    BY <1>3, <1>4 DEF Waiting
  <2>2. w \in 1 .. n
    BY <1>1, <1>6
  <2>3. QED
    BY <1>13, <2>1, <2>2
<1>19. Waiting' = {i \in 1 .. n1 : t[i].kind = "end"}
  BY <1>14, <1>15 DEF Waiting
<1>20. \A j \in Waiting' : j + w \in Waiting /\ t[j] = s[j + w] /\ j \in Nat /\ j >= 1
  <2>1. ASSUME NEW j \in Waiting'
        PROVE  j + w \in Waiting /\ t[j] = s[j + w] /\ j \in Nat /\ j >= 1
    <3>1. j \in 1 .. n1 /\ t[j].kind = "end"
      BY <1>19
    <3>2. j + w \in 1 .. n /\ t[j] = s[j + w] /\ j \in Nat /\ j >= 1
      BY <1>16, <3>1
    <3>3. j + w \in Waiting
      BY <1>18, <3>1, <3>2
    <3>4. QED
      BY <3>2, <3>3
  <2>2. QED
    BY <2>1
<1>21. ASSUME NEW j \in Waiting PROVE j = w \/ \E i \in Waiting' : j = i + w
  <2>1. j \in 1 .. n /\ s[j].kind = "end"
    BY <1>18
  <2>2. CASE j > w
    <3>1. j - w \in 1 .. n1 /\ (j - w) + w = j
      <4>1. n1 \in Nat /\ w \in Nat /\ n = w + n1
        BY <1>1, <1>16
      <4>2. QED
        BY <2>1, <2>2, <4>1, Behind
    <3>2. t[j - w] = s[j]
      BY <1>16, <3>1
    <3>3. j - w \in Waiting'
      BY <1>19, <2>1, <3>1, <3>2
    <3>4. QED
      BY <3>1, <3>3
  <2>3. CASE j \in 1 .. w
    <3>1. s[j].pos = j /\ s[j].call = c /\ s[j].way = "request"
      BY <1>9, <2>3 DEF IsPlaced
    <3>2. Whole(ops, s[j]) = w
      BY <1>10, <3>1 DEF Whole, KindsOf
    <3>3. s[j].pos = Whole(ops, s[j])
      BY <1>2, <1>3, <2>1, <2>3, GenuineUnit
    <3>4. QED
      BY <3>1, <3>2, <3>3
  <2>4. QED
    BY <1>1, <2>1, <2>2, <2>3
<1>22. executed \in Seq(Nat)
  BY DEF IInv, TypeOK
<1>23. PICK m \in Nat : /\ m = Len(executed) /\ Len(executed') = m + 1 /\ executed'[m + 1] = c
                        /\ \A i \in 1 .. m : executed'[i] = executed[i]
  <2>1. Len(executed) \in Nat
    BY <1>22
  <2>2. /\ Len(executed') = Len(executed) + 1 /\ executed'[Len(executed) + 1] = c
        /\ \A i \in 1 .. Len(executed) : executed'[i] = executed[i]
    BY <1>12, <1>22
  <2>3. QED
    BY <2>1, <2>2
<1>24. \A i \in 1 .. m + 1 : i \in 1 .. m \/ i = m + 1
  OBVIOUS
<1>25. /\ done = "no" /\ \A i, j \in 1 .. m : i < j => executed[i] < executed[j]
       /\ \A i, j \in Waiting : i < j => s[i].call < s[j].call
       /\ \A i \in 1 .. m, j \in Waiting : executed[i] < s[j].call
       /\ {x \in Calls : WasSent(x)} =
            {executed[i] : i \in 1 .. m} \cup {s[j].call : j \in Waiting}
  BY <1>3, <1>5, <1>23 DEF ServerInStep
<1>26. \A i \in 1 .. m : executed[i] < c
  BY <1>13, <1>18, <1>25
<1>27. \A j \in Waiting' : c < t[j].call
  <2>1. ASSUME NEW j \in Waiting' PROVE c < t[j].call
    <3>1. j + w \in Waiting /\ t[j] = s[j + w] /\ w < j + w
      BY <1>1, <1>20
    <3>2. QED
      BY <1>13, <1>18, <1>25, <3>1
  <2>2. QED
    BY <2>1
<1>28. \A i, j \in 1 .. m + 1 : i < j => executed'[i] < executed'[j]
  <2>1. SUFFICES ASSUME NEW i \in 1 .. m + 1, NEW j \in 1 .. m + 1, i < j
                 PROVE  executed'[i] < executed'[j]
    OBVIOUS
  <2>2. i \in 1 .. m
    BY <2>1
  <2>3. QED
    BY <1>23, <1>24, <1>25, <1>26, <2>1, <2>2
<1>29. \A i, j \in Waiting' : i < j => t[i].call < t[j].call
  <2>1. SUFFICES ASSUME NEW i \in Waiting', NEW j \in Waiting', i < j
                 PROVE  t[i].call < t[j].call
    OBVIOUS
  <2>2. i + w \in Waiting /\ j + w \in Waiting /\ t[i] = s[i + w] /\ t[j] = s[j + w]
    BY <1>20
  <2>3. i + w < j + w
    BY <1>1, <1>20, <2>1
  <2>4. QED
    BY <1>25, <2>2, <2>3
<1>30. \A i \in 1 .. m + 1, j \in Waiting' : executed'[i] < t[j].call
  <2>1. SUFFICES ASSUME NEW i \in 1 .. m + 1, NEW j \in Waiting'
                 PROVE  executed'[i] < t[j].call
    OBVIOUS
  <2>2. CASE i = m + 1
    BY <1>23, <1>27, <2>2
  <2>3. CASE i \in 1 .. m
    BY <1>20, <1>23, <1>25, <2>3
  <2>4. QED
    BY <1>24, <2>2, <2>3
<1>31. {executed'[i] : i \in 1 .. Len(executed')} \cup {t[j].call : j \in Waiting'} =
       {executed[i] : i \in 1 .. Len(executed)} \cup {s[j].call : j \in Waiting}
  <2>1. 1 .. m \subseteq 1 .. m + 1 /\ m + 1 \in 1 .. m + 1
    OBVIOUS
  <2>2. {executed'[i] : i \in 1 .. m + 1} = {executed[i] : i \in 1 .. m} \cup {c}
    BY <1>23, <1>24, <2>1
  <2>3. {s[j].call : j \in Waiting} = {c} \cup {t[j].call : j \in Waiting'}
    <3>1. ASSUME NEW j \in Waiting PROVE s[j].call \in {c} \cup {t[i].call : i \in Waiting'}
      <4>1. CASE j = w
        BY <1>13, <4>1
      <4>2. CASE j # w
        <5>1. PICK i \in Waiting' : j = i + w
          BY <1>21, <4>2
        <5>2. s[j].call = t[i].call
          BY <1>20, <5>1
        <5>3. QED
          BY <5>2
      <4>3. QED
        BY <4>1, <4>2
    <3>2. ASSUME NEW i \in Waiting' PROVE t[i].call \in {s[j].call : j \in Waiting}
      BY <1>20
    <3>3. c \in {s[j].call : j \in Waiting}
      BY <1>13, <1>18
    <3>4. QED
      BY <3>1, <3>2, <3>3
  <2>4. QED
    BY <1>23, <2>2, <2>3
<1>32. {x \in Calls : WasSent(x)}' = {x \in Calls : WasSent(x)}
  BY <1>1 DEF Calls, WasSent
<1>33. ServerInStep'
  <2>1. {x \in Calls : WasSent(x)}' =
          {executed'[i] : i \in 1 .. Len(executed')} \cup {Inbound'[j].call : j \in Waiting'}
    BY <1>14, <1>23, <1>25, <1>31, <1>32
  <2>2. QED
    BY <1>1, <1>14, <1>23, <1>25, <1>28, <1>29, <1>30, <2>1 DEF ServerInStep
<1>34. QED
  BY <1>17, <1>33 DEF Stepping

(* A unit of what is under way to the client after q was put behind it. *)
LEMMA GrownIndex ==
  ASSUME NEW s \in Seq(Units), NEW q \in Seq(Units), NEW i \in 1 .. Len(s \o q)
  PROVE  \/ i \in 1 .. Len(s) /\ (s \o q)[i] = s[i]
         \/ \E k \in 1 .. Len(q) : (s \o q)[i] = q[k]
<1>1. /\ Len(s) \in Nat /\ Len(q) \in Nat /\ Len(s \o q) = Len(s) + Len(q)
      /\ \A k \in 1 .. Len(s) : (s \o q)[k] = s[k]
      /\ \A k \in 1 .. Len(q) : (s \o q)[k + Len(s)] = q[k]
  BY Joined
<1>2. CASE i \in 1 .. Len(s)
  BY <1>1, <1>2
<1>3. CASE i > Len(s)
  <2>1. i - Len(s) \in 1 .. Len(q) /\ (i - Len(s)) + Len(s) = i
    BY <1>1, <1>3
  <2>2. (s \o q)[(i - Len(s)) + Len(s)] = q[i - Len(s)]
    BY <1>1, <2>1
  <2>3. QED
    BY <2>1, <2>2
<1>4. QED
  BY <1>1, <1>2, <1>3

(* The server serves what it takes for a request. *)
LEMMA ServeIInv ==
  ASSUME IInv, Serve
  PROVE  IInv'
<1>1. PICK p, w : ServeSome(p, w)
  BY ServeTakes
<1>2. /\ buf # <<>> /\ w \in Nat /\ w >= 4 /\ w <= Len(Inbound)
      /\ p \in Seq(Units) /\ Len(p) = w /\ After(Inbound', Inbound, w)
      /\ buf' = <<>> /\ line' \in Seq(Units)
      /\ UNCHANGED <<transport, pc, first, sent, got, ops, rx, done, outcome, quiet, late, torn,
                     restarts>>
  BY <1>1 DEF ServeSome
<1>3. /\ ops \in Seq(Operations) /\ AllGenuine(ops, p)
      /\ \A k \in 1 .. w : /\ k \in 1 .. Len(Inbound) /\ p[k] = Inbound[k] /\ p[k] \in Units
                           /\ Genuine(ops, p[k]) /\ p[k].way = "request"
  BY <1>1, ServeUnits
<1>4. 3 \in 1 .. w /\ Len(Inbound) \in Nat /\ Inbound # <<>>
  BY <1>2, StreamTypes DEF IInv
<1>5. PICK c \in Nat : c = p[3].call /\ c \in 1 .. Len(ops)
  BY <1>3, <1>4, GenuineUnit
<1>6. PICK b \in BOOLEAN : b = (\E o \in Operations : WellFormed(p, o, "request"))
  OBVIOUS
<1>7. PICK q \in Seq(Units) :
        /\ back' = back \o q
        /\ b => /\ IsAnswer(ops, q, c) /\ Len(q) = Len(ResponseOf(ops[c]))
                /\ \A k \in 1 .. Len(q) :
                     /\ q[k].call = c /\ IsResp(q[k]) /\ q[k].pos = k
                     /\ q[k].kind = "lost" => c \in failed'
        /\ ~b => /\ Len(q) = w
                 /\ \A k \in 1 .. Len(q) : Genuine(ops, q[k]) /\ ~IsResp(q[k]) /\ k \in 1 .. w
                                            /\ q[k] = Inbound[k]
  <2>1. CASE b
    <3>1. PICK q : Answering(q, c)
      BY <1>1, <1>5, <1>6, <2>1 DEF ServeSome
    <3>2. IsAnswer(ops, q, c)
      BY <3>1 DEF Answering, IsAnswer, Response, Failure
    <3>3. /\ q \in Seq(Units) /\ Len(q) = Len(ResponseOf(ops[c]))
          /\ \A k \in 1 .. Len(q) :
               /\ q[k].call = c /\ q[k].way = "response" /\ q[k].pos = k
               /\ q[k].kind = "lost" => q # Packet(ResponseOf(ops[c]), c, "response")
      BY <1>3, <1>5, <3>2, AnswerUnits
    <3>4. ASSUME NEW k \in 1 .. Len(q), q[k].kind = "lost" PROVE c \in failed'
      BY <3>1, <3>3, <3>4 DEF Answering, Response
    <3>5. QED
      BY <2>1, <3>1, <3>2, <3>3, <3>4 DEF Answering, IsResp
  <2>2. CASE ~b
    <3>1. back' = back \o p
      BY <1>1, <1>6, <2>2 DEF ServeSome
    <3>2. QED
      BY <1>2, <1>3, <2>2, <3>1 DEF IsResp
  <2>3. QED
    BY <2>1, <2>2
<1>8. PICK s \in Seq(Units) : s = Outbound /\ Outbound' = s \o q
  <2>1. Outbound \in Seq(Units)
    BY StreamTypes DEF IInv
  <2>2. Outbound' = Outbound \o q
    BY <1>2, <1>7, BackGrows DEF IInv
  <2>3. QED
    BY <2>1, <2>2
<1>9. This' = This /\ Answered' = Answered
  BY <1>2 DEF This, Answered, Returned
<1>10. TypeOK'
  <2>1. back' \in Seq(Units)
    <3>1. back \in Seq(Units)
      BY DEF IInv, TypeOK
    <3>2. QED
      BY <1>7, <3>1, ConcatProperties
  <2>2. executed' \in Seq(Nat)
    <3>1. executed \in Seq(Nat)
      BY DEF IInv, TypeOK
    <3>2. Origin(p) \in Nat
      BY <1>5 DEF Origin, None
    <3>3. executed' = executed \/ executed' = Append(executed, Origin(p))
      BY <1>1 DEF ServeSome
    <3>4. Append(executed, Origin(p)) \in Seq(Nat)
      BY <3>1, <3>2, AppendProperties
    <3>5. QED
      BY <3>1, <3>3, <3>4
  <2>3. failed' \in SUBSET Nat
    BY <1>1, <1>5 DEF ServeSome, Answering, IInv, TypeOK
  <2>4. QED
    BY <1>2, <2>1, <2>2, <2>3 DEF IInv, TypeOK
<1>11. Phase'
  BY <1>2, <1>9 DEF IInv, Phase
<1>12. PICK m \in Nat : Bounds(m)
  BY DEF IInv, Bounded
<1>13. b => Inbound[3].kind = "head" /\ Inbound[3].call = c /\ m < c
  <2>1. SUFFICES ASSUME b PROVE Inbound[3].kind = "head" /\ Inbound[3].call = c /\ m < c
    OBVIOUS
  <2>2. p[3].kind = "head"
    BY <1>6, <2>1 DEF WellFormed
  <2>3. Inbound[3] = p[3] /\ 3 \in 1 .. Len(Inbound)
    BY <1>3, <1>4
  <2>4. QED
    BY <1>5, <1>12, <2>2, <2>3 DEF Bounds
<1>14. \A i \in 1 .. Len(s) : IsResp(s[i]) =>
         /\ s[i].call <= m /\ s[i].call \in Nat /\ \A x \in Answered : outcome[x].of < s[i].call
  <2>1. ASSUME NEW i \in 1 .. Len(s) PROVE s[i].call \in Nat
    <3>1. s[i] \in Units
      OBVIOUS
    <3>2. QED
      BY <3>1 DEF Units
  <2>2. QED
    BY <1>8, <1>12, <2>1 DEF Bounds
<1>15. Streams'
  <2>1. Requests(ops, Inbound')
    BY <1>2, RequestsAfter DEF IInv, Streams
  <2>2. Responses(ops, s)
    BY <1>8 DEF IInv, Streams
  <2>3. CASE b
    <3>1. \A i \in 1 .. Len(s) : IsResp(s[i]) => s[i].call < c
      BY <1>13, <1>14, <2>3
    <3>2. IsAnswer(ops, q, c)
      BY <1>7, <2>3
    <3>3. Responses(ops, s \o q)
      BY <1>3, <1>5, <2>2, <3>1, <3>2, ResponsesAnswer
    <3>4. QED
      BY <1>2, <1>8, <2>1, <3>3 DEF Streams
  <2>4. CASE ~b
    <3>1. q[1] = Inbound[1] /\ q[2] = Inbound[2]
      BY <1>2, <1>7, <2>4
    <3>2. Inbound[1].pos = 1 /\ Inbound[2].pos = 2
      <4>1. Inbound[1] = buf[1] /\ Inbound[2] = buf[2]
        <5>1. buf \in Seq(Units) /\ line \in Seq(Units) /\ Len(buf) = 2
          BY <1>2 DEF IInv, TypeOK, Phase
        <5>2. \A k \in 1 .. Len(buf) : Inbound[k] = buf[k]
          BY <5>1, Joined DEF Inbound
        <5>3. QED
          BY <5>1, <5>2
      <4>2. Inbound[1].kind = "mark" /\ Inbound[2].kind = "len"
        BY <1>2, <4>1 DEF IInv, Phase, HasSize
      <4>3. 1 \in 1 .. w /\ 2 \in 1 .. w
        BY <1>2
      <4>4. /\ Inbound[1] \in Units /\ Genuine(ops, Inbound[1]) /\ Inbound[1].way = "request"
            /\ Inbound[2] \in Units /\ Genuine(ops, Inbound[2])
        BY <1>3, <4>3
      <4>5. QED
        BY <1>3, <4>2, <4>4, GenuineUnit
    <3>3. Responses(ops, s \o q)
      <4>1. Len(q) >= 2 /\ q[1].pos = 1 /\ q[2].pos = 2
        BY <1>2, <1>7, <2>4, <3>1, <3>2
      <4>2. \A k \in 1 .. Len(q) : Genuine(ops, q[k]) /\ ~IsResp(q[k])
        BY <1>7, <2>4
      <4>3. QED
        BY <2>2, <4>1, <4>2, ResponsesEcho
    <3>4. QED
      BY <1>2, <1>8, <2>1, <3>3 DEF Streams
  <2>5. QED
    BY <2>3, <2>4
<1>16. \A i \in 1 .. Len(Inbound') : i + w \in 1 .. Len(Inbound) /\ Inbound'[i] = Inbound[i + w]
                                    /\ i \in Nat /\ i >= 1
  BY <1>2, AfterIndex
<1>17. Bounded'
  <2>1. CASE b
    <3>1. c <= This
      BY <1>5 DEF This
    <3>2. ~HeadIsOut' => c < This
      <4>1. SUFFICES ASSUME ~HeadIsOut PROVE c # This
        <5>1. HeadIsOut' = HeadIsOut /\ This \in Nat
          BY <1>2, <1>3 DEF HeadIsOut, This
        <5>2. QED
          BY <3>1, <5>1
      <4>2. pc \in {"drain", "send"} /\ ~(sent > 2) /\ sent \in Nat
        BY <4>1 DEF HeadIsOut, IInv, TypeOK
      <4>3. Inbound[3].pos = 3
        <5>1. Inbound[3] \in Units /\ Genuine(ops, Inbound[3])
          BY <1>3, <1>4
        <5>2. QED
          BY <1>3, <1>13, <2>1, <5>1, GenuineUnit
      <4>4. 3 \in 1 .. Len(Inbound)
        BY <1>3, <1>4
      <4>5. Inbound[3].call = This => 3 <= sent
        BY <1>12, <4>2, <4>3, <4>4 DEF Bounds
      <4>6. QED
        BY <1>13, <2>1, <4>2, <4>5
    <3>3. ASSUME NEW i \in 1 .. Len(Inbound')
          PROVE  /\ Inbound'[i].kind = "head" => c < Inbound'[i].call
                 /\ Inbound'[i].call = This /\ pc # "idle" => Inbound'[i].pos <= sent
      <4>1. PICK v \in Units : v = Inbound[i + w] /\ Genuine(ops, v) /\ Inbound'[i] = v
        BY <1>16, StreamTypes DEF IInv, Streams, Requests, AllGenuine
      <4>2. v.call = This /\ pc # "idle" => v.pos <= sent
        BY <1>12, <1>16, <4>1 DEF Bounds
      <4>3. ASSUME v.kind = "head" PROVE c < v.call
        <5>1. 3 < i + w /\ 3 \in 1 .. Len(Inbound) /\ i + w \in 1 .. Len(Inbound)
          BY <1>2, <1>3, <1>4, <1>16
        <5>2. Before(Inbound[3], v)
          BY <4>1, <5>1 DEF IInv, Streams, Requests, InOrder
        <5>3. v.pos = 3 /\ Inbound[3].pos = 3
          <6>1. Inbound[3] \in Units /\ Genuine(ops, Inbound[3])
            BY <1>3, <1>4
          <6>2. QED
            BY <1>3, <1>13, <2>1, <4>1, <4>3, <6>1, GenuineUnit
        <5>4. QED
          BY <1>13, <2>1, <5>2, <5>3 DEF Before
      <4>4. QED
        BY <4>1, <4>2, <4>3
    <3>4. ASSUME NEW i \in 1 .. Len(Outbound'), IsResp(Outbound'[i])
          PROVE  /\ Outbound'[i].call <= c
                 /\ \A x \in Answered : outcome[x].of < Outbound'[i].call
      <4>1. CASE i \in 1 .. Len(s) /\ Outbound'[i] = s[i]
        <5>1. s[i].call <= m /\ s[i].call \in Nat /\ \A x \in Answered : outcome[x].of < s[i].call
          BY <1>14, <3>4, <4>1
        <5>2. s[i].call <= c
          BY <1>13, <2>1, <5>1
        <5>3. QED
          BY <4>1, <5>1, <5>2
      <4>2. CASE \E k \in 1 .. Len(q) : Outbound'[i] = q[k]
        <5>1. Outbound'[i].call = c
          BY <1>7, <2>1, <4>2
        <5>2. ASSUME NEW x \in Answered PROVE outcome[x].of < c
          <6>1. outcome[x].of <= m
            BY <1>12 DEF Bounds
          <6>2. outcome[x].of \in Nat
            <7>1. x \in 1 .. Len(outcome)
              BY DEF Answered, Returned
            <7>2. outcome[x] \in Outcomes
              BY <7>1 DEF IInv, TypeOK
            <7>3. QED
              BY <7>2 DEF Outcomes
          <6>3. QED
            BY <1>13, <2>1, <6>1, <6>2
        <5>3. QED
          BY <5>1, <5>2
      <4>3. QED
        BY <1>8, <4>1, <4>2, GrownIndex
    <3>5. ASSUME NEW x \in Answered PROVE outcome[x].of <= c
      <4>1. outcome[x].of <= m
        BY <1>12 DEF Bounds
      <4>2. outcome[x].of \in Nat
        <5>1. x \in 1 .. Len(outcome)
          BY DEF Answered, Returned
        <5>2. outcome[x] \in Outcomes
          BY <5>1 DEF IInv, TypeOK
        <5>3. QED
          BY <5>2 DEF Outcomes
      <4>3. QED
        BY <1>13, <2>1, <4>1, <4>2
    <3>6. Bounds(c)'
      BY <1>2, <1>9, <3>1, <3>2, <3>3, <3>4, <3>5 DEF Bounds, IsResp
    <3>7. QED
      BY <3>6 DEF Bounded
  <2>2. CASE ~b
    <3>1. m <= This' /\ (~HeadIsOut' => m < This')
      BY <1>2, <1>9, <1>12 DEF Bounds, HeadIsOut
    <3>2. ASSUME NEW i \in 1 .. Len(Inbound')
          PROVE  /\ Inbound'[i].kind = "head" => m < Inbound'[i].call
                 /\ Inbound'[i].call = This /\ pc # "idle" => Inbound'[i].pos <= sent
      BY <1>12, <1>16 DEF Bounds
    <3>3. ASSUME NEW i \in 1 .. Len(Outbound'), IsResp(Outbound'[i])
          PROVE  /\ Outbound'[i].call <= m
                 /\ \A x \in Answered : outcome[x].of < Outbound'[i].call
      <4>1. i \in 1 .. Len(s) /\ Outbound'[i] = s[i]
        BY <1>7, <1>8, <2>2, <3>3, GrownIndex
      <4>2. QED
        BY <1>14, <3>3, <4>1
    <3>4. \A x \in Answered : outcome[x].of <= m
      BY <1>12 DEF Bounds
    <3>5. Bounds(m)'
      BY <1>2, <1>9, <3>1, <3>2, <3>3, <3>4 DEF Bounds, IsResp
    <3>6. QED
      BY <3>5 DEF Bounded
  <2>3. QED
    BY <2>1, <2>2
<1>18. QuietClean'
  <2>1. SUFFICES ASSUME pc # "idle", This \in quiet PROVE Clean'
    BY <1>2, <1>9 DEF QuietClean
  <2>2. /\ c = This /\ pc = "read" /\ Inbound' = <<>> /\ b /\ Outbound = <<>> /\ done = "no"
    BY <1>1, <1>5, <1>6, <2>1, CleanServe
  <2>3. Outbound' = q
    <3>1. <<>> \o q = q
      BY ConcatEmptySeq
    <3>2. QED
      BY <1>8, <2>2, <3>1
  <2>4. first = "mark" /\ sent \in Nat
    BY <2>1 DEF IInv, QuietClean, Clean, TypeOK
  <2>5. Len(Inbound') = 0
    BY <2>2
  <2>6. /\ Len(Outbound') <= Len(ResponseOf(ops'[This']))
        /\ \A i \in 1 .. Len(Outbound') :
             /\ Outbound'[i].call = This' /\ IsResp(Outbound'[i]) /\ Outbound'[i].pos = i
             /\ Outbound'[i].kind = "lost" => This' \in failed'
    <3>1. Len(q) = Len(ResponseOf(ops[This])) /\ Len(q) \in Nat
      BY <1>7, <2>2
    <3>2. QED
      BY <1>2, <1>7, <1>9, <2>2, <2>3, <3>1
  <2>7. first' = "mark" /\ Len(Inbound') <= sent' /\ pc' = "read" /\ buf' = <<>> /\ done' = "no"
    BY <1>2, <2>2, <2>4, <2>5
  <2>8. \A i \in 1 .. Len(Inbound') : FALSE
    BY <2>5
  <2>9. QED
    BY <2>2, <2>6, <2>7, <2>8 DEF Clean
<1>19. LateOldest'
  <2>1. CASE late = {}
    <3>1. pc # "idle"
      BY <1>4, <2>1 DEF IInv, LateOldest, Empty
    <3>2. QED
      BY <1>2, <1>9, <2>1, <3>1 DEF IInv, LateOldest
  <2>2. CASE late # {}
    <3>1. PICK e \in late : OldestLate(e)
      BY <2>2 DEF IInv, LateOldest
    <3>2. ASSUME NEW i \in 1 .. Len(Inbound') PROVE e <= Inbound'[i].call
      BY <1>16, <3>1 DEF OldestLate
    <3>3. ASSUME NEW k \in 1 .. Len(q) PROVE e <= q[k].call
      <4>1. CASE b
        <5>1. 3 \in 1 .. Len(Inbound)
          BY <1>3, <1>4
        <5>2. e <= Inbound[3].call
          BY <3>1, <5>1 DEF OldestLate
        <5>3. QED
          BY <1>7, <1>13, <4>1, <5>2
      <4>2. CASE ~b
        BY <1>3, <1>7, <3>1, <4>2 DEF OldestLate
      <4>3. QED
        BY <4>1, <4>2
    <3>4. ASSUME NEW i \in 1 .. Len(Outbound') PROVE e <= Outbound'[i].call
      <4>1. CASE i \in 1 .. Len(s) /\ Outbound'[i] = s[i]
        BY <1>8, <3>1, <4>1 DEF OldestLate
      <4>2. CASE \E k \in 1 .. Len(q) : Outbound'[i] = q[k]
        BY <3>3, <4>2
      <4>3. QED
        BY <1>8, <4>1, <4>2, GrownIndex
    <3>5. OldestLate(e)'
      BY <3>2, <3>4 DEF OldestLate
    <3>6. QED
      BY <1>2, <2>2, <3>5 DEF LateOldest
  <2>3. QED
    BY <2>1, <2>2
<1>20. Stepping'
  <2>1. CASE torn = "no"
    BY <1>1, <2>1, SteppingServed
  <2>2. CASE torn # "no"
    BY <1>2, <2>2 DEF Stepping
  <2>3. QED
    BY <2>1, <2>2
<1>21. Answers'
  <2>1. failed \subseteq failed'
    BY <1>1 DEF ServeSome, Answering
  <2>2. QED
    BY <1>2, <2>1, AnswersKept DEF IInv
<1>22. QED
  BY <1>10, <1>11, <1>15, <1>17, <1>18, <1>19, <1>20, <1>21 DEF IInv

-----------------------------------------------------------------------------
(* A step that changes nothing. *)
LEMMA StutterIInv ==
  ASSUME IInv, UNCHANGED vars
  PROVE  IInv'
<1>1. UNCHANGED <<transport, pc, first, sent, got, ops, line, back, rx, buf, done, executed, failed,
                  outcome, quiet, late, torn, restarts>>
  BY DEF vars, client, server, hist
<1>2. TypeOK'
  BY <1>1 DEF IInv, TypeOK
<1>3. Phase'
  <2>1. HasSize(buf)' = HasSize(buf)
    BY <1>1 DEF HasSize
  <2>2. QED
    BY <1>1, <2>1 DEF IInv, Phase, This
<1>4. Inbound' = Inbound /\ Outbound' = Outbound /\ This' = This
  BY <1>1 DEF Inbound, Outbound, This
<1>5. QuietClean'
  BY <1>1, <1>4 DEF IInv, QuietClean, Clean
<1>6. After(Outbound', Outbound, 0)
  BY <1>4, StreamTypes, AfterNothing DEF IInv
<1>7. QED
  BY <1>1, <1>2, <1>3, <1>5, <1>6, ListenStep

(* Every step keeps the invariant. *)
LEMMA NextIInv == IInv /\ [Next]_vars => IInv'
<1> SUFFICES ASSUME IInv, [Next]_vars PROVE IInv'
  OBVIOUS
<1>1. CASE \E o \in Operations : Call(o)
  BY <1>1, CallIInv
<1>2. CASE Drain
  BY <1>2, DrainIInv
<1>3. CASE StartSending
  BY <1>3, StartSendingIInv
<1>4. CASE Send
  BY <1>4, SendIInv
<1>5. CASE Receive
  BY <1>5, ReceiveIInv
<1>6. CASE Timeout
  BY <1>6, TimeoutIInv
<1>7. CASE Arrive
  BY <1>7, ArriveIInv
<1>8. CASE ReadHeader
  BY <1>8, ReadHeaderIInv
<1>9. CASE Ignore
  BY <1>9, IgnoreIInv
<1>10. CASE Serve
  BY <1>10, ServeIInv
<1>11. CASE DeviceRestart
  BY <1>11, DeviceRestartIInv
<1>12. CASE \E k \in 0 .. Len(back) : ServerRestart(k)
  BY <1>12, ServerRestartIInv
<1>13. CASE UNCHANGED vars
  BY <1>13, StutterIInv
<1>14. QED
  BY <1>1, <1>2, <1>3, <1>4, <1>5, <1>6, <1>7, <1>8, <1>9, <1>10, <1>11, <1>12, <1>13 DEF Next

(* The invariant: in every state the units under way to the server are      *)
(* those of requests in the order of the calls, of which restarts may have  *)
(* cut out parts; those under way to the client are of responses in order,  *)
(* whole but where a restart of the server cut the end off or the client    *)
(* has read the beginning, and with packets the server sent back between    *)
(* them; the response to a failed read differs in its last unit.  They lie  *)
(* where the histories say (server.c, server_execute_request, with the      *)
(* failures of server_read; rfs_transports.c and main.c of mux_src).        *)
THEOREM Invariant == Spec => []IInv
<1>1. Init => IInv
  BY InitIInv
<1>2. IInv /\ [Next]_vars => IInv'
  BY NextIInv
<1>3. QED
  BY <1>1, <1>2, PTL DEF Spec

(* For any number of calls, timeouts and restarts, a call accepts nothing   *)
(* but one whole response to a request of the same operation, none twice or *)
(* out of order, and another call's only after one was given up and with    *)
(* something under way when it began (client.c, rfsch_send_request_read_    *)
(* response).                                                               *)
THEOREM AnswersAreOwnOrLate == Spec => []AnswerIsOwnOrLate
<1>1. IInv => AnswerIsOwnOrLate
  BY DEF IInv, Answers
<1>2. QED
  BY <1>1, Invariant, PTL

(* A call made with nothing under way succeeds unless it is given up or its *)
(* os_read fails (server.c, server_read), also if restarts of the server    *)
(* cut responses; otherwise, spoilt requests and garbled or refused answers *)
(* come only after an earlier call was given up (client.c,                  *)
(* rfsch_send_request_read_response).                                       *)
THEOREM FailuresHaveCauses == Spec => []FailureHasCause
<1>1. IInv => FailureHasCause
  BY DEF IInv, Answers
<1>2. QED
  BY <1>1, Invariant, PTL

(* As long as no restart cuts or loses a request, the server carries out    *)
(* the requests that were sent, each once and in the order of the calls,    *)
(* whatever timeouts and failing reads do (rfs_transports.c,                *)
(* ser_read_request_packet).                                                *)
THEOREM ServerStaysInStep == Spec => []ServerInStep
<1>1. IInv => ServerInStep
  BY DEF IInv, Stepping, ServerInStep
<1>2. QED
  BY <1>1, Invariant, PTL

=============================================================================
