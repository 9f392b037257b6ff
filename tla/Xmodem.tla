------------------------------- MODULE Xmodem -------------------------------
(***************************************************************************)
(* The XMODEM receiver of src/xmodem.c, behind the shell's recv command,   *)
(* and the sender of a terminal program at the other end, as the XMODEM    *)
(* protocol has it: a block is repeated on NAK and when no answer comes.   *)
(*                                                                         *)
(* A block holds one byte of data for the code's 128, and one byte stands  *)
(* for its CRC.  The line keeps order and may lose bytes.  A side times    *)
(* out only when nothing is on its way to it: the receiver's second (and   *)
(* the 10 ms of a flush) is longer than a gap between two bytes, the       *)
(* sender's patience (usually ten seconds) longer than the receiver's      *)
(* answer and than the receiver's second within a record.  The model ends  *)
(* when xmodem_receive returns.                                            *)
(***************************************************************************)
EXTENDS Integers, Sequences

CONSTANTS
  File,            \* the data to send, one byte per block
  Numbers,         \* block numbers wrap here: 256 in the code
  RetryLimit,      \* XMODEM_RETRY_LIMIT
  InitialBuffer,   \* XMODEM_INITIAL_BUFFER_SIZE, in blocks
  Increment,       \* XMODEM_INCREMENT_AMMOUNT, in blocks
  MaxLost          \* bound: bytes the line loses

Byte == 0 .. 255

ASSUME ConstantsAssumption ==
  /\ File \in Seq(Byte)
  /\ Numbers \in 2 .. 256 /\ RetryLimit \in Nat \ {0}
  /\ InitialBuffer \in Nat \ {0} /\ Increment \in Nat \ {0} /\ MaxLost \in Nat

SOH == 1
EOT == 4
ACK == 6
NAK == 21
CAN == 24
C   == 67

VARIABLES
  pc,         \* where xmodem_receive is
  after,      \* what follows xmodem_flush
  starting, packnum, retries, limit,   \* the locals of xmodem_receive
  buf,        \* the record so far
  stored,     \* the blocks copied to *dest; its length stands for size
  result,     \* what xmodem_receive returns
  rx, tx,     \* bytes on their way to the receiver and to the sender
  sender,     \* the sender: "off", "start", "wait" for an answer, "end", "gone"
  block,      \* the block it sends, Len(File) + 1 for EOT
  out,        \* bytes of it not sent yet
  lost,       \* bounded counter: bytes lost
  kinds       \* history: what they were

receiver == <<pc, after, starting, packnum, retries, limit, buf, stored, result>>
other    == <<sender, block, out>>
losses   == <<lost, kinds>>
vars     == <<receiver, rx, tx, other, losses>>

Complement(n) == Numbers - 1 - n
Crc(d)        == (d + 100) % 256

(* A block that lost a byte does not pass for a good one when the CAN of a  *)
(* sender that was stopped takes the place of its last byte.                *)
ASSUME ChecksumAssumption == \A k \in 1 .. Len(File) : Crc(Crc(File[k])) # CAN

Record(k)     == <<k % Numbers, Complement(k % Numbers), File[k], Crc(File[k])>>
RecordSize    == 4

Running == result = "none"

(* Nothing is on its way to the receiver, nor about to be sent to it.      *)
Silence == rx = <<>> /\ out = <<>> /\ tx = <<>>

Init ==
  /\ pc = "top" /\ after = "none" /\ starting = "yes" /\ packnum = 1 % Numbers
  /\ retries = RetryLimit /\ limit = InitialBuffer
  /\ buf = <<>> /\ stored = <<>> /\ result = "none"
  /\ rx = <<>> /\ tx = <<>>
  /\ sender = "off" /\ block = 1 /\ out = <<>>
  /\ lost = 0 /\ kinds = {}

(***************************************************************************)
(* The receiver.                                                           *)
(***************************************************************************)
(* Faulty variant: only the waiting for a block is counted.                *)
OneLess_WhenStarting == IF starting = "yes" THEN retries - 1 ELSE retries

OneLess == retries - 1

(* while( retries-- ); the loop's end flushes and cancels.                 *)
Top ==
  /\ Running /\ pc = "top"
  /\ IF retries = 0
     THEN pc' = "flush" /\ after' = "exceed" /\ UNCHANGED <<retries, tx>>
     ELSE /\ retries' = OneLess
          /\ tx' = IF starting = "yes" THEN Append(tx, C) ELSE tx
          /\ pc' = "control" /\ UNCHANGED after
  /\ UNCHANGED <<starting, packnum, limit, buf, stored, result, rx, other, losses>>

(* Faulty variant: a cancelled transfer is a finished one.                 *)
AfterAck_Same(ch) == "size"

AfterAck(ch) == IF ch = EOT THEN "size" ELSE "cancel"

(* The byte that begins a block or ends the transmission; any other byte,  *)
(* like a timeout, takes the loop round once more.                         *)
Control ==
  /\ Running /\ pc = "control" /\ rx # <<>>
  /\ rx' = Tail(rx)
  /\ \/ /\ Head(rx) = SOH
        /\ starting' = "no" /\ pc' = "record" /\ buf' = <<>>
        /\ UNCHANGED <<after, tx>>
     \/ /\ Head(rx) \in {EOT, CAN}
        /\ tx' = Append(tx, ACK)
        /\ pc' = "flush" /\ after' = AfterAck(Head(rx))
        /\ UNCHANGED <<starting, buf>>
     \/ /\ Head(rx) \notin {SOH, EOT, CAN}
        /\ pc' = "top" /\ UNCHANGED <<after, starting, buf, tx>>
  /\ UNCHANGED <<packnum, retries, limit, stored, result, other, losses>>

(* Faulty variant: the number of the block is not looked at.               *)
Valid_AnyNumber(p) == p[4] = Crc(p[3])

Valid(p) == p[1] = packnum /\ p[2] = Complement(packnum) /\ p[4] = Crc(p[3])

(* xmodem_get_record *)
GetRecord ==
  LET p == Append(buf, Head(rx)) IN
  /\ Running /\ pc = "record" /\ rx # <<>>
  /\ rx' = Tail(rx)
  /\ buf' = p
  /\ \/ Len(p) < RecordSize /\ UNCHANGED <<pc, after, tx>>
     \/ Len(p) = RecordSize /\ Valid(p)
        /\ pc' = "flush" /\ after' = "accept" /\ UNCHANGED tx
     \/ Len(p) = RecordSize /\ ~Valid(p)
        /\ pc' = "top" /\ tx' = Append(tx, NAK) /\ UNCHANGED after
  /\ UNCHANGED <<starting, packnum, retries, limit, stored, result, other, losses>>

(* xmodem_in_func returns -1: in the loop, and within a record.            *)
Timeout ==
  /\ Running /\ pc \in {"control", "record"} /\ Silence
  /\ pc' = "top"
  /\ tx' = IF pc = "record" THEN Append(tx, NAK) ELSE tx
  /\ UNCHANGED <<after, starting, packnum, retries, limit, buf, stored, result, rx, other, losses>>

(* xmodem_flush: whatever still comes is thrown away...                    *)
Flush ==
  /\ Running /\ pc = "flush" /\ rx # <<>>
  /\ rx' = <<>>
  /\ UNCHANGED <<receiver, tx, other, losses>>

Cancels == <<CAN, CAN, CAN>>

(* Faulty variant: the retries are those of the whole transfer.            *)
Renewed_Not == retries

Renewed == RetryLimit

(* ... until nothing comes: the valid block is acknowledged and stored,    *)
(* with a larger buffer if it needs one, or xmodem_receive returns.        *)
AfterFlush ==
  /\ Running /\ pc = "flush" /\ rx = <<>> /\ out = <<>>
  /\ \/ /\ after = "accept"
        /\ retries' = Renewed /\ packnum' = (packnum + 1) % Numbers
        /\ \/ /\ limit' = IF Len(stored) + 1 > limit THEN limit + Increment ELSE limit
              /\ tx' = Append(tx, ACK)
              /\ stored' = Append(stored, buf[3])
              /\ pc' = "top" /\ after' = "none" /\ UNCHANGED result
           \/ /\ Len(stored) + 1 > limit                 \* realloc fails
              /\ after' = "nomem"
              /\ UNCHANGED <<limit, tx, stored, pc, result>>
     \/ /\ after \in {"exceed", "nomem"}
        /\ tx' = tx \o Cancels
        /\ result' = after
        /\ UNCHANGED <<retries, packnum, limit, stored, pc, after>>
     \/ /\ after \in {"size", "cancel"}
        /\ result' = after
        /\ UNCHANGED <<retries, packnum, limit, stored, pc, after, tx>>
  /\ UNCHANGED <<starting, buf, rx, other, losses>>

(***************************************************************************)
(* The sender.                                                             *)
(***************************************************************************)
Burst(k) == IF k <= Len(File) THEN <<SOH>> \o Record(k) ELSE <<EOT>>

Start ==
  /\ Running /\ sender = "off"
  /\ sender' = "start"
  /\ UNCHANGED <<receiver, rx, tx, block, out, losses>>

SendByte ==
  /\ Running /\ out # <<>>
  /\ rx' = Append(rx, Head(out))
  /\ out' = Tail(out)
  /\ UNCHANGED <<receiver, tx, sender, block, losses>>

(* An answer comes when the block is out; what it does not expect it       *)
(* ignores, and before it is started nobody listens.                       *)
Answer ==
  /\ Running /\ tx # <<>> /\ out = <<>>
  /\ tx' = Tail(tx)
  /\ \/ /\ sender = "start" /\ Head(tx) = C
        /\ sender' = "wait" /\ out' = Burst(block) /\ UNCHANGED block
     \/ /\ sender = "wait" /\ Head(tx) = ACK
        /\ IF block > Len(File)
           THEN sender' = "end" /\ UNCHANGED <<block, out>>
           ELSE block' = block + 1 /\ out' = Burst(block + 1) /\ UNCHANGED sender
     \/ /\ sender = "wait" /\ Head(tx) = NAK
        /\ out' = Burst(block) /\ UNCHANGED <<sender, block>>
     \/ /\ ~ (sender = "start" /\ Head(tx) = C)
        /\ ~ (sender = "wait" /\ Head(tx) \in {ACK, NAK})
        /\ UNCHANGED other
  /\ UNCHANGED <<receiver, rx, losses>>

NoAnswer ==
  /\ Running /\ sender = "wait" /\ Silence /\ pc = "control"
  /\ out' = Burst(block)
  /\ UNCHANGED <<receiver, rx, tx, sender, block, losses>>

(* The user of the terminal program stops it between two blocks.           *)
Abort ==
  /\ Running /\ sender = "wait" /\ out = <<>>
  /\ sender' = "gone" /\ out' = <<CAN>>
  /\ UNCHANGED <<receiver, rx, tx, block, losses>>

(***************************************************************************)
(* The line.                                                               *)
(***************************************************************************)
LoseData ==
  /\ Running /\ lost < MaxLost /\ out # <<>>
  /\ out' = Tail(out)
  /\ lost' = lost + 1
  /\ kinds' = kinds \cup {IF Len(out) = RecordSize + 1 THEN "soh"
                           ELSE IF block <= Len(File) /\ sender = "wait" THEN "inside" ELSE "end"}
  /\ UNCHANGED <<receiver, rx, tx, sender, block>>

LoseAnswer ==
  /\ Running /\ lost < MaxLost /\ tx # <<>> /\ sender # "off"
  /\ tx' = Tail(tx)
  /\ lost' = lost + 1
  /\ kinds' = kinds \cup {"answer"}
  /\ UNCHANGED <<receiver, rx, other>>

Receive == Top \/ Control \/ GetRecord \/ Timeout \/ Flush \/ AfterFlush

Next ==
  \/ Receive
  \/ Start \/ SendByte \/ Answer \/ NoAnswer \/ Abort
  \/ LoseData \/ LoseAnswer

(* The receiver runs; a byte or an answer on its way arrives.              *)
Fairness == WF_vars(Receive) /\ WF_vars(SendByte) /\ WF_vars(Answer)

Spec == Init /\ [][Next]_vars /\ Fairness

(***************************************************************************)
(* Properties.                                                             *)
(***************************************************************************)
(* Whatever is lost or repeated, and across the wrap of the block numbers, *)
(* the data received is a beginning of the file, no block twice and none   *)
(* left out, and it fits into the buffer (xmodem_receive).                 *)
StoredIsPrefix ==
  /\ Len(stored) <= Len(File) /\ stored = SubSeq(File, 1, Len(stored))
  /\ Len(stored) <= limit

(* xmodem_receive returns the size only of a whole file.  The exception is *)
(* a lost SOH: then the loop takes bytes of the block for control bytes,   *)
(* and one with the value of EOT ends the transfer as a success.           *)
SuccessIsWhole == result = "size" => stored = File \/ "soh" \in kinds

(* Once a block has arrived, a transfer is given up for too many retries   *)
(* only if the sender was stopped, or an answer or a control byte was lost *)
(* (a block repeated for want of an ACK is refused every time).  A byte    *)
(* lost inside a block is made good, and each good block renews the        *)
(* retries.  Before the first block the waiting for the sender to start    *)
(* has used them up.                                                       *)
LossInsideIsRepaired ==
  result = "exceed" => stored = <<>> \/ sender = "gone" \/ kinds \ {"inside"} # {}

(* xmodem_receive returns, whether the sender goes on, aborts or is        *)
(* stopped: no exchange of NAKs and repeated blocks goes on for ever.  The *)
(* sender pauses after a block to wait for the answer; one that never      *)
(* paused would hold xmodem_flush in its loop.                             *)
ReceiveReturns == <>(result # "none")
=============================================================================
