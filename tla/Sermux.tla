------------------------------- MODULE Sermux -------------------------------
(***************************************************************************)
(* The serial multiplexer: several virtual UARTs over one serial line.     *)
(* Device side: platform_uart_send and the receive interrupt of            *)
(* src/common_uart.c.  Host side: the main loop of mux_src/main.c.         *)
(*                                                                         *)
(* A byte belongs to the service whose id was last on the line.  A side    *)
(* that has just started does not know that id; it answers a byte with     *)
(* FORCE_SID and the other side repeats its service id and its last byte.  *)
(* Control bytes that occur as data are escaped.                           *)
(*                                                                         *)
(* The receive interrupt may come between any two bytes or assignments of  *)
(* platform_uart_send.  The host handles one byte per turn of its loop.    *)
(* The line loses nothing, except that a side that starts again loses what *)
(* it has received and what had not left it.                               *)
(***************************************************************************)
EXTENDS Integers, Sequences, FiniteSets

CONSTANTS
  Services,     \* ids of the virtual UARTs in use
  Traffic,      \* what the programs of each side send: sets of <<id, byte>>
  MaxSends,     \* bound: bytes the two sides send together
  MaxRestarts   \* bound: restarts of each side

(* inc/sermux.h *)
ServiceIds == 208 .. 215       \* SERMUX_SERVICE_ID_FIRST .. SERMUX_SERVICE_ID_LAST
Esc        == 192              \* SERMUX_ESCAPE_CHAR
Force      == 255              \* SERMUX_FORCE_SID_CHAR
EscMask    == 256              \* SERMUX_ESC_MASK
NoValue    == -1

Byte     == 0 .. 255
Controls == ServiceIds \cup {Esc, Force}

Sides == {"dev", "host"}

ASSUME ConstantsAssumption ==
  /\ Services # {} /\ Services \subseteq ServiceIds
  /\ \A s \in Sides : Traffic[s] \subseteq Services \X Byte
  /\ MaxSends \in Nat /\ MaxRestarts \in Nat

VARIABLES
  wire,       \* bytes on their way to each side
  id_in,      \* service of the bytes that come in: uart_service_id_in, service_id_in
  id_out,     \* service last announced: uart_service_id_out, service_id_out
  got_esc,    \* the last byte was the escape character: uart_got_esc, got_esc
  last_sent,  \* what to repeat: uart_last_sent, prev_sent
  pc,         \* where platform_uart_send is: "idle", "id", "last", "esc", "flip",
              \* "mask", "data", "idout"
  arg,        \* its arguments: <<id, data>>
  mux,        \* the host program: "up", or "exited" with a protocol error
  pending,    \* history: <<id, data>> sent to each side and not delivered
  wrong,      \* history: a delivery was not the oldest pending byte
  lapsed,     \* history: the repetition of the last byte could not help
  sends, restarts   \* bounded counters

proto == <<id_in, id_out, got_esc, last_sent>>
count == <<sends, restarts>>
vars  == <<wire, proto, pc, arg, mux, pending, wrong, lapsed, count>>

Init ==
  /\ wire = [s \in Sides |-> <<>>]
  /\ id_in = [s \in Sides |-> NoValue] /\ id_out = [s \in Sides |-> NoValue]
  /\ got_esc = [s \in Sides |-> "no"] /\ last_sent = [s \in Sides |-> NoValue]
  /\ pc = "idle" /\ arg = <<NoValue, NoValue>>
  /\ mux = "up"
  /\ pending = [s \in Sides |-> <<>>]
  /\ wrong = "no" /\ lapsed = "no"
  /\ sends = 0 /\ restarts = [s \in Sides |-> 0]

-----------------------------------------------------------------------------
(* b ^ SERMUX_ESCAPE_XOR_MASK *)
Flip(b) == IF (b \div 32) % 2 = 1 THEN b - 32 ELSE b + 32

(* Faulty variant: the escape character itself is not escaped. *)
NeedsEscape_NotEsc(b) == b = Force \/ b \in ServiceIds

(* The bytes both sides escape. *)
NeedsEscape(b) == b = Esc \/ b = Force \/ b \in ServiceIds

(* A service id as it goes out: -1 is cut to one byte. *)
AsByte(id) == id % 256

(* What side s answers to FORCE_SID. *)
Repetition(s) ==
  <<AsByte(id_out[s])>> \o
  (IF last_sent[s] >= EscMask THEN <<Esc, last_sent[s] - EscMask>>
                              ELSE <<last_sent[s]>>)

(* Byte c reaches a virtual UART of side s. *)
Deliver(s, c) ==
  LET asSent == pending[s] # <<>> /\ Head(pending[s]) = <<id_in[s], c>>
  IN /\ pending' = IF asSent THEN [pending EXCEPT ![s] = Tail(@)] ELSE pending
     /\ wrong' = IF asSent THEN wrong ELSE "yes"

(* The part of the receivers that both sides share.  other is the sender    *)
(* of the byte, rest what is still on the line to s.                        *)
TakeEscape(s, rest) ==
  /\ got_esc' = [got_esc EXCEPT ![s] = "yes"]
  /\ wire' = [wire EXCEPT ![s] = rest]
  /\ UNCHANGED <<id_in, last_sent, pending, wrong>>

TakeId(s, b, rest) ==
  /\ id_in' = [id_in EXCEPT ![s] = b]
  /\ wire' = [wire EXCEPT ![s] = rest]
  /\ UNCHANGED <<got_esc, last_sent, pending, wrong>>

TakeForce(s, other, rest) ==
  /\ wire' = [wire EXCEPT ![s] = rest, ![other] = @ \o Repetition(s)]
  /\ last_sent' = [last_sent EXCEPT ![s] = NoValue]
  /\ UNCHANGED <<id_in, got_esc, pending, wrong>>

(* Faulty variant: without a service id nothing is requested. *)
TakeData_Silent(s, other, b, rest) ==
  LET c == IF got_esc[s] = "yes" THEN Flip(b) ELSE b
  IN /\ got_esc' = [got_esc EXCEPT ![s] = "no"]
     /\ wire' = [wire EXCEPT ![s] = rest]
     /\ IF id_in[s] = NoValue THEN UNCHANGED <<pending, wrong>> ELSE Deliver(s, c)
     /\ UNCHANGED <<id_in, last_sent>>

TakeData(s, other, b, rest) ==
  LET c == IF got_esc[s] = "yes" THEN Flip(b) ELSE b
  IN /\ got_esc' = [got_esc EXCEPT ![s] = "no"]
     /\ IF id_in[s] = NoValue
          THEN /\ wire' = [wire EXCEPT ![s] = rest, ![other] = Append(@, Force)]
               /\ UNCHANGED <<pending, wrong>>
          ELSE /\ wire' = [wire EXCEPT ![s] = rest]
               /\ Deliver(s, c)
     /\ UNCHANGED <<id_in, last_sent>>

-----------------------------------------------------------------------------
(* The device: cmn_rx_handler, run by the receive interrupt.  A request to  *)
(* repeat that finds nothing to repeat is taken for data.                   *)
cmn_rx_handler ==
  /\ wire["dev"] # <<>>
  /\ LET b == Head(wire["dev"])
         rest == Tail(wire["dev"])
     IN CASE b = Esc -> TakeEscape("dev", rest)
          [] b \in Services -> TakeId("dev", b, rest)
          [] b = Force /\ last_sent["dev"] # NoValue -> TakeForce("dev", "host", rest)
          [] OTHER -> TakeData("dev", "host", b, rest)
  /\ UNCHANGED <<id_out, pc, arg, mux, count>>

(* platform_uart_send( id, data ) is called ... *)
platform_uart_send(id, d) ==
  /\ pc = "idle" /\ sends < MaxSends
  /\ arg' = <<id, d>>
  /\ pc' = IF id # id_out["dev"] THEN "id" ELSE "last"
  /\ pending' = [pending EXCEPT !["host"] = Append(@, <<id, d>>)]
  /\ sends' = sends + 1
  /\ UNCHANGED <<wire, proto, mux, wrong, restarts>>

(* The next byte of the send goes out. *)
PutByte(from, b, to) ==
  /\ pc = from /\ pc' = to
  /\ wire' = [wire EXCEPT !["host"] = Append(@, b)]
  /\ UNCHANGED <<proto, arg, mux, pending, wrong, count>>

SendId      == PutByte("id", arg[1], "last")
SendEsc     == PutByte("esc", Esc, "flip")
SendFlipped == PutByte("flip", Flip(arg[2]), "mask")
SendPlain   == PutByte("data", arg[2], "idout")

(* uart_last_sent = data *)
SetLast ==
  /\ pc = "last"
  /\ last_sent' = [last_sent EXCEPT !["dev"] = arg[2]]
  /\ pc' = IF NeedsEscape(arg[2]) THEN "esc" ELSE "data"
  /\ UNCHANGED <<wire, id_in, id_out, got_esc, arg, mux, pending, wrong, count>>

(* uart_last_sent = SERMUX_ESC_MASK | ... *)
SetMask ==
  /\ pc = "mask"
  /\ last_sent' = [last_sent EXCEPT !["dev"] = EscMask + Flip(arg[2])]
  /\ pc' = "idout"
  /\ UNCHANGED <<wire, id_in, id_out, got_esc, arg, mux, pending, wrong, count>>

(* Faulty variant: the id is remembered only when none was. *)
SetIdOut_FirstOnly ==
  /\ pc = "idout"
  /\ id_out' = [id_out EXCEPT !["dev"] = IF @ = NoValue THEN arg[1] ELSE @]
  /\ pc' = "idle" /\ arg' = <<NoValue, NoValue>>
  /\ UNCHANGED <<wire, id_in, got_esc, last_sent, mux, pending, wrong, count>>

(* uart_service_id_out = id, and the call returns. *)
SetIdOut ==
  /\ pc = "idout"
  /\ id_out' = [id_out EXCEPT !["dev"] = arg[1]]
  /\ pc' = "idle" /\ arg' = <<NoValue, NoValue>>
  /\ UNCHANGED <<wire, id_in, got_esc, last_sent, mux, pending, wrong, count>>

SendStep ==
  SendId \/ SetLast \/ SendEsc \/ SendFlipped \/ SetMask \/ SendPlain \/ SetIdOut

-----------------------------------------------------------------------------
(* The host: one turn of the main loop for a byte from the line.  Two kinds *)
(* of byte end the program with a protocol error.                           *)
ProtocolError(b) ==
  \/ b = Force /\ last_sent["host"] = NoValue
  \/ /\ b \notin Controls /\ got_esc["host"] = "yes"
     /\ ~NeedsEscape(Flip(b))

HostReceive ==
  /\ mux = "up" /\ wire["host"] # <<>>
  /\ LET b == Head(wire["host"])
         rest == Tail(wire["host"])
     IN IF ProtocolError(b)
          THEN /\ mux' = "exited"
               /\ wire' = [wire EXCEPT !["host"] = rest]
               /\ UNCHANGED <<id_in, got_esc, last_sent, pending, wrong>>
          ELSE /\ CASE b = Esc -> TakeEscape("host", rest)
                    [] b \in ServiceIds -> TakeId("host", b, rest)
                    [] b = Force -> TakeForce("host", "dev", rest)
                    [] OTHER -> TakeData("host", "dev", b, rest)
               /\ UNCHANGED mux
  /\ UNCHANGED <<id_out, pc, arg, count>>

(* ... and one for a byte from virtual port id. *)
HostSend(id, d) ==
  /\ mux = "up" /\ sends < MaxSends
  /\ wire' = [wire EXCEPT !["dev"] = @
       \o (IF id # id_out["host"] THEN <<id>> ELSE <<>>)
       \o (IF NeedsEscape(d) THEN <<Esc, Flip(d)>> ELSE <<d>>)]
  /\ last_sent' = [last_sent EXCEPT !["host"] =
       IF NeedsEscape(d) THEN EscMask + Flip(d) ELSE d]
  /\ id_out' = [id_out EXCEPT !["host"] = id]
  /\ pending' = [pending EXCEPT !["dev"] = Append(@, <<id, d>>)]
  /\ sends' = sends + 1
  /\ UNCHANGED <<id_in, got_esc, pc, arg, mux, wrong, restarts>>

-----------------------------------------------------------------------------
(* Restarts *)

Fresh(s) ==
  /\ id_in' = [id_in EXCEPT ![s] = NoValue]
  /\ id_out' = [id_out EXCEPT ![s] = NoValue]
  /\ got_esc' = [got_esc EXCEPT ![s] = "no"]
  /\ last_sent' = [last_sent EXCEPT ![s] = NoValue]
  /\ restarts[s] < MaxRestarts
  /\ restarts' = [restarts EXCEPT ![s] = @ + 1]

(* platform_uart_send has not put its data byte on the line yet. *)
Unsent == IF pc \in {"id", "last", "esc", "flip", "data"} THEN <<arg>> ELSE <<>>

(* The last n bytes sent. *)
Newest(q, n) == IF n < Len(q) THEN SubSeq(q, Len(q) - n + 1, Len(q)) ELSE q

DataBytes(w) == Cardinality({i \in DOMAIN w : w[i] \notin Controls})

(* The user starts the host program again.  Of what the program put out,    *)
(* byte by byte, only the first j bytes leave the port; of what the device  *)
(* put out, transport_ser_init discards the k bytes received until then.    *)
HostRestart(j, k) ==
  LET out  == SubSeq(wire["dev"], 1, j)
      kept == SubSeq(wire["host"], k + 1, Len(wire["host"]))
      cut  == DataBytes(wire["dev"]) - DataBytes(out)
      left == DataBytes(kept) + Len(Unsent)
  IN /\ Fresh("host")
     /\ mux' = "up"
     /\ wire' = [dev |-> out, host |-> kept]
     /\ pending' = [dev  |-> SubSeq(pending["dev"], 1, Len(pending["dev"]) - cut),
                    host |-> Newest(pending["host"], left)]
     /\ UNCHANGED <<pc, arg, wrong, sends>>

(* The device is reset.  The first k bytes on the line to it arrive while   *)
(* it starts and are lost; a send in progress ends where it is.             *)
DevRestart(k) ==
  LET kept == SubSeq(wire["dev"], k + 1, Len(wire["dev"]))
      sent == Len(pending["host"]) - Len(Unsent)
      left == DataBytes(kept)
  IN /\ Fresh("dev")
     /\ wire' = [wire EXCEPT !["dev"] = kept]
     /\ pending' = [pending EXCEPT
          !["host"] = IF sent > 0 THEN SubSeq(@, 1, sent) ELSE <<>>,
          !["dev"] = Newest(@, left)]
     /\ pc' = "idle" /\ arg' = <<NoValue, NoValue>>
     /\ UNCHANGED <<mux, wrong, sends>>

-----------------------------------------------------------------------------
(* The circumstances in which repeating the last byte cannot restore the    *)
(* stream.                                                                  *)

(* Everything that is to reach s comes behind a service id on the line.     *)
Announced(s) ==
  /\ \E i \in DOMAIN wire'[s] :
       wire'[s][i] \in ServiceIds /\ \A n \in 1 .. i : wire'[s][n] \in Controls
  /\ Len(pending'[s]) <= DataBytes(wire'[s]) + (IF s = "host" THEN Len(Unsent') ELSE 0)

(* A side has more than one byte coming that no service id precedes: only   *)
(* one can be repeated, and every one of them is answered with a request.   *)
TwoInFlight == \E s \in Sides : id_in'[s] = NoValue /\ Len(pending'[s]) > 1 /\ ~Announced(s)

(* The device is asked to repeat while it is inside platform_uart_send.     *)
AskedInMidSend ==
  /\ wire["dev"] # <<>> /\ Head(wire["dev"]) = Force
  /\ wire'["dev"] = Tail(wire["dev"]) /\ pc # "idle"

(* A side is stopped between an escape character and its byte.              *)
TornEscape ==
  \/ restarts'["dev"] # restarts["dev"] /\ pc = "flip"
  \/ /\ restarts'["host"] # restarts["host"]
     /\ LET out == wire'["dev"]
        IN IF out = <<>> THEN got_esc["dev"] = "yes" ELSE out[Len(out)] = Esc

(* A side starts while a request to repeat is on the line, or both have     *)
(* started while a byte was: nobody can repeat it.                          *)
NoOneToRepeat ==
  /\ restarts' # restarts
  /\ \E s, other \in Sides :
       /\ s # other
       /\ \/ \E i \in DOMAIN wire[s] : wire[s][i] = Force
          \/ /\ id_in'[s] = NoValue /\ last_sent'[other] = NoValue
             /\ DataBytes(wire'[s]) > 0

Lapse == TwoInFlight \/ AskedInMidSend \/ TornEscape \/ NoOneToRepeat

MarkLapse == lapsed' = IF Lapse THEN "yes" ELSE lapsed

Next ==
  /\ \/ \E m \in Traffic["dev"] : platform_uart_send(m[1], m[2])
     \/ \E m \in Traffic["host"] : HostSend(m[1], m[2])
     \/ SendStep
     \/ cmn_rx_handler
     \/ HostReceive
     \/ \E j \in 0 .. Len(wire["dev"]), k \in 0 .. Len(wire["host"]) : HostRestart(j, k)
     \/ \E k \in 0 .. Len(wire["dev"]) : DevRestart(k)
  /\ MarkLapse

(* The interrupt is served, a call of platform_uart_send goes on and the    *)
(* host loop turns.                                                         *)
Fairness ==
  /\ WF_vars(cmn_rx_handler /\ MarkLapse)
  /\ WF_vars(SendStep /\ MarkLapse)
  /\ WF_vars(HostReceive /\ MarkLapse)

Spec == Init /\ [][Next]_vars /\ Fairness

-----------------------------------------------------------------------------
(* Every byte that reaches a virtual UART is the oldest one sent and not    *)
(* yet delivered, on the service it was sent to, through restarts of both   *)
(* sides (what was in flight is lost), except after one of the four lapses. *)
DeliveredAsSent == wrong = "yes" => lapsed = "yes"

(* The host program does not end with a protocol error, restarts included,  *)
(* except after a lapse.                                                    *)
NoProtocolError == mux = "exited" => lapsed = "yes"

(* What was sent reaches its service although the receiver may have started *)
(* in between and knows no service id, except after a lapse.                *)
EverythingArrives ==
  \A s \in Sides : pending[s] # <<>> ~> (pending[s] = <<>> \/ lapsed = "yes")

=============================================================================
