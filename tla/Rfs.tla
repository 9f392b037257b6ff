-------------------------------- MODULE Rfs --------------------------------
(***************************************************************************)
(* The remote file system: the device's calls (src/remotefs/client.c) and  *)
(* the server on the PC (rfs_server_src/), over a serial port ("ser") or   *)
(* inside the multiplexer ("mem", mux_src/main.c).                         *)
(*                                                                         *)
(* A packet is a mark (TYPE_PKT_SIZE), its length, a head (start, signa-   *)
(* ture, operation), data and an end.  Nothing in it says which call it    *)
(* belongs to: the call and the place in a unit below are history.  A      *)
(* client gives up when a byte does not come in time; the server may be    *)
(* any amount late.                                                        *)
(*                                                                         *)
(* Two operations stand for the eight: "read", whose answer carries data   *)
(* (a byte of it has the value of the mark), and "write", whose request    *)
(* does.  The line keeps order and loses nothing but what a restart does,  *)
(* which may cut a response as well as a request.                          *)
(***************************************************************************)
EXTENDS Integers, Sequences, FiniteSets

CONSTANTS
  MaxCalls,     \* bound: calls of the client
  MaxRestarts   \* bound: restarts of the device and of the server together

ASSUME ConstantsAssumption == MaxCalls \in Nat /\ MaxRestarts \in Nat

Operations == {"read", "write"}
Transports == {"ser", "mem"}

VARIABLES
  transport,  \* the server's; "any" until it makes a difference
  pc,         \* where rfsch_send_request_read_response is
  ops,        \* history: the operations called so far; the last one is current
  first,      \* the kind of byte in rfsc_buffer[0]
  sent,       \* units of the request sent
  got,        \* units of the response read into rfsc_buffer
  line,       \* units the server has not read
  back,       \* units on their way to the device
  rx,         \* the device's receive buffer
  buf,        \* the server's rfs_buffer: the units of the request so far
  done,       \* mem_read_state is MEM_STATE_REQUEST_DONE, without a response
  outcome,    \* history: how each call ended
  quiet,      \* history: calls made with nothing under way
  late,       \* history: calls given up by a timeout or a restart
  executed,   \* history: the requests the server has carried out
  failed,     \* history: the calls whose os_read failed
  torn,       \* history: a restart cut a request in two, or lost one
  restarts    \* bounded counter

client == <<pc, first, sent, got>>
server == <<buf, done, executed, failed>>
hist   == <<outcome, quiet, late>>
vars   == <<transport, client, ops, line, back, rx, server, hist, torn, restarts>>

Packet(kinds, c, way) ==
  [k \in 1 .. Len(kinds) |-> [kind |-> kinds[k], call |-> c, way |-> way, pos |-> k]]

(* remotefs_<op>_write_request, remotefs_<op>_write_response *)
RequestOf(o)  == IF o = "write" THEN <<"mark", "len", "head", "data", "data", "data", "end">>
                                ELSE <<"mark", "len", "head", "end">>
ResponseOf(o) == IF o = "read"  THEN <<"mark", "len", "head", "mark", "end">>
                                ELSE <<"mark", "len", "head", "end">>

(* server_read after a failure: the size of the data is 0xFFFFFFFF, so that *)
(* the decoder does not find the end where it looks for it.                 *)
FailureOf == <<"mark", "len", "head", "mark", "lost">>

Request(c)  == Packet(RequestOf(ops[c]), c, "request")
Response(c) == Packet(ResponseOf(ops[c]), c, "response")
Failure(c)  == Packet(FailureOf, c, "response")

(* The call a packet comes from, if it is a whole one.                     *)
None == 0
Origin(p) == IF p \in {Request(p[3].call), Response(p[3].call)} THEN p[3].call ELSE None

This == Len(ops)
Calls == 1 .. Len(ops)

(* eluarpc_get_packet_size: whether the buffer starts with a size, and the *)
(* size it gives.                                                          *)
HasSize(p)  == p[1].kind = "mark" /\ p[2].kind = "len"
SizeOf(p)   == IF p[2].way = "request" THEN Len(RequestOf(ops[p[2].call]))
                                       ELSE Len(ResponseOf(ops[p[2].call]))

(* eluarpc_gen_read, over the fields o's packets have in this direction.   *)
(* The decoder looks at the head and at the end, and at nothing between.   *)
WellFormed(p, o, way) ==
  LET n == Len(IF way = "request" THEN RequestOf(o) ELSE ResponseOf(o))
  IN  /\ Len(p) >= n
      /\ p[3].kind = "head" /\ p[3].way = way /\ ops[p[3].call] = o
      /\ p[n].kind = "end"

Init ==
  /\ transport = "any"
  /\ pc = "idle" /\ ops = <<>> /\ first = "mark" /\ sent = 0 /\ got = <<>>
  /\ line = <<>> /\ back = <<>> /\ rx = <<>>
  /\ buf = <<>> /\ done = "no"
  /\ outcome = <<>> /\ quiet = {} /\ late = {} /\ executed = <<>> /\ failed = {}
  /\ torn = "no" /\ restarts = 0

(***************************************************************************)
(* The client.                                                             *)
(***************************************************************************)
Return(result, c) ==
  /\ pc' = "idle" /\ first' = "mark" /\ sent' = 0 /\ got' = <<>>
  /\ outcome' = Append(outcome, [how |-> result, of |-> c])

(* rfsc_read, rfsc_write: the request is put into rfsc_buffer.             *)
Call(o) ==
  /\ pc = "idle"
  /\ Len(ops) < MaxCalls
  /\ ops' = Append(ops, o)
  /\ pc' = "drain"
  /\ first' = "mark"
  /\ quiet' = IF line = <<>> /\ back = <<>> /\ rx = <<>> /\ buf = <<>> /\ done = "no"
              THEN quiet \cup {This + 1} ELSE quiet
  /\ UNCHANGED <<transport, sent, got, line, back, rx, server, outcome, late, torn, restarts>>

(* "Empty receive buffer": every byte drained lands in rfsc_buffer[0],     *)
(* on top of the request.                                                  *)
Drain ==
  /\ pc = "drain"
  /\ rx # <<>>
  /\ first' = rx[Len(rx)].kind
  /\ rx' = <<>>
  /\ UNCHANGED <<transport, pc, sent, got, ops, line, back, server, hist, torn, restarts>>

(* The size of the packet to send is read from the buffer.                 *)
StartSending ==
  /\ pc = "drain"
  /\ rx = <<>>
  /\ \/ first = "mark" /\ pc' = "send" /\ UNCHANGED <<first, sent, got, outcome>>
     \/ first # "mark" /\ Return("unsent", None)
  /\ UNCHANGED <<transport, ops, line, back, rx, server, quiet, late, torn, restarts>>

(* rfs_send *)
Send ==
  /\ pc = "send"
  /\ line' = Append(line, Request(This)[sent + 1])
  /\ sent' = sent + 1
  /\ pc' = IF sent + 1 = Len(Request(This)) THEN "read" ELSE "send"
  /\ UNCHANGED <<transport, first, got, ops, back, rx, server, hist, torn, restarts>>

(* Faulty variant: the last unit is not waited for.                        *)
Complete_Short(p) == Len(p) > 2 /\ Len(p) = SizeOf(p) - 1

(* ELUARPC_START_OFFSET and then temp16 - ELUARPC_START_OFFSET bytes       *)
Complete(p) == Len(p) > 2 /\ Len(p) = SizeOf(p)

(* Faulty variant: any response will do.                                   *)
Accepted_AnyOperation(p) == \E o \in Operations : WellFormed(p, o, "response")

(* remotefs_<op>_read_response                                             *)
Accepted(p) == WellFormed(p, ops[This], "response")

(* rfs_recv, header first and then as many units as it says.               *)
Receive ==
  LET p == Append(got, Head(rx)) IN
  /\ pc = "read"
  /\ rx # <<>>
  /\ rx' = Tail(rx)
  /\ \/ Len(p) = 2 /\ ~HasSize(p) /\ Return("garbled", None)
     \/ Len(p) >= 2 /\ HasSize(p) /\ Complete(p)
        /\ IF Accepted(p) THEN Return("answered", Origin(p)) ELSE Return("refused", None)
     \/ /\ Len(p) >= 2 => HasSize(p) /\ ~Complete(p)
        /\ got' = p /\ UNCHANGED <<pc, first, sent, outcome>>
  /\ UNCHANGED <<transport, ops, line, back, server, quiet, late, torn, restarts>>

(* Faulty variant: once a response has begun its end is waited for.        *)
GivesUp_HeaderOnly == rx = <<>> /\ Len(got) < 2

(* platform_uart_recv: no byte within rfsc_timeout                         *)
GivesUp == rx = <<>>

Timeout ==
  /\ pc = "read"
  /\ GivesUp
  /\ Return("timeout", None)
  /\ late' = late \cup {This}
  /\ UNCHANGED <<transport, ops, line, back, rx, server, quiet, torn, restarts>>

(* The receive interrupt of the device.                                    *)
Arrive ==
  /\ back # <<>>
  /\ rx' = Append(rx, Head(back))
  /\ back' = Tail(back)
  /\ UNCHANGED <<transport, client, ops, line, server, hist, torn, restarts>>

(***************************************************************************)
(* The server.                                                             *)
(***************************************************************************)
(* ser_read_request_packet and rfs_mem_read_request_packet: the header.    *)
(* One that is none makes "ser" throw away what has come and start over;   *)
(* "mem" reads no further request, and nothing starts it again.            *)
ReadHeader ==
  LET p == SubSeq(line, 1, 2) IN
  /\ buf = <<>> /\ done = "no" /\ Len(line) >= 2
  /\ \/ /\ HasSize(p)
        /\ buf' = p
        /\ line' = SubSeq(line, 3, Len(line))
        /\ UNCHANGED <<done, transport>>
     \/ /\ ~HasSize(p)
        /\ UNCHANGED buf
        /\ transport' \in IF transport = "any" THEN Transports ELSE {transport}
        /\ line' = IF transport' = "ser" THEN <<>> ELSE SubSeq(line, 3, Len(line))
        /\ done' = IF transport' = "ser" THEN "no" ELSE "yes"
  /\ UNCHANGED <<client, ops, back, rx, executed, failed, hist, torn, restarts>>

(* rfs_mem_read_request_packet in the state without a case of its own.     *)
Ignore ==
  /\ line # <<>> /\ done = "yes"
  /\ line' = Tail(line)
  /\ UNCHANGED <<transport, client, ops, back, rx, server, hist, torn, restarts>>

(* Faulty variant: the header is kept for the next request.                *)
AfterServing_Kept(p) == SubSeq(p, 1, 2)

(* rfs_mem_start_request, or the next turn of main's loop                  *)
AfterServing(p) == <<>>

(* The rest of the request is read, server_execute_request carries it out, *)
(* and rfs_buffer is sent, whatever became of it: a request that cannot be *)
(* decoded goes back as it came.  A read may fail; a 64-bit server ends    *)
(* when it writes the answer to that, which is a restart, ServerRestart.   *)
Serve ==
  /\ buf # <<>>
  /\ LET n == SizeOf(buf) - 2
         p == buf \o SubSeq(line, 1, n)
     IN  /\ Len(line) >= n
         /\ line' = SubSeq(line, n + 1, Len(line))
         /\ buf' = AfterServing(p)
         /\ IF \E o \in Operations : WellFormed(p, o, "request")
            THEN LET c == p[3].call IN
                 /\ executed' = Append(executed, Origin(p))
                 /\ \/ back' = back \o Response(c) /\ UNCHANGED failed
                    \/ /\ ops[c] = "read"
                       /\ back' = back \o Failure(c) /\ failed' = failed \cup {c}
            ELSE back' = back \o p /\ UNCHANGED <<executed, failed>>
  /\ UNCHANGED <<transport, client, ops, rx, done, hist, torn, restarts>>

(***************************************************************************)
(* Restarts.                                                               *)
(***************************************************************************)
DeviceRestart ==
  /\ restarts < MaxRestarts
  /\ restarts' = restarts + 1
  /\ rx' = <<>>
  /\ torn' = IF pc = "send" /\ sent > 0 THEN "yes" ELSE torn
  /\ IF pc = "idle"
     THEN UNCHANGED <<client, outcome, late>>
     ELSE /\ Return(IF sent = 0 THEN "unsent" ELSE "restart", None)
          /\ late' = late \cup {This}
  /\ UNCHANGED <<transport, ops, line, back, server, quiet>>

(* ser_server_init and transport_ser_init flush the port; of the responses *)
(* k bytes had been sent.                                                  *)
ServerRestart(k) ==
  /\ restarts < MaxRestarts
  /\ restarts' = restarts + 1
  /\ torn' = IF line # <<>> \/ buf # <<>> \/ (pc = "send" /\ sent > 0) THEN "yes" ELSE torn
  /\ line' = <<>> /\ buf' = <<>> /\ done' = "no"
  /\ back' = SubSeq(back, 1, k)
  /\ UNCHANGED <<transport, client, ops, rx, executed, failed, hist>>

Next ==
  \/ \E o \in Operations : Call(o)
  \/ Drain \/ StartSending \/ Send \/ Receive \/ Timeout \/ Arrive
  \/ ReadHeader \/ Ignore \/ Serve
  \/ DeviceRestart \/ \E k \in 0 .. Len(back) : ServerRestart(k)

(* The device runs and its interrupts are served; the client waits no      *)
(* longer than its timeout.  Nothing is assumed of the server or the line. *)
Fairness ==
  /\ WF_vars(Drain) /\ WF_vars(StartSending) /\ WF_vars(Send)
  /\ WF_vars(Receive) /\ WF_vars(Timeout)

Spec == Init /\ [][Next]_vars /\ Fairness

(***************************************************************************)
(* Properties.                                                             *)
(***************************************************************************)
Returned == 1 .. Len(outcome)
Answered == {c \in Returned : outcome[c].how = "answered"}

(* An answer a call accepts is one whole response of the server, never     *)
(* parts of two, to a request of the same operation, and no response is    *)
(* accepted twice or out of order.  It is not the call's own only if a     *)
(* call had been given up before, and then something was still under way   *)
(* when this call began (client.c: no packet carries the number of its     *)
(* call, so that after one timeout the answers may lag behind the calls).  *)
AnswerIsOwnOrLate ==
  /\ \A c \in Answered :
       LET d == outcome[c].of IN
       /\ d \in 1 .. c /\ ops[d] = ops[c]
       /\ d # c => c \notin quiet /\ \E e \in late : e <= d
  /\ \A c, d \in Answered : c < d => outcome[c].of < outcome[d].of

(* A call made with nothing under way succeeds unless it is given up or    *)
(* its os_read fails, also if the server is restarted in the middle of a   *)
(* response: the draining in rfsch_send_request_read_response spoils a     *)
(* request, and a response is garbled or refused for another reason, only  *)
(* after an earlier call was given up.                                     *)
FailureHasCause ==
  \A c \in Returned \ (Answered \cup late \cup failed) :
    c \notin quiet /\ \E d \in late : d < c

(* What the server has not carried out, and where in it requests end.      *)
Inbound    == buf \o line
Waiting    == {i \in 1 .. Len(Inbound) : Inbound[i].kind = "end"}
WasSent(c) == IF c <= Len(outcome) THEN outcome[c].how # "unsent" ELSE pc = "read"

(* Timeouts alone never bring the server out of step: as long as no        *)
(* restart cuts or loses a request, it carries out the requests the client *)
(* sent, each once and in order, and reads every header where one is.      *)
ServerInStep ==
  torn = "no" =>
    /\ done = "no"
    /\ \A i, j \in 1 .. Len(executed) : i < j => executed[i] < executed[j]
    /\ \A i, j \in Waiting : i < j => Inbound[i].call < Inbound[j].call
    /\ \A i \in 1 .. Len(executed), j \in Waiting : executed[i] < Inbound[j].call
    /\ {c \in Calls : WasSent(c)} =
         {executed[i] : i \in 1 .. Len(executed)} \cup {Inbound[j].call : j \in Waiting}

(* Every call of the client returns, whatever the server does: the         *)
(* draining, too, comes to an end.                                         *)
CallsReturn == pc # "idle" ~> pc = "idle"
=============================================================================
