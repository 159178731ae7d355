------------------------------- MODULE CliLink -------------------------------
(***************************************************************************)
(* Programs (transfer_packet and main() of rom-emulator-cli.py) talking to *)
(* the firmware: over a serial link, USB or the tunnel through the         *)
(* Minitel, which one program at a time uses and which may lose bytes, or  *)
(* over TCP, where each program has a connection of its own and the        *)
(* firmware keeps the last one (TcpClient of main.cpp). Either way one     *)
(* decoder serves all the programs of a link, and what a killed program    *)
(* has half sent, or not read, is there when the next one starts.          *)
(*                                                                         *)
(* A program's commands are WRITE_DATA packets; what handle_packet makes   *)
(* of packets is in MainLoop. Connections that end with a TCP reset from   *)
(* the program's side are left out: the firmware has no callback for them. *)
(***************************************************************************)
EXTENDS CliProtocol

CONSTANTS
  NumPrograms,      \* the user starts them in order
  PingData,         \* program |-> the random data of its first packet
  Job,              \* data of the commands of a program, in order
  StrayBytes,       \* bytes other programs may send when they open the serial port
  MaxFaults         \* bytes lost, stray bytes and torn packets

Programs == 1 .. NumPrograms

ASSUME NumProgramsAssumption == NumPrograms \in Nat \ {0}
ASSUME PingDataAssumption ==
  /\ PingData \in [Programs -> Data]
  /\ \A p, q \in Programs : PingData[p] = PingData[q] => p = q
ASSUME JobAssumption == Job \in Seq(Data \ {<<>>})
ASSUME StrayBytesAssumption == StrayBytes \subseteq Byte
ASSUME MaxFaultsAssumption == MaxFaults \in Nat

\* The wire of the serial link, and one wire per connection.
SerialWire == 0
Wires == {SerialWire} \cup Programs
NoClient == 0

VARIABLES
  link,             \* "serial" or "tcp", for the whole behaviour
  pc,               \* what a program waits for, or how it ended
  answers,          \* commands of a program that were answered
  up, down,         \* wire |-> bytes on their way to the firmware, and back
  decoder,          \* stdio_decoder or magic_io_decoder; tcp_decoder
  curr_client,      \* the program of the last connection; NoClient
  pcb,              \* the firmware's end of the connection of a program
  faults,
  pending,          \* history: wire |-> packets sent after the last one handled
  log,              \* history: wire |-> packets handled since the last ping, included
  undisturbed,      \* history: did a program start in step, and nothing happen to it since?
  deaf              \* history: pings in a row that got no answer, with no fault

vars == <<link, pc, answers, up, down, decoder, curr_client, pcb, faults,
          pending, log, undisturbed, deaf>>
program == <<pc, answers>>
history == <<pending, log, undisturbed, deaf>>
connections == <<curr_client, pcb>>

Active == {"ping", "command"}
IsActive(p) == pc[p] \in Active
Wire(p) == IF link = "serial" THEN SerialWire ELSE p
Ping(p) == [type |-> PING, data |-> PingData[p]]
Command(k) == [type |-> WRITE_DATA, data |-> Job[k]]

Init ==
  /\ link \in {"serial", "tcp"}
  /\ pc = [p \in Programs |-> "idle"]
  /\ answers = [p \in Programs |-> 0]
  /\ up = [w \in Wires |-> <<>>] /\ down = [w \in Wires |-> <<>>]
  /\ decoder = NewDecoder
  /\ curr_client = NoClient
  /\ pcb = [p \in Programs |-> "none"]
  /\ faults = 0
  /\ pending = [w \in Wires |-> <<>>] /\ log = [w \in Wires |-> <<>>]
  /\ undisturbed = [p \in Programs |-> FALSE]
  /\ deaf = 0

-----------------------------------------------------------------------------
(* The program.                                                            *)

\* What a program writes after the firmware closed its connection is lost.
Send(p, packet) ==
  IF link = "tcp" /\ pcb[p] # "open"
  THEN UNCHANGED <<up, pending>>
  ELSE /\ up' = [up EXCEPT ![Wire(p)] = @ \o Encode(packet)]
       /\ pending' = [pending EXCEPT ![Wire(p)] = Append(@, packet)]

\* Nothing is left of a program that ended but what it had written.
End(p) ==
  /\ pc' = [pc EXCEPT ![p] = "ended"]
  /\ answers' = [answers EXCEPT ![p] = 0]

\* Programs are started one by one; those that use the serial port have it to themselves.
MayStart(p) ==
  /\ pc[p] = "idle"
  /\ \A q \in 1 .. p - 1 : pc[q] # "idle" /\ (link = "serial" => ~ IsActive(q))

\* Whatever has arrived is flushed; the rest of an old answer is still to come.
StartSerial(p) ==
  /\ link = "serial" /\ MayStart(p)
  /\ \E n \in 0 .. Len(down[SerialWire]) :
       LET rest == SubSeq(down[SerialWire], n + 1, Len(down[SerialWire]))
       IN /\ down' = [down EXCEPT ![SerialWire] = rest]
          /\ undisturbed' = [undisturbed EXCEPT ![p] =
               /\ rest = <<>> /\ up[SerialWire] = <<>>
               /\ decoder.state \in {"WaitForMagicBegin1", "PacketAvailable"}]
  /\ Send(p, Ping(p))
  /\ pc' = [pc EXCEPT ![p] = "ping"]
  /\ UNCHANGED <<link, answers, decoder, connections, faults, log, deaf>>

\* A program gives its command, or is done.
Proceed(p, n) ==
  /\ answers' = [answers EXCEPT ![p] = n]
  /\ IF n < Len(Job)
     THEN Send(p, Command(n + 1)) /\ pc' = [pc EXCEPT ![p] = "command"]
     ELSE UNCHANGED <<up, pending>> /\ pc' = [pc EXCEPT ![p] = "done"]

\* transfer_packet once it has sent its packet, and what its caller makes of the
\* reply. It reads the header, then as many bytes as the header says; an error
\* ends the program.
Header == 5
LengthIn(bytes) == bytes[3] + 256 * bytes[4]
DataIn(bytes) == SubSeq(bytes, Header + 1, Header + LengthIn(bytes))

HeaderExpected(bytes, type) ==
  /\ bytes[1] = MAGIC_BEGIN_1 /\ bytes[2] = MAGIC_BEGIN_2
  /\ bytes[Header] = ReplyType(type)
FooterExpected(bytes) ==
  LET n == Header + LengthIn(bytes)
  IN SubSeq(bytes, n + 1, n + 4) = Footer(SubSeq(bytes, 3, n))

PingAnsweredByAny(p, data) == TRUE  \* mutated: any data will do
PingAnswered(p, data) == data = PingData[p]
Requested(p) == IF pc[p] = "ping" THEN PING ELSE WRITE_DATA

ReceiveError(p) ==
  /\ IsActive(p)
  /\ LET bytes == down[Wire(p)]
     IN /\ Len(bytes) >= Header
        /\ \/ ~ HeaderExpected(bytes, Requested(p))
           \/ /\ Len(bytes) >= Header + LengthIn(bytes) + 4
              /\ \/ ~ FooterExpected(bytes)
                 \/ pc[p] = "ping" /\ ~ PingAnswered(p, DataIn(bytes))
  /\ End(p)
  /\ UNCHANGED <<link, up, down, decoder, connections, faults, history>>

Receive(p) ==
  /\ IsActive(p)
  /\ UNCHANGED <<link, decoder, connections, faults, log, undisturbed, deaf>>
  /\ LET bytes == down[Wire(p)]
     IN /\ Len(bytes) >= Header /\ HeaderExpected(bytes, Requested(p))
        /\ Len(bytes) >= Header + LengthIn(bytes) + 4 /\ FooterExpected(bytes)
        /\ pc[p] = "ping" => PingAnswered(p, DataIn(bytes))
        /\ down' = [down EXCEPT ![Wire(p)] =
                      SubSeq(bytes, Header + LengthIn(bytes) + 5, Len(bytes))]
  /\ Proceed(p, IF pc[p] = "ping" THEN 0 ELSE answers[p] + 1)

\* A program is interrupted, by the user or with its computer, or gives up waiting (the
\* TimeoutErrors of transfer_packet; the model has no clock, and it may at any time).
\* Some of what it has written may never leave.
Kill(p) ==
  /\ IsActive(p)
  /\ End(p)
  /\ deaf' = IF /\ link = "serial" /\ pc[p] = "ping"
                /\ up[SerialWire] = <<>> /\ down[SerialWire] = <<>>
             THEN deaf + 1
             ELSE deaf
  /\ undisturbed' = [undisturbed EXCEPT ![p] = FALSE]
  /\ UNCHANGED <<link, up, down, decoder, connections, faults, pending, log>>

KillMidPacket(p) ==
  /\ IsActive(p) /\ faults < MaxFaults
  /\ up[Wire(p)] # <<>>
  /\ \E n \in 0 .. Len(up[Wire(p)]) - 1 : up' = [up EXCEPT ![Wire(p)] = SubSeq(@, 1, n)]
  /\ End(p)
  /\ faults' = faults + 1
  /\ deaf' = 0
  /\ undisturbed' = [undisturbed EXCEPT ![p] = FALSE]
  /\ UNCHANGED <<link, down, decoder, connections, pending, log>>

\* The program finds its connection closed. It may have read what was there before.
SeeReset(p) ==
  /\ IsActive(p) /\ pcb[p] = "aborted"
  /\ End(p)
  /\ UNCHANGED <<link, up, down, decoder, connections, faults, history>>

-----------------------------------------------------------------------------
(* The serial link. (Bytes are lost before they are read, either way.)     *)

Disturb ==
  /\ link = "serial" /\ faults < MaxFaults
  /\ faults' = faults + 1
  /\ undisturbed' = [p \in Programs |-> FALSE]
  /\ deaf' = 0
  /\ UNCHANGED <<link, program, decoder, connections, pending, log>>

LoseUp ==
  /\ up[SerialWire] # <<>>
  /\ up' = [up EXCEPT ![SerialWire] = Tail(@)]
  /\ UNCHANGED down
  /\ Disturb

LoseDown ==
  /\ \E i \in DOMAIN down[SerialWire] : down' = [down EXCEPT ![SerialWire] = RemoveAt(@, i)]
  /\ UNCHANGED up
  /\ Disturb

\* Another program opens the port, writes to it and closes it.
Stray(byte) ==
  /\ \A p \in Programs : ~ IsActive(p)
  /\ up' = [up EXCEPT ![SerialWire] = Append(@, byte)]
  /\ UNCHANGED down
  /\ Disturb

-----------------------------------------------------------------------------
(* The firmware.                                                           *)

\* handle_packet, which does not reply to what it does not know.
OK == <<79, 75>>
Reply(packet) ==
  IF packet.type = PING
  THEN Encode([packet EXCEPT !.type = ReplyType(PING)])
  ELSE IF packet.type = WRITE_DATA /\ packet.data # <<>>
  THEN Encode([type |-> ReplyType(WRITE_DATA), data |-> OK])
  ELSE <<>>

\* What comes after the first x of s.
After(s, x) ==
  LET places == {i \in DOMAIN s : s[i] = x}
  IN IF places = {} THEN s ELSE SubSeq(s, Min(places) + 1, Len(s))

Handle(w, packet) ==
  /\ down' = [down EXCEPT ![w] = @ \o Reply(packet)]
  /\ pending' = [pending EXCEPT ![w] = After(@, packet)]
  /\ log' = [log EXCEPT ![w] = IF packet.type = PING THEN <<packet>> ELSE Append(@, packet)]
  /\ deaf' = 0

\* main() on a byte from USB, or from the tunnel.
IngestSerial ==
  /\ link = "serial" /\ up[SerialWire] # <<>>
  /\ UNCHANGED <<link, program, connections, faults, undisturbed>>
  /\ up' = [up EXCEPT ![SerialWire] = Tail(@)]
  /\ \E d \in {push(decoder, Head(up[SerialWire]))} :
       /\ decoder' = IF d.state = "Error" THEN reset(d) ELSE d
       /\ IF d.state = "PacketAvailable"
          THEN Handle(SerialWire, GetPacket(d))
          ELSE UNCHANGED <<down, pending, log, deaf>>

\* TcpClient::close(). What the program has sent and was not read yet is dropped.
CloseClient(p) ==
  /\ pcb' = [pcb EXCEPT ![p] = "aborted"]
  /\ up' = [up EXCEPT ![p] = <<>>]

\* TcpClient::on_recv, one byte.
OnRecv(p) ==
  /\ pcb[p] = "open" /\ up[p] # <<>>
  /\ UNCHANGED <<link, program, curr_client, faults, undisturbed>>
  /\ \E d \in {push(decoder, Head(up[p]))} :
       /\ decoder' = d
       /\ IF d.state = "Error"
          THEN CloseClient(p)
          ELSE up' = [up EXCEPT ![p] = Tail(@)] /\ UNCHANGED pcb
       /\ IF d.state = "PacketAvailable"
          THEN Handle(p, GetPacket(d))
          ELSE UNCHANGED <<down, pending, log, deaf>>

\* TcpClient::on_recv, when the program's end is closed; a program that died with
\* its computer never gets here.
OnFin(p) ==
  /\ pcb[p] = "open" /\ ~ IsActive(p)
  /\ up[p] = <<>> /\ down[p] = <<>>
  /\ CloseClient(p)
  /\ UNCHANGED <<link, program, down, decoder, curr_client, faults, history>>

\* on_tcp_client_accepted, and the new program's first packet.
OldClientKept == {}  \* mutated: the connection before is left open
OldClient == {curr_client} \cap {q \in Programs : pcb[q] = "open"}

StartTcp(p) ==
  /\ link = "tcp" /\ MayStart(p)
  /\ pcb' = [q \in Programs |->
               IF q = p THEN "open" ELSE IF q \in OldClient THEN "aborted" ELSE pcb[q]]
  /\ up' = [w \in Wires |->
              IF w = p THEN Encode(Ping(p)) ELSE IF w \in OldClient THEN <<>> ELSE up[w]]
  /\ pending' = [pending EXCEPT ![p] = <<Ping(p)>>]
  /\ decoder' = reset(decoder)
  /\ curr_client' = p
  /\ pc' = [pc EXCEPT ![p] = "ping"]
  /\ undisturbed' = [q \in Programs |-> q = p \/ (undisturbed[q] /\ q \notin OldClient)]
  /\ UNCHANGED <<link, answers, down, faults, log, deaf>>

Next ==
  \/ \E p \in Programs :
       \/ StartSerial(p) \/ StartTcp(p)
       \/ Receive(p) \/ ReceiveError(p) \/ SeeReset(p)
       \/ Kill(p) \/ KillMidPacket(p)
       \/ OnRecv(p) \/ OnFin(p)
  \/ IngestSerial \/ LoseUp \/ LoseDown
  \/ \E byte \in StrayBytes : Stray(byte)

Spec == Init /\ [][Next]_vars

\* The main loop polls every source on every turn, and a program reads when it can
\* (which need not be assumed of those that something happened to).
Fairness ==
  /\ WF_vars(IngestSerial)
  /\ \A p \in Programs : WF_vars(OnRecv(p)) /\ WF_vars(undisturbed[p] /\ Receive(p))

FairSpec == Spec /\ Fairness

-----------------------------------------------------------------------------
(* Properties.                                                             *)

\* Types. The decoder never stores more than its buffer holds.
TypeOK ==
  /\ link \in {"serial", "tcp"}
  /\ pc \in [Programs -> Active \cup {"idle", "done", "ended"}]
  /\ answers \in [Programs -> 0 .. Len(Job)]
  /\ \A w \in Wires :
       /\ Range(up[w]) \subseteq Byte /\ Range(down[w]) \subseteq Byte
       /\ \A packet \in Range(pending[w]) \cup Range(log[w]) :
            packet.type \in Byte /\ Range(packet.data) \subseteq Byte
  /\ decoder.state \in State
  /\ decoder.packet_type \in Byte /\ decoder.length \in Word /\ decoder.crc \in Word
  /\ Range(decoder.buf) \subseteq Byte /\ Len(decoder.buf) <= MAX_DATA_LENGTH
  /\ curr_client \in {NoClient} \cup Programs
  /\ pcb \in [Programs -> {"none", "open", "aborted"}]
  /\ faults \in 0 .. MaxFaults
  /\ undisturbed \in [Programs -> BOOLEAN]
  /\ deaf \in Nat

\* Does the data of no packet hold a whole packet?
IsPacket(bytes) ==
  /\ Len(bytes) >= Header + 4
  /\ bytes = Encode([type |-> bytes[Header],
                      data |-> SubSeq(bytes, Header + 1, Len(bytes) - 4)])
PlainData ==
  \A data \in Range(Job) \cup Range(PingData) :
    \A i, j \in DOMAIN data : ~ IsPacket(SubSeq(data, i, j))

\* The firmware handles the packets that were sent, in order and each at most once,
\* whatever is lost, torn or left over: over TCP whatever the data of packets is, on the
\* serial link only of data that holds no whole packet. (There a decoder that lost step
\* finds a packet within the data of another and takes it. Nor does a checksum of two
\* bytes tell every beginning of a packet, followed by what was not its end, from a
\* packet: on the serial link this is a property of the data the runs send.)
OnlySentPackets ==
  [][link = "tcp" \/ PlainData =>
       \A w \in Wires :
         up'[w] # up[w] /\ decoder' # decoder /\ decoder'.state = "PacketAvailable" =>
           \E k \in DOMAIN pending[w] :
             /\ pending[w][k] = GetPacket(decoder')
             /\ pending'[w] = SubSeq(pending[w], k + 1, Len(pending[w]))]_vars

\* The reply a program takes is to its own packet: when it takes one, the firmware has
\* handled its ping, those of its commands that are answered now, and nothing else
\* since. Old replies are never taken for new ones. (On the serial link, again, of data
\* that holds no whole packet: a ping is answered with its data.)
TakesReply(p) ==
  /\ IsActive(p) /\ pc'[p] \in {"command", "done"}
  /\ <<pc[p], answers[p]>>' # <<pc[p], answers[p]>>
RepliesAreOwn ==
  [][link = "tcp" \/ PlainData =>
       \A p \in Programs : TakesReply(p) =>
         log[Wire(p)] = <<Ping(p)>> \o [k \in 1 .. answers'[p] |-> Command(k)]]_vars

\* There is never more than one TCP client connected to the decoder, and it is the
\* last one accepted.
OneClient == {p \in Programs : pcb[p] = "open"} \subseteq {curr_client}

\* A decoder left in the middle of a packet takes what follows for the rest of it, up
\* to all of the longest packet but its begin magic, and then finds the next packet:
\* one ping gets no answer, then as many as begin in that rest, at most.
PingLength == Len(Encode(Ping(1)))
MaxDeaf == 1 + (MAX_DATA_LENGTH + 6) \div PingLength + 1
BoundedDeafness == deaf <= MaxDeaf

\* That is so of pings of one length that do not look like the beginning of another.
PlainPings ==
  \A p \in Programs :
    LET bytes == Encode(Ping(p))
    IN /\ Len(bytes) = PingLength /\ Len(PingData[p]) <= MAX_DATA_LENGTH
       /\ \A i \in 2 .. PingLength - 1 :
            ~ (bytes[i] = MAGIC_BEGIN_1 /\ bytes[i + 1] = MAGIC_BEGIN_2)

\* A program that starts with the link in step, as every connection does, is answered
\* to the end, unless it is interrupted, bytes are lost or a new client takes over.
Answered ==
  \A p \in Programs :
    undisturbed[p] /\ IsActive(p) ~> pc[p] = "done" \/ ~ undisturbed[p]
=============================================================================
