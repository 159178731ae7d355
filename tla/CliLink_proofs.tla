---------------------------- MODULE CliLink_proofs ----------------------------
(***************************************************************************)
(* Theorems about CliLink, for any number of programs and commands, all    *)
(* data and every maximum length of it.                                    *)
(*                                                                         *)
(* On a connection of its own a program has at most one packet or reply    *)
(* under way. The invariant (Connection) says where: the decoder has taken *)
(* the first bytes of a packet and the next ones are on the wire (InPart), *)
(* or the reply to it is on its way back (Replied), or the firmware closed *)
(* the connection (Lost). What the firmware makes of the last byte is then *)
(* what CliProtocol_proofs shows of the codec.                             *)
(*                                                                         *)
(* On the serial link, where bytes are lost and packets torn, the last     *)
(* theorem bounds what that costs the programs that come after.            *)
(***************************************************************************)
EXTENDS CliLink, CliProtocol_proofs

-----------------------------------------------------------------------------
(* Types.                                                                  *)

Typed ==
  /\ link \in {"serial", "tcp"}
  /\ pc \in [Programs -> {"ping", "command", "idle", "done", "ended"}]
  /\ answers \in [Programs -> 0 .. Len(Job)]
  /\ \A p \in Programs : pc[p] = "command" => answers[p] < Len(Job)
  /\ up \in [Wires -> Seq(Byte)] /\ down \in [Wires -> Seq(Byte)]
  /\ Sound(decoder)
  /\ curr_client \in {NoClient} \cup Programs
  /\ pcb \in [Programs -> {"none", "open", "aborted"}]
  /\ faults \in 0 .. MaxFaults
  /\ pending \in [Wires -> Seq(Packet)] /\ log \in [Wires -> Seq(Packet)]
  /\ undisturbed \in [Programs -> BOOLEAN]
  /\ deaf \in Nat

LEMMA Constant ==
  /\ \A p \in Programs : p \in Wires /\ p \in Nat /\ p # SerialWire /\ p # NoClient
  /\ SerialWire \in Wires
  /\ Len(Job) \in Nat /\ MaxFaults \in Nat
  /\ PING \in Byte /\ WRITE_DATA \in Byte /\ PING # WRITE_DATA
BY NumProgramsAssumption, JobAssumption, MaxFaultsAssumption, ByteIs
   DEF Programs, Wires, SerialWire, NoClient, PING, WRITE_DATA

LEMMA Packets ==
  /\ \A p \in Programs : Ping(p) \in Packet /\ Ping(p).type = PING
  /\ \A k \in 1 .. Len(Job) :
       Command(k) \in Packet /\ Command(k).type = WRITE_DATA /\ Command(k).data # <<>>
<1>1. \A p \in Programs : Ping(p) \in Packet /\ Ping(p).type = PING
  BY PingDataAssumption, Constant DEF Ping, Packet
<1>2. \A k \in 1 .. Len(Job) : Job[k] \in Data \ {<<>>}
  BY JobAssumption
<1>3. \A k \in 1 .. Len(Job) :
       Command(k) \in Packet /\ Command(k).type = WRITE_DATA /\ Command(k).data # <<>>
  BY <1>2, Constant DEF Command, Packet
<1> QED BY <1>1, <1>3

LEMMA WireOf == ASSUME Typed, NEW p \in Programs PROVE Wire(p) \in Wires
BY Constant DEF Wire

LEMMA EncodeTyped == ASSUME NEW packet \in Packet PROVE Encode(packet) \in Seq(Byte)
BY Encoded

LEMMA ReplyTypes ==
  ASSUME NEW type \in Byte PROVE ReplyType(type) \in Byte
<1>1. type \in Nat /\ type <= 255
  BY ByteIs
<1>2. ReplyType(type) \in Nat /\ ReplyType(type) <= 255
  BY <1>1, Powers DEF ReplyType, Flip, Bit
<1> QED BY <1>2, ByteIs

\* The reply is a packet, but for what the firmware does not know.
LEMMA ReplyIs ==
  ASSUME NEW packet \in Packet
  PROVE  \/ /\ Reply(packet) = <<>>
            /\ packet.type # PING /\ (packet.type = WRITE_DATA => packet.data = <<>>)
         \/ \E q \in Packet : Reply(packet) = Encode(q)
<1>1. packet.type \in Byte /\ packet.data \in Data
  BY DEF Packet
<1>2. CASE packet.type = PING
  <2>1. [packet EXCEPT !.type = ReplyType(PING)] \in Packet
    BY ReplyTypes, Constant DEF Packet
  <2> QED BY <2>1, <1>2 DEF Reply
<1>3. CASE packet.type # PING /\ packet.type = WRITE_DATA /\ packet.data # <<>>
  <2>1. OK \in Data
    <3>1. 79 \in Byte /\ 75 \in Byte /\ 2 \in Word
      BY ByteIs, WordIs
    <3> QED BY <3>1 DEF OK, Data
  <2>2. [type |-> ReplyType(WRITE_DATA), data |-> OK] \in Packet
    BY <2>1, ReplyTypes, Constant DEF Packet
  <2> QED BY <2>2, <1>3 DEF Reply
<1>4. CASE packet.type # PING /\ ~ (packet.type = WRITE_DATA /\ packet.data # <<>>)
  BY <1>4 DEF Reply
<1> QED BY <1>2, <1>3, <1>4

LEMMA ReplyTyped == ASSUME NEW packet \in Packet PROVE Reply(packet) \in Seq(Byte)
<1>1. CASE Reply(packet) = <<>>
  <2>1. <<>> \in Seq(Byte)
    OBVIOUS
  <2> QED BY ONLY <2>1, <1>1
<1>2. CASE \E q \in Packet : Reply(packet) = Encode(q)
  BY <1>2, EncodeTyped
<1> QED BY <1>1, <1>2, ReplyIs

LEMMA Got == ASSUME NEW d, Sound(d) PROVE GetPacket(d) \in Packet
<1>1. d.packet_type \in Byte /\ d.buf \in Seq(Byte) /\ Len(d.buf) <= MAX_DATA_LENGTH
  BY DEF Sound, Decoder
<1>2. Len(d.buf) \in Word
  BY <1>1, WordIs, MaxDataLengthAssumption, Powers
<1> QED BY <1>1, <1>2 DEF GetPacket, Packet, Data

LEMMA AfterTyped == ASSUME NEW s \in Seq(Packet), NEW x PROVE After(s, x) \in Seq(Packet)
<1> DEFINE places == {i \in DOMAIN s : s[i] = x}
<1>1. CASE places = {}
  BY <1>1 DEF After
<1>2. CASE places # {}
  <2>1. places \in SUBSET Nat
    OBVIOUS
  <2>2. Min(places) \in places
    <3> HIDE DEF places
    <3>1. \E n \in places : \A m \in places : n <= m
      BY <1>2, <2>1, LeastElement
    <3> QED BY <3>1 DEF Min
  <2>3. After(s, x) = SubSeq(s, Min(places) + 1, Len(s))
    BY <1>2 DEF After
  <2>4. Min(places) \in 1 .. Len(s) /\ Len(s) \in Nat
    BY <2>2
  <2>5. \A m \in 1 .. Len(s) : SubSeq(s, m + 1, Len(s)) \in Seq(Packet)
    OBVIOUS
  <2> QED BY <2>3, <2>4, <2>5
<1> QED BY <1>1, <1>2

LEMMA Appended ==
  ASSUME NEW S, NEW s \in Seq(S), NEW t \in Seq(S), NEW x \in S
  PROVE  s \o t \in Seq(S) /\ Append(s, x) \in Seq(S) /\ <<x>> \in Seq(S)
OBVIOUS

LEMMA Cut ==
  ASSUME NEW S, NEW s \in Seq(S), NEW m \in 1 .. Len(s) + 1, NEW n \in 0 .. Len(s)
  PROVE  SubSeq(s, m, n) \in Seq(S)
OBVIOUS

-----------------------------------------------------------------------------
(* The actions keep the types.                                             *)

\* What the programs send and the firmware handles.
LEMMA SendTyped ==
  ASSUME Typed, NEW p \in Programs, NEW packet \in Packet, Send(p, packet)
  PROVE  up' \in [Wires -> Seq(Byte)] /\ pending' \in [Wires -> Seq(Packet)]
<1>1. up \in [Wires -> Seq(Byte)] /\ pending \in [Wires -> Seq(Packet)] /\ Wire(p) \in Wires
  BY WireOf DEF Typed
<1>2. CASE UNCHANGED <<up, pending>>
  BY <1>1, <1>2
<1>3. CASE /\ up' = [up EXCEPT ![Wire(p)] = @ \o Encode(packet)]
           /\ pending' = [pending EXCEPT ![Wire(p)] = Append(@, packet)]
  <2>1. up[Wire(p)] \in Seq(Byte) /\ pending[Wire(p)] \in Seq(Packet)
    BY <1>1
  <2>2. up[Wire(p)] \o Encode(packet) \in Seq(Byte) /\ Append(pending[Wire(p)], packet) \in Seq(Packet)
    BY <2>1, EncodeTyped, Appended
  <2> QED BY <1>1, <1>3, <2>2
<1> QED BY <1>2, <1>3 DEF Send

LEMMA HandleTyped ==
  ASSUME Typed, NEW w \in Wires, NEW packet \in Packet, Handle(w, packet)
  PROVE  /\ down' \in [Wires -> Seq(Byte)] /\ pending' \in [Wires -> Seq(Packet)]
         /\ log' \in [Wires -> Seq(Packet)] /\ deaf' \in Nat
<1>1. down \in [Wires -> Seq(Byte)] /\ pending \in [Wires -> Seq(Packet)] /\ log \in [Wires -> Seq(Packet)]
  BY DEF Typed
<1>2. down[w] \o Reply(packet) \in Seq(Byte)
  BY <1>1, ReplyTyped, Appended
<1>3. After(pending[w], packet) \in Seq(Packet)
  BY <1>1, AfterTyped
<1>4. <<packet>> \in Seq(Packet) /\ Append(log[w], packet) \in Seq(Packet)
  BY <1>1, Appended
<1>5. (IF packet.type = PING THEN <<packet>> ELSE Append(log[w], packet)) \in Seq(Packet)
  BY <1>4
<1>6. /\ down' = [down EXCEPT ![w] = down[w] \o Reply(packet)]
      /\ pending' = [pending EXCEPT ![w] = After(pending[w], packet)]
      /\ log' = [log EXCEPT ![w] = IF packet.type = PING THEN <<packet>> ELSE Append(log[w], packet)]
      /\ deaf' = 0
  BY DEF Handle
<1>7. down' \in [Wires -> Seq(Byte)]
  BY <1>1, <1>2, <1>6
<1>8. pending' \in [Wires -> Seq(Packet)]
  BY <1>1, <1>3, <1>6
<1>9. log' \in [Wires -> Seq(Packet)]
  BY <1>1, <1>5, <1>6
<1> QED BY <1>6, <1>7, <1>8, <1>9

LEMMA EndTyped ==
  ASSUME Typed, NEW p \in Programs, End(p)
  PROVE  /\ pc' \in [Programs -> {"ping", "command", "idle", "done", "ended"}]
         /\ answers' \in [Programs -> 0 .. Len(Job)]
         /\ \A q \in Programs : pc'[q] = "command" => answers'[q] < Len(Job)
<1>1. 0 \in 0 .. Len(Job)
  BY Constant
<1> QED BY <1>1 DEF Typed, End

LEMMA ProceedTyped ==
  ASSUME Typed, NEW p \in Programs, NEW n \in 0 .. Len(Job), Proceed(p, n)
  PROVE  /\ pc' \in [Programs -> {"ping", "command", "idle", "done", "ended"}]
         /\ answers' \in [Programs -> 0 .. Len(Job)]
         /\ \A q \in Programs : pc'[q] = "command" => answers'[q] < Len(Job)
         /\ up' \in [Wires -> Seq(Byte)] /\ pending' \in [Wires -> Seq(Packet)]
<1>1. answers' \in [Programs -> 0 .. Len(Job)]
  BY DEF Proceed, Typed
<1>2. CASE n < Len(Job)
  <2>1. Send(p, Command(n + 1)) /\ pc' = [pc EXCEPT ![p] = "command"]
    BY <1>2 DEF Proceed
  <2>2. Command(n + 1) \in Packet
    <3>1. n + 1 \in 1 .. Len(Job)
      BY <1>2, Constant
    <3> QED BY <3>1, Packets
  <2>3. up' \in [Wires -> Seq(Byte)] /\ pending' \in [Wires -> Seq(Packet)]
    BY <2>1, <2>2, SendTyped
  <2>4. pc' \in [Programs -> {"ping", "command", "idle", "done", "ended"}]
    BY <2>1 DEF Typed
  <2>5. \A q \in Programs : pc'[q] = "command" => answers'[q] < Len(Job)
    BY <2>1, <1>2 DEF Typed, Proceed
  <2> QED BY <1>1, <2>3, <2>4, <2>5
<1>3. CASE ~ (n < Len(Job))
  <2>1. UNCHANGED <<up, pending>> /\ pc' = [pc EXCEPT ![p] = "done"]
    BY <1>3 DEF Proceed
  <2>2. pc' \in [Programs -> {"ping", "command", "idle", "done", "ended"}]
    BY <2>1 DEF Typed
  <2>3. \A q \in Programs : pc'[q] = "command" => answers'[q] < Len(Job)
    BY <2>1 DEF Typed, Proceed
  <2> QED BY <1>1, <2>1, <2>2, <2>3 DEF Typed
<1> QED BY <1>2, <1>3

LEMMA StartSerialTyped == ASSUME Typed, NEW p \in Programs, StartSerial(p) PROVE Typed'
<1>1. UNCHANGED <<link, answers, decoder, curr_client, pcb, faults, log, deaf>>
  BY DEF StartSerial, connections
<1>2. pc' = [pc EXCEPT ![p] = "ping"] /\ Send(p, Ping(p))
  BY DEF StartSerial
<1>3. up' \in [Wires -> Seq(Byte)] /\ pending' \in [Wires -> Seq(Packet)]
  BY <1>2, SendTyped, Packets
<1>4. PICK n \in 0 .. Len(down[SerialWire]) :
        LET rest == SubSeq(down[SerialWire], n + 1, Len(down[SerialWire]))
        IN /\ down' = [down EXCEPT ![SerialWire] = rest]
           /\ undisturbed' = [undisturbed EXCEPT ![p] =
                /\ rest = <<>> /\ up[SerialWire] = <<>>
                /\ decoder.state \in {"WaitForMagicBegin1", "PacketAvailable"}]
  BY DEF StartSerial
<1>5. down' \in [Wires -> Seq(Byte)]
  <2>1. down[SerialWire] \in Seq(Byte) /\ down \in [Wires -> Seq(Byte)]
    BY Constant DEF Typed
  <2> DEFINE rest == SubSeq(down[SerialWire], n + 1, Len(down[SerialWire]))
  <2>2. rest \in Seq(Byte)
    BY <2>1, Cut
  <2>3. down' = [down EXCEPT ![SerialWire] = rest]
    BY <1>4
  <2> HIDE DEF rest
  <2> QED BY <2>1, <2>2, <2>3
<1>6. undisturbed' \in [Programs -> BOOLEAN]
  BY <1>4 DEF Typed
<1>7. pc' \in [Programs -> {"ping", "command", "idle", "done", "ended"}]
      /\ \A q \in Programs : pc'[q] = "command" => answers[q] < Len(Job)
  BY <1>2 DEF Typed
<1> QED BY <1>1, <1>3, <1>5, <1>6, <1>7 DEF Typed

LEMMA StartTcpTyped == ASSUME Typed, NEW p \in Programs, StartTcp(p) PROVE Typed'
<1>1. UNCHANGED <<link, answers, down, faults, log, deaf>>
  BY DEF StartTcp
<1>2. Encode(Ping(p)) \in Seq(Byte) /\ <<Ping(p)>> \in Seq(Packet) /\ <<>> \in Seq(Byte)
  BY Packets, EncodeTyped
<1>3. up' \in [Wires -> Seq(Byte)]
  <2> DEFINE first == Encode(Ping(p))
             none == <<>>
  <2>1. up' = [w \in Wires |-> IF w = p THEN first ELSE IF w \in OldClient THEN none ELSE up[w]]
    BY DEF StartTcp
  <2>2. first \in Seq(Byte) /\ none \in Seq(Byte)
    BY <1>2
  <2>3. up \in [Wires -> Seq(Byte)]
    BY DEF Typed
  <2> HIDE DEF first, none
  <2> QED BY <2>1, <2>2, <2>3
<1>4. pending' \in [Wires -> Seq(Packet)]
  BY <1>2 DEF StartTcp, Typed
<1>5. Sound(decoder')
  BY ResetIsSound DEF StartTcp, Typed
<1>6. curr_client' \in {NoClient} \cup Programs /\ pcb' \in [Programs -> {"none", "open", "aborted"}]
  BY DEF StartTcp, Typed
<1>7. /\ pc' \in [Programs -> {"ping", "command", "idle", "done", "ended"}]
      /\ \A q \in Programs : pc'[q] = "command" => answers[q] < Len(Job)
  BY DEF StartTcp, Typed
<1>8. undisturbed' \in [Programs -> BOOLEAN]
  BY DEF StartTcp, Typed
<1> QED BY <1>1, <1>3, <1>4, <1>5, <1>6, <1>7, <1>8 DEF Typed

LEMMA ReceiveTyped == ASSUME Typed, NEW p \in Programs, Receive(p) PROVE Typed'
<1> DEFINE bytes == down[Wire(p)]
           length == LengthIn(bytes)
           n == IF pc[p] = "ping" THEN 0 ELSE answers[p] + 1
<1>1. UNCHANGED <<link, decoder, curr_client, pcb, faults, log, undisturbed, deaf>> /\ IsActive(p)
  BY DEF Receive, connections
<1>2. n \in 0 .. Len(Job)
  <2>1. pc[p] = "ping" \/ pc[p] = "command"
    BY <1>1 DEF IsActive, Active
  <2>2. answers[p] \in 0 .. Len(Job) /\ (pc[p] = "command" => answers[p] < Len(Job))
    BY DEF Typed
  <2> QED BY <2>1, <2>2, Constant
<1>3. Proceed(p, n)
  BY DEF Receive
<1>4. bytes \in Seq(Byte) /\ down \in [Wires -> Seq(Byte)]
  BY WireOf DEF Typed
<1>5. /\ Len(bytes) >= Header /\ Len(bytes) >= Header + length + 4
      /\ down' = [down EXCEPT ![Wire(p)] = SubSeq(bytes, Header + length + 5, Len(bytes))]
  BY DEF Receive
<1>6. length \in Nat
  <2>1. bytes[3] \in Byte /\ bytes[4] \in Byte
    BY <1>4, <1>5 DEF Header
  <2> QED BY <2>1, ByteIs DEF LengthIn
<1>7. down' \in [Wires -> Seq(Byte)]
  <2> HIDE DEF bytes, length
  <2>1. Header + length + 5 \in 1 .. Len(bytes) + 1 /\ Len(bytes) \in 0 .. Len(bytes)
    BY <1>4, <1>5, <1>6 DEF Header
  <2>2. SubSeq(bytes, Header + length + 5, Len(bytes)) \in Seq(Byte)
    BY <2>1, <1>4, Cut
  <2> QED BY <2>2, <1>4, <1>5
<1> HIDE DEF n
<1>8. /\ pc' \in [Programs -> {"ping", "command", "idle", "done", "ended"}]
      /\ answers' \in [Programs -> 0 .. Len(Job)]
      /\ \A q \in Programs : pc'[q] = "command" => answers'[q] < Len(Job)
      /\ up' \in [Wires -> Seq(Byte)] /\ pending' \in [Wires -> Seq(Packet)]
  BY <1>2, <1>3, ProceedTyped
<1> QED BY <1>1, <1>7, <1>8 DEF Typed

\* A program ends.
LEMMA EndsTyped ==
  ASSUME Typed, NEW p \in Programs,
         ReceiveError(p) \/ SeeReset(p) \/ Kill(p) \/ KillMidPacket(p)
  PROVE  Typed'
<1>1. End(p)
  BY DEF ReceiveError, SeeReset, Kill, KillMidPacket
<1>2. /\ pc' \in [Programs -> {"ping", "command", "idle", "done", "ended"}]
      /\ answers' \in [Programs -> 0 .. Len(Job)]
      /\ \A q \in Programs : pc'[q] = "command" => answers'[q] < Len(Job)
  BY <1>1, EndTyped
<1>3. UNCHANGED <<link, down, decoder, curr_client, pcb, pending, log>>
  BY DEF ReceiveError, SeeReset, Kill, KillMidPacket, connections, history
<1>4. undisturbed' \in [Programs -> BOOLEAN]
  <2>1. UNCHANGED undisturbed \/ undisturbed' = [undisturbed EXCEPT ![p] = FALSE]
    BY DEF ReceiveError, SeeReset, Kill, KillMidPacket, history
  <2> QED BY <2>1 DEF Typed
<1>5. deaf' \in Nat
  <2>1. deaf' = deaf \/ deaf' = deaf + 1 \/ deaf' = 0
    BY DEF ReceiveError, SeeReset, Kill, KillMidPacket, history
  <2> QED BY <2>1 DEF Typed
<1>6. faults' \in 0 .. MaxFaults
  <2>1. faults' = faults \/ (faults < MaxFaults /\ faults' = faults + 1)
    BY DEF ReceiveError, SeeReset, Kill, KillMidPacket
  <2>2. faults \in 0 .. MaxFaults /\ MaxFaults \in Nat
    BY Constant DEF Typed
  <2> QED BY ONLY <2>1, <2>2
<1>7. up' \in [Wires -> Seq(Byte)]
  <2>1. CASE UNCHANGED up
    BY <2>1 DEF Typed
  <2>2. CASE KillMidPacket(p)
    <3>1. up \in [Wires -> Seq(Byte)] /\ Wire(p) \in Wires
      BY WireOf DEF Typed
    <3>2. PICK n \in 0 .. Len(up[Wire(p)]) - 1 :
            up' = [up EXCEPT ![Wire(p)] = SubSeq(up[Wire(p)], 1, n)]
      BY <2>2 DEF KillMidPacket
    <3>3. 1 \in 1 .. Len(up[Wire(p)]) + 1 /\ n \in 0 .. Len(up[Wire(p)])
      BY <3>1
    <3>4. SubSeq(up[Wire(p)], 1, n) \in Seq(Byte)
      BY <3>1, <3>3, Cut
    <3> QED BY <3>1, <3>2, <3>4
  <2> QED BY <2>1, <2>2 DEF ReceiveError, SeeReset, Kill
<1> QED BY <1>2, <1>3, <1>4, <1>5, <1>6, <1>7 DEF Typed

\* The serial link disturbs.
LEMMA DisturbTyped ==
  ASSUME Typed, LoseUp \/ LoseDown \/ \E byte \in StrayBytes : Stray(byte)
  PROVE  Typed'
<1>1. Disturb
  BY DEF LoseUp, LoseDown, Stray
<1>2. /\ UNCHANGED <<link, pc, answers, decoder, curr_client, pcb, pending, log>>
      /\ undisturbed' \in [Programs -> BOOLEAN] /\ deaf' \in Nat /\ faults' \in 0 .. MaxFaults
  BY <1>1, Constant DEF Disturb, program, connections, Typed
<1>3. /\ up \in [Wires -> Seq(Byte)] /\ down \in [Wires -> Seq(Byte)] /\ SerialWire \in Wires
      /\ up[SerialWire] \in Seq(Byte) /\ down[SerialWire] \in Seq(Byte)
  BY Constant DEF Typed
<1>4. up' \in [Wires -> Seq(Byte)] /\ down' \in [Wires -> Seq(Byte)]
  <2>1. CASE LoseUp
    <3>1. Tail(up[SerialWire]) \in Seq(Byte)
      BY <1>3, <2>1 DEF LoseUp
    <3> QED BY <3>1, <1>3, <2>1 DEF LoseUp
  <2>2. CASE LoseDown
    <3> DEFINE s == down[SerialWire]
    <3>1. PICK i \in DOMAIN s : down' = [down EXCEPT ![SerialWire] = RemoveAt(s, i)]
      BY <2>2 DEF LoseDown
    <3>2. RemoveAt(s, i) \in Seq(Byte)
      <4>1. s \in Seq(Byte) /\ i \in 1 .. Len(s)
        BY <1>3, <3>1
      <4> HIDE DEF s
      <4>2. /\ 1 \in 1 .. Len(s) + 1 /\ i - 1 \in 0 .. Len(s)
            /\ i + 1 \in 1 .. Len(s) + 1 /\ Len(s) \in 0 .. Len(s)
        BY <4>1
      <4>3. SubSeq(s, 1, i - 1) \in Seq(Byte) /\ SubSeq(s, i + 1, Len(s)) \in Seq(Byte)
        BY <4>1, <4>2, Cut
      <4> QED BY <4>3, Appended DEF RemoveAt
    <3> QED BY <3>1, <3>2, <1>3, <2>2 DEF LoseDown
  <2>3. CASE \E byte \in StrayBytes : Stray(byte)
    <3>1. PICK byte \in StrayBytes : Stray(byte)
      BY <2>3
    <3>2. Append(up[SerialWire], byte) \in Seq(Byte)
      BY <1>3, StrayBytesAssumption, Appended
    <3> QED BY <3>1, <3>2, <1>3 DEF Stray
  <2> QED BY <2>1, <2>2, <2>3
<1> QED BY <1>2, <1>4 DEF Typed

\* The firmware takes a byte.
LEMMA TakenTyped ==
  ASSUME Typed, NEW w \in Wires, up[w] # <<>>
  PROVE  /\ Head(up[w]) \in Byte /\ Tail(up[w]) \in Seq(Byte)
         /\ Sound(push(decoder, Head(up[w])))
         /\ Sound(reset(push(decoder, Head(up[w]))))
<1>1. up[w] \in Seq(Byte) /\ Sound(decoder)
  BY DEF Typed
<1>2. Head(up[w]) \in Byte /\ Tail(up[w]) \in Seq(Byte)
  BY <1>1
<1>3. Sound(push(decoder, Head(up[w])))
  BY <1>1, <1>2, PushIsSound
<1> QED BY <1>2, <1>3, ResetIsSound

LEMMA IngestSerialTyped == ASSUME Typed, IngestSerial PROVE Typed'
<1> DEFINE d == push(decoder, Head(up[SerialWire]))
<1>1. /\ UNCHANGED <<link, pc, answers, curr_client, pcb, faults, undisturbed>>
      /\ up[SerialWire] # <<>>
      /\ up' = [up EXCEPT ![SerialWire] = Tail(up[SerialWire])]
      /\ decoder' = IF d.state = "Error" THEN reset(d) ELSE d
      /\ IF d.state = "PacketAvailable"
         THEN Handle(SerialWire, GetPacket(d))
         ELSE UNCHANGED <<down, pending, log, deaf>>
  BY DEF IngestSerial, program, connections
<1>2. Sound(d) /\ Sound(reset(d)) /\ Tail(up[SerialWire]) \in Seq(Byte)
  BY <1>1, TakenTyped, Constant
<1>3. GetPacket(d) \in Packet
  BY <1>2, Got
<1> HIDE DEF d
<1>4. Sound(decoder')
  BY <1>1, <1>2
<1>5. up' \in [Wires -> Seq(Byte)]
  BY <1>1, <1>2 DEF Typed
<1>6. /\ down' \in [Wires -> Seq(Byte)] /\ pending' \in [Wires -> Seq(Packet)]
      /\ log' \in [Wires -> Seq(Packet)] /\ deaf' \in Nat
  <2>1. CASE Handle(SerialWire, GetPacket(d))
    BY <2>1, <1>3, HandleTyped, Constant
  <2>2. CASE UNCHANGED <<down, pending, log, deaf>>
    BY <2>2 DEF Typed
  <2> QED BY <1>1, <2>1, <2>2
<1> QED BY <1>1, <1>4, <1>5, <1>6 DEF Typed

LEMMA CloseTyped ==
  ASSUME Typed, NEW p \in Programs, CloseClient(p)
  PROVE  pcb' \in [Programs -> {"none", "open", "aborted"}] /\ up' \in [Wires -> Seq(Byte)]
<1> DEFINE none == <<>>
<1>1. none \in Seq(Byte)
  OBVIOUS
<1>2. up' = [up EXCEPT ![p] = none] /\ pcb' = [pcb EXCEPT ![p] = "aborted"]
  BY DEF CloseClient
<1> HIDE DEF none
<1> QED BY <1>1, <1>2 DEF Typed

LEMMA OnRecvTyped == ASSUME Typed, NEW p \in Programs, OnRecv(p) PROVE Typed'
<1> DEFINE d == push(decoder, Head(up[p]))
<1>1. /\ UNCHANGED <<link, pc, answers, curr_client, faults, undisturbed>>
      /\ up[p] # <<>> /\ decoder' = d
      /\ IF d.state = "Error" THEN CloseClient(p)
         ELSE up' = [up EXCEPT ![p] = Tail(up[p])] /\ UNCHANGED pcb
      /\ IF d.state = "PacketAvailable" THEN Handle(p, GetPacket(d))
         ELSE UNCHANGED <<down, pending, log, deaf>>
  BY DEF OnRecv, program
<1>2. Sound(d) /\ Tail(up[p]) \in Seq(Byte)
  BY <1>1, TakenTyped, Constant
<1>3. GetPacket(d) \in Packet
  BY <1>2, Got
<1> HIDE DEF d
<1>4. up' \in [Wires -> Seq(Byte)] /\ pcb' \in [Programs -> {"none", "open", "aborted"}]
  <2>1. CASE CloseClient(p)
    BY <2>1, CloseTyped
  <2>2. CASE up' = [up EXCEPT ![p] = Tail(up[p])] /\ UNCHANGED pcb
    BY <2>2, <1>2 DEF Typed
  <2> QED BY <1>1, <2>1, <2>2
<1>5. /\ down' \in [Wires -> Seq(Byte)] /\ pending' \in [Wires -> Seq(Packet)]
      /\ log' \in [Wires -> Seq(Packet)] /\ deaf' \in Nat
  <2>1. CASE Handle(p, GetPacket(d))
    BY <2>1, <1>3, HandleTyped, Constant
  <2>2. CASE UNCHANGED <<down, pending, log, deaf>>
    BY <2>2 DEF Typed
  <2> QED BY <1>1, <2>1, <2>2
<1> QED BY <1>1, <1>2, <1>4, <1>5 DEF Typed

LEMMA OnFinTyped == ASSUME Typed, NEW p \in Programs, OnFin(p) PROVE Typed'
<1>1. UNCHANGED <<link, pc, answers, down, decoder, curr_client, faults,
                  pending, log, undisturbed, deaf>> /\ CloseClient(p)
  BY DEF OnFin, program, history
<1> QED BY <1>1, CloseTyped DEF Typed

LEMMA InitTyped == Init => Typed
<1> SUFFICES ASSUME Init PROVE Typed
  OBVIOUS
<1>1. <<>> \in Seq(Byte) /\ <<>> \in Seq(Packet)
  OBVIOUS
<1>2. up \in [Wires -> Seq(Byte)] /\ down \in [Wires -> Seq(Byte)]
  BY <1>1 DEF Init
<1>3. pending \in [Wires -> Seq(Packet)] /\ log \in [Wires -> Seq(Packet)]
  BY <1>1 DEF Init
<1>4. Sound(decoder)
  BY NewIsSound DEF Init
<1> QED BY <1>2, <1>3, <1>4, Constant DEF Init, Typed

LEMMA NextTyped == Typed /\ [Next]_vars => Typed'
<1> SUFFICES ASSUME Typed, [Next]_vars PROVE Typed'
  OBVIOUS
<1>1. CASE UNCHANGED vars
  BY <1>1 DEF Typed, vars
<1>2. CASE \E p \in Programs : StartSerial(p)
  BY <1>2, StartSerialTyped
<1>3. CASE \E p \in Programs : StartTcp(p)
  BY <1>3, StartTcpTyped
<1>4. CASE \E p \in Programs : Receive(p)
  BY <1>4, ReceiveTyped
<1>5. CASE \E p \in Programs : ReceiveError(p) \/ SeeReset(p) \/ Kill(p) \/ KillMidPacket(p)
  BY <1>5, EndsTyped
<1>6. CASE \E p \in Programs : OnRecv(p)
  BY <1>6, OnRecvTyped
<1>7. CASE \E p \in Programs : OnFin(p)
  BY <1>7, OnFinTyped
<1>8. CASE IngestSerial
  BY <1>8, IngestSerialTyped
<1>9. CASE LoseUp \/ LoseDown \/ \E byte \in StrayBytes : Stray(byte)
  BY <1>9, DisturbTyped
<1> QED BY <1>1, <1>2, <1>3, <1>4, <1>5, <1>6, <1>7, <1>8, <1>9 DEF Next

LEMMA TypedMeans == Typed => TypeOK
<1> SUFFICES ASSUME Typed PROVE TypeOK
  OBVIOUS
<1>1. pc \in [Programs -> Active \cup {"idle", "done", "ended"}]
  BY DEF Typed, Active
<1>2. \A w \in Wires : Range(up[w]) \subseteq Byte /\ Range(down[w]) \subseteq Byte
  BY DEF Typed, Range
<1>3. \A w \in Wires : \A packet \in Range(pending[w]) \cup Range(log[w]) : packet \in Packet
  BY DEF Typed, Range
<1>4. \A packet \in Packet : packet.type \in Byte /\ Range(packet.data) \subseteq Byte
  <2> TAKE packet \in Packet
  <2>1. packet.type \in Byte /\ packet.data \in Seq(Byte)
    BY PacketFields
  <2> QED BY <2>1 DEF Range
<1>5. /\ decoder.state \in State
      /\ decoder.packet_type \in Byte /\ decoder.length \in Word /\ decoder.crc \in Word
      /\ decoder.buf \in Seq(Byte) /\ Len(decoder.buf) <= MAX_DATA_LENGTH
  BY DEF Typed, Sound, Decoder
<1>6. Range(decoder.buf) \subseteq Byte
  BY <1>5 DEF Range
<1> QED BY <1>1, <1>2, <1>3, <1>4, <1>5, <1>6 DEF Typed, TypeOK

\* Type correctness, the buffer of CliProtocolDecoder included: whatever bytes arrive, on
\* either link, the decoder never stores more than sizeof(buf) of them.
THEOREM TypeCorrect == Spec => []TypeOK
<1> QED BY InitTyped, NextTyped, TypedMeans, PTL DEF Spec

-----------------------------------------------------------------------------
(* Connections.                                                            *)

LEMMA NextOneClient == Typed /\ OneClient /\ [Next]_vars => OneClient'
<1> SUFFICES ASSUME Typed, OneClient, [Next]_vars PROVE OneClient'
  OBVIOUS
<1>1. CASE \E p \in Programs : StartTcp(p)
  BY <1>1 DEF Typed, OneClient, StartTcp, OldClient
<1>2. CASE UNCHANGED curr_client /\ \A q \in Programs : pcb'[q] = "open" => pcb[q] = "open"
  BY <1>2 DEF OneClient
<1>3. (\E p \in Programs : StartTcp(p))
      \/ (UNCHANGED curr_client /\ \A q \in Programs : pcb'[q] = "open" => pcb[q] = "open")
  <2>1. UNCHANGED pcb => \A q \in Programs : pcb'[q] = "open" => pcb[q] = "open"
    OBVIOUS
  <2>2. \A p \in Programs : CloseClient(p) =>
          \A q \in Programs : pcb'[q] = "open" => pcb[q] = "open"
    BY DEF CloseClient, Typed
  <2>3. CASE UNCHANGED vars
    BY <2>1, <2>3 DEF vars
  <2>4. CASE \E p \in Programs : \/ StartSerial(p) \/ Receive(p) \/ ReceiveError(p) \/ SeeReset(p)
                                 \/ Kill(p) \/ KillMidPacket(p)
    BY <2>1, <2>4 DEF StartSerial, Receive, ReceiveError, SeeReset, Kill, KillMidPacket, connections
  <2>5. CASE \E p \in Programs : OnRecv(p)
    BY <2>1, <2>2, <2>5 DEF OnRecv
  <2>6. CASE \E p \in Programs : OnFin(p)
    BY <2>2, <2>6 DEF OnFin
  <2>7. CASE IngestSerial
    BY <2>1, <2>7 DEF IngestSerial, connections
  <2>8. CASE LoseUp \/ LoseDown \/ \E byte \in StrayBytes : Stray(byte)
    BY <2>1, <2>8 DEF LoseUp, LoseDown, Stray, Disturb, connections
  <2> QED BY <2>3, <2>4, <2>5, <2>6, <2>7, <2>8 DEF Next
<1> QED BY <1>1, <1>2, <1>3

\* on_tcp_client_accepted closes the connection before: never more than one client is
\* connected to the decoder, and it is the last one accepted.
THEOREM LastClientOnly == Spec => []OneClient
<1>1. Init => OneClient
  BY DEF Init, OneClient
<1> QED BY <1>1, InitTyped, NextTyped, NextOneClient, PTL DEF Spec

-----------------------------------------------------------------------------
(* One TCP connection.                                                     *)

\* What the firmware has handled of program p once n of its commands are.
Sent(p, n) == <<Ping(p)>> \o [k \in 1 .. n |-> Command(k)]

Current(p) == IF pc[p] = "ping" THEN Ping(p) ELSE Command(answers[p] + 1)
Handled(p) == IF pc[p] = "ping" THEN 0 ELSE answers[p] + 1

\* s starts what is left of the packet after k bytes, or is cut short.
Rest(s, packet, k) ==
  /\ k + Len(s) <= Len(Encode(packet))
  /\ \A i \in 1 .. Len(s) : s[i] = Encode(packet)[k + i]

InPart(p, packet, k) ==
  /\ pending[p] = <<packet>>
  /\ k # Len(packet.data) + 9
  /\ Midway(decoder, packet, k)
  /\ Rest(up[p], packet, k)

\* The decoder is between packets, or in the middle of the one that is on its way.
Incoming(p) ==
  pcb[p] = "open" =>
    \/ /\ pending[p] = <<>> /\ up[p] = <<>>
       /\ decoder.state \in {"WaitForMagicBegin1", "PacketAvailable"}
    \/ \E packet \in Packet, k \in Nat : InPart(p, packet, k)

\* The packet of a program is on its way, or its reply is, or neither ever comes.
Waiting(p) ==
  /\ pending[p] = <<Current(p)>> /\ down[p] = <<>>
  /\ pc[p] = "command" => log[p] = Sent(p, answers[p])

Replied(p) ==
  /\ pending[p] = <<>> /\ down[p] = Reply(Current(p))
  /\ log[p] = Sent(p, Handled(p))

Lost(p) == pending[p] = <<>> /\ down[p] = <<>> /\ pcb[p] = "aborted"

Connection(p) ==
  /\ pcb[p] # "open" => up[p] = <<>>
  /\ pc[p] = "idle" <=> pcb[p] = "none"
  /\ pc[p] = "idle" => down[p] = <<>>
  /\ Incoming(p)
  /\ IsActive(p) => Waiting(p) \/ Replied(p) \/ Lost(p)

TcpInv ==
  /\ Typed /\ OneClient /\ link = "tcp"
  /\ \A p \in Programs : Connection(p)

\* Sequences.
LEMMA SentIs ==
  ASSUME NEW p \in Programs, NEW n \in 0 .. Len(Job)
  PROVE  /\ Sent(p, n) \in Seq(Packet) /\ Len(Sent(p, n)) = n + 1
         /\ Sent(p, n)[1] = Ping(p)
         /\ \A k \in 1 .. n : Sent(p, n)[k + 1] = Command(k)
<1> DEFINE f == [k \in 1 .. n |-> Command(k)]
           s == <<Ping(p)>>
           sf == s \o f
<1>1. n \in Nat /\ s \in Seq(Packet) /\ Len(s) = 1 /\ s[1] = Ping(p)
  BY Packets, Constant
<1>2. f \in Seq(Packet) /\ Len(f) = n
  <2>1. \A k \in 1 .. n : Command(k) \in Packet
    BY Packets, Constant
  <2> QED BY <2>1, <1>1
<1>3. \A k \in 1 .. n : f[k] = Command(k)
  OBVIOUS
<1>4. Sent(p, n) = sf
  BY DEF Sent
<1>5. /\ sf \in Seq(Packet) /\ Len(sf) = Len(s) + Len(f)
      /\ \A i \in 1 .. Len(s) + Len(f) : sf[i] = IF i <= Len(s) THEN s[i] ELSE f[i - Len(s)]
  BY <1>1, <1>2, ConcatProperties
<1> HIDE DEF f, s, sf
<1>6. /\ sf \in Seq(Packet) /\ Len(sf) = n + 1
      /\ \A i \in 1 .. n + 1 : sf[i] = IF i <= 1 THEN s[i] ELSE f[i - 1]
  BY <1>1, <1>2, <1>5
<1>7. sf[1] = Ping(p)
  BY <1>1, <1>6
<1>8. \A k \in 1 .. n : sf[k + 1] = Command(k)
  <2> TAKE k \in 1 .. n
  <2>1. k + 1 \in 1 .. n + 1 /\ ~ (k + 1 <= 1) /\ (k + 1) - 1 = k
    BY <1>1
  <2>2. sf[k + 1] = f[k]
    BY <2>1, <1>6
  <2> QED BY <2>2, <1>3
<1> QED BY <1>4, <1>6, <1>7, <1>8

LEMMA SentNone == ASSUME NEW p \in Programs PROVE Sent(p, 0) = <<Ping(p)>>
<1> DEFINE s == Sent(p, 0)
           t == <<Ping(p)>>
<1>0. 0 \in 0 .. Len(Job)
  BY Constant
<1>1. s \in Seq(Packet) /\ Len(s) = 0 + 1 /\ s[1] = Ping(p)
  BY <1>0, SentIs
<1>2. t \in Seq(Packet) /\ Len(t) = 1 /\ t[1] = Ping(p)
  BY Packets
<1> HIDE DEF s, t
<1>3. s = t
  BY <1>1, <1>2, SeqEqual
<1> QED BY <1>3 DEF s, t

LEMMA SentGrows ==
  ASSUME NEW p \in Programs, NEW n \in 0 .. Len(Job), n < Len(Job)
  PROVE  Append(Sent(p, n), Command(n + 1)) = Sent(p, n + 1)
<1> DEFINE s == Sent(p, n)
           t == Sent(p, n + 1)
           a == Append(s, Command(n + 1))
<1>1. n + 1 \in 0 .. Len(Job) /\ n + 1 \in 1 .. Len(Job) /\ n \in Nat
  BY Constant
<1>2. /\ s \in Seq(Packet) /\ Len(s) = n + 1 /\ s[1] = Ping(p)
      /\ \A k \in 1 .. n : s[k + 1] = Command(k)
  BY SentIs
<1>3. /\ t \in Seq(Packet) /\ Len(t) = (n + 1) + 1 /\ t[1] = Ping(p)
      /\ \A k \in 1 .. n + 1 : t[k + 1] = Command(k)
  BY <1>1, SentIs
<1>4. Command(n + 1) \in Packet
  BY <1>1, Packets
<1> HIDE DEF s, t
<1>5. a \in Seq(Packet) /\ Len(a) = (n + 1) + 1
      /\ \A i \in 1 .. (n + 1) + 1 : a[i] = IF i = (n + 1) + 1 THEN Command(n + 1) ELSE s[i]
  BY <1>1, <1>2, <1>4
<1>6. \A i \in 1 .. (n + 1) + 1 : a[i] = t[i]
  <2> TAKE i \in 1 .. (n + 1) + 1
  <2>1. CASE i = 1
    BY <2>1, <1>1, <1>2, <1>3, <1>5
  <2>2. CASE i = (n + 1) + 1
    <3>1. t[(n + 1) + 1] = Command(n + 1)
      BY <1>1, <1>3
    <3> QED BY <3>1, <2>2, <1>5
  <2>3. CASE i # 1 /\ i # (n + 1) + 1
    <3>1. i - 1 \in 1 .. n /\ i - 1 \in 1 .. n + 1 /\ (i - 1) + 1 = i
      BY <2>3, <1>1
    <3>2. s[i] = Command(i - 1) /\ t[i] = Command(i - 1)
      BY <3>1, <1>2, <1>3
    <3> QED BY <3>2, <2>3, <1>5
  <2> QED BY <2>1, <2>2, <2>3
<1> HIDE DEF a
<1>7. a = t
  BY <1>3, <1>5, <1>6, SeqEqual
<1> QED BY <1>7 DEF a, s, t

LEMMA AfterOnly == ASSUME NEW x \in Packet PROVE After(<<x>>, x) = <<>>
<1> DEFINE s == <<x>>
           places == {i \in DOMAIN s : s[i] = x}
<1>1. s \in Seq(Packet) /\ Len(s) = 1 /\ s[1] = x /\ DOMAIN s = {1}
  OBVIOUS
<1>2. places = {1}
  BY <1>1
<1>3. Min({1}) = 1
  BY DEF Min
<1>4. After(s, x) = SubSeq(s, Min(places) + 1, Len(s))
  BY <1>2 DEF After
<1> HIDE DEF s, places
<1>5. After(s, x) = SubSeq(s, 1 + 1, 1)
  BY <1>1, <1>2, <1>3, <1>4
<1>6. SubSeq(s, 1 + 1, 1) = <<>>
  BY <1>1
<1> QED BY <1>5, <1>6 DEF s

\* A program takes the whole of the reply.
LEMMA ReplyTaken ==
  ASSUME NEW q \in Packet
  PROVE  LET bytes == Encode(q)
         IN SubSeq(bytes, Header + LengthIn(bytes) + 5, Len(bytes)) = <<>>
<1> DEFINE bytes == Encode(q)
           n == Len(q.data)
<1>1. bytes \in Seq(Byte) /\ Len(bytes) = n + 9 /\ n \in Nat /\ n \in Word
  BY Encoded, PacketFields
<1>2. bytes[2 + 1] = Low(n) /\ bytes[2 + 2] = High(n)
  <2>1. 1 \in 1 .. 3 + n /\ 2 \in 1 .. 3 + n
    BY <1>1
  <2> QED BY <2>1, Encoded, BodyIs
<1>3. LengthIn(bytes) = n
  <2>1. 2 + 1 = 3 /\ 2 + 2 = 4
    OBVIOUS
  <2>2. Low(n) + 256 * High(n) = n
    BY <1>1, HalvesOfWord
  <2> QED BY <2>1, <2>2, <1>2 DEF LengthIn
<1> HIDE DEF bytes, n
<1>4. Header + LengthIn(bytes) + 5 = n + 10
  BY <1>1, <1>3 DEF Header
<1>5. SubSeq(bytes, n + 10, n + 9) = <<>>
  BY <1>1, SubSeqEmpty
<1> QED BY <1>1, <1>4, <1>5 DEF bytes

\* Reading of the invariant, for a program that something happens to, and for the others.
LEMMA Unaffected ==
  ASSUME NEW q \in Programs, Connection(q),
         pc'[q] = pc[q], answers'[q] = answers[q], up'[q] = up[q], down'[q] = down[q],
         pending'[q] = pending[q], log'[q] = log[q], pcb'[q] = pcb[q],
         decoder' = decoder \/ pcb[q] # "open"
  PROVE  Connection(q)'
<1>1. Current(q)' = Current(q) /\ Handled(q)' = Handled(q) /\ IsActive(q)' = IsActive(q)
  BY DEF Current, Handled, IsActive
<1>2. Waiting(q)' = Waiting(q) /\ Lost(q)' = Lost(q)
  BY <1>1 DEF Waiting, Lost
<1>3. Replied(q)' = Replied(q)
  BY <1>1 DEF Replied
<1>4. Incoming(q)'
  <2>1. CASE pcb[q] # "open"
    BY <2>1 DEF Incoming
  <2>2. CASE pcb[q] = "open"
    <3>1. decoder' = decoder
      BY <2>2
    <3>2. \A packet, k : InPart(q, packet, k)' = InPart(q, packet, k)
      BY <3>1 DEF InPart
    <3> QED BY <3>1, <3>2 DEF Incoming, Connection
  <2> QED BY <2>1, <2>2
<1> QED BY <1>1, <1>2, <1>3, <1>4 DEF Connection

\* A packet that begins: all of it is on the wire.
LEMMA Begins ==
  ASSUME NEW p \in Programs, NEW packet \in Packet,
         decoder'.state \in {"WaitForMagicBegin1", "PacketAvailable"},
         up'[p] = Encode(packet), pending'[p] = <<packet>>
  PROVE  Incoming(p)'
<1>1. Len(packet.data) \in Nat /\ Encode(packet) \in Seq(Byte) /\ Len(Encode(packet)) = Len(packet.data) + 9
  BY Encoded, PacketFields
<1>2. Midway(decoder, packet, 0)'
  BY <1>1 DEF Midway, Stage
<1>3. Rest(up[p], packet, 0)'
  <2>1. 0 + Len(up'[p]) <= Len(Encode(packet))
    BY <1>1
  <2>2. \A i \in 1 .. Len(up'[p]) : up'[p][i] = Encode(packet)[0 + i]
    <3>1. \A i \in 1 .. Len(up'[p]) : 0 + i = i
      BY <1>1
    <3> QED BY <3>1
  <2> QED BY <2>1, <2>2 DEF Rest
<1>4. InPart(p, packet, 0)'
  BY <1>1, <1>2, <1>3 DEF InPart
<1> QED BY <1>4 DEF Incoming

LEMMA CurrentIs ==
  ASSUME Typed, NEW p \in Programs, IsActive(p)
  PROVE  Current(p) \in Packet /\ Handled(p) \in 0 .. Len(Job)
<1>1. pc[p] = "ping" \/ pc[p] = "command"
  BY DEF IsActive, Active
<1>2. answers[p] \in 0 .. Len(Job) /\ (pc[p] = "command" => answers[p] < Len(Job))
  BY DEF Typed
<1>3. pc[p] = "command" => answers[p] + 1 \in 1 .. Len(Job)
  BY <1>2, Constant
<1>4. Current(p) \in Packet
  BY <1>1, <1>3, Packets DEF Current
<1>5. Handled(p) \in 0 .. Len(Job)
  BY <1>1, <1>2, <1>3, Constant DEF Handled
<1> QED BY <1>4, <1>5

\* The actions keep the invariant.
LEMMA StartTcpKeeps ==
  ASSUME TcpInv, NEW p \in Programs, StartTcp(p)
  PROVE  \A q \in Programs : Connection(q)'
<1> TAKE q \in Programs
<1>0. /\ up \in [Wires -> Seq(Byte)] /\ pending \in [Wires -> Seq(Packet)]
      /\ pc \in [Programs -> {"ping", "command", "idle", "done", "ended"}]
      /\ pcb \in [Programs -> {"none", "open", "aborted"}] /\ q \in Wires /\ p \in Wires
  BY Constant DEF TcpInv, Typed
<1>1. /\ UNCHANGED <<answers, down, log>> /\ pc[p] = "idle"
      /\ pc' = [pc EXCEPT ![p] = "ping"] /\ pending' = [pending EXCEPT ![p] = <<Ping(p)>>]
      /\ decoder' = reset(decoder)
      /\ pcb'[q] = IF q = p THEN "open" ELSE IF q \in OldClient THEN "aborted" ELSE pcb[q]
      /\ up'[q] = IF q = p THEN Encode(Ping(p)) ELSE IF q \in OldClient THEN <<>> ELSE up[q]
  BY <1>0 DEF StartTcp, MayStart
<1>2. Connection(q) /\ (pcb[q] = "open" => q \in OldClient)
  BY DEF TcpInv, OneClient, OldClient
<1>3. CASE q = p
  <2>1. decoder'.state = "WaitForMagicBegin1"
    BY <1>1 DEF reset, TcpInv, Typed, Sound, Decoder
  <2>2. Incoming(p)'
    BY <1>0, <1>1, <1>3, <2>1, Begins, Packets
  <2>3. down[p] = <<>>
    BY <1>1, <1>2, <1>3 DEF Connection
  <2>4. pc'[p] = "ping" /\ pending'[p] = <<Ping(p)>> /\ pcb'[p] = "open"
    BY <1>0, <1>1, <1>3
  <2>5. Waiting(p)'
    BY <1>1, <2>3, <2>4 DEF Waiting, Current
  <2> QED BY <1>3, <2>2, <2>4, <2>5 DEF Connection
<1>4. CASE q # p /\ q \notin OldClient
  BY <1>0, <1>1, <1>2, <1>4, Unaffected
<1>5. CASE q # p /\ q \in OldClient
  <2>1. /\ pcb[q] = "open" /\ pcb'[q] = "aborted" /\ up'[q] = <<>>
        /\ pc'[q] = pc[q] /\ pending'[q] = pending[q]
    BY <1>0, <1>1, <1>5 DEF OldClient
  <2>2. Current(q)' = Current(q) /\ Handled(q)' = Handled(q) /\ IsActive(q)' = IsActive(q)
    BY <1>1, <2>1 DEF Current, Handled, IsActive
  <2>3. Waiting(q)' = Waiting(q)
    BY <1>1, <2>1, <2>2 DEF Waiting
  <2>4. Replied(q)' = Replied(q)
    BY <1>1, <2>1, <2>2 DEF Replied
  <2>5. ~ Lost(q)
    BY <2>1 DEF Lost
  <2> QED BY <1>1, <1>2, <2>1, <2>2, <2>3, <2>4, <2>5 DEF Connection, Incoming
<1> QED BY <1>3, <1>4, <1>5

LEMMA WireIs == ASSUME TcpInv, NEW p \in Programs PROVE Wire(p) = p
BY DEF TcpInv, Wire

\* A program that takes a reply takes the one to its packet, and leaves nothing of it.
LEMMA TakesOwn ==
  ASSUME TcpInv, NEW p \in Programs, Receive(p)
  PROVE  /\ Replied(p) /\ Proceed(p, Handled(p))
         /\ down' = [down EXCEPT ![p] = <<>>]
<1> DEFINE bytes == down[p]
<1>1. IsActive(p) /\ Connection(p) /\ Proceed(p, Handled(p))
  BY DEF Receive, TcpInv, Handled
<1>2. /\ Len(bytes) >= Header
      /\ down' = [down EXCEPT ![p] = SubSeq(bytes, Header + LengthIn(bytes) + 5, Len(bytes))]
  BY WireIs DEF Receive
<1>3. bytes # <<>>
  <2>1. Len(<<>>) = 0
    OBVIOUS
  <2> QED BY <2>1, <1>2 DEF Header
<1>4. Replied(p)
  BY <1>1, <1>3 DEF Connection, Waiting, Lost
<1>5. PICK q \in Packet : bytes = Encode(q)
  <2>1. Current(p) \in Packet
    BY <1>1, CurrentIs DEF TcpInv
  <2> QED BY <2>1, <1>3, <1>4, ReplyIs DEF Replied
<1>6. SubSeq(bytes, Header + LengthIn(bytes) + 5, Len(bytes)) = <<>>
  BY <1>5, ReplyTaken
<1> HIDE DEF bytes
<1> QED BY <1>1, <1>2, <1>4, <1>6

LEMMA ReceiveKeeps ==
  ASSUME TcpInv, NEW p \in Programs, Receive(p)
  PROVE  \A q \in Programs : Connection(q)'
<1>0. /\ up \in [Wires -> Seq(Byte)] /\ down \in [Wires -> Seq(Byte)] /\ pending \in [Wires -> Seq(Packet)]
      /\ pc \in [Programs -> {"ping", "command", "idle", "done", "ended"}]
      /\ answers \in [Programs -> 0 .. Len(Job)]
      /\ \A q \in Programs : q \in Wires
  BY Constant DEF TcpInv, Typed
<1>1. UNCHANGED <<decoder, pcb, log>> /\ IsActive(p) /\ Connection(p)
  BY DEF Receive, connections, TcpInv
<1>2. Replied(p) /\ Proceed(p, Handled(p)) /\ down' = [down EXCEPT ![p] = <<>>]
  BY TakesOwn
<1>3. answers' = [answers EXCEPT ![p] = Handled(p)] /\ Handled(p) \in 0 .. Len(Job)
  BY <1>1, <1>2, CurrentIs DEF Proceed, TcpInv
<1>4. pc[p] # "idle" /\ pcb[p] # "none"
  BY <1>1 DEF IsActive, Active, Connection
<1> DEFINE n == Handled(p)
           next == Encode(Command(n + 1))
<1>5. CASE n < Len(Job)
  <2>1. Send(p, Command(n + 1)) /\ pc' = [pc EXCEPT ![p] = "command"] /\ n + 1 \in 1 .. Len(Job)
    BY <1>2, <1>3, <1>5, Constant DEF Proceed
  <2>2. Command(n + 1) \in Packet
    BY <2>1, Packets
  <2>3. pc'[p] = "command" /\ answers'[p] = n /\ down'[p] = <<>> /\ pending[p] = <<>>
    BY <1>0, <1>2, <1>3, <2>1 DEF Replied
  <2>4. Current(p)' = Command(n + 1) /\ log'[p] = Sent(p, n)
    <3>1. log[p] = Sent(p, n)
      BY <1>2 DEF Replied
    <3> QED BY <3>1, <2>3, <1>1 DEF Current
  <2>5. CASE pcb[p] = "open"
    <3>1. /\ up' = [up EXCEPT ![p] = up[p] \o next]
          /\ pending' = [pending EXCEPT ![p] = Append(pending[p], Command(n + 1))]
      BY <2>1, <2>5, WireIs DEF Send
    <3>2. /\ up[p] = <<>>
          /\ decoder.state \in {"WaitForMagicBegin1", "PacketAvailable"}
      <4>1. \A packet : pending[p] # <<packet>>
        BY <2>3
      <4> QED BY <4>1, <1>1, <2>5 DEF Connection, Incoming, InPart
    <3>3. <<>> \o next = next
      <4>1. next \in Seq(Byte)
        BY <2>2, EncodeTyped
      <4> HIDE DEF next
      <4> QED BY <4>1
    <3>4. up'[p] = next /\ pending'[p] = <<Command(n + 1)>>
      <4>1. Append(<<>>, Command(n + 1)) = <<Command(n + 1)>>
        OBVIOUS
      <4> HIDE DEF next
      <4> QED BY <4>1, <3>1, <3>2, <3>3, <2>3, <1>0
    <3>5. Incoming(p)'
      BY <3>2, <3>4, <2>2, <1>1, Begins
    <3>6. Waiting(p)'
      BY <2>3, <2>4, <3>4 DEF Waiting
    <3>7. Connection(p)'
      BY <1>1, <1>4, <2>3, <2>5, <3>5, <3>6 DEF Connection
    <3>8. \A q \in Programs : q # p => Connection(q)'
      <4> TAKE q \in Programs
      <4> HAVE q # p
      <4>1. Connection(q) /\ pcb[q] # "open"
        BY <2>5 DEF TcpInv, OneClient
      <4>2. /\ pc'[q] = pc[q] /\ answers'[q] = answers[q] /\ up'[q] = up[q] /\ down'[q] = down[q]
            /\ pending'[q] = pending[q] /\ log'[q] = log[q] /\ pcb'[q] = pcb[q]
        BY <1>0, <1>1, <1>2, <1>3, <2>1, <3>1
      <4> QED BY <4>1, <4>2, Unaffected
    <3> QED BY <3>7, <3>8
  <2>6. CASE pcb[p] # "open"
    <3>1. UNCHANGED <<up, pending>>
      BY <2>1, <2>6 DEF Send, TcpInv
    <3>2. pcb[p] = "aborted"
      BY <1>4, <2>6 DEF TcpInv, Typed
    <3>3. Lost(p)'
      BY <3>1, <3>2, <2>3, <1>1 DEF Lost
    <3>4. Connection(p)'
      BY <1>1, <1>4, <2>3, <3>1, <3>2, <3>3 DEF Connection, Incoming
    <3>5. \A q \in Programs : q # p => Connection(q)'
      <4> TAKE q \in Programs
      <4> HAVE q # p
      <4>1. Connection(q)
        BY DEF TcpInv
      <4>2. /\ pc'[q] = pc[q] /\ answers'[q] = answers[q] /\ up'[q] = up[q] /\ down'[q] = down[q]
            /\ pending'[q] = pending[q] /\ log'[q] = log[q] /\ pcb'[q] = pcb[q]
        BY <1>0, <1>1, <1>2, <1>3, <2>1, <3>1
      <4> QED BY <1>1, <4>1, <4>2, Unaffected
    <3> QED BY <3>4, <3>5
  <2> QED BY <2>5, <2>6
<1>6. CASE ~ (n < Len(Job))
  <2>1. UNCHANGED <<up, pending>> /\ pc' = [pc EXCEPT ![p] = "done"]
    BY <1>2, <1>6 DEF Proceed
  <2>2. pc'[p] = "done" /\ ~ IsActive(p)'
    BY <2>1, <1>0 DEF IsActive, Active
  <2>3. Incoming(p)'
    <3>1. \A packet, k : InPart(p, packet, k)' = InPart(p, packet, k)
      BY <2>1, <1>1 DEF InPart
    <3> QED BY <3>1, <2>1, <1>1 DEF Incoming, Connection
  <2>4. Connection(p)'
    BY <1>1, <1>4, <2>1, <2>2, <2>3 DEF Connection
  <2>5. \A q \in Programs : q # p => Connection(q)'
    <3> TAKE q \in Programs
    <3> HAVE q # p
    <3>1. Connection(q)
      BY DEF TcpInv
    <3>2. /\ pc'[q] = pc[q] /\ answers'[q] = answers[q] /\ up'[q] = up[q] /\ down'[q] = down[q]
          /\ pending'[q] = pending[q] /\ log'[q] = log[q] /\ pcb'[q] = pcb[q]
      BY <1>0, <1>1, <1>2, <1>3, <2>1
    <3> QED BY <1>1, <3>1, <3>2, Unaffected
  <2> QED BY <2>4, <2>5
<1> QED BY <1>5, <1>6

\* What a program that ends leaves on the wire is still the start of the rest of its packet.
LEMMA EndsKeeps ==
  ASSUME TcpInv, NEW p \in Programs,
         ReceiveError(p) \/ SeeReset(p) \/ Kill(p) \/ KillMidPacket(p)
  PROVE  \A q \in Programs : Connection(q)'
<1>0. /\ up \in [Wires -> Seq(Byte)]
      /\ pc \in [Programs -> {"ping", "command", "idle", "done", "ended"}]
      /\ answers \in [Programs -> 0 .. Len(Job)]
      /\ \A q \in Programs : q \in Wires
  BY Constant DEF TcpInv, Typed
<1>1. UNCHANGED <<down, decoder, pcb, pending, log>> /\ IsActive(p) /\ Connection(p)
  BY DEF ReceiveError, SeeReset, Kill, KillMidPacket, connections, history, TcpInv
<1>2. pc' = [pc EXCEPT ![p] = "ended"] /\ answers' = [answers EXCEPT ![p] = 0]
  BY DEF ReceiveError, SeeReset, Kill, KillMidPacket, End
<1>3. pc'[p] = "ended" /\ ~ IsActive(p)' /\ pcb[p] # "none"
  BY <1>0, <1>1, <1>2 DEF IsActive, Active, Connection
<1>4. \E n \in Nat : /\ n <= Len(up[p]) /\ up' = [up EXCEPT ![p] = SubSeq(up[p], 1, n)]
  <2>1. CASE UNCHANGED up
    <3> DEFINE s == up[p]
    <3>1. s \in Seq(Byte)
      BY <1>0
    <3>2. SubSeq(s, 1, Len(s)) = s /\ Len(s) \in Nat
      <4> HIDE DEF s
      <4> QED BY <3>1
    <3> HIDE DEF s
    <3>3. up' = [up EXCEPT ![p] = s]
      BY <2>1, <1>0 DEF s
    <3>4. up' = [up EXCEPT ![p] = SubSeq(s, 1, Len(s))]
      BY ONLY <3>2, <3>3, Zenon
    <3>5. Len(s) <= Len(s)
      BY <3>2
    <3> QED BY <3>2, <3>4, <3>5 DEF s
  <2>2. CASE KillMidPacket(p)
    <3>1. PICK n \in 0 .. Len(up[p]) - 1 : up' = [up EXCEPT ![p] = SubSeq(up[p], 1, n)]
      BY <2>2, WireIs DEF KillMidPacket
    <3>2. n \in Nat /\ n <= Len(up[p])
      BY <1>0, <3>1
    <3> QED BY <3>1, <3>2
  <2> QED BY <2>1, <2>2 DEF ReceiveError, SeeReset, Kill
<1>5. PICK n \in Nat : n <= Len(up[p]) /\ up' = [up EXCEPT ![p] = SubSeq(up[p], 1, n)]
  BY <1>4
<1>6. Len(up'[p]) = n /\ \A i \in 1 .. n : up'[p][i] = up[p][i]
  <2> DEFINE s == up[p]
             t == SubSeq(s, 1, n)
  <2>1. s \in Seq(Byte) /\ n \in Nat /\ n <= Len(s)
    BY <1>0, <1>5
  <2>2. Len(t) = n /\ \A i \in 1 .. n : t[i] = s[i]
    <3> HIDE DEF s
    <3> QED BY <2>1
  <2>3. up'[p] = t
    BY <1>0, <1>5
  <2> HIDE DEF t
  <2> QED BY <2>2, <2>3
<1>7. up[p] = <<>> => up'[p] = <<>>
  <2> DEFINE none == <<>>
  <2>1. none \in Seq(Byte) /\ \A m \in Nat : m <= Len(none) => SubSeq(none, 1, m) = none
    OBVIOUS
  <2>2. up'[p] = SubSeq(up[p], 1, n)
    BY <1>0, <1>5
  <2> HIDE DEF none
  <2>3. up[p] = none => up'[p] = none
    BY <2>1, <2>2, <1>5
  <2> QED BY <2>3 DEF none
<1>8. \A packet, k : k \in Nat /\ InPart(p, packet, k) => InPart(p, packet, k)'
  <2> SUFFICES ASSUME NEW packet, NEW k \in Nat, InPart(p, packet, k) PROVE InPart(p, packet, k)'
    OBVIOUS
  <2>1. Rest(up[p], packet, k)
    BY DEF InPart
  <2>2. Len(up[p]) \in Nat /\ k + Len(up[p]) <= Len(Encode(packet))
    BY <2>1, <1>0 DEF Rest
  <2>3. Rest(up[p], packet, k)'
    BY <2>1, <2>2, <1>5, <1>6 DEF Rest
  <2> QED BY <2>3, <1>1 DEF InPart
<1>9. Incoming(p)'
  BY <1>1, <1>7, <1>8 DEF Connection, Incoming
<1>10. Connection(p)'
  BY <1>1, <1>3, <1>7, <1>9 DEF Connection
<1>11. \A q \in Programs : q # p => Connection(q)'
  <2> TAKE q \in Programs
  <2> HAVE q # p
  <2>1. Connection(q)
    BY DEF TcpInv
  <2>2. /\ pc'[q] = pc[q] /\ answers'[q] = answers[q] /\ up'[q] = up[q] /\ down'[q] = down[q]
        /\ pending'[q] = pending[q] /\ log'[q] = log[q] /\ pcb'[q] = pcb[q]
    BY <1>0, <1>1, <1>2, <1>5
  <2> QED BY <1>1, <2>1, <2>2, Unaffected
<1> QED BY <1>10, <1>11

LEMMA OnFinKeeps ==
  ASSUME TcpInv, NEW p \in Programs, OnFin(p)
  PROVE  \A q \in Programs : Connection(q)'
<1>1. /\ UNCHANGED <<pc, answers, down, decoder, pending, log>> /\ ~ IsActive(p)
      /\ pcb' = [pcb EXCEPT ![p] = "aborted"] /\ up' = [up EXCEPT ![p] = <<>>]
      /\ pcb[p] = "open"
  BY DEF OnFin, CloseClient, program, history
<1>2. TAKE q \in Programs
<1>3. Connection(q) /\ up \in [Wires -> Seq(Byte)] /\ q \in Wires
      /\ pcb \in [Programs -> {"none", "open", "aborted"}]
  BY Constant DEF TcpInv, Typed
<1>4. CASE q # p
  BY <1>1, <1>3, <1>4, Unaffected
<1>5. CASE q = p
  <2>1. pcb'[p] = "aborted" /\ up'[p] = <<>> /\ ~ IsActive(p)'
    BY <1>1, <1>3, <1>5 DEF IsActive
  <2> QED BY <1>1, <1>3, <1>5, <2>1 DEF Connection, Incoming
<1> QED BY <1>4, <1>5

\* The byte that on_recv takes is the next one of the packet that is on its way. It is
\* the last one, or the decoder is one byte further in it, or finds the packet too long.
TakesByteOf(p, packet, k) ==
  LET d == push(decoder, Head(up[p]))
  IN /\ InPart(p, packet, k)
     /\ Rest(Tail(up[p]), packet, k + 1)
     /\ \/ /\ k + 1 = Len(packet.data) + 9 /\ Tail(up[p]) = <<>>
           /\ d.state = "PacketAvailable" /\ GetPacket(d) = packet
        \/ /\ k + 1 # Len(packet.data) + 9 /\ Midway(d, packet, k + 1)
           /\ d.state \notin {"PacketAvailable", "Error"}
        \/ d.state = "Error"

LEMMA TakesByte ==
  ASSUME TcpInv, NEW p \in Programs, OnRecv(p)
  PROVE  \E packet \in Packet, k \in Nat : TakesByteOf(p, packet, k)
<1>1. pcb[p] = "open" /\ up[p] # <<>> /\ Connection(p) /\ Sound(decoder) /\ up[p] \in Seq(Byte)
  BY Constant DEF OnRecv, TcpInv, Typed
<1>2. PICK packet \in Packet, k \in Nat : InPart(p, packet, k)
  BY <1>1 DEF Connection, Incoming
<1> DEFINE n == Len(packet.data)
           s == up[p]
           d == push(decoder, Head(s))
<1>3. /\ n \in Nat /\ Len(Encode(packet)) = n + 9 /\ Encode(packet) \in Seq(Byte)
      /\ Midway(decoder, packet, k) /\ k # n + 9 /\ k \in 0 .. n + 9
      /\ k + Len(s) <= n + 9
      /\ \A i \in 1 .. Len(s) : s[i] = Encode(packet)[k + i]
  BY <1>2, Encoded, PacketFields DEF InPart, Rest, Midway
<1>4. Len(s) \in Nat /\ 1 \in 1 .. Len(s) /\ Head(s) = s[1] /\ Tail(s) \in Seq(Byte)
      /\ Len(Tail(s)) = Len(s) - 1 /\ \A i \in 1 .. Len(s) - 1 : Tail(s)[i] = s[i + 1]
  <2> HIDE DEF s
  <2> QED BY <1>1 DEF s
<1>5. Head(s) = Encode(packet)[k + 1] /\ Head(s) \in Byte
  <2> HIDE DEF s
  <2>1. Head(s) = Encode(packet)[k + 1]
    BY <1>3, <1>4
  <2>2. Head(s) \in Byte
    <3>1. s \in Seq(Byte)
      BY <1>1 DEF s
    <3> QED BY <3>1, <1>4
  <2> QED BY <2>1, <2>2
<1>6. Sound(d)
  BY <1>1, <1>5, PushIsSound
<1>7. \/ Midway(d, packet, k + 1)
      \/ d.state = "Error"
  BY <1>1, <1>3, <1>5, OneByteMore
<1>8. Rest(Tail(s), packet, k + 1)
  <2> HIDE DEF s
  <2>1. (k + 1) + Len(Tail(s)) <= Len(Encode(packet))
    BY <1>3, <1>4
  <2>2. \A i \in 1 .. Len(Tail(s)) : Tail(s)[i] = Encode(packet)[(k + 1) + i]
    <3> TAKE i \in 1 .. Len(Tail(s))
    <3>1. i \in 1 .. Len(s) - 1 /\ i + 1 \in 1 .. Len(s) /\ k + (i + 1) = (k + 1) + i
      BY <1>4, <1>3
    <3>2. Tail(s)[i] = s[i + 1] /\ s[i + 1] = Encode(packet)[k + (i + 1)]
      BY <3>1, <1>3, <1>4
    <3> QED BY <3>1, <3>2
  <2> QED BY <2>1, <2>2 DEF Rest
<1> HIDE DEF d
<1>9. CASE Midway(d, packet, k + 1) /\ k + 1 = n + 9
  <2>1. d.state = "PacketAvailable" /\ GetPacket(d) = packet
    BY <1>6, <1>9, LastByte
  <2>2. Tail(s) = <<>>
    <3> HIDE DEF s
    <3>1. Len(Tail(s)) = 0
      BY <1>3, <1>4, <1>9
    <3> QED BY <3>1, <1>4
  <2> QED BY <1>2, <1>8, <1>9, <2>1, <2>2 DEF TakesByteOf, d
<1>10. CASE Midway(d, packet, k + 1) /\ k + 1 # n + 9
  <2>1. k + 1 \in 1 .. n + 8
    BY <1>3, <1>10
  <2>2. d.state \notin {"PacketAvailable", "Error"}
    BY <1>6, <1>10, <2>1, LastByte
  <2> QED BY <1>2, <1>8, <1>10, <2>2 DEF TakesByteOf, d
<1>11. CASE d.state = "Error"
  BY <1>2, <1>8, <1>11 DEF TakesByteOf, d
<1> QED BY <1>7, <1>9, <1>10, <1>11

LEMMA OnRecvKeeps ==
  ASSUME TcpInv, NEW p \in Programs, OnRecv(p)
  PROVE  \A q \in Programs : Connection(q)'
<1> DEFINE d == push(decoder, Head(up[p]))
<1>0. /\ up \in [Wires -> Seq(Byte)] /\ down \in [Wires -> Seq(Byte)] /\ pending \in [Wires -> Seq(Packet)]
      /\ log \in [Wires -> Seq(Packet)] /\ pcb \in [Programs -> {"none", "open", "aborted"}]
      /\ answers \in [Programs -> 0 .. Len(Job)]
      /\ \A q \in Programs : q \in Wires
  BY Constant DEF TcpInv, Typed
<1>1. /\ UNCHANGED <<pc, answers>> /\ pcb[p] = "open" /\ Connection(p) /\ decoder' = d
      /\ IF d.state = "Error"
         THEN pcb' = [pcb EXCEPT ![p] = "aborted"] /\ up' = [up EXCEPT ![p] = <<>>]
         ELSE up' = [up EXCEPT ![p] = Tail(up[p])] /\ UNCHANGED pcb
      /\ IF d.state = "PacketAvailable"
         THEN Handle(p, GetPacket(d))
         ELSE UNCHANGED <<down, pending, log, deaf>>
  BY DEF OnRecv, program, CloseClient, TcpInv
<1>2. PICK packet \in Packet, k \in Nat : TakesByteOf(p, packet, k)
  BY TakesByte
<1>3. pending[p] = <<packet>> /\ pc[p] # "idle"
  BY <1>1, <1>2 DEF TakesByteOf, InPart, Connection
<1>4. IsActive(p) => packet = Current(p) /\ down[p] = <<>>
                     /\ (pc[p] = "command" => log[p] = Sent(p, answers[p]))
  <2> SUFFICES ASSUME IsActive(p) PROVE packet = Current(p) /\ down[p] = <<>>
                     /\ (pc[p] = "command" => log[p] = Sent(p, answers[p]))
    OBVIOUS
  <2>1. Waiting(p)
    BY <1>1, <1>3 DEF Connection, Replied, Lost
  <2>2. <<packet>> = <<Current(p)>>
    BY <2>1, <1>3 DEF Waiting
  <2> QED BY <2>1, <2>2 DEF Waiting
<1>5. Current(p)' = Current(p) /\ Handled(p)' = Handled(p) /\ IsActive(p)' = IsActive(p)
  BY <1>1 DEF Current, Handled, IsActive
<1>6. IsActive(p) => pc[p] = "ping" \/ pc[p] = "command"
  BY DEF IsActive, Active
<1> HIDE DEF d
<1>7. \A q \in Programs : q # p => Connection(q)'
  <2> TAKE q \in Programs
  <2> HAVE q # p
  <2>1. Connection(q) /\ pcb[q] # "open"
    BY <1>1 DEF TcpInv, OneClient
  <2>2. /\ pc'[q] = pc[q] /\ answers'[q] = answers[q] /\ up'[q] = up[q] /\ pcb'[q] = pcb[q]
    BY <1>0, <1>1
  <2>3. down'[q] = down[q] /\ pending'[q] = pending[q] /\ log'[q] = log[q]
    BY <1>0, <1>1 DEF Handle
  <2> QED BY <2>1, <2>2, <2>3, Unaffected
<1>8. CASE d.state = "Error"
  <2>1. UNCHANGED <<down, pending, log>> /\ pcb'[p] = "aborted" /\ up'[p] = <<>>
    BY <1>0, <1>1, <1>8
  <2>2. IsActive(p)' => Waiting(p)'
    BY <1>1, <1>3, <1>4, <1>5, <2>1 DEF Waiting
  <2>3. Connection(p)'
    BY <1>1, <1>3, <2>1, <2>2 DEF Connection, Incoming
  <2> QED BY <1>7, <2>3
<1>9. CASE d.state \notin {"PacketAvailable", "Error"}
  <2>1. UNCHANGED <<down, pending, log, pcb>> /\ up'[p] = Tail(up[p])
    BY <1>0, <1>1, <1>9
  <2>2. /\ k + 1 # Len(packet.data) + 9 /\ Midway(d, packet, k + 1) /\ Rest(Tail(up[p]), packet, k + 1)
    BY <1>2, <1>9 DEF TakesByteOf, d
  <2>3. InPart(p, packet, k + 1)' /\ k + 1 \in Nat
    <3>1. Midway(decoder, packet, k + 1)'
      BY <1>1, <2>2
    <3>2. Rest(up[p], packet, k + 1)'
      BY <2>1, <2>2
    <3>3. pending'[p] = <<packet>>
      BY <1>3, <2>1
    <3>4. k + 1 \in Nat
      OBVIOUS
    <3> QED BY <2>2, <3>1, <3>2, <3>3, <3>4 DEF InPart
  <2>4. Incoming(p)'
    BY <2>3 DEF Incoming
  <2>5. IsActive(p)' => Waiting(p)'
    BY <1>1, <1>3, <1>4, <1>5, <2>1 DEF Waiting
  <2>6. Connection(p)'
    BY <1>1, <1>3, <2>1, <2>4, <2>5 DEF Connection
  <2> QED BY <1>7, <2>6
<1>10. CASE d.state = "PacketAvailable"
  <2>1. GetPacket(d) = packet /\ Tail(up[p]) = <<>>
    BY <1>2, <1>10 DEF TakesByteOf, d
  <2>2. /\ UNCHANGED pcb /\ up'[p] = <<>>
        /\ down'[p] = down[p] \o Reply(packet) /\ pending'[p] = After(pending[p], packet)
        /\ log'[p] = IF packet.type = PING THEN <<packet>> ELSE Append(log[p], packet)
    BY <1>0, <1>1, <1>10, <2>1 DEF Handle
  <2>3. pending'[p] = <<>>
    BY <1>3, <2>2, AfterOnly
  <2>4. Incoming(p)'
    BY <1>1, <1>10, <2>2, <2>3 DEF Incoming
  <2>5. ASSUME IsActive(p) PROVE Replied(p)'
    <3>1. packet = Current(p) /\ down[p] = <<>>
      BY <1>4, <2>5
    <3>2. down'[p] = Reply(Current(p))
      <4> DEFINE r == Reply(packet)
      <4>1. r \in Seq(Byte)
        BY ReplyTyped
      <4> HIDE DEF r
      <4>2. <<>> \o r = r
        BY <4>1
      <4> QED BY <4>2, <2>2, <3>1 DEF r
    <3>3. log'[p] = Sent(p, Handled(p))
      <4>1. CASE pc[p] = "ping"
        <5>1. packet = Ping(p) /\ packet.type = PING
          BY <3>1, <4>1, Packets DEF Current
        <5>2. Sent(p, 0) = <<Ping(p)>>
          BY SentNone
        <5> QED BY <5>1, <5>2, <2>2, <4>1 DEF Handled
      <4>2. CASE pc[p] = "command"
        <5>1. answers[p] \in 0 .. Len(Job) /\ answers[p] < Len(Job)
              /\ answers[p] + 1 \in 1 .. Len(Job) /\ pc[p] # "ping"
          BY <4>2, Constant DEF TcpInv, Typed
        <5>2. packet = Command(answers[p] + 1) /\ packet.type # PING
          BY <3>1, <5>1, Packets, Constant DEF Current
        <5>3. log'[p] = Append(Sent(p, answers[p]), Command(answers[p] + 1))
          BY <1>4, <2>2, <2>5, <4>2, <5>2
        <5> QED BY <5>1, <5>3, SentGrows DEF Handled
      <4> QED BY <1>6, <2>5, <4>1, <4>2
    <3> QED BY <1>5, <2>3, <3>2, <3>3 DEF Replied
  <2>6. Connection(p)'
    BY <1>1, <1>3, <1>5, <2>2, <2>4, <2>5 DEF Connection
  <2> QED BY <1>7, <2>6
<1> QED BY <1>8, <1>9, <1>10

LEMMA InitTcp == Init /\ link = "tcp" => TcpInv
<1> SUFFICES ASSUME Init, link = "tcp" PROVE TcpInv
  OBVIOUS
<1>1. Typed /\ OneClient
  BY InitTyped DEF Init, OneClient
<1>2. ASSUME NEW p \in Programs PROVE Connection(p)
  BY Constant DEF Init, Connection, Incoming, IsActive, Active
<1> QED BY <1>1, <1>2 DEF TcpInv

LEMMA NextTcp == TcpInv /\ [Next]_vars => TcpInv'
<1> SUFFICES ASSUME TcpInv, [Next]_vars PROVE TcpInv'
  OBVIOUS
<1>1. Typed' /\ OneClient'
  BY NextTyped, NextOneClient DEF TcpInv
<1>2. (link' = "tcp") /\ \A p \in Programs : Connection(p)'
  <2>1. CASE UNCHANGED vars
    <3>1. link' = "tcp"
      BY <2>1 DEF TcpInv, vars
    <3>2. ASSUME NEW q \in Programs PROVE Connection(q)'
      <4>1. /\ Connection(q) /\ pc'[q] = pc[q] /\ answers'[q] = answers[q] /\ up'[q] = up[q]
            /\ down'[q] = down[q] /\ pending'[q] = pending[q] /\ log'[q] = log[q]
            /\ pcb'[q] = pcb[q] /\ decoder' = decoder
        BY <2>1 DEF TcpInv, vars
      <4> QED BY <4>1, Unaffected
    <3> QED BY <3>1, <3>2
  <2>2. CASE \E p \in Programs : StartTcp(p)
    BY <2>2, StartTcpKeeps DEF StartTcp, TcpInv
  <2>3. CASE \E p \in Programs : Receive(p)
    BY <2>3, ReceiveKeeps DEF Receive, TcpInv
  <2>4. CASE \E p \in Programs : ReceiveError(p) \/ SeeReset(p) \/ Kill(p) \/ KillMidPacket(p)
    <3>1. UNCHANGED link
      BY <2>4 DEF ReceiveError, SeeReset, Kill, KillMidPacket
    <3> QED BY <2>4, <3>1, EndsKeeps DEF TcpInv
  <2>5. CASE \E p \in Programs : OnRecv(p)
    BY <2>5, OnRecvKeeps DEF OnRecv, TcpInv
  <2>6. CASE \E p \in Programs : OnFin(p)
    BY <2>6, OnFinKeeps DEF OnFin, TcpInv
  <2>7. ~ (\/ \E p \in Programs : StartSerial(p)
           \/ IngestSerial \/ LoseUp \/ LoseDown \/ \E byte \in StrayBytes : Stray(byte))
    BY DEF TcpInv, StartSerial, IngestSerial, LoseUp, LoseDown, Stray, Disturb
  <2> QED BY <2>1, <2>2, <2>3, <2>4, <2>5, <2>6, <2>7 DEF Next
<1> QED BY <1>1, <1>2 DEF TcpInv

\* Over TCP, and whatever the data of packets looks like, wherever programs are killed
\* and new ones take the connection over, what the decoder makes of the bytes are the
\* packets that were sent, in order and each at most once (OnlySentPackets).
THEOREM TcpOnlySentPackets == Spec /\ link = "tcp" => OnlySentPackets
<1>1. ASSUME TcpInv, [Next]_vars, NEW w \in Wires,
             up'[w] # up[w], decoder' # decoder, decoder'.state = "PacketAvailable"
      PROVE  \E k \in DOMAIN pending[w] :
               /\ pending[w][k] = GetPacket(decoder')
               /\ pending'[w] = SubSeq(pending[w], k + 1, Len(pending[w]))
  <2>1. PICK p \in Programs : OnRecv(p)
    <3>1. ~ \E p \in Programs : StartTcp(p)
      BY <1>1 DEF StartTcp, reset, TcpInv, Typed, Sound, Decoder
    <3>2. ~ IngestSerial
      BY <1>1 DEF TcpInv, IngestSerial
    <3>3. \/ \E p \in Programs : OnRecv(p) \/ StartTcp(p)
          \/ IngestSerial
          \/ UNCHANGED decoder
      BY <1>1 DEF Next, vars, StartSerial, Receive, ReceiveError, SeeReset, Kill, KillMidPacket,
                  OnFin, LoseUp, LoseDown, Stray, Disturb
    <3> QED BY <1>1, <3>1, <3>2, <3>3
  <2>2. /\ decoder' = push(decoder, Head(up[p])) /\ Handle(p, GetPacket(decoder'))
        /\ \A q \in Wires : q # p => up'[q] = up[q]
    BY <1>1, <2>1 DEF OnRecv, CloseClient, TcpInv, Typed
  <2>3. w = p /\ p \in Wires
    BY <1>1, <2>2, Constant
  <2>4. PICK packet \in Packet, k \in Nat : TakesByteOf(p, packet, k)
    BY <1>1, <2>1, TakesByte
  <2>5. GetPacket(decoder') = packet /\ pending[p] = <<packet>>
    BY <1>1, <2>2, <2>4 DEF TakesByteOf, InPart
  <2>6. pending'[p] = <<>>
    <3>1. pending'[p] = After(pending[p], packet)
      BY <1>1, <2>2, <2>3, <2>5 DEF Handle, TcpInv, Typed
    <3> QED BY <3>1, <2>5, AfterOnly
  <2>7. /\ 1 \in DOMAIN pending[p] /\ pending[p][1] = packet
        /\ SubSeq(pending[p], 1 + 1, Len(pending[p])) = <<>>
    <3> DEFINE s == <<packet>>
    <3>1. s \in Seq(Packet) /\ Len(s) = 1 /\ DOMAIN s = {1} /\ s[1] = packet
      OBVIOUS
    <3> HIDE DEF s
    <3>2. SubSeq(s, 1 + 1, Len(s)) = <<>>
      BY <3>1
    <3> QED BY <2>5, <3>1, <3>2 DEF s
  <2> QED BY <2>3, <2>5, <2>6, <2>7
<1>2. TcpInv /\ [Next]_vars =>
        [link = "tcp" \/ PlainData =>
           \A w \in Wires :
             up'[w] # up[w] /\ decoder' # decoder /\ decoder'.state = "PacketAvailable" =>
               \E k \in DOMAIN pending[w] :
                 /\ pending[w][k] = GetPacket(decoder')
                 /\ pending'[w] = SubSeq(pending[w], k + 1, Len(pending[w]))]_vars
  BY <1>1
<1> QED BY <1>2, InitTcp, NextTcp, PTL DEF Spec, OnlySentPackets

\* Over TCP, a program that takes a reply takes the one to its own packet, right after
\* the firmware has handled its ping and its commands so far, and nothing else
\* (RepliesAreOwn).
THEOREM TcpRepliesAreOwn == Spec /\ link = "tcp" => RepliesAreOwn
<1>1. ASSUME TcpInv, [Next]_vars, NEW p \in Programs, TakesReply(p)
      PROVE  log[Wire(p)] = <<Ping(p)>> \o [k \in 1 .. answers'[p] |-> Command(k)]
  <2>1. Receive(p)
    <3>1. /\ pc \in [Programs -> {"ping", "command", "idle", "done", "ended"}]
          /\ pc'[p] \in {"command", "done"} /\ (pc[p] = "ping" \/ pc[p] = "command")
          /\ (pc'[p] = pc[p] => answers'[p] # answers[p])
          /\ answers \in [Programs -> 0 .. Len(Job)]
      BY <1>1 DEF TcpInv, Typed, TakesReply, IsActive, Active
    <3>2. ~ UNCHANGED <<pc, answers>>
      BY <3>1
    <3>3. \A q \in Programs : ~ (ReceiveError(q) \/ SeeReset(q) \/ Kill(q) \/ KillMidPacket(q))
      BY <3>1 DEF ReceiveError, SeeReset, Kill, KillMidPacket, End
    <3>4. \A q \in Programs : ~ (StartSerial(q) \/ StartTcp(q))
      BY <3>1 DEF StartSerial, StartTcp, MayStart
    <3>5. \A q \in Programs : Receive(q) => q = p
      BY <3>1 DEF Receive, Proceed
    <3>6. \/ UNCHANGED <<pc, answers>>
          \/ \E q \in Programs :
               \/ StartSerial(q) \/ StartTcp(q) \/ Receive(q)
               \/ ReceiveError(q) \/ SeeReset(q) \/ Kill(q) \/ KillMidPacket(q)
      BY <1>1 DEF Next, vars, program, OnRecv, OnFin, IngestSerial, LoseUp, LoseDown, Stray, Disturb
    <3> QED BY <3>2, <3>3, <3>4, <3>5, <3>6
  <2>2. Replied(p) /\ Proceed(p, Handled(p)) /\ Wire(p) = p
    BY <1>1, <2>1, TakesOwn, WireIs
  <2>3. answers'[p] = Handled(p)
    BY <1>1, <2>2 DEF Proceed, TcpInv, Typed
  <2> QED BY <2>2, <2>3 DEF Replied, Sent
<1>2. TcpInv /\ [Next]_vars =>
        [link = "tcp" \/ PlainData =>
           \A p \in Programs : TakesReply(p) =>
             log[Wire(p)] = <<Ping(p)>> \o [k \in 1 .. answers'[p] |-> Command(k)]]_vars
  BY <1>1
<1> QED BY <1>2, InitTcp, NextTcp, PTL DEF Spec, RepliesAreOwn

-----------------------------------------------------------------------------
(* How long the firmware can be deaf on the serial link.                   *)
(*                                                                         *)
(* Once a ping got no answer, only pings are on the wire, the first one    *)
(* perhaps not from its beginning, and the decoder is in one of four       *)
(* places: it takes the pings for the rest of an old packet (Swallowing),  *)
(* it looks for begin magic in the middle of a ping (Searching), it is     *)
(* where a ping begins (AtStart), or it is in one (Midst). It goes through *)
(* them in this order, never back, and the last ends with an answer. Only  *)
(* Swallowing costs more than one ping, and no more bytes than are Left.   *)

\* s is the bytes at[i] of the pings of the programs of[i], one ping after the other.
Pings(s, at, of) ==
  /\ at \in [1 .. Len(s) -> 1 .. PingLength] /\ of \in [1 .. Len(s) -> Programs]
  /\ \A i \in 1 .. Len(s) : s[i] = Encode(Ping(of[i]))[at[i]]
  /\ \A i \in 1 .. Len(s) :
       \/ at[i] = PingLength
       \/ i < Len(s) /\ at[i + 1] = at[i] + 1 /\ of[i + 1] = of[i]
  /\ \A i \in 1 .. Len(s) : at[i] = PingLength /\ i < Len(s) => at[i + 1] = 1

\* How much of the first ping was taken.
Taken(s, at) == IF s = <<>> THEN 0 ELSE at[1] - 1

InPacket == {"WaitForMagicBegin2", "WaitForLength1", "WaitForLength2", "WaitForPacketType", "WaitForData",
             "WaitForChecksum1", "WaitForChecksum2", "WaitForMagicEnd1", "WaitForMagicEnd2"}

\* How many more bytes a decoder in a packet takes before it is at the end of one, or
\* finds a mismatch. (If begin magic does not follow.)
Left(d) ==
  CASE d.state = "WaitForMagicBegin2" -> 1
    [] d.state = "WaitForLength1"     -> MAX_DATA_LENGTH + 7
    [] d.state = "WaitForLength2"     -> MAX_DATA_LENGTH + 6
    [] d.state = "WaitForPacketType"  -> d.length + 5
    [] d.state = "WaitForData"        -> d.length - Len(d.buf) + 4
    [] d.state = "WaitForChecksum1"   -> 4
    [] d.state = "WaitForChecksum2"   -> 3
    [] d.state = "WaitForMagicEnd1"   -> 2
    [] d.state = "WaitForMagicEnd2"   -> 1

\* Bytes in n pings.
BytesIn(n) == PingLength * n
Rounds == (MAX_DATA_LENGTH + 6) \div PingLength + 1
Pinging == \E p \in Programs : pc[p] = "ping"

\* The pings that were not answered are in the bytes it took, or on the wire.
Swallowing(s, k) ==
  /\ decoder.state \in InPacket
  /\ decoder.state = "WaitForMagicBegin2" => k = 0
  /\ Left(decoder) + BytesIn(deaf - 1) <= MAX_DATA_LENGTH + 7 + Len(s)
  /\ Pinging => Left(decoder) + BytesIn(deaf) <= MAX_DATA_LENGTH + 7 + Len(s)
  /\ deaf <= Rounds
Searching(s, k) ==
  /\ k # 0
  /\ \/ decoder.state = "WaitForMagicBegin1"
     \/ decoder.state = "WaitForMagicBegin2" /\ s[1] # MAGIC_BEGIN_2
  /\ deaf <= Rounds
AtStart(s, k) ==
  /\ k = 0
  /\ decoder.state \in {"WaitForMagicBegin1", "PacketAvailable"}
  /\ deaf <= Rounds + 1
  /\ Pinging /\ s = <<>> => deaf <= Rounds
Midst(q, k) ==
  /\ k # 0
  /\ Midway(decoder, Ping(q), k)
  /\ deaf <= Rounds + 1

Somewhere(s, k, q) == Swallowing(s, k) \/ Searching(s, k) \/ AtStart(s, k) \/ Midst(q, k)
Unanswered(s) ==
  \E at \in [1 .. Len(s) -> 1 .. PingLength], of \in [1 .. Len(s) -> Programs] :
    Pings(s, at, of) /\ Somewhere(s, Taken(s, at), of[1])

\* One program at a time.
Alone ==
  \A p, q \in Programs :
    /\ pc[p] = "idle" /\ p < q => pc[q] = "idle"
    /\ IsActive(p) /\ IsActive(q) => p = q

DeafInv ==
  /\ Typed
  /\ link = "tcp" => deaf = 0
  /\ link = "serial" =>
       /\ \A p \in Programs : pcb[p] = "none"
       /\ decoder.state # "Error"
       /\ Alone
       /\ deaf > 0 => down[SerialWire] = <<>> /\ Unanswered(up[SerialWire])

LEMMA PingIs ==
  ASSUME PlainPings
  PROVE  /\ PingLength \in Nat /\ PingLength >= 9
         /\ \A p \in Programs :
              LET e == Encode(Ping(p))
              IN /\ Ping(p) \in Packet /\ e \in Seq(Byte) /\ Len(e) = PingLength
                 /\ Len(Ping(p).data) + 9 = PingLength /\ Len(Ping(p).data) <= MAX_DATA_LENGTH
                 /\ e[1] = MAGIC_BEGIN_1 /\ e[2] = MAGIC_BEGIN_2 /\ e[PingLength] = MAGIC_END_2
                 /\ \A i \in 2 .. PingLength - 1 : e[i] = MAGIC_BEGIN_1 => e[i + 1] # MAGIC_BEGIN_2
<1>1. ASSUME NEW p \in Programs
      PROVE  LET e == Encode(Ping(p))
             IN /\ Ping(p) \in Packet /\ e \in Seq(Byte) /\ Len(e) = PingLength
                /\ Len(Ping(p).data) \in Nat
                /\ Len(Ping(p).data) + 9 = PingLength /\ Len(Ping(p).data) <= MAX_DATA_LENGTH
                /\ e[1] = MAGIC_BEGIN_1 /\ e[2] = MAGIC_BEGIN_2 /\ e[PingLength] = MAGIC_END_2
                /\ \A i \in 2 .. PingLength - 1 : e[i] = MAGIC_BEGIN_1 => e[i + 1] # MAGIC_BEGIN_2
  <2>1. Ping(p) \in Packet /\ Ping(p).data = PingData[p]
    BY Packets DEF Ping
  <2>2. Len(Encode(Ping(p))) = PingLength /\ Len(Ping(p).data) <= MAX_DATA_LENGTH
        /\ \A i \in 2 .. PingLength - 1 :
             Encode(Ping(p))[i] = MAGIC_BEGIN_1 => Encode(Ping(p))[i + 1] # MAGIC_BEGIN_2
    BY <2>1 DEF PlainPings
  <2>3. Len(Ping(p).data) \in Nat
    BY <2>1, PacketFields
  <2>4. LET e == Encode(Ping(p))
            n == Len(Ping(p).data)
        IN e \in Seq(Byte) /\ Len(e) = n + 9 /\ e[1] = MAGIC_BEGIN_1 /\ e[2] = MAGIC_BEGIN_2
           /\ e[n + 9] = MAGIC_END_2
    BY <2>1, Encoded
  <2> QED BY <2>1, <2>2, <2>3, <2>4
<1>2. 1 \in Programs
  BY NumProgramsAssumption DEF Programs
<1>3. PingLength \in Nat /\ PingLength >= 9
  BY <1>1, <1>2
<1> QED BY <1>1, <1>3

\* One byte less at the front.
LEMMA PingsTail ==
  ASSUME PlainPings, NEW s \in Seq(Byte), s # <<>>, NEW at, NEW of, Pings(s, at, of)
  PROVE  \E a \in [1 .. Len(Tail(s)) -> 1 .. PingLength], o \in [1 .. Len(Tail(s)) -> Programs] :
           /\ Pings(Tail(s), a, o)
           /\ at[1] = PingLength => Taken(Tail(s), a) = 0
           /\ at[1] # PingLength =>
                Tail(s) # <<>> /\ Taken(Tail(s), a) = at[1] /\ a[1] = at[1] + 1 /\ o[1] = of[1]
<1> DEFINE t == Tail(s)
           a == [i \in 1 .. Len(t) |-> at[i + 1]]
           o == [i \in 1 .. Len(t) |-> of[i + 1]]
<1>1. /\ t \in Seq(Byte) /\ Len(s) \in Nat /\ Len(t) \in Nat /\ Len(s) = Len(t) + 1
      /\ \A i \in 1 .. Len(t) : t[i] = s[i + 1]
      /\ (t = <<>> <=> Len(t) = 0)
  <2>1. t \in Seq(Byte) /\ Len(s) \in Nat /\ Len(t) \in Nat /\ Len(s) = Len(t) + 1
    OBVIOUS
  <2>2. \A i \in 1 .. Len(s) - 1 : t[i] = s[i + 1]
    OBVIOUS
  <2>3. t = <<>> <=> Len(t) = 0
    <3> HIDE DEF t
    <3> QED BY <2>1
  <2> HIDE DEF t
  <2> QED BY <2>1, <2>2, <2>3
<1>2. PingLength \in Nat /\ PingLength >= 9
  BY PingIs
<1>3. /\ at \in [1 .. Len(s) -> 1 .. PingLength] /\ of \in [1 .. Len(s) -> Programs]
      /\ \A i \in 1 .. Len(s) : s[i] = Encode(Ping(of[i]))[at[i]]
      /\ \A i \in 1 .. Len(s) :
           \/ at[i] = PingLength
           \/ i < Len(s) /\ at[i + 1] = at[i] + 1 /\ of[i + 1] = of[i]
      /\ \A i \in 1 .. Len(s) : at[i] = PingLength /\ i < Len(s) => at[i + 1] = 1
  BY DEF Pings
<1> HIDE DEF t
<1>4. \A i \in 1 .. Len(t) : i \in 1 .. Len(s) /\ i + 1 \in 1 .. Len(s)
  BY <1>1
<1>5. a \in [1 .. Len(t) -> 1 .. PingLength] /\ o \in [1 .. Len(t) -> Programs]
  BY <1>3, <1>4
<1>6. Pings(t, a, o)
  <2>1. ASSUME NEW i \in 1 .. Len(t)
        PROVE  /\ t[i] = Encode(Ping(o[i]))[a[i]]
               /\ \/ a[i] = PingLength
                  \/ i < Len(t) /\ a[i + 1] = a[i] + 1 /\ o[i + 1] = o[i]
               /\ a[i] = PingLength /\ i < Len(t) => a[i + 1] = 1
    <3>1. i + 1 \in 1 .. Len(s) /\ i \in Nat /\ (i + 1 < Len(s) <=> i < Len(t))
          /\ (i < Len(t) => i + 1 \in 1 .. Len(t))
      BY <1>1, <1>4
    <3>2. t[i] = s[i + 1] /\ a[i] = at[i + 1] /\ o[i] = of[i + 1]
      BY <1>1
    <3>3. i < Len(t) => a[i + 1] = at[(i + 1) + 1] /\ o[i + 1] = of[(i + 1) + 1]
      BY <3>1
    <3>4. s[i + 1] = Encode(Ping(of[i + 1]))[at[i + 1]]
      BY <1>3, <3>1
    <3>5. \/ at[i + 1] = PingLength
          \/ i + 1 < Len(s) /\ at[(i + 1) + 1] = at[i + 1] + 1 /\ of[(i + 1) + 1] = of[i + 1]
      BY <1>3, <3>1
    <3>6. at[i + 1] = PingLength /\ i + 1 < Len(s) => at[(i + 1) + 1] = 1
      BY <1>3, <3>1
    <3> HIDE DEF a, o
    <3> QED BY <3>1, <3>2, <3>3, <3>4, <3>5, <3>6
  <2> HIDE DEF a, o
  <2> QED BY <2>1, <1>5 DEF Pings
<1>7. 1 \in 1 .. Len(s)
  BY <1>1
<1>8. at[1] # PingLength => Len(t) > 0 /\ at[1 + 1] = at[1] + 1 /\ of[1 + 1] = of[1]
  BY <1>1, <1>3, <1>7
<1>9. Len(t) > 0 => a[1] = at[1 + 1] /\ o[1] = of[1 + 1]
  BY <1>1
<1>10. at[1] = PingLength /\ Len(t) > 0 => at[1 + 1] = 1
  BY <1>1, <1>3, <1>7
<1>11. at[1] \in Nat
  BY <1>3, <1>7
<1> HIDE DEF a, o
<1>12. /\ at[1] = PingLength => Taken(t, a) = 0
       /\ at[1] # PingLength => t # <<>> /\ Taken(t, a) = at[1] /\ a[1] = at[1] + 1 /\ o[1] = of[1]
  BY <1>1, <1>8, <1>9, <1>10, <1>11 DEF Taken
<1> QED BY <1>5, <1>6, <1>12 DEF t

\* A ping more at the end.
Longer(t, s, at, of) ==
  /\ Len(t) = Len(s) + PingLength /\ t # <<>> /\ (s # <<>> => t[1] = s[1])
  /\ \E a \in [1 .. Len(t) -> 1 .. PingLength], o \in [1 .. Len(t) -> Programs] :
       /\ Pings(t, a, o)
       /\ Taken(t, a) = Taken(s, at)
       /\ s # <<>> => o[1] = of[1]

LEMMA PingsMore ==
  ASSUME PlainPings, NEW s \in Seq(Byte), NEW at, NEW of, Pings(s, at, of), NEW p \in Programs
  PROVE  Longer(s \o Encode(Ping(p)), s, at, of)
<1> DEFINE e == Encode(Ping(p))
           t == s \o e
           m == Len(s)
           L == PingLength
           a == [i \in 1 .. Len(t) |-> IF i <= m THEN at[i] ELSE i - m]
           o == [i \in 1 .. Len(t) |-> IF i <= m THEN of[i] ELSE p]
<1>1. L \in Nat /\ L >= 9 /\ e \in Seq(Byte) /\ Len(e) = L
  BY PingIs
<1>2. /\ at \in [1 .. m -> 1 .. L] /\ of \in [1 .. m -> Programs]
      /\ \A i \in 1 .. m : s[i] = Encode(Ping(of[i]))[at[i]]
      /\ \A i \in 1 .. m :
           \/ at[i] = L
           \/ i < m /\ at[i + 1] = at[i] + 1 /\ of[i + 1] = of[i]
      /\ \A i \in 1 .. m : at[i] = L /\ i < m => at[i + 1] = 1
  BY DEF Pings
<1> HIDE DEF e, L
<1>3. /\ m \in Nat /\ Len(t) \in Nat /\ Len(t) = m + L /\ t # <<>>
      /\ \A i \in 1 .. m : t[i] = s[i]
      /\ \A i \in m + 1 .. m + L : t[i] = e[i - m]
  <2>1. t \in Seq(Byte) /\ m \in Nat /\ Len(t) = m + L
    BY <1>1
  <2>2. \A i \in 1 .. Len(s) + Len(e) : t[i] = IF i <= Len(s) THEN s[i] ELSE e[i - Len(s)]
    BY <1>1
  <2> HIDE DEF t
  <2> QED BY <1>1, <2>1, <2>2
<1> HIDE DEF t, m
<1>4. s # <<>> <=> m > 0
  BY DEF m
<1>5. a \in [1 .. Len(t) -> 1 .. L] /\ o \in [1 .. Len(t) -> Programs]
  <2>1. \A i \in 1 .. Len(t) : i <= m => i \in 1 .. m
    BY <1>3
  <2>2. \A i \in 1 .. Len(t) : ~ (i <= m) => i - m \in 1 .. L
    BY <1>1, <1>3
  <2> QED BY <1>2, <2>1, <2>2
<1>6. ASSUME NEW i \in 1 .. Len(t)
      PROVE  /\ t[i] = Encode(Ping(o[i]))[a[i]]
             /\ \/ a[i] = L
                \/ i < Len(t) /\ a[i + 1] = a[i] + 1 /\ o[i + 1] = o[i]
             /\ a[i] = L /\ i < Len(t) => a[i + 1] = 1
  <2>1. i < Len(t) => i + 1 \in 1 .. Len(t)
    BY <1>3
  <2>2. CASE i < m
    <3>1. i \in 1 .. m /\ i + 1 <= m /\ i < Len(t) /\ i <= m /\ i + 1 \in 1 .. Len(t)
      BY <1>1, <1>3, <2>2
    <3>2. a[i] = at[i] /\ o[i] = of[i] /\ a[i + 1] = at[i + 1] /\ o[i + 1] = of[i + 1] /\ t[i] = s[i]
      BY <1>3, <3>1
    <3>3. /\ s[i] = Encode(Ping(of[i]))[at[i]]
          /\ at[i] = L \/ (i < m /\ at[i + 1] = at[i] + 1 /\ of[i + 1] = of[i])
          /\ at[i] = L /\ i < m => at[i + 1] = 1
      BY <1>2, <3>1
    <3> HIDE DEF a, o
    <3> QED BY <2>2, <3>1, <3>2, <3>3
  <2>3. CASE i = m
    <3>1. i \in 1 .. m /\ ~ (i + 1 <= m) /\ i < Len(t) /\ i <= m /\ i + 1 \in 1 .. Len(t) /\ (i + 1) - m = 1
      BY <1>1, <1>3, <2>3
    <3>2. a[i] = at[i] /\ o[i] = of[i] /\ a[i + 1] = 1 /\ t[i] = s[i]
      BY <1>3, <3>1
    <3>3. s[i] = Encode(Ping(of[i]))[at[i]] /\ at[i] = L
      BY <1>2, <1>3, <2>3, <3>1
    <3> HIDE DEF a, o
    <3> QED BY <3>1, <3>2, <3>3
  <2>4. CASE i > m
    <3>1. /\ ~ (i <= m) /\ ~ (i + 1 <= m) /\ i \in m + 1 .. m + L
          /\ (i < Len(t) <=> i - m < L) /\ (i - m = L \/ i < Len(t)) /\ (i + 1) - m = (i - m) + 1
      BY <1>1, <1>3, <2>4
    <3>2. a[i] = i - m /\ o[i] = p /\ t[i] = e[i - m]
      BY <1>3, <3>1
    <3>3. i < Len(t) => a[i + 1] = (i - m) + 1 /\ o[i + 1] = p
      BY <2>1, <3>1
    <3>4. i - m = L => ~ (i < Len(t))
      BY <1>1, <1>3, <3>1
    <3> HIDE DEF a, o
    <3> QED BY <3>1, <3>2, <3>3, <3>4 DEF e
  <2> QED BY <1>3, <2>2, <2>3, <2>4
<1>7. 1 \in 1 .. Len(t) /\ (m > 0 => 1 <= m) /\ (~ (m > 0) => 1 - m = 1 /\ ~ (1 <= m))
  BY <1>1, <1>3
<1>8. (m > 0 => a[1] = at[1] /\ o[1] = of[1]) /\ (~ (m > 0) => a[1] = 1)
  BY <1>7
<1>9. m > 0 => t[1] = s[1]
  BY <1>3, <1>7
<1> HIDE DEF a, o
<1>10. Pings(t, a, o)
  BY <1>5, <1>6 DEF Pings, L
<1>11. Taken(t, a) = Taken(s, at)
  BY <1>3, <1>4, <1>8 DEF Taken
<1>12. s # <<>> => o[1] = of[1] /\ t[1] = s[1]
  BY <1>4, <1>8, <1>9
<1>13. Longer(t, s, at, of)
  BY <1>3, <1>5, <1>10, <1>11, <1>12 DEF m, L, Longer
<1> QED BY <1>13 DEF t, e

\* In a packet, a byte is one of those Left, or a mismatch, or the end of a packet.
LEMMA OneLess ==
  ASSUME NEW d, Sound(d), d.state \in InPacket, NEW byte \in Byte,
         d.state = "WaitForMagicBegin2" => byte # MAGIC_BEGIN_2
  PROVE  LET e == push(d, byte)
         IN \/ e.state \in {"Error", "PacketAvailable"}
            \/ /\ e.state \in InPacket /\ e.state # "WaitForMagicBegin2"
               /\ Left(e) \in Nat /\ Left(d) \in Nat /\ Left(e) < Left(d)
<1> DEFINE e == push(d, byte)
<1>1. /\ d \in Decoder /\ d.state \in State /\ Len(d.buf) \in Nat /\ d.length \in Nat /\ d.buf \in Seq(Byte)
      /\ MAX_DATA_LENGTH \in Nat
  BY WordIs, MaxDataLengthAssumption DEF Sound, Decoder
<1>2. Sound(e)
  BY PushIsSound
<1>3. /\ e \in Decoder /\ e.length \in Nat
      /\ e.state \in {"WaitForPacketType", "WaitForData"} => e.length <= MAX_DATA_LENGTH
  BY <1>2, WordIs DEF Sound, Decoder
<1>4. CASE d.state = "WaitForMagicBegin2"
  BY <1>1, <1>4, Pushing DEF Decoder
<1>5. CASE d.state = "WaitForLength1"
  <2>0. e = [d EXCEPT !.state = "WaitForLength2", !.length = byte, !.crc = crc16_step(byte, 0)]
    BY <1>5, Pushing DEF PushLength1
  <2>1. e.state = "WaitForLength2"
    BY <1>1, <2>0 DEF Decoder
  <2> HIDE DEF e
  <2> QED BY <1>1, <1>5, <2>1 DEF e, Left, InPacket
<1>6. CASE d.state = "WaitForLength2"
  <2> DEFINE length == d.length + 256 * byte
             state == IF length <= MAX_DATA_LENGTH THEN "WaitForPacketType" ELSE "Error"
  <2>0. e = [d EXCEPT !.state = state, !.length = length, !.crc = crc16_step(byte, d.crc)]
    BY <1>6, Pushing DEF PushLength2
  <2>1. e.state = "WaitForPacketType" \/ e.state = "Error"
    <3>1. e.state = state
      <4> HIDE DEF state, length
      <4> QED BY <1>1, <2>0 DEF Decoder
    <3> QED BY <3>1
  <2> HIDE DEF e
  <2>2. e.state = "WaitForPacketType" => Left(e) \in Nat /\ Left(e) < Left(d)
    BY <1>1, <1>3, <1>6 DEF Left
  <2> QED BY <1>1, <1>6, <2>1, <2>2 DEF e, Left, InPacket
<1>7. CASE d.state = "WaitForPacketType"
  <2>1. e = [d EXCEPT !.state = IF d.length # 0 THEN "WaitForData" ELSE "WaitForChecksum1",
                      !.packet_type = byte, !.buf = <<>>, !.crc = crc16_step(byte, d.crc)]
    BY <1>7, Pushing DEF PushPacketType
  <2>2. /\ e.state = (IF d.length # 0 THEN "WaitForData" ELSE "WaitForChecksum1")
        /\ e.length = d.length /\ e.buf = <<>>
    BY <1>1, <2>1 DEF Decoder
  <2>3. Len(e.buf) = 0
    BY <2>2
  <2> HIDE DEF e
  <2>4. Left(e) = e.length + 4 \/ Left(e) = 4
    BY <1>3, <2>2, <2>3 DEF Left
  <2>5. Left(d) = d.length + 5
    BY <1>7 DEF Left
  <2> QED BY <1>1, <2>2, <2>4, <2>5 DEF e, InPacket
<1>8. CASE d.state = "WaitForData"
  <2>1. e = [d EXCEPT !.state = IF Len(d.buf) + 1 = d.length THEN "WaitForChecksum1" ELSE d.state,
                      !.buf = Append(d.buf, byte), !.crc = crc16_step(byte, d.crc)]
    BY <1>8, Pushing DEF PushData
  <2>2. /\ e.state = (IF Len(d.buf) + 1 = d.length THEN "WaitForChecksum1" ELSE d.state)
        /\ e.length = d.length /\ e.buf = Append(d.buf, byte)
    BY <1>1, <2>1 DEF Decoder
  <2>3. Len(e.buf) = Len(d.buf) + 1
    BY <1>1, <2>2
  <2>4. Len(d.buf) < d.length
    BY <1>8 DEF Sound
  <2>5. Left(d) = d.length - Len(d.buf) + 4
    BY <1>8 DEF Left
  <2> HIDE DEF e
  <2>6. CASE Len(d.buf) + 1 = d.length
    <3>1. Left(e) = 4 /\ e.state = "WaitForChecksum1"
      BY <2>2, <2>6 DEF Left
    <3> QED BY <1>1, <2>4, <2>5, <3>1 DEF e, InPacket
  <2>7. CASE Len(d.buf) + 1 # d.length
    <3>1. e.state = "WaitForData"
      BY <1>8, <2>2, <2>7
    <3>2. Left(e) = e.length - Len(e.buf) + 4
      BY <3>1 DEF Left
    <3> QED BY <1>1, <2>2, <2>3, <2>4, <2>5, <3>1, <3>2 DEF e, InPacket
  <2> QED BY <2>6, <2>7
<1>9. CASE d.state \in {"WaitForChecksum1", "WaitForChecksum2", "WaitForMagicEnd1", "WaitForMagicEnd2"}
  <2>1. /\ d.state = "WaitForChecksum1" => e.state \in {"WaitForChecksum2", "Error"}
        /\ d.state = "WaitForChecksum2" => e.state \in {"WaitForMagicEnd1", "Error"}
        /\ d.state = "WaitForMagicEnd1" => e.state \in {"WaitForMagicEnd2", "Error"}
        /\ d.state = "WaitForMagicEnd2" => e.state \in {"PacketAvailable", "Error"}
    BY <1>1, <1>9, Pushing DEF Decoder
  <2> HIDE DEF e
  <2> QED BY <1>9, <2>1 DEF e, Left, InPacket
<1> QED BY <1>4, <1>5, <1>6, <1>7, <1>8, <1>9 DEF InPacket

LEMMA RoundsAre ==
  ASSUME PlainPings
  PROVE  Rounds \in Nat /\ Rounds >= 1 /\ MaxDeaf = Rounds + 1 /\ MAX_DATA_LENGTH \in Nat
<1>1. MAX_DATA_LENGTH + 6 \in Nat /\ MAX_DATA_LENGTH \in Nat
  BY MaxDataLengthAssumption
<1>2. PingLength \in Nat /\ PingLength > 0
  BY PingIs
<1>3. \A m, l \in Nat : l > 0 => m \div l \in Nat
  OBVIOUS
<1> DEFINE q == (MAX_DATA_LENGTH + 6) \div PingLength
<1>4. q \in Nat
  BY ONLY <1>1, <1>2, <1>3
<1>5. Rounds = q + 1 /\ MaxDeaf = 1 + q + 1
  BY DEF Rounds, MaxDeaf
<1> HIDE DEF q
<1> QED BY <1>1, <1>4, <1>5

LEMMA BytesMore ==
  ASSUME NEW n \in Nat, PlainPings
  PROVE  /\ BytesIn(n) \in Nat /\ BytesIn(0) = 0 /\ BytesIn(n + 1) = BytesIn(n) + PingLength
         /\ BytesIn(n) <= MAX_DATA_LENGTH + 6 => n + 1 <= Rounds
<1>1. PingLength \in Nat /\ PingLength >= 9
  BY PingIs
<1>2. MAX_DATA_LENGTH + 6 \in Nat
  BY MaxDataLengthAssumption
<1>3. \A l, m \in Nat : l > 0 => m \div l \in Nat /\ m < l * (m \div l + 1)
  OBVIOUS
<1>4. \A l, k, j \in Nat : k <= j => l * k <= l * j
  OBVIOUS
<1> DEFINE m == MAX_DATA_LENGTH + 6
           q == m \div PingLength
<1>5. q \in Nat /\ m < PingLength * (q + 1)
  BY <1>1, <1>2, <1>3
<1>6. ASSUME PingLength * n <= m PROVE n <= q
  <2> HIDE DEF q, m
  <2>1. CASE n >= q + 1
    <3>1. PingLength * (q + 1) <= PingLength * n
      BY <1>1, <1>4, <1>5, <2>1
    <3> QED BY <1>1, <1>2, <1>5, <1>6, <3>1 DEF m
  <2> QED BY <1>5, <2>1
<1> QED BY <1>1, <1>5, <1>6 DEF BytesIn, Rounds

LEMMA IngestKeeps ==
  ASSUME PlainPings, DeafInv, IngestSerial, deaf' > 0
  PROVE  down'[SerialWire] = <<>> /\ Unanswered(up[SerialWire])'
<1> DEFINE s == up[SerialWire]
           t == Tail(s)
           d == push(decoder, Head(s))
<1>1. /\ s \in Seq(Byte) /\ s # <<>> /\ Sound(decoder) /\ deaf \in Nat /\ decoder.state # "Error"
      /\ up \in [Wires -> Seq(Byte)] /\ down \in [Wires -> Seq(Byte)] /\ SerialWire \in Wires
      /\ deaf > 0 => down[SerialWire] = <<>> /\ Unanswered(s)
  BY Constant DEF IngestSerial, DeafInv, Typed
<1>2. /\ UNCHANGED pc /\ up' = [up EXCEPT ![SerialWire] = t]
      /\ decoder' = (IF d.state = "Error" THEN reset(d) ELSE d)
      /\ IF d.state = "PacketAvailable"
         THEN Handle(SerialWire, GetPacket(d))
         ELSE UNCHANGED <<down, pending, log, deaf>>
  BY DEF IngestSerial, program
<1>3. deaf' = deaf /\ down' = down /\ d.state # "PacketAvailable" /\ deaf > 0
  <2> HIDE DEF d
  <2> QED BY <1>1, <1>2 DEF Handle
<1>4. up'[SerialWire] = t
  BY <1>1, <1>2
<1>5. /\ Head(s) = s[1] /\ Head(s) \in Byte /\ Len(s) \in Nat /\ 1 \in 1 .. Len(s)
      /\ Len(t) = Len(s) - 1 /\ Len(t) \in Nat /\ t \in Seq(Byte)
  <2> HIDE DEF s
  <2> QED BY <1>1
<1>6. PICK at, of : Pings(s, at, of) /\ Somewhere(s, Taken(s, at), of[1])
  BY <1>1, <1>3 DEF Unanswered
<1>7. PICK a \in [1 .. Len(t) -> 1 .. PingLength], o \in [1 .. Len(t) -> Programs] :
        /\ Pings(t, a, o)
        /\ at[1] = PingLength => Taken(t, a) = 0
        /\ at[1] # PingLength =>
             t # <<>> /\ Taken(t, a) = at[1] /\ a[1] = at[1] + 1 /\ o[1] = of[1]
  BY <1>1, <1>6, PingsTail
<1> DEFINE k == Taken(s, at)
           q == of[1]
<1> HIDE DEF s, t, d
<1>8. /\ q \in Programs /\ at[1] \in 1 .. PingLength /\ s[1] = Encode(Ping(q))[at[1]]
      /\ k = at[1] - 1 /\ at[1] \in Nat /\ k \in Nat /\ at[1] = k + 1
  <2>1. /\ at \in [1 .. Len(s) -> 1 .. PingLength] /\ of \in [1 .. Len(s) -> Programs]
        /\ s[1] = Encode(Ping(of[1]))[at[1]]
    BY <1>5, <1>6 DEF Pings
  <2>2. PingLength \in Nat
    BY PingIs
  <2>3. q \in Programs /\ at[1] \in 1 .. PingLength /\ at[1] \in Nat /\ at[1] >= 1
    BY <1>5, <2>1, <2>2
  <2>4. k = at[1] - 1
    BY <1>1 DEF Taken, s
  <2> HIDE DEF k
  <2> QED BY <2>1, <2>3, <2>4
<1>9. /\ PingLength \in Nat /\ PingLength >= 9
      /\ LET e == Encode(Ping(q))
         IN /\ Ping(q) \in Packet /\ Len(Ping(q).data) + 9 = PingLength
            /\ Len(Ping(q).data) <= MAX_DATA_LENGTH
            /\ e[1] = MAGIC_BEGIN_1 /\ e[2] = MAGIC_BEGIN_2 /\ e[PingLength] = MAGIC_END_2
            /\ \A i \in 2 .. PingLength - 1 : e[i] = MAGIC_BEGIN_1 => e[i + 1] # MAGIC_BEGIN_2
  BY <1>8, PingIs
<1>10. /\ Rounds \in Nat /\ BytesIn(deaf - 1) \in Nat /\ BytesIn(deaf) \in Nat /\ MAX_DATA_LENGTH \in Nat
  <2>1. deaf - 1 \in Nat
    BY <1>1, <1>3
  <2> QED BY <1>1, <2>1, RoundsAre, BytesMore
<1>11. Sound(d) /\ d = push(decoder, Encode(Ping(q))[k + 1]) /\ d = push(decoder, s[1])
  BY <1>1, <1>5, <1>8, PushIsSound DEF d, s
<1>12. PICK j : j = Taken(t, a)
  OBVIOUS
<1>13. SUFFICES Somewhere(up[SerialWire], j, o[1])'
  <2>1. down'[SerialWire] = <<>>
    BY <1>1, <1>3
  <2>2. Taken(up[SerialWire], a)' = j /\ Pings(up[SerialWire], a, o)'
    BY <1>4, <1>7, <1>12 DEF Taken, Pings
  <2>3. a \in [1 .. Len(up'[SerialWire]) -> 1 .. PingLength] /\ o \in [1 .. Len(up'[SerialWire]) -> Programs]
    BY <1>4, <1>7
  <2>4. Somewhere(up[SerialWire], j, o[1])' => Unanswered(up[SerialWire])'
    BY <2>2, <2>3 DEF Unanswered
  <2> QED BY <2>1, <2>4
<1>14. d.state # "Error" => decoder' = d
  BY <1>2
<1>15. d.state = "Error" => decoder'.state = "WaitForMagicBegin1"
  BY <1>2, <1>11 DEF reset, Sound, Decoder
<1>16. ASSUME d.state = "Error", deaf <= Rounds PROVE Somewhere(up[SerialWire], j, o[1])'
  <2>1. decoder'.state = "WaitForMagicBegin1" /\ deaf' <= Rounds /\ deaf' \in Nat
    BY <1>1, <1>3, <1>15, <1>16
  <2> QED BY <2>1, <1>10 DEF Somewhere, Searching, AtStart
<1>17. CASE Swallowing(s, k)
  <2>1. decoder.state = "WaitForMagicBegin2" => s[1] # MAGIC_BEGIN_2
    <3>1. decoder.state = "WaitForMagicBegin2" => at[1] = 1
      BY <1>8, <1>17 DEF Swallowing
    <3>2. at[1] = 1 => s[1] = MAGIC_BEGIN_1
      BY <1>8, <1>9
    <3> QED BY <3>1, <3>2 DEF MAGIC_BEGIN_1, MAGIC_BEGIN_2
  <2>2. \/ d.state = "Error"
        \/ /\ d.state \in InPacket /\ d.state # "WaitForMagicBegin2"
           /\ Left(d) \in Nat /\ Left(decoder) \in Nat /\ Left(d) < Left(decoder)
    BY <1>1, <1>3, <1>5, <1>11, <1>17, <2>1, OneLess DEF Swallowing
  <2>3. CASE d.state = "Error"
    BY <1>16, <1>17, <2>3 DEF Swallowing
  <2>4. CASE d.state # "Error"
    <3>1. /\ decoder' = d /\ deaf' = deaf /\ Pinging' = Pinging /\ up'[SerialWire] = t
      BY <1>2, <1>3, <1>4, <1>14, <2>4 DEF Pinging
    <3>2. /\ Left(d) + BytesIn(deaf - 1) <= MAX_DATA_LENGTH + 7 + Len(t)
          /\ Pinging => Left(d) + BytesIn(deaf) <= MAX_DATA_LENGTH + 7 + Len(t)
      BY <1>5, <1>10, <1>17, <2>2, <2>4 DEF Swallowing
    <3>3. d.state \in InPacket /\ d.state # "WaitForMagicBegin2" /\ deaf <= Rounds
      BY <1>17, <2>2, <2>4 DEF Swallowing
    <3>4. Swallowing(up[SerialWire], j)'
      BY <3>1, <3>2, <3>3 DEF Swallowing
    <3> QED BY <3>4 DEF Somewhere
  <2> QED BY <2>3, <2>4
<1>18. CASE Searching(s, k)
  <2>1. deaf <= Rounds /\ at[1] \in 2 .. PingLength
    BY <1>8, <1>18 DEF Searching
  <2>2. CASE decoder.state = "WaitForMagicBegin1" /\ s[1] = MAGIC_BEGIN_1
    <3>1. d.state = "WaitForMagicBegin2"
      BY <1>1, <1>11, <2>2, Pushing DEF Sound, Decoder
    <3>2. at[1] # PingLength
      BY <1>8, <1>9, <2>2 DEF MAGIC_BEGIN_1, MAGIC_END_2
    <3>3. t # <<>> /\ 1 \in 1 .. Len(t)
      <4>1. t # <<>>
        BY <1>7, <3>2
      <4> QED BY <1>5, <4>1
    <3>4. t[1] = Encode(Ping(q))[at[1] + 1] /\ j # 0
      BY <1>7, <1>8, <1>12, <3>2, <3>3 DEF Pings
    <3>5. t[1] # MAGIC_BEGIN_2
      <4>1. at[1] \in 2 .. PingLength - 1
        BY <1>9, <2>1, <3>2
      <4> QED BY <1>8, <1>9, <2>2, <3>4, <4>1
    <3>6. decoder' = d
      BY <1>14, <3>1
    <3>7. Searching(up[SerialWire], j)'
      BY <1>3, <1>4, <2>1, <3>1, <3>4, <3>5, <3>6 DEF Searching
    <3> QED BY <3>7 DEF Somewhere
  <2>3. CASE ~ (decoder.state = "WaitForMagicBegin1" /\ s[1] = MAGIC_BEGIN_1)
    <3>1. d.state = "Error"
      BY <1>1, <1>11, <1>18, <2>3, Pushing DEF Searching, Sound, Decoder
    <3> QED BY <1>16, <2>1, <3>1
  <2> QED BY <2>2, <2>3
<1>19. ASSUME Midway(decoder, Ping(q), k), deaf <= Rounds + 1 PROVE Somewhere(up[SerialWire], j, o[1])'
  <2>1. k # Len(Ping(q).data) + 9
    BY <1>8, <1>9
  <2>2. Midway(d, Ping(q), k + 1)
    <3>1. Len(Ping(q).data) \in Nat /\ MAX_DATA_LENGTH \in Nat
      BY <1>9, PacketFields, MaxDataLengthAssumption
    <3>2. ~ (Len(Ping(q).data) > MAX_DATA_LENGTH)
      BY <1>9, <3>1
    <3>3. Ping(q) \in Packet /\ Sound(decoder)
      BY <1>1, <1>9
    <3>4. Midway(push(decoder, Encode(Ping(q))[k + 1]), Ping(q), k + 1)
      BY <1>19, <2>1, <3>2, <3>3, OneByteMore
    <3> QED BY <1>11, <3>4
  <2>3. d.state # "Error" /\ k + 1 # Len(Ping(q).data) + 9
    BY <1>3, <1>9, <1>11, <2>2, LastByte
  <2>4. j = k + 1 /\ o[1] = q /\ k + 1 # 0
    BY <1>7, <1>8, <1>9, <1>12, <2>3
  <2>5. decoder' = d /\ deaf' = deaf
    BY <1>3, <1>14, <2>3
  <2>6. Midst(o[1], j)'
    BY <1>19, <2>2, <2>4, <2>5 DEF Midst
  <2> QED BY <2>6 DEF Somewhere
<1>20. CASE AtStart(s, k)
  <2>1. k = 0 /\ decoder.state \in {"WaitForMagicBegin1", "PacketAvailable"} /\ deaf <= Rounds + 1
    BY <1>20 DEF AtStart
  <2>2. Midway(decoder, Ping(q), k)
    <3>1. Len(Ping(q).data) \in Nat
      BY <1>9, PacketFields
    <3> QED BY <2>1, <3>1 DEF Midway, Stage
  <2> QED BY <1>19, <2>1, <2>2
<1>21. CASE Midst(q, k)
  BY <1>19, <1>21 DEF Midst
<1> QED BY <1>6, <1>17, <1>18, <1>20, <1>21 DEF Somewhere

LEMMA LeftIs ==
  ASSUME NEW d, Sound(d), d.state \in InPacket
  PROVE  Left(d) \in Nat /\ Left(d) >= 1 /\ Left(d) <= MAX_DATA_LENGTH + 7
<1>1. /\ Len(d.buf) \in Nat /\ d.length \in Nat /\ MAX_DATA_LENGTH \in Nat
      /\ d.state \in {"WaitForPacketType", "WaitForData"} => d.length <= MAX_DATA_LENGTH
      /\ d.state = "WaitForData" => Len(d.buf) < d.length
  BY WordIs, MaxDataLengthAssumption DEF Sound, Decoder
<1>2. CASE d.state = "WaitForData"
  BY <1>1, <1>2 DEF Left
<1>3. CASE d.state = "WaitForPacketType"
  BY <1>1, <1>3 DEF Left
<1>4. CASE d.state = "WaitForLength1"
  BY <1>1, <1>4 DEF Left
<1>5. CASE d.state = "WaitForLength2"
  BY <1>1, <1>5 DEF Left
<1>6. CASE d.state \in {"WaitForMagicBegin2", "WaitForChecksum1", "WaitForChecksum2",
                        "WaitForMagicEnd1", "WaitForMagicEnd2"}
  <2>1. Left(d) \in 1 .. 4
    BY <1>6 DEF Left
  <2> QED BY <1>1, <2>1
<1> QED BY <1>2, <1>3, <1>4, <1>5, <1>6 DEF InPacket

\* A program starts, and its ping goes behind the others.
LEMMA StartSerialKeeps ==
  ASSUME PlainPings, DeafInv, NEW p \in Programs, StartSerial(p), deaf' > 0
  PROVE  down'[SerialWire] = <<>> /\ Unanswered(up[SerialWire])'
<1> DEFINE s == up[SerialWire]
           t == s \o Encode(Ping(p))
           v == down[SerialWire]
<1>1. /\ link = "serial" /\ MayStart(p) /\ UNCHANGED <<decoder, deaf>> /\ deaf > 0 /\ deaf \in Nat
      /\ pc' = [pc EXCEPT ![p] = "ping"] /\ pc \in [Programs -> {"ping", "command", "idle", "done", "ended"}]
      /\ up \in [Wires -> Seq(Byte)] /\ down \in [Wires -> Seq(Byte)] /\ SerialWire \in Wires
      /\ Send(p, Ping(p)) /\ Alone
  BY Constant DEF StartSerial, DeafInv, Typed
<1>2. v = <<>> /\ s \in Seq(Byte) /\ Unanswered(s)
  BY <1>1 DEF DeafInv
<1>3. up' = [up EXCEPT ![SerialWire] = t]
  BY <1>1 DEF Send, Wire
<1>4. up'[SerialWire] = t
  BY <1>1, <1>3
<1>5. down'[SerialWire] = <<>>
  <2>1. PICK n \in 0 .. Len(v) : down' = [down EXCEPT ![SerialWire] = SubSeq(v, n + 1, Len(v))]
    BY DEF StartSerial
  <2>2. n = 0
    BY <1>2, <2>1
  <2>3. SubSeq(<<>>, 0 + 1, 0) = <<>>
    OBVIOUS
  <2> HIDE DEF v
  <2>4. SubSeq(v, n + 1, Len(v)) = <<>>
    BY <1>2, <2>2, <2>3
  <2> QED BY <1>1, <2>1, <2>4
<1>6. PICK at, of : Pings(s, at, of) /\ Somewhere(s, Taken(s, at), of[1])
  BY <1>2 DEF Unanswered
<1>7. Longer(t, s, at, of)
  BY <1>2, <1>6, PingsMore
<1>8. PICK a \in [1 .. Len(t) -> 1 .. PingLength], o \in [1 .. Len(t) -> Programs] :
        /\ Pings(t, a, o)
        /\ Taken(t, a) = Taken(s, at)
        /\ s # <<>> => o[1] = of[1]
  BY <1>7 DEF Longer
<1>9. Len(t) = Len(s) + PingLength /\ t # <<>> /\ (s # <<>> => t[1] = s[1])
  BY <1>7 DEF Longer
<1>10. PICK k : k = Taken(s, at)
  OBVIOUS
<1>11. k # 0 => s # <<>>
  BY <1>10 DEF Taken
<1> HIDE DEF s, t, v
<1>12. SUFFICES Somewhere(up[SerialWire], k, o[1])'
  <2>1. Taken(up[SerialWire], a)' = k /\ Pings(up[SerialWire], a, o)'
    BY <1>4, <1>8, <1>10 DEF Taken, Pings
  <2>2. a \in [1 .. Len(up'[SerialWire]) -> 1 .. PingLength] /\ o \in [1 .. Len(up'[SerialWire]) -> Programs]
    BY <1>4, <1>8
  <2>3. Somewhere(up[SerialWire], k, o[1])' => Unanswered(up[SerialWire])'
    BY <2>1, <2>2 DEF Unanswered
  <2> QED BY <1>5, <2>3
<1>13. CASE Swallowing(s, k)
  <2>1. /\ decoder.state \in InPacket /\ Sound(decoder)
        /\ decoder.state = "WaitForMagicBegin2" => k = 0
        /\ Left(decoder) + BytesIn(deaf - 1) <= MAX_DATA_LENGTH + 7 + Len(s)
        /\ deaf <= Rounds
    BY <1>13 DEF Swallowing, DeafInv, Typed
  <2>2. /\ BytesIn(deaf - 1) \in Nat /\ BytesIn(deaf) = BytesIn(deaf - 1) + PingLength
        /\ PingLength \in Nat
    <3>1. deaf - 1 \in Nat /\ (deaf - 1) + 1 = deaf
      BY <1>1
    <3> QED BY <3>1, BytesMore, PingIs
  <2>3. Left(decoder) \in Nat /\ Len(s) \in Nat /\ MAX_DATA_LENGTH \in Nat
    BY <1>2, <2>1, LeftIs, MaxDataLengthAssumption
  <2>4. /\ Left(decoder) + BytesIn(deaf - 1) <= MAX_DATA_LENGTH + 7 + Len(t)
        /\ Left(decoder) + BytesIn(deaf) <= MAX_DATA_LENGTH + 7 + Len(t)
    <3>1. \A l, b, m, n, k1, k2, k3 \in Nat :
            l + b <= m + 7 + n /\ k1 = b + k2 /\ k3 = n + k2 =>
              l + b <= m + 7 + k3 /\ l + k1 <= m + 7 + k3
      OBVIOUS
    <3>2. Len(t) = Len(s) + PingLength /\ Len(t) \in Nat /\ BytesIn(deaf) \in Nat
      BY <1>9, <2>2, <2>3
    <3>3. Left(decoder) + BytesIn(deaf - 1) <= MAX_DATA_LENGTH + 7 + Len(s)
      BY <2>1
    <3> QED BY ONLY <2>2, <2>3, <3>1, <3>2, <3>3
  <2>5. Swallowing(up[SerialWire], k)'
    BY <1>1, <1>4, <2>1, <2>4 DEF Swallowing
  <2> QED BY <2>5 DEF Somewhere
<1>14. CASE Searching(s, k)
  <2>1. Searching(up[SerialWire], k)'
    BY <1>1, <1>4, <1>9, <1>11, <1>14 DEF Searching
  <2> QED BY <2>1 DEF Somewhere
<1>15. CASE AtStart(s, k)
  <2>1. AtStart(up[SerialWire], k)'
    BY <1>1, <1>4, <1>9, <1>15 DEF AtStart
  <2> QED BY <2>1 DEF Somewhere
<1>16. CASE Midst(of[1], k)
  <2>1. o[1] = of[1]
    BY <1>8, <1>11, <1>16 DEF Midst
  <2>2. Midst(o[1], k)'
    BY <1>1, <1>16, <2>1 DEF Midst
  <2> QED BY <2>2 DEF Somewhere
<1> QED BY <1>6, <1>10, <1>13, <1>14, <1>15, <1>16 DEF Somewhere

\* A program whose ping is not all taken ends.
LEMMA EndKeeps ==
  ASSUME PlainPings, DeafInv, link = "serial", deaf > 0,
         UNCHANGED <<up, down, decoder, deaf>>, Pinging' => Pinging
  PROVE  down'[SerialWire] = <<>> /\ Unanswered(up[SerialWire])'
<1> DEFINE s == up[SerialWire]
<1>1. down[SerialWire] = <<>> /\ Unanswered(s)
  BY DEF DeafInv
<1>2. PICK at \in [1 .. Len(s) -> 1 .. PingLength], of \in [1 .. Len(s) -> Programs] :
        Pings(s, at, of) /\ Somewhere(s, Taken(s, at), of[1])
  BY <1>1 DEF Unanswered
<1>3. PICK k : k = Taken(s, at)
  OBVIOUS
<1>4. up'[SerialWire] = s
  OBVIOUS
<1> HIDE DEF s
<1>5. Somewhere(up[SerialWire], k, of[1])'
  <2>1. Swallowing(s, k) => Swallowing(up[SerialWire], k)'
    BY <1>4 DEF Swallowing
  <2>2. Searching(s, k) => Searching(up[SerialWire], k)'
    BY <1>4 DEF Searching
  <2>3. AtStart(s, k) => AtStart(up[SerialWire], k)'
    BY <1>4 DEF AtStart
  <2>4. Midst(of[1], k) => Midst(of[1], k)'
    BY DEF Midst
  <2> QED BY <1>2, <1>3, <2>1, <2>2, <2>3, <2>4 DEF Somewhere
<1>6. Taken(up[SerialWire], at)' = k /\ Pings(up[SerialWire], at, of)'
  BY <1>2, <1>3, <1>4 DEF Taken, Pings
<1>7. at \in [1 .. Len(up'[SerialWire]) -> 1 .. PingLength] /\ of \in [1 .. Len(up'[SerialWire]) -> Programs]
  BY <1>2, <1>4
<1>8. Unanswered(up[SerialWire])'
  BY <1>5, <1>6, <1>7 DEF Unanswered
<1> QED BY <1>1, <1>8

\* A program ends that got no answer to a ping that was taken.
LEMMA OneMore ==
  ASSUME PlainPings, DeafInv, link = "serial",
         up[SerialWire] = <<>>, down[SerialWire] = <<>>, UNCHANGED <<up, down, decoder>>,
         Pinging, ~ Pinging', deaf' = deaf + 1
  PROVE  down'[SerialWire] = <<>> /\ Unanswered(up[SerialWire])'
<1>1. Sound(decoder) /\ decoder.state # "Error" /\ deaf \in Nat /\ decoder.state \in State
  BY DEF DeafInv, Typed, Sound, Decoder
<1>2. /\ Rounds \in Nat /\ Rounds >= 1 /\ MAX_DATA_LENGTH \in Nat
      /\ PingLength \in Nat /\ BytesIn(deaf) \in Nat /\ BytesIn(0) = 0
      /\ BytesIn(deaf) <= MAX_DATA_LENGTH + 6 => deaf + 1 <= Rounds
  BY <1>1, PingIs, RoundsAre, BytesMore
<1>3. decoder.state \in InPacket \/ decoder.state \in {"WaitForMagicBegin1", "PacketAvailable"}
  BY <1>1, States DEF InPacket
<1>4. /\ Len(<<>>) = 0 /\ up'[SerialWire] = <<>> /\ down'[SerialWire] = <<>>
  OBVIOUS
<1>5. \/ /\ decoder.state \in InPacket
         /\ Left(decoder) + BytesIn(deaf) <= MAX_DATA_LENGTH + 7 + 0 /\ deaf + 1 <= Rounds
      \/ decoder.state \in {"WaitForMagicBegin1", "PacketAvailable"} /\ deaf + 1 <= Rounds + 1
  <2>1. CASE deaf = 0
    <3>1. decoder.state \in InPacket => Left(decoder) \in Nat /\ Left(decoder) <= MAX_DATA_LENGTH + 7
      BY <1>1, LeftIs
    <3> QED BY <1>2, <1>3, <2>1, <3>1
  <2>2. CASE deaf > 0
    <3>1. PICK at, of : Somewhere(<<>>, Taken(<<>>, at), of[1])
      BY <2>2 DEF DeafInv, Unanswered
    <3>2. Taken(<<>>, at) = 0
      BY DEF Taken
    <3>3. Swallowing(<<>>, 0) \/ AtStart(<<>>, 0)
      BY <3>1, <3>2 DEF Somewhere, Searching, Midst
    <3>4. CASE Swallowing(<<>>, 0)
      <4>1. decoder.state \in InPacket /\ Left(decoder) + BytesIn(deaf) <= MAX_DATA_LENGTH + 7 + 0
        BY <1>4, <3>4 DEF Swallowing
      <4>2. Left(decoder) \in Nat /\ Left(decoder) >= 1
        BY <1>1, <4>1, LeftIs
      <4> QED BY <1>2, <4>1, <4>2
    <3>5. CASE AtStart(<<>>, 0)
      <4>1. decoder.state \in {"WaitForMagicBegin1", "PacketAvailable"} /\ deaf <= Rounds
        BY <3>5 DEF AtStart
      <4> QED BY <1>1, <1>2, <4>1
    <3> QED BY <3>3, <3>4, <3>5
  <2> QED BY <1>1, <2>1, <2>2
<1>6. Swallowing(up[SerialWire], 0)' \/ AtStart(up[SerialWire], 0)'
  <2>1. /\ decoder' = decoder /\ deaf' = deaf + 1 /\ deaf' - 1 = deaf /\ ~ Pinging'
        /\ up'[SerialWire] = <<>> /\ Len(up'[SerialWire]) = 0
    BY <1>1, <1>4
  <2>2. CASE /\ decoder.state \in InPacket
             /\ Left(decoder) + BytesIn(deaf) <= MAX_DATA_LENGTH + 7 + 0 /\ deaf + 1 <= Rounds
    <3>1. Swallowing(up[SerialWire], 0)'
      BY <2>1, <2>2 DEF Swallowing
    <3> QED BY <3>1
  <2>3. CASE decoder.state \in {"WaitForMagicBegin1", "PacketAvailable"} /\ deaf + 1 <= Rounds + 1
    <3>1. AtStart(up[SerialWire], 0)'
      BY <2>1, <2>3 DEF AtStart
    <3> QED BY <3>1
  <2> QED BY <1>5, <2>2, <2>3
<1>7. PICK at, of : /\ at \in [1 .. 0 -> 1 .. PingLength] /\ of \in [1 .. 0 -> Programs]
  <2>1. 1 \in Programs /\ 1 \in 1 .. PingLength
    BY PingIs, NumProgramsAssumption DEF Programs
  <2>2. [i \in 1 .. 0 |-> 1] \in [1 .. 0 -> 1 .. PingLength] /\ [i \in 1 .. 0 |-> 1] \in [1 .. 0 -> Programs]
    BY <2>1
  <2> QED BY <2>2
<1>8. Pings(<<>>, at, of) /\ Taken(<<>>, at) = 0
  BY <1>4, <1>7 DEF Pings, Taken
<1>9. Pings(up[SerialWire], at, of)' /\ Taken(up[SerialWire], at)' = 0
  BY <1>4, <1>8 DEF Pings, Taken
<1>10. Somewhere(up[SerialWire], Taken(up[SerialWire], at), of[1])'
  BY <1>6, <1>9 DEF Somewhere
<1>11. at \in [1 .. Len(up'[SerialWire]) -> 1 .. PingLength] /\ of \in [1 .. Len(up'[SerialWire]) -> Programs]
  BY <1>4, <1>7
<1>12. Unanswered(up[SerialWire])'
  BY <1>9, <1>10, <1>11 DEF Unanswered
<1> QED BY <1>4, <1>12

\* One program at a time: the others wait, or have ended.
LEMMA NextAlone ==
  ASSUME DeafInv, link = "serial", [Next]_vars
  PROVE  /\ Alone' /\ link' = "serial" /\ \A p \in Programs : pcb'[p] = "none"
         /\ decoder'.state # "Error"
<1>1. /\ Alone /\ \A p \in Programs : pcb[p] = "none"
      /\ pc \in [Programs -> {"ping", "command", "idle", "done", "ended"}]
      /\ decoder.state # "Error" /\ Programs \subseteq Nat
  BY NumProgramsAssumption DEF DeafInv, Typed, Programs
<1>2. \A p \in Programs : ~ StartTcp(p) /\ ~ OnRecv(p) /\ ~ OnFin(p)
  BY <1>1 DEF StartTcp, OnRecv, OnFin
<1>3. UNCHANGED <<link, pcb>>
  BY <1>2 DEF Next, vars, StartSerial, Receive, ReceiveError, SeeReset, Kill, KillMidPacket, connections,
              IngestSerial, LoseUp, LoseDown, Stray, Disturb
<1>4. decoder'.state # "Error"
  <2>1. CASE IngestSerial
    <3> DEFINE d == push(decoder, Head(up[SerialWire]))
    <3>1. decoder' = IF d.state = "Error" THEN reset(d) ELSE d
      BY <2>1 DEF IngestSerial
    <3>2. Sound(decoder)'
      <4>1. Typed'
        BY NextTyped DEF DeafInv
      <4> QED BY <4>1 DEF Typed
    <3> HIDE DEF d
    <3>3. CASE d.state = "Error"
      <4>1. decoder' = [d EXCEPT !.state = "WaitForMagicBegin1"]
        BY <3>1, <3>3 DEF reset
      <4>2. DOMAIN decoder' = DOMAIN d /\ "state" \in DOMAIN decoder'
        BY <3>2, <4>1 DEF Sound, Decoder
      <4> QED BY <4>1, <4>2
    <3> QED BY <3>1, <3>3
  <2>2. CASE ~ IngestSerial
    <3>1. UNCHANGED decoder
      BY <1>2, <2>2 DEF Next, vars, StartSerial, Receive, ReceiveError, SeeReset, Kill, KillMidPacket,
                        LoseUp, LoseDown, Stray, Disturb
    <3> QED BY <1>1, <3>1
  <2> QED BY <2>1, <2>2
<1>5. CASE \E p \in Programs : StartSerial(p)
  <2>1. PICK p \in Programs : StartSerial(p)
    BY <1>5
  <2>2. /\ pc' = [pc EXCEPT ![p] = "ping"] /\ pc[p] = "idle" /\ p \in Nat
        /\ \A q \in 1 .. p - 1 : pc[q] # "idle" /\ ~ IsActive(q)
    BY <1>1, <2>1 DEF StartSerial, MayStart
  <2>3. \A q \in Programs : q < p => q \in 1 .. p - 1
    BY <1>1, <2>2 DEF Programs
  <2>4. \A q \in Programs : (q < p => pc[q] # "idle" /\ ~ IsActive(q)) /\ (p < q => pc[q] = "idle")
    BY <2>2, <2>3, <1>1 DEF Alone
  <2>5. \A q \in Programs : q # p => pc'[q] = pc[q] /\ ~ IsActive(q)'
    <3> TAKE q \in Programs
    <3> HAVE q # p
    <3>1. q < p \/ p < q
      BY <1>1, <2>2
    <3>2. ~ IsActive(q)
      BY <2>4, <3>1 DEF IsActive, Active
    <3> QED BY <1>1, <2>2, <3>2 DEF IsActive
  <2>6. pc'[p] = "ping"
    BY <1>1, <2>2
  <2>7. ASSUME NEW q \in Programs, NEW r \in Programs, pc'[q] = "idle", q < r PROVE pc'[r] = "idle"
    <3>1. q # p
      BY <2>6, <2>7
    <3>2. pc[q] = "idle" /\ ~ (q < p)
      BY <2>4, <2>5, <2>7, <3>1
    <3>3. p < r /\ r # p
      BY <1>1, <2>2, <2>7, <3>1, <3>2
    <3> QED BY <2>4, <2>5, <3>3
  <2>8. Alone'
    BY <2>5, <2>7 DEF Alone
  <2> QED BY <1>1, <1>3, <1>4, <2>8
<1>6. CASE ~ \E p \in Programs : StartSerial(p)
  <2>1. \/ UNCHANGED pc
        \/ \E p \in Programs :
             IsActive(p) /\ \E x \in {"command", "done", "ended"} : pc' = [pc EXCEPT ![p] = x]
    <3>1. CASE \E p \in Programs :
                 Receive(p) \/ ReceiveError(p) \/ SeeReset(p) \/ Kill(p) \/ KillMidPacket(p)
      BY <3>1 DEF Receive, ReceiveError, SeeReset, Kill, KillMidPacket, Proceed, End
    <3>2. CASE ~ \E p \in Programs :
                 Receive(p) \/ ReceiveError(p) \/ SeeReset(p) \/ Kill(p) \/ KillMidPacket(p)
      BY <1>2, <1>6, <3>2 DEF Next, vars, program, IngestSerial, LoseUp, LoseDown, Stray, Disturb
    <3> QED BY <3>1, <3>2
  <2>2. CASE UNCHANGED pc
    <3>1. Alone'
      BY <1>1, <2>2 DEF Alone, IsActive
    <3> QED BY <1>1, <1>3, <1>4, <3>1
  <2>3. CASE \E p \in Programs :
               IsActive(p) /\ \E x \in {"command", "done", "ended"} : pc' = [pc EXCEPT ![p] = x]
    <3>1. PICK p \in Programs, x \in {"command", "done", "ended"} : IsActive(p) /\ pc' = [pc EXCEPT ![p] = x]
      BY <2>3
    <3>2. pc'[p] = x /\ pc[p] # "idle" /\ \A q \in Programs : q # p => pc'[q] = pc[q]
      BY <1>1, <3>1 DEF IsActive, Active
    <3>3. \A q \in Programs : (pc'[q] = "idle" <=> pc[q] = "idle") /\ (IsActive(q)' => IsActive(q))
      <4> TAKE q \in Programs
      <4>1. CASE q = p
        BY <3>1, <3>2, <4>1
      <4>2. CASE q # p
        BY <3>2, <4>2 DEF IsActive
      <4> QED BY <4>1, <4>2
    <3>4. Alone'
      BY <1>1, <3>3 DEF Alone
    <3> QED BY <1>1, <1>3, <1>4, <3>4
  <2> QED BY <2>1, <2>2, <2>3
<1> QED BY <1>5, <1>6

LEMMA NextDeaf ==
  ASSUME PlainPings, DeafInv, [Next]_vars
  PROVE  DeafInv'
<1>1. Typed' /\ link' = link /\ deaf \in Nat /\ link \in {"serial", "tcp"}
  <2>1. link' = link
    BY DEF Next, vars, StartSerial, StartTcp, Receive, ReceiveError, SeeReset, Kill, KillMidPacket, OnRecv,
           OnFin, IngestSerial, LoseUp, LoseDown, Stray, Disturb
  <2> QED BY <2>1, NextTyped DEF DeafInv, Typed
<1>2. \/ \E p \in Programs : Kill(p)
      \/ IngestSerial
      \/ deaf' = deaf \/ deaf' = 0
  BY DEF Next, vars, history, StartSerial, StartTcp, Receive, ReceiveError, SeeReset, KillMidPacket, OnRecv,
         Handle, OnFin, LoseUp, LoseDown, Stray, Disturb
<1>3. CASE link = "tcp"
  <2>1. deaf = 0 /\ ~ IngestSerial
    BY <1>3 DEF DeafInv, IngestSerial
  <2>2. \A p \in Programs : Kill(p) => deaf' = deaf
    BY <1>3 DEF Kill
  <2> QED BY <1>1, <1>2, <1>3, <2>1, <2>2 DEF DeafInv
<1>4. CASE link = "serial"
  <2>1. Alone' /\ link' = "serial" /\ (\A p \in Programs : pcb'[p] = "none") /\ decoder'.state # "Error"
    BY <1>4, NextAlone
  <2>2. SUFFICES ASSUME deaf' > 0 PROVE down'[SerialWire] = <<>> /\ Unanswered(up[SerialWire])'
    BY <1>1, <2>1 DEF DeafInv
  <2>3. CASE IngestSerial
    BY <2>2, <2>3, IngestKeeps
  <2>4. CASE \E p \in Programs : StartSerial(p)
    BY <2>2, <2>4, StartSerialKeeps
  <2>5. CASE \E p \in Programs : Kill(p)
    <3>1. PICK p \in Programs : Kill(p)
      BY <2>5
    <3>2. /\ UNCHANGED <<up, down, decoder>> /\ pc' = [pc EXCEPT ![p] = "ended"]
          /\ pc \in [Programs -> {"ping", "command", "idle", "done", "ended"}]
      BY <3>1 DEF Kill, End, DeafInv, Typed
    <3>3. Pinging' => Pinging
      BY <3>2 DEF Pinging
    <3>4. CASE pc[p] = "ping" /\ up[SerialWire] = <<>> /\ down[SerialWire] = <<>>
      <4>1. deaf' = deaf + 1 /\ Pinging
        BY <1>4, <3>1, <3>4 DEF Kill, Pinging
      <4>2. \A q \in Programs : pc[q] = "ping" => q = p
        BY <1>4, <3>4 DEF DeafInv, Alone, IsActive, Active
      <4>3. ~ Pinging'
        BY <3>2, <4>2 DEF Pinging
      <4> QED BY <1>4, <3>2, <3>4, <4>1, <4>3, OneMore
    <3>5. CASE ~ (pc[p] = "ping" /\ up[SerialWire] = <<>> /\ down[SerialWire] = <<>>)
      <4>1. deaf' = deaf
        BY <3>1, <3>5 DEF Kill
      <4> QED BY <1>4, <2>2, <3>2, <3>3, <4>1, EndKeeps
    <3> QED BY <3>4, <3>5
  <2>6. CASE ~ IngestSerial /\ ~ \E p \in Programs : StartSerial(p) \/ Kill(p)
    <3>1. deaf' = deaf /\ deaf > 0
      BY <1>1, <1>2, <2>2, <2>6
    <3>2. down[SerialWire] = <<>> /\ (\A p \in Programs : pcb[p] = "none")
          /\ pc \in [Programs -> {"ping", "command", "idle", "done", "ended"}]
      BY <1>4, <3>1 DEF DeafInv, Typed
    <3>3. \A p \in Programs : ~ Receive(p) /\ ~ ReceiveError(p)
      <4>1. Len(<<>>) = 0
        OBVIOUS
      <4> QED BY <1>4, <3>2, <4>1 DEF Receive, ReceiveError, Wire, Header
    <3>4. \A p \in Programs : ~ SeeReset(p) /\ ~ OnRecv(p) /\ ~ OnFin(p) /\ ~ StartTcp(p)
      BY <1>4, <3>2 DEF SeeReset, OnRecv, OnFin, StartTcp
    <3>5. ~ LoseUp /\ ~ LoseDown /\ (\A byte \in StrayBytes : ~ Stray(byte))
          /\ (\A p \in Programs : ~ KillMidPacket(p))
      BY <2>2 DEF LoseUp, LoseDown, Stray, Disturb, KillMidPacket
    <3>6. UNCHANGED vars
      BY <2>6, <3>3, <3>4, <3>5 DEF Next
    <3>7. UNCHANGED <<up, down, decoder, deaf>> /\ (Pinging' => Pinging)
      BY <3>6 DEF vars, Pinging
    <3> QED BY <1>4, <3>1, <3>7, EndKeeps
  <2> QED BY <2>3, <2>4, <2>5, <2>6
<1> QED BY <1>1, <1>3, <1>4

LEMMA InitDeaf == ASSUME Init PROVE DeafInv
<1>1. Typed /\ deaf = 0
  BY InitTyped DEF Init
<1>2. \A p \in Programs : pcb[p] = "none" /\ pc[p] = "idle"
  BY DEF Init
<1>3. decoder.state # "Error"
  BY DEF Init, NewDecoder
<1>4. Alone
  BY <1>2 DEF Alone, IsActive, Active
<1> QED BY <1>1, <1>2, <1>3, <1>4 DEF DeafInv

\* Whatever was lost on the serial link, and wherever programs were killed, the decoder
\* finds its step again: with no new fault, no more pings in a row go without an answer
\* than fit in what it may take for the rest of a packet, and two (BoundedDeafness).
THEOREM Deafness == ASSUME PlainPings PROVE Spec => []BoundedDeafness
<1>1. Init => DeafInv
  BY InitDeaf
<1>2. DeafInv /\ [Next]_vars => DeafInv'
  BY NextDeaf
<1>3. DeafInv => BoundedDeafness
  <2> SUFFICES ASSUME DeafInv PROVE deaf <= MaxDeaf
    BY DEF BoundedDeafness
  <2>1. MaxDeaf = Rounds + 1 /\ Rounds \in Nat
    BY RoundsAre
  <2>2. deaf \in Nat /\ link \in {"serial", "tcp"}
    BY DEF DeafInv, Typed
  <2>3. CASE deaf > 0
    <3>1. Unanswered(up[SerialWire])
      BY <2>2, <2>3 DEF DeafInv
    <3>2. deaf <= Rounds \/ deaf <= Rounds + 1
      BY <3>1 DEF Unanswered, Somewhere, Swallowing, Searching, AtStart, Midst
    <3> QED BY <2>1, <2>2, <3>2
  <2>4. CASE ~ (deaf > 0)
    BY <2>1, <2>2, <2>4
  <2> QED BY <2>3, <2>4
<1> QED BY <1>1, <1>2, <1>3, PTL DEF Spec
=============================================================================
