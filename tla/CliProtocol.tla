----------------------------- MODULE CliProtocol -----------------------------
(***************************************************************************)
(* The packets that rom-emulator-cli.py and the firmware exchange, as      *)
(* bytes on a link: the checksum, the encoder, and the decoder that the    *)
(* firmware feeds one byte at a time (cli-protocol.cpp). Packets are       *)
(*   begin magic (2), length (2), type (1), data, checksum (2), end magic  *)
(* and nothing keeps data from looking like any other part.                *)
(***************************************************************************)
EXTENDS Naturals, Sequences, SequencesExt

CONSTANT MAX_DATA_LENGTH

ASSUME MaxDataLengthAssumption == MAX_DATA_LENGTH \in 1 .. 2^16 - 1

MAGIC_BEGIN_1 == 167
MAGIC_BEGIN_2 == 92
MAGIC_END_1 == 225
MAGIC_END_2 == 109
PING == 0
WRITE_DATA == 4

Byte == 0 .. 255
Word == 0 .. 2^16 - 1

\* The length of the data is sent in two bytes.
Data == {data \in Seq(Byte) : Len(data) \in Word}
Packet == [type : Byte, data : Data]

-----------------------------------------------------------------------------
(* The checksum, CRC-16 with polynomial x^16 + x^12 + x^5 + 1.             *)

Bit(v, k) == (v \div 2^k) % 2
Flip(v, k) == IF Bit(v, k) = 1 THEN v - 2^k ELSE v + 2^k
Xor(a, b) ==
  LET low[k \in 0 .. 8] ==
        IF k = 0 THEN 0 ELSE low[k - 1] + 2^(k - 1) * ((Bit(a, k - 1) + Bit(b, k - 1)) % 2)
  IN low[8]
ReplyType(type) == Flip(type, 7)

\* One turn of the loop: the bit shifted out says whether to subtract the polynomial.
Shift(crc) ==
  IF Bit(crc, 15) = 1 THEN Flip(Flip(Flip((2 * crc) % 2^16, 0), 5), 12) ELSE 2 * crc
crc16_step(value, crc) ==
  LET turn[c \in Word] == Shift(c)
  IN turn[turn[turn[turn[turn[turn[turn[turn[
       256 * Xor(value, crc \div 256) + (crc % 256)]]]]]]]]

Checksum(bytes) ==
  LET after[n \in 0 .. Len(bytes)] ==
        IF n = 0 THEN 0 ELSE [crc \in Word |-> crc16_step(bytes[n], crc)][after[n - 1]]
  IN after[Len(bytes)]

-----------------------------------------------------------------------------
(* The encoder. Both ends build packets in the same way.                   *)

Low(word) == word % 256
High(word) == word \div 256

Footer(body) ==
  LET with[crc \in Word] == <<Low(crc), High(crc), MAGIC_END_1, MAGIC_END_2>>
  IN with[Checksum(body)]
Encode(packet) ==
  LET body == <<Low(Len(packet.data)), High(Len(packet.data)), packet.type>> \o packet.data
  IN <<MAGIC_BEGIN_1, MAGIC_BEGIN_2>> \o body \o Footer(body)

-----------------------------------------------------------------------------
(* The decoder. The bytes that can be foretold are matched one after the   *)
(* other; the others are stored. A mismatch leaves it in Error.            *)

AfterMatch == [
  WaitForMagicBegin1 |-> "WaitForMagicBegin2",
  PacketAvailable    |-> "WaitForMagicBegin2",
  WaitForMagicBegin2 |-> "WaitForLength1",
  WaitForChecksum1   |-> "WaitForChecksum2",
  WaitForChecksum2   |-> "WaitForMagicEnd1",
  WaitForMagicEnd1   |-> "WaitForMagicEnd2",
  WaitForMagicEnd2   |-> "PacketAvailable"]

State == DOMAIN AfterMatch
           \cup {"WaitForLength1", "WaitForLength2", "WaitForPacketType", "WaitForData", "Error"}

Expected(d) == [
  WaitForMagicBegin1 |-> MAGIC_BEGIN_1,
  PacketAvailable    |-> MAGIC_BEGIN_1,
  WaitForMagicBegin2 |-> MAGIC_BEGIN_2,
  WaitForChecksum1   |-> Low(d.crc),
  WaitForChecksum2   |-> High(d.crc),
  WaitForMagicEnd1   |-> MAGIC_END_1,
  WaitForMagicEnd2   |-> MAGIC_END_2]

\* buf holds what is stored of it so far: its length is pos. What the fields
\* hold before the first packet is never used.
Decoder == [state : State, packet_type : Byte, length : Word, crc : Word, buf : Seq(Byte)]
NewDecoder ==
  [state |-> "WaitForMagicBegin1", packet_type |-> 0, length |-> 0, crc |-> 0, buf |-> <<>>]

NoReset(d) == d  \* mutated
reset(d) == [d EXCEPT !.state = "WaitForMagicBegin1"]

Match(d, byte) ==
  [d EXCEPT !.state = IF byte = Expected(d)[d.state] THEN AfterMatch[d.state] ELSE "Error"]

PushLength1(d, byte) ==
  [d EXCEPT !.state = "WaitForLength2", !.length = byte, !.crc = crc16_step(byte, 0)]

PushLength2Strictly(d, byte) ==  \* mutated: the longest packet is rejected
  LET length == d.length + 256 * byte
  IN [d EXCEPT !.state = IF length < MAX_DATA_LENGTH THEN "WaitForPacketType" ELSE "Error",
               !.length = length,
               !.crc = crc16_step(byte, @)]
PushLength2(d, byte) ==
  LET length == d.length + 256 * byte
  IN [d EXCEPT !.state = IF length <= MAX_DATA_LENGTH THEN "WaitForPacketType" ELSE "Error",
               !.length = length,
               !.crc = crc16_step(byte, @)]

PushPacketTypeKeepingPos(d, byte) ==  \* mutated: pos is not set to 0
  [d EXCEPT !.state = IF d.length # 0 THEN "WaitForData" ELSE "WaitForChecksum1",
            !.packet_type = byte,
            !.crc = crc16_step(byte, @)]
PushPacketType(d, byte) ==
  [d EXCEPT !.state = IF d.length # 0 THEN "WaitForData" ELSE "WaitForChecksum1",
            !.packet_type = byte,
            !.buf = <<>>,
            !.crc = crc16_step(byte, @)]

PushDataUnchecked(d, byte) ==  \* mutated: the footer is not looked at
  [d EXCEPT !.state = IF Len(d.buf) + 1 = d.length THEN "PacketAvailable" ELSE @,
            !.buf = Append(@, byte)]
PushData(d, byte) ==
  [d EXCEPT !.state = IF Len(d.buf) + 1 = d.length THEN "WaitForChecksum1" ELSE @,
            !.buf = Append(@, byte),
            !.crc = crc16_step(byte, @)]

push(d, byte) ==
  CASE d.state \in DOMAIN AfterMatch     -> Match(d, byte)
    [] d.state = "WaitForLength1"        -> PushLength1(d, byte)
    [] d.state = "WaitForLength2"        -> PushLength2(d, byte)
    [] d.state = "WaitForPacketType"     -> PushPacketType(d, byte)
    [] d.state = "WaitForData"           -> PushData(d, byte)
    [] d.state = "Error"                 -> d

GetPacket(d) == [type |-> d.packet_type, data |-> d.buf]
=============================================================================
