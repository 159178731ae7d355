-------------------------- MODULE CliProtocol_proofs --------------------------
(***************************************************************************)
(* Theorems about the packet codec, for every maximum length of data and   *)
(* all packets: the decoder undoes the encoder.                            *)
(*                                                                         *)
(* The checksum is a loop over the bytes, and the decoder another: what    *)
(* they come to after n turns is shown for all n by looking at the first   *)
(* n for which it fails. That there is a first one is the well-foundedness *)
(* of the natural numbers (LeastElement), and that a loop comes to         *)
(* anything is LoopExists.                                                 *)
(***************************************************************************)
EXTENDS CliProtocol, TLAPS, WellFoundedInduction, SequenceTheorems

-----------------------------------------------------------------------------
(* Loops.                                                                  *)

Less == {pair \in Nat \X Nat : pair[1] < pair[2]}

LEMMA LeastElement ==
  ASSUME NEW T \in SUBSET Nat, T # {}
  PROVE  \E x \in T : \A y \in T : x <= y
<1>1. IsWellFoundedOn(Less, Nat)
  BY NatLessThanWellFounded DEF OpToRel, Less
<1>2. PICK x \in T : \A y \in T : <<y, x>> \notin Less
  BY <1>1, WFMin
<1>3. \A y \in T : ~ (y < x)
  BY <1>2 DEF Less
<1>4. \A y \in T : x \in Nat /\ y \in Nat
  OBVIOUS
<1> QED BY <1>3, <1>4

\* A loop of n turns, each taking a value of S to another: the values it goes through.
Loops(n, start, turn, f, S) ==
  /\ f \in [0 .. n -> S]
  /\ f[0] = start
  /\ \A k \in 1 .. n : f[k] = turn[k][f[k - 1]]

LEMMA LoopExists ==
  ASSUME NEW S, NEW N \in Nat, NEW start \in S, NEW turn \in [1 .. N -> [S -> S]]
  PROVE  \E f : Loops(N, start, turn, f, S)
<1> DEFINE T == {n \in 0 .. N : ~ \E f : Loops(n, start, turn, f, S)}
<1>1. CASE T = {}
  <2>1. N \in 0 .. N /\ N \notin T
    BY <1>1
  <2> QED BY <2>1
<1>2. CASE T # {}
  <2>1. PICK n \in T : \A m \in T : n <= m
    <3> DEFINE U == T
    <3>1. U \in SUBSET Nat /\ U # {}
      BY <1>2
    <3> HIDE DEF U
    <3>2. \E n \in U : \A m \in U : n <= m
      BY <3>1, LeastElement
    <3> QED BY <3>2 DEF U
  <2>2. n \in 0 .. N /\ ~ \E f : Loops(n, start, turn, f, S)
    BY <2>1
  <2>3. n # 0
    <3>1. Loops(0, start, turn, [k \in 0 .. 0 |-> start], S)
      BY DEF Loops
    <3> QED BY <3>1, <2>2
  <2>4. n - 1 \in 0 .. N /\ n - 1 \notin T
    BY <2>1, <2>2, <2>3
  <2>5. PICK f : Loops(n - 1, start, turn, f, S)
    BY <2>4
  <2> DEFINE g == [k \in 0 .. n |-> IF k = n THEN turn[n][f[n - 1]] ELSE f[k]]
  <2>6. f[n - 1] \in S
    BY <2>5, <2>2, <2>3 DEF Loops
  <2>7. turn[n][f[n - 1]] \in S
    BY <2>6, <2>2, <2>3
  <2>8. Loops(n, start, turn, g, S)
    <3>1. \A k \in 0 .. n : k # n => k \in 0 .. n - 1 /\ f[k] \in S
      BY <2>2, <2>5 DEF Loops
    <3>2. g \in [0 .. n -> S]
      BY <3>1, <2>7, <2>2
    <3>3. g[0] = start
      BY <2>2, <2>3, <2>5 DEF Loops
    <3>4. \A k \in 1 .. n : g[k] = turn[k][g[k - 1]]
      <4> TAKE k \in 1 .. n
      <4>1. k - 1 \in 0 .. n /\ k - 1 # n /\ k \in 0 .. n
        BY <2>2
      <4>2. g[k - 1] = f[k - 1]
        BY <4>1
      <4>3. CASE k = n
        BY <4>1, <4>2, <4>3
      <4>4. CASE k # n
        <5>1. k \in 1 .. n - 1
          BY <4>4, <2>2
        <5>2. f[k] = turn[k][f[k - 1]]
          BY <5>1, <2>5 DEF Loops
        <5> QED BY <5>2, <4>1, <4>2, <4>4
      <4> QED BY <4>3, <4>4
    <3> QED BY <3>2, <3>3, <3>4 DEF Loops
  <2> QED BY <2>8, <2>2
<1> QED BY <1>1, <1>2

-----------------------------------------------------------------------------
LEMMA Powers ==
  /\ 2^0 = 1 /\ 2^1 = 2 /\ 2^2 = 4 /\ 2^3 = 8 /\ 2^4 = 16 /\ 2^5 = 32 /\ 2^6 = 64
  /\ 2^7 = 128 /\ 2^8 = 256 /\ 2^12 = 4096 /\ 2^15 = 32768 /\ 2^16 = 65536
OBVIOUS

LEMMA WordIs == \A x : x \in Word <=> x \in Nat /\ x <= 65535
BY Powers DEF Word

LEMMA ByteIs == \A x : x \in Byte <=> x \in Nat /\ x <= 255
BY DEF Byte

LEMMA FlipWord ==
  ASSUME NEW v \in Word
  PROVE  Flip(v, 0) \in Word /\ Flip(v, 5) \in Word /\ Flip(v, 12) \in Word
<1>1. v \in Nat /\ v <= 65535
  BY WordIs
<1>2. Flip(v, 0) \in Nat /\ Flip(v, 0) <= 65535
  BY <1>1, Powers DEF Flip, Bit
<1>3. Flip(v, 5) \in Nat /\ Flip(v, 5) <= 65535
  BY <1>1, Powers DEF Flip, Bit
<1>4. Flip(v, 12) \in Nat /\ Flip(v, 12) <= 65535
  BY <1>1, Powers DEF Flip, Bit
<1> QED BY <1>2, <1>3, <1>4, WordIs

LEMMA ShiftWord == ASSUME NEW crc \in Word PROVE Shift(crc) \in Word
<1>1. crc \in Nat /\ crc <= 65535
  BY WordIs
<1>2. CASE Bit(crc, 15) = 1
  <2>1. Shift(crc) = Flip(Flip(Flip((2 * crc) % 65536, 0), 5), 12)
    BY <1>2, Powers DEF Shift
  <2>2. (2 * crc) % 65536 \in Word
    BY <1>1, WordIs
  <2> QED BY <2>1, <2>2, FlipWord
<1>3. CASE Bit(crc, 15) # 1
  <2>1. (crc \div 32768) % 2 # 1
    BY <1>3, Powers DEF Bit
  <2>2. crc < 32768
    BY <2>1, <1>1
  <2> QED BY <1>1, <1>3, <2>2, WordIs DEF Shift
<1> QED BY <1>2, <1>3

LEMMA BitIs == ASSUME NEW v \in Nat, NEW k \in 0 .. 7 PROVE Bit(v, k) \in 0 .. 1
<1>1. k = 0 \/ k = 1 \/ k = 2 \/ k = 3 \/ k = 4 \/ k = 5 \/ k = 6 \/ k = 7
  OBVIOUS
<1> QED BY <1>1, Powers DEF Bit

LEMMA XorByte == ASSUME NEW a \in Byte, NEW b \in Byte PROVE Xor(a, b) \in Byte
<1> DEFINE bit(k) == (Bit(a, k) + Bit(b, k)) % 2
           low == CHOOSE f : f = [k \in 0 .. 8 |->
                    IF k = 0 THEN 0 ELSE f[k - 1] + 2^(k - 1) * bit(k - 1)]
<1>1. Xor(a, b) = low[8]
  BY DEF Xor
<1>2. \A k \in 0 .. 7 : bit(k) \in Nat /\ bit(k) <= 1
  BY BitIs, ByteIs
<1> HIDE DEF bit
<1> DEFINE sum(k) == 2^(k - 1) * bit(k - 1)
<1>3. /\ sum(1) = bit(0) /\ sum(2) = 2 * bit(1) /\ sum(3) = 4 * bit(2) /\ sum(4) = 8 * bit(3)
      /\ sum(5) = 16 * bit(4) /\ sum(6) = 32 * bit(5) /\ sum(7) = 64 * bit(6)
      /\ sum(8) = 128 * bit(7)
  <2>1. /\ 1 - 1 = 0 /\ 2 - 1 = 1 /\ 3 - 1 = 2 /\ 4 - 1 = 3 /\ 5 - 1 = 4 /\ 6 - 1 = 5
        /\ 7 - 1 = 6 /\ 8 - 1 = 7
    OBVIOUS
  <2>2. bit(0) \in Nat
    BY <1>2
  <2> QED BY <2>1, <2>2, Powers
<1>4. \A k \in 1 .. 8 : sum(k) \in Nat
  <2>1. \A k \in 1 .. 8 : \/ k = 1 \/ k = 2 \/ k = 3 \/ k = 4 \/ k = 5 \/ k = 6 \/ k = 7 \/ k = 8
    OBVIOUS
  <2>2. bit(0) \in Nat /\ bit(1) \in Nat /\ bit(2) \in Nat /\ bit(3) \in Nat /\ bit(4) \in Nat
        /\ bit(5) \in Nat /\ bit(6) \in Nat /\ bit(7) \in Nat
    BY <1>2
  <2>3. sum(1) \in Nat /\ sum(2) \in Nat /\ sum(3) \in Nat /\ sum(4) \in Nat /\ sum(5) \in Nat
        /\ sum(6) \in Nat /\ sum(7) \in Nat /\ sum(8) \in Nat
    BY <1>3, <2>2
  <2> HIDE DEF sum
  <2> QED BY <2>1, <2>3
<1> DEFINE turn == [k \in 1 .. 8 |-> [c \in Nat |-> c + sum(k)]]
<1>5. turn \in [1 .. 8 -> [Nat -> Nat]]
  <2> HIDE DEF sum
  <2>1. \A k \in 1 .. 8 : [c \in Nat |-> c + sum(k)] \in [Nat -> Nat]
    BY <1>4
  <2> QED BY <2>1
<1>6. PICK f : Loops(8, 0, turn, f, Nat)
  <2> HIDE DEF turn
  <2> QED BY <1>5, LoopExists
<1>7. \A k \in 1 .. 8 : f[k] = f[k - 1] + sum(k)
  <2> HIDE DEF sum
  <2> QED BY <1>6 DEF Loops
<1>8. f = [k \in 0 .. 8 |-> IF k = 0 THEN 0 ELSE f[k - 1] + sum(k)]
  <2> HIDE DEF sum
  <2>1. f = [k \in 0 .. 8 |-> f[k]]
    BY <1>6 DEF Loops
  <2>2. \A k \in 0 .. 8 : f[k] = IF k = 0 THEN 0 ELSE f[k - 1] + sum(k)
    <3> TAKE k \in 0 .. 8
    <3>1. CASE k = 0
      BY <1>6, <3>1 DEF Loops
    <3>2. CASE k # 0
      BY <1>7, <3>2
    <3> QED BY <3>1, <3>2
  <2> QED BY <2>1, <2>2
<1>9. low = [k \in 0 .. 8 |-> IF k = 0 THEN 0 ELSE low[k - 1] + sum(k)]
  BY <1>8
<1> HIDE DEF low
<1>10. low[0] = 0 /\ \A k \in 1 .. 8 : low[k] = low[k - 1] + sum(k)
  <2> HIDE DEF sum
  <2> DEFINE g == [k \in 0 .. 8 |-> IF k = 0 THEN 0 ELSE low[k - 1] + sum(k)]
  <2>1. g[0] = 0 /\ \A k \in 1 .. 8 : g[k] = low[k - 1] + sum(k)
    OBVIOUS
  <2>2. low = g
    BY <1>9
  <2> QED BY <2>1, <2>2
<1>11. low[8] = sum(1) + sum(2) + sum(3) + sum(4) + sum(5) + sum(6) + sum(7) + sum(8)
  <2>1. /\ low[1] = low[0] + sum(1) /\ low[2] = low[1] + sum(2) /\ low[3] = low[2] + sum(3)
        /\ low[4] = low[3] + sum(4) /\ low[5] = low[4] + sum(5) /\ low[6] = low[5] + sum(6)
        /\ low[7] = low[6] + sum(7) /\ low[8] = low[7] + sum(8)
    <3> HIDE DEF sum
    <3> QED BY <1>10
  <2>2. sum(1) \in Nat /\ sum(2) \in Nat /\ sum(3) \in Nat /\ sum(4) \in Nat /\ sum(5) \in Nat
        /\ sum(6) \in Nat /\ sum(7) \in Nat /\ sum(8) \in Nat
    <3> HIDE DEF sum
    <3> QED BY <1>4
  <2> HIDE DEF sum
  <2> QED BY <2>1, <2>2, <1>10
<1>12. low[8] \in Nat /\ low[8] <= 255
  <2>1. \A k \in {0, 1, 2, 3, 4, 5, 6, 7} : bit(k) \in Nat /\ bit(k) <= 1
    BY <1>2
  <2> HIDE DEF sum
  <2> QED BY <1>3, <1>11, <2>1
<1> QED BY <1>1, <1>12, ByteIs

LEMMA StepWord ==
  ASSUME NEW value \in Byte, NEW crc \in Word
  PROVE  crc16_step(value, crc) \in Word
<1> DEFINE start == 256 * Xor(value, crc \div 256) + (crc % 256)
           turn == [c \in Word |-> Shift(c)]
<1>1. crc16_step(value, crc) = turn[turn[turn[turn[turn[turn[turn[turn[start]]]]]]]]
  BY DEF crc16_step
<1>2. start \in Word
  <2>1. crc \in Nat /\ crc <= 65535
    BY WordIs
  <2>2. crc \div 256 \in Byte
    BY <2>1, ByteIs
  <2>3. Xor(value, crc \div 256) \in Nat /\ Xor(value, crc \div 256) <= 255
    BY <2>2, XorByte, ByteIs
  <2>4. start \in Nat /\ start <= 65535
    BY <2>1, <2>3
  <2> QED BY <2>4, WordIs
<1>3. \A c \in Word : turn[c] \in Word
  BY ShiftWord
<1> HIDE DEF start, turn
<1> QED BY <1>1, <1>2, <1>3

-----------------------------------------------------------------------------
(* The checksum, byte by byte.                                             *)

\* The checksum of the first n bytes, for every n.
CrcAfter(bytes) == CHOOSE after : after =
  [n \in 0 .. Len(bytes) |->
     IF n = 0 THEN 0 ELSE [crc \in Word |-> crc16_step(bytes[n], crc)][after[n - 1]]]

LEMMA ChecksumByByte ==
  ASSUME NEW bytes \in Seq(Byte)
  PROVE  /\ Checksum(bytes) = CrcAfter(bytes)[Len(bytes)]
         /\ CrcAfter(bytes) \in [0 .. Len(bytes) -> Word]
         /\ CrcAfter(bytes)[0] = 0
         /\ \A n \in 1 .. Len(bytes) : CrcAfter(bytes)[n] = crc16_step(bytes[n], CrcAfter(bytes)[n - 1])
<1> DEFINE turn == [n \in 1 .. Len(bytes) |-> [crc \in Word |-> crc16_step(bytes[n], crc)]]
<1>1. Checksum(bytes) = CrcAfter(bytes)[Len(bytes)]
  BY DEF Checksum, CrcAfter
<1>2. turn \in [1 .. Len(bytes) -> [Word -> Word]]
  BY StepWord
<1>3. 0 \in Word /\ Len(bytes) \in Nat
  BY WordIs
<1>4. PICK f : Loops(Len(bytes), 0, turn, f, Word)
  <2> HIDE DEF turn
  <2> QED BY <1>2, <1>3, LoopExists
<1>5. \A n \in 0 .. Len(bytes) : f[n] =
        IF n = 0 THEN 0 ELSE [crc \in Word |-> crc16_step(bytes[n], crc)][f[n - 1]]
  <2> TAKE n \in 0 .. Len(bytes)
  <2>1. CASE n = 0
    BY <1>4, <2>1 DEF Loops
  <2>2. CASE n # 0
    <3>1. n \in 1 .. Len(bytes) /\ n - 1 \in 0 .. Len(bytes)
      BY <2>2, <1>3
    <3>2. f[n - 1] \in Word /\ f[n] = turn[n][f[n - 1]]
      BY <1>4, <3>1 DEF Loops
    <3> QED BY <3>1, <3>2, <2>2
  <2> QED BY <2>1, <2>2
<1>6. f = [n \in 0 .. Len(bytes) |->
             IF n = 0 THEN 0 ELSE [crc \in Word |-> crc16_step(bytes[n], crc)][f[n - 1]]]
  <2>1. f = [n \in 0 .. Len(bytes) |-> f[n]]
    BY <1>4 DEF Loops
  <2> QED BY <2>1, <1>5
<1> DEFINE a == CrcAfter(bytes)
           g == [n \in 0 .. Len(bytes) |->
             IF n = 0 THEN 0 ELSE [crc \in Word |-> crc16_step(bytes[n], crc)][a[n - 1]]]
<1>7. a = g
  BY <1>6 DEF CrcAfter
<1> HIDE DEF a
<1>8. a[0] = 0
  BY <1>7, <1>3
<1>9. \A n \in 1 .. Len(bytes) : a[n - 1] \in Word => a[n] = crc16_step(bytes[n], a[n - 1])
  <2>1. \A n \in 1 .. Len(bytes) : a[n - 1] \in Word => g[n] = crc16_step(bytes[n], a[n - 1])
    BY <1>3
  <2> HIDE DEF g
  <2> QED BY <1>7, <2>1
<1>10. \A n \in 0 .. Len(bytes) : a[n] \in Word
  <2> DEFINE T == {n \in 0 .. Len(bytes) : a[n] \notin Word}
  <2>1. SUFFICES ASSUME T # {} PROVE FALSE
    OBVIOUS
  <2>2. T \in SUBSET Nat
    OBVIOUS
  <2>3. PICK n \in T : \A m \in T : n <= m
    <3> HIDE DEF T
    <3> QED BY <2>1, <2>2, LeastElement
  <2>4. n # 0
    BY <1>8, <1>3
  <2>5. n \in 1 .. Len(bytes) /\ n - 1 \in 0 .. Len(bytes) /\ n - 1 \notin T
    BY <2>3, <2>4, <1>3
  <2>6. a[n - 1] \in Word /\ bytes[n] \in Byte
    BY <2>5
  <2>7. a[n] \in Word
    BY <1>9, <2>5, <2>6, StepWord
  <2> QED BY <2>7, <2>3
<1>11. a = [n \in 0 .. Len(bytes) |-> a[n]]
  BY <1>7
<1>12. a \in [0 .. Len(bytes) -> Word]
  BY <1>10, <1>11
<1>13. \A n \in 1 .. Len(bytes) : a[n] = crc16_step(bytes[n], a[n - 1])
  BY <1>9, <1>10, <1>3
<1> QED BY <1>1, <1>8, <1>12, <1>13 DEF a

-----------------------------------------------------------------------------
(* The encoder.                                                            *)

LEMMA Joined ==
  ASSUME NEW s \in Seq(Byte), NEW t \in Seq(Byte)
  PROVE  /\ s \o t \in Seq(Byte) /\ Len(s \o t) = Len(s) + Len(t)
         /\ \A i \in 1 .. Len(s) : (s \o t)[i] = s[i]
         /\ \A i \in 1 .. Len(t) : (s \o t)[Len(s) + i] = t[i]
<1> DEFINE m == Len(s)
           n == Len(t)
           st == s \o t
<1>1. m \in Nat /\ n \in Nat
  OBVIOUS
<1>2. /\ st \in Seq(Byte) /\ Len(st) = m + n
      /\ \A i \in 1 .. m + n : st[i] = IF i <= m THEN s[i] ELSE t[i - m]
  BY ConcatProperties
<1> HIDE DEF m, n, st
<1>3. \A i \in 1 .. m : i \in 1 .. m + n /\ i <= m
  BY <1>1
<1>4. \A i \in 1 .. n : m + i \in 1 .. m + n /\ ~ (m + i <= m) /\ (m + i) - m = i
  BY <1>1
<1>5. \A i \in 1 .. m : st[i] = s[i]
  BY <1>2, <1>3
<1>6. \A i \in 1 .. n : st[m + i] = t[i]
  BY <1>2, <1>4
<1> QED BY <1>2, <1>5, <1>6 DEF m, n, st

Body(packet) ==
  <<Low(Len(packet.data)), High(Len(packet.data)), packet.type>> \o packet.data

LEMMA HalvesOfWord ==
  ASSUME NEW word \in Word
  PROVE  /\ Low(word) \in Byte /\ High(word) \in Byte
         /\ Low(word) + 256 * High(word) = word
<1>1. word \in Nat /\ word <= 65535
  BY WordIs
<1>2. Low(word) \in Nat /\ Low(word) <= 255 /\ High(word) \in Nat /\ High(word) <= 255
  BY <1>1 DEF Low, High
<1>3. Low(word) + 256 * High(word) = word
  BY <1>1 DEF Low, High
<1> QED BY <1>2, <1>3, ByteIs

LEMMA PacketFields ==
  ASSUME NEW packet \in Packet
  PROVE  /\ packet.type \in Byte /\ packet.data \in Seq(Byte)
         /\ Len(packet.data) \in Word /\ Len(packet.data) \in Nat
BY DEF Packet, Data

LEMMA BodyIs ==
  ASSUME NEW packet \in Packet
  PROVE  /\ Body(packet) \in Seq(Byte) /\ Len(Body(packet)) = 3 + Len(packet.data)
         /\ Body(packet)[1] = Low(Len(packet.data)) /\ Body(packet)[2] = High(Len(packet.data))
         /\ Body(packet)[3] = packet.type
         /\ \A k \in 1 .. Len(packet.data) : Body(packet)[3 + k] = packet.data[k]
<1> DEFINE first == <<Low(Len(packet.data)), High(Len(packet.data)), packet.type>>
<1>1. first \in Seq(Byte) /\ Len(first) = 3 /\ packet.data \in Seq(Byte)
  BY PacketFields, HalvesOfWord
<1>2. /\ first[1] = Low(Len(packet.data)) /\ first[2] = High(Len(packet.data))
      /\ first[3] = packet.type
  OBVIOUS
<1>3. Body(packet) = first \o packet.data
  BY DEF Body
<1> HIDE DEF first
<1> DEFINE data == packet.data
           joined == first \o data
<1>4. /\ joined \in Seq(Byte) /\ Len(joined) = Len(first) + Len(data)
      /\ \A k \in 1 .. Len(first) : joined[k] = first[k]
      /\ \A k \in 1 .. Len(data) : joined[Len(first) + k] = data[k]
  BY <1>1, Joined
<1> HIDE DEF data, joined
<1>5. joined[1] = first[1] /\ joined[2] = first[2] /\ joined[3] = first[3]
  BY <1>1, <1>4
<1>6. /\ Len(joined) = 3 + Len(data)
      /\ \A k \in 1 .. Len(data) : joined[3 + k] = data[k]
  BY <1>1, <1>4
<1> QED BY <1>2, <1>3, <1>4, <1>5, <1>6 DEF data, joined

\* What is in an encoded packet.
LEMMA Encoded ==
  ASSUME NEW packet \in Packet
  PROVE  LET e == Encode(packet)
             n == Len(packet.data)
             crc == Checksum(Body(packet))
         IN /\ e \in Seq(Byte) /\ Len(e) = n + 9
            /\ e[1] = MAGIC_BEGIN_1 /\ e[2] = MAGIC_BEGIN_2
            /\ \A k \in 1 .. 3 + n : e[2 + k] = Body(packet)[k]
            /\ e[n + 6] = Low(crc) /\ e[n + 7] = High(crc)
            /\ e[n + 8] = MAGIC_END_1 /\ e[n + 9] = MAGIC_END_2
            /\ crc \in Word
<1> DEFINE n == Len(packet.data)
           body == Body(packet)
           crc == Checksum(body)
           start == <<MAGIC_BEGIN_1, MAGIC_BEGIN_2>>
           footer == <<Low(crc), High(crc), MAGIC_END_1, MAGIC_END_2>>
<1>1. body \in Seq(Byte) /\ Len(body) = 3 + n /\ n \in Nat
  BY BodyIs, PacketFields
<1>2. crc \in Word
  BY <1>1, ChecksumByByte
<1>3. Encode(packet) = start \o body \o footer
  <2>1. Footer(body) = footer
    BY <1>2 DEF Footer
  <2>2. Encode(packet) = start \o body \o Footer(body)
    BY DEF Encode, Body
  <2> QED BY <2>1, <2>2
<1>4. start \in Seq(Byte) /\ Len(start) = 2 /\ start[1] = MAGIC_BEGIN_1 /\ start[2] = MAGIC_BEGIN_2
  BY ByteIs DEF MAGIC_BEGIN_1, MAGIC_BEGIN_2
<1>5. /\ footer \in Seq(Byte) /\ Len(footer) = 4
      /\ footer[1] = Low(crc) /\ footer[2] = High(crc)
      /\ footer[3] = MAGIC_END_1 /\ footer[4] = MAGIC_END_2
  BY <1>2, HalvesOfWord, ByteIs DEF MAGIC_END_1, MAGIC_END_2
<1> HIDE DEF n, body, crc, start, footer
<1> DEFINE sb == start \o body
<1>6. /\ sb \in Seq(Byte) /\ Len(sb) = 2 + (3 + n)
      /\ sb[1] = start[1] /\ sb[2] = start[2]
      /\ \A k \in 1 .. 3 + n : sb[2 + k] = body[k]
  <2>1. /\ sb \in Seq(Byte) /\ Len(sb) = Len(start) + Len(body)
        /\ \A i \in 1 .. Len(start) : sb[i] = start[i]
        /\ \A k \in 1 .. Len(body) : sb[Len(start) + k] = body[k]
    BY <1>1, <1>4, Joined
  <2> HIDE DEF sb
  <2> QED BY <2>1, <1>1, <1>4
<1> HIDE DEF sb
<1> DEFINE e == sb \o footer
<1>7. /\ e \in Seq(Byte) /\ Len(e) = n + 9
      /\ \A i \in 1 .. n + 5 : e[i] = sb[i]
      /\ \A i \in 1 .. 4 : e[(n + 5) + i] = footer[i]
  <2>1. Len(sb) = n + 5
    BY <1>1, <1>6
  <2>2. /\ e \in Seq(Byte) /\ Len(e) = Len(sb) + Len(footer)
        /\ \A i \in 1 .. Len(sb) : e[i] = sb[i]
        /\ \A i \in 1 .. Len(footer) : e[Len(sb) + i] = footer[i]
    BY <1>5, <1>6, Joined
  <2>3. (n + 5) + 4 = n + 9
    BY <1>1
  <2> HIDE DEF e
  <2> QED BY <2>1, <2>2, <2>3, <1>5
<1> HIDE DEF e
<1>8. Encode(packet) = e
  BY <1>3 DEF e, sb
<1>9. e[1] = MAGIC_BEGIN_1 /\ e[2] = MAGIC_BEGIN_2
  <2>1. 1 \in 1 .. n + 5 /\ 2 \in 1 .. n + 5
    BY <1>1
  <2> QED BY <2>1, <1>4, <1>6, <1>7
<1>10. \A k \in 1 .. 3 + n : e[2 + k] = body[k]
  <2>1. \A k \in 1 .. 3 + n : 2 + k \in 1 .. n + 5
    BY <1>1
  <2> QED BY <2>1, <1>6, <1>7
<1>11. e[n + 6] = footer[1] /\ e[n + 7] = footer[2] /\ e[n + 8] = footer[3] /\ e[n + 9] = footer[4]
  <2>1. (n + 5) + 1 = n + 6 /\ (n + 5) + 2 = n + 7 /\ (n + 5) + 3 = n + 8 /\ (n + 5) + 4 = n + 9
    BY <1>1
  <2>2. /\ e[(n + 5) + 1] = footer[1] /\ e[(n + 5) + 2] = footer[2]
        /\ e[(n + 5) + 3] = footer[3] /\ e[(n + 5) + 4] = footer[4]
    BY <1>7
  <2> QED BY <2>1, <2>2
<1> QED BY <1>2, <1>5, <1>7, <1>8, <1>9, <1>10, <1>11 DEF n, body, crc

-----------------------------------------------------------------------------
(* The decoder.                                                            *)

LEMMA States ==
  /\ DOMAIN AfterMatch = {"WaitForMagicBegin1", "PacketAvailable", "WaitForMagicBegin2",
       "WaitForChecksum1", "WaitForChecksum2", "WaitForMagicEnd1", "WaitForMagicEnd2"}
  /\ State = {"WaitForMagicBegin1", "PacketAvailable", "WaitForMagicBegin2",
       "WaitForChecksum1", "WaitForChecksum2", "WaitForMagicEnd1", "WaitForMagicEnd2",
       "WaitForLength1", "WaitForLength2", "WaitForPacketType", "WaitForData", "Error"}
<1>1. DOMAIN AfterMatch = {"WaitForMagicBegin1", "PacketAvailable", "WaitForMagicBegin2",
       "WaitForChecksum1", "WaitForChecksum2", "WaitForMagicEnd1", "WaitForMagicEnd2"}
  BY DEF AfterMatch
<1> QED BY <1>1 DEF State

LEMMA Matching ==
  ASSUME NEW d, NEW byte
  PROVE  /\ d.state \in {"WaitForMagicBegin1", "PacketAvailable"} =>
              Match(d, byte) = [d EXCEPT !.state =
                IF byte = MAGIC_BEGIN_1 THEN "WaitForMagicBegin2" ELSE "Error"]
         /\ d.state = "WaitForMagicBegin2" =>
              Match(d, byte) = [d EXCEPT !.state =
                IF byte = MAGIC_BEGIN_2 THEN "WaitForLength1" ELSE "Error"]
         /\ d.state = "WaitForChecksum1" =>
              Match(d, byte) = [d EXCEPT !.state =
                IF byte = Low(d.crc) THEN "WaitForChecksum2" ELSE "Error"]
         /\ d.state = "WaitForChecksum2" =>
              Match(d, byte) = [d EXCEPT !.state =
                IF byte = High(d.crc) THEN "WaitForMagicEnd1" ELSE "Error"]
         /\ d.state = "WaitForMagicEnd1" =>
              Match(d, byte) = [d EXCEPT !.state =
                IF byte = MAGIC_END_1 THEN "WaitForMagicEnd2" ELSE "Error"]
         /\ d.state = "WaitForMagicEnd2" =>
              Match(d, byte) = [d EXCEPT !.state =
                IF byte = MAGIC_END_2 THEN "PacketAvailable" ELSE "Error"]
BY DEF Match, Expected, AfterMatch

LEMMA Pushing ==
  ASSUME NEW d, NEW byte
  PROVE  /\ d.state \in {"WaitForMagicBegin1", "PacketAvailable"} =>
              push(d, byte) = [d EXCEPT !.state =
                IF byte = MAGIC_BEGIN_1 THEN "WaitForMagicBegin2" ELSE "Error"]
         /\ d.state = "WaitForMagicBegin2" =>
              push(d, byte) = [d EXCEPT !.state =
                IF byte = MAGIC_BEGIN_2 THEN "WaitForLength1" ELSE "Error"]
         /\ d.state = "WaitForChecksum1" =>
              push(d, byte) = [d EXCEPT !.state =
                IF byte = Low(d.crc) THEN "WaitForChecksum2" ELSE "Error"]
         /\ d.state = "WaitForChecksum2" =>
              push(d, byte) = [d EXCEPT !.state =
                IF byte = High(d.crc) THEN "WaitForMagicEnd1" ELSE "Error"]
         /\ d.state = "WaitForMagicEnd1" =>
              push(d, byte) = [d EXCEPT !.state =
                IF byte = MAGIC_END_1 THEN "WaitForMagicEnd2" ELSE "Error"]
         /\ d.state = "WaitForMagicEnd2" =>
              push(d, byte) = [d EXCEPT !.state =
                IF byte = MAGIC_END_2 THEN "PacketAvailable" ELSE "Error"]
         /\ d.state = "WaitForLength1" => push(d, byte) = PushLength1(d, byte)
         /\ d.state = "WaitForLength2" => push(d, byte) = PushLength2(d, byte)
         /\ d.state = "WaitForPacketType" => push(d, byte) = PushPacketType(d, byte)
         /\ d.state = "WaitForData" => push(d, byte) = PushData(d, byte)
         /\ d.state = "Error" => push(d, byte) = d
<1>1. d.state \in DOMAIN AfterMatch => push(d, byte) = Match(d, byte)
  BY States DEF push
<1>2. /\ d.state = "WaitForLength1" => push(d, byte) = PushLength1(d, byte)
      /\ d.state = "WaitForLength2" => push(d, byte) = PushLength2(d, byte)
      /\ d.state = "WaitForPacketType" => push(d, byte) = PushPacketType(d, byte)
      /\ d.state = "WaitForData" => push(d, byte) = PushData(d, byte)
      /\ d.state = "Error" => push(d, byte) = d
  BY States DEF push
<1> QED BY <1>1, <1>2, States, Matching

\* What holds of a decoder whatever it is fed: what it stores fits its buffer.
Sound(d) ==
  /\ d \in Decoder
  /\ Len(d.buf) <= MAX_DATA_LENGTH
  /\ d.state = "WaitForLength2" => d.length \in Byte
  /\ d.state \in {"WaitForPacketType", "WaitForData"} => d.length <= MAX_DATA_LENGTH
  /\ d.state = "WaitForData" => Len(d.buf) < d.length

LEMMA NewIsSound == Sound(NewDecoder)
<1>1. 0 \in Byte /\ 0 \in Word /\ "WaitForMagicBegin1" \in State
  BY ByteIs, WordIs, States
<1> QED BY <1>1, MaxDataLengthAssumption DEF Sound, NewDecoder, Decoder

LEMMA ResetIsSound == ASSUME NEW d, Sound(d) PROVE Sound(reset(d))
BY States DEF Sound, reset, Decoder

LEMMA PushIsSound == ASSUME NEW d, Sound(d), NEW byte \in Byte PROVE Sound(push(d, byte))
<1> DEFINE e == push(d, byte)
<1>1. d \in Decoder /\ d.state \in State /\ Len(d.buf) \in Nat
  BY DEF Sound, Decoder
<1>2. CASE d.state = "WaitForLength1"
  <2>1. e = [d EXCEPT !.state = "WaitForLength2", !.length = byte, !.crc = crc16_step(byte, 0)]
    BY <1>2, Pushing DEF PushLength1
  <2>2. 0 \in Word /\ byte \in Word /\ "WaitForLength2" \in State
    BY ByteIs, WordIs, States
  <2>3. crc16_step(byte, 0) \in Word
    BY <2>2, StepWord
  <2> QED BY <2>1, <2>2, <2>3, <1>1 DEF Sound, Decoder
<1>3. CASE d.state = "WaitForLength2"
  <2> DEFINE length == d.length + 256 * byte
             state == IF length <= MAX_DATA_LENGTH THEN "WaitForPacketType" ELSE "Error"
             crc == crc16_step(byte, d.crc)
  <2>1. e = [d EXCEPT !.state = state, !.length = length, !.crc = crc]
    BY <1>1, <1>3, Pushing DEF PushLength2, Decoder
  <2>2. d.length \in Nat /\ d.length <= 255 /\ byte \in Nat /\ byte <= 255
    BY <1>3, ByteIs DEF Sound
  <2>3. length \in Nat /\ length <= 65535
    BY <2>2
  <2>4. length \in Word /\ state \in State /\ crc \in Word
    BY <2>3, <1>1, WordIs, States, StepWord DEF Decoder
  <2>5. state = "WaitForPacketType" => length <= MAX_DATA_LENGTH
    OBVIOUS
  <2>6. state \in {"WaitForPacketType", "Error"}
    OBVIOUS
  <2> HIDE DEF length, state, crc
  <2>7. /\ e \in Decoder /\ e.state = state /\ e.buf = d.buf /\ e.length = length
    BY <2>1, <2>4, <1>1 DEF Decoder
  <2> QED BY <2>5, <2>6, <2>7 DEF Sound
<1>4. CASE d.state = "WaitForPacketType"
  <2> DEFINE state == IF d.length # 0 THEN "WaitForData" ELSE "WaitForChecksum1"
             crc == crc16_step(byte, d.crc)
  <2>1. e = [d EXCEPT !.state = state, !.packet_type = byte, !.buf = <<>>, !.crc = crc]
    BY <1>1, <1>4, Pushing DEF PushPacketType, Decoder
  <2>2. state \in State /\ crc \in Word
    BY <1>1, States, StepWord DEF Decoder
  <2>3. state \in {"WaitForData", "WaitForChecksum1"} /\ (state = "WaitForData" => d.length # 0)
    OBVIOUS
  <2> HIDE DEF state, crc
  <2> DEFINE buf == <<>>
  <2>4. buf \in Seq(Byte) /\ Len(buf) = 0
    OBVIOUS
  <2> HIDE DEF buf
  <2>6. e \in Decoder /\ e.state = state /\ e.buf = buf /\ e.length = d.length
    BY <2>1, <2>2, <2>4, <1>1 DEF Decoder, buf
  <2>5. d.length \in Nat /\ d.length <= MAX_DATA_LENGTH
    BY <1>1, <1>4, WordIs DEF Sound, Decoder
  <2> QED BY <2>3, <2>4, <2>5, <2>6, MaxDataLengthAssumption DEF Sound
<1>5. CASE d.state = "WaitForData"
  <2> DEFINE state == IF Len(d.buf) + 1 = d.length THEN "WaitForChecksum1" ELSE d.state
             crc == crc16_step(byte, d.crc)
             buf == Append(d.buf, byte)
  <2>1. e = [d EXCEPT !.state = state, !.buf = buf, !.crc = crc]
    BY <1>1, <1>5, Pushing DEF PushData, Decoder
  <2>2. state \in State /\ crc \in Word
    BY <1>1, States, StepWord DEF Decoder
  <2>3. buf \in Seq(Byte) /\ Len(buf) = Len(d.buf) + 1
    BY <1>1 DEF Decoder
  <2>4. d.length \in Nat /\ d.length <= MAX_DATA_LENGTH /\ Len(d.buf) < d.length
    BY <1>1, <1>5, WordIs DEF Sound, Decoder
  <2>5. state \in {"WaitForData", "WaitForChecksum1"}
        /\ (state = "WaitForData" => Len(d.buf) + 1 # d.length)
    BY <1>5
  <2> HIDE DEF state, crc, buf
  <2>6. e \in Decoder /\ e.state = state /\ e.buf = buf /\ e.length = d.length
    BY <2>1, <2>2, <2>3, <1>1 DEF Decoder
  <2>7. Len(e.buf) <= MAX_DATA_LENGTH /\ (state = "WaitForData" => Len(e.buf) < e.length)
    BY <2>3, <2>4, <2>5, <2>6, <1>1, MaxDataLengthAssumption
  <2> QED BY <2>4, <2>5, <2>6, <2>7 DEF Sound
<1>6. CASE d.state = "Error"
  BY <1>6, Pushing
<1>7. CASE d.state \in DOMAIN AfterMatch
  <2>1. \E s \in {"WaitForMagicBegin2", "WaitForLength1", "WaitForChecksum2", "WaitForMagicEnd1",
                 "WaitForMagicEnd2", "PacketAvailable", "Error"} : e = [d EXCEPT !.state = s]
    BY <1>7, States, Pushing
  <2> QED BY <2>1, <1>1, States DEF Sound, Decoder
<1> QED BY <1>1, <1>2, <1>3, <1>4, <1>5, <1>6, <1>7, States

-----------------------------------------------------------------------------
(* The decoder on the encoding of a packet.                                *)

LEMMA PushedFields ==
  ASSUME NEW d \in Decoder, NEW byte, NEW s
  PROVE  /\ [d EXCEPT !.state = s].state = s
         /\ LET e == [d EXCEPT !.state = s]
            IN /\ e.packet_type = d.packet_type /\ e.length = d.length
               /\ e.crc = d.crc /\ e.buf = d.buf
         /\ LET e == PushLength1(d, byte)
            IN /\ e.state = "WaitForLength2" /\ e.length = byte /\ e.crc = crc16_step(byte, 0)
         /\ LET e == PushLength2(d, byte)
            IN /\ e.length = d.length + 256 * byte
               /\ e.state = IF d.length + 256 * byte <= MAX_DATA_LENGTH
                            THEN "WaitForPacketType" ELSE "Error"
               /\ e.crc = crc16_step(byte, d.crc)
         /\ LET e == PushPacketType(d, byte)
            IN /\ e.state = IF d.length # 0 THEN "WaitForData" ELSE "WaitForChecksum1"
               /\ e.packet_type = byte /\ e.buf = <<>> /\ e.length = d.length
               /\ e.crc = crc16_step(byte, d.crc)
         /\ LET e == PushData(d, byte)
            IN /\ e.state = IF Len(d.buf) + 1 = d.length THEN "WaitForChecksum1" ELSE d.state
               /\ e.buf = Append(d.buf, byte) /\ e.length = d.length
               /\ e.packet_type = d.packet_type
               /\ e.crc = crc16_step(byte, d.crc)
<1>1. /\ [d EXCEPT !.state = s].state = s
      /\ LET e == [d EXCEPT !.state = s]
         IN /\ e.packet_type = d.packet_type /\ e.length = d.length
            /\ e.crc = d.crc /\ e.buf = d.buf
  BY DEF Decoder
<1>2. LET e == PushLength1(d, byte)
      IN e.state = "WaitForLength2" /\ e.length = byte /\ e.crc = crc16_step(byte, 0)
  <2> DEFINE crc == crc16_step(byte, 0)
  <2>1. PushLength1(d, byte) = [d EXCEPT !.state = "WaitForLength2", !.length = byte, !.crc = crc]
    BY DEF PushLength1
  <2> HIDE DEF crc
  <2>2. LET e == [d EXCEPT !.state = "WaitForLength2", !.length = byte, !.crc = crc]
        IN e.state = "WaitForLength2" /\ e.length = byte /\ e.crc = crc
    BY DEF Decoder
  <2> QED BY <2>1, <2>2 DEF crc
<1> DEFINE crc == crc16_step(byte, d.crc)
<1>3. LET e == PushLength2(d, byte)
      IN /\ e.length = d.length + 256 * byte
         /\ e.state = IF d.length + 256 * byte <= MAX_DATA_LENGTH
                      THEN "WaitForPacketType" ELSE "Error"
         /\ e.crc = crc
  <2> DEFINE length == d.length + 256 * byte
             state == IF length <= MAX_DATA_LENGTH THEN "WaitForPacketType" ELSE "Error"
  <2>1. PushLength2(d, byte) = [d EXCEPT !.state = state, !.length = length, !.crc = crc]
    BY DEF PushLength2, Decoder
  <2> HIDE DEF length, state, crc
  <2>2. LET e == [d EXCEPT !.state = state, !.length = length, !.crc = crc]
        IN e.state = state /\ e.length = length /\ e.crc = crc
    BY DEF Decoder
  <2>3. LET e == PushLength2(d, byte)
        IN e.state = state /\ e.length = length /\ e.crc = crc
    BY <2>1, <2>2
  <2> QED BY <2>3 DEF state, length
<1>4. LET e == PushPacketType(d, byte)
      IN /\ e.state = IF d.length # 0 THEN "WaitForData" ELSE "WaitForChecksum1"
         /\ e.packet_type = byte /\ e.buf = <<>> /\ e.length = d.length
         /\ e.crc = crc
  <2> DEFINE state == IF d.length # 0 THEN "WaitForData" ELSE "WaitForChecksum1"
             buf == <<>>
  <2>1. PushPacketType(d, byte) =
          [d EXCEPT !.state = state, !.packet_type = byte, !.buf = buf, !.crc = crc]
    BY DEF PushPacketType, Decoder
  <2> HIDE DEF state, crc, buf
  <2>2. LET e == [d EXCEPT !.state = state, !.packet_type = byte, !.buf = buf, !.crc = crc]
        IN /\ e.state = state /\ e.packet_type = byte /\ e.buf = buf /\ e.length = d.length
           /\ e.crc = crc
    BY DEF Decoder
  <2>3. LET e == PushPacketType(d, byte)
        IN /\ e.state = state /\ e.packet_type = byte /\ e.buf = buf /\ e.length = d.length
           /\ e.crc = crc
    BY <2>1, <2>2
  <2> QED BY <2>3 DEF state, buf
<1>5. LET e == PushData(d, byte)
      IN /\ e.state = IF Len(d.buf) + 1 = d.length THEN "WaitForChecksum1" ELSE d.state
         /\ e.buf = Append(d.buf, byte) /\ e.length = d.length
         /\ e.packet_type = d.packet_type
         /\ e.crc = crc
  <2> DEFINE state == IF Len(d.buf) + 1 = d.length THEN "WaitForChecksum1" ELSE d.state
             buf == Append(d.buf, byte)
  <2>1. PushData(d, byte) = [d EXCEPT !.state = state, !.buf = buf, !.crc = crc]
    BY DEF PushData, Decoder
  <2> HIDE DEF state, crc, buf
  <2>2. LET e == [d EXCEPT !.state = state, !.buf = buf, !.crc = crc]
        IN /\ e.state = state /\ e.buf = buf /\ e.length = d.length
           /\ e.packet_type = d.packet_type /\ e.crc = crc
    BY DEF Decoder
  <2>3. LET e == PushData(d, byte)
        IN /\ e.state = state /\ e.buf = buf /\ e.length = d.length
           /\ e.packet_type = d.packet_type /\ e.crc = crc
    BY <2>1, <2>2
  <2> QED BY <2>3 DEF state, buf
<1> QED BY <1>1, <1>2, <1>3, <1>4, <1>5 DEF crc

\* What the decoder holds of the packet once it has taken the first k bytes of it.
Stage(d, n, k) ==
  /\ k = 0 => d.state \in {"WaitForMagicBegin1", "PacketAvailable"}
  /\ k = 1 => d.state = "WaitForMagicBegin2"
  /\ k = 2 => d.state = "WaitForLength1"
  /\ k = 3 => d.state = "WaitForLength2"
  /\ k = 4 => d.state = "WaitForPacketType"
  /\ k \in 5 .. n + 4 => d.state = "WaitForData"
  /\ k = n + 5 => d.state = "WaitForChecksum1"
  /\ k = n + 6 => d.state = "WaitForChecksum2"
  /\ k = n + 7 => d.state = "WaitForMagicEnd1"
  /\ k = n + 8 => d.state = "WaitForMagicEnd2"
  /\ k = n + 9 => d.state = "PacketAvailable"

LEMMA StageIs ==
  ASSUME NEW d, NEW n \in Nat
  PROVE  /\ d.state = "WaitForMagicBegin2" => Stage(d, n, 1)
         /\ d.state = "WaitForLength1" => Stage(d, n, 2)
         /\ d.state = "WaitForPacketType" => Stage(d, n, 4)
         /\ d.state = "WaitForChecksum2" => Stage(d, n, n + 6)
         /\ d.state = "WaitForMagicEnd1" => Stage(d, n, n + 7)
         /\ d.state = "WaitForMagicEnd2" => Stage(d, n, n + 8)
         /\ d.state = "PacketAvailable" => Stage(d, n, n + 9)
<1>1. d.state = "WaitForMagicBegin2" => Stage(d, n, 1)
  BY DEF Stage
<1>2. d.state = "WaitForLength1" => Stage(d, n, 2)
  BY DEF Stage
<1>3. d.state = "WaitForPacketType" => Stage(d, n, 4)
  BY DEF Stage
<1>4. d.state = "WaitForChecksum2" => Stage(d, n, n + 6)
  BY DEF Stage
<1>5. d.state = "WaitForMagicEnd1" => Stage(d, n, n + 7)
  BY DEF Stage
<1>6. d.state = "WaitForMagicEnd2" => Stage(d, n, n + 8)
  BY DEF Stage
<1>7. d.state = "PacketAvailable" => Stage(d, n, n + 9)
  BY DEF Stage
<1> QED BY <1>1, <1>2, <1>3, <1>4, <1>5, <1>6, <1>7

\* The first k bytes of the data are stored.
Stored(d, packet, k) ==
  /\ d.packet_type = packet.type
  /\ Len(d.buf) = k
  /\ \A i \in 1 .. k : d.buf[i] = packet.data[i]

\* The decoder has taken the first k bytes of the packet, and they match.
Midway(d, packet, k) ==
  LET n == Len(packet.data)
  IN /\ k \in 0 .. n + 9
     /\ Stage(d, n, k)
     /\ k = 3 => d.length = Low(n)
     /\ k >= 4 => d.length = n /\ n <= MAX_DATA_LENGTH
     /\ k \in 3 .. n + 5 => d.crc = CrcAfter(Body(packet))[k - 2]
     /\ k \in n + 5 .. n + 8 => d.crc = Checksum(Body(packet))
     /\ k \in 5 .. n + 5 => Stored(d, packet, k - 5)
     /\ k >= n + 5 => Stored(d, packet, n)

\* One byte more. A packet that is too long is given up when its length is known.
LEMMA OneByteMore ==
  ASSUME NEW d, Sound(d), NEW packet \in Packet, NEW k, Midway(d, packet, k),
         k # Len(packet.data) + 9
  PROVE  \/ Midway(push(d, Encode(packet)[k + 1]), packet, k + 1)
         \/ /\ k = 3 /\ Len(packet.data) > MAX_DATA_LENGTH
            /\ push(d, Encode(packet)[k + 1]).state = "Error"
<1> DEFINE n == Len(packet.data)
           body == Body(packet)
           crc == Checksum(body)
           byte == Encode(packet)[k + 1]
           e == push(d, byte)
<1>1. n \in Nat /\ n \in Word /\ k \in 0 .. n + 8 /\ packet.type \in Byte /\ packet.data \in Seq(Byte)
  BY PacketFields DEF Midway
<1>2. d \in Decoder
  BY DEF Sound
<1>3. /\ body \in Seq(Byte) /\ Len(body) = 3 + n
      /\ body[1] = Low(n) /\ body[2] = High(n) /\ body[3] = packet.type
      /\ \A i \in 1 .. n : body[3 + i] = packet.data[i]
  BY BodyIs
<1>4. /\ crc = CrcAfter(body)[3 + n]
      /\ CrcAfter(body)[0] = 0
      /\ \A i \in 1 .. 3 + n : CrcAfter(body)[i] = crc16_step(body[i], CrcAfter(body)[i - 1])
  BY <1>3, ChecksumByByte
<1>5. /\ Encode(packet)[1] = MAGIC_BEGIN_1 /\ Encode(packet)[2] = MAGIC_BEGIN_2
      /\ \A i \in 1 .. 3 + n : Encode(packet)[2 + i] = body[i]
      /\ Encode(packet)[n + 6] = Low(crc) /\ Encode(packet)[n + 7] = High(crc)
      /\ Encode(packet)[n + 8] = MAGIC_END_1 /\ Encode(packet)[n + 9] = MAGIC_END_2
  BY Encoded
<1>6. CASE k = 0
  <2>1. d.state \in {"WaitForMagicBegin1", "PacketAvailable"}
    BY <1>6 DEF Midway, Stage
  <2>2. byte = MAGIC_BEGIN_1
    BY <1>5, <1>6
  <2>3. e.state = "WaitForMagicBegin2"
    <3>1. e = [d EXCEPT !.state = "WaitForMagicBegin2"]
      BY <2>1, <2>2, Pushing
    <3> QED BY <3>1, <1>2, PushedFields
  <2> HIDE DEF e
  <2>4. Midway(e, packet, 1)
    BY <2>3, <1>1, StageIs DEF Midway
  <2> QED BY <2>4, <1>6 DEF e
<1>7. CASE k = 1
  <2>1. d.state = "WaitForMagicBegin2"
    BY <1>7 DEF Midway, Stage
  <2>2. byte = MAGIC_BEGIN_2
    BY <1>5, <1>7
  <2>3. e.state = "WaitForLength1"
    <3>1. e = [d EXCEPT !.state = "WaitForLength1"]
      BY <2>1, <2>2, Pushing
    <3> QED BY <3>1, <1>2, PushedFields
  <2> HIDE DEF e
  <2>4. Midway(e, packet, 2)
    BY <2>3, <1>1, StageIs DEF Midway
  <2> QED BY <2>4, <1>7 DEF e
<1>8. CASE k = 2
  <2>1. d.state = "WaitForLength1"
    BY <1>8, <1>1 DEF Midway, Stage
  <2>2. byte = Low(n)
    <3>1. 2 + 1 = 3 /\ 1 \in 1 .. 3 + n
      BY <1>1
    <3> QED BY <3>1, <1>3, <1>5, <1>8
  <2>3. e.state = "WaitForLength2" /\ e.length = byte /\ e.crc = crc16_step(byte, 0)
    BY <2>1, <1>2, Pushing, PushedFields
  <2>4. CrcAfter(body)[3 - 2] = crc16_step(byte, 0)
    <3>1. 1 - 1 = 0 /\ 3 - 2 = 1 /\ 1 \in 1 .. 3 + n
      BY <1>1
    <3> QED BY <3>1, <2>2, <1>3, <1>4
  <2> HIDE DEF e, body, byte
  <2>5. Midway(e, packet, 3)
    BY <2>2, <2>3, <2>4, <1>1 DEF Midway, Stage, body
  <2> QED BY <2>5, <1>8 DEF e, byte
<1>9. CASE k = 3
  <2>1. d.state = "WaitForLength2" /\ d.length = Low(n) /\ d.crc = CrcAfter(body)[3 - 2]
    BY <1>9, <1>1 DEF Midway, Stage
  <2>2. byte = High(n)
    <3>1. 3 + 1 = 2 + 2 /\ 2 \in 1 .. 3 + n
      BY <1>1
    <3> QED BY <3>1, <1>3, <1>5, <1>9
  <2>3. d.length + 256 * byte = n
    BY <2>1, <2>2, <1>1, HalvesOfWord
  <2>4. /\ e.length = n /\ e.crc = crc16_step(byte, d.crc)
        /\ e.state = IF n <= MAX_DATA_LENGTH THEN "WaitForPacketType" ELSE "Error"
    BY <2>1, <2>3, <1>2, Pushing, PushedFields
  <2>5. CrcAfter(body)[4 - 2] = crc16_step(byte, d.crc)
    <3>1. 2 - 1 = 3 - 2 /\ 4 - 2 = 2 /\ 2 \in 1 .. 3 + n
      BY <1>1
    <3> QED BY <3>1, <2>1, <2>2, <1>3, <1>4
  <2> HIDE DEF e, body, byte
  <2>6. CASE n <= MAX_DATA_LENGTH
    <3>1. Stage(e, n, 4)
      BY <2>4, <2>6, <1>1, StageIs
    <3>2. Midway(e, packet, 4)
      BY <2>4, <2>5, <2>6, <1>1, <3>1 DEF Midway, body
    <3> QED BY <3>2, <1>9 DEF e, byte
  <2>7. CASE ~ (n <= MAX_DATA_LENGTH)
    <3>1. n > MAX_DATA_LENGTH
      BY <2>7, <1>1, MaxDataLengthAssumption
    <3> QED BY <3>1, <2>4, <2>7, <1>9 DEF e, byte
  <2> QED BY <2>6, <2>7
<1>10. CASE k = 4
  <2>1. /\ d.state = "WaitForPacketType" /\ d.length = n /\ n <= MAX_DATA_LENGTH
        /\ d.crc = CrcAfter(body)[4 - 2]
    BY <1>10, <1>1 DEF Midway, Stage
  <2>2. byte = packet.type
    <3>1. 4 + 1 = 2 + 3 /\ 3 \in 1 .. 3 + n
      BY <1>1
    <3> QED BY <3>1, <1>3, <1>5, <1>10
  <2>3. /\ e.state = IF n # 0 THEN "WaitForData" ELSE "WaitForChecksum1"
        /\ e.packet_type = packet.type /\ e.buf = <<>> /\ e.length = n
        /\ e.crc = crc16_step(byte, d.crc)
    BY <2>1, <2>2, <1>2, Pushing, PushedFields
  <2>4. CrcAfter(body)[5 - 2] = crc16_step(byte, d.crc)
    <3>1. 3 - 1 = 4 - 2 /\ 5 - 2 = 3 /\ 3 \in 1 .. 3 + n
      BY <1>1
    <3> QED BY <3>1, <2>1, <2>2, <1>3, <1>4
  <2>5. n = 0 => CrcAfter(body)[5 - 2] = crc
    BY <1>4
  <2>6. Stored(e, packet, 5 - 5)
    BY <2>3 DEF Stored
  <2>7. n = 0 => Stored(e, packet, n)
    BY <2>6
  <2> HIDE DEF e, body, byte, crc
  <2>8. Stage(e, n, 5)
    BY <2>3, <1>1 DEF Stage
  <2>9. Midway(e, packet, 5)
    BY <2>1, <2>3, <2>4, <2>5, <2>6, <2>7, <2>8, <1>1 DEF Midway, body, crc
  <2> QED BY <2>9, <1>10 DEF e, byte
<1>11. CASE k \in 5 .. n + 4
  <2>1. /\ d.state = "WaitForData" /\ d.length = n /\ n <= MAX_DATA_LENGTH
        /\ d.crc = CrcAfter(body)[k - 2] /\ Stored(d, packet, k - 5)
    BY <1>11, <1>1 DEF Midway, Stage
  <2>2. k - 4 \in 1 .. n /\ k - 1 \in 1 .. 3 + n
    BY <1>1, <1>11
  <2>3. byte = body[k - 1]
    <3>1. k + 1 = 2 + (k - 1)
      BY <1>1
    <3> QED BY <3>1, <2>2, <1>5
  <2>4. byte = packet.data[k - 4]
    <3>1. k - 1 = 3 + (k - 4)
      BY <1>1
    <3> QED BY <3>1, <2>2, <2>3, <1>3
  <2>5. /\ e.state = IF Len(d.buf) + 1 = n THEN "WaitForChecksum1" ELSE d.state
        /\ e.buf = Append(d.buf, byte) /\ e.length = n
        /\ e.packet_type = d.packet_type
        /\ e.crc = crc16_step(byte, d.crc)
    BY <2>1, <1>2, Pushing, PushedFields
  <2>6. CrcAfter(body)[(k + 1) - 2] = e.crc
    <3>1. (k - 1) - 1 = k - 2 /\ (k + 1) - 2 = k - 1
      BY <1>1
    <3> QED BY <3>1, <2>1, <2>2, <2>3, <2>5, <1>4
  <2>7. k + 1 = n + 5 => e.crc = crc
    <3>1. k + 1 = n + 5 => (k + 1) - 2 = 3 + n
      BY <1>1
    <3> QED BY <3>1, <2>6, <1>4
  <2> HIDE DEF e, body, byte, crc
  <2>8. Stored(e, packet, (k + 1) - 5)
    <3>1. d.buf \in Seq(Byte) /\ Len(d.buf) = k - 5
      BY <2>1, <1>2 DEF Stored, Decoder
    <3>2. Len(e.buf) = (k + 1) - 5
      BY <2>5, <3>1, <1>1
    <3>3. \A i \in 1 .. (k + 1) - 5 : e.buf[i] = IF i = k - 4 THEN byte ELSE d.buf[i]
      BY <2>5, <3>1, <1>1
    <3>4. \A i \in 1 .. (k + 1) - 5 : e.buf[i] = packet.data[i]
      <4> TAKE i \in 1 .. (k + 1) - 5
      <4>1. CASE i = k - 4
        BY <4>1, <3>3, <2>4
      <4>2. CASE i # k - 4
        <5>1. i \in 1 .. k - 5
          BY <4>2, <1>1
        <5>2. d.buf[i] = packet.data[i]
          BY <5>1, <2>1 DEF Stored
        <5> QED BY <5>2, <4>2, <3>3
      <4> QED BY <4>1, <4>2
    <3> QED BY <3>2, <3>4, <2>1, <2>5 DEF Stored
  <2>9. k + 1 = n + 5 => Stored(e, packet, n)
    <3>1. k + 1 = n + 5 => (k + 1) - 5 = n
      BY <1>1
    <3> QED BY <2>8, <3>1
  <2>10. Stage(e, n, k + 1)
    <3>1. Len(d.buf) = k - 5
      BY <2>1 DEF Stored
    <3>2. (Len(d.buf) + 1 = n) <=> (k + 1 = n + 5)
      BY <3>1, <1>1
    <3>3. e.state = IF k + 1 = n + 5 THEN "WaitForChecksum1" ELSE "WaitForData"
      BY <2>1, <2>5, <3>2
    <3> QED BY <3>3, <1>1, <1>11 DEF Stage
  <2>11. Midway(e, packet, k + 1)
    BY <2>1, <2>5, <2>6, <2>7, <2>8, <2>9, <2>10, <1>1, <1>11 DEF Midway, body, crc
  <2> QED BY <2>11 DEF e, byte
<1>12. CASE k >= n + 5
  <2>1. d.length = n /\ n <= MAX_DATA_LENGTH /\ d.crc = crc /\ Stored(d, packet, n)
    BY <1>12, <1>1 DEF Midway
  <2>2. \E s : e = [d EXCEPT !.state = s] /\ Stage([d EXCEPT !.state = s], n, k + 1)
    <3>1. CASE k = n + 5
      <4>1. d.state = "WaitForChecksum1" /\ byte = Low(d.crc)
        <5>1. d.state = "WaitForChecksum1"
          BY <3>1, <1>1 DEF Midway, Stage
        <5>2. k + 1 = n + 6
          BY <3>1, <1>1
        <5> QED BY <5>1, <5>2, <2>1, <1>5
      <4>2. e = [d EXCEPT !.state = "WaitForChecksum2"]
        BY <4>1, Pushing
      <4>3. [d EXCEPT !.state = "WaitForChecksum2"].state = "WaitForChecksum2"
        BY <1>2, PushedFields
      <4>4. Stage([d EXCEPT !.state = "WaitForChecksum2"], n, n + 6)
        BY <4>3, <1>1, StageIs
      <4>5. k + 1 = n + 6
        BY <3>1, <1>1
      <4> QED BY <4>2, <4>4, <4>5
    <3>2. CASE k = n + 6
      <4>1. d.state = "WaitForChecksum2" /\ byte = High(d.crc)
        <5>1. d.state = "WaitForChecksum2"
          BY <3>2, <1>1 DEF Midway, Stage
        <5>2. k + 1 = n + 7
          BY <3>2, <1>1
        <5> QED BY <5>1, <5>2, <2>1, <1>5
      <4>2. e = [d EXCEPT !.state = "WaitForMagicEnd1"]
        BY <4>1, Pushing
      <4>3. [d EXCEPT !.state = "WaitForMagicEnd1"].state = "WaitForMagicEnd1"
        BY <1>2, PushedFields
      <4>4. Stage([d EXCEPT !.state = "WaitForMagicEnd1"], n, n + 7)
        BY <4>3, <1>1, StageIs
      <4>5. k + 1 = n + 7
        BY <3>2, <1>1
      <4> QED BY <4>2, <4>4, <4>5
    <3>3. CASE k = n + 7
      <4>1. d.state = "WaitForMagicEnd1" /\ byte = MAGIC_END_1
        <5>1. d.state = "WaitForMagicEnd1"
          BY <3>3, <1>1 DEF Midway, Stage
        <5>2. k + 1 = n + 8
          BY <3>3, <1>1
        <5> QED BY <5>1, <5>2, <1>5
      <4>2. e = [d EXCEPT !.state = "WaitForMagicEnd2"]
        BY <4>1, Pushing
      <4>3. [d EXCEPT !.state = "WaitForMagicEnd2"].state = "WaitForMagicEnd2"
        BY <1>2, PushedFields
      <4>4. Stage([d EXCEPT !.state = "WaitForMagicEnd2"], n, n + 8)
        BY <4>3, <1>1, StageIs
      <4>5. k + 1 = n + 8
        BY <3>3, <1>1
      <4> QED BY <4>2, <4>4, <4>5
    <3>4. CASE k = n + 8
      <4>1. d.state = "WaitForMagicEnd2" /\ byte = MAGIC_END_2
        <5>1. d.state = "WaitForMagicEnd2"
          BY <3>4, <1>1 DEF Midway, Stage
        <5>2. k + 1 = n + 9
          BY <3>4, <1>1
        <5> QED BY <5>1, <5>2, <1>5
      <4>2. e = [d EXCEPT !.state = "PacketAvailable"]
        BY <4>1, Pushing
      <4>3. [d EXCEPT !.state = "PacketAvailable"].state = "PacketAvailable"
        BY <1>2, PushedFields
      <4>4. Stage([d EXCEPT !.state = "PacketAvailable"], n, n + 9)
        BY <4>3, <1>1, StageIs
      <4>5. k + 1 = n + 9
        BY <3>4, <1>1
      <4> QED BY <4>2, <4>4, <4>5
    <3>5. k = n + 5 \/ k = n + 6 \/ k = n + 7 \/ k = n + 8
      BY <1>1, <1>12
    <3> QED BY <3>1, <3>2, <3>3, <3>4, <3>5
  <2>3. /\ e.packet_type = d.packet_type /\ e.length = d.length
        /\ e.crc = d.crc /\ e.buf = d.buf /\ Stage(e, n, k + 1)
    BY <2>2, <1>2, PushedFields
  <2> HIDE DEF e, body, byte, crc
  <2>4. Stored(e, packet, n)
    BY <2>1, <2>3 DEF Stored
  <2>5. Midway(e, packet, k + 1)
    BY <2>1, <2>3, <2>4, <1>1, <1>12 DEF Midway, body, crc
  <2> QED BY <2>5 DEF e, byte
<1> QED BY <1>1, <1>6, <1>7, <1>8, <1>9, <1>10, <1>11, <1>12

\* The packet is there with its last byte, and not before.
LEMMA LastByte ==
  ASSUME NEW d, Sound(d), NEW packet \in Packet, NEW k, Midway(d, packet, k)
  PROVE  /\ k = Len(packet.data) + 9 => d.state = "PacketAvailable" /\ GetPacket(d) = packet
         /\ k \in 1 .. Len(packet.data) + 8 => d.state \notin {"PacketAvailable", "Error"}
         /\ d.state # "Error"
<1> DEFINE n == Len(packet.data)
<1>1. n \in Nat /\ k \in 0 .. n + 9
  BY PacketFields DEF Midway
<1>2. CASE k = n + 9
  <2>1. d.state = "PacketAvailable" /\ Stored(d, packet, n)
    BY <1>1, <1>2 DEF Midway, Stage
  <2>2. d.buf \in Seq(Byte) /\ packet.data \in Seq(Byte)
    BY PacketFields DEF Sound, Decoder
  <2>3. d.buf = packet.data
    <3> DEFINE s == d.buf
               t == packet.data
    <3>1. s \in Seq(Byte) /\ t \in Seq(Byte) /\ Len(s) = Len(t) /\ \A i \in 1 .. Len(s) : s[i] = t[i]
      BY <2>1, <2>2 DEF Stored
    <3> HIDE DEF s, t
    <3>2. s = t
      BY <3>1, SeqEqual
    <3> QED BY <3>2 DEF s, t
  <2>4. packet = [type |-> packet.type, data |-> packet.data]
    BY DEF Packet
  <2>5. GetPacket(d) = packet
    BY <2>1, <2>3, <2>4 DEF GetPacket, Stored
  <2>6. k \notin 1 .. n + 8
    BY <1>1, <1>2
  <2> QED BY <2>1, <2>5, <2>6
<1>3. CASE k # n + 9
  <2>1. k \in 1 .. n + 8 \/ k = 0
    BY <1>1, <1>3
  <2>2. k = 0 => d.state # "Error"
    BY DEF Midway, Stage
  <2>3. k \in 1 .. n + 8 => d.state \notin {"PacketAvailable", "Error"}
    <3>1. k \in 1 .. n + 8 =>
            \/ k = 1 \/ k = 2 \/ k = 3 \/ k = 4 \/ k \in 5 .. n + 4
            \/ k = n + 5 \/ k = n + 6 \/ k = n + 7 \/ k = n + 8
      BY <1>1
    <3>2. Stage(d, n, k)
      BY DEF Midway
    <3> QED BY <3>1, <3>2 DEF Stage
  <2> QED BY <1>3, <2>1, <2>2, <2>3
<1> QED BY <1>2, <1>3

\* The decoder undoes the encoder (cli-protocol.cpp): whatever the data of a packet
\* looks like, a decoder that waits for a packet, and is fed its bytes one by one, is
\* neither in error nor done before the last of them, and then holds that packet.
THEOREM DecoderInvertsEncoder ==
  ASSUME NEW packet \in Packet, Len(packet.data) <= MAX_DATA_LENGTH,
         NEW run, Sound(run[0]), run[0].state \in {"WaitForMagicBegin1", "PacketAvailable"},
         \A k \in 1 .. Len(Encode(packet)) : run[k] = push(run[k - 1], Encode(packet)[k])
  PROVE  LET last == Len(Encode(packet))
         IN /\ run[last].state = "PacketAvailable" /\ GetPacket(run[last]) = packet
            /\ \A k \in 1 .. last - 1 : run[k].state \notin {"PacketAvailable", "Error"}
<1> DEFINE n == Len(packet.data)
           e == Encode(packet)
           T == {k \in 0 .. n + 9 : ~ (Sound(run[k]) /\ Midway(run[k], packet, k))}
<1>1. n \in Nat /\ e \in Seq(Byte) /\ Len(e) = n + 9
  BY PacketFields, Encoded
<1>2. T = {}
  <2>1. SUFFICES ASSUME T # {} PROVE FALSE
    OBVIOUS
  <2>2. PICK k \in T : \A m \in T : k <= m
    <3>1. T \in SUBSET Nat
      OBVIOUS
    <3> HIDE DEF T
    <3> QED BY <2>1, <3>1, LeastElement
  <2>3. k # 0
    <3>1. Midway(run[0], packet, 0)
      BY <1>1 DEF Midway, Stage
    <3> QED BY <3>1, <2>2
  <2>4. k \in 1 .. n + 9 /\ k - 1 \in 0 .. n + 9 /\ k - 1 # n + 9 /\ ~ (k <= k - 1) /\ (k - 1) + 1 = k
    BY <2>2, <2>3, <1>1
  <2>5. Sound(run[k - 1]) /\ Midway(run[k - 1], packet, k - 1)
    BY <2>2, <2>4
  <2>6. run[k] = push(run[k - 1], e[k]) /\ e[k] \in Byte
    BY <2>4, <1>1
  <2>7. Sound(run[k])
    BY <2>5, <2>6, PushIsSound
  <2>8. Midway(run[k], packet, k)
    <3>1. ~ (Len(packet.data) > MAX_DATA_LENGTH)
      BY <1>1, MaxDataLengthAssumption
    <3>2. Midway(push(run[k - 1], Encode(packet)[(k - 1) + 1]), packet, (k - 1) + 1)
      BY <2>4, <2>5, <3>1, OneByteMore
    <3> QED BY <3>2, <2>4, <2>6
  <2> QED BY <2>2, <2>7, <2>8
<1>3. \A k \in 0 .. n + 9 : Sound(run[k]) /\ Midway(run[k], packet, k)
  BY <1>2
<1>4. run[n + 9].state = "PacketAvailable" /\ GetPacket(run[n + 9]) = packet
  BY <1>1, <1>3, LastByte
<1>5. \A k \in 1 .. (n + 9) - 1 : run[k].state \notin {"PacketAvailable", "Error"}
  <2>1. \A k \in 1 .. (n + 9) - 1 : k \in 0 .. n + 9 /\ k \in 1 .. n + 8
    BY <1>1
  <2> QED BY <2>1, <1>3, LastByte
<1> QED BY <1>1, <1>4, <1>5
=============================================================================
