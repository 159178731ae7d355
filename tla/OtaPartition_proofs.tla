------------------------ MODULE OtaPartition_proofs ------------------------
(***************************************************************************)
(* Proofs about OtaPartition for every number of pieces, every size of a   *)
(* sector, and all images.                                                 *)
(***************************************************************************)
EXTENDS OtaPartition, Integers, TLAPS

-----------------------------------------------------------------------------
(* The types of what is in flight.                                         *)

Ops == [partition : Partitions, pieces : UNION {[D -> Piece] : D \in SUBSET Pieces}]

\* The reply being prepared is the one that its source, if it still lives, awaits.
Served(src) == serving # None /\ serving.source = src
Bounded ==
  /\ \A src \in Sources : job[src] # NoJob => job[src].sent <= Size[job[src].image] + 1
  /\ serving # None => serving.sent <= Size[serving.image] + 1
  /\ \A src \in Sources : Served(src) => /\ job[src].image = serving.image
                                         /\ job[src].sent = serving.sent

Typed == TypeOK /\ todo \in Seq(Ops) /\ Bounded

-----------------------------------------------------------------------------
(* The inductive invariant of the updates between power-ons.               *)

\* What an image is meant to leave in its partition, as far as its last sector goes.
Content(x) == [k \in Pieces |-> IF k <= Size[x] THEN <<x, k>> ELSE Erased]
InFlash(x, m) == \A k \in 1 .. m : flash[next][k] = Content(x)[k]
Ends(p, x) == flash[p][Size[x]] = <<x, Size[x]>>

\* The last left operations that program the sector ending at piece top.
EraseOp(top) == Operation(next, [k \in top - SectorSize + 1 .. top |-> Erased])
PageOp(x, k) == Operation(next, [i \in {k} |-> Content(x)[k]])
Programs(ops, x, top, left) ==
  \A j \in 1 .. left : ops[j] = IF left - j = SectorSize THEN EraseOp(top)
                                ELSE PageOp(x, top - left + j)
Programmed(top, left) == IF left > SectorSize THEN top - SectorSize ELSE top - left

\* Between two sectors the buffer holds the one that has not gone to flash yet.
Flushed(cursor) == IF cursor = 0 THEN 0 ELSE BlockNum(cursor) * SectorSize
Buffered(x, top) ==
  \A i \in 0 .. SectorSize - 1 :
    buffer[i] = IF top + i < write_cursor THEN <<x, top + i + 1>> ELSE Erased

\* An update in progress is of one image, the one of the program with the token.
UploadOf(x, top, left) ==
  /\ write_cursor <= Size[x]
  /\ write_cursor > 0 => Buffered(x, top)
  /\ left <= SectorSize + 1 /\ (left > 0 => top > 0)
  /\ Programs(todo, x, top, left) /\ InFlash(x, Programmed(top, left))
  /\ \A src \in Sources : ota_token = src /\ job[src] # NoJob
                            /\ (Served(src) \/ job[src].sent > 0) => job[src].image = x
Uploading ==
  write_cursor # None => \E x \in Images : UploadOf(x, Flushed(write_cursor), Len(todo))

\* The program with the token has sent what has been stored.
Accountable ==
  /\ \A src \in Sources :
       ota_token = src =>
         IF Served(src)
         THEN write_cursor = IF job[src].sent > Size[job[src].image] THEN None ELSE job[src].sent
         ELSE job[src].sent > 0 => write_cursor = job[src].sent - 1
  /\ \A src \in Sources : Served(src) => (serving.ok <=> ota_token = src)
  /\ serving = None => todo = <<>>

\* The last sector is being programmed, then the running image r is invalidated.
FinishOf(x, r, top, left) ==
  /\ todo[left + 1] = Invalidation(r) /\ Holds(current, r)
  /\ left \in 0 .. SectorSize + 1 /\ top \in SectorSize .. NumPieces
  /\ top - SectorSize < Size[x] /\ Size[x] <= top
  /\ Programs(todo, x, top, left) /\ InFlash(x, Programmed(top, left))
  /\ current = "B" => \A y \in Images : Ends("A", y) => x = y /\ Size[x] <= Programmed(top, left)
  /\ serving # None /\ serving.image = x
Finishing ==
  write_cursor = None /\ todo # <<>> =>
    \E x, r \in Images, top \in Pieces : FinishOf(x, r, top, Len(todo) - 1)

\* Whether the running image can still be started: before an update, and after it.
Intact ==
  /\ \E r \in Images : Holds(current, r)
  /\ current = "B" => \A y \in Images : ~ Ends("A", y)
Replaced == ~ Accepts(current) /\ \E x \in Images : Holds(next, x)
Startable ==
  /\ write_cursor # None => Intact
  /\ write_cursor = None /\ todo = <<>> => Intact \/ Replaced
Answered ==
  serving # None /\ serving.ok /\ serving.sent > Size[serving.image] =>
    /\ write_cursor = None
    /\ todo = <<>> => ~ Accepts(current) /\ Holds(next, serving.image)

\* A piece is where its image has it; and A has no end that belongs to half an image.
Placed == \A p \in Partitions, k \in Pieces :
            flash[p][k] \in {<<x, k>> : x \in Images} \cup {Erased, Zeroed}
EndsWhole == \A x \in Images : Ends("A", x) => Holds("A", x)
Alive == current \in Partitions /\ ~ halted

IInv ==
  /\ Typed /\ Alive /\ Placed /\ EndsWhole
  /\ Accountable /\ Uploading /\ Finishing /\ Startable /\ Answered

-----------------------------------------------------------------------------
(* Sectors.                                                                *)

LEMMA Multiples == ASSUME NEW a \in Int, NEW b \in Int, a <= b
                   PROVE  a * SectorSize <= b * SectorSize
BY SizeAssumption

LEMMA DivMod ==
  ASSUME NEW a \in Nat
  PROVE  /\ a \div SectorSize \in Nat /\ a % SectorSize \in 0 .. SectorSize - 1
         /\ a = (a \div SectorSize) * SectorSize + (a % SectorSize)
BY SizeAssumption

\* The position of a piece is its sector and its place there.
LEMMA DivModUnique ==
  ASSUME NEW a \in Nat, NEW q \in Nat, NEW r \in 0 .. SectorSize - 1, a = q * SectorSize + r
  PROVE  a \div SectorSize = q /\ a % SectorSize = r
<1>1. /\ a = (a \div SectorSize) * SectorSize + (a % SectorSize)
      /\ a \div SectorSize \in Nat /\ a % SectorSize \in 0 .. SectorSize - 1
  BY DivMod
<1>2. CASE a \div SectorSize < q
  <2>1. (a \div SectorSize + 1) * SectorSize <= q * SectorSize
    BY <1>1, <1>2, SizeAssumption, Multiples
  <2>2. (a \div SectorSize + 1) * SectorSize = (a \div SectorSize) * SectorSize + SectorSize
    BY <1>1, SizeAssumption
  <2>. QED  BY <2>1, <2>2, <1>1, SizeAssumption
<1>3. CASE q < a \div SectorSize
  <2>1. (q + 1) * SectorSize <= (a \div SectorSize) * SectorSize
    BY <1>1, <1>3, SizeAssumption, Multiples
  <2>2. (q + 1) * SectorSize = q * SectorSize + SectorSize
    BY <1>1, SizeAssumption
  <2>. QED  BY <2>1, <2>2, <1>1, SizeAssumption
<1>. QED  BY <1>1, <1>2, <1>3, SizeAssumption

\* A partition is a whole number of sectors.
LEMMA SectorFits ==
  ASSUME NEW m \in Nat, m * SectorSize < NumPieces
  PROVE  /\ m * SectorSize \in Nat /\ (m + 1) * SectorSize = m * SectorSize + SectorSize
         /\ (m + 1) * SectorSize <= NumPieces
<1>1. NumPieces = (NumPieces \div SectorSize) * SectorSize /\ NumPieces \div SectorSize \in Nat
  BY DivMod, SizeAssumption
<1>2. m + 1 <= NumPieces \div SectorSize
  <2>1. SUFFICES ASSUME NumPieces \div SectorSize <= m PROVE FALSE
    BY <1>1
  <2>2. (NumPieces \div SectorSize) * SectorSize <= m * SectorSize
    BY <2>1, <1>1, Multiples
  <2>. QED  BY <2>2, <1>1, SizeAssumption
<1>3. (m + 1) * SectorSize <= NumPieces
  BY <1>1, <1>2, Multiples
<1>. QED  BY <1>3, SizeAssumption

\* The buffer holds the sector of the last piece pushed.
LEMMA BufferedSector ==
  ASSUME NEW c \in 1 .. NumPieces
  PROVE  /\ BlockNum(c) \in Nat /\ Flushed(c) \in Nat
         /\ Flushed(c) = BlockNum(c) * SectorSize
         /\ Flushed(c) < c /\ c <= Flushed(c) + SectorSize
         /\ Flushed(c) + SectorSize <= NumPieces
<1>1. c - 1 \in Nat /\ c \in Nat /\ c # 0
  BY SizeAssumption
<1>2. /\ BlockNum(c) \in Nat /\ (c - 1) % SectorSize \in 0 .. SectorSize - 1
      /\ c - 1 = BlockNum(c) * SectorSize + ((c - 1) % SectorSize)
  BY <1>1, DivMod DEF BlockNum
<1>3. BlockNum(c) * SectorSize \in Nat
  BY <1>2, SizeAssumption
<1>4. Flushed(c) = BlockNum(c) * SectorSize
  BY <1>1 DEF Flushed
<1>5. BlockNum(c) * SectorSize < c /\ c <= BlockNum(c) * SectorSize + SectorSize
  BY <1>1, <1>2, <1>3, SizeAssumption
<1>6. BlockNum(c) * SectorSize < NumPieces
  BY <1>3, <1>5, SizeAssumption
<1>. QED  BY <1>2, <1>3, <1>4, <1>5, <1>6, SectorFits

\* A piece that starts a sector sends the one before to flash.
LEMMA NextSector ==
  ASSUME NEW c \in 0 .. NumPieces - 1, c % SectorSize = 0
  PROVE  Flushed(c + 1) = c /\ (c # 0 => Flushed(c) + SectorSize = c)
<1>1. c \in Nat /\ c + 1 # 0 /\ c + 1 - 1 = c
  BY SizeAssumption
<1>2. Flushed(c + 1) = c
  BY <1>1, DivMod, SizeAssumption DEF Flushed, BlockNum
<1>3. ASSUME c # 0 PROVE Flushed(c) + SectorSize = c
  <2>. DEFINE m == c \div SectorSize
  <2>1. m \in Nat /\ c = m * SectorSize
    BY <1>1, DivMod, SizeAssumption
  <2>2. m # 0
    BY <2>1, <1>3, SizeAssumption
  <2>3. m - 1 \in Nat /\ m * SectorSize = (m - 1) * SectorSize + SectorSize
    BY <2>1, <2>2, SizeAssumption
  <2>4. c - 1 \in Nat /\ c - 1 = (m - 1) * SectorSize + (SectorSize - 1)
    BY <2>1, <2>3, <1>1, <1>3, SizeAssumption
  <2>5. SectorSize - 1 \in 0 .. SectorSize - 1
    BY SizeAssumption
  <2>. HIDE DEF m
  <2>6. BlockNum(c) = m - 1
    BY <2>3, <2>4, <2>5, DivModUnique DEF BlockNum
  <2>. QED  BY <2>6, <2>3, <2>1, <1>3 DEF Flushed
<1>. QED  BY <1>2, <1>3

\* One that does not is put after those of its sector.
LEMMA SameSector ==
  ASSUME NEW c \in 0 .. NumPieces - 1, c % SectorSize # 0
  PROVE  c # 0 /\ Flushed(c + 1) = Flushed(c) /\ c % SectorSize = c - Flushed(c)
<1>1. c \in Nat /\ c + 1 # 0 /\ c + 1 - 1 = c
  BY SizeAssumption
<1>2. c # 0
  BY DivModUnique, SizeAssumption
<1>. DEFINE m == c \div SectorSize  r == c % SectorSize
<1>3. m \in Nat /\ r \in 1 .. SectorSize - 1 /\ c = m * SectorSize + r
  BY <1>1, DivMod, SizeAssumption
<1>4. Flushed(c + 1) = m * SectorSize
  BY <1>1 DEF Flushed, BlockNum
<1>5. r - 1 \in 0 .. SectorSize - 1 /\ c - 1 \in Nat
  BY <1>1, <1>2, <1>3, SizeAssumption
<1>6. m * SectorSize \in Nat
  BY <1>3, SizeAssumption
<1>. HIDE DEF m, r
<1>7. c - 1 = m * SectorSize + (r - 1)
  BY <1>3, <1>6, SizeAssumption
<1>8. BlockNum(c) = m
  BY <1>3, <1>5, <1>7, DivModUnique DEF BlockNum
<1>9. Flushed(c) = m * SectorSize
  BY <1>2, <1>8 DEF Flushed
<1>. QED  BY <1>2, <1>3, <1>4, <1>6, <1>9, SizeAssumption DEF r

\* Where a piece of a sector is in the buffer.
LEMMA PlaceInBuffer ==
  ASSUME NEW n \in Nat, NEW k \in SectorPieces(n)
  PROVE  /\ k - 1 - n * SectorSize \in 0 .. SectorSize - 1
         /\ (k - 1) % SectorSize = k - 1 - n * SectorSize
<1>1. n * SectorSize \in Nat /\ (n + 1) * SectorSize = n * SectorSize + SectorSize
  BY SizeAssumption
<1>2. k - 1 \in Nat /\ k - 1 - n * SectorSize \in 0 .. SectorSize - 1
  BY <1>1, SizeAssumption DEF SectorPieces
<1>3. k - 1 = n * SectorSize + (k - 1 - n * SectorSize)
  BY <1>1, <1>2
<1>. QED  BY <1>2, <1>3, DivModUnique

-----------------------------------------------------------------------------
(* Flash operations.                                                       *)

LEMMA SizeFacts == ASSUME NEW x \in Images
                   PROVE  /\ Size[x] \in Nat /\ 2 <= Size[x] /\ Size[x] <= NumPieces
                          /\ Size[x] \in Pieces /\ 1 \in Pieces
BY SizeAssumption DEF Pieces

LEMMA OpFacts ==
  ASSUME NEW o \in Ops
  PROVE  /\ o.partition \in Partitions /\ DOMAIN o.pieces \subseteq Pieces
         /\ \A k \in DOMAIN o.pieces : o.pieces[k] \in Piece
<1>1. PICK D \in SUBSET Pieces : o.pieces \in [D -> Piece]
  BY DEF Ops
<1>. QED  BY <1>1 DEF Ops

LEMMA OperationType ==
  ASSUME NEW p \in Partitions, NEW D \in SUBSET Pieces, NEW f \in [D -> Piece]
  PROVE  Operation(p, f) \in Ops
BY DEF Operation, Ops

LEMMA OtherPartition == \A p : Other(p) \in Partitions /\ Other(p) # p
BY DEF Other, Partitions

LEMMA InvalidationType ==
  ASSUME NEW x \in Images, current \in Partitions PROVE Invalidation(x) \in Ops
<1>1. {Size[x]} \in SUBSET Pieces
  BY SizeFacts
<1>2. [k \in {Size[x]} |-> Zeroed] \in [{Size[x]} -> Piece]
  BY DEF Piece
<1>. QED  BY <1>1, <1>2, OperationType DEF Invalidation

ErasePart(p, n) == Operation(p, [k \in SectorPieces(n) |-> Erased])
BufferPart(p, buf, k) == Operation(p, [i \in {k} |-> buf[(i - 1) % SectorSize]])

\* To bring a sector to what the buffer has: nothing, its pages, or an erasure and
\* its pages.
Brings(ops, p, n, buf, top) ==
  /\ ops \in Seq(Ops) /\ Len(ops) \in {0, SectorSize, SectorSize + 1}
  /\ \A j \in 1 .. Len(ops) :
       ops[j] = IF Len(ops) - j = SectorSize THEN ErasePart(p, n)
                                             ELSE BufferPart(p, buf, top - Len(ops) + j)
  /\ Len(ops) = 0 => \A k \in SectorPieces(n) : flash[p][k] = buf[(k - 1) % SectorSize]

LEMMA EraseAndWriteShape ==
  ASSUME NEW p \in Partitions, NEW n \in Nat, (n + 1) * SectorSize <= NumPieces,
         NEW buf \in [0 .. SectorSize - 1 -> Piece]
  PROVE  Brings(EraseAndWrite(p, n, buf), p, n, buf, (n + 1) * SectorSize)
<1>. DEFINE es == EraseAndWrite(p, n, buf)
            top == (n + 1) * SectorSize
<1>0. SUFFICES Brings(es, p, n, buf, top)
  OBVIOUS
<1>. DEFINE wanted == [k \in SectorPieces(n) |-> buf[(k - 1) % SectorSize]]
            erase == Operation(p, [k \in SectorPieces(n) |-> Erased])
            page(i) == Operation(p, [k \in {n * SectorSize + i} |-> wanted[k]])
            pages == [i \in 1 .. SectorSize |-> page(i)]
<1>1. /\ n * SectorSize \in Nat /\ top = n * SectorSize + SectorSize /\ top \in Nat
      /\ SectorPieces(n) \in SUBSET Pieces
  BY SizeAssumption DEF SectorPieces, Pieces
<1>2. wanted \in [SectorPieces(n) -> Piece]
  BY PlaceInBuffer
<1>3. erase \in Ops
  BY <1>1, OperationType DEF Piece
<1>4. ASSUME NEW i \in 1 .. SectorSize
      PROVE  /\ page(i) \in Ops
             /\ page(i) = BufferPart(p, buf, n * SectorSize + i)
  <2>1. n * SectorSize + i \in SectorPieces(n)
    BY <1>1, SizeAssumption DEF SectorPieces
  <2>2. [k \in {n * SectorSize + i} |-> wanted[k]] \in [{n * SectorSize + i} -> Piece]
    BY <2>1, <1>2
  <2>3. [k \in {n * SectorSize + i} |-> wanted[k]]
          = [k \in {n * SectorSize + i} |-> buf[(k - 1) % SectorSize]]
    BY <2>1
  <2>. QED  BY <2>1, <2>2, <2>3, <1>1, OperationType DEF BufferPart
<1>. HIDE DEF page
<1>5. /\ pages \in Seq(Ops) /\ Len(pages) = SectorSize
      /\ \A i \in 1 .. SectorSize : pages[i] = page(i)
  <2>1. pages \in [1 .. SectorSize -> Ops]
    BY <1>4
  <2>2. SectorSize \in Nat
    BY SizeAssumption
  <2>3. pages \in Seq(Ops)
    BY <2>1, <2>2
  <2>4. Len(pages) = SectorSize
    BY <2>1, <2>2, <2>3
  <2>. QED  BY <2>3, <2>4
<1>. HIDE DEF pages, erase, top
<1>6. es = <<>> \/ es = pages \/ es = <<erase>> \o pages
  BY DEF EraseAndWrite, pages, page, erase
<1>. HIDE DEF es
<1>7. CASE es = <<>>
  <2>1. \A i \in 1 .. SectorSize : pages # <<>>
    BY <1>5
  <2>2. <<erase>> \o pages # <<>>
    BY <1>3, <1>5
  <2>3. pages # <<>>
    BY <1>5, SizeAssumption
  <2>4. {k \in SectorPieces(n) : flash[p][k] # wanted[k]} = {}
    BY <1>7, <2>2, <2>3 DEF es, EraseAndWrite, pages, page, erase
  <2>5. \A k \in SectorPieces(n) : flash[p][k] = buf[(k - 1) % SectorSize]
    BY <2>4
  <2>. QED  BY <1>7, <2>5, SizeAssumption DEF Brings
<1>8. CASE es = pages
  <2>1. \A j \in 1 .. SectorSize : SectorSize - j # SectorSize
    BY SizeAssumption
  <2>2. \A j \in 1 .. SectorSize : top - SectorSize + j = n * SectorSize + j
    BY <1>1, SizeAssumption
  <2>3. es \in Seq(Ops) /\ Len(es) = SectorSize /\ SectorSize # 0
    BY <1>8, <1>5, SizeAssumption
  <2>4. \A j \in 1 .. SectorSize :
          es[j] = BufferPart(p, buf, top - SectorSize + j)
    BY <1>8, <1>5, <1>4, <2>2
  <2>. QED  BY <2>1, <2>3, <2>4, SizeAssumption DEF Brings
<1>9. CASE es = <<erase>> \o pages
  <2>1. es \in Seq(Ops) /\ Len(es) = SectorSize + 1
    BY <1>9, <1>3, <1>5, SizeAssumption
  <2>2. es[1] = erase /\ \A j \in 2 .. SectorSize + 1 : es[j] = pages[j - 1]
    BY <1>9, <1>3, <1>5, SizeAssumption
  <2>3. ASSUME NEW j \in 2 .. SectorSize + 1
        PROVE  es[j] = BufferPart(p, buf, top - (SectorSize + 1) + j)
    <3>1. j - 1 \in 1 .. SectorSize
      BY SizeAssumption
    <3>2. top - (SectorSize + 1) + j = n * SectorSize + (j - 1)
      BY <1>1, SizeAssumption
    <3>. QED  BY <2>2, <3>1, <3>2, <1>5, <1>4
  <2>4. \A j \in 2 .. SectorSize + 1 : SectorSize + 1 - j # SectorSize
    BY SizeAssumption
  <2>5. ASSUME NEW j \in 1 .. SectorSize + 1 PROVE j = 1 \/ j \in 2 .. SectorSize + 1
    BY SizeAssumption
  <2>6. /\ erase = ErasePart(p, n) /\ SectorSize + 1 - 1 = SectorSize
        /\ SectorSize + 1 # 0
    BY SizeAssumption DEF erase, ErasePart
  <2>7. ASSUME NEW j \in 1 .. SectorSize + 1
        PROVE  es[j] = IF SectorSize + 1 - j = SectorSize THEN ErasePart(p, n)
                       ELSE BufferPart(p, buf, top - (SectorSize + 1) + j)
    <3>1. CASE j = 1
      BY <3>1, <2>2, <2>6
    <3>2. CASE j \in 2 .. SectorSize + 1
      BY <3>2, <2>3, <2>4
    <3>. QED  BY <2>5, <3>1, <3>2
  <2>. HIDE DEF erase
  <2>8. \A j \in 1 .. Len(es) : es[j] = IF Len(es) - j = SectorSize THEN ErasePart(p, n)
                                        ELSE BufferPart(p, buf, top - Len(es) + j)
    BY <2>1, <2>7, SizeAssumption
  <2>9. Len(es) # 0 /\ Len(es) \in {0, SectorSize, SectorSize + 1}
    BY ONLY <2>1, <2>6
  <2>. QED  BY ONLY <2>1, <2>8, <2>9 DEF Brings
<1>. QED  BY <1>6, <1>7, <1>8, <1>9

\* So it programs a sector of image x, if that is what the buffer has.
BringsImage(ops, x, top) ==
  /\ ops \in Seq(Ops) /\ Len(ops) \in {0, SectorSize, SectorSize + 1}
  /\ Programs(ops, x, top, Len(ops))
  /\ Len(ops) = 0 => \A k \in top - SectorSize + 1 .. top : flash[next][k] = Content(x)[k]

LEMMA EraseAndWriteOf ==
  ASSUME NEW n \in Nat, (n + 1) * SectorSize <= NumPieces, NEW x \in Images,
         NEW buf \in [0 .. SectorSize - 1 -> Piece],
         \A i \in 0 .. SectorSize - 1 : buf[i] = Content(x)[n * SectorSize + i + 1]
  PROVE  BringsImage(EraseAndWrite(next, n, buf), x, (n + 1) * SectorSize)
<1>. DEFINE es == EraseAndWrite(next, n, buf)
            top == (n + 1) * SectorSize
<1>1. next \in Partitions
  BY OtherPartition DEF next
<1>2. /\ n * SectorSize \in Nat /\ top = n * SectorSize + SectorSize
      /\ SectorPieces(n) = top - SectorSize + 1 .. top
  BY SizeAssumption DEF SectorPieces
<1>3. ASSUME NEW k \in SectorPieces(n) PROVE buf[(k - 1) % SectorSize] = Content(x)[k]
  <2>. DEFINE i == k - 1 - n * SectorSize
  <2>1. i \in 0 .. SectorSize - 1 /\ (k - 1) % SectorSize = i
    BY PlaceInBuffer
  <2>2. n * SectorSize + i + 1 = k
    BY <1>2, SizeAssumption DEF SectorPieces
  <2>. QED  BY <2>1, <2>2
<1>4. ASSUME NEW k \in SectorPieces(n)
      PROVE  BufferPart(next, buf, k) = PageOp(x, k)
  BY <1>3 DEF PageOp, BufferPart
<1>5. Brings(es, next, n, buf, top)
  BY <1>1, EraseAndWriteShape
<1>. HIDE DEF es, top
<1>6. ASSUME NEW j \in 1 .. Len(es), Len(es) - j # SectorSize
      PROVE  top - Len(es) + j \in SectorPieces(n)
  <2>1. /\ Len(es) \in Nat /\ Len(es) <= SectorSize + 1 /\ j \in Nat /\ 1 <= j /\ j <= Len(es)
        /\ Len(es) - j # SectorSize
    BY <1>5, <1>6, SizeAssumption DEF Brings
  <2>2. Len(es) - j <= SectorSize - 1
    BY <2>1, SizeAssumption
  <2>. QED  BY <1>2, <2>1, <2>2, SizeAssumption
<1>7. Programs(es, x, top, Len(es))
  BY <1>2, <1>4, <1>5, <1>6 DEF Programs, EraseOp, ErasePart, Brings
<1>8. BringsImage(es, x, top)
  BY <1>2, <1>3, <1>5, <1>7 DEF Brings, BringsImage
<1>. QED  BY <1>8 DEF es, top

-----------------------------------------------------------------------------
(* Types, whether or not there is one update between two power-ons.        *)

LEMMA TypedInit == Init => Typed
<1>. SUFFICES ASSUME Init PROVE Typed
  OBVIOUS
<1>. USE DEF Init
<1>1. flash \in [Partitions -> [Pieces -> Piece]]
  <2>1. PICK old \in Images :
          flash = [p \in Partitions |->
                     [k \in Pieces |->
                        IF p = "A" THEN IF k <= Size[Factory] THEN <<Factory, k>> ELSE Erased
                        ELSE IF k \in SectorPieces(0) \/ k > Size[old] THEN Erased
                        ELSE <<old, k>>]]
    OBVIOUS
  <2>. QED  BY <2>1, FactoryAssumption DEF Piece
<1>2. current \in Partitions \cup {None} /\ halted \in BOOLEAN /\ ota_token \in Sources \cup {None}
  BY DEF Partitions
<1>3. job \in [Sources -> Job] /\ \A src \in Sources : job[src] = NoJob
  BY DEF Job
<1>4. buffer \in [0 .. SectorSize - 1 -> Piece]
  BY DEF EmptyBuffer, Piece
<1>5. todo \in Seq(Ops) /\ Len(todo) = 0
  OBVIOUS
<1>6. Bounded
  BY <1>3 DEF Bounded, Served
<1>7. /\ write_cursor \in 0 .. NumPieces \cup {None} /\ serving \in Serving \cup {None}
      /\ \A i \in 1 .. Len(todo) : todo[i].partition \in Partitions
                                   /\ DOMAIN todo[i].pieces \subseteq Pieces
  BY <1>5
<1>. QED  BY <1>1, <1>2, <1>3, <1>4, <1>5, <1>6, <1>7 DEF Typed, TypeOK

LEMMA TodoTyped ==
  ASSUME NEW ops \in Seq(Ops)
  PROVE  \A i \in 1 .. Len(ops) : ops[i].partition \in Partitions
                                  /\ DOMAIN ops[i].pieces \subseteq Pieces
<1>1. \A i \in 1 .. Len(ops) : ops[i] \in Ops
  OBVIOUS
<1>. QED  BY <1>1, OpFacts

\* A program that runs has an image; what it has sent is counted.
LEMMA JobFields ==
  ASSUME job \in [Sources -> Job], NEW src \in Sources
  PROVE  /\ job[src] # NoJob => /\ job[src] \in [image : Images, sent : 0 .. NumPieces + 1]
                                /\ job[src].image \in Images
                                /\ job[src].sent \in 0 .. NumPieces + 1
         /\ job[src] = NoJob => job[src].image = None /\ job[src].sent = 0
         /\ job[src].image # None <=> job[src] # NoJob
BY NoneAssumption DEF Job, NoJob

LEMMA ServingFields ==
  ASSUME serving \in Serving \cup {None}, serving # None
  PROVE  /\ serving.source \in Sources \cup {None} /\ serving.image \in Images
         /\ serving.sent \in 0 .. NumPieces + 1 /\ serving.ok \in BOOLEAN
BY DEF Serving

LEMMA PushDataTyped ==
  ASSUME Typed, NEW piece \in Piece, PushData(piece)
  PROVE  /\ write_cursor' \in 0 .. NumPieces \cup {None}
         /\ buffer' \in [0 .. SectorSize - 1 -> Piece] /\ todo' \in Seq(Ops)
<1>1. CASE write_cursor # None /\ write_cursor < NumPieces
  <2>1. write_cursor \in 0 .. NumPieces - 1 /\ write_cursor' = write_cursor + 1
    BY <1>1, SizeAssumption DEF Typed, TypeOK, PushData
  <2>2. EmptyBuffer \in [0 .. SectorSize - 1 -> Piece]
    BY DEF EmptyBuffer, Piece
  <2>3. buffer' \in [0 .. SectorSize - 1 -> Piece]
    BY <1>1, <2>2 DEF Typed, TypeOK, PushData
  <2>4. todo' \in Seq(Ops)
    <3>1. CASE todo' = <<>>
      BY <3>1
    <3>2. CASE UNCHANGED todo
      BY <3>2 DEF Typed
    <3>3. CASE write_cursor # 0 /\ todo' = EraseAndWrite(next, BlockNum(write_cursor), buffer)
      <4>1. write_cursor \in 1 .. NumPieces
        BY <2>1, <3>3, SizeAssumption
      <4>2. BlockNum(write_cursor) \in Nat
            /\ (BlockNum(write_cursor) + 1) * SectorSize <= NumPieces
        BY <4>1, BufferedSector, SizeAssumption
      <4>3. next \in Partitions /\ buffer \in [0 .. SectorSize - 1 -> Piece]
        BY OtherPartition DEF next, Typed, TypeOK
      <4>4. Brings(todo', next, BlockNum(write_cursor), buffer,
                   (BlockNum(write_cursor) + 1) * SectorSize)
        BY <3>3, <4>2, <4>3, EraseAndWriteShape
      <4>. QED  BY <4>4 DEF Brings
    <3>. QED  BY <1>1, <3>1, <3>2, <3>3 DEF PushData
  <2>. QED  BY <2>1, <2>3, <2>4, SizeAssumption
<1>2. CASE ~ (write_cursor # None /\ write_cursor < NumPieces)
  BY <1>2 DEF PushData, Typed, TypeOK
<1>. QED  BY <1>1, <1>2

LEMMA FinishTyped ==
  ASSUME Typed, Finish, current # None, write_cursor \notin {None, 0}
  PROVE  todo' \in Seq(Ops)
<1>1. PICK x \in Images :
        todo' = Append(EraseAndWrite(next, BlockNum(write_cursor), buffer), Invalidation(x))
  BY DEF Finish
<1>2. write_cursor \in 1 .. NumPieces
  BY SizeAssumption DEF Typed, TypeOK
<1>3. BlockNum(write_cursor) \in Nat /\ (BlockNum(write_cursor) + 1) * SectorSize <= NumPieces
  BY <1>2, BufferedSector, SizeAssumption
<1>4. next \in Partitions /\ buffer \in [0 .. SectorSize - 1 -> Piece] /\ current \in Partitions
  BY OtherPartition DEF next, Typed, TypeOK
<1>5. Brings(EraseAndWrite(next, BlockNum(write_cursor), buffer), next, BlockNum(write_cursor),
             buffer, (BlockNum(write_cursor) + 1) * SectorSize)
  BY <1>3, <1>4, EraseAndWriteShape
<1>6. Invalidation(x) \in Ops
  BY <1>4, InvalidationType
<1>. QED  BY <1>1, <1>5, <1>6 DEF Brings

LEMMA AnswerTyped ==
  ASSUME Typed, NEW src \in Sources, job[src] # NoJob, NEW ok \in BOOLEAN, Answer(src, ok)
  PROVE  /\ serving' \in Serving /\ serving' # None
         /\ serving'.source = src /\ serving'.ok = ok
         /\ serving'.image = job[src].image /\ serving'.sent = job[src].sent
         /\ serving'.sent <= Size[serving'.image] + 1
<1>1. job[src].image \in Images /\ job[src].sent \in 0 .. NumPieces + 1
  BY JobFields DEF Typed, TypeOK
<1>2. serving' \in Serving
  BY <1>1 DEF Answer, Serving
<1>. QED  BY <1>1, <1>2, NoneAssumption DEF Answer, Typed, Bounded

\* A packet is answered while the programs stay where they are.
LEMMA AnswerBounded ==
  ASSUME Typed, NEW src \in Sources, job[src] # NoJob, NEW ok \in BOOLEAN, Answer(src, ok),
         UNCHANGED job
  PROVE  Bounded'
BY AnswerTyped DEF Typed, Bounded, Served

LEMMA TypedNext == ASSUME Typed, Next PROVE Typed'
<1>. USE DEF Typed, TypeOK, host
<1>1. ASSUME NEW src \in Sources, StartJob(src) PROVE Typed'
  <2>1. PICK x \in Images : job' = [job EXCEPT ![src] = [image |-> x, sent |-> 0]]
    BY <1>1 DEF StartJob
  <2>2. job[src] = NoJob /\ UNCHANGED <<flash, host, write_cursor, buffer, todo, serving, ota_token>>
    BY <1>1 DEF StartJob
  <2>3. [image |-> x, sent |-> 0] \in Job
    BY SizeAssumption DEF Job
  <2>4. job' \in [Sources -> Job]
    BY <2>1, <2>3
  <2>5. ~ Served(src)
    BY <2>2, JobFields, ServingFields, NoneAssumption DEF Bounded, Served
  <2>6. 0 <= Size[x] + 1
    BY SizeFacts
  <2>7. Bounded'
    BY <2>1, <2>2, <2>5, <2>6 DEF Bounded, Served
  <2>. QED  BY <2>2, <2>4, <2>7
<1>2. ASSUME NEW src \in Sources, QuitJob(src) PROVE Typed'
  <2>1. /\ job' = [job EXCEPT ![src] = NoJob] /\ job[src] # NoJob
        /\ UNCHANGED <<flash, host, write_cursor, buffer, todo, ota_token>>
        /\ serving' = IF Served(src) THEN [serving EXCEPT !.source = None] ELSE serving
    BY <1>2 DEF QuitJob, Served
  <2>2. job' \in [Sources -> Job]
    BY <2>1 DEF Job
  <2>3. serving' \in Serving \cup {None}
    BY <2>1 DEF Serving, Served
  <2>4. CASE Served(src)
    <3>1. serving # None /\ serving' = [serving EXCEPT !.source = None]
      BY <2>1, <2>4 DEF Served
    <3>2. /\ serving'.source = None /\ serving'.image = serving.image
          /\ serving'.sent = serving.sent
      BY <3>1 DEF Serving
    <3>3. \A s \in Sources : ~ Served(s)'
      BY <3>2, NoneAssumption DEF Served
    <3>4. Bounded'
      BY <2>1, <3>1, <3>2, <3>3 DEF Bounded
    <3>. QED  BY <2>1, <2>2, <2>3, <3>4
  <2>5. CASE ~ Served(src)
    <3>1. Bounded'
      BY <2>1, <2>5 DEF Bounded, Served
    <3>. QED  BY <2>1, <2>2, <2>3, <3>1
  <2>. QED  BY <2>4, <2>5
<1>3. ASSUME NEW src \in Sources, OtaBegin(src) PROVE Typed'
  <2>1. /\ job[src] # NoJob /\ Answer(src, TRUE) /\ write_cursor' = 0 /\ ota_token' = src
        /\ UNCHANGED <<flash, host, buffer, todo, job>>
    BY <1>3 DEF OtaBegin, Delivered
  <2>2. serving' \in Serving /\ Bounded'
    BY <2>1, AnswerTyped, AnswerBounded
  <2>3. 0 \in 0 .. NumPieces
    BY SizeAssumption
  <2>. QED  BY <2>1, <2>2, <2>3
<1>4. ASSUME NEW src \in Sources, OtaData(src) PROVE Typed'
  <2>1. PICK n \in 1 .. NumPieces :
          /\ job[src] # NoJob /\ n <= Size[job[src].image]
          /\ IF ota_token = src
             THEN PushData(<<job[src].image, n>>)
             ELSE UNCHANGED <<write_cursor, buffer, todo>>
          /\ Answer(src, ota_token = src)
    BY <1>4 DEF OtaData, Delivered
  <2>2. UNCHANGED <<flash, host, ota_token, job>>
    BY <1>4 DEF OtaData
  <2>3. (ota_token = src) \in BOOLEAN
    OBVIOUS
  <2>4. serving' \in Serving /\ Bounded'
    BY <2>1, <2>2, <2>3, AnswerTyped, AnswerBounded
  <2>5. <<job[src].image, n>> \in Piece
    BY <2>1, JobFields DEF Piece, Pieces
  <2>6. /\ write_cursor' \in 0 .. NumPieces \cup {None}
        /\ buffer' \in [0 .. SectorSize - 1 -> Piece] /\ todo' \in Seq(Ops)
    <3>1. CASE ota_token = src
      <4>1. PushData(<<job[src].image, n>>)
        BY <2>1, <3>1
      <4>. QED  BY <4>1, <2>5, PushDataTyped
    <3>2. CASE ota_token # src
      BY <2>1, <3>2
    <3>. QED  BY <3>1, <3>2
  <2>7. \A i \in 1 .. Len(todo') : todo'[i].partition \in Partitions
                                   /\ DOMAIN todo'[i].pieces \subseteq Pieces
    BY <2>6, TodoTyped
  <2>. QED  BY <2>2, <2>4, <2>6, <2>7
<1>5. ASSUME NEW src \in Sources, OtaEnd(src) PROVE Typed'
  <2>1. /\ job[src] # NoJob /\ current # None /\ Answer(src, ota_token = src)
        /\ UNCHANGED <<flash, host, buffer, ota_token, job>>
        /\ IF ota_token = src /\ write_cursor \notin {None, 0}
           THEN Finish ELSE UNCHANGED <<write_cursor, todo>>
    BY <1>5 DEF OtaEnd, Delivered, Ready
  <2>2. (ota_token = src) \in BOOLEAN
    OBVIOUS
  <2>3. serving' \in Serving /\ Bounded'
    BY <2>1, <2>2, AnswerTyped, AnswerBounded
  <2>4. todo' \in Seq(Ops) /\ write_cursor' \in 0 .. NumPieces \cup {None}
    <3>1. CASE ota_token = src /\ write_cursor \notin {None, 0}
      <4>1. Finish
        BY <2>1, <3>1
      <4>2. todo' \in Seq(Ops)
        BY <4>1, <3>1, <2>1, FinishTyped
      <4>. QED  BY <4>1, <4>2 DEF Finish
    <3>2. CASE ~ (ota_token = src /\ write_cursor \notin {None, 0})
      BY <2>1, <3>2
    <3>. QED  BY <3>1, <3>2
  <2>5. \A i \in 1 .. Len(todo') : todo'[i].partition \in Partitions
                                   /\ DOMAIN todo'[i].pieces \subseteq Pieces
    BY <2>4, TodoTyped
  <2>. QED  BY <2>1, <2>3, <2>4, <2>5
<1>6. CASE FlashOperation
  <2>1. UNCHANGED <<current, write_cursor, buffer, serving, ota_token, job>> /\ todo # <<>>
    BY <1>6 DEF FlashOperation
  <2>2. Head(todo) \in Ops /\ Tail(todo) \in Seq(Ops)
    BY <2>1
  <2>. DEFINE o == Head(todo)
  <2>3. \/ halted' = TRUE /\ UNCHANGED <<flash, todo>>
        \/ /\ flash' = [flash EXCEPT ![o.partition] =
                          [i \in Pieces |-> IF i \in DOMAIN o.pieces THEN o.pieces[i] ELSE @[i]]]
           /\ todo' = Tail(todo) /\ UNCHANGED halted
    BY <1>6 DEF FlashOperation
  <2>. HIDE DEF o
  <2>4. /\ o.partition \in Partitions
        /\ \A k \in DOMAIN o.pieces : o.pieces[k] \in Piece
    BY <2>2, OpFacts DEF o
  <2>5. /\ flash' \in [Partitions -> [Pieces -> Piece]] /\ halted' \in BOOLEAN
        /\ todo' \in Seq(Ops)
    <3>1. [i \in Pieces |-> IF i \in DOMAIN o.pieces THEN o.pieces[i] ELSE flash[o.partition][i]]
            \in [Pieces -> Piece]
      BY <2>4
    <3>. QED  BY <2>2, <2>3, <2>4, <3>1
  <2>6. \A i \in 1 .. Len(todo') : todo'[i].partition \in Partitions
                                   /\ DOMAIN todo'[i].pieces \subseteq Pieces
    BY <2>5, TodoTyped
  <2>7. Bounded'
    BY <2>1 DEF Bounded, Served
  <2>. QED  BY <2>1, <2>5, <2>6, <2>7
<1>7. CASE Reply
  <2>. DEFINE src == serving.source
              done == ~ serving.ok \/ serving.sent > Size[serving.image]
  <2>1. /\ serving # None /\ serving' = None
        /\ UNCHANGED <<flash, host, write_cursor, buffer, todo, ota_token>>
        /\ job' = IF src = None THEN job
                  ELSE IF done THEN [job EXCEPT ![src] = NoJob]
                  ELSE [job EXCEPT ![src].sent = @ + 1]
    BY <1>7 DEF Reply
  <2>2. src \in Sources \cup {None} /\ serving.image \in Images /\ serving.sent \in Nat
    BY <2>1, ServingFields, SizeAssumption
  <2>3. CASE src = None
    <3>1. Bounded'
      BY <2>1, <2>3 DEF Bounded, Served
    <3>. QED  BY <2>1, <2>3, <3>1
  <2>4. CASE src # None /\ done
    <3>1. job' = [job EXCEPT ![src] = NoJob]
      BY <2>1, <2>4
    <3>2. job' \in [Sources -> Job]
      BY <3>1 DEF Job
    <3>3. Bounded'
      BY <2>1, <2>2, <3>1 DEF Bounded, Served
    <3>. QED  BY <2>1, <3>2, <3>3
  <2>5. CASE src # None /\ ~ done
    <3>1. src \in Sources /\ Served(src)
      BY <2>1, <2>2, <2>5 DEF Served
    <3>2. job[src].image = serving.image /\ job[src].sent = serving.sent
      BY <3>1 DEF Bounded
    <3>3. job[src] # NoJob
      BY <3>1, <3>2, <2>2, JobFields, NoneAssumption
    <3>4. job[src] \in [image : Images, sent : 0 .. NumPieces + 1]
      BY <3>1, <3>3, JobFields
    <3>5. serving.sent <= Size[serving.image]
      BY <2>2, <2>5, SizeFacts
    <3>6. job[src].sent + 1 \in 0 .. NumPieces + 1 /\ job[src].sent + 1 <= Size[job[src].image] + 1
      BY <2>2, <3>5, <3>2, <3>4, SizeFacts, SizeAssumption
    <3>7. job' = [job EXCEPT ![src].sent = job[src].sent + 1]
      BY <2>1, <2>5
    <3>8. /\ job'[src] = [image |-> job[src].image, sent |-> job[src].sent + 1]
          /\ \A s \in Sources \ {src} : job'[s] = job[s]
      BY <3>1, <3>4, <3>7
    <3>9. job' \in [Sources -> Job]
      <4>1. [image |-> job[src].image, sent |-> job[src].sent + 1] \in Job
        BY <3>4, <3>6 DEF Job
      <4>2. \A s \in Sources : job'[s] \in Job
        BY <3>8, <4>1
      <4>. QED  BY <3>7, <4>2
    <3>10. Bounded'
      <4>. HIDE DEF src
      <4>. QED  BY <2>1, <3>1, <3>6, <3>8 DEF Bounded, Served
    <3>. QED  BY <2>1, <3>9, <3>10
  <2>. QED  BY <2>2, <2>3, <2>4, <2>5
<1>8. CASE PowerCycle
  <2>1. /\ UNCHANGED flash /\ current' = BootChoice /\ halted' = FALSE /\ write_cursor' = None
        /\ buffer' = EmptyBuffer /\ todo' = <<>> /\ serving' = None /\ ota_token' = None
        /\ job' = [s \in Sources |-> NoJob]
    BY <1>8 DEF PowerCycle
  <2>2. current' \in Partitions \cup {None}
    BY <2>1 DEF BootChoice, Partitions
  <2>3. buffer' \in [0 .. SectorSize - 1 -> Piece] /\ job' \in [Sources -> Job]
    BY <2>1 DEF EmptyBuffer, Piece, Job
  <2>4. todo' \in Seq(Ops)
    BY <2>1
  <2>5. Bounded'
    BY <2>1 DEF Bounded, Served
  <2>6. \A i \in 1 .. Len(todo') : todo'[i].partition \in Partitions
                                   /\ DOMAIN todo'[i].pieces \subseteq Pieces
    BY <2>4, TodoTyped
  <2>. QED  BY <2>1, <2>2, <2>3, <2>4, <2>5, <2>6
<1>. QED  BY <1>1, <1>2, <1>3, <1>4, <1>5, <1>6, <1>7, <1>8 DEF Next

-----------------------------------------------------------------------------
(* What a flash operation does, if updates are one between two power-ons.  *)

LEMMA OnlyMember == ASSUME NEW a PROVE (CHOOSE k \in {a} : TRUE) = a
OBVIOUS

\* Where the pieces of the other partition are after a step of programming a sector.
NextPieces(x, top, left) ==
  \A k \in Pieces :
    flash'[next][k] = IF left = SectorSize + 1 /\ k \in top - SectorSize + 1 .. top THEN Erased
                      ELSE IF left <= SectorSize /\ k = top - left + 1 THEN Content(x)[k]
                      ELSE flash[next][k]

LEMMA OperationEffect ==
  ASSUME Typed, NEW p \in Partitions, NEW f, FlashOperation, Head(todo) = Operation(p, f),
         p # current
  PROVE  /\ flash' = [flash EXCEPT ![p] = [i \in Pieces |->
                        IF i \in DOMAIN f THEN f[i] ELSE flash[p][i]]]
         /\ todo' = Tail(todo) /\ UNCHANGED halted
BY DEF FlashOperation, Operation

\* A step of programming a sector; and the one of invalidating the running image.
ProgramsPieces(x, top, left) ==
  /\ UNCHANGED halted /\ todo' = Tail(todo) /\ flash'[current] = flash[current]
  /\ NextPieces(x, top, left)
  /\ Programs(todo, x, top, left - 1)' /\ InFlash(x, Programmed(top, left - 1))'
Invalidates(r) ==
  /\ UNCHANGED halted /\ todo' = <<>> /\ flash'[next] = flash[next]
  /\ flash'[current] = [flash[current] EXCEPT ![Size[r]] = Zeroed]

LEMMA ProgramStep ==
  ASSUME Typed, current \in Partitions, FlashOperation,
         NEW x \in Images, NEW top \in SectorSize .. NumPieces, NEW left \in 1 .. SectorSize + 1,
         left <= Len(todo), Programs(todo, x, top, left), InFlash(x, Programmed(top, left))
  PROVE  ProgramsPieces(x, top, left)
<1>1. /\ SectorSize \in Nat /\ SectorSize >= 1 /\ NumPieces \in Nat /\ top \in Nat
      /\ next \in Partitions /\ next # current /\ next' = next
      /\ flash \in [Partitions -> [Pieces -> Piece]] /\ todo \in Seq(Ops) /\ Len(todo) >= 1
  BY SizeAssumption, OtherPartition DEF Typed, TypeOK, next, FlashOperation
<1>2. Head(todo) = IF left - 1 = SectorSize THEN EraseOp(top) ELSE PageOp(x, top - left + 1)
  BY <1>1 DEF Programs
<1>3. /\ UNCHANGED halted /\ todo' = Tail(todo) /\ flash'[current] = flash[current]
      /\ NextPieces(x, top, left)
  <2>1. CASE left = SectorSize + 1
    <3>1. Head(todo) = Operation(next, [k \in top - SectorSize + 1 .. top |-> Erased])
      BY <1>1, <1>2, <2>1 DEF EraseOp
    <3>2. /\ flash' = [flash EXCEPT ![next] = [i \in Pieces |->
                         IF i \in top - SectorSize + 1 .. top THEN Erased ELSE flash[next][i]]]
          /\ todo' = Tail(todo) /\ UNCHANGED halted
      <4>. DEFINE f == [k \in top - SectorSize + 1 .. top |-> Erased]
      <4>1. /\ flash' = [flash EXCEPT ![next] = [i \in Pieces |->
                           IF i \in DOMAIN f THEN f[i] ELSE flash[next][i]]]
            /\ todo' = Tail(todo) /\ UNCHANGED halted
        <5>. HIDE DEF f, next
        <5>. QED  BY <1>1, <3>1, OperationEffect DEF f
      <4>. QED  BY <4>1
    <3>. QED  BY <1>1, <3>2, <2>1 DEF NextPieces
  <2>2. CASE left <= SectorSize
    <3>1. Head(todo) = Operation(next, [i \in {top - left + 1} |-> Content(x)[top - left + 1]])
      BY <1>1, <1>2, <2>2 DEF PageOp
    <3>2. /\ flash' = [flash EXCEPT ![next] = [i \in Pieces |->
                         IF i = top - left + 1 THEN Content(x)[top - left + 1] ELSE flash[next][i]]]
          /\ todo' = Tail(todo) /\ UNCHANGED halted
      <4>. DEFINE f == [i \in {top - left + 1} |-> Content(x)[top - left + 1]]
      <4>1. /\ flash' = [flash EXCEPT ![next] = [i \in Pieces |->
                           IF i \in DOMAIN f THEN f[i] ELSE flash[next][i]]]
            /\ todo' = Tail(todo) /\ UNCHANGED halted
        <5>. HIDE DEF f, next
        <5>. QED  BY <1>1, <3>1, OperationEffect DEF f
      <4>. QED  BY <4>1
    <3>. QED  BY <1>1, <3>2, <2>2 DEF NextPieces
  <2>. QED  BY <2>1, <2>2, <1>1
<1>4. Programs(todo, x, top, left - 1)'
  <2>1. SUFFICES ASSUME NEW j \in 1 .. left - 1
                 PROVE  todo'[j] = IF (left - 1) - j = SectorSize THEN EraseOp(top)'
                                   ELSE PageOp(x, top - (left - 1) + j)'
    BY DEF Programs
  <2>2. todo'[j] = todo[j + 1]
    BY <1>1, <1>3
  <2>3. j + 1 \in 1 .. left /\ left - (j + 1) = (left - 1) - j
        /\ top - left + (j + 1) = top - (left - 1) + j
    BY <1>1
  <2>4. EraseOp(top)' = EraseOp(top) /\ PageOp(x, top - (left - 1) + j)' = PageOp(x, top - (left - 1) + j)
    BY <1>1 DEF EraseOp, PageOp
  <2>. QED  BY <2>2, <2>3, <2>4 DEF Programs
<1>5. InFlash(x, Programmed(top, left - 1))'
  <2>1. SUFFICES ASSUME NEW k \in 1 .. Programmed(top, left - 1)
                 PROVE  flash'[next][k] = Content(x)[k]
    BY <1>1 DEF InFlash, Programmed, Content
  <2>2. k \in Pieces
    BY <1>1 DEF Programmed, Pieces
  <2>3. CASE k \in 1 .. Programmed(top, left)
    <3>1. flash[next][k] = Content(x)[k]
      BY <2>3 DEF InFlash
    <3>2. ~ (left = SectorSize + 1 /\ k \in top - SectorSize + 1 .. top)
      BY <1>1, <2>3 DEF Programmed
    <3>. QED  BY <3>1, <3>2, <2>2, <1>3 DEF NextPieces
  <2>4. CASE k \notin 1 .. Programmed(top, left)
    <3>1. left <= SectorSize /\ k = top - left + 1
      BY <1>1, <2>4 DEF Programmed
    <3>. QED  BY <3>1, <2>2, <1>1, <1>3 DEF NextPieces
  <2>. QED  BY <2>3, <2>4
<1>. QED  BY <1>3, <1>4, <1>5 DEF ProgramsPieces

\* Invalidating finds its marker, and removes it.
LEMMA InvalidateStep ==
  ASSUME Typed, current \in Partitions, FlashOperation, Len(todo) = 1,
         NEW r \in Images, todo[1] = Invalidation(r), Holds(current, r)
  PROVE  Invalidates(r)
<1>1. /\ Size[r] \in Pieces /\ Size[r] \in 1 .. Size[r] /\ next \in Partitions /\ next # current
      /\ flash \in [Partitions -> [Pieces -> Piece]] /\ todo \in Seq(Ops)
  BY SizeFacts, OtherPartition DEF Typed, TypeOK, next
<1>2. flash[current][Size[r]] = <<r, Size[r]>>
  BY <1>1 DEF Holds
<1>3. flash[current][Size[r]] # Zeroed
  BY <1>1, <1>2, MarkAssumption
<1>. DEFINE f == [k \in {Size[r]} |-> Zeroed]
<1>4. /\ Head(todo) = Operation(current, f) /\ (CHOOSE k \in DOMAIN f : TRUE) = Size[r]
  BY <1>1, OnlyMember DEF Invalidation
<1>. HIDE DEF f
<1>5. Head(todo).partition = current /\ Head(todo).pieces = f
  BY <1>4 DEF Operation
<1>6. /\ flash' = [flash EXCEPT ![current] = [i \in Pieces |->
                     IF i \in DOMAIN f THEN f[i] ELSE flash[current][i]]]
      /\ todo' = Tail(todo) /\ UNCHANGED halted
  BY <1>3, <1>4, <1>5 DEF FlashOperation
<1>7. flash'[current] = [i \in Pieces |-> IF i = Size[r] THEN Zeroed ELSE flash[current][i]]
  BY <1>1, <1>6 DEF f
<1>. QED  BY <1>1, <1>6, <1>7 DEF Invalidates

LEMMA WholeIsAccepted ==
  ASSUME NEW p \in Partitions, NEW x \in Images, Holds(p, x)
  PROVE  Accepts(p) /\ Ends(p, x) /\ flash[p][1] = <<x, 1>>
<1>1. 1 \in 1 .. Size[x] /\ Size[x] \in 1 .. Size[x]
  BY SizeFacts
<1>. QED  BY <1>1 DEF Holds, Accepts, EndIntact, Ends

\* An end in the place of another image's would be that image's own.
LEMMA AcceptedEnds ==
  ASSUME Placed, NEW p \in Partitions, NEW x \in Images, EndIntact(p, x)
  PROVE  \E y \in Images : Ends(p, y) /\ Size[y] = Size[x]
<1>1. PICK y \in Images : flash[p][Size[x]] = <<y, Size[y]>>
  BY DEF EndIntact
<1>2. Size[x] \in Pieces /\ Size[y] \in Pieces
  BY SizeFacts
<1>3. <<y, Size[y]>> \notin {Erased, Zeroed}
  BY <1>2, MarkAssumption
<1>4. PICK z \in Images : flash[p][Size[x]] = <<z, Size[x]>>
  BY <1>1, <1>2, <1>3 DEF Placed
<1>. QED  BY <1>1, <1>4 DEF Ends

LEMMA Bootable ==
  ASSUME IInv
  PROVE  /\ BootChoice \in Partitions /\ \E x \in Images : Holds(BootChoice, x)
         /\ BootChoice = "B" => \A y \in Images : ~ Ends("A", y)
<1>. "A" \in Partitions /\ "B" \in Partitions
  BY DEF Partitions
<1>1. Accepts("A") => \E x \in Images : Holds("A", x)
  BY AcceptedEnds DEF IInv, EndsWhole, Accepts
<1>2. CASE Accepts("A")
  BY <1>1, <1>2 DEF BootChoice
<1>3. CASE ~ Accepts("A")
  <2>1. \A y \in Images : ~ Holds("A", y) /\ ~ Ends("A", y)
    BY <1>3, WholeIsAccepted DEF IInv, EndsWhole
  <2>2. \/ \E r \in Images : Holds(current, r)
        \/ \E x \in Images : Holds(next, x)
    BY DEF IInv, Startable, Intact, Replaced, Finishing, FinishOf
  <2>3. {current, next} = {"A", "B"}
    BY DEF IInv, Alive, next, Other, Partitions
  <2>4. \E x \in Images : Holds("B", x)
    BY <2>1, <2>2, <2>3
  <2>5. BootChoice = "B"
    BY <1>3, <2>4, WholeIsAccepted DEF BootChoice
  <2>. QED  BY <2>1, <2>4, <2>5
<1>. QED  BY <1>2, <1>3

LEMMA FlashCases ==
  ASSUME IInv, FlashOperation
  PROVE  \/ /\ write_cursor # None
            /\ \E x \in Images, top \in SectorSize .. NumPieces, left \in 1 .. SectorSize + 1 :
                 /\ top = Flushed(write_cursor) /\ left = Len(todo) /\ top < write_cursor
                 /\ UploadOf(x, top, left) /\ ProgramsPieces(x, top, left)
         \/ /\ write_cursor = None
            /\ \E x, r \in Images, top \in SectorSize .. NumPieces, left \in 1 .. SectorSize + 1 :
                 /\ left = Len(todo) - 1
                 /\ FinishOf(x, r, top, left) /\ ProgramsPieces(x, top, left)
         \/ /\ write_cursor = None
            /\ \E x, r \in Images, top \in SectorSize .. NumPieces :
                 FinishOf(x, r, top, 0) /\ Invalidates(r)
<1>. USE DEF IInv
<1>1. /\ Len(todo) \in Nat \ {0} /\ SectorSize \in Nat \ {0} /\ NumPieces \in Nat
      /\ write_cursor \in 0 .. NumPieces \cup {None} /\ current \in Partitions
  BY SizeAssumption DEF FlashOperation, Typed, TypeOK, Alive
<1>2. CASE write_cursor # None
  <2>1. PICK x \in Images : UploadOf(x, Flushed(write_cursor), Len(todo))
    BY <1>2 DEF Uploading
  <2>2. Len(todo) \in 1 .. SectorSize + 1 /\ write_cursor \in 1 .. NumPieces
    BY <1>1, <1>2, <2>1 DEF UploadOf, Flushed
  <2>. DEFINE top == Flushed(write_cursor)
  <2>3. /\ BlockNum(write_cursor) \in Nat /\ top = BlockNum(write_cursor) * SectorSize
        /\ top \in Nat /\ top < write_cursor /\ top + SectorSize <= NumPieces /\ top > 0
    BY <2>1, <2>2, BufferedSector DEF UploadOf
  <2>4. BlockNum(write_cursor) # 0
    BY <1>1, <2>3
  <2>5. top >= SectorSize
    BY <1>1, <2>3, <2>4, Multiples, 1 * SectorSize = SectorSize
  <2>6. top \in SectorSize .. NumPieces
    BY <1>1, <2>3, <2>5
  <2>. HIDE DEF top
  <2>7. ProgramsPieces(x, top, Len(todo))
    BY <1>1, <2>1, <2>2, <2>6, ProgramStep DEF UploadOf, top
  <2>. QED  BY <1>2, <2>1, <2>2, <2>3, <2>6, <2>7 DEF top
<1>3. CASE write_cursor = None
  <2>1. PICK x \in Images, r \in Images, top \in Pieces : FinishOf(x, r, top, Len(todo) - 1)
    BY <1>1, <1>3 DEF Finishing
  <2>2. top \in SectorSize .. NumPieces /\ Len(todo) - 1 \in 0 .. SectorSize + 1
    BY <2>1 DEF FinishOf
  <2>3. CASE Len(todo) = 1
    <3>1. Invalidates(r)
      BY <1>1, <2>1, <2>3, InvalidateStep DEF FinishOf
    <3>. QED  BY <1>3, <2>1, <2>2, <2>3, <3>1
  <2>4. CASE Len(todo) # 1
    <3>1. Len(todo) - 1 \in 1 .. SectorSize + 1
      <4>1. \A m, n \in Nat : m - 1 \in 0 .. n /\ m # 1 => m - 1 \in 1 .. n
        OBVIOUS
      <4>2. Len(todo) \in Nat /\ SectorSize + 1 \in Nat
        BY <1>1
      <4>. QED  BY ONLY <2>2, <2>4, <4>1, <4>2
    <3>2. ProgramsPieces(x, top, Len(todo) - 1)
      BY <1>1, <2>1, <2>2, <3>1, ProgramStep DEF FinishOf
    <3>. QED  BY <1>3, <2>1, <2>2, <3>1, <3>2
  <2>. QED  BY <2>3, <2>4
<1>. QED  BY <1>2, <1>3

LEMMA FlashFrame ==
  ASSUME Typed, FlashOperation
  PROVE  /\ UNCHANGED <<current, write_cursor, buffer, serving, ota_token, job>>
         /\ Typed' /\ next' = next /\ todo # <<>>
<1>1. Next
  BY DEF Next
<1>. QED  BY <1>1, TypedNext DEF FlashOperation, next

LEMMA AccountableFlash ==
  ASSUME Accountable, Typed, FlashOperation PROVE Accountable'
<1>1. UNCHANGED <<write_cursor, serving, ota_token, job>> /\ serving # None
  BY FlashFrame DEF Accountable
<1>. QED  BY <1>1 DEF Accountable, Served

\* Programming a piece in A can add the end of the image being written, and no other.
LEMMA ProgrammedPieces ==
  ASSUME Typed, Alive, Placed, FlashOperation,
         NEW x \in Images, NEW top \in SectorSize .. NumPieces, NEW left \in 1 .. SectorSize + 1,
         ProgramsPieces(x, top, left)
  PROVE  /\ Alive' /\ Placed'
         /\ current = "A" => flash'["A"] = flash["A"]
         /\ \A y \in Images : flash'[next][Size[y]] = <<y, Size[y]>> =>
              \/ Ends(next, y) /\ (left = SectorSize + 1 => Size[y] \notin top - SectorSize + 1 .. top)
              \/ x = y /\ left <= SectorSize /\ Size[x] = top - left + 1
<1>1. /\ UNCHANGED <<current, halted>> /\ flash'[current] = flash[current]
      /\ SectorSize \in Nat /\ NumPieces \in Nat
      /\ next \in Partitions /\ next # current
      /\ \A p \in Partitions : p = current \/ p = next
  BY FlashFrame, OtherPartition, SizeAssumption DEF ProgramsPieces, Alive, next, Other, Partitions
<1>2. Alive'
  BY <1>1 DEF Alive
<1>3. \A k \in Pieces : Content(x)[k] \in {<<x, k>>, Erased}
  BY DEF Content
<1>4. ASSUME NEW p \in Partitions, NEW k \in Pieces
      PROVE  flash'[p][k] \in {<<y, k>> : y \in Images} \cup {Erased, Zeroed}
  <2>1. CASE p = current
    BY <2>1, <1>1 DEF Placed
  <2>2. CASE p = next
    <3>1. flash'[next][k] \in {Erased, Content(x)[k], flash[next][k]}
      BY DEF ProgramsPieces, NextPieces
    <3>. QED  BY <3>1, <2>2, <1>1, <1>3 DEF Placed
  <2>. QED  BY <1>1, <2>1, <2>2
<1>5. ASSUME NEW y \in Images, flash'[next][Size[y]] = <<y, Size[y]>>
      PROVE  \/ /\ Ends(next, y)
                /\ left = SectorSize + 1 => Size[y] \notin top - SectorSize + 1 .. top
             \/ x = y /\ left <= SectorSize /\ Size[x] = top - left + 1
  <2>1. Size[y] \in Pieces /\ <<y, Size[y]>> # Erased
    BY SizeFacts, MarkAssumption
  <2>2. ~ (left = SectorSize + 1 /\ Size[y] \in top - SectorSize + 1 .. top)
    BY <1>5, <2>1 DEF ProgramsPieces, NextPieces
  <2>3. CASE left <= SectorSize /\ Size[y] = top - left + 1
    <3>1. flash'[next][Size[y]] = Content(x)[Size[y]]
      BY <2>1, <2>2, <2>3 DEF ProgramsPieces, NextPieces
    <3>2. Content(x)[Size[y]] \in {<<x, Size[y]>>, Erased}
      BY <2>1, <1>3
    <3>3. <<x, Size[y]>> = <<y, Size[y]>>
      BY <3>1, <3>2, <2>1, <1>5
    <3>4. x = y
      BY <3>3
    <3>. QED  BY <3>4, <2>3
  <2>4. CASE ~ (left <= SectorSize /\ Size[y] = top - left + 1)
    <3>1. flash'[next][Size[y]] = flash[next][Size[y]]
      BY <2>1, <2>2, <2>4 DEF ProgramsPieces, NextPieces
    <3>. QED  BY <3>1, <2>2, <1>5 DEF Ends
  <2>. QED  BY <2>3, <2>4
<1>. QED  BY <1>1, <1>2, <1>4, <1>5 DEF Placed

LEMMA FlashOfUpload ==
  ASSUME IInv, FlashOperation, write_cursor # None,
         NEW x \in Images, NEW top \in SectorSize .. NumPieces, NEW left \in 1 .. SectorSize + 1,
         top = Flushed(write_cursor), left = Len(todo), top < write_cursor,
         UploadOf(x, top, left), ProgramsPieces(x, top, left)
  PROVE  IInv'
<1>. USE DEF IInv
<1>1. /\ UNCHANGED <<current, write_cursor, buffer, serving, ota_token, job>>
      /\ Typed' /\ next' = next /\ todo # <<>>
  BY FlashFrame
<1>2. /\ Alive' /\ Placed'
      /\ current = "A" => flash'["A"] = flash["A"]
      /\ \A y \in Images : flash'[next][Size[y]] = <<y, Size[y]>> =>
           Ends(next, y) \/ (x = y /\ Size[x] = top - left + 1)
  BY ProgrammedPieces
<1>3. current = "B" => \A y \in Images : ~ Ends("A", y) /\ ~ Ends("A", y)'
  <2>1. SUFFICES ASSUME current = "B" PROVE \A y \in Images : ~ Ends("A", y) /\ ~ Ends("A", y)'
    OBVIOUS
  <2>2. next = "A" /\ \A y \in Images : ~ Ends("A", y)
    BY <2>1 DEF Startable, Intact, next, Other
  <2>3. Size[x] > top
    BY SizeAssumption, SizeFacts DEF UploadOf, Typed, TypeOK
  <2>4. Size[x] # top - left + 1
    BY <2>3, SizeFacts, SizeAssumption
  <2>. QED  BY <1>2, <2>2, <2>4 DEF Ends
<1>4. EndsWhole'
  <2>1. CASE current = "A"
    BY <2>1, <1>2 DEF EndsWhole, Ends, Holds
  <2>2. CASE current = "B"
    BY <2>2, <1>3 DEF EndsWhole
  <2>. QED  BY <2>1, <2>2 DEF Alive, Partitions
<1>5. Accountable'
  BY AccountableFlash
<1>6. Len(todo') = left - 1 /\ left - 1 \in Nat
  BY <1>1, SizeAssumption DEF ProgramsPieces, Typed
<1>7. UploadOf(x, top, left - 1)'
  <2>1. Buffered(x, top)'
    BY <1>1, SizeAssumption DEF UploadOf, Buffered, Typed, TypeOK
  <2>2. left - 1 <= SectorSize + 1 /\ top > 0
    BY SizeAssumption
  <2>. QED  BY <1>1, <2>1, <2>2, SizeAssumption DEF UploadOf, ProgramsPieces, Served
<1>8. Uploading'
  BY <1>1, <1>6, <1>7 DEF Uploading, Flushed
<1>9. Startable'
  <2>1. Intact'
    BY <1>1, <1>3 DEF Startable, Intact, Holds, ProgramsPieces
  <2>. QED  BY <1>1, <2>1 DEF Startable
<1>10. Finishing' /\ Answered'
  BY <1>1 DEF Finishing, Answered
<1>. QED  BY <1>1, <1>2, <1>4, <1>5, <1>8, <1>9, <1>10

LEMMA FlashOfFinish ==
  ASSUME IInv, FlashOperation, write_cursor = None,
         NEW x \in Images, NEW r \in Images, NEW top \in SectorSize .. NumPieces,
         NEW left \in 1 .. SectorSize + 1, left = Len(todo) - 1,
         FinishOf(x, r, top, left), ProgramsPieces(x, top, left)
  PROVE  IInv'
<1>. USE DEF IInv
<1>1. /\ UNCHANGED <<current, write_cursor, buffer, serving, ota_token, job>>
      /\ Typed' /\ next' = next /\ todo # <<>>
      /\ SectorSize \in Nat \ {0} /\ NumPieces \in Nat
  BY FlashFrame, SizeAssumption
<1>2. /\ Alive' /\ Placed'
      /\ current = "A" => flash'["A"] = flash["A"]
      /\ \A y \in Images : flash'[next][Size[y]] = <<y, Size[y]>> =>
           Ends(next, y) \/ (x = y /\ left <= SectorSize /\ Size[x] = top - left + 1)
  BY ProgrammedPieces
<1>3. current = "B" =>
        \A y \in Images : Ends("A", y)' => x = y /\ Size[x] <= Programmed(top, left - 1)
  <2>1. SUFFICES ASSUME current = "B", NEW y \in Images, Ends("A", y)'
                 PROVE  x = y /\ Size[x] <= Programmed(top, left - 1)
    OBVIOUS
  <2>2. next = "A"
    BY <2>1 DEF next, Other
  <2>3. CASE Ends("A", y)
    <3>1. x = y /\ Size[x] <= Programmed(top, left)
      BY <2>1, <2>3 DEF FinishOf
    <3>. QED  BY <3>1, <1>1, SizeFacts DEF Programmed
  <2>4. CASE x = y /\ left <= SectorSize /\ Size[x] = top - left + 1
    BY <2>4, <1>1 DEF Programmed
  <2>. QED  BY <1>2, <2>1, <2>2, <2>3, <2>4 DEF Ends
<1>4. EndsWhole'
  <2>1. CASE current = "A"
    BY <2>1, <1>2 DEF EndsWhole, Ends, Holds
  <2>2. CASE current = "B"
    <3>1. SUFFICES ASSUME NEW y \in Images, Ends("A", y)', NEW k \in 1 .. Size[y]
                   PROVE  flash'["A"][k] = <<y, k>>
      BY DEF EndsWhole, Holds
    <3>2. x = y /\ Size[x] <= Programmed(top, left - 1) /\ next = "A"
      BY <2>2, <3>1, <1>3 DEF next, Other
    <3>3. k \in 1 .. Programmed(top, left - 1) /\ k \in Pieces
      BY <3>1, <3>2, <1>1, SizeFacts DEF Programmed, Pieces
    <3>4. flash'["A"][k] = Content(x)[k]
      BY <1>1, <3>2, <3>3 DEF ProgramsPieces, InFlash
    <3>5. Content(x)[k] = <<x, k>>
      BY <3>1, <3>2, <3>3, SizeFacts DEF Content
    <3>. QED  BY <3>2, <3>4, <3>5
  <2>. QED  BY <2>1, <2>2 DEF Alive, Partitions
<1>5. Accountable'
  BY AccountableFlash
<1>6. Len(todo') - 1 = left - 1 /\ left - 1 \in Nat /\ left \in Nat /\ todo'[left] = todo[left + 1]
      /\ todo' # <<>>
  <2>1. todo \in Seq(Ops) /\ todo' = Tail(todo) /\ Len(todo) = left + 1 /\ left \in Nat \ {0}
    BY <1>1 DEF ProgramsPieces, Typed
  <2>2. Len(todo') = left /\ todo' \in Seq(Ops)
    BY <2>1
  <2>3. todo'[left] = todo[left + 1]
    BY <2>1
  <2>4. todo' # <<>>
    BY <2>1, <2>2
  <2>. QED  BY <2>1, <2>2, <2>3, <2>4
<1>7. FinishOf(x, r, top, left - 1)'
  <2>1. todo'[left - 1 + 1] = Invalidation(r)'
    BY <1>1, <1>6 DEF FinishOf, Invalidation
  <2>2. Holds(current, r)'
    BY <1>1 DEF FinishOf, Holds, ProgramsPieces
  <2>3. left - 1 \in 0 .. SectorSize + 1
    BY <1>1
  <2>. QED  BY <1>1, <1>3, <2>1, <2>2, <2>3 DEF FinishOf, ProgramsPieces
<1>8. Finishing'
  <2>1. top \in Pieces
    BY <1>1 DEF Pieces
  <2>. QED  BY <1>6, <1>7, <2>1 DEF Finishing
<1>9. Uploading' /\ Startable' /\ Answered'
  BY <1>1, <1>6 DEF Uploading, Startable, Answered
<1>. QED  BY <1>1, <1>2, <1>4, <1>5, <1>8, <1>9

LEMMA FlashOfInvalidation ==
  ASSUME IInv, FlashOperation, write_cursor = None,
         NEW x \in Images, NEW r \in Images, NEW top \in SectorSize .. NumPieces,
         FinishOf(x, r, top, 0), Invalidates(r)
  PROVE  IInv'
<1>. USE DEF IInv
<1>1. /\ UNCHANGED <<current, write_cursor, buffer, serving, ota_token, job>>
      /\ Typed' /\ next' = next /\ todo' = <<>> /\ UNCHANGED halted
      /\ SectorSize \in Nat \ {0} /\ NumPieces \in Nat
  BY FlashFrame, SizeAssumption DEF Invalidates
<1>2. /\ flash'[next] = flash[next] /\ current \in Partitions
      /\ flash[current] \in [Pieces -> Piece]
      /\ flash'[current] = [flash[current] EXCEPT ![Size[r]] = Zeroed]
      /\ \A p \in Partitions : p = current \/ p = next
  BY DEF Invalidates, Alive, Typed, TypeOK, next, Other, Partitions
<1>3. Alive' /\ Accountable' /\ Uploading' /\ Finishing'
  BY <1>1, AccountableFlash DEF Alive, Uploading, Finishing
<1>4. Placed'
  BY <1>2 DEF Placed
<1>5. Holds(current, r) /\ flash[current][1] = <<r, 1>>
  BY <1>2, WholeIsAccepted DEF FinishOf
<1>6. flash'[current][1] = <<r, 1>> /\ flash'[current][Size[r]] = Zeroed
  BY <1>2, <1>5, SizeFacts
<1>7. Zeroed # <<r, 1>> /\ \A y \in Images : Zeroed # <<y, Size[y]>>
  BY SizeFacts, MarkAssumption
<1>8. ~ Accepts(current)'
  BY <1>1, <1>6, <1>7 DEF Accepts, EndIntact
<1>9. EndsWhole'
  <2>1. SUFFICES ASSUME NEW y \in Images, Ends("A", y)' PROVE Holds("A", y)'
    BY DEF EndsWhole
  <2>2. CASE current = "A"
    <3>1. flash'["A"][Size[y]] = <<y, Size[y]>> /\ Size[y] \in Pieces
      BY <2>1, SizeFacts DEF Ends
    <3>2. flash["A"][Size[y]] = <<y, Size[y]>> /\ Size[y] # Size[r]
      BY <3>1, <2>2, <1>2, <1>6, <1>7
    <3>3. Holds("A", y)
      BY <3>2 DEF EndsWhole, Ends
    <3>4. flash["A"][1] = <<y, 1>>
      BY <3>3, WholeIsAccepted DEF Partitions
    <3>. QED  BY <3>2, <3>4, <1>5, <2>2
  <2>3. CASE current = "B"
    <3>1. flash'["A"] = flash["A"]
      BY <1>2, <2>3 DEF next, Other
    <3>. QED  BY <3>1, <2>1 DEF EndsWhole, Ends, Holds
  <2>. QED  BY <2>2, <2>3, <1>2 DEF Partitions
<1>10. Holds(next, x)'
  <2>1. SUFFICES ASSUME NEW k \in 1 .. Size[x] PROVE flash[next][k] = <<x, k>>
    BY <1>1, <1>2 DEF Holds
  <2>2. k \in 1 .. Programmed(top, 0) /\ k \in Pieces
    BY <1>1, SizeFacts DEF FinishOf, Programmed, Pieces
  <2>3. flash[next][k] = Content(x)[k]
    BY <2>2 DEF FinishOf, InFlash
  <2>4. Content(x)[k] = <<x, k>>
    BY <2>1, <2>2, SizeFacts DEF Content
  <2>. QED  BY <2>3, <2>4
<1>11. Startable'
  BY <1>1, <1>8, <1>10 DEF Startable, Replaced
<1>12. Answered'
  BY <1>1, <1>8, <1>10 DEF Answered, FinishOf
<1>. QED  BY <1>1, <1>3, <1>4, <1>9, <1>11, <1>12

-----------------------------------------------------------------------------
(* The other steps.                                                        *)

LEMMA FlashKept ==
  ASSUME UNCHANGED <<flash, current, halted>>
  PROVE  /\ next' = next /\ (Alive => Alive') /\ (Placed => Placed') /\ (EndsWhole => EndsWhole')
         /\ (Intact => Intact') /\ (Replaced => Replaced')
         /\ Accepts(current)' = Accepts(current)
         /\ \A x : Holds(next, x)' = Holds(next, x) /\ Holds(current, x)' = Holds(current, x)
         /\ \A x, m : InFlash(x, m)' = InFlash(x, m)
         /\ \A x : Ends("A", x)' = Ends("A", x)
BY DEF next, Alive, Placed, EndsWhole, Ends, Holds, Intact, Replaced, Accepts, EndIntact, InFlash

\* A flush that is going on goes on the same way.
LEMMA TodoKept ==
  ASSUME UNCHANGED <<flash, current, halted, todo>>
  PROVE  /\ \A x, top, left : Programs(todo, x, top, left)' = Programs(todo, x, top, left)
         /\ \A r : Invalidation(r)' = Invalidation(r)
BY DEF Programs, EraseOp, PageOp, Invalidation, next

\* Steps of the programs, and replies, with nothing to be done in flash.
LEMMA FinishingKept ==
  ASSUME Finishing, UNCHANGED <<flash, current, halted, write_cursor, todo>>,
         serving # None => serving' # None /\ serving'.image = serving.image
  PROVE  Finishing'
<1>1. SUFFICES ASSUME write_cursor = None, todo # <<>> PROVE Finishing'
  BY DEF Finishing
<1>2. PICK x \in Images, r \in Images, top \in Pieces : FinishOf(x, r, top, Len(todo) - 1)
  BY <1>1 DEF Finishing
<1>3. FinishOf(x, r, top, Len(todo) - 1)'
  <2>1. todo'[Len(todo') - 1 + 1] = Invalidation(r)' /\ Holds(current, r)'
    BY <1>2, FlashKept, TodoKept DEF FinishOf
  <2>2. Programs(todo, x, top, Len(todo) - 1)' /\ InFlash(x, Programmed(top, Len(todo) - 1))'
    <3>1. Programmed(top, Len(todo) - 1)' = Programmed(top, Len(todo) - 1)
      BY DEF Programmed
    <3>. QED  BY <1>2, <3>1, TodoKept DEF FinishOf, Programs, InFlash, next, EraseOp, PageOp
  <2>3. current' = "B" => \A y \in Images : Ends("A", y)' =>
                            x = y /\ Size[x] <= Programmed(top, Len(todo) - 1)'
    BY <1>2, FlashKept DEF FinishOf, Programmed
  <2>. QED  BY <1>2, <2>1, <2>2, <2>3 DEF FinishOf
<1>. QED  BY <1>2, <1>3 DEF Finishing

LEMMA UploadKept ==
  ASSUME Uploading, UNCHANGED <<flash, current, halted, write_cursor, buffer, todo>>,
         \A src \in Sources :
           ota_token' = src /\ job'[src] # NoJob /\ (Served(src)' \/ job'[src].sent > 0) =>
             /\ ota_token = src /\ job[src] # NoJob /\ (Served(src) \/ job[src].sent > 0)
             /\ job'[src].image = job[src].image
  PROVE  Uploading'
<1>1. SUFFICES ASSUME write_cursor # None PROVE Uploading'
  BY DEF Uploading
<1>2. PICK x \in Images : UploadOf(x, Flushed(write_cursor), Len(todo))
  BY <1>1 DEF Uploading
<1>3. PICK top : top = Flushed(write_cursor)
  OBVIOUS
<1>4. PICK left : left = Len(todo)
  OBVIOUS
<1>5. UploadOf(x, top, left) /\ Flushed(write_cursor)' = top /\ Len(todo)' = left
  BY <1>2, <1>3, <1>4 DEF Flushed
<1>6. Buffered(x, top)' = Buffered(x, top)
  BY DEF Buffered
<1>7. Programs(todo, x, top, left)' /\ InFlash(x, Programmed(top, left))'
  BY <1>5, TodoKept, FlashKept DEF UploadOf, Programs, InFlash, Programmed, next, EraseOp, PageOp
<1>8. UploadOf(x, top, left)'
  BY <1>5, <1>6, <1>7 DEF UploadOf
<1>. QED  BY <1>5, <1>8 DEF Uploading

LEMMA InitInv == Init => IInv
<1>. SUFFICES ASSUME Init PROVE IInv
  OBVIOUS
<1>1. PICK old \in Images :
        flash = [p \in Partitions |->
                   [k \in Pieces |->
                      IF p = "A" THEN IF k <= Size[Factory] THEN <<Factory, k>> ELSE Erased
                      ELSE IF k \in SectorPieces(0) \/ k > Size[old] THEN Erased
                      ELSE <<old, k>>]]
  BY DEF Init
<1>2. /\ current = "A" /\ halted = FALSE /\ write_cursor = None /\ todo = <<>> /\ serving = None
      /\ ota_token = None
  BY DEF Init
<1>3. Typed /\ Alive /\ Accountable /\ Uploading /\ Finishing /\ Answered
  BY <1>2, TypedInit, NoneAssumption
     DEF Alive, Accountable, Uploading, Finishing, Answered, Served, Partitions
<1>4. Placed
  <2>1. SUFFICES ASSUME NEW p \in Partitions, NEW k \in Pieces
                 PROVE  flash[p][k] \in {<<x, k>> : x \in Images} \cup {Erased, Zeroed}
    BY DEF Placed
  <2>2. flash[p][k] \in {<<Factory, k>>, Erased, <<old, k>>}
    BY <1>1
  <2>. QED  BY <2>2, FactoryAssumption
<1>5. ASSUME NEW k \in Pieces
      PROVE  flash["A"][k] = IF k <= Size[Factory] THEN <<Factory, k>> ELSE Erased
  BY <1>1 DEF Partitions
<1>6. Holds("A", Factory)
  <2>1. Size[Factory] \in Nat /\ Size[Factory] <= NumPieces /\ NumPieces \in Nat
    BY FactoryAssumption, SizeFacts, SizeAssumption
  <2>2. \A k \in 1 .. Size[Factory] : k \in Pieces /\ k <= Size[Factory]
    BY <2>1 DEF Pieces
  <2>. QED  BY <1>5, <2>2 DEF Holds
<1>7. EndsWhole
  <2>1. SUFFICES ASSUME NEW x \in Images, Ends("A", x) PROVE Holds("A", x)
    BY DEF EndsWhole
  <2>2. Size[x] \in Pieces /\ flash["A"][Size[x]] = <<x, Size[x]>> /\ <<x, Size[x]>> # Erased
    BY <2>1, SizeFacts, MarkAssumption DEF Ends
  <2>3. <<x, Size[x]>> = <<Factory, Size[x]>>
    BY <1>5, <2>2
  <2>. QED  BY <2>3, <1>6
<1>8. Startable
  BY <1>2, <1>6, FactoryAssumption DEF Startable, Intact
<1>. QED  BY <1>3, <1>4, <1>7, <1>8 DEF IInv

LEMMA StartJobInv == ASSUME IInv, NEW src \in Sources, StartJob(src) PROVE IInv'
<1>. USE DEF IInv, host
<1>1. /\ UNCHANGED <<flash, current, halted, write_cursor, buffer, todo, serving, ota_token>>
      /\ job[src] = NoJob
  BY DEF StartJob
<1>2. PICK x \in Images : job' = [job EXCEPT ![src] = [image |-> x, sent |-> 0]]
  BY DEF StartJob
<1>3. Typed'
  BY TypedNext DEF Next
<1>4. /\ job'[src].sent = 0
      /\ \A s \in Sources \ {src} : job'[s] = job[s]
  BY <1>2 DEF Typed, TypeOK
<1>5. ~ Served(src) /\ \A s \in Sources : Served(s)' = Served(s)
  BY <1>1, JobFields, ServingFields, NoneAssumption DEF Typed, TypeOK, Bounded, Served
<1>6. Accountable'
  BY <1>1, <1>4, <1>5 DEF Accountable
<1>7. Uploading'
  BY <1>1, <1>4, <1>5, UploadKept
<1>8. Finishing'
  BY <1>1, FinishingKept
<1>9. Startable' /\ Answered' /\ Alive' /\ Placed' /\ EndsWhole'
  BY <1>1, FlashKept DEF Startable, Answered
<1>. QED  BY <1>3, <1>6, <1>7, <1>8, <1>9

LEMMA QuitJobInv == ASSUME IInv, NEW src \in Sources, QuitJob(src) PROVE IInv'
<1>. USE DEF IInv, host
<1>1. /\ UNCHANGED <<flash, current, halted, write_cursor, buffer, todo, ota_token>>
      /\ job' = [job EXCEPT ![src] = NoJob]
      /\ serving' = IF Served(src) THEN [serving EXCEPT !.source = None] ELSE serving
  BY DEF QuitJob, Served
<1>2. Typed'
  BY TypedNext DEF Next
<1>3. /\ job'[src] = NoJob /\ NoJob.sent = 0
      /\ \A s \in Sources \ {src} : job'[s] = job[s]
  BY <1>1 DEF Typed, TypeOK, NoJob
<1>4. /\ ~ Served(src)' /\ \A s \in Sources \ {src} : Served(s)' = Served(s)
      /\ serving' = None <=> serving = None
      /\ serving # None => /\ serving'.image = serving.image /\ serving'.sent = serving.sent
                           /\ serving'.ok = serving.ok
  <2>1. CASE Served(src)
    <3>1. serving \in Serving /\ serving # None /\ serving.source = src
      BY <2>1 DEF Typed, TypeOK, Served
    <3>2. serving' = [serving EXCEPT !.source = None]
      BY <1>1, <2>1
    <3>3. /\ serving'.source = None /\ serving'.image = serving.image
          /\ serving'.sent = serving.sent /\ serving'.ok = serving.ok /\ serving' \in Serving
      BY <3>1, <3>2 DEF Serving
    <3>. QED  BY <3>1, <3>3, NoneAssumption DEF Served
  <2>2. CASE ~ Served(src)
    BY <2>2, <1>1 DEF Served
  <2>. QED  BY <2>1, <2>2
<1>5. Accountable'
  BY <1>1, <1>3, <1>4 DEF Accountable
<1>6. Uploading'
  BY <1>1, <1>3, <1>4, UploadKept
<1>7. Finishing'
  BY <1>1, <1>4, FinishingKept
<1>8. Startable' /\ Alive' /\ Placed' /\ EndsWhole'
  BY <1>1, FlashKept DEF Startable
<1>9. Answered'
  BY <1>1, <1>4, FlashKept DEF Answered
<1>. QED  BY <1>2, <1>5, <1>6, <1>7, <1>8, <1>9

LEMMA ReplyInv == ASSUME IInv, Reply PROVE IInv'
<1>. USE DEF IInv, host
<1>. DEFINE src == serving.source
            done == ~ serving.ok \/ serving.sent > Size[serving.image]
<1>1. /\ UNCHANGED <<flash, current, halted, write_cursor, buffer, todo, ota_token>>
      /\ serving # None /\ serving' = None /\ todo = <<>>
      /\ job' = IF src = None THEN job
                ELSE IF done THEN [job EXCEPT ![src] = NoJob]
                ELSE [job EXCEPT ![src].sent = @ + 1]
  BY DEF Reply
<1>2. Typed'
  BY TypedNext DEF Next
<1>3. /\ \A s \in Sources : ~ Served(s)' /\ (Served(s) <=> s = src)
      /\ \A s \in Sources \ {src} : job'[s] = job[s]
  BY <1>1 DEF Typed, TypeOK, Served
<1>4. ASSUME src \in Sources
      PROVE  /\ src # None /\ Served(src) /\ (serving.ok <=> ota_token = src)
             /\ job[src].image = serving.image /\ job[src].sent = serving.sent
             /\ job[src] # NoJob /\ job[src].sent \in Nat /\ serving.sent \in Nat
             /\ Size[serving.image] \in Nat
  <2>1. Served(src) /\ src # None
    BY <1>1, <1>4, NoneAssumption DEF Served
  <2>2. serving.image \in Images /\ serving.sent \in Nat
    BY <1>1, ServingFields, SizeAssumption DEF Typed, TypeOK
  <2>3. job[src].image = serving.image /\ job[src].sent = serving.sent
    BY <1>4, <2>1 DEF Typed, Bounded
  <2>4. job[src] # NoJob
    BY <1>4, <2>2, <2>3, JobFields, NoneAssumption DEF Typed, TypeOK
  <2>. QED  BY <1>4, <2>1, <2>2, <2>3, <2>4, SizeFacts DEF Accountable
<1>5. ASSUME src \in Sources, done PROVE job'[src] = NoJob /\ job'[src].sent = 0
  BY <1>1, <1>4, <1>5 DEF Typed, TypeOK, NoJob
<1>6. ASSUME src \in Sources, ~ done
      PROVE  job'[src].sent = job[src].sent + 1 /\ job'[src].image = job[src].image
             /\ ota_token = src /\ write_cursor = job[src].sent
  <2>1. job'[src] = [job[src] EXCEPT !.sent = @ + 1]
    BY <1>1, <1>4, <1>6 DEF Typed, TypeOK
  <2>2. job[src] \in [image : Images, sent : 0 .. NumPieces + 1]
    BY <1>4, <1>6, JobFields DEF Typed, TypeOK
  <2>3. serving.ok /\ ~ (job[src].sent > Size[job[src].image])
    BY <1>4, <1>6
  <2>4. ota_token = src /\ write_cursor = job[src].sent
    BY <1>4, <1>6, <2>3 DEF Accountable
  <2>. QED  BY <2>1, <2>2, <2>4
<1>. HIDE DEF src, done
<1>7. Accountable'
  <2>1. SUFFICES ASSUME NEW s \in Sources, ota_token = s
                 PROVE  job'[s].sent > 0 => write_cursor = job'[s].sent - 1
    BY <1>1, <1>3 DEF Accountable
  <2>2. CASE s # src
    BY <2>1, <2>2, <1>3 DEF Accountable
  <2>3. CASE s = src /\ done
    BY <2>3, <1>5
  <2>4. CASE s = src /\ ~ done
    BY <2>4, <1>4, <1>6
  <2>. QED  BY <2>2, <2>3, <2>4
<1>8. Uploading'
  <2>1. SUFFICES ASSUME NEW s \in Sources, ota_token = s, job'[s] # NoJob, job'[s].sent > 0
                 PROVE  /\ job[s] # NoJob /\ (Served(s) \/ job[s].sent > 0)
                        /\ job'[s].image = job[s].image
    BY <1>1, <1>3, UploadKept
  <2>2. CASE s # src
    BY <2>1, <2>2, <1>3
  <2>3. CASE s = src
    BY <2>1, <2>3, <1>4, <1>5, <1>6
  <2>. QED  BY <2>2, <2>3
<1>9. Finishing' /\ Answered'
  BY <1>1 DEF Finishing, Answered
<1>10. Startable' /\ Alive' /\ Placed' /\ EndsWhole'
  BY <1>1, FlashKept DEF Startable
<1>. QED  BY <1>2, <1>7, <1>8, <1>9, <1>10

LEMMA PowerCycleInv == ASSUME IInv, PowerCycle PROVE IInv'
<1>1. /\ UNCHANGED flash /\ current' = BootChoice /\ halted' = FALSE /\ write_cursor' = None
      /\ todo' = <<>> /\ serving' = None /\ ota_token' = None
  BY DEF PowerCycle
<1>2. Typed'
  BY TypedNext DEF Next, IInv
<1>3. Alive' /\ Intact'
  BY <1>1, Bootable DEF Alive, Intact, Holds, Ends
<1>4. Placed' /\ EndsWhole'
  BY <1>1 DEF IInv, Placed, EndsWhole, Ends, Holds
<1>5. Accountable' /\ Uploading' /\ Finishing' /\ Answered'
  BY <1>1, NoneAssumption DEF Accountable, Uploading, Finishing, Answered, Served
<1>. QED  BY <1>1, <1>2, <1>3, <1>4, <1>5 DEF IInv, Startable

\* What any packet does: it finds nothing in progress, and is answered.
LEMMA PacketFrame ==
  ASSUME IInv, NEW src \in Sources, NEW n, NEW ok \in BOOLEAN, Delivered(src, n), Answer(src, ok),
         UNCHANGED job
  PROVE  /\ serving = None /\ todo = <<>> /\ current # None
         /\ job[src] # NoJob /\ job[src].image \in Images /\ job[src].sent = n
         /\ serving' # None /\ serving'.ok = ok
         /\ serving'.image = job[src].image /\ serving'.sent = n
         /\ \A s \in Sources : ~ Served(s) /\ (Served(s)' <=> s = src)
<1>1. serving = None /\ current # None /\ job[src] # NoJob /\ job[src].sent = n
  BY DEF Delivered, Ready
<1>2. /\ serving' # None /\ serving'.source = src /\ serving'.ok = ok
      /\ serving'.image = job[src].image /\ serving'.sent = n
  BY <1>1, AnswerTyped DEF IInv
<1>3. job[src].image \in Images
  BY <1>1, JobFields DEF IInv, Typed, TypeOK
<1>. QED  BY <1>1, <1>2, <1>3 DEF IInv, Accountable, Served

LEMMA OtaBeginInv ==
  ASSUME IInv, OncePerSession, NEW src \in Sources, OtaBegin(src) PROVE IInv'
<1>. USE DEF IInv, host
<1>1. /\ UNCHANGED <<flash, current, halted, buffer, todo, job>>
      /\ Delivered(src, 0) /\ Answer(src, TRUE) /\ write_cursor' = 0 /\ ota_token' = src
      /\ Accepts(current)
  BY DEF OtaBegin
<1>2. Typed'
  BY TypedNext DEF Next
<1>3. /\ serving = None /\ todo = <<>> /\ job[src] # NoJob /\ job[src].image \in Images
      /\ job[src].sent = 0 /\ serving' # None /\ serving'.ok = TRUE
      /\ serving'.image = job[src].image /\ serving'.sent = 0
      /\ \A s \in Sources : ~ Served(s) /\ (Served(s)' <=> s = src)
  BY <1>1, PacketFrame
<1>4. 0 # None /\ Size[job[src].image] \in Nat /\ ~ (0 > Size[job[src].image])
  BY <1>3, SizeFacts, NoneAssumption, SizeAssumption
<1>5. Accountable'
  BY <1>1, <1>3, <1>4 DEF Accountable
<1>6. UploadOf(job[src].image, 0, 0)'
  <2>. DEFINE x == job[src].image
  <2>1. Programmed(0, 0) = 0
    BY SizeAssumption DEF Programmed
  <2>2. 0 <= Size[x] /\ 0 <= SectorSize + 1
    BY <1>4, SizeAssumption
  <2>3. \A s \in Sources : ota_token' = s => job'[s].image = job'[src].image
    BY <1>1
  <2>. QED  BY <1>1, <2>1, <2>2, <2>3 DEF UploadOf, Programs, InFlash, Programmed
<1>7. Uploading'
  <2>1. Flushed(write_cursor)' = 0 /\ Len(todo)' = 0
    BY <1>1, <1>3 DEF Flushed
  <2>2. \E x \in Images : UploadOf(x, 0, 0)'
    BY <1>1, <1>3, <1>6
  <2>. QED  BY <2>1, <2>2 DEF Uploading
<1>8. Startable'
  <2>1. Intact
    BY <1>1, <1>3 DEF Startable, Replaced
  <2>. QED  BY <1>1, <1>3, <1>4, <2>1, FlashKept DEF Startable
<1>9. Finishing' /\ Answered'
  BY <1>1, <1>3, <1>4 DEF Finishing, Answered
<1>10. Alive' /\ Placed' /\ EndsWhole'
  BY <1>1, FlashKept
<1>. QED  BY <1>2, <1>5, <1>7, <1>8, <1>9, <1>10

\* A packet from a program without the token is rejected and changes nothing.
LEMMA RejectedInv ==
  ASSUME IInv, NEW src \in Sources, NEW n, Delivered(src, n), Answer(src, FALSE), ota_token # src,
         UNCHANGED <<flash, host, write_cursor, buffer, todo, ota_token, job>>, Typed'
  PROVE  IInv'
<1>. USE DEF IInv, host
<1>1. /\ serving = None /\ todo = <<>> /\ serving' # None /\ serving'.ok = FALSE
      /\ \A s \in Sources : ~ Served(s) /\ (Served(s)' <=> s = src)
  BY PacketFrame
<1>2. Accountable'
  BY <1>1 DEF Accountable
<1>3. Uploading'
  BY <1>1, UploadKept
<1>4. Finishing' /\ Answered'
  BY <1>1 DEF Finishing, Answered
<1>5. Startable' /\ Alive' /\ Placed' /\ EndsWhole'
  BY <1>1, FlashKept DEF Startable
<1>. QED  BY <1>2, <1>3, <1>4, <1>5

\* What the program with the token stores is the next piece of its image.
LEMMA TokenData ==
  ASSUME IInv, NEW src \in Sources, NEW n \in 1 .. NumPieces + 1, Delivered(src, n), ota_token = src,
         serving = None, todo = <<>>
  PROVE  /\ write_cursor = n - 1 /\ write_cursor \in 0 .. NumPieces /\ write_cursor # None
         /\ UploadOf(job[src].image, Flushed(write_cursor), 0)
         /\ InFlash(job[src].image, Flushed(write_cursor))
<1>. USE DEF IInv
<1>1. job[src] # NoJob /\ job[src].sent = n /\ ~ Served(src) /\ n > 0 /\ NumPieces \in Nat
  BY SizeAssumption DEF Delivered, Served
<1>2. write_cursor = n - 1
  BY <1>1 DEF Accountable
<1>3. write_cursor \in 0 .. NumPieces /\ write_cursor # None
  BY <1>1, <1>2, NoneAssumption
<1>4. PICK x \in Images : UploadOf(x, Flushed(write_cursor), Len(todo))
  BY <1>3 DEF Uploading
<1>5. x = job[src].image /\ Len(todo) = 0
  BY <1>1, <1>4 DEF UploadOf
<1>6. Flushed(write_cursor) \in Nat
  BY <1>3, BufferedSector, SizeAssumption DEF Flushed
<1>7. Programmed(Flushed(write_cursor), 0) = Flushed(write_cursor)
  BY <1>6, SizeAssumption DEF Programmed
<1>. QED  BY <1>2, <1>3, <1>4, <1>5, <1>7 DEF UploadOf

\* The sector before the next piece's goes to flash, if that starts one.
LEMMA PushedPiece ==
  ASSUME IInv, NEW x \in Images, NEW c \in 0 .. NumPieces - 1, write_cursor = c, c + 1 <= Size[x],
         todo = <<>>, UploadOf(x, Flushed(c), 0), InFlash(x, Flushed(c)), PushData(<<x, c + 1>>),
         UNCHANGED <<flash, current>>
  PROVE  /\ write_cursor' = c + 1 /\ Buffered(x, Flushed(c + 1))'
         /\ \E left \in 0 .. SectorSize + 1 :
              /\ Len(todo') = left /\ (left > 0 => Flushed(c + 1) > 0)
              /\ Programs(todo, x, Flushed(c + 1), left)'
              /\ InFlash(x, Programmed(Flushed(c + 1), left))'
<1>1. /\ SectorSize \in Nat \ {0} /\ NumPieces \in Nat /\ c \in Nat /\ c < NumPieces /\ c # None
      /\ write_cursor' = c + 1 /\ next' = next /\ Size[x] \in Nat /\ Size[x] <= NumPieces
      /\ buffer \in [0 .. SectorSize - 1 -> Piece]
  BY SizeAssumption, SizeFacts, NoneAssumption DEF IInv, PushData, next, Typed, TypeOK
<1>2. CASE c % SectorSize # 0
  <2>1. c # 0 /\ Flushed(c + 1) = Flushed(c) /\ c % SectorSize = c - Flushed(c)
    BY <1>2, SameSector
  <2>2. Flushed(c) \in Nat /\ Flushed(c) < c /\ c <= Flushed(c) + SectorSize
    BY <1>1, <2>1, BufferedSector
  <2>3. buffer' = [buffer EXCEPT ![c - Flushed(c)] = <<x, c + 1>>] /\ UNCHANGED todo
    BY <1>1, <1>2, <2>1 DEF PushData
  <2>4. Buffered(x, Flushed(c + 1))'
    <3>. DEFINE top == Flushed(c)
    <3>1. \A i \in 0 .. SectorSize - 1 : buffer[i] = IF top + i < c THEN <<x, top + i + 1>> ELSE Erased
      BY <1>1, <2>1 DEF UploadOf, Buffered
    <3>. HIDE DEF top
    <3>2. SUFFICES ASSUME NEW i \in 0 .. SectorSize - 1
                   PROVE  buffer'[i] = IF top + i < c + 1 THEN <<x, top + i + 1>> ELSE Erased
      BY <1>1, <2>1 DEF Buffered, top
    <3>3. buffer'[i] = IF i = c - top THEN <<x, c + 1>> ELSE buffer[i]
      BY <1>1, <2>3 DEF top
    <3>4. top \in Nat /\ top < c /\ c <= top + SectorSize
      BY <2>2 DEF top
    <3>5. CASE i = c - top
      <4>1. top + i < c + 1 /\ top + i + 1 = c + 1
        BY <1>1, <3>4, <3>5
      <4>. QED  BY <3>3, <3>5, <4>1
    <3>6. CASE i # c - top
      <4>1. top + i < c + 1 <=> top + i < c
        BY <1>1, <3>4, <3>6
      <4>. QED  BY <3>1, <3>3, <3>6, <4>1
    <3>. QED  BY <3>5, <3>6
  <2>5. Programmed(Flushed(c), 0) = Flushed(c) /\ Len(todo') = 0 /\ 0 \in 0 .. SectorSize + 1
    BY <1>1, <2>2, <2>3 DEF Programmed
  <2>6. Programs(todo, x, Flushed(c), 0)' /\ InFlash(x, Flushed(c))'
    BY <1>1 DEF Programs, InFlash
  <2>. QED  BY <1>1, <2>1, <2>4, <2>5, <2>6
<1>3. CASE c % SectorSize = 0
  <2>1. Flushed(c + 1) = c /\ (c # 0 => Flushed(c) + SectorSize = c)
    BY <1>3, NextSector
  <2>2. buffer' = [EmptyBuffer EXCEPT ![0] = <<x, c + 1>>]
    BY <1>1, <1>3 DEF PushData
  <2>3. Buffered(x, c)'
    <3>1. SUFFICES ASSUME NEW i \in 0 .. SectorSize - 1
                   PROVE  buffer'[i] = IF c + i < c + 1 THEN <<x, c + i + 1>> ELSE Erased
      BY <1>1 DEF Buffered
    <3>2. buffer'[i] = IF i = 0 THEN <<x, c + 1>> ELSE Erased
      BY <1>1, <2>2 DEF EmptyBuffer
    <3>3. c \in Nat /\ i \in Nat /\ (c + i < c + 1 <=> i = 0) /\ (i = 0 => c + i + 1 = c + 1)
      BY ONLY <1>1, <3>1, SizeAssumption
    <3>. QED  BY <3>2, <3>3
  <2>4. CASE c = 0
    <3>1. todo' = <<>>
      BY <1>1, <1>3, <2>4 DEF PushData
    <3>2. Programmed(0, 0) = 0 /\ Len(todo') = 0 /\ 0 \in 0 .. SectorSize + 1
      BY <1>1, <3>1 DEF Programmed
    <3>3. Programs(todo, x, 0, 0)' /\ InFlash(x, 0)'
      BY DEF Programs, InFlash
    <3>. QED  BY <1>1, <2>1, <2>3, <2>4, <3>2, <3>3
  <2>5. CASE c # 0
    <3>. DEFINE n == BlockNum(c)
                es == EraseAndWrite(next, n, buffer)
    <3>1. todo' = es
      BY <1>1, <1>3, <2>5 DEF PushData
    <3>2. n \in Nat /\ Flushed(c) = n * SectorSize /\ Flushed(c) \in Nat
      BY <1>1, <2>5, BufferedSector
    <3>3. (n + 1) * SectorSize = c /\ c = Flushed(c) + SectorSize
      BY <1>1, <2>1, <2>5, <3>2
    <3>4. ASSUME NEW i \in 0 .. SectorSize - 1
          PROVE  buffer[i] = Content(x)[n * SectorSize + i + 1]
      <4>1. Flushed(c) + i < c /\ Flushed(c) + i + 1 \in 1 .. Size[x]
        <5>1. /\ Flushed(c) \in Nat /\ c = Flushed(c) + SectorSize /\ i \in Nat /\ i < SectorSize
              /\ c <= Size[x]
          BY <1>1, <3>2, <3>3
        <5>. QED  BY ONLY <1>1, <5>1
      <4>2. buffer[i] = <<x, Flushed(c) + i + 1>>
        BY <1>1, <2>5, <4>1 DEF UploadOf, Buffered
      <4>3. Flushed(c) + i + 1 \in Pieces /\ Flushed(c) + i + 1 <= Size[x]
        BY <1>1, <4>1 DEF Pieces
      <4>. QED  BY <3>2, <4>2, <4>3 DEF Content
    <3>. HIDE DEF n, es
    <3>5. (n + 1) * SectorSize <= NumPieces
      BY <1>1, <3>3
    <3>6. /\ es \in Seq(Ops) /\ Len(es) \in {0, SectorSize, SectorSize + 1}
          /\ Programs(es, x, c, Len(es))
          /\ Len(es) = 0 => \A k \in c - SectorSize + 1 .. c : flash[next][k] = Content(x)[k]
      <4>1. BringsImage(es, x, (n + 1) * SectorSize)
        BY <1>1, <3>2, <3>4, <3>5, EraseAndWriteOf DEF es
      <4>. QED  BY <4>1, <3>3 DEF BringsImage
    <3>7. PICK left : left = Len(es)
      OBVIOUS
    <3>8. Programs(todo, x, c, left)'
      BY <1>1, <3>1, <3>6, <3>7 DEF Programs, EraseOp, PageOp
    <3>9. InFlash(x, Programmed(c, left))'
      <4>1. SUFFICES ASSUME NEW k \in 1 .. Programmed(c, left) PROVE flash[next][k] = Content(x)[k]
        BY <1>1 DEF InFlash, Programmed
      <4>2. CASE k \in 1 .. Flushed(c)
        BY <4>2 DEF InFlash
      <4>3. CASE k \notin 1 .. Flushed(c)
        <5>1. left = 0 /\ k \in c - SectorSize + 1 .. c
          BY <1>1, <3>2, <3>3, <3>6, <3>7, <4>1, <4>3 DEF Programmed
        <5>. QED  BY <3>6, <3>7, <5>1
      <4>. QED  BY <4>2, <4>3
    <3>10. left \in 0 .. SectorSize + 1 /\ c > 0 /\ Len(todo') = left
      BY <1>1, <2>5, <3>1, <3>6, <3>7
    <3>. QED  BY <1>1, <2>1, <2>3, <3>8, <3>9, <3>10
  <2>. QED  BY <2>4, <2>5
<1>. QED  BY <1>2, <1>3

LEMMA OtaDataInv == ASSUME IInv, NEW src \in Sources, OtaData(src) PROVE IInv'
<1>1. PICK n \in 1 .. NumPieces :
        /\ Delivered(src, n) /\ n <= Size[job[src].image]
        /\ IF ota_token = src THEN PushData(<<job[src].image, n>>)
                              ELSE UNCHANGED <<write_cursor, buffer, todo>>
        /\ Answer(src, ota_token = src)
  BY DEF OtaData
<1>2. UNCHANGED <<flash, host, ota_token, job>>
  BY DEF OtaData
<1>3. Typed'
  BY TypedNext DEF Next, IInv
<1>4. CASE ota_token # src
  BY <1>1, <1>2, <1>3, <1>4, RejectedInv
<1>5. CASE ota_token = src
  <2>1. Answer(src, TRUE) /\ TRUE \in BOOLEAN /\ UNCHANGED <<flash, current, halted, ota_token, job>>
    BY <1>1, <1>2, <1>5 DEF host
  <2>. PICK x \in Images : x = job[src].image
    BY <1>1, <2>1, PacketFrame
  <2>2. /\ serving = None /\ todo = <<>> /\ job[src] # NoJob /\ job[src].image = x
        /\ job[src].sent = n /\ serving' # None /\ serving'.ok = TRUE
        /\ serving'.image = x /\ serving'.sent = n
        /\ \A s \in Sources : ~ Served(s) /\ (Served(s)' <=> s = src)
    BY <1>1, <2>1, PacketFrame
  <2>3. n \in 1 .. NumPieces + 1 /\ n \in Nat /\ NumPieces \in Nat /\ Size[x] \in Nat
    BY <2>2, SizeAssumption, SizeFacts
  <2>4. /\ write_cursor = n - 1 /\ write_cursor # None
        /\ UploadOf(x, Flushed(write_cursor), 0) /\ InFlash(x, Flushed(write_cursor))
    BY <1>1, <1>5, <2>2, <2>3, TokenData
  <2>5. PICK c \in 0 .. NumPieces - 1 : c = n - 1 /\ c = write_cursor
    BY <2>3, <2>4
  <2>6. n = c + 1 /\ c + 1 <= Size[x] /\ PushData(<<x, c + 1>>)
    BY <1>1, <1>5, <2>2, <2>3, <2>5
  <2>7. /\ write_cursor' = c + 1 /\ Buffered(x, Flushed(c + 1))'
        /\ \E left \in 0 .. SectorSize + 1 :
             /\ Len(todo') = left /\ (left > 0 => Flushed(c + 1) > 0)
             /\ Programs(todo, x, Flushed(c + 1), left)'
             /\ InFlash(x, Programmed(Flushed(c + 1), left))'
    BY <2>1, <2>2, <2>4, <2>5, <2>6, PushedPiece
  <2>8. write_cursor' = n /\ write_cursor' # None /\ ~ (n > Size[x])
    BY <2>3, <2>6, <2>7, SizeFacts, <2>2, NoneAssumption
  <2>9. Accountable'
    <3>1. ASSUME NEW s \in Sources, ota_token' = s PROVE s = src /\ Served(s)'
      BY <2>1, <2>2, <1>5, <3>1
    <3>2. serving' # None
      BY <2>2
    <3>3. job'[src].sent = n /\ job'[src].image = x
      BY <2>1, <2>2
    <3>4. \A s \in Sources : Served(s)' => (serving'.ok <=> ota_token' = s)
      BY <2>1, <2>2, <1>5
    <3>. QED  BY <2>8, <3>1, <3>2, <3>3, <3>4 DEF Accountable
  <2>10. Uploading'
    <3>1. PICK left \in 0 .. SectorSize + 1 :
            /\ Len(todo') = left /\ (left > 0 => Flushed(c + 1) > 0)
            /\ Programs(todo, x, Flushed(c + 1), left)'
            /\ InFlash(x, Programmed(Flushed(c + 1), left))'
      BY <2>7
    <3>2. PICK top : top = Flushed(c + 1)
      OBVIOUS
    <3>3. \A s \in Sources : ota_token' = s => job'[s].image = x
      BY <2>1, <2>2, <1>5
    <3>4. left <= SectorSize + 1 /\ c + 1 <= Size[x]
      BY <2>6, SizeAssumption
    <3>5. /\ Buffered(x, top)' /\ Programs(todo, x, top, left)'
          /\ InFlash(x, Programmed(top, left))'
      BY <2>7, <3>1, <3>2
    <3>6. UploadOf(x, top, left)'
      BY <2>7, <3>1, <3>2, <3>3, <3>4, <3>5 DEF UploadOf
    <3>7. Flushed(write_cursor)' = top
      BY <2>7, <3>2 DEF Flushed
    <3>. QED  BY <3>1, <3>6, <3>7 DEF Uploading
  <2>11. Startable'
    <3>1. Intact
      BY <2>4 DEF IInv, Startable
    <3>. QED  BY <2>1, <2>8, <3>1, FlashKept DEF Startable
  <2>12. Finishing' /\ Answered'
    BY <2>2, <2>8 DEF Finishing, Answered
  <2>13. Alive' /\ Placed' /\ EndsWhole'
    BY <2>1, FlashKept DEF IInv
  <2>. QED  BY <1>3, <2>9, <2>10, <2>11, <2>12, <2>13 DEF IInv
<1>. QED  BY <1>4, <1>5

\* The end of an update leaves its last sector, and the invalidation, to be done.
LEMMA FinishShape ==
  ASSUME IInv, Finish, NEW x \in Images, write_cursor = Size[x], todo = <<>>,
         UploadOf(x, Flushed(Size[x]), 0), InFlash(x, Flushed(Size[x])),
         UNCHANGED <<flash, current>>, serving' # None, serving'.image = x
  PROVE  /\ write_cursor' = None /\ todo' # <<>>
         /\ \E r \in Images, top \in Pieces : FinishOf(x, r, top, Len(todo) - 1)'
<1>1. /\ SectorSize \in Nat \ {0} /\ NumPieces \in Nat /\ Size[x] \in 1 .. NumPieces
      /\ write_cursor # None /\ next' = next
      /\ buffer \in [0 .. SectorSize - 1 -> Piece]
  BY SizeAssumption, SizeFacts, NoneAssumption DEF IInv, next, Typed, TypeOK
<1>. DEFINE n == BlockNum(Size[x])
            es == EraseAndWrite(next, n, buffer)
<1>2. PICK r \in Images : Running(r) /\ todo' = Append(es, Invalidation(r))
  BY DEF Finish
<1>3. /\ n \in Nat /\ Flushed(Size[x]) = n * SectorSize /\ Flushed(Size[x]) \in Nat
      /\ Flushed(Size[x]) < Size[x] /\ Size[x] <= Flushed(Size[x]) + SectorSize
      /\ Flushed(Size[x]) + SectorSize <= NumPieces
  BY <1>1, BufferedSector
<1>4. PICK top : top = Flushed(Size[x]) + SectorSize
  OBVIOUS
<1>. HIDE DEF n
<1>5. (n + 1) * SectorSize = top
  BY <1>1, <1>3, <1>4
<1>6. ASSUME NEW i \in 0 .. SectorSize - 1 PROVE buffer[i] = Content(x)[n * SectorSize + i + 1]
  <2>1. /\ Flushed(Size[x]) + i + 1 \in Pieces
        /\ Flushed(Size[x]) + i < Size[x] <=> Flushed(Size[x]) + i + 1 <= Size[x]
    BY <1>1, <1>3 DEF Pieces
  <2>2. buffer[i] = IF Flushed(Size[x]) + i < Size[x] THEN <<x, Flushed(Size[x]) + i + 1>> ELSE Erased
    BY <1>1, <1>3 DEF UploadOf, Buffered
  <2>. QED  BY <1>3, <2>1, <2>2 DEF Content
<1>. HIDE DEF es
<1>7. /\ es \in Seq(Ops) /\ Len(es) \in {0, SectorSize, SectorSize + 1}
      /\ Programs(es, x, top, Len(es))
      /\ Len(es) = 0 => \A k \in top - SectorSize + 1 .. top : flash[next][k] = Content(x)[k]
  <2>1. BringsImage(es, x, (n + 1) * SectorSize)
    BY <1>1, <1>3, <1>4, <1>5, <1>6, EraseAndWriteOf DEF es
  <2>. QED  BY <2>1, <1>5 DEF BringsImage
<1>8. PICK left : left = Len(es)
  OBVIOUS
<1>9. left \in 0 .. SectorSize + 1 /\ top \in SectorSize .. NumPieces /\ top \in Pieces
  BY <1>1, <1>3, <1>4, <1>7, <1>8 DEF Pieces
<1>10. current \in Partitions /\ Invalidation(r) \in Ops
  BY InvalidationType DEF IInv, Alive
<1>11. /\ Len(todo') = left + 1 /\ todo' # <<>> /\ todo'[left + 1] = Invalidation(r)
       /\ \A j \in 1 .. left : todo'[j] = es[j]
  BY <1>2, <1>7, <1>8, <1>10
<1>12. Programs(todo, x, top, left)'
  <2>1. SUFFICES ASSUME NEW j \in 1 .. left
                 PROVE  todo'[j] = IF left - j = SectorSize THEN EraseOp(top)'
                                   ELSE PageOp(x, top - left + j)'
    BY DEF Programs
  <2>2. EraseOp(top)' = EraseOp(top) /\ \A k : PageOp(x, k)' = PageOp(x, k)
    BY <1>1 DEF EraseOp, PageOp
  <2>. QED  BY <2>2, <1>7, <1>8, <1>11 DEF Programs
<1>13. InFlash(x, Programmed(top, left))'
  <2>1. SUFFICES ASSUME NEW k \in 1 .. Programmed(top, left) PROVE flash[next][k] = Content(x)[k]
    BY <1>1 DEF InFlash, Programmed
  <2>2. CASE k \in 1 .. Flushed(Size[x])
    BY <2>2 DEF InFlash
  <2>3. CASE k \notin 1 .. Flushed(Size[x])
    <3>1. left = 0 /\ k \in top - SectorSize + 1 .. top
      BY <1>1, <1>3, <1>4, <1>7, <1>8, <2>1, <2>3 DEF Programmed
    <3>. QED  BY <3>1, <1>7, <1>8
  <2>. QED  BY <2>2, <2>3
<1>14. Intact
  BY <1>1 DEF IInv, Startable
<1>15. Holds(current, r)
  <2>1. PICK y \in Images : Holds(current, y)
    BY <1>14 DEF Intact
  <2>2. flash[current][1] = <<y, 1>> /\ flash[current][1] = <<r, 1>>
    BY <1>2, <1>10, <2>1, WholeIsAccepted DEF Running
  <2>. QED  BY <2>1, <2>2
<1>16. todo'[left + 1] = Invalidation(r)' /\ Holds(current, r)'
  BY <1>11, <1>15 DEF Invalidation, Holds
<1>17. current' = "B" => \A y \in Images : ~ Ends("A", y)'
  BY <1>14 DEF Intact, Ends
<1>18. top - SectorSize < Size[x] /\ Size[x] <= top
  BY <1>1, <1>3, <1>4
<1>19. FinishOf(x, r, top, left)'
  BY <1>9, <1>12, <1>13, <1>16, <1>17, <1>18 DEF FinishOf
<1>20. Len(todo') - 1 = left
  BY <1>1, <1>9, <1>11
<1>. QED  BY <1>9, <1>11, <1>19, <1>20 DEF Finish

LEMMA OtaEndInv == ASSUME IInv, NEW src \in Sources, OtaEnd(src) PROVE IInv'
<1>. USE DEF host
<1>1. job[src] # NoJob /\ job[src].image \in Images
  BY JobFields DEF OtaEnd, IInv, Typed, TypeOK
<1>. PICK x \in Images : x = job[src].image
  BY <1>1
<1>2. /\ Delivered(src, Size[x] + 1) /\ Answer(src, ota_token = src)
      /\ IF ota_token = src /\ write_cursor \notin {None, 0}
         THEN Finish ELSE UNCHANGED <<write_cursor, todo>>
      /\ UNCHANGED <<flash, current, halted, buffer, ota_token, job>>
  BY DEF OtaEnd
<1>3. Typed'
  BY TypedNext DEF Next, IInv
<1>4. CASE ota_token # src
  BY <1>2, <1>3, <1>4, RejectedInv
<1>5. CASE ota_token = src
  <2>1. Answer(src, TRUE) /\ TRUE \in BOOLEAN
    BY <1>2, <1>5
  <2>2. /\ serving = None /\ todo = <<>>
        /\ job[src].sent = Size[x] + 1 /\ serving' # None /\ serving'.ok = TRUE
        /\ serving'.image = x /\ serving'.sent = Size[x] + 1
        /\ \A s \in Sources : ~ Served(s) /\ (Served(s)' <=> s = src)
    BY <1>2, <2>1, PacketFrame
  <2>3. /\ Size[x] + 1 \in 1 .. NumPieces + 1 /\ Size[x] \in Nat /\ 2 <= Size[x]
        /\ Size[x] + 1 - 1 = Size[x] /\ Size[x] + 1 > Size[x]
    BY SizeAssumption, SizeFacts
  <2>4. /\ write_cursor = Size[x] + 1 - 1 /\ write_cursor # None
        /\ UploadOf(x, Flushed(write_cursor), 0) /\ InFlash(x, Flushed(write_cursor))
    BY <1>2, <1>5, <2>2, <2>3, TokenData
  <2>5. write_cursor = Size[x] /\ write_cursor \notin {None, 0} /\ Finish
    BY <1>2, <1>5, <2>3, <2>4
  <2>6. /\ write_cursor' = None /\ todo' # <<>>
        /\ \E r \in Images, top \in Pieces : FinishOf(x, r, top, Len(todo) - 1)'
    BY <1>2, <2>2, <2>4, <2>5, FinishShape
  <2>7. Finishing'
    BY <2>6 DEF Finishing
  <2>8. Accountable'
    <3>1. ASSUME NEW s \in Sources, ota_token' = s
          PROVE  s = src /\ Served(s)' /\ job'[s].sent > Size[job'[s].image]
      BY <1>2, <1>5, <2>2, <2>3, <3>1
    <3>2. \A s \in Sources : Served(s)' => (serving'.ok <=> ota_token' = s)
      BY <1>2, <2>2, <1>5
    <3>. QED  BY <2>2, <2>6, <3>1, <3>2 DEF Accountable
  <2>9. Uploading' /\ Startable' /\ Answered'
    BY <2>6 DEF Uploading, Startable, Answered
  <2>10. Alive' /\ Placed' /\ EndsWhole'
    BY <1>2, FlashKept DEF IInv
  <2>. QED  BY <1>3, <2>7, <2>8, <2>9, <2>10 DEF IInv
<1>. QED  BY <1>4, <1>5

LEMMA NextInv == ASSUME IInv, OncePerSession, [Next]_vars PROVE IInv'
<1>1. CASE Next
  <2>1. CASE \E src \in Sources :
               StartJob(src) \/ QuitJob(src) \/ OtaBegin(src) \/ OtaData(src) \/ OtaEnd(src)
    BY <2>1, StartJobInv, QuitJobInv, OtaBeginInv, OtaDataInv, OtaEndInv
  <2>2. CASE FlashOperation
    BY <2>2, FlashCases, FlashOfUpload, FlashOfFinish, FlashOfInvalidation
  <2>3. CASE Reply
    BY <2>3, ReplyInv
  <2>4. CASE PowerCycle
    BY <2>4, PowerCycleInv
  <2>. QED  BY <1>1, <2>1, <2>2, <2>3, <2>4 DEF Next
<1>2. CASE UNCHANGED vars
  <2>1. UNCHANGED <<flash, current, halted, write_cursor, buffer, todo, serving, ota_token, job>>
    BY <1>2 DEF vars
  <2>2. Typed'
    BY <2>1 DEF IInv, Typed, TypeOK, Bounded, Served
  <2>3. Accountable'
    BY <2>1 DEF IInv, Accountable, Served
  <2>4. Uploading'
    <3>1. \A src \in Sources : Served(src)' = Served(src)
      BY <2>1 DEF Served
    <3>. QED  BY <2>1, <3>1, UploadKept DEF IInv
  <2>5. Finishing'
    BY <2>1, FinishingKept DEF IInv
  <2>6. Startable' /\ Answered' /\ Alive' /\ Placed' /\ EndsWhole'
    BY <2>1, FlashKept DEF IInv, Startable, Answered
  <2>. QED  BY <2>2, <2>3, <2>4, <2>5, <2>6 DEF IInv
<1>. QED  BY <1>1, <1>2

-----------------------------------------------------------------------------
(* Theorems.                                                               *)

\* Every variable holds a value of its type, flash operations stay within the
\* partition, and so do the buffer and the cursor, even with two updates in a session.
THEOREM TypeCorrect == Spec => []TypeOK
<1>1. Typed /\ [Next]_vars => Typed'
  <2>1. ASSUME Typed, UNCHANGED vars PROVE Typed'
    BY <2>1 DEF vars, Typed, TypeOK, Bounded, Served
  <2>. QED  BY <2>1, TypedNext
<1>2. Typed => TypeOK
  BY DEF Typed
<1>. QED  BY <1>1, <1>2, TypedInit, PTL DEF Spec

\* The inductive invariant holds throughout.
THEOREM Invariance == ASSUME OncePerSession PROVE Spec => []IInv
<1>1. IInv /\ [Next]_vars => IInv'
  BY NextInv
<1>. QED  BY <1>1, InitInv, PTL DEF Spec

\* Whenever the power is cut, between any two flash operations, the boot ROM has an
\* image to start, and the one it starts is whole though it reads only its two ends.
THEOREM AlwaysStartable == ASSUME OncePerSession PROVE Spec => []AlwaysBootable
<1>1. IInv => AlwaysBootable
  BY Bootable, NoneAssumption DEF AlwaysBootable
<1>. QED  BY <1>1, Invariance, PTL

\* invalidate_current_header never finds the marker gone: its hard_assert holds.
THEOREM MarkerFound == ASSUME OncePerSession PROVE Spec => []MagicValueExpected
<1>1. IInv => MagicValueExpected
  BY DEF IInv, Alive, MagicValueExpected
<1>. QED  BY <1>1, Invariance, PTL

\* What the source with the token has sent is in place, in flash and in the buffer,
\* whatever the other sources send meanwhile.
THEOREM FollowsToken == ASSUME OncePerSession PROVE Spec => []OtaFollowsToken
<1>1. ASSUME IInv PROVE OtaFollowsToken
  <2>1. SUFFICES ASSUME NEW src \in Sources, ota_token = src, serving = None, 0 < job[src].sent
        PROVE  /\ write_cursor = job[src].sent - 1
               /\ \A k \in 1 .. write_cursor :
                    (IF k <= Flushed(write_cursor) THEN flash[next][k]
                                                   ELSE buffer[(k - 1) % SectorSize])
                      = <<job[src].image, k>>
    BY DEF OtaFollowsToken, Flushed
  <2>2. job[src] # NoJob /\ job[src].sent \in 1 .. NumPieces + 1 /\ ~ Served(src)
    BY <1>1, <2>1, JobFields, SizeAssumption DEF IInv, Typed, TypeOK, Served
  <2>3. write_cursor = job[src].sent - 1
    BY <1>1, <2>1, <2>2 DEF IInv, Accountable
  <2>4. write_cursor \in 0 .. NumPieces /\ write_cursor # None /\ todo = <<>>
    BY <1>1, <2>1, <2>2, <2>3, SizeAssumption, NoneAssumption DEF IInv, Accountable
  <2>5. PICK x \in Images : UploadOf(x, Flushed(write_cursor), Len(todo))
    BY <1>1, <2>4 DEF IInv, Uploading
  <2>6. Len(todo) = 0 /\ x = job[src].image /\ write_cursor <= Size[x]
    BY <2>1, <2>2, <2>4, <2>5 DEF UploadOf
  <2>7. PICK top : top = Flushed(write_cursor)
    OBVIOUS
  <2>8. ASSUME NEW k \in 1 .. write_cursor
        PROVE  (IF k <= top THEN flash[next][k] ELSE buffer[(k - 1) % SectorSize]) = <<x, k>>
    <3>1. /\ write_cursor \in 1 .. NumPieces /\ k \in Pieces /\ k <= Size[x] /\ Size[x] \in Nat
          /\ SectorSize \in Nat \ {0}
      BY <2>4, <2>6, SizeFacts, SizeAssumption DEF Pieces
    <3>2. /\ BlockNum(write_cursor) \in Nat /\ top \in Nat
          /\ top = BlockNum(write_cursor) * SectorSize
          /\ write_cursor <= top + SectorSize
      BY <3>1, <2>7, BufferedSector
    <3>3. CASE k <= top
      <4>1. InFlash(x, top)
        BY <2>5, <2>6, <2>7, <3>1, <3>2 DEF UploadOf, Programmed
      <4>2. k \in 1 .. top
        BY <3>1, <3>2, <3>3
      <4>3. flash[next][k] = Content(x)[k]
        BY <4>1, <4>2 DEF InFlash
      <4>. QED  BY <4>3, <3>1, <3>3 DEF Content
    <3>4. CASE ~ k <= top
      <4>1. (BlockNum(write_cursor) + 1) * SectorSize = top + SectorSize
        BY <3>1, <3>2
      <4>2. k \in SectorPieces(BlockNum(write_cursor))
        BY <3>1, <3>2, <3>4, <4>1 DEF SectorPieces
      <4>3. k - 1 - top \in 0 .. SectorSize - 1 /\ (k - 1) % SectorSize = k - 1 - top
        BY <3>2, <4>2, PlaceInBuffer
      <4>4. buffer[k - 1 - top] = IF top + (k - 1 - top) < write_cursor
                                  THEN <<x, top + (k - 1 - top) + 1>> ELSE Erased
        BY <2>5, <2>7, <3>1, <4>3 DEF UploadOf, Buffered
      <4>5. top + (k - 1 - top) + 1 = k /\ top + (k - 1 - top) < write_cursor
        BY <3>1, <3>2
      <4>. QED  BY <3>4, <4>3, <4>4, <4>5
    <3>. QED  BY <3>3, <3>4
  <2>. QED  BY <2>3, <2>6, <2>7, <2>8
<1>2. IInv => OtaFollowsToken
  BY <1>1
<1>. QED  BY <1>2, Invariance, PTL

\* A program that is told OK after its last packet has the next power-on start its
\* image, in place of the one that runs.
THEOREM TakesEffect == ASSUME OncePerSession PROVE Spec => UpdateTakesEffect
<1>. DEFINE Effective ==
       \A x \in Images :
         /\ Reply /\ serving.source # None
         /\ serving.ok /\ serving.image = x /\ serving.sent = Size[x] + 1
         => BootChoice' = next /\ Holds(next, x)'
<1>1. ASSUME IInv, [Next]_vars PROVE Effective
  <2>1. SUFFICES ASSUME NEW x \in Images, Reply, serving.ok, serving.image = x,
                        serving.sent = Size[x] + 1
                 PROVE  BootChoice' = next /\ Holds(next, x)'
    OBVIOUS
  <2>2. /\ UNCHANGED <<flash, current>> /\ serving # None /\ todo = <<>>
        /\ Size[x] + 1 > Size[x]
    BY <2>1, SizeFacts DEF Reply, host
  <2>3. ~ Accepts(current) /\ Holds(next, x)
    BY <1>1, <2>1, <2>2 DEF IInv, Answered
  <2>4. current \in Partitions /\ next \in Partitions
    BY <1>1, OtherPartition DEF IInv, Alive, next
  <2>5. Accepts(next)
    BY <2>3, <2>4, WholeIsAccepted
  <2>6. BootChoice = next
    BY <2>3, <2>4, <2>5 DEF BootChoice, next, Other, Partitions
  <2>7. BootChoice' = BootChoice /\ (Holds(next, x)' <=> Holds(next, x))
    BY <2>2 DEF BootChoice, Accepts, EndIntact, Holds, next
  <2>. QED  BY <2>3, <2>6, <2>7
<1>2. IInv /\ [Next]_vars => [Effective]_vars
  BY <1>1
<1>. QED  BY <1>2, Invariance, PTL DEF Spec, UpdateTakesEffect
=============================================================================
