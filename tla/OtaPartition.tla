---------------------------- MODULE OtaPartition ----------------------------
(***************************************************************************)
(* The update of the firmware over the air (class OtaPartition of          *)
(* partition.cpp, the OTA packets of main.cpp, do_ota of                   *)
(* rom-emulator-cli.py): the new image is written into the partition that  *)
(* is not running, then the header of the running one is invalidated, and  *)
(* the boot ROM picks what to start at the next power-on. The power may be *)
(* cut before any flash operation, and programs killed at any packet.      *)
(*                                                                         *)
(* Flash is modelled in pieces: the data of one packet, and one page       *)
(* programmed. An image begins with its start block, in its first piece,   *)
(* and ends with its end block, whose marker is in its last piece. Two     *)
(* updates completed without a power cycle between them are a case apart:  *)
(* OncePerSession leaves them out.                                         *)
(***************************************************************************)
EXTENDS Naturals, Sequences

CONSTANTS
  Images,
  Size,             \* pieces of each image
  Factory,          \* the image in partition A at installation
  NumPieces,        \* pieces of a partition
  SectorSize,       \* pieces of a sector
  Sources,
  OncePerSession,   \* is one update between two power-ons all that is asked?
  Erased, Zeroed,   \* a piece of 0xFF, and a last piece without its marker
  None

ASSUME SizeAssumption ==
  /\ SectorSize \in Nat \ {0} /\ NumPieces \in Nat \ {0} /\ NumPieces % SectorSize = 0
  /\ Size \in [Images -> 2 .. NumPieces]
ASSUME FactoryAssumption == Factory \in Images
ASSUME OncePerSessionAssumption == OncePerSession \in BOOLEAN

Partitions == {"A", "B"}
Other(p) == IF p = "A" THEN "B" ELSE "A"
Pieces == 1 .. NumPieces
Piece == (Images \X Pieces) \cup {Erased, Zeroed}
Serving == [source : Sources \cup {None}, image : Images, sent : 0 .. NumPieces + 1,
            ok : BOOLEAN]

ASSUME MarkAssumption == {Erased, Zeroed} \cap (Images \X Pieces) = {}
ASSUME NoneAssumption ==
  /\ None \notin Partitions /\ None \notin Images /\ None \notin Sources
  /\ None \notin 0 .. NumPieces /\ None \notin Serving

SectorPieces(n) == n * SectorSize + 1 .. (n + 1) * SectorSize

VARIABLES
  flash,            \* partition |-> its pieces
  current,          \* the running partition; None if there is nothing to run
  halted,           \* a hard_assert failed
  write_cursor,     \* of write_status; None if there is none
  buffer,           \* of next_partition
  todo,             \* flash operations of the packet being handled, in order
  serving,          \* the source it came from, and the reply
  ota_token,
  job               \* the program at each source: image, and packets sent

vars == <<flash, current, halted, write_cursor, buffer, todo, serving, ota_token, job>>
host == <<current, halted>>

next == Other(current)
NoJob == [image |-> None, sent |-> 0]
Job == [image : Images, sent : 0 .. NumPieces + 1] \cup {NoJob}
EmptyBuffer == [i \in 0 .. SectorSize - 1 |-> Erased]

-----------------------------------------------------------------------------
(* The boot ROM, which checks the first and the last block of an image and *)
(* not what is between, and prefers A: images have no version.             *)

EndIntact(p, x) == flash[p][Size[x]] \in {<<y, Size[y]>> : y \in Images}
Accepts(p) == \E x \in Images : flash[p][1] = <<x, 1>> /\ EndIntact(p, x)
BootChoice == IF Accepts("A") THEN "A" ELSE IF Accepts("B") THEN "B" ELSE None

Holds(p, x) == \A k \in 1 .. Size[x] : flash[p][k] = <<x, k>>

\* The full installation image writes partition A and erases the first block of B;
\* the rest of B is what was there. (The rest of A is taken to be erased.)
Init ==
  /\ flash \in {[p \in Partitions |->
                   [k \in Pieces |->
                      IF p = "A" THEN IF k <= Size[Factory] THEN <<Factory, k>> ELSE Erased
                      ELSE IF k \in SectorPieces(0) \/ k > Size[old] THEN Erased
                      ELSE <<old, k>>]] : old \in Images}
  /\ current = "A" /\ halted = FALSE
  /\ write_cursor = None
  /\ buffer = EmptyBuffer
  /\ todo = <<>> /\ serving = None
  /\ ota_token = None
  /\ job = [src \in Sources |-> NoJob]

PowerCycle ==
  /\ current' = BootChoice
  /\ halted' = FALSE
  /\ write_cursor' = None
  /\ buffer' = EmptyBuffer
  /\ todo' = <<>> /\ serving' = None
  /\ ota_token' = None
  /\ job' = [src \in Sources |-> NoJob]
  /\ UNCHANGED flash

-----------------------------------------------------------------------------
(* Flash operations.                                                       *)

\* An operation sets pieces of one partition.
Operation(p, pieces) == [partition |-> p, pieces |-> pieces]

\* Partition::erase_and_write_from_buffer. A piece that changes is taken to need
\* erasing unless it is erased already.
EraseAndWrite(p, n, buf) ==
  LET wanted == [k \in SectorPieces(n) |-> buf[(k - 1) % SectorSize]]
      changed == {k \in SectorPieces(n) : flash[p][k] # wanted[k]}
      erase == Operation(p, [k \in SectorPieces(n) |-> Erased])
      page(i) == Operation(p, [k \in {n * SectorSize + i} |-> wanted[k]])
      pages == [i \in 1 .. SectorSize |-> page(i)]
  IN IF changed = {} THEN <<>>
     ELSE IF \E k \in changed : flash[p][k] # Erased THEN <<erase>> \o pages ELSE pages

\* invalidate_current_header, once the firmware is known to be x: the piece that
\* holds the end marker is written back without it.
InvalidationPastEnd(x) == Operation(current, [k \in {Size[x] + 1} |-> Zeroed])  \* mutated
Invalidation(x) == Operation(current, [k \in {Size[x]} |-> Zeroed])
Running(x) == flash[current][1] = <<x, 1>>

\* invalidate_current_header asserts that the marker is still there.
FlashOperation ==
  /\ ~ halted
  /\ todo # <<>>
  /\ LET o == Head(todo)
         k == CHOOSE k \in DOMAIN o.pieces : TRUE
     IN IF o.partition = current /\ flash[current][k] = Zeroed
        THEN halted' = TRUE /\ UNCHANGED <<flash, todo>>
        ELSE /\ flash' = [flash EXCEPT ![o.partition] =
                            [i \in Pieces |-> IF i \in DOMAIN o.pieces THEN o.pieces[i] ELSE @[i]]]
             /\ todo' = Tail(todo)
             /\ UNCHANGED halted
  /\ UNCHANGED <<current, write_cursor, buffer, serving, ota_token, job>>

-----------------------------------------------------------------------------
(* handle_packet, and the program at the other end.                        *)

Ready == current # None /\ ~ halted /\ serving = None

StartJob(src) ==
  /\ job[src] = NoJob
  /\ \E x \in Images : job' = [job EXCEPT ![src] = [image |-> x, sent |-> 0]]
  /\ UNCHANGED <<flash, host, write_cursor, buffer, todo, serving, ota_token>>

\* Killed, or disconnected, with its packet undelivered, or before the reply, which
\* then goes to nobody.
QuitJob(src) ==
  /\ job[src] # NoJob
  /\ job' = [job EXCEPT ![src] = NoJob]
  /\ serving' = IF serving # None /\ serving.source = src
                THEN [serving EXCEPT !.source = None] ELSE serving
  /\ UNCHANGED <<flash, host, write_cursor, buffer, todo, ota_token>>

Delivered(src, n) == Ready /\ job[src] # NoJob /\ job[src].sent = n
Answer(src, ok) == serving' = [source |-> src, image |-> job[src].image,
                               sent |-> job[src].sent, ok |-> ok]

BeginKeepingCursor(src) ==  \* mutated: an update begun before is continued
  /\ Delivered(src, 0)
  /\ OncePerSession => Accepts(current)
  /\ write_cursor' = IF write_cursor = None THEN 0 ELSE write_cursor
  /\ ota_token' = src
  /\ Answer(src, TRUE)
  /\ UNCHANGED <<flash, host, buffer, todo, job>>
OtaBegin(src) ==
  /\ Delivered(src, 0)
  /\ OncePerSession => Accepts(current)
  /\ write_cursor' = 0
  /\ ota_token' = src
  /\ Answer(src, TRUE)
  /\ UNCHANGED <<flash, host, buffer, todo, job>>

BlockNum(cursor) == (cursor - 1) \div SectorSize

\* ota_data, for the bytes of a packet.
PushData(piece) ==
  IF write_cursor # None /\ write_cursor < NumPieces
  THEN /\ IF write_cursor % SectorSize = 0
          THEN /\ todo' = IF write_cursor = 0 THEN <<>>
                          ELSE EraseAndWrite(next, BlockNum(write_cursor), buffer)
               /\ buffer' = [EmptyBuffer EXCEPT ![0] = piece]
          ELSE /\ buffer' = [buffer EXCEPT ![write_cursor % SectorSize] = piece]
               /\ UNCHANGED todo
       /\ write_cursor' = write_cursor + 1
  ELSE UNCHANGED <<write_cursor, buffer, todo>>

OtaDataAnySource(src) ==  \* mutated: the token is not looked at
  /\ \E n \in 1 .. NumPieces :
       /\ Delivered(src, n) /\ n <= Size[job[src].image]
       /\ PushData(<<job[src].image, n>>)
       /\ Answer(src, TRUE)
  /\ UNCHANGED <<flash, host, ota_token, job>>
OtaData(src) ==
  /\ \E n \in 1 .. NumPieces :
       /\ Delivered(src, n) /\ n <= Size[job[src].image]
       /\ IF ota_token = src
          THEN PushData(<<job[src].image, n>>)
          ELSE UNCHANGED <<write_cursor, buffer, todo>>
       /\ Answer(src, ota_token = src)
  /\ UNCHANGED <<flash, host, ota_token, job>>

FinishInvalidatingFirst ==  \* mutated: the running image is invalidated first
  /\ \E x \in Images :
       /\ Running(x)
       /\ todo' = <<Invalidation(x)>> \o EraseAndWrite(next, BlockNum(write_cursor), buffer)
  /\ write_cursor' = None
\* ota_end, when some data has come. The running firmware knows where it ends itself.
Finish ==
  /\ \E x \in Images :
       /\ Running(x)
       /\ todo' = Append(EraseAndWrite(next, BlockNum(write_cursor), buffer), Invalidation(x))
  /\ write_cursor' = None

OtaEnd(src) ==
  /\ job[src] # NoJob /\ Delivered(src, Size[job[src].image] + 1)
  /\ IF ota_token = src /\ write_cursor \notin {None, 0}
     THEN Finish ELSE UNCHANGED <<write_cursor, todo>>
  /\ Answer(src, ota_token = src)
  /\ UNCHANGED <<flash, host, buffer, ota_token, job>>

\* The flash operations done, the reply is sent; a program that lives goes on.
Reply ==
  /\ ~ halted
  /\ serving # None /\ todo = <<>>
  /\ LET src == serving.source
         done == ~ serving.ok \/ serving.sent > Size[serving.image]
     IN job' = IF src = None THEN job
               ELSE IF done THEN [job EXCEPT ![src] = NoJob]
               ELSE [job EXCEPT ![src].sent = @ + 1]
  /\ serving' = None
  /\ UNCHANGED <<flash, host, write_cursor, buffer, todo, ota_token>>

Next ==
  \/ \E src \in Sources :
       StartJob(src) \/ QuitJob(src) \/ OtaBegin(src) \/ OtaData(src) \/ OtaEnd(src)
  \/ FlashOperation \/ Reply \/ PowerCycle

Spec == Init /\ [][Next]_vars
-----------------------------------------------------------------------------
(* Properties.                                                             *)

\* Every variable holds a value of its type, and flash operations stay within the
\* partition.
TypeOK ==
  /\ flash \in [Partitions -> [Pieces -> Piece]]
  /\ current \in Partitions \cup {None} /\ halted \in BOOLEAN
  /\ write_cursor \in 0 .. NumPieces \cup {None}
  /\ buffer \in [0 .. SectorSize - 1 -> Piece]
  /\ \A i \in 1 .. Len(todo) : todo[i].partition \in Partitions
                               /\ DOMAIN todo[i].pieces \subseteq Pieces
  /\ serving \in Serving \cup {None}
  /\ ota_token \in Sources \cup {None}
  /\ job \in [Sources -> Job]

\* Whenever the power goes, the boot ROM finds an image to start, and the one it
\* picks is whole: never one half written, though it does not look inside.
AlwaysBootable == BootChoice # None /\ \E x \in Images : Holds(BootChoice, x)

\* A program told that its update succeeded has the next power-on start its image.
\* "stores a new Pico 2 firmware, that will be started at the next boot in place of
\* the current one" (README).
UpdateTakesEffect ==
  [][\A x \in Images :
       /\ Reply /\ serving.source # None
       /\ serving.ok /\ serving.image = x /\ serving.sent = Size[x] + 1
       => BootChoice' = next /\ Holds(next, x)']_vars

\* While the token is with a source whose program is past BEGIN, what was sent of its
\* image is in place, in flash and in the buffer, whatever other programs sent.
OtaFollowsToken ==
  \A src \in Sources :
    LET j == job[src]
        flushed == IF write_cursor = 0 THEN 0 ELSE BlockNum(write_cursor) * SectorSize
    IN ota_token = src /\ serving = None /\ 0 < j.sent
         => /\ write_cursor = j.sent - 1
            /\ \A k \in 1 .. write_cursor :
                 (IF k <= flushed THEN flash[next][k] ELSE buffer[(k - 1) % SectorSize])
                   = <<j.image, k>>

\* "Assert that we are overwriting the expected magic value" (partition.cpp): it does.
MagicValueExpected == ~ halted
=============================================================================
