--------------------------- MODULE MagicIo_proofs ---------------------------
(***************************************************************************)
(* Theorems about MagicIo, for any number of slots, blocks, cells, bytes   *)
(* and generations and any size of the queue.                              *)
(*                                                                         *)
(* What the menu's polls find depends on the writes the firmware has made  *)
(* and on those it has yet to make. So the invariant speaks of what a      *)
(* field holds and of what the rest of todo makes of it: it keeps a value, *)
(* it is on its way to one, or it has one write left that turns it. Each   *)
(* of these survives every write the firmware goes on to do, and each      *)
(* handshake goes round four stages that are told in these terms.          *)
(*                                                                         *)
(* The last part proves that this implements Mailbox, with a stronger      *)
(* invariant on the requests and the byte that are under way.              *)
(***************************************************************************)
EXTENDS MagicIo, TLAPS

-----------------------------------------------------------------------------
(* What is left to write.                                                  *)

Pending(f) == \E i \in 1 .. Len(todo) : f \in DOMAIN todo[i]
Clear(f) == \A i \in 1 .. Len(todo) : f \notin DOMAIN todo[i]
WritesOnly(f, v) == \A i \in 1 .. Len(todo) : f \in DOMAIN todo[i] => todo[i][f] = v
WritesOnce(f) ==
  \A i, j \in 1 .. Len(todo) : f \in DOMAIN todo[i] /\ f \in DOMAIN todo[j] => i = j

\* f is v, and stays so; f comes to be v; f is turned to v by one write, or has been.
Keeps(f, v) == WritesOnly(f, v) /\ area[f] = v
Settles(f, v) == WritesOnly(f, v) /\ (area[f] = v \/ Pending(f))
Turns(f, v) ==
  /\ WritesOnly(f, v) /\ WritesOnce(f)
  /\ area[f] = IF Pending(f) THEN 1 - v ELSE v

\* Each write of f has one of g after it.
Before(f, g) ==
  \A i \in 1 .. Len(todo) : f \in DOMAIN todo[i] =>
    \E j \in 1 .. Len(todo) : i < j /\ g \in DOMAIN todo[j]

\* The stages of a handshake on fields f and g, which the menu polls in this order: at
\* rest; the firmware has seen f polled; the menu has seen f cleared; the firmware has
\* seen g polled. When the menu sees g cleared the handshake is at rest again.
Rest(f, g) == Keeps(f, 1) /\ Keeps(g, 0)
Taken(f, g) == Turns(f, 0) /\ Turns(g, 1) /\ Before(g, f)
Seen(f, g) == Keeps(f, 0) /\ Keeps(g, 1)
Done(f, g) == Turns(f, 1) /\ Turns(g, 0) /\ Before(f, g)

\* A step that neither writes f nor leaves a write of f to do.
Untouched(f) ==
  /\ area'[f] = area[f]
  /\ todo' = todo \/ (todo = <<>> /\ Clear(f)')

\* The fields.
Fields == Flags \cup CellFields \cup {Generation, DesiredState, RxNonempty, RxData}

\* A field's name says which field it is.
LEMMA Names ==
  /\ \A x : Boot(x)[1] = "user_requested_boot" /\ Tx(x)[1] = "serial_data_tx"
            /\ Load(x)[1] = "configuration_load_block"
            /\ Cell(x)[1] = "configuration_loaded_block"
  /\ \A x : Boot(x)[2] = x /\ Tx(x)[2] = x /\ Load(x)[2] = x /\ Cell(x)[2] = x
  /\ Generation[1] = "reset_generation_count"
  /\ Sync1[1] = "user_requested_client_mode_sync1"
  /\ Sync2[1] = "user_requested_client_mode_sync2"
  /\ TxAck[1] = "serial_data_tx_ack"
  /\ RxLock[1] = "serial_data_rx_lock" /\ RxUnlock[1] = "serial_data_rx_unlock"
  /\ Changed[1] = "configuration_changed" /\ LoadAck[1] = "configuration_load_block_ack"
  /\ DesiredState[1] = "desired_state"
  /\ RxNonempty[1] = "serial_data_rx_nonempty" /\ RxData[1] = "serial_data_rx_data"
BY DEF Boot, Tx, Load, Cell, Generation, Sync1, Sync2, TxAck, RxLock, RxUnlock, Changed,
       LoadAck, DesiredState, RxNonempty, RxData

LEMMA Sizes ==
  /\ NumBlocks \in Nat /\ NumBlocks >= 1 /\ NumCells \in Nat /\ NumCells >= 1
  /\ Capacity \in Nat /\ Capacity >= 1 /\ Generations \in Nat /\ Generations >= 2
  /\ LastVersion \in Nat
BY SizeAssumption

\* A place in the ring buffer.
LEMMA OnRing == ASSUME NEW n \in Nat PROVE n % Capacity \in Ring
BY Sizes DEF Ring

-----------------------------------------------------------------------------
(* Types. The contents of a field depend on which field it is.             *)

Contents(f) ==
  CASE f \in Flags \cup {RxNonempty} -> {0, 1}
    [] f = Generation -> 0 .. Generations - 1
    [] f = DesiredState -> DesiredStates
    [] f = RxData -> Bytes \cup {None, "?"}
    [] f \in CellFields -> (Blocks \X (0 .. LastVersion)) \cup {None}

AnyContents == UNION {Contents(f) : f \in Fields}
Writings == {w \in UNION {[fs -> AnyContents] : fs \in SUBSET Fields} :
               \A f \in DOMAIN w : w[f] \in Contents(f)}

Typed ==
  /\ DOMAIN area = Fields /\ \A f \in Fields : area[f] \in Contents(f)
  /\ todo \in Seq(Writings)
  /\ initial_value \in 0 .. Generations - 1
  /\ serial_tx_buf \in Bytes
  /\ serial_rx_buf \in [Ring -> Bytes]
  /\ serial_rx_buf_rpos \in Ring /\ serial_rx_buf_cnt \in 0 .. Capacity
  /\ configuration_load_last_address \in Blocks \cup {None}
  /\ signal \in Requests \cup {<<"block", b>> : b \in Blocks} \cup {None}
  /\ can_accept_boot_command \in BOOLEAN
  /\ version \in [Blocks -> 0 .. LastVersion]
  /\ screen \in [Blocks -> Seq(AnyContents)]
  /\ next_block \in 1 .. NumBlocks + 1

\* What the fields of each kind hold.
LEMMA ContentsOf ==
  /\ \A f \in Flags \cup {RxNonempty} : Contents(f) = {0, 1}
  /\ Contents(Generation) = 0 .. Generations - 1
  /\ Contents(DesiredState) = DesiredStates
  /\ Contents(RxData) = Bytes \cup {None, "?"}
  /\ \A f \in CellFields : Contents(f) = (Blocks \X (0 .. LastVersion)) \cup {None}
<1> DEFINE Single == {Generation, DesiredState, RxData}
<1>1. \A f \in Flags : f \notin CellFields \cup Single
  BY Names DEF Flags, BootFields, TxFields, LoadFields, CellFields
<1>2. \A f \in CellFields : f \notin Single \cup {RxNonempty}
  BY Names DEF CellFields
<1>3. Generation # DesiredState /\ Generation # RxData /\ Generation # RxNonempty
      /\ DesiredState # RxData /\ DesiredState # RxNonempty /\ RxData # RxNonempty
  BY Names
<1>4. \A f \in Flags \cup {RxNonempty} : Contents(f) = {0, 1}
  BY <1>1, <1>2, <1>3 DEF Contents
<1>5. Contents(Generation) = 0 .. Generations - 1
  BY <1>1, <1>2, <1>3 DEF Contents
<1>6. Contents(DesiredState) = DesiredStates
  BY <1>1, <1>2, <1>3 DEF Contents
<1>7. Contents(RxData) = Bytes \cup {None, "?"}
  BY <1>1, <1>2, <1>3 DEF Contents
<1>8. \A f \in CellFields : Contents(f) = (Blocks \X (0 .. LastVersion)) \cup {None}
  BY <1>1, <1>2 DEF Contents
<1>q. QED BY <1>4, <1>5, <1>6, <1>7, <1>8

-----------------------------------------------------------------------------
(* What a write of the firmware leaves true.                               *)

\* WriteNext does the first write and keeps the others in their order.
LEMMA OneWritten ==
  ASSUME todo \in Seq(Writings), DOMAIN area = Fields, WriteNext
  PROVE  /\ todo \in Seq(Writings) /\ Len(todo) \in Nat \ {0}
         /\ todo' \in Seq(Writings) /\ Len(todo') = Len(todo) - 1
         /\ \A i \in 1 .. Len(todo') : i + 1 \in 1 .. Len(todo) /\ todo'[i] = todo[i + 1]
         /\ \A i \in 1 .. Len(todo) : i = 1 \/ (i - 1 \in 1 .. Len(todo') /\ todo'[i - 1] = todo[i])
         /\ DOMAIN todo[1] \subseteq Fields
         /\ DOMAIN area' = Fields
         /\ \A f \in Fields : area'[f] = IF f \in DOMAIN todo[1] THEN todo[1][f] ELSE area[f]
<1>1. todo # <<>> /\ todo' = Tail(todo) /\ Head(todo) = todo[1]
  BY DEF WriteNext
<1>2. Len(todo) \in Nat \ {0} /\ todo[1] \in Writings
  BY <1>1
<1>3. DOMAIN todo[1] \subseteq Fields
  BY <1>2 DEF Writings
<1>4. todo' \in Seq(Writings) /\ Len(todo') = Len(todo) - 1
  BY <1>1
<1>5. \A i \in 1 .. Len(todo') : i + 1 \in 1 .. Len(todo) /\ todo'[i] = todo[i + 1]
  BY <1>1, <1>2, <1>4
<1>6. \A i \in 1 .. Len(todo) : i = 1 \/ (i - 1 \in 1 .. Len(todo') /\ todo'[i - 1] = todo[i])
  BY <1>2, <1>4, <1>5
<1>7. area' = [f \in Fields |-> IF f \in DOMAIN todo[1] THEN todo[1][f] ELSE area[f]]
  BY <1>1 DEF WriteNext
<1>q. QED BY <1>2, <1>3, <1>4, <1>5, <1>6, <1>7

LEMMA PendingAfter ==
  ASSUME todo \in Seq(Writings), DOMAIN area = Fields, WriteNext, NEW f
  PROVE  /\ Pending(f)' => Pending(f)
         /\ Pending(f) /\ f \notin DOMAIN todo[1] => Pending(f)'
         /\ WritesOnce(f) => WritesOnce(f)' /\ (f \in DOMAIN todo[1] => ~ Pending(f)')
         /\ \A v : WritesOnly(f, v) => WritesOnly(f, v)' /\ (f \in DOMAIN todo[1] => todo[1][f] = v)
<1> USE OneWritten
<1>1. Pending(f)' => Pending(f)
  BY DEF Pending
<1>2. Pending(f) /\ f \notin DOMAIN todo[1] => Pending(f)'
  BY DEF Pending
<1>3. WritesOnce(f) => WritesOnce(f)' /\ (f \in DOMAIN todo[1] => ~ Pending(f)')
  BY DEF WritesOnce, Pending
<1>4. \A v : WritesOnly(f, v) => WritesOnly(f, v)' /\ (f \in DOMAIN todo[1] => todo[1][f] = v)
  BY DEF WritesOnly
<1>q. QED BY <1>1, <1>2, <1>3, <1>4

LEMMA WriteKeeps ==
  ASSUME todo \in Seq(Writings), DOMAIN area = Fields, WriteNext, NEW f \in Fields, NEW v
  PROVE  /\ Keeps(f, v) => Keeps(f, v)'
         /\ Settles(f, v) => Settles(f, v)'
         /\ Turns(f, v) => Turns(f, v)'
<1>1. area'[f] = IF f \in DOMAIN todo[1] THEN todo[1][f] ELSE area[f]
  BY OneWritten
<1>2. Keeps(f, v) => Keeps(f, v)'
  BY <1>1, PendingAfter DEF Keeps
<1>3. Settles(f, v) => Settles(f, v)'
  BY <1>1, PendingAfter DEF Settles
<1>4. f \in DOMAIN todo[1] => Pending(f)
  <2>1. 1 \in 1 .. Len(todo)
    BY OneWritten
  <2>q. QED BY <2>1 DEF Pending
<1>5. Turns(f, v) => Turns(f, v)'
  BY <1>1, <1>4, PendingAfter DEF Turns
<1>q. QED BY <1>2, <1>3, <1>5

LEMMA WriteKeepsOrder ==
  ASSUME todo \in Seq(Writings), DOMAIN area = Fields, WriteNext, NEW f, NEW g, Before(f, g)
  PROVE  Before(f, g)'
<1>1. SUFFICES ASSUME NEW i \in 1 .. Len(todo'), f \in DOMAIN todo'[i]
               PROVE  \E j \in 1 .. Len(todo') : i < j /\ g \in DOMAIN todo'[j]
  BY DEF Before
<1>2. i + 1 \in 1 .. Len(todo) /\ f \in DOMAIN todo[i + 1]
  BY <1>1, OneWritten
<1>3. PICK j \in 1 .. Len(todo) : i + 1 < j /\ g \in DOMAIN todo[j]
  BY <1>2 DEF Before
<1>4. j - 1 \in 1 .. Len(todo') /\ i < j - 1 /\ todo'[j - 1] = todo[j]
  BY <1>3, OneWritten
<1>q. QED BY <1>3, <1>4

-----------------------------------------------------------------------------
(* The stages of a handshake.                                              *)

\* A step that leaves f alone, which is any write that is still to do included.
Spares(f) == WriteNext \/ Untouched(f)

LEMMA NothingLeft ==
  ASSUME todo = <<>>, NEW f, NEW v
  PROVE  /\ Clear(f) /\ ~ Pending(f)
         /\ Keeps(f, v) <=> area[f] = v
         /\ Settles(f, v) <=> area[f] = v
         /\ Turns(f, v) <=> area[f] = v
BY DEF Clear, Pending, Keeps, Settles, Turns, WritesOnly, WritesOnce

LEMMA ClearKeeps ==
  ASSUME NEW f, NEW v, Clear(f), area[f] = v
  PROVE  Keeps(f, v) /\ Settles(f, v) /\ Turns(f, v) /\ ~ Pending(f)
BY DEF Clear, Pending, Keeps, Settles, Turns, WritesOnly, WritesOnce

LEMMA KeepsSettles ==
  ASSUME NEW f, NEW v, Keeps(f, v) PROVE Settles(f, v)
BY DEF Keeps, Settles

LEMMA Turned ==
  ASSUME NEW f, NEW v \in {0, 1}, Turns(f, v), area[f] = v
  PROVE  Keeps(f, v) /\ ~ Pending(f)
BY DEF Turns, Keeps

LEMMA SparesField ==
  ASSUME todo \in Seq(Writings), DOMAIN area = Fields, NEW f \in Fields, NEW v, Spares(f)
  PROVE  /\ Keeps(f, v) => Keeps(f, v)'
         /\ Settles(f, v) => Settles(f, v)'
         /\ Turns(f, v) => Turns(f, v)'
<1>1. CASE WriteNext
  BY <1>1, WriteKeeps
<1>2. CASE area'[f] = area[f] /\ todo' = todo
  BY <1>2 DEF Keeps, Settles, Turns, WritesOnly, WritesOnce, Pending
<1>3. CASE area'[f] = area[f] /\ todo = <<>> /\ Clear(f)'
  BY <1>3, NothingLeft DEF Clear, Keeps, Settles, Turns, WritesOnly, WritesOnce, Pending
<1>q. QED BY <1>1, <1>2, <1>3 DEF Spares, Untouched

LEMMA SparesOrder ==
  ASSUME todo \in Seq(Writings), DOMAIN area = Fields, NEW f \in Fields, NEW g,
         Spares(f), Before(f, g)
  PROVE  Before(f, g)'
<1>1. CASE WriteNext
  BY <1>1, WriteKeepsOrder
<1>2. CASE todo' = todo
  BY <1>2 DEF Before
<1>3. CASE Clear(f)'
  BY <1>3 DEF Clear, Before
<1>q. QED BY <1>1, <1>2, <1>3 DEF Spares, Untouched

LEMMA SparesStages ==
  ASSUME todo \in Seq(Writings), DOMAIN area = Fields, NEW f \in Fields, NEW g \in Fields,
         Spares(f), Spares(g)
  PROVE  /\ Rest(f, g) => Rest(f, g)'
         /\ Taken(f, g) => Taken(f, g)'
         /\ Seen(f, g) => Seen(f, g)'
         /\ Done(f, g) => Done(f, g)'
BY SparesField, SparesOrder DEF Rest, Taken, Seen, Done

\* The menu sees the field it polls cleared: the firmware has made all its writes.
LEMMA FirstCleared ==
  ASSUME NEW f, NEW g, Taken(f, g), area[f] = 0
  PROVE  Seen(f, g)
<1>1. Keeps(f, 0) /\ ~ Pending(f)
  BY Turned DEF Taken
<1>2. ~ Pending(g)
  BY <1>1 DEF Taken, Before, Pending
<1>q. QED BY <1>1, <1>2 DEF Taken, Seen, Turns, Keeps

LEMMA SecondCleared ==
  ASSUME NEW f, NEW g, Done(f, g), area[g] = 0
  PROVE  Rest(f, g)
<1>1. Keeps(g, 0) /\ ~ Pending(g)
  BY Turned DEF Done
<1>2. ~ Pending(f)
  BY <1>1 DEF Done, Before, Pending
<1>q. QED BY <1>1, <1>2 DEF Done, Rest, Turns, Keeps

\* The firmware answers a field once: when it has no writes left the field is cleared.
LEMMA AnsweredOnce ==
  ASSUME NEW f, NEW g, todo = <<>>
  PROVE  /\ Taken(f, g) => area[f] = 0
         /\ Done(f, g) => area[g] = 0
         /\ Rest(f, g) => area[f] = 1
         /\ Seen(f, g) => area[g] = 1
BY NothingLeft DEF Taken, Done, Rest, Seen

\* A handler of f, or of g, has these two writes to do last.
LEMMA HandlerTurns ==
  ASSUME NEW f, NEW g, f # g, NEW n \in Nat,
         Len(todo') = n + 2,
         todo'[n + 1] = Write(f, 1), todo'[n + 2] = Write(g, 0),
         \A i \in 1 .. n : f \notin DOMAIN todo'[i] /\ g \notin DOMAIN todo'[i],
         area'[f] = 0, area'[g] = 1
  PROVE  (Turns(f, 1) /\ Turns(g, 0) /\ Before(f, g))'
<1>2. \A i \in 1 .. Len(todo') : /\ f \in DOMAIN todo'[i] <=> i = n + 1
                                 /\ g \in DOMAIN todo'[i] <=> i = n + 2
  BY DEF Write
<1>3. todo'[n + 1][f] = 1 /\ todo'[n + 2][g] = 0
  BY DEF Write
<1>4. n + 1 \in 1 .. Len(todo') /\ n + 2 \in 1 .. Len(todo') /\ n + 1 < n + 2
  OBVIOUS
<1>5. (WritesOnly(f, 1) /\ WritesOnly(g, 0))'
  BY <1>2, <1>3 DEF WritesOnly
<1>6. (WritesOnce(f) /\ WritesOnce(g))'
  BY <1>2 DEF WritesOnce
<1>7. (Pending(f) /\ Pending(g))'
  BY <1>2, <1>4 DEF Pending
<1>8. Before(f, g)'
  BY <1>2, <1>4 DEF Before
<1>q. QED BY <1>5, <1>6, <1>7, <1>8 DEF Turns

-----------------------------------------------------------------------------
(* The fields that each step leaves alone.                                 *)

SyncGroup == {Sync1, Sync2}
TxGroup == TxFields \cup {TxAck}
RxGroup == {RxLock, RxUnlock, RxNonempty, RxData}
LoadGroup == LoadFields \cup {LoadAck}

SparesAllBut(fs) == \A f \in Fields \ fs : Spares(f)

LEMMA GroupsApart ==
  /\ \A f \in TxGroup : f \in Fields \ (BootFields \cup SyncGroup \cup RxGroup \cup LoadGroup
                                        \cup CellFields \cup {Generation, Changed, DesiredState})
  /\ \A f \in LoadGroup : f \in Fields \ (BootFields \cup SyncGroup \cup RxGroup \cup TxGroup
                                          \cup CellFields \cup {Generation, Changed, DesiredState})
  /\ \A f \in RxGroup : f \in Fields \ (BootFields \cup SyncGroup \cup TxGroup \cup LoadGroup
                                        \cup CellFields \cup {Generation, Changed, DesiredState})
  /\ \A f \in CellFields : f \in Fields \ (BootFields \cup SyncGroup \cup TxGroup \cup LoadGroup
                                           \cup RxGroup \cup {Generation, Changed, DesiredState})
  /\ \A f \in SyncGroup \cup BootFields \cup {Changed} :
       f \in Fields \ (TxGroup \cup LoadGroup \cup RxGroup \cup CellFields
                       \cup {Generation, DesiredState})
  /\ Changed \notin SyncGroup \cup BootFields /\ \A f \in SyncGroup : f \notin BootFields
  /\ Generation \in Fields \ (BootFields \cup SyncGroup \cup TxGroup \cup RxGroup \cup LoadGroup
                              \cup CellFields \cup {Changed, DesiredState})
<1> USE Names
    DEF SyncGroup, TxGroup, RxGroup, LoadGroup, BootFields, TxFields, LoadFields, CellFields,
        Fields, Flags
<1>1. \A f \in TxGroup : f \in Fields \ (BootFields \cup SyncGroup \cup RxGroup \cup LoadGroup
                                        \cup CellFields \cup {Generation, Changed, DesiredState})
  OBVIOUS
<1>2. \A f \in LoadGroup : f \in Fields \ (BootFields \cup SyncGroup \cup RxGroup \cup TxGroup
                                          \cup CellFields \cup {Generation, Changed, DesiredState})
  OBVIOUS
<1>3. \A f \in RxGroup : f \in Fields \ (BootFields \cup SyncGroup \cup TxGroup \cup LoadGroup
                                        \cup CellFields \cup {Generation, Changed, DesiredState})
  OBVIOUS
<1>4. \A f \in CellFields : f \in Fields \ (BootFields \cup SyncGroup \cup TxGroup \cup LoadGroup
                                           \cup RxGroup \cup {Generation, Changed, DesiredState})
  OBVIOUS
<1>5. \A f \in SyncGroup \cup BootFields \cup {Changed} :
       f \in Fields \ (TxGroup \cup LoadGroup \cup RxGroup \cup CellFields
                       \cup {Generation, DesiredState})
  OBVIOUS
<1>6. Changed \notin SyncGroup \cup BootFields /\ \A f \in SyncGroup : f \notin BootFields
  OBVIOUS
<1>7. Generation \in Fields \ (BootFields \cup SyncGroup \cup TxGroup \cup RxGroup \cup LoadGroup
                              \cup CellFields \cup {Changed, DesiredState})
  OBVIOUS
<1>q. QED BY <1>1, <1>2, <1>3, <1>4, <1>5, <1>6, <1>7

\* A handler starts with nothing left to write and changes no field itself.
LEMMA HandlerSpares ==
  ASSUME NEW fs, todo = <<>>, area' = area,
         \A i \in 1 .. Len(todo') : DOMAIN todo'[i] \subseteq fs
  PROVE  SparesAllBut(fs)
BY DEF SparesAllBut, Spares, Untouched, Clear

LEMMA LoopSpares ==
  ASSUME NEW f, NEW v, todo' = todo, area' = [area EXCEPT ![f] = v], DOMAIN area = Fields
  PROVE  SparesAllBut({f})
BY DEF SparesAllBut, Spares, Untouched

LEMMA MenuSpares ==
  ASSUME UNCHANGED firmware
  PROVE  SparesAllBut({})
BY DEF SparesAllBut, Spares, Untouched, firmware

\* A precaution in front of one or two writes.
LEMMA Prefixed ==
  ASSUME NEW S, NEW w \in S, NEW a \in S, NEW b \in S
  PROVE  /\ <<w>> \o <<a, b>> \in Seq(S) /\ Len(<<w>> \o <<a, b>>) = 3
         /\ (<<w>> \o <<a, b>>)[1] = w
         /\ (<<w>> \o <<a, b>>)[2] = a /\ (<<w>> \o <<a, b>>)[3] = b
         /\ <<w>> \o <<b>> \in Seq(S) /\ Len(<<w>> \o <<b>>) = 2
         /\ (<<w>> \o <<b>>)[1] = w /\ (<<w>> \o <<b>>)[2] = b
         /\ <<a, b>> \in Seq(S) /\ <<b>> \in Seq(S)
<1>1. <<w>> \in Seq(S) /\ <<a, b>> \in Seq(S) /\ <<b>> \in Seq(S)
  OBVIOUS
<1>2. /\ <<w>> \o <<a, b>> \in Seq(S) /\ Len(<<w>> \o <<a, b>>) = 3
      /\ <<w>> \o <<b>> \in Seq(S) /\ Len(<<w>> \o <<b>>) = 2
  BY <1>1
<1>3. /\ (<<w>> \o <<a, b>>)[1] = w
      /\ (<<w>> \o <<a, b>>)[2] = a /\ (<<w>> \o <<a, b>>)[3] = b
  BY <1>1
<1>4. (<<w>> \o <<b>>)[1] = w /\ (<<w>> \o <<b>>)[2] = b
  BY <1>1
<1>q. QED BY <1>1, <1>2, <1>3, <1>4

\* What the handlers with a precaution have to write.
WritesTo(fs) == {Write(f, v) : f \in fs, v \in {0, 1}}

LEMMA TxWrites ==
  ASSUME NEW c \in Bytes, HandleTx(c), serial_tx_buf \in Bytes
  PROVE  /\ todo' \in Seq(WritesTo(TxGroup))
         /\ \/ /\ serial_tx_buf # c /\ Len(todo') = 3
               /\ todo'[1] = Write(Tx(serial_tx_buf), 1)
               /\ todo'[2] = Write(TxAck, 1) /\ todo'[3] = Write(Tx(c), 0)
            \/ /\ Len(todo') = 2
               /\ todo'[1] = Write(TxAck, 1) /\ todo'[2] = Write(Tx(c), 0)
<1> DEFINE S == WritesTo(TxGroup)
           w == Write(Tx(serial_tx_buf), 1)
           a == Write(TxAck, 1)
           b == Write(Tx(c), 0)
<1>1. Tx(c) \in TxGroup /\ TxAck \in TxGroup /\ Tx(serial_tx_buf) \in TxGroup
  BY DEF TxGroup, TxFields
<1>2. w \in S /\ a \in S /\ b \in S
  BY <1>1 DEF WritesTo
<1>3. todo' = IF serial_tx_buf # c THEN <<w>> \o <<a, b>> ELSE <<>> \o <<a, b>>
  BY DEF HandleTx, Do
<1> HIDE DEF w, a, b, S
<1>4. CASE serial_tx_buf # c
  <2>1. todo' = <<w>> \o <<a, b>>
    BY <1>3, <1>4
  <2>2. todo' \in Seq(S) /\ Len(todo') = 3 /\ todo'[1] = w /\ todo'[2] = a /\ todo'[3] = b
    BY <1>2, <2>1, Prefixed
  <2>q. QED BY <1>4, <2>2 DEF S, w, a, b
<1>5. CASE serial_tx_buf = c
  <2>1. todo' = <<a, b>>
    BY <1>3, <1>5
  <2>2. todo' \in Seq(S) /\ Len(todo') = 2 /\ todo'[1] = a /\ todo'[2] = b
    BY <1>2, <2>1, Prefixed
  <2>q. QED BY <2>2 DEF S, a, b
<1>q. QED BY <1>4, <1>5

LEMMA LoadWrites ==
  ASSUME NEW b \in Blocks, HandleLoad(b), configuration_load_last_address \in Blocks \cup {None}
  PROVE  /\ todo' \in Seq(WritesTo(LoadGroup))
         /\ configuration_load_last_address = None =>
              /\ Len(todo') = 2
              /\ todo'[1] = Write(LoadAck, 1) /\ todo'[2] = Write(Load(b), 0)
<1> DEFINE S == WritesTo(LoadGroup)
           w == Write(Load(configuration_load_last_address), 1)
           p == Write(LoadAck, 1)
           q == Write(Load(b), 0)
<1>1. Load(b) \in LoadGroup /\ LoadAck \in LoadGroup
      /\ (configuration_load_last_address # None =>
            Load(configuration_load_last_address) \in LoadGroup)
  BY DEF LoadGroup, LoadFields
<1>2. p \in S /\ q \in S /\ (configuration_load_last_address # None => w \in S)
  BY <1>1 DEF WritesTo
<1>3. todo' = IF configuration_load_last_address # None THEN <<w>> \o <<p, q>>
              ELSE <<>> \o <<p, q>>
  BY DEF HandleLoad, Do, Rearm
<1> HIDE DEF w, p, q, S
<1>4. CASE configuration_load_last_address # None
  <2>1. todo' = <<w>> \o <<p, q>>
    BY <1>3, <1>4
  <2>2. todo' \in Seq(S)
    BY <1>2, <1>4, <2>1, Prefixed
  <2>q. QED BY <1>4, <2>2 DEF S
<1>5. CASE configuration_load_last_address = None
  <2>1. todo' = <<p, q>>
    BY <1>3, <1>5
  <2>2. todo' \in Seq(S) /\ Len(todo') = 2 /\ todo'[1] = p /\ todo'[2] = q
    BY <1>2, <2>1, Prefixed
  <2>q. QED BY <2>2 DEF S, p, q
<1>q. QED BY <1>4, <1>5

LEMMA LoadAckWrites ==
  ASSUME HandleLoadAck, configuration_load_last_address \in Blocks \cup {None}
  PROVE  /\ todo' \in Seq(WritesTo(LoadGroup))
         /\ configuration_load_last_address # None =>
              /\ Len(todo') = 2
              /\ todo'[1] = Write(Load(configuration_load_last_address), 1)
              /\ todo'[2] = Write(LoadAck, 0)
<1> DEFINE S == WritesTo(LoadGroup)
           w == Write(Load(configuration_load_last_address), 1)
           q == Write(LoadAck, 0)
<1>1. LoadAck \in LoadGroup
      /\ (configuration_load_last_address # None =>
            Load(configuration_load_last_address) \in LoadGroup)
  BY DEF LoadGroup, LoadFields
<1>2. q \in S /\ (configuration_load_last_address # None => w \in S)
  BY <1>1 DEF WritesTo
<1>3. todo' = IF configuration_load_last_address # None THEN <<w>> \o <<q>> ELSE <<>> \o <<q>>
  BY DEF HandleLoadAck, Do, Rearm
<1> HIDE DEF w, q, S
<1>4. CASE configuration_load_last_address # None
  <2>1. todo' = <<w>> \o <<q>>
    BY <1>3, <1>4
  <2>2. todo' \in Seq(S) /\ Len(todo') = 2 /\ todo'[1] = w /\ todo'[2] = q
    BY <1>2, <1>4, <2>1, Prefixed
  <2>q. QED BY <1>4, <2>2 DEF S, w, q
<1>5. CASE configuration_load_last_address = None
  <2>1. todo' = <<q>>
    BY <1>3, <1>5
  <2>2. todo' \in Seq(S)
    BY <1>2, <2>1, Prefixed
  <2>q. QED BY <1>5, <2>2 DEF S
<1>q. QED BY <1>4, <1>5

\* What a handler writes is within a group of fields.
LEMMA WritesWithin ==
  ASSUME NEW fs, todo' \in Seq(WritesTo(fs))
  PROVE  \A i \in 1 .. Len(todo') : DOMAIN todo'[i] \subseteq fs
<1>1. ASSUME NEW w \in WritesTo(fs) PROVE DOMAIN w \subseteq fs
  <2>1. PICK f \in fs, v \in {0, 1} : w = Write(f, v)
    BY DEF WritesTo
  <2>2. DOMAIN w = {f}
    BY <2>1 DEF Write
  <2>q. QED BY <2>2
<1>2. \A i \in 1 .. Len(todo') : todo'[i] \in WritesTo(fs)
  OBVIOUS
<1>q. QED BY <1>1, <1>2

-----------------------------------------------------------------------------
(* The steps, sorted by the fields they touch.                             *)

MenuSteps ==
  PollDone \/ MenuStep \/ TestChanged \/ PressClient \/ NoTxByte \/ RxByte \/ NoRxByte
  \/ MinitelReset \/ (\E s \in Slots : PressBoot(s)) \/ (\E c \in Bytes : TxByte(c))

LEMMA Sparing ==
  ASSUME Typed, Next
  PROVE  \/ HandleReset
         \/ WriteNext /\ SparesAllBut({})
         \/ MenuSteps /\ SparesAllBut({})
         \/ (\E s \in Slots : HandleBoot(s)) /\ SparesAllBut(BootFields)
         \/ (HandleSync1 \/ HandleSync2) /\ SparesAllBut(SyncGroup)
         \/ ((\E c \in Bytes : HandleTx(c)) \/ HandleTxAck) /\ SparesAllBut(TxGroup)
         \/ (HandleRxLock \/ HandleRxUnlock \/ SerialRx) /\ SparesAllBut(RxGroup)
         \/ ((\E b \in Blocks : HandleLoad(b)) \/ HandleLoadAck) /\ SparesAllBut(LoadGroup)
         \/ (HandleChanged \/ \E b \in Blocks : ConfigurationChanges(b)) /\ SparesAllBut({Changed})
         \/ ConfigurationData /\ SparesAllBut(CellFields)
         \/ (UserRequestedBoot \/ UserRequestedClientMode \/ BootCommand)
            /\ SparesAllBut({DesiredState})
<1>1. ASSUME NEW s \in Slots, HandleBoot(s) PROVE SparesAllBut(BootFields)
  <2>1. todo = <<>> /\ area' = area /\ todo' = <<Write(Boot(s), 0)>>
    BY <1>1 DEF HandleBoot, Sampled, Idle, Do
  <2>2. \A i \in 1 .. Len(todo') : DOMAIN todo'[i] \subseteq BootFields
    BY <2>1 DEF Write, BootFields
  <2>q. QED BY <2>1, <2>2, HandlerSpares
<1>2. ASSUME HandleSync1 \/ HandleSync2 PROVE SparesAllBut(SyncGroup)
  <2>1. /\ todo = <<>> /\ area' = area
        /\ \/ todo' = <<Write(Sync2, 1), Write(Sync1, 0)>>
           \/ todo' = <<Write(Sync1, 1), Write(Sync2, 0)>>
    BY <1>2 DEF HandleSync1, HandleSync2, Sampled, Idle, Do
  <2>2. \A i \in 1 .. Len(todo') : DOMAIN todo'[i] \subseteq SyncGroup
    BY <2>1 DEF Write, SyncGroup
  <2>q. QED BY <2>1, <2>2, HandlerSpares
<1>3. ASSUME NEW c \in Bytes, HandleTx(c) PROVE SparesAllBut(TxGroup)
  <2>1. todo = <<>> /\ area' = area
    BY <1>3 DEF HandleTx, Sampled, Idle, Do
  <2>2. \A i \in 1 .. Len(todo') : DOMAIN todo'[i] \subseteq TxGroup
    BY <1>3, TxWrites, WritesWithin DEF Typed
  <2>q. QED BY <2>1, <2>2, HandlerSpares
<1>4. ASSUME HandleTxAck PROVE SparesAllBut(TxGroup)
  <2>1. /\ todo = <<>> /\ area' = area /\ serial_tx_buf \in Bytes
        /\ todo' = <<Write(Tx(serial_tx_buf), 1), Write(TxAck, 0)>>
    BY <1>4 DEF HandleTxAck, Sampled, Idle, Do, Typed
  <2>2. \A i \in 1 .. Len(todo') : DOMAIN todo'[i] \subseteq TxGroup
    BY <2>1 DEF Write, TxGroup, TxFields
  <2>q. QED BY <2>1, <2>2, HandlerSpares
<1>5. ASSUME HandleRxLock PROVE SparesAllBut(RxGroup)
  <2>1. /\ todo = <<>> /\ area' = area
        /\ \E v, w : todo' = <<Write(RxData, v), Write(RxNonempty, w),
                               Write(RxUnlock, 1), Write(RxLock, 0)>>
    BY <1>5 DEF HandleRxLock, Sampled, Idle, Do
  <2>2. \A i \in 1 .. Len(todo') : DOMAIN todo'[i] \subseteq RxGroup
    BY <2>1 DEF Write, RxGroup
  <2>q. QED BY <2>1, <2>2, HandlerSpares
<1>6. ASSUME HandleRxUnlock PROVE SparesAllBut(RxGroup)
  <2>1. todo = <<>> /\ area' = area /\ todo' = <<Write(RxLock, 1), Write(RxUnlock, 0)>>
    BY <1>6 DEF HandleRxUnlock, Sampled, Idle, Do
  <2>2. \A i \in 1 .. Len(todo') : DOMAIN todo'[i] \subseteq RxGroup
    BY <2>1 DEF Write, RxGroup
  <2>q. QED BY <2>1, <2>2, HandlerSpares
<1>7. ASSUME SerialRx PROVE SparesAllBut(RxGroup)
  <2>1. todo' = todo /\ (area' = area \/ area' = [area EXCEPT ![RxNonempty] = 1])
    BY <1>7 DEF SerialRx, Enqueue
  <2>q. QED BY <2>1 DEF SparesAllBut, Spares, Untouched, RxGroup, Typed
<1>8. ASSUME NEW b \in Blocks, HandleLoad(b) PROVE SparesAllBut(LoadGroup)
  <2>1. todo = <<>> /\ area' = area
    BY <1>8 DEF HandleLoad, Sampled, Idle, Do
  <2>2. \A i \in 1 .. Len(todo') : DOMAIN todo'[i] \subseteq LoadGroup
    BY <1>8, LoadWrites, WritesWithin DEF Typed
  <2>q. QED BY <2>1, <2>2, HandlerSpares
<1>9. ASSUME HandleLoadAck PROVE SparesAllBut(LoadGroup)
  <2>1. todo = <<>> /\ area' = area
    BY <1>9 DEF HandleLoadAck, Sampled, Idle, Do
  <2>2. \A i \in 1 .. Len(todo') : DOMAIN todo'[i] \subseteq LoadGroup
    BY <1>9, LoadAckWrites, WritesWithin DEF Typed
  <2>q. QED BY <2>1, <2>2, HandlerSpares
<1>10. ASSUME HandleChanged PROVE SparesAllBut({Changed})
  <2>1. todo = <<>> /\ area' = area /\ todo' = <<Write(Changed, 0)>>
    BY <1>10 DEF HandleChanged, Sampled, Idle, Do
  <2>2. \A i \in 1 .. Len(todo') : DOMAIN todo'[i] \subseteq {Changed}
    BY <2>1 DEF Write
  <2>q. QED BY <2>1, <2>2, HandlerSpares
<1>11. ASSUME NEW b \in Blocks, ConfigurationChanges(b) PROVE SparesAllBut({Changed})
  BY <1>11, LoopSpares DEF ConfigurationChanges, Typed
<1>12. ASSUME ConfigurationData PROVE SparesAllBut(CellFields)
  <2>1. /\ todo = <<>> /\ area' = area
        /\ todo' = [k \in Cells |-> Write(Cell(k), <<signal[2], version[signal[2]]>>)]
    BY <1>12 DEF ConfigurationData, Returned
  <2>2. Len(todo') = NumCells
    BY <2>1, Sizes DEF Cells
  <2>3. \A i \in 1 .. Len(todo') : DOMAIN todo'[i] \subseteq CellFields
    BY <2>1, <2>2 DEF Write, CellFields, Cells
  <2>q. QED BY <2>1, <2>3, HandlerSpares
<1>13. ASSUME UserRequestedBoot \/ UserRequestedClientMode \/ BootCommand
       PROVE  SparesAllBut({DesiredState})
  <2>1. todo' = todo /\ (area' = area \/ \E v : area' = [area EXCEPT ![DesiredState] = v])
    BY <1>13 DEF UserRequestedBoot, UserRequestedClientMode, BootCommand, AcceptBoot
  <2>q. QED BY <2>1 DEF SparesAllBut, Spares, Untouched, Typed
<1>14. ASSUME MenuSteps PROVE SparesAllBut({})
  <2>1. UNCHANGED firmware
    BY <1>14 DEF MenuSteps, PollDone, MenuStep, Reset, Dispatch, Loop, GetConfiguration, Draw,
                 RxTake, TestChanged, PressClient, NoTxByte, RxByte, NoRxByte, MinitelReset,
                 PressBoot, TxByte
  <2>q. QED BY <2>1, MenuSpares
<1>15. ASSUME WriteNext PROVE SparesAllBut({})
  BY <1>15 DEF SparesAllBut, Spares
<1>q. QED BY <1>1, <1>2, <1>3, <1>4, <1>5, <1>6, <1>7, <1>8, <1>9, <1>10, <1>11, <1>12, <1>13,
             <1>14, <1>15
          DEF Next, Firmware, AnalyzeTraces, User, MenuSteps

-----------------------------------------------------------------------------
(* The types are kept.                                                     *)

LEMMA WritingOf ==
  /\ \A f \in Fields : \A v \in Contents(f) : Write(f, v) \in Writings
  /\ \A fs \in SUBSET Flags : \A v \in {0, 1} : WriteAll(fs, v) \in Writings
<1>1. ASSUME NEW f \in Fields, NEW v \in Contents(f) PROVE Write(f, v) \in Writings
  <2>1. v \in AnyContents /\ {f} \in SUBSET Fields
    BY DEF AnyContents
  <2>2. Write(f, v) \in [{f} -> AnyContents] /\ DOMAIN Write(f, v) = {f} /\ Write(f, v)[f] = v
    BY <2>1 DEF Write
  <2>q. QED BY <2>1, <2>2 DEF Writings
<1>2. ASSUME NEW fs \in SUBSET Flags, NEW v \in {0, 1} PROVE WriteAll(fs, v) \in Writings
  <2>1. \A f \in fs : v \in Contents(f) /\ f \in Fields
    BY ContentsOf DEF Fields
  <2>2. fs \in SUBSET Fields /\ \A f \in fs : v \in AnyContents
    BY <2>1 DEF AnyContents
  <2>3. WriteAll(fs, v) \in [fs -> AnyContents] /\ DOMAIN WriteAll(fs, v) = fs
        /\ \A f \in fs : WriteAll(fs, v)[f] = v
    BY <2>2 DEF WriteAll
  <2>q. QED BY <2>1, <2>2, <2>3 DEF Writings
<1>q. QED BY <1>1, <1>2

LEMMA WritesToTyped ==
  ASSUME NEW fs \in SUBSET Flags
  PROVE  WritesTo(fs) \subseteq Writings
<1>1. ASSUME NEW w \in WritesTo(fs) PROVE w \in Writings
  <2>1. PICK f \in fs, v \in {0, 1} : w = Write(f, v)
    BY DEF WritesTo
  <2>2. f \in Fields /\ v \in Contents(f)
    BY ContentsOf DEF Fields
  <2>q. QED BY <2>1, <2>2, WritingOf
<1>q. QED BY <1>1

LEMMA NextGenerationType ==
  ASSUME NEW gen \in 0 .. Generations - 1
  PROVE  NextGeneration(gen) \in 0 .. Generations - 1 /\ NextGeneration(gen) # gen
<1>1. CASE gen + 1 < Generations
  <2>1. (gen + 1) % Generations = gen + 1
    BY <1>1, Sizes
  <2>q. QED BY <1>1, <2>1, Sizes DEF NextGeneration
<1>2. CASE gen + 1 = Generations
  <2>1. (gen + 1) % Generations = 0
    BY <1>2, Sizes
  <2>q. QED BY <1>2, <2>1, Sizes DEF NextGeneration
<1>q. QED BY <1>1, <1>2, Sizes

\* The firmware always has writes of the right type to do.
LEMMA TodoTyped ==
  ASSUME Typed, Next
  PROVE  todo' \in Seq(Writings)
<1> USE DEF Typed
<1>1. \A f \in {Sync1, Sync2, TxAck, RxLock, RxUnlock, Changed, LoadAck} : \A v \in {0, 1} :
        Write(f, v) \in Writings
  BY ContentsOf, WritingOf DEF Fields, Flags
<1>2. /\ \A s \in Slots : \A v \in {0, 1} : Write(Boot(s), v) \in Writings
      /\ \A c \in Bytes : \A v \in {0, 1} : Write(Tx(c), v) \in Writings
      /\ \A v \in {0, 1} : Write(RxNonempty, v) \in Writings
      /\ \A v \in Bytes \cup {"?"} : Write(RxData, v) \in Writings
      /\ \A b \in Blocks, k \in Cells, v \in 0 .. LastVersion : Write(Cell(k), <<b, v>>) \in Writings
  <2>1. /\ \A s \in Slots : Boot(s) \in Flags
        /\ \A c \in Bytes : Tx(c) \in Flags
        /\ \A k \in Cells : Cell(k) \in CellFields
    BY DEF Flags, BootFields, TxFields, CellFields
  <2>2. /\ \A s \in Slots : \A v \in {0, 1} : Write(Boot(s), v) \in Writings
        /\ \A c \in Bytes : \A v \in {0, 1} : Write(Tx(c), v) \in Writings
        /\ \A v \in {0, 1} : Write(RxNonempty, v) \in Writings
    BY <2>1, ContentsOf, WritingOf DEF Fields
  <2>3. \A v \in Bytes \cup {"?"} : Write(RxData, v) \in Writings
    BY ContentsOf, WritingOf DEF Fields
  <2>4. \A b \in Blocks, k \in Cells, v \in 0 .. LastVersion : Write(Cell(k), <<b, v>>) \in Writings
    BY <2>1, ContentsOf, WritingOf DEF Fields
  <2>q. QED BY <2>2, <2>3, <2>4
<1>3. ASSUME HandleReset PROVE todo' \in Seq(Writings)
  <2> DEFINE gen == NextGeneration(area[Generation])
  <2>1. gen \in Contents(Generation) /\ Generation \in Fields
    BY ContentsOf, NextGenerationType DEF Fields
  <2>2. Write(Generation, gen) \in Writings
    BY <2>1, WritingOf
  <2>3. {Boot(Slot0), Sync1} \in SUBSET Flags /\ TxFields \in SUBSET Flags
        /\ LoadFields \in SUBSET Flags
    BY ZeroAssumption DEF Flags, BootFields
  <2>4. WriteAll({Boot(Slot0), Sync1}, 1) \in Writings /\ WriteAll(TxFields, 1) \in Writings
        /\ WriteAll(LoadFields, 1) \in Writings
    BY <2>3, WritingOf
  <2>5. todo' = PrepareWrites(gen)
    BY <1>3 DEF HandleReset, Do
  <2> HIDE DEF gen
  <2>q. QED BY <1>1, <1>2, <2>2, <2>4, <2>5 DEF PrepareWrites
<1>4. ASSUME NEW s \in Slots, HandleBoot(s) PROVE todo' \in Seq(Writings)
  BY <1>2, <1>4 DEF HandleBoot, Do
<1>5. ASSUME HandleSync1 \/ HandleSync2 \/ HandleRxUnlock \/ HandleChanged
      PROVE  todo' \in Seq(Writings)
  <2>1. \/ todo' = <<Write(Sync2, 1), Write(Sync1, 0)>>
        \/ todo' = <<Write(Sync1, 1), Write(Sync2, 0)>>
        \/ todo' = <<Write(RxLock, 1), Write(RxUnlock, 0)>>
        \/ todo' = <<Write(Changed, 0)>>
    BY <1>5 DEF HandleSync1, HandleSync2, HandleRxUnlock, HandleChanged, Do
  <2>2. \A v, w \in Writings : <<v, w>> \in Seq(Writings) /\ <<v>> \in Seq(Writings)
    OBVIOUS
  <2>3. \A f \in {Sync1, Sync2, RxLock, RxUnlock, Changed} :
          Write(f, 0) \in Writings /\ Write(f, 1) \in Writings
    BY <1>1
  <2>q. QED BY ONLY <2>1, <2>2, <2>3
<1>6. ASSUME NEW c \in Bytes, HandleTx(c) PROVE todo' \in Seq(Writings)
  <2>1. WritesTo(TxGroup) \subseteq Writings
    BY WritesToTyped DEF TxGroup, Flags
  <2>q. QED BY <1>6, <2>1, TxWrites
<1>7. ASSUME HandleTxAck PROVE todo' \in Seq(Writings)
  <2>1. todo' = <<Write(Tx(serial_tx_buf), 1), Write(TxAck, 0)>>
    BY <1>7 DEF HandleTxAck, Do
  <2>2. Write(Tx(serial_tx_buf), 1) \in Writings /\ Write(TxAck, 0) \in Writings
    BY <1>1, <1>2
  <2>q. QED BY <2>1, <2>2
<1>8. ASSUME HandleRxLock PROVE todo' \in Seq(Writings)
  <2>1. PICK v \in Bytes \cup {"?"}, w \in {0, 1} :
          todo' = <<Write(RxData, v), Write(RxNonempty, w), Write(RxUnlock, 1), Write(RxLock, 0)>>
    BY <1>8, Sizes DEF HandleRxLock, Do, Ring
  <2>q. QED BY <1>1, <1>2, <2>1
<1>9. ASSUME NEW b \in Blocks, HandleLoad(b) PROVE todo' \in Seq(Writings)
  <2>1. WritesTo(LoadGroup) \subseteq Writings
    BY WritesToTyped DEF LoadGroup, Flags
  <2>q. QED BY <1>9, <2>1, LoadWrites
<1>10. ASSUME HandleLoadAck PROVE todo' \in Seq(Writings)
  <2>1. WritesTo(LoadGroup) \subseteq Writings
    BY WritesToTyped DEF LoadGroup, Flags
  <2>q. QED BY <1>10, <2>1, LoadAckWrites
<1>11. ASSUME ConfigurationData PROVE todo' \in Seq(Writings)
  <2>1. signal[1] = "block" /\ signal # None
    BY <1>11 DEF ConfigurationData, Returned
  <2>2. \A r \in Requests : r[1] # "block"
    BY DEF Requests
  <2>3. PICK b \in Blocks : signal = <<"block", b>>
    BY <2>1, <2>2
  <2>4. todo' = [k \in 1 .. NumCells |-> Write(Cell(k), <<b, version[b]>>)]
    BY <1>11, <2>3 DEF ConfigurationData, Cells
  <2>5. \A k \in 1 .. NumCells : Write(Cell(k), <<b, version[b]>>) \in Writings
    BY <1>2 DEF Cells
  <2>6. NumCells \in Nat
    BY Sizes
  <2>7. todo' \in [1 .. NumCells -> Writings]
    BY <2>4, <2>5
  <2>q. QED BY <2>6, <2>7
<1>12. CASE WriteNext
  BY <1>12, OneWritten
<1>13. CASE todo' = todo
  BY <1>13
<1>14. ASSUME SerialRx \/ UserRequestedBoot \/ UserRequestedClientMode \/ BootCommand
              \/ \E b \in Blocks : ConfigurationChanges(b)
       PROVE  todo' = todo
  BY <1>14 DEF SerialRx, UserRequestedBoot, UserRequestedClientMode, BootCommand,
               ConfigurationChanges
<1>15. ASSUME MenuSteps PROVE todo' = todo
  BY <1>15 DEF MenuSteps, PollDone, MenuStep, Reset, Dispatch, Loop, GetConfiguration, Draw,
               RxTake, TestChanged, PressClient, NoTxByte, RxByte, NoRxByte, MinitelReset,
               PressBoot, TxByte, firmware
<1>q. QED BY <1>3, <1>4, <1>5, <1>6, <1>7, <1>8, <1>9, <1>10, <1>11, <1>12, <1>13, <1>14, <1>15
          DEF Next, Firmware, AnalyzeTraces, User, MenuSteps

LEMMA AreaTyped ==
  ASSUME Typed, Next
  PROVE  DOMAIN area' = Fields /\ \A f \in Fields : area'[f] \in Contents(f)
<1> USE DEF Typed
<1>1. CASE WriteNext
  <2>1. 1 \in 1 .. Len(todo)
    BY <1>1, OneWritten
  <2>2. todo[1] \in Writings
    BY <2>1
  <2>q. QED BY <1>1, <2>2, OneWritten DEF Writings
<1>2. CASE area' = area
  BY <1>2
<1>3. ASSUME AnalyzeTraces PROVE area' = area
  BY <1>3 DEF AnalyzeTraces, HandleReset, HandleBoot, HandleSync1, HandleSync2, HandleTx,
              HandleTxAck, HandleRxLock, HandleRxUnlock, HandleChanged, HandleLoad,
              HandleLoadAck, Do
<1>4. CASE \E v \in DesiredStates : area' = [area EXCEPT ![DesiredState] = v]
  BY <1>4, ContentsOf DEF Fields
<1>5. CASE area' = [area EXCEPT ![RxNonempty] = 1] \/ area' = [area EXCEPT ![Changed] = 1]
  BY <1>5, ContentsOf DEF Fields, Flags
<1>6. ASSUME UserRequestedBoot \/ UserRequestedClientMode \/ BootCommand
      PROVE  area' = area \/ \E v \in DesiredStates : area' = [area EXCEPT ![DesiredState] = v]
  BY <1>6 DEF UserRequestedBoot, UserRequestedClientMode, BootCommand, AcceptBoot, DesiredStates
<1>7. ASSUME SerialRx \/ ConfigurationData \/ \E b \in Blocks : ConfigurationChanges(b)
      PROVE  \/ area' = area
             \/ area' = [area EXCEPT ![RxNonempty] = 1] \/ area' = [area EXCEPT ![Changed] = 1]
  BY <1>7 DEF SerialRx, Enqueue, ConfigurationData, ConfigurationChanges
<1>8. ASSUME MenuSteps PROVE area' = area
  BY <1>8 DEF MenuSteps, PollDone, MenuStep, Reset, Dispatch, Loop, GetConfiguration, Draw,
              RxTake, TestChanged, PressClient, NoTxByte, RxByte, NoRxByte, MinitelReset,
              PressBoot, TxByte, firmware
<1>q. QED BY <1>1, <1>2, <1>3, <1>4, <1>5, <1>6, <1>7, <1>8
          DEF Next, Firmware, User, MenuSteps

\* Where the menu is tells which fields it may be polling, and the block it is at.
Calls ==
  \/ phase \in {"boot", "error", "trampoline", "serial_in"} /\ polling = <<>>
  \/ phase = "top" /\ polling \in {<<>>, <<Generation>>}
  \/ phase = "menu" /\ (polling = <<>> \/ (polling = <<Changed>> /\ next_block = 1))
  \/ phase = "refresh" /\ polling = <<>> /\ next_block \in Blocks
  \/ /\ phase = "draw" /\ next_block \in Blocks /\ Len(screen[next_block]) < NumCells
     /\ \/ polling = <<>>
        \/ (polling = <<Load(next_block), LoadAck>> \/ polling = <<LoadAck>>)
           /\ screen[next_block] = <<>>
  \/ /\ phase = "keys" /\ next_block = NumBlocks + 1
     /\ \/ polling \in {<<>>, <<Sync1, Sync2>>, <<Sync2>>}
        \/ \E s \in Slots : polling = <<Boot(s)>>
  \/ phase = "client" /\ polling \in {<<>>, <<RxUnlock>>}
  \/ /\ phase = "serial_out"
     /\ \/ polling \in {<<>>, <<TxAck>>}
        \/ \E c \in Bytes : polling = <<Tx(c), TxAck>>
  \/ phase = "take" /\ polling \in {<<>>, <<RxLock>>}

\* The firmware does not move the menu.
LEMMA FirmwareLeavesMenu ==
  ASSUME Firmware \/ BootCommand \/ \E b \in Blocks : ConfigurationChanges(b)
  PROVE  UNCHANGED menu
BY DEF Firmware, BootCommand, ConfigurationChanges, AnalyzeTraces, HandleReset, HandleBoot,
       HandleSync1, HandleSync2, HandleTx, HandleTxAck, HandleRxLock, HandleRxUnlock,
       HandleChanged, HandleLoad, HandleLoadAck, Do, WriteNext, UserRequestedBoot,
       UserRequestedClientMode, SerialRx, ConfigurationData

LEMMA CallsStep ==
  ASSUME Typed, Calls, Next
  PROVE  Calls'
<1> USE DEF Typed
<1>1. CASE UNCHANGED menu
  BY <1>1 DEF Calls, menu
<1>2. CASE PollDone
  <2>1. /\ polling # <<>> /\ polling' = Tail(polling)
        /\ UNCHANGED <<phase, next_block, screen>>
    BY <1>2 DEF PollDone, Poll
  <2>2. \A x, y : Tail(<<x, y>>) = <<y>> /\ Tail(<<x>>) = <<>>
    OBVIOUS
  <2>3. CASE phase = "draw"
    <3>1. /\ next_block \in Blocks /\ Len(screen[next_block]) < NumCells
          /\ screen[next_block] = <<>>
          /\ polling = <<Load(next_block), LoadAck>> \/ polling = <<LoadAck>>
      BY <2>1, <2>3 DEF Calls
    <3>2. polling' = <<LoadAck>> \/ polling' = <<>>
      BY <2>1, <2>2, <3>1
    <3>q. QED BY ONLY <2>1, <2>3, <3>1, <3>2 DEF Calls
  <2>4. CASE phase = "keys"
    <3>1. next_block = NumBlocks + 1
          /\ (polling \in {<<Sync1, Sync2>>, <<Sync2>>} \/ \E s \in Slots : polling = <<Boot(s)>>)
      BY <2>1, <2>4 DEF Calls
    <3>2. polling' = <<Sync2>> \/ polling' = <<>>
      BY <2>1, <2>2, <3>1
    <3>q. QED BY ONLY <2>1, <2>4, <3>1, <3>2 DEF Calls
  <2>5. CASE phase = "serial_out"
    <3>1. polling = <<TxAck>> \/ \E c \in Bytes : polling = <<Tx(c), TxAck>>
      BY <2>1, <2>5 DEF Calls
    <3>2. polling' = <<TxAck>> \/ polling' = <<>>
      BY <2>1, <2>2, <3>1
    <3>q. QED BY ONLY <2>1, <2>5, <3>2 DEF Calls
  <2>6. CASE phase \in {"top", "menu", "client", "take"}
    <3>1. \E x : polling = <<x>>
      BY <2>1, <2>6 DEF Calls
    <3>2. polling' = <<>>
      BY <2>1, <2>2, <3>1
    <3>q. QED BY ONLY <2>1, <2>6, <3>2 DEF Calls
  <2>q. QED BY <2>1, <2>3, <2>4, <2>5, <2>6 DEF Calls
<1>3. CASE Reset
  BY <1>3 DEF Reset, At, Go, Poll, Calls
<1>4. CASE Dispatch
  <2>1. area[DesiredState] \in DesiredStates
    BY ContentsOf DEF Fields
  <2>2. PhaseOf(area[DesiredState]) \in {"menu", "client", "error", "trampoline"}
    BY <2>1 DEF PhaseOf, DesiredStates
  <2>q. QED BY <1>4, <2>2 DEF Dispatch, At, Go, Calls
<1>5. CASE Loop
  BY <1>5, Sizes DEF Loop, Go, Calls, Blocks
<1>6. CASE GetConfiguration
  <2>1. phase = "refresh" /\ next_block \in Blocks
    BY <1>6 DEF GetConfiguration, At, Calls
  <2>2. screen'[next_block] = <<>> /\ Len(<<>>) < NumCells
    BY <1>6, <2>1, Sizes DEF GetConfiguration
  <2>3. polling' = <<Load(next_block), LoadAck>> /\ phase' = "draw" /\ next_block' = next_block
    BY <1>6 DEF GetConfiguration, Poll, Go
  <2>q. QED BY <2>1, <2>2, <2>3 DEF Calls
<1>7. CASE Draw
  <2>1. /\ phase = "draw" /\ next_block \in Blocks /\ Len(screen[next_block]) < NumCells
        /\ polling = <<>>
    BY <1>7 DEF Draw, At, Calls
  <2> DEFINE drawn == Append(screen[next_block], area[Cell(Len(screen[next_block]) + 1)])
  <2>2. screen'[next_block] = drawn /\ polling' = <<>>
    BY <1>7, <2>1 DEF Draw
  <2>3. CASE Len(drawn) < NumCells
    <3>1. phase' = "draw" /\ next_block' = next_block
      BY <1>7, <2>1, <2>3 DEF Draw
    <3>q. QED BY <2>1, <2>2, <2>3, <3>1 DEF Calls
  <2>4. CASE ~ (Len(drawn) < NumCells)
    <3>1. next_block' = next_block + 1
          /\ phase' = IF next_block < NumBlocks THEN "refresh" ELSE "keys"
      BY <1>7, <2>4 DEF Draw, Go
    <3>q. QED BY <2>1, <2>2, <3>1, Sizes DEF Calls, Blocks
  <2>q. QED BY <2>3, <2>4
<1>8. CASE RxTake \/ RxByte \/ NoRxByte \/ NoTxByte
  BY <1>8 DEF RxTake, RxByte, NoRxByte, NoTxByte, At, Go, Poll, Calls
<1>9. ASSUME NEW c \in Bytes, TxByte(c) PROVE Calls'
  BY <1>9 DEF TxByte, At, Go, Poll, Calls
<1>10. CASE TestChanged
  BY <1>10 DEF TestChanged, At, Go, Poll, Calls
<1>11. ASSUME PressClient \/ \E s \in Slots : PressBoot(s) PROVE Calls'
  BY <1>11 DEF PressClient, PressBoot, At, Poll, Calls
<1>12. CASE MinitelReset
  BY <1>12 DEF MinitelReset, Go, Poll, Calls
<1>q. QED BY <1>1, <1>2, <1>3, <1>4, <1>5, <1>6, <1>7, <1>8, <1>9, <1>10, <1>11, <1>12,
             FirmwareLeavesMenu
          DEF Next, MenuStep, User

LEMMA TypedStep ==
  ASSUME Typed, Calls, Next
  PROVE  Typed'
<1> DEFINE
      Ram == /\ serial_tx_buf \in Bytes
             /\ configuration_load_last_address \in Blocks \cup {None}
             /\ signal \in Requests \cup {<<"block", b>> : b \in Blocks} \cup {None}
             /\ can_accept_boot_command \in BOOLEAN
             /\ version \in [Blocks -> 0 .. LastVersion]
      Queue == /\ serial_rx_buf \in [Ring -> Bytes]
               /\ serial_rx_buf_rpos \in Ring /\ serial_rx_buf_cnt \in 0 .. Capacity
      Menu == /\ initial_value \in 0 .. Generations - 1
              /\ screen \in [Blocks -> Seq(AnyContents)]
              /\ next_block \in 1 .. NumBlocks + 1
<1>1. Ram /\ Queue /\ Menu
  BY DEF Typed
<1>2. Ram'
  <2>1. CASE UNCHANGED <<serial_tx_buf, configuration_load_last_address, signal,
                         can_accept_boot_command, version>>
    BY <1>1, <2>1
  <2>2. CASE HandleReset
    BY <1>1, <2>2 DEF HandleReset, ReturnNothing
  <2>3. ASSUME NEW s \in Slots, HandleBoot(s) PROVE Ram'
    BY <1>1, <2>3 DEF HandleBoot, Return, ram, Requests
  <2>4. CASE HandleSync1 \/ HandleRxUnlock \/ HandleChanged
    BY <1>1, <2>4 DEF HandleSync1, HandleRxUnlock, HandleChanged, ReturnNothing, ram
  <2>5. CASE HandleSync2
    BY <1>1, <2>5 DEF HandleSync2, Return, ram, Requests
  <2>6. ASSUME NEW c \in Bytes, HandleTx(c) PROVE Ram'
    BY <1>1, <2>6 DEF HandleTx, ReturnNothing
  <2>7. CASE HandleTxAck
    BY <1>1, <2>7 DEF HandleTxAck, Return, ram, Requests
  <2>8. CASE HandleRxLock
    BY <1>1, <2>8 DEF HandleRxLock, ReturnNothing
  <2>9. ASSUME NEW b \in Blocks, HandleLoad(b) PROVE Ram'
    BY <1>1, <2>9 DEF HandleLoad, Return
  <2>10. CASE HandleLoadAck
    BY <1>1, <2>10 DEF HandleLoadAck, ReturnNothing
  <2>11. CASE WriteNext
    BY <1>1, <2>11 DEF WriteNext, ram
  <2>12. CASE UserRequestedBoot \/ BootCommand
    BY <1>1, <2>12 DEF UserRequestedBoot, BootCommand, AcceptBoot, Acted
  <2>13. CASE UserRequestedClientMode \/ SerialRx \/ ConfigurationData
    BY <1>1, <2>13 DEF UserRequestedClientMode, SerialRx, ConfigurationData, Acted, ram
  <2>14. ASSUME NEW b \in Blocks, ConfigurationChanges(b) PROVE Ram'
    <3>1. version[b] + 1 \in 0 .. LastVersion
          /\ version' = [version EXCEPT ![b] = version[b] + 1]
      BY <1>1, <2>14, Sizes DEF ConfigurationChanges
    <3>q. QED BY <1>1, <2>14, <3>1 DEF ConfigurationChanges
  <2>15. ASSUME MenuSteps
         PROVE  UNCHANGED <<serial_tx_buf, configuration_load_last_address, signal,
                            can_accept_boot_command, version>>
    BY <2>15 DEF MenuSteps, PollDone, MenuStep, Reset, Dispatch, Loop, GetConfiguration, Draw,
                 RxTake, TestChanged, PressClient, NoTxByte, RxByte, NoRxByte, MinitelReset,
                 PressBoot, TxByte, firmware, ram
  <2> HIDE DEF Ram
  <2>q. QED BY <2>1, <2>2, <2>3, <2>4, <2>5, <2>6, <2>7, <2>8, <2>9, <2>10, <2>11, <2>12, <2>13,
               <2>14, <2>15
            DEF Next, Firmware, AnalyzeTraces, User, MenuSteps
<1>3. Queue'
  <2>1. CASE UNCHANGED rx
    BY <1>1, <2>1 DEF rx
  <2>2. CASE HandleReset
    BY <1>1, <2>2, Sizes DEF HandleReset, Ring
  <2>3. CASE HandleRxLock
    <3>1. /\ serial_rx_buf' = serial_rx_buf
          /\ serial_rx_buf_rpos' = serial_rx_buf_rpos
             \/ serial_rx_buf_rpos' = (serial_rx_buf_rpos + 1) % Capacity
          /\ serial_rx_buf_cnt' = IF serial_rx_buf_cnt = 0 THEN 0 ELSE serial_rx_buf_cnt - 1
      BY <2>3 DEF HandleRxLock
    <3>2. serial_rx_buf_rpos + 1 \in Nat
      BY <1>1, Sizes DEF Ring
    <3>3. (serial_rx_buf_rpos + 1) % Capacity \in Ring
      BY <3>2, OnRing
    <3>4. serial_rx_buf_cnt' \in 0 .. Capacity
      BY <1>1, <3>1, Sizes
    <3>q. QED BY <1>1, <3>1, <3>3, <3>4
  <2>4. CASE SerialRx
    <3>1. PICK answer \in Answers : Enqueue(answer)
      BY <2>4 DEF SerialRx
    <3>2. answer \in Seq(Bytes)
      BY AnswersAssumption
    <3>3. Kept(answer) \in 0 .. Capacity - serial_rx_buf_cnt /\ Kept(answer) <= Len(answer)
      <4>1. Len(answer) \in Nat
        BY <3>2
      <4>2. Capacity - serial_rx_buf_cnt \in Nat
        BY <1>1, Sizes
      <4>q. QED BY <4>1, <4>2 DEF Kept
    <3>4. \A i \in 1 .. Kept(answer) : answer[i] \in Bytes
      BY <3>2, <3>3
    <3>5. serial_rx_buf' \in [Ring -> Bytes]
      BY <1>1, <3>1, <3>4 DEF Enqueue
    <3>6. serial_rx_buf_cnt' = serial_rx_buf_cnt + Kept(answer)
          /\ serial_rx_buf_rpos' = serial_rx_buf_rpos
      BY <3>1 DEF Enqueue
    <3>7. serial_rx_buf_cnt' \in 0 .. Capacity /\ serial_rx_buf_rpos' \in Ring
      BY <1>1, <3>3, <3>6, Sizes
    <3>q. QED BY <3>5, <3>7
  <2>5. ASSUME Next, ~ HandleReset, ~ HandleRxLock, ~ SerialRx PROVE UNCHANGED rx
    <3>1. CASE MenuSteps
      BY <3>1 DEF MenuSteps, PollDone, MenuStep, Reset, Dispatch, Loop, GetConfiguration, Draw,
                 RxTake, TestChanged, PressClient, NoTxByte, RxByte, NoRxByte, MinitelReset,
                 PressBoot, TxByte, firmware, ram
    <3>2. CASE AnalyzeTraces
      BY <2>5, <3>2 DEF AnalyzeTraces, HandleBoot, HandleSync1, HandleSync2, HandleTx,
               HandleTxAck, HandleRxUnlock, HandleChanged, HandleLoad, HandleLoadAck, ram
    <3>3. CASE WriteNext \/ UserRequestedBoot \/ UserRequestedClientMode \/ ConfigurationData
               \/ BootCommand \/ \E b \in Blocks : ConfigurationChanges(b)
      BY <3>3 DEF WriteNext, UserRequestedBoot, UserRequestedClientMode, ConfigurationData,
                  BootCommand, ConfigurationChanges, ram
    <3>q. QED BY <2>5, <3>1, <3>2, <3>3 DEF Next, Firmware, User, MenuSteps
  <2> HIDE DEF Queue
  <2>q. QED BY <2>1, <2>2, <2>3, <2>4, <2>5
<1>4. Menu'
  <2>1. CASE UNCHANGED <<initial_value, screen, next_block>>
    BY <1>1, <2>1
  <2>2. CASE Reset
    BY <1>1, <2>2, ContentsOf DEF Reset, Typed, Fields
  <2>3. CASE Dispatch
    BY <1>1, <2>3, Sizes DEF Dispatch
  <2>4. \A b \in Blocks : Blank[b] \in Seq(AnyContents)
    BY DEF Blank
  <2>a. Blank \in [Blocks -> Seq(AnyContents)]
    BY <2>4 DEF Blank
  <2>5. CASE Loop \/ MinitelReset
    <3>1. /\ initial_value' = initial_value /\ next_block' \in {next_block, 1}
          /\ screen' \in {screen, Blank}
      BY <2>5 DEF Loop, MinitelReset
    <3>2. next_block' \in 1 .. NumBlocks + 1
      BY <1>1, <3>1, Sizes
    <3>3. screen' \in [Blocks -> Seq(AnyContents)]
      BY <1>1, <2>a, <3>1
    <3>q. QED BY <1>1, <3>1, <3>2, <3>3
  <2>6. CASE GetConfiguration
    <3>1. /\ initial_value' = initial_value /\ next_block' = next_block
          /\ screen' = [screen EXCEPT ![next_block] = <<>>]
      BY <2>6 DEF GetConfiguration
    <3>2. <<>> \in Seq(AnyContents)
      OBVIOUS
    <3>q. QED BY <1>1, <3>1, <3>2
  <2>7. CASE Draw
    <3>1. next_block \in Blocks /\ Len(screen[next_block]) < NumCells
      BY <2>7 DEF Draw, At, Calls
    <3>2. Len(screen[next_block]) + 1 \in Cells
      <4>1. Len(screen[next_block]) \in Nat
        BY <1>1, <3>1
      <4>q. QED BY <3>1, <4>1, Sizes DEF Cells
    <3>3. Cell(Len(screen[next_block]) + 1) \in Fields
      BY <3>2 DEF Fields, CellFields
    <3>4. area[Cell(Len(screen[next_block]) + 1)] \in AnyContents
      BY <3>3 DEF Typed, AnyContents
    <3>5. Append(screen[next_block], area[Cell(Len(screen[next_block]) + 1)]) \in Seq(AnyContents)
      BY <1>1, <3>1, <3>4
    <3>6. screen' \in [Blocks -> Seq(AnyContents)]
      BY <1>1, <2>7, <3>5 DEF Draw
    <3>7. next_block' \in {next_block, next_block + 1} /\ initial_value' = initial_value
      BY <2>7 DEF Draw
    <3>8. next_block' \in 1 .. NumBlocks + 1
      BY <3>1, <3>7, Sizes DEF Blocks
    <3>q. QED BY <1>1, <3>6, <3>7, <3>8
  <2>8. CASE TestChanged
    <3>1. next_block' \in {1, NumBlocks + 1} /\ UNCHANGED <<initial_value, screen>>
      BY <2>8 DEF TestChanged
    <3>q. QED BY <1>1, <3>1, Sizes
  <2>9. CASE PollDone \/ RxTake \/ PressClient \/ NoTxByte \/ RxByte \/ NoRxByte
             \/ (\E s \in Slots : PressBoot(s)) \/ (\E c \in Bytes : TxByte(c))
    BY <1>1, <2>9 DEF PollDone, RxTake, PressClient, NoTxByte, RxByte, NoRxByte, PressBoot, TxByte
  <2>10. CASE UNCHANGED menu
    BY <1>1, <2>10 DEF menu
  <2> HIDE DEF Menu
  <2>q. QED BY <2>2, <2>3, <2>5, <2>6, <2>7, <2>8, <2>9, <2>10, FirmwareLeavesMenu
            DEF Next, MenuStep, User
<1>q. QED BY <1>2, <1>3, <1>4, TodoTyped, AreaTyped DEF Typed

-----------------------------------------------------------------------------
(* A session. It is open from the moment the generation changes under the  *)
(* eyes of a menu that has reset, until the Minitel restarts.              *)

Open == Connected \/ (phase # "boot" /\ area[Generation] # initial_value)

Ones == {Sync1, RxLock} \cup TxFields \cup LoadFields
Zeros == {Sync2, TxAck, RxUnlock, RxNonempty, LoadAck}

\* While magic_io_prepare_rom has the generation to write, it is the last it has to, no
\* session is open, and all fields come to rest.
Preparing ==
  Pending(Generation) =>
    /\ ~ Open /\ signal = None
    /\ serial_rx_buf_cnt = 0 /\ configuration_load_last_address = None
    /\ \A i \in 1 .. Len(todo) : Generation \in DOMAIN todo[i] => i = Len(todo)
    /\ \A f \in Ones : Settles(f, 1)
    /\ \A f \in Zeros : Settles(f, 0)

LEMMA FieldTypes ==
  /\ Ones \subseteq Flags /\ Zeros \subseteq Flags \cup {RxNonempty}
  /\ \A f \in Flags \cup {RxNonempty} : f \in Fields /\ Contents(f) = {0, 1}
  /\ \A s \in Slots : Boot(s) \in Flags
  /\ \A c \in Bytes : Tx(c) \in TxFields /\ Tx(c) \in Flags
  /\ \A b \in Blocks : Load(b) \in LoadFields /\ Load(b) \in Flags
  /\ \A k \in Cells : Cell(k) \in CellFields /\ Cell(k) \in Fields
  /\ {Sync1, Sync2, TxAck, RxLock, RxUnlock, Changed, LoadAck} \subseteq Flags
  /\ {Generation, DesiredState, RxNonempty, RxData} \subseteq Fields
BY ContentsOf DEF Ones, Zeros, Flags, BootFields, TxFields, LoadFields, CellFields, Fields

\* What the firmware sees polled tells which call the menu is in.
LEMMA Polled ==
  ASSUME Typed, Calls, NEW f, Sampled(f)
  PROVE  /\ todo = <<>> /\ signal = None
         /\ f = Generation => polling = <<Generation>> /\ ~ Open
         /\ f # Generation => Open /\ f \in Flags /\ area[f] = 1
         /\ \A s : f = Boot(s) => polling = <<Boot(s)>>
         /\ f = Sync1 => polling = <<Sync1, Sync2>>
         /\ f = Sync2 => polling = <<Sync2>>
         /\ \A c : f = Tx(c) => polling = <<Tx(c), TxAck>>
         /\ f = TxAck => polling = <<TxAck>>
         /\ f = RxLock => polling = <<RxLock>> /\ phase = "take"
         /\ f = RxUnlock => polling = <<RxUnlock>>
         /\ f = Changed => polling = <<Changed>>
         /\ \A b : f = Load(b) => /\ polling = <<Load(b), LoadAck>> /\ b = next_block
                                  /\ phase = "draw"
         /\ f = LoadAck => polling = <<LoadAck>> /\ phase = "draw"
<1>1. todo = <<>> /\ signal = None /\ polling # <<>> /\ polling[1] = f
  BY DEF Sampled, Idle
<1>2. \/ phase = "top" /\ polling = <<Generation>>
      \/ phase = "menu" /\ polling = <<Changed>>
      \/ phase = "draw" /\ next_block \in Blocks /\ polling = <<Load(next_block), LoadAck>>
      \/ phase = "draw" /\ polling = <<LoadAck>>
      \/ phase = "keys" /\ polling = <<Sync1, Sync2>>
      \/ phase = "keys" /\ polling = <<Sync2>>
      \/ phase = "keys" /\ \E s \in Slots : polling = <<Boot(s)>>
      \/ phase = "client" /\ polling = <<RxUnlock>>
      \/ phase = "serial_out" /\ polling = <<TxAck>>
      \/ phase = "serial_out" /\ \E c \in Bytes : polling = <<Tx(c), TxAck>>
      \/ phase = "take" /\ polling = <<RxLock>>
  BY <1>1 DEF Calls
<1>3. f \in Flags \cup {Generation}
  BY <1>1, <1>2, FieldTypes
<1>4. f = Generation => area[f] = initial_value
  BY DEF Sampled, Waiting
<1>5. f # Generation => area[f] = 1 /\ f \in Flags
  <2>1. f # Generation => area[f] # 0
    BY DEF Sampled, Waiting
  <2>q. QED BY <1>3, <2>1, FieldTypes DEF Typed
<1>6. phase # "boot" /\ Head(polling) = f
  BY <1>1, <1>2
<1>7. f # Generation => Open
  BY <1>6 DEF Open, Connected
<1>8. f = Generation => ~ Open
  BY <1>1, <1>4, <1>6 DEF Open, Connected
<1>9. /\ f = Generation => polling = <<Generation>>
      /\ \A s : f = Boot(s) => polling = <<Boot(s)>>
      /\ f = Sync1 => polling = <<Sync1, Sync2>>
      /\ f = Sync2 => polling = <<Sync2>>
      /\ \A c : f = Tx(c) => polling = <<Tx(c), TxAck>>
      /\ f = TxAck => polling = <<TxAck>>
      /\ f = RxLock => polling = <<RxLock>> /\ phase = "take"
      /\ f = RxUnlock => polling = <<RxUnlock>>
      /\ f = Changed => polling = <<Changed>>
      /\ \A b : f = Load(b) => /\ polling = <<Load(b), LoadAck>> /\ b = next_block
                               /\ phase = "draw"
      /\ f = LoadAck => polling = <<LoadAck>> /\ phase = "draw"
  BY ONLY <1>1, <1>2, Names
<1>q. QED BY <1>1, <1>5, <1>7, <1>8, <1>9

\* Each handler has seen its field polled.
LEMMA HandlersSample ==
  /\ HandleReset => Sampled(Generation)
  /\ \A s : HandleBoot(s) => Sampled(Boot(s))
  /\ HandleSync1 => Sampled(Sync1)
  /\ HandleSync2 => Sampled(Sync2)
  /\ \A c : HandleTx(c) => Sampled(Tx(c))
  /\ HandleTxAck => Sampled(TxAck)
  /\ HandleRxLock => Sampled(RxLock)
  /\ HandleRxUnlock => Sampled(RxUnlock)
  /\ HandleChanged => Sampled(Changed)
  /\ \A b : HandleLoad(b) => Sampled(Load(b))
  /\ HandleLoadAck => Sampled(LoadAck)
BY DEF HandleReset, HandleBoot, HandleSync1, HandleSync2, HandleTx, HandleTxAck, HandleRxLock,
       HandleRxUnlock, HandleChanged, HandleLoad, HandleLoadAck

\* With writes left the firmware only writes on.
LEMMA BusyStep ==
  ASSUME Next, todo # <<>>
  PROVE  WriteNext \/ MenuSteps
BY HandlersSample
   DEF Next, Firmware, AnalyzeTraces, User, MenuSteps, Sampled, Idle, UserRequestedBoot,
       UserRequestedClientMode, SerialRx, ConfigurationData, Returned, BootCommand,
       ConfigurationChanges, PacketTime

LEMMA MenuLeaves ==
  ASSUME MenuSteps
  PROVE  UNCHANGED firmware
BY DEF MenuSteps, PollDone, MenuStep, Reset, Dispatch, Loop, GetConfiguration, Draw, RxTake,
       TestChanged, PressClient, NoTxByte, RxByte, NoRxByte, MinitelReset, PressBoot, TxByte

\* The menu opens no session by itself.
LEMMA MenuOpens ==
  ASSUME Calls, MenuSteps, Open'
  PROVE  Open
<1>1. area' = area
  BY MenuLeaves DEF firmware
<1>2. CASE PollDone
  <2>1. CASE Head(polling) = Generation
    <3>1. area[Generation] # initial_value /\ polling # <<>>
      BY <1>2, <2>1 DEF PollDone, Waiting
    <3>2. phase # "boot"
      BY <3>1 DEF Calls
    <3>q. QED BY <3>1, <3>2 DEF Open
  <2>2. CASE Head(polling) # Generation
    <3>1. polling # <<>>
      BY <1>2 DEF PollDone
    <3>2. phase # "boot"
      BY <3>1 DEF Calls
    <3>q. QED BY <2>2, <3>2 DEF Open, Connected
  <2>q. QED BY <2>1, <2>2
<1>3. CASE Reset
  <2>1. phase' = "top" /\ polling' = <<Generation>> /\ initial_value' = area[Generation]
    BY <1>3 DEF Reset, Go, Poll
  <2>q. QED BY <1>1, <2>1 DEF Open, Connected
<1>4. CASE MinitelReset
  BY <1>4 DEF MinitelReset, Go, Open, Connected
<1>5. CASE MenuSteps /\ ~ PollDone /\ ~ Reset /\ ~ MinitelReset
  <2>1. polling = <<>> /\ phase # "boot"
    BY <1>5 DEF MenuSteps, MenuStep, Dispatch, Loop, GetConfiguration, Draw, RxTake,
                TestChanged, PressClient, NoTxByte, RxByte, NoRxByte, PressBoot, TxByte, At
  <2>q. QED BY <2>1 DEF Open, Connected
<1>q. QED BY <1>2, <1>3, <1>4, <1>5

LEMMA PreparingStep ==
  ASSUME Typed, Calls, Preparing, Next
  PROVE  Preparing'
<1>1. CASE HandleReset
  <2>1. Sampled(Generation)
    BY <1>1, HandlersSample
  <2>2. ~ Open /\ signal = None
    BY <2>1, Polled
  <2>3. ~ Open' /\ signal' = None /\ serial_rx_buf_cnt' = 0
        /\ configuration_load_last_address' = None
    BY <1>1, <2>2 DEF HandleReset, ReturnNothing, Do, Open, Connected, menu
  <2>4. PICK gen : todo' = PrepareWrites(gen)
    BY <1>1 DEF HandleReset, Do
  <2>6. Len(todo') = 11
    BY <2>4 DEF PrepareWrites
  <2>7. /\ todo'[1] = WriteAll({Boot(Slot0), Sync1}, 1) /\ todo'[2] = Write(Sync2, 0)
        /\ todo'[3] = WriteAll(TxFields, 1) /\ todo'[4] = Write(TxAck, 0)
        /\ todo'[5] = Write(RxNonempty, 0) /\ todo'[6] = Write(RxLock, 1)
        /\ todo'[7] = Write(RxUnlock, 0) /\ todo'[8] = Write(Changed, 0)
        /\ todo'[9] = WriteAll(LoadFields, 1) /\ todo'[10] = Write(LoadAck, 0)
        /\ todo'[11] = Write(Generation, gen)
    BY <2>4 DEF PrepareWrites
  <2>a. \A i \in {1, 3, 9} : Generation \notin DOMAIN todo'[i]
    BY <2>7, Names DEF WriteAll, TxFields, LoadFields
  <2>b. \A i \in {2, 4, 5, 6, 7, 8, 10} : Generation \notin DOMAIN todo'[i]
    BY <2>7, Names DEF Write
  <2>5. \A i \in 1 .. Len(todo') : Generation \in DOMAIN todo'[i] => i = Len(todo')
    BY <2>6, <2>a, <2>b
  <2>8. ASSUME NEW f \in Ones PROVE Settles(f, 1)'
    <3>1. \E i \in {1, 3, 6, 9} : f \in DOMAIN todo'[i]
      BY <2>7 DEF Ones, Write, WriteAll
    <3>2. Pending(f)'
      BY <2>6, <3>1 DEF Pending
    <3>3. \A i \in {2, 4, 5, 7, 8, 10, 11} : f \notin DOMAIN todo'[i]
      BY <2>7, Names DEF Ones, Write, TxFields, LoadFields
    <3>4. \A i \in {1, 3, 6, 9} : f \in DOMAIN todo'[i] => todo'[i][f] = 1
      BY <2>7 DEF Write, WriteAll
    <3>5. WritesOnly(f, 1)'
      BY <2>6, <3>3, <3>4 DEF WritesOnly
    <3>q. QED BY <3>2, <3>5 DEF Settles
  <2>9. ASSUME NEW f \in Zeros PROVE Settles(f, 0)'
    <3>1. \E i \in {2, 4, 5, 7, 10} : f \in DOMAIN todo'[i]
      BY <2>7 DEF Zeros, Write
    <3>2. Pending(f)'
      BY <2>6, <3>1 DEF Pending
    <3>3. \A i \in {1, 3, 6, 9, 11} : f \notin DOMAIN todo'[i]
      BY <2>7, Names DEF Zeros, Write, WriteAll, TxFields, LoadFields
    <3>4. \A i \in {2, 4, 5, 7, 8, 10} : f \in DOMAIN todo'[i] => todo'[i][f] = 0
      BY <2>7 DEF Write
    <3>5. WritesOnly(f, 0)'
      BY <2>6, <3>3, <3>4 DEF WritesOnly
    <3>q. QED BY <3>2, <3>5 DEF Settles
  <2>q. QED BY <2>3, <2>5, <2>8, <2>9 DEF Preparing
<1>2. CASE WriteNext
  <2>1. SUFFICES ASSUME Pending(Generation)' PROVE Preparing'
    BY DEF Preparing
  <2>2. todo \in Seq(Writings) /\ DOMAIN area = Fields /\ Pending(Generation)
    BY <1>2, <2>1, PendingAfter DEF Typed
  <2>3. \A i \in 1 .. Len(todo) : Generation \in DOMAIN todo[i] => i = Len(todo)
    BY <2>2 DEF Preparing
  <2>4. \A i \in 1 .. Len(todo') : Generation \in DOMAIN todo'[i] => i = Len(todo')
    BY <1>2, <2>2, <2>3, OneWritten
  <2>5. Len(todo') # 0
    BY <2>1, <2>2, <1>2, OneWritten DEF Pending
  <2>6. Generation \notin DOMAIN todo[1]
    BY <1>2, <2>2, <2>3, <2>5, OneWritten
  <2>7. area'[Generation] = area[Generation]
    BY <1>2, <2>2, <2>6, OneWritten, FieldTypes
  <2>8. UNCHANGED <<menu, signal, serial_rx_buf_cnt, configuration_load_last_address>>
    BY <1>2 DEF WriteNext, ram, rx
  <2>9. ~ Open'
    BY <2>2, <2>7, <2>8 DEF Preparing, Open, Connected, menu
  <2>10. \A f \in Ones : Settles(f, 1)'
    BY <1>2, <2>2, WriteKeeps, FieldTypes DEF Preparing
  <2>11. \A f \in Zeros : Settles(f, 0)'
    BY <1>2, <2>2, WriteKeeps, FieldTypes DEF Preparing
  <2>q. QED BY <2>2, <2>4, <2>8, <2>9, <2>10, <2>11 DEF Preparing
<1>3. CASE MenuSteps
  <2>1. UNCHANGED firmware
    BY <1>3, MenuLeaves
  <2>2. UNCHANGED <<area, todo, signal, serial_rx_buf_cnt, configuration_load_last_address>>
    BY <2>1 DEF firmware, ram, rx
  <2>3. Open' => Open
    BY <1>3, MenuOpens
  <2>4. \A f, v : Settles(f, v) => Settles(f, v)'
    BY <2>2 DEF Settles, WritesOnly, Pending
  <2>5. Pending(Generation)' => Pending(Generation)
    BY <2>2 DEF Pending
  <2>q. QED BY <2>2, <2>3, <2>4, <2>5 DEF Preparing
<1>4. CASE ~ HandleReset /\ ~ WriteNext /\ ~ MenuSteps
  <2>1. todo = <<>>
    BY <1>4, BusyStep
  <2>2. Spares(Generation)
    BY <1>4, Sparing, GroupsApart DEF SparesAllBut, Typed
  <2>3. ~ Pending(Generation)'
    BY <1>4, <2>1, <2>2 DEF Spares, Untouched, Clear, Pending
  <2>q. QED BY <2>3 DEF Preparing
<1>q. QED BY <1>1, <1>2, <1>3, <1>4

\* A session opens with the last write of magic_io_prepare_rom: all fields are at rest.
Opening ==
  /\ polling' = <<Generation>> /\ phase' = "top"
  /\ todo' = <<>> /\ signal' = None
  /\ serial_rx_buf_cnt' = 0 /\ configuration_load_last_address' = None
  /\ \A f \in Ones : Keeps(f, 1)'
  /\ \A f \in Zeros : Keeps(f, 0)'

LEMMA Opens ==
  ASSUME Typed, Calls, Preparing, Next, Open'
  PROVE  Open \/ (WriteNext /\ Opening)
<1>1. CASE MenuSteps
  BY <1>1, MenuOpens
<1>2. CASE WriteNext
  <2>1. SUFFICES ASSUME ~ Open PROVE Opening
    BY <1>2
  <2>2. UNCHANGED <<menu, signal, serial_rx_buf_cnt, configuration_load_last_address>>
    BY <1>2 DEF WriteNext, ram, rx
  <2>3. phase # "boot" /\ polling # <<>> /\ Head(polling) = Generation
    BY <2>1, <2>2 DEF Open, Connected, menu
  <2>4. polling' = <<Generation>> /\ phase' = "top"
    BY <2>2, <2>3, Names DEF Calls, menu
  <2>5. area[Generation] = initial_value /\ area'[Generation] # initial_value
    BY <2>1, <2>2, <2>3 DEF Open, Connected, menu
  <2>6. Generation \in DOMAIN todo[1] /\ 1 \in 1 .. Len(todo)
    BY <1>2, <2>5, OneWritten, FieldTypes DEF Typed
  <2>7. Pending(Generation) /\ Len(todo) = 1
    BY <2>6 DEF Preparing, Pending
  <2>8. todo' = <<>>
    <3>1. todo' \in Seq(Writings) /\ Len(todo') = 0
      BY <1>2, <2>7, OneWritten DEF Typed
    <3>q. QED BY <3>1
  <2>9. ASSUME NEW f \in Fields, NEW v, Settles(f, v) PROVE Keeps(f, v)'
    <3>1. Settles(f, v)'
      BY <1>2, <2>9, WriteKeeps DEF Typed
    <3>q. QED BY <2>8, <3>1 DEF Settles, Keeps, Pending
  <2>10. \A f \in Ones : Keeps(f, 1)'
    BY <2>7, <2>9, FieldTypes DEF Preparing
  <2>11. \A f \in Zeros : Keeps(f, 0)'
    BY <2>7, <2>9, FieldTypes DEF Preparing
  <2>q. QED BY <2>2, <2>4, <2>7, <2>8, <2>10, <2>11 DEF Preparing, Opening
<1>3. CASE ~ WriteNext /\ ~ MenuSteps
  <2>1. UNCHANGED menu
    BY <1>3, FirmwareLeavesMenu DEF Next, User, MenuSteps
  <2>2. HandleReset => area' = area
    BY DEF HandleReset, Do
  <2>3. ~ HandleReset => Spares(Generation)
    BY <1>3, Sparing, GroupsApart DEF SparesAllBut
  <2>4. area'[Generation] = area[Generation]
    BY <1>3, <2>2, <2>3 DEF Spares, Untouched
  <2>q. QED BY <2>1, <2>4 DEF Open, Connected, menu
<1>q. QED BY <1>1, <1>2, <1>3

-----------------------------------------------------------------------------
(* The handshakes.                                                         *)

\* The call the menu is in ends with field f.
Calling(f) == polling # <<>> /\ polling[Len(polling)] = f

TxRest == (\A c \in Bytes : Keeps(Tx(c), 1)) /\ Keeps(TxAck, 0)
TxOthers(c) == serial_tx_buf = c /\ \A d \in Bytes \ {c} : Keeps(Tx(d), 1)
TxTaken(c) == TxOthers(c) /\ Taken(Tx(c), TxAck)
TxSeen(c) == TxOthers(c) /\ Seen(Tx(c), TxAck)
TxDone(c) == TxOthers(c) /\ Done(Tx(c), TxAck)

\* magic_io_tx_byte: the byte that the firmware has taken is in serial_tx_buf.
TxInv ==
  Open =>
    IF ~ Calling(TxAck) THEN TxRest
    ELSE IF Len(polling) = 2
         THEN TxRest \/ \E c \in Bytes : polling = <<Tx(c), TxAck>> /\ TxTaken(c)
         ELSE \E c \in Bytes : TxSeen(c) \/ TxDone(c)

RxTold(n) == n = IF serial_rx_buf_cnt > 0 THEN 1 ELSE 0
RxRest(n) == Rest(RxLock, RxUnlock) /\ Keeps(RxNonempty, n)
RxTaken(n) ==
  Taken(RxLock, RxUnlock) /\ Settles(RxNonempty, n) /\ Before(RxNonempty, RxLock)
RxSeen(n) == Seen(RxLock, RxUnlock) /\ Keeps(RxNonempty, n)
RxDone(n) == Done(RxLock, RxUnlock) /\ Keeps(RxNonempty, n)

\* magic_io_rx_byte: the menu is told whether there are bytes, and asks when there are.
RxInv ==
  Open => \E n \in {0, 1} :
    /\ RxTold(n)
    /\ IF Calling(RxLock) THEN (RxRest(n) /\ n = 1) \/ RxTaken(n)
       ELSE IF Calling(RxUnlock) THEN RxSeen(n) \/ RxDone(n)
       ELSE IF phase = "take" THEN RxSeen(n)
       ELSE RxRest(n)

LoadRest ==
  /\ configuration_load_last_address = None
  /\ (\A b \in Blocks : Keeps(Load(b), 1)) /\ Keeps(LoadAck, 0)
LoadOthers(b) == next_block = b /\ \A d \in Blocks \ {b} : Keeps(Load(d), 1)
LoadTaken(b) ==
  configuration_load_last_address = b /\ LoadOthers(b) /\ Taken(Load(b), LoadAck)
LoadSeen(b) ==
  configuration_load_last_address = b /\ LoadOthers(b) /\ Seen(Load(b), LoadAck)
LoadDone(b) ==
  configuration_load_last_address = None /\ LoadOthers(b) /\ Done(Load(b), LoadAck)

\* magic_io_get_configuration_*: the field that was taken is in
\* configuration_load_last_address.
LoadInv ==
  Open =>
    IF ~ Calling(LoadAck) THEN LoadRest
    ELSE IF Len(polling) = 2 THEN LoadRest \/ \E b \in Blocks : LoadTaken(b)
    ELSE \E b \in Blocks : LoadSeen(b) \/ LoadDone(b)

\* The handler of the first field of a handshake, or of the second.
LEMMA FirstHandled ==
  ASSUME NEW f, NEW g, f # g, todo = <<>>, Rest(f, g), NEW n \in Nat,
         area' = area, Len(todo') = n + 2,
         todo'[n + 1] = Write(g, 1), todo'[n + 2] = Write(f, 0),
         \A i \in 1 .. n : f \notin DOMAIN todo'[i] /\ g \notin DOMAIN todo'[i]
  PROVE  Taken(f, g)'
<1>1. area'[g] = 0 /\ area'[f] = 1
  BY DEF Rest, Keeps
<1>2. (Turns(g, 1) /\ Turns(f, 0) /\ Before(g, f))'
  BY <1>1, HandlerTurns
<1>q. QED BY <1>2 DEF Taken

LEMMA SecondHandled ==
  ASSUME NEW f, NEW g, f # g, todo = <<>>, Seen(f, g),
         area' = area, Len(todo') = 2,
         todo'[1] = Write(f, 1), todo'[2] = Write(g, 0)
  PROVE  Done(f, g)'
<1>1. area'[f] = 0 /\ area'[g] = 1
  BY DEF Seen, Keeps
<1>2. 0 \in Nat /\ Len(todo') = 0 + 2 /\ todo'[0 + 1] = Write(f, 1) /\ todo'[0 + 2] = Write(g, 0)
      /\ \A i \in 1 .. 0 : f \notin DOMAIN todo'[i] /\ g \notin DOMAIN todo'[i]
  OBVIOUS
<1>3. (Turns(f, 1) /\ Turns(g, 0) /\ Before(f, g))'
  BY <1>1, <1>2, HandlerTurns
<1>q. QED BY <1>3 DEF Done

\* The steps that do not move the handshake of a byte to send.
LEMMA TxKept ==
  ASSUME Typed, \A f \in TxGroup : Spares(f), serial_tx_buf' = serial_tx_buf
  PROVE  /\ TxRest => TxRest'
         /\ \A c \in Bytes : TxTaken(c) => TxTaken(c)'
         /\ \A c \in Bytes : TxSeen(c) => TxSeen(c)'
         /\ \A c \in Bytes : TxDone(c) => TxDone(c)'
<1>1. /\ TxAck \in Fields /\ Spares(TxAck)
      /\ \A c \in Bytes : Tx(c) \in Fields /\ Spares(Tx(c))
  BY FieldTypes DEF TxGroup
<1>2. /\ \A c \in Bytes : Keeps(Tx(c), 1) => Keeps(Tx(c), 1)'
      /\ Keeps(TxAck, 0) => Keeps(TxAck, 0)'
  BY <1>1, SparesField DEF Typed
<1>3. \A c \in Bytes : /\ Taken(Tx(c), TxAck) => Taken(Tx(c), TxAck)'
                       /\ Seen(Tx(c), TxAck) => Seen(Tx(c), TxAck)'
                       /\ Done(Tx(c), TxAck) => Done(Tx(c), TxAck)'
  BY <1>1, SparesStages DEF Typed
<1>q. QED BY <1>2, <1>3 DEF TxRest, TxOthers, TxTaken, TxSeen, TxDone

\* What a step of the menu does to the call it is in.
LEMMA MenuCalls ==
  ASSUME Typed, Calls, MenuSteps, Open'
  PROVE  \/ PollDone
         \/ /\ polling = <<>> /\ phase # "take" /\ phase' # "take"
            /\ ~ Calling(TxAck)' /\ ~ Calling(RxLock)' /\ ~ Calling(RxUnlock)'
            /\ ~ Calling(LoadAck)'
         \/ \E c \in Bytes : TxByte(c)
         \/ RxByte \/ RxTake \/ GetConfiguration
<1>1. CASE PollDone
  BY <1>1
<1>2. CASE (\E c \in Bytes : TxByte(c)) \/ RxByte \/ RxTake \/ GetConfiguration
  BY <1>2
<1>3. CASE MinitelReset
  BY <1>3 DEF MinitelReset, Go, Open, Connected
<1>4. CASE Reset
  <2>1. area' = area /\ initial_value' = area[Generation] /\ polling' = <<Generation>>
    BY <1>4 DEF Reset, Poll, firmware
  <2>q. QED BY <2>1 DEF Open, Connected
<1>5. CASE Dispatch \/ Loop \/ Draw \/ NoTxByte \/ NoRxByte
  <2>1. polling = <<>> /\ polling' = <<>> /\ phase # "take"
    BY <1>5 DEF Dispatch, Loop, Draw, NoTxByte, NoRxByte, At
  <2>2. PhaseOf(area[DesiredState]) # "take"
    <3>1. area[DesiredState] \in DesiredStates
      BY ContentsOf, FieldTypes DEF Typed
    <3>q. QED BY <3>1 DEF PhaseOf, DesiredStates
  <2>3. phase' # "take"
    BY <1>5, <2>2 DEF Dispatch, Loop, Draw, NoTxByte, NoRxByte, At, Go
  <2>q. QED BY <2>1, <2>3 DEF Calling
<1>6. CASE TestChanged
  <2>1. polling = <<>> /\ (polling' = <<>> \/ polling' = <<Changed>>)
        /\ phase = "keys" /\ phase' = "menu"
    BY <1>6 DEF TestChanged, At, Go, Poll
  <2>q. QED BY <2>1, Names DEF Calling
<1>7. CASE PressClient \/ \E s \in Slots : PressBoot(s)
  <2>1. /\ polling = <<>> /\ phase = "keys" /\ phase' = "keys"
        /\ polling' = <<Sync1, Sync2>> \/ \E s \in Slots : polling' = <<Boot(s)>>
    BY <1>7 DEF PressClient, PressBoot, At, Poll
  <2>q. QED BY <2>1, Names DEF Calling
<1>q. QED BY <1>1, <1>2, <1>3, <1>4, <1>5, <1>6, <1>7 DEF MenuSteps, MenuStep

LEMMA PollEnds ==
  ASSUME Calls, PollDone
  PROVE  /\ UNCHANGED <<phase, next_block, screen, firmware>>
         /\ \/ \E f : polling = <<f>> /\ polling' = <<>> /\ ~ Waiting(f)
            \/ \E f, g : polling = <<f, g>> /\ polling' = <<g>> /\ ~ Waiting(f)
<1>1. /\ polling # <<>> /\ polling' = Tail(polling) /\ ~ Waiting(Head(polling))
      /\ UNCHANGED <<phase, next_block, screen, firmware>>
  BY DEF PollDone, Poll
<1>2. (\E f : polling = <<f>>) \/ (\E f, g : polling = <<f, g>>)
  BY <1>1 DEF Calls
<1>3. CASE \E f : polling = <<f>>
  <2>1. PICK f : polling = <<f>>
    BY <1>3
  <2>2. polling' = <<>> /\ Head(polling) = f
    BY <1>1, <2>1
  <2>q. QED BY <1>1, <2>1, <2>2
<1>4. CASE \E f, g : polling = <<f, g>>
  <2>1. PICK f, g : polling = <<f, g>>
    BY <1>4
  <2>2. polling' = <<g>> /\ Head(polling) = f
    BY <1>1, <2>1
  <2>q. QED BY <1>1, <2>1, <2>2
<1>q. QED BY <1>2, <1>3, <1>4

LEMMA TxStep ==
  ASSUME Typed, Calls, Preparing, TxInv, Next
  PROVE  TxInv'
<1>1. SUFFICES ASSUME Open' PROVE TxInv'
  BY DEF TxInv
<1>2. CASE Opening
  <2>1. ~ Calling(TxAck)'
    BY <1>2, Names DEF Opening, Calling
  <2>2. TxRest'
    BY <1>2, FieldTypes DEF Opening, Ones, Zeros, TxRest
  <2>q. QED BY <2>1, <2>2 DEF TxInv
<1>3. CASE Open /\ \E c \in Bytes : HandleTx(c)
  <2>1. PICK c \in Bytes : HandleTx(c)
    BY <1>3
  <2>2. todo = <<>> /\ area[Tx(c)] = 1 /\ polling = <<Tx(c), TxAck>>
    BY <2>1, Polled, HandlersSample, Names
  <2>3. ASSUME NEW d \in Bytes, polling = <<Tx(d), TxAck>>, TxTaken(d) PROVE FALSE
    <3>1. d = c
      BY <2>2, <2>3, Names
    <3>2. area[Tx(d)] = 0
      BY <2>2, <2>3, AnsweredOnce DEF TxTaken
    <3>q. QED BY <2>2, <3>1, <3>2
  <2>4. Calling(TxAck) /\ Len(polling) = 2
    BY <2>2 DEF Calling
  <2>5. TxRest
    BY <1>3, <2>3, <2>4 DEF TxInv
  <2>6. area' = area /\ serial_tx_buf' = c /\ polling' = polling
    BY <2>1 DEF HandleTx, Do, menu
  <2>7. \/ /\ serial_tx_buf # c /\ Len(todo') = 3
           /\ todo'[1] = Write(Tx(serial_tx_buf), 1)
           /\ todo'[2] = Write(TxAck, 1) /\ todo'[3] = Write(Tx(c), 0)
        \/ /\ Len(todo') = 2
           /\ todo'[1] = Write(TxAck, 1) /\ todo'[2] = Write(Tx(c), 0)
    BY <2>1, TxWrites DEF Typed
  <2>8. Tx(c) # TxAck /\ \A d : Tx(d) # TxAck /\ (d # c => Tx(d) # Tx(c))
    BY Names
  <2>9. Taken(Tx(c), TxAck)'
    <3>1. Rest(Tx(c), TxAck)
      BY <2>5 DEF TxRest, Rest
    <3>2. CASE Len(todo') = 2 /\ todo'[1] = Write(TxAck, 1) /\ todo'[2] = Write(Tx(c), 0)
      <4>1. 0 \in Nat /\ Len(todo') = 0 + 2
            /\ todo'[0 + 1] = Write(TxAck, 1) /\ todo'[0 + 2] = Write(Tx(c), 0)
            /\ \A i \in 1 .. 0 : Tx(c) \notin DOMAIN todo'[i] /\ TxAck \notin DOMAIN todo'[i]
        BY <3>2
      <4>q. QED BY <2>2, <2>6, <2>8, <3>1, <4>1, FirstHandled
    <3>3. CASE /\ serial_tx_buf # c /\ Len(todo') = 3
               /\ todo'[1] = Write(Tx(serial_tx_buf), 1)
               /\ todo'[2] = Write(TxAck, 1) /\ todo'[3] = Write(Tx(c), 0)
      <4>1. Tx(c) \notin DOMAIN todo'[1] /\ TxAck \notin DOMAIN todo'[1]
        BY <2>8, <3>3 DEF Write
      <4>2. 1 \in Nat /\ Len(todo') = 1 + 2
            /\ todo'[1 + 1] = Write(TxAck, 1) /\ todo'[1 + 2] = Write(Tx(c), 0)
            /\ \A i \in 1 .. 1 : Tx(c) \notin DOMAIN todo'[i] /\ TxAck \notin DOMAIN todo'[i]
        BY <3>3, <4>1
      <4>q. QED BY <2>2, <2>6, <2>8, <3>1, <4>2, FirstHandled
    <3>q. QED BY <2>7, <3>2, <3>3
  <2>10. ASSUME NEW d \in Bytes \ {c} PROVE Keeps(Tx(d), 1)'
    <3>1. area'[Tx(d)] = 1
      BY <2>5, <2>6 DEF TxRest, Keeps
    <3>2. \A i \in 1 .. Len(todo') : Tx(d) \in DOMAIN todo'[i] => todo'[i][Tx(d)] = 1
      BY <2>7, <2>8 DEF Write
    <3>q. QED BY <3>1, <3>2 DEF Keeps, WritesOnly
  <2>11. TxTaken(c)'
    BY <2>6, <2>9, <2>10 DEF TxTaken, TxOthers
  <2>q. QED BY <2>2, <2>4, <2>6, <2>11 DEF TxInv, Calling
<1>4. CASE Open /\ HandleTxAck
  <2>1. todo = <<>> /\ area[TxAck] = 1 /\ polling = <<TxAck>>
    BY <1>4, Polled, HandlersSample, Names
  <2>2. Calling(TxAck) /\ Len(polling) # 2
    BY <2>1 DEF Calling
  <2>3. PICK c \in Bytes : TxSeen(c) \/ TxDone(c)
    BY <1>4, <2>2 DEF TxInv
  <2>4. TxSeen(c)
    BY <2>1, <2>3, AnsweredOnce DEF TxDone
  <2>5. /\ area' = area /\ polling' = polling /\ serial_tx_buf' = serial_tx_buf
        /\ todo' = <<Write(Tx(c), 1), Write(TxAck, 0)>>
    BY <1>4, <2>4 DEF HandleTxAck, Do, menu, ram, TxSeen, TxOthers
  <2>6. Done(Tx(c), TxAck)'
    <3>1. Len(todo') = 2 /\ todo'[1] = Write(Tx(c), 1) /\ todo'[2] = Write(TxAck, 0)
      BY <2>5
    <3>2. Tx(c) # TxAck
      BY Names
    <3>q. QED BY <2>1, <2>4, <2>5, <3>1, <3>2, SecondHandled DEF TxSeen
  <2>7. ASSUME NEW d \in Bytes \ {c} PROVE Keeps(Tx(d), 1)'
    <3>1. area'[Tx(d)] = 1 /\ Tx(d) # Tx(c) /\ Tx(d) # TxAck
      BY <2>4, <2>5, Names DEF TxSeen, TxOthers, Keeps
    <3>q. QED BY <2>5, <3>1 DEF Keeps, WritesOnly, Write
  <2>8. TxDone(c)'
    BY <2>4, <2>5, <2>6, <2>7 DEF TxDone, TxSeen, TxOthers
  <2>q. QED BY <2>2, <2>5, <2>8 DEF TxInv, Calling
<1>5. CASE Open /\ MenuSteps
  <2>1. UNCHANGED firmware
    BY <1>5, MenuLeaves
  <2>2. serial_tx_buf' = serial_tx_buf /\ \A f \in TxGroup : Spares(f)
    BY <2>1 DEF firmware, ram, Spares, Untouched
  <2>3. CASE PollDone
    <3>1. CASE ~ Calling(TxAck)
      <4>1. ~ Calling(TxAck)'
        BY <3>1, <2>3, PollEnds DEF Calling
      <4>2. TxRest
        BY <1>5, <3>1 DEF TxInv
      <4>q. QED BY <2>2, <4>1, <4>2, TxKept DEF TxInv
    <3>2. CASE Calling(TxAck) /\ Len(polling) = 2
      <4>1. PICK f : polling = <<f, TxAck>> /\ polling' = <<TxAck>> /\ ~ Waiting(f)
        BY <2>3, <3>2, PollEnds DEF Calling
      <4>2. PICK c \in Bytes : f = Tx(c)
        BY <4>1, Names DEF Calls
      <4>3. area[Tx(c)] = 0
        BY <4>1, <4>2, Names DEF Waiting
      <4>4. ~ TxRest
        BY <4>3 DEF TxRest, Keeps
      <4>5. PICK d \in Bytes : polling = <<Tx(d), TxAck>> /\ TxTaken(d)
        BY <1>5, <3>2, <4>4 DEF TxInv
      <4>6. d = c
        BY <4>1, <4>2, <4>5, Names
      <4>7. TxSeen(c)
        BY <4>3, <4>5, <4>6, FirstCleared DEF TxTaken, TxSeen
      <4>8. TxSeen(c)'
        BY <2>2, <4>7, TxKept
      <4>9. Calling(TxAck)' /\ Len(polling') # 2
        BY <4>1 DEF Calling
      <4>q. QED BY <4>8, <4>9 DEF TxInv
    <3>3. CASE Calling(TxAck) /\ Len(polling) # 2
      <4>1. polling = <<TxAck>> /\ polling' = <<>> /\ ~ Waiting(TxAck)
        BY <2>3, <3>3, PollEnds DEF Calling
      <4>2. area[TxAck] = 0
        BY <4>1, Names DEF Waiting
      <4>3. PICK c \in Bytes : TxSeen(c) \/ TxDone(c)
        BY <1>5, <3>3 DEF TxInv
      <4>4. TxDone(c)
        BY <4>2, <4>3 DEF TxSeen, Seen, Keeps
      <4>5. TxRest
        BY <4>2, <4>4, SecondCleared DEF TxDone, TxOthers, Rest, TxRest
      <4>6. TxRest' /\ ~ Calling(TxAck)'
        BY <2>2, <4>1, <4>5, TxKept DEF Calling
      <4>q. QED BY <4>6 DEF TxInv
    <3>q. QED BY <3>1, <3>2, <3>3
  <2>4. CASE ~ PollDone
    <3>1. polling = <<>> /\ (~ Calling(TxAck)' \/ Len(polling') = 2)
      BY <1>1, <1>5, <2>4, MenuCalls, Names
         DEF TxByte, RxByte, RxTake, GetConfiguration, At, Poll, Calling
    <3>2. TxRest
      BY <1>5, <3>1 DEF TxInv, Calling
    <3>q. QED BY <2>2, <3>1, <3>2, TxKept DEF TxInv
  <2>q. QED BY <2>3, <2>4
<1>6. CASE Open /\ ~ MenuSteps /\ ~ HandleTxAck /\ ~ \E c \in Bytes : HandleTx(c)
  <2>1. UNCHANGED menu
    BY <1>6, FirmwareLeavesMenu DEF Next, User, MenuSteps
  <2>2. ~ HandleReset
    BY <1>6, HandlersSample, Polled
  <2>3. \A f \in TxGroup : Spares(f)
    BY <1>6, <2>2, Sparing, GroupsApart DEF SparesAllBut
  <2>4. serial_tx_buf' = serial_tx_buf
    BY <1>6, <2>2 DEF Next, Firmware, AnalyzeTraces, User, MenuSteps, HandleBoot, HandleSync1,
       HandleSync2, HandleRxLock, HandleRxUnlock, HandleChanged, HandleLoad, HandleLoadAck,
       WriteNext, UserRequestedBoot, UserRequestedClientMode, SerialRx, ConfigurationData,
       BootCommand, ConfigurationChanges, ram
  <2>5. TxInv
    OBVIOUS
  <2>q. QED BY <1>6, <2>1, <2>3, <2>4, TxKept DEF TxInv, Calling, menu
<1>q. QED BY <1>1, <1>2, <1>3, <1>4, <1>5, <1>6, Opens

\* The steps that do not move the handshake of a byte received.
LEMMA RxKept ==
  ASSUME Typed, \A f \in RxGroup : Spares(f), serial_rx_buf_cnt' = serial_rx_buf_cnt,
         NEW n \in {0, 1}, RxTold(n)
  PROVE  /\ RxTold(n)'
         /\ RxRest(n) => RxRest(n)'
         /\ RxTaken(n) => RxTaken(n)'
         /\ RxSeen(n) => RxSeen(n)'
         /\ RxDone(n) => RxDone(n)'
<1>1. /\ RxLock \in Fields /\ Spares(RxLock) /\ RxUnlock \in Fields /\ Spares(RxUnlock)
      /\ RxNonempty \in Fields /\ Spares(RxNonempty)
  BY FieldTypes DEF RxGroup
<1>2. /\ Keeps(RxNonempty, n) => Keeps(RxNonempty, n)'
      /\ Settles(RxNonempty, n) => Settles(RxNonempty, n)'
      /\ Before(RxNonempty, RxLock) => Before(RxNonempty, RxLock)'
  BY <1>1, SparesField, SparesOrder DEF Typed
<1>3. /\ Rest(RxLock, RxUnlock) => Rest(RxLock, RxUnlock)'
      /\ Taken(RxLock, RxUnlock) => Taken(RxLock, RxUnlock)'
      /\ Seen(RxLock, RxUnlock) => Seen(RxLock, RxUnlock)'
      /\ Done(RxLock, RxUnlock) => Done(RxLock, RxUnlock)'
  BY <1>1, SparesStages DEF Typed
<1>q. QED BY <1>2, <1>3 DEF RxTold, RxRest, RxTaken, RxSeen, RxDone

LEMMA RxStep ==
  ASSUME Typed, Calls, Preparing, RxInv, Next
  PROVE  RxInv'
<1>1. SUFFICES ASSUME Open' PROVE RxInv'
  BY DEF RxInv
<1>2. CASE Opening
  <2>1. ~ Calling(RxLock)' /\ ~ Calling(RxUnlock)' /\ phase' # "take"
    BY <1>2, Names DEF Opening, Calling
  <2>2. RxRest(0)' /\ RxTold(0)'
    BY <1>2, FieldTypes DEF Opening, Ones, Zeros, RxRest, Rest, RxTold
  <2>q. QED BY <2>1, <2>2 DEF RxInv
<1>3. ASSUME Open
      PROVE  \E n \in {0, 1} :
        /\ RxTold(n)
        /\ Calling(RxLock) => (RxRest(n) /\ n = 1) \/ RxTaken(n)
        /\ Calling(RxUnlock) => RxSeen(n) \/ RxDone(n)
        /\ ~ Calling(RxLock) /\ ~ Calling(RxUnlock) =>
             IF phase = "take" THEN RxSeen(n) ELSE RxRest(n)
  BY <1>3, Names DEF RxInv, Calling
<1>4. ASSUME NEW n \in {0, 1}, RxTold(n)',
             Calling(RxLock)' => (RxRest(n)' /\ n = 1) \/ RxTaken(n)',
             Calling(RxUnlock)' => RxSeen(n)' \/ RxDone(n)',
             ~ Calling(RxLock)' /\ ~ Calling(RxUnlock)' =>
               IF phase' = "take" THEN RxSeen(n)' ELSE RxRest(n)'
      PROVE  RxInv'
  BY <1>4 DEF RxInv
<1>5. CASE Open /\ HandleRxLock
  <2>1. todo = <<>> /\ area[RxLock] = 1 /\ polling = <<RxLock>>
    BY <1>5, Polled, HandlersSample, Names
  <2>2. Calling(RxLock) /\ ~ Calling(RxUnlock)
    BY <2>1, Names DEF Calling
  <2>3. RxTold(1) /\ RxRest(1)
    BY <1>3, <1>5, <2>1, <2>2, AnsweredOnce DEF RxTaken
  <2>4. serial_rx_buf_cnt \in Nat \ {0}
    BY <2>3 DEF RxTold, Typed
  <2>5. PICK m \in {0, 1} : m = IF serial_rx_buf_cnt - 1 # 0 THEN 1 ELSE 0
    OBVIOUS
  <2>6. /\ area' = area /\ polling' = polling /\ serial_rx_buf_cnt' = serial_rx_buf_cnt - 1
        /\ \E c : todo' = <<Write(RxData, c), Write(RxNonempty, m), Write(RxUnlock, 1),
                            Write(RxLock, 0)>>
    BY <1>5, <2>4, <2>5 DEF HandleRxLock, Do, menu
  <2>7. PICK c : todo' = <<Write(RxData, c), Write(RxNonempty, m), Write(RxUnlock, 1),
                           Write(RxLock, 0)>>
    BY <2>6
  <2>8. /\ Len(todo') = 4
        /\ todo'[1] = Write(RxData, c) /\ todo'[2] = Write(RxNonempty, m)
        /\ todo'[3] = Write(RxUnlock, 1) /\ todo'[4] = Write(RxLock, 0)
    BY <2>7
  <2>9. RxTold(m)'
    BY <2>4, <2>5, <2>6 DEF RxTold
  <2>10. Taken(RxLock, RxUnlock)'
    <3>1. \A i \in 1 .. 2 : RxLock \notin DOMAIN todo'[i] /\ RxUnlock \notin DOMAIN todo'[i]
      BY <2>8, Names DEF Write
    <3>2. 2 \in Nat /\ Len(todo') = 2 + 2 /\ todo'[2 + 1] = Write(RxUnlock, 1)
          /\ todo'[2 + 2] = Write(RxLock, 0)
      BY <2>8
    <3>3. Rest(RxLock, RxUnlock) /\ RxLock # RxUnlock
      BY <2>3, Names DEF RxRest
    <3>q. QED BY <2>1, <2>6, <3>1, <3>2, <3>3, FirstHandled
  <2>11. \A i \in 1 .. Len(todo') : RxNonempty \in DOMAIN todo'[i] <=> i = 2
    BY <2>8, Names DEF Write
  <2>12. Settles(RxNonempty, m)'
    <3>1. todo'[2][RxNonempty] = m
      BY <2>8 DEF Write
    <3>2. 2 \in 1 .. Len(todo')
      BY <2>8
    <3>q. QED BY <2>11, <3>1, <3>2 DEF Settles, WritesOnly, Pending
  <2>13. Before(RxNonempty, RxLock)'
    <3>1. 4 \in 1 .. Len(todo') /\ RxLock \in DOMAIN todo'[4]
      BY <2>8 DEF Write
    <3>q. QED BY <2>11, <3>1 DEF Before
  <2>14. RxTaken(m)'
    BY <2>10, <2>12, <2>13 DEF RxTaken
  <2>15. Calling(RxLock)' /\ ~ Calling(RxUnlock)'
    BY <2>2, <2>6 DEF Calling
  <2>q. QED BY <1>4, <2>9, <2>14, <2>15
<1>6. CASE Open /\ HandleRxUnlock
  <2>1. todo = <<>> /\ area[RxUnlock] = 1 /\ polling = <<RxUnlock>>
    BY <1>6, Polled, HandlersSample, Names
  <2>2. Calling(RxUnlock) /\ ~ Calling(RxLock)
    BY <2>1, Names DEF Calling
  <2>3. PICK n \in {0, 1} : RxTold(n) /\ (RxSeen(n) \/ RxDone(n))
    BY <1>3, <1>6, <2>2
  <2>4. RxSeen(n)
    BY <2>1, <2>3, AnsweredOnce DEF RxDone
  <2>5. /\ area' = area /\ polling' = polling /\ serial_rx_buf_cnt' = serial_rx_buf_cnt
        /\ todo' = <<Write(RxLock, 1), Write(RxUnlock, 0)>>
    BY <1>6 DEF HandleRxUnlock, Do, menu, ram, rx
  <2>6. Done(RxLock, RxUnlock)'
    <3>1. Len(todo') = 2 /\ todo'[1] = Write(RxLock, 1) /\ todo'[2] = Write(RxUnlock, 0)
      BY <2>5
    <3>2. RxLock # RxUnlock
      BY Names
    <3>q. QED BY <2>1, <2>4, <2>5, <3>1, <3>2, SecondHandled DEF RxSeen
  <2>7. Keeps(RxNonempty, n)'
    <3>1. area'[RxNonempty] = n /\ RxNonempty # RxLock /\ RxNonempty # RxUnlock
      BY <2>4, <2>5, Names DEF RxSeen, Keeps
    <3>q. QED BY <2>5, <3>1 DEF Keeps, WritesOnly, Write
  <2>8. RxTold(n)' /\ RxDone(n)' /\ Calling(RxUnlock)' /\ ~ Calling(RxLock)'
    BY <2>2, <2>3, <2>5, <2>6, <2>7 DEF RxTold, RxDone, Calling
  <2>q. QED BY <1>4, <2>8
<1>7. CASE Open /\ SerialRx
  <2>1. PICK n \in {0, 1} :
          /\ RxTold(n)
          /\ Calling(RxLock) => (RxRest(n) /\ n = 1) \/ RxTaken(n)
          /\ Calling(RxUnlock) => RxSeen(n) \/ RxDone(n)
          /\ ~ Calling(RxLock) /\ ~ Calling(RxUnlock) =>
               IF phase = "take" THEN RxSeen(n) ELSE RxRest(n)
    BY <1>3, <1>7
  <2>2. PICK answer \in Answers : Enqueue(answer)
    BY <1>7 DEF SerialRx
  <2>3. todo = <<>> /\ todo' = <<>> /\ UNCHANGED menu
    BY <1>7 DEF SerialRx, Returned
  <2>4. Kept(answer) \in Nat /\ serial_rx_buf_cnt \in Nat
        /\ serial_rx_buf_cnt' = serial_rx_buf_cnt + Kept(answer)
    <3>1. Len(answer) \in Nat
      BY AnswersAssumption
    <3>q. QED BY <2>2, <3>1, Sizes DEF Enqueue, Kept, Typed
  <2>5. PICK m \in {0, 1} : m = IF serial_rx_buf_cnt' > 0 THEN 1 ELSE 0
    OBVIOUS
  <2>6. RxTold(m)' /\ (n = 1 => m = 1)
    BY <2>1, <2>4, <2>5 DEF RxTold
  <2>7. area[RxNonempty] = n
    BY <2>1, <2>3, NothingLeft DEF RxRest, RxTaken, RxSeen, RxDone
  <2>8. area'[RxNonempty] = m /\ \A f \in Fields \ {RxNonempty} : area'[f] = area[f]
    <3>1. CASE Kept(answer) > 0
      <4>1. area' = [area EXCEPT ![RxNonempty] = 1] /\ m = 1
        BY <2>2, <2>4, <2>5, <3>1 DEF Enqueue
      <4>q. QED BY <4>1, FieldTypes DEF Typed
    <3>2. CASE Kept(answer) = 0
      <4>1. area' = area /\ m = n
        BY <2>1, <2>2, <2>4, <2>5, <3>2 DEF Enqueue, RxTold
      <4>q. QED BY <2>7, <4>1
    <3>q. QED BY <2>4, <3>1, <3>2
  <2>9. /\ Spares(RxLock) /\ Spares(RxUnlock) /\ RxLock \in Fields /\ RxUnlock \in Fields
    BY <2>3, <2>8, FieldTypes, Names DEF Spares, Untouched
  <2>10. /\ Rest(RxLock, RxUnlock) => Rest(RxLock, RxUnlock)'
         /\ Taken(RxLock, RxUnlock) => Taken(RxLock, RxUnlock)'
         /\ Seen(RxLock, RxUnlock) => Seen(RxLock, RxUnlock)'
         /\ Done(RxLock, RxUnlock) => Done(RxLock, RxUnlock)'
    BY <2>9, SparesStages DEF Typed
  <2>11. (Keeps(RxNonempty, m) /\ Settles(RxNonempty, m) /\ Before(RxNonempty, RxLock))'
    BY <2>3, <2>8 DEF Keeps, Settles, WritesOnly, Before
  <2>12. /\ RxRest(n) => RxRest(m)'
         /\ RxTaken(n) => RxTaken(m)'
         /\ RxSeen(n) => RxSeen(m)'
         /\ RxDone(n) => RxDone(m)'
    BY <2>10, <2>11 DEF RxRest, RxTaken, RxSeen, RxDone
  <2>13. (Calling(RxLock)' <=> Calling(RxLock)) /\ (Calling(RxUnlock)' <=> Calling(RxUnlock))
         /\ phase' = phase
    BY <2>3 DEF Calling, menu
  <2>q. QED BY <1>4, <2>1, <2>6, <2>12, <2>13
<1>8. CASE Open /\ MenuSteps
  <2>1. PICK n \in {0, 1} :
          /\ RxTold(n)
          /\ Calling(RxLock) => (RxRest(n) /\ n = 1) \/ RxTaken(n)
          /\ Calling(RxUnlock) => RxSeen(n) \/ RxDone(n)
          /\ ~ Calling(RxLock) /\ ~ Calling(RxUnlock) =>
               IF phase = "take" THEN RxSeen(n) ELSE RxRest(n)
    BY <1>3, <1>8
  <2>2. UNCHANGED firmware
    BY <1>8, MenuLeaves
  <2>3. serial_rx_buf_cnt' = serial_rx_buf_cnt /\ \A f \in RxGroup : Spares(f)
    BY <2>2 DEF firmware, ram, rx, Spares, Untouched
  <2>4. /\ RxTold(n)'
        /\ RxRest(n) => RxRest(n)'
        /\ RxTaken(n) => RxTaken(n)'
        /\ RxSeen(n) => RxSeen(n)'
        /\ RxDone(n) => RxDone(n)'
    BY <2>1, <2>3, RxKept
  <2>5. CASE PollDone
    <3>1. CASE Calling(RxLock)
      <4>1. polling = <<RxLock>> /\ phase = "take"
        BY <3>1, Names DEF Calls, Calling
      <4>2. polling' = <<>> /\ phase' = phase /\ ~ Waiting(RxLock)
        BY <2>5, <4>1, PollEnds
      <4>3. area[RxLock] = 0
        BY <4>2, Names DEF Waiting
      <4>4. RxTaken(n)
        BY <2>1, <3>1, <4>3 DEF RxRest, Rest, Keeps
      <4>5. Seen(RxLock, RxUnlock)
        BY <4>3, <4>4, FirstCleared DEF RxTaken
      <4>6. ~ Pending(RxNonempty)
        <5>1. ~ Pending(RxLock)
          BY <4>3, <4>4, Turned DEF RxTaken, Taken
        <5>q. QED BY <4>4, <5>1 DEF RxTaken, Before, Pending
      <4>7. RxSeen(n)
        BY <4>4, <4>5, <4>6 DEF RxTaken, RxSeen, Settles, Keeps
      <4>q. QED BY <1>4, <2>4, <4>1, <4>2, <4>7 DEF Calling
    <3>2. CASE Calling(RxUnlock)
      <4>1. polling = <<RxUnlock>> /\ phase = "client"
        BY <3>2, Names DEF Calls, Calling
      <4>2. polling' = <<>> /\ phase' = phase /\ ~ Waiting(RxUnlock)
        BY <2>5, <4>1, PollEnds
      <4>3. area[RxUnlock] = 0
        BY <4>2, Names DEF Waiting
      <4>4. RxDone(n)
        BY <2>1, <3>2, <4>3 DEF RxSeen, Seen, Keeps
      <4>5. RxRest(n)
        BY <4>3, <4>4, SecondCleared DEF RxDone, RxRest
      <4>q. QED BY <1>4, <2>4, <4>1, <4>2, <4>5 DEF Calling
    <3>3. CASE ~ Calling(RxLock) /\ ~ Calling(RxUnlock)
      <4>1. polling # <<>> /\ phase' = phase
        BY <2>5, PollEnds
      <4>2. phase # "take"
        BY <3>3, <4>1 DEF Calls, Calling
      <4>3. ~ Calling(RxLock)' /\ ~ Calling(RxUnlock)'
        BY <2>5, <3>3, PollEnds DEF Calling
      <4>q. QED BY <1>4, <2>1, <2>4, <3>3, <4>1, <4>2, <4>3
    <3>q. QED BY <3>1, <3>2, <3>3
  <2>6. CASE polling = <<>> /\ phase # "take" /\ ~ Calling(RxLock)' /\ ~ Calling(RxUnlock)'
             /\ phase' # "take"
    BY <1>4, <2>1, <2>4, <2>6 DEF Calling
  <2>7. CASE (\E c \in Bytes : TxByte(c)) \/ GetConfiguration
    <3>1. /\ polling = <<>> /\ phase # "take" /\ phase' # "take"
          /\ ~ Calling(RxLock)' /\ ~ Calling(RxUnlock)'
      BY <2>7, Names DEF TxByte, GetConfiguration, At, Go, Poll, Calling
    <3>q. QED BY <2>6, <3>1
  <2>8. CASE RxByte
    <3>1. /\ polling = <<>> /\ phase # "take" /\ area[RxNonempty] # 0
          /\ polling' = <<RxLock>>
      BY <2>8 DEF RxByte, At, Poll
    <3>2. RxRest(n)
      BY <2>1, <3>1 DEF Calling
    <3>3. n = 1
      BY <3>1, <3>2 DEF RxRest, Keeps
    <3>4. Calling(RxLock)' /\ ~ Calling(RxUnlock)'
      BY <3>1, Names DEF Calling
    <3>q. QED BY <1>4, <2>4, <3>2, <3>3, <3>4
  <2>9. CASE RxTake
    <3>1. polling = <<>> /\ phase = "take" /\ polling' = <<RxUnlock>>
      BY <2>9 DEF RxTake, At, Poll
    <3>2. RxSeen(n)
      BY <2>1, <3>1 DEF Calling
    <3>3. ~ Calling(RxLock)' /\ Calling(RxUnlock)'
      BY <3>1, Names DEF Calling
    <3>q. QED BY <1>4, <2>4, <3>2, <3>3
  <2>q. QED BY <1>1, <1>8, <2>5, <2>6, <2>7, <2>8, <2>9, MenuCalls
<1>9. CASE Open /\ ~ MenuSteps /\ ~ HandleRxLock /\ ~ HandleRxUnlock /\ ~ SerialRx
  <2>1. UNCHANGED menu
    BY <1>9, FirmwareLeavesMenu DEF Next, User, MenuSteps
  <2>2. ~ HandleReset
    BY <1>9, HandlersSample, Polled
  <2>3. \A f \in RxGroup : Spares(f)
    BY <1>9, <2>2, Sparing, GroupsApart DEF SparesAllBut
  <2>4. serial_rx_buf_cnt' = serial_rx_buf_cnt
    BY <1>9, <2>2 DEF Next, Firmware, AnalyzeTraces, User, MenuSteps, HandleBoot, HandleSync1,
       HandleSync2, HandleTx, HandleTxAck, HandleChanged, HandleLoad, HandleLoadAck,
       WriteNext, UserRequestedBoot, UserRequestedClientMode, ConfigurationData,
       BootCommand, ConfigurationChanges, ram, rx
  <2>5. PICK n \in {0, 1} :
          /\ RxTold(n)
          /\ Calling(RxLock) => (RxRest(n) /\ n = 1) \/ RxTaken(n)
          /\ Calling(RxUnlock) => RxSeen(n) \/ RxDone(n)
          /\ ~ Calling(RxLock) /\ ~ Calling(RxUnlock) =>
               IF phase = "take" THEN RxSeen(n) ELSE RxRest(n)
    BY <1>3, <1>9
  <2>6. (Calling(RxLock)' <=> Calling(RxLock)) /\ (Calling(RxUnlock)' <=> Calling(RxUnlock))
        /\ phase' = phase
    BY <2>1 DEF Calling, menu
  <2>7. /\ RxTold(n)'
        /\ RxRest(n) => RxRest(n)'
        /\ RxTaken(n) => RxTaken(n)'
        /\ RxSeen(n) => RxSeen(n)'
        /\ RxDone(n) => RxDone(n)'
    BY <2>3, <2>4, <2>5, RxKept
  <2>q. QED BY <1>4, <2>5, <2>6, <2>7
<1>q. QED BY <1>1, <1>2, <1>5, <1>6, <1>7, <1>8, <1>9, Opens

\* The steps that do not move the handshake of a block to load.
LEMMA LoadKept ==
  ASSUME Typed, \A f \in LoadGroup : Spares(f),
         configuration_load_last_address' = configuration_load_last_address
  PROVE  /\ LoadRest => LoadRest'
         /\ next_block' = next_block =>
              \A b \in Blocks : /\ LoadTaken(b) => LoadTaken(b)'
                                /\ LoadSeen(b) => LoadSeen(b)'
                                /\ LoadDone(b) => LoadDone(b)'
<1>1. /\ LoadAck \in Fields /\ Spares(LoadAck)
      /\ \A b \in Blocks : Load(b) \in Fields /\ Spares(Load(b))
  BY FieldTypes DEF LoadGroup
<1>2. /\ \A b \in Blocks : Keeps(Load(b), 1) => Keeps(Load(b), 1)'
      /\ Keeps(LoadAck, 0) => Keeps(LoadAck, 0)'
  BY <1>1, SparesField DEF Typed
<1>3. \A b \in Blocks : /\ Taken(Load(b), LoadAck) => Taken(Load(b), LoadAck)'
                        /\ Seen(Load(b), LoadAck) => Seen(Load(b), LoadAck)'
                        /\ Done(Load(b), LoadAck) => Done(Load(b), LoadAck)'
  BY <1>1, SparesStages DEF Typed
<1>4. LoadRest => LoadRest'
  BY <1>2 DEF LoadRest
<1>5. ASSUME next_block' = next_block, NEW b \in Blocks
      PROVE  /\ LoadTaken(b) => LoadTaken(b)'
             /\ LoadSeen(b) => LoadSeen(b)'
             /\ LoadDone(b) => LoadDone(b)'
  <2>1. LoadOthers(b) => LoadOthers(b)'
    BY <1>2, <1>5 DEF LoadOthers
  <2>q. QED BY <1>3, <2>1 DEF LoadTaken, LoadSeen, LoadDone
<1>q. QED BY <1>4, <1>5

LEMMA LoadStep ==
  ASSUME Typed, Calls, Preparing, LoadInv, Next
  PROVE  LoadInv'
<1>1. SUFFICES ASSUME Open' PROVE LoadInv'
  BY DEF LoadInv
<1>2. CASE Opening
  <2>1. ~ Calling(LoadAck)'
    BY <1>2, Names DEF Opening, Calling
  <2>2. LoadRest'
    BY <1>2, FieldTypes DEF Opening, Ones, Zeros, LoadRest
  <2>q. QED BY <2>1, <2>2 DEF LoadInv
<1>3. CASE Open /\ \E b \in Blocks : HandleLoad(b)
  <2>1. PICK b \in Blocks : HandleLoad(b)
    BY <1>3
  <2>2. Sampled(Load(b))
    BY <2>1, HandlersSample
  <2>3. /\ todo = <<>> /\ area[Load(b)] = 1 /\ polling = <<Load(b), LoadAck>>
        /\ b = next_block
    BY <2>2, Polled, Names
  <2>4. ASSUME NEW d \in Blocks, LoadTaken(d) PROVE FALSE
    <3>1. d = b
      BY <2>3, <2>4 DEF LoadTaken, LoadOthers
    <3>2. area[Load(d)] = 0
      BY <2>3, <2>4, AnsweredOnce DEF LoadTaken
    <3>q. QED BY <2>3, <3>1, <3>2
  <2>5. Calling(LoadAck) /\ Len(polling) = 2
    BY <2>3 DEF Calling
  <2>6. LoadRest
    BY <1>3, <2>4, <2>5 DEF LoadInv
  <2>7. /\ area' = area /\ configuration_load_last_address' = b
        /\ polling' = polling /\ next_block' = next_block
    BY <2>1 DEF HandleLoad, Do, menu
  <2>8. Len(todo') = 2 /\ todo'[1] = Write(LoadAck, 1) /\ todo'[2] = Write(Load(b), 0)
    BY <2>1, <2>6, LoadWrites DEF LoadRest
  <2>9. Load(b) # LoadAck /\ \A d : Load(d) # LoadAck /\ (d # b => Load(d) # Load(b))
    BY Names
  <2>10. Taken(Load(b), LoadAck)'
    <3>1. Rest(Load(b), LoadAck)
      BY <2>6 DEF LoadRest, Rest
    <3>2. 0 \in Nat /\ Len(todo') = 0 + 2
          /\ todo'[0 + 1] = Write(LoadAck, 1) /\ todo'[0 + 2] = Write(Load(b), 0)
          /\ \A i \in 1 .. 0 : Load(b) \notin DOMAIN todo'[i] /\ LoadAck \notin DOMAIN todo'[i]
      BY <2>8
    <3>q. QED BY <2>3, <2>7, <2>9, <3>1, <3>2, FirstHandled
  <2>11. ASSUME NEW d \in Blocks \ {b} PROVE Keeps(Load(d), 1)'
    <3>1. area'[Load(d)] = 1
      BY <2>6, <2>7 DEF LoadRest, Keeps
    <3>2. \A i \in 1 .. Len(todo') : Load(d) \notin DOMAIN todo'[i]
      BY <2>8, <2>9 DEF Write
    <3>q. QED BY <3>1, <3>2 DEF Keeps, WritesOnly
  <2>12. LoadTaken(b)'
    BY <2>3, <2>7, <2>10, <2>11 DEF LoadTaken, LoadOthers
  <2>q. QED BY <2>5, <2>7, <2>12 DEF LoadInv, Calling
<1>4. CASE Open /\ HandleLoadAck
  <2>1. todo = <<>> /\ area[LoadAck] = 1 /\ polling = <<LoadAck>>
    BY <1>4, Polled, HandlersSample, Names
  <2>2. Calling(LoadAck) /\ Len(polling) # 2
    BY <2>1 DEF Calling
  <2>3. PICK b \in Blocks : LoadSeen(b) \/ LoadDone(b)
    BY <1>4, <2>2 DEF LoadInv
  <2>4. LoadSeen(b)
    BY <2>1, <2>3, AnsweredOnce DEF LoadDone
  <2>5. b # None
    BY NoneAssumption DEF Blocks
  <2>6. /\ area' = area /\ polling' = polling /\ next_block' = next_block
        /\ configuration_load_last_address' = None
    BY <1>4 DEF HandleLoadAck, Do, menu
  <2>7. Len(todo') = 2 /\ todo'[1] = Write(Load(b), 1) /\ todo'[2] = Write(LoadAck, 0)
    BY <1>4, <2>4, <2>5, LoadAckWrites DEF LoadSeen
  <2>8. Load(b) # LoadAck /\ \A d : Load(d) # LoadAck /\ (d # b => Load(d) # Load(b))
    BY Names
  <2>9. Done(Load(b), LoadAck)'
    BY <2>1, <2>4, <2>6, <2>7, <2>8, SecondHandled DEF LoadSeen
  <2>10. ASSUME NEW d \in Blocks \ {b} PROVE Keeps(Load(d), 1)'
    <3>1. area'[Load(d)] = 1
      BY <2>4, <2>6 DEF LoadSeen, LoadOthers, Keeps
    <3>2. \A i \in 1 .. Len(todo') : Load(d) \notin DOMAIN todo'[i]
      BY <2>7, <2>8 DEF Write
    <3>q. QED BY <3>1, <3>2 DEF Keeps, WritesOnly
  <2>11. LoadDone(b)'
    BY <2>4, <2>6, <2>9, <2>10 DEF LoadDone, LoadSeen, LoadOthers
  <2>q. QED BY <2>2, <2>6, <2>11 DEF LoadInv, Calling
<1>5. CASE Open /\ MenuSteps
  <2>1. UNCHANGED firmware
    BY <1>5, MenuLeaves
  <2>2. /\ configuration_load_last_address' = configuration_load_last_address
        /\ \A f \in LoadGroup : Spares(f)
    BY <2>1 DEF firmware, ram, Spares, Untouched
  <2>3. CASE PollDone
    <3>1. CASE ~ Calling(LoadAck)
      <4>1. ~ Calling(LoadAck)'
        BY <3>1, <2>3, PollEnds DEF Calling
      <4>2. LoadRest
        BY <1>5, <3>1 DEF LoadInv
      <4>q. QED BY <2>2, <4>1, <4>2, LoadKept DEF LoadInv
    <3>2. CASE Calling(LoadAck) /\ Len(polling) = 2
      <4>1. PICK f : polling = <<f, LoadAck>> /\ polling' = <<LoadAck>> /\ ~ Waiting(f)
                     /\ next_block' = next_block
        BY <2>3, <3>2, PollEnds DEF Calling
      <4>2. f = Load(next_block) /\ next_block \in Blocks
        BY <4>1, Names DEF Calls
      <4>3. area[Load(next_block)] = 0
        BY <4>1, <4>2, Names DEF Waiting
      <4>4. ~ LoadRest
        BY <4>2, <4>3 DEF LoadRest, Keeps
      <4>5. PICK b \in Blocks : LoadTaken(b)
        BY <1>5, <3>2, <4>4 DEF LoadInv
      <4>6. LoadSeen(b)
        BY <4>3, <4>5, FirstCleared DEF LoadTaken, LoadSeen, LoadOthers
      <4>7. LoadSeen(b)'
        BY <2>2, <4>1, <4>6, LoadKept
      <4>8. Calling(LoadAck)' /\ Len(polling') # 2
        BY <4>1 DEF Calling
      <4>q. QED BY <4>7, <4>8 DEF LoadInv
    <3>3. CASE Calling(LoadAck) /\ Len(polling) # 2
      <4>1. polling = <<LoadAck>> /\ polling' = <<>> /\ ~ Waiting(LoadAck)
        BY <2>3, <3>3, PollEnds DEF Calling
      <4>2. area[LoadAck] = 0
        BY <4>1, Names DEF Waiting
      <4>3. PICK b \in Blocks : LoadSeen(b) \/ LoadDone(b)
        BY <1>5, <3>3 DEF LoadInv
      <4>4. LoadDone(b)
        BY <4>2, <4>3 DEF LoadSeen, Seen, Keeps
      <4>5. LoadRest
        BY <4>2, <4>4, SecondCleared DEF LoadDone, LoadOthers, Rest, LoadRest
      <4>6. LoadRest' /\ ~ Calling(LoadAck)'
        BY <2>2, <4>1, <4>5, LoadKept DEF Calling
      <4>q. QED BY <4>6 DEF LoadInv
    <3>q. QED BY <3>1, <3>2, <3>3
  <2>4. CASE ~ PollDone
    <3>1. polling = <<>> /\ (~ Calling(LoadAck)' \/ Len(polling') = 2)
      BY <1>1, <1>5, <2>4, MenuCalls, Names
         DEF TxByte, RxByte, RxTake, GetConfiguration, At, Poll, Calling
    <3>2. LoadRest
      BY <1>5, <3>1 DEF LoadInv, Calling
    <3>q. QED BY <2>2, <3>1, <3>2, LoadKept DEF LoadInv
  <2>q. QED BY <2>3, <2>4
<1>6. CASE Open /\ ~ MenuSteps /\ ~ HandleLoadAck /\ ~ \E b \in Blocks : HandleLoad(b)
  <2>1. UNCHANGED menu
    BY <1>6, FirmwareLeavesMenu DEF Next, User, MenuSteps
  <2>2. ~ HandleReset
    BY <1>6, HandlersSample, Polled
  <2>3. \A f \in LoadGroup : Spares(f)
    BY <1>6, <2>2, Sparing, GroupsApart DEF SparesAllBut
  <2>4. configuration_load_last_address' = configuration_load_last_address
    BY <1>6, <2>2 DEF Next, Firmware, AnalyzeTraces, User, MenuSteps, HandleBoot, HandleSync1,
       HandleSync2, HandleTx, HandleTxAck, HandleRxLock, HandleRxUnlock, HandleChanged,
       WriteNext, UserRequestedBoot, UserRequestedClientMode, SerialRx, ConfigurationData,
       BootCommand, ConfigurationChanges, ram
  <2>5. LoadInv
    OBVIOUS
  <2>q. QED BY <1>6, <2>1, <2>3, <2>4, <2>5, LoadKept DEF LoadInv, Calling, menu
<1>q. QED BY <1>1, <1>2, <1>3, <1>4, <1>5, <1>6, Opens

-----------------------------------------------------------------------------
(* The signalled change, and the block that is written and drawn.          *)

\* The firmware clears configuration_changed only while the menu waits for it.
ChangedInv ==
  Open => ~ Pending(Changed) \/ (polling = <<Changed>> /\ Turns(Changed, 0))

\* Version v of block b is the latest, or the menu is told that there is another.
Current(b, v) == version[b] = v \/ area[Changed] = 1

\* The stages of a block: the firmware has not seen it asked for; it has to fill it in; it
\* writes it; all of it is in the ROM, and the menu draws it.
Unloaded == configuration_load_last_address = None /\ Len(polling) = 2
Signalled(b) ==
  /\ configuration_load_last_address # None /\ next_block = b
  /\ signal = <<"block", b>>
Arriving(b, v) ==
  /\ configuration_load_last_address # None /\ next_block = b
  /\ signal = None /\ Current(b, v)
  /\ \A k \in Cells : Settles(Cell(k), <<b, v>>)
Arrived(b, v) ==
  /\ configuration_load_last_address = None /\ next_block = b
  /\ signal = None /\ Current(b, v)
  /\ \A k \in Cells : Keeps(Cell(k), <<b, v>>)
  /\ \A k \in 1 .. Len(screen[b]) : screen[b][k] = <<b, v>>

CellInv ==
  phase = "draw" =>
    \/ Unloaded
    \/ \E b \in Blocks : Signalled(b) \/ \E v \in 0 .. LastVersion : Arriving(b, v) \/ Arrived(b, v)

\* A field with no write left to do stays as it is.
LEMMA SparesQuiet ==
  ASSUME Typed, NEW f \in Fields, Spares(f), ~ Pending(f)
  PROVE  ~ Pending(f)' /\ area'[f] = area[f]
<1>1. Keeps(f, area[f])
  BY DEF Pending, Keeps, WritesOnly
<1>2. PICK v : v = area[f]
  OBVIOUS
<1>3. Keeps(f, v)'
  BY <1>1, <1>2, SparesField DEF Typed
<1>4. CASE WriteNext
  BY <1>2, <1>3, <1>4, PendingAfter DEF Keeps, Typed
<1>5. CASE Untouched(f)
  BY <1>5 DEF Untouched, Pending, Clear
<1>q. QED BY <1>4, <1>5 DEF Spares

LEMMA ChangedStep ==
  ASSUME Typed, Calls, Preparing, ChangedInv, Next
  PROVE  ChangedInv'
<1>1. SUFFICES ASSUME Open' PROVE ChangedInv'
  BY DEF ChangedInv
<1>2. Changed \in Fields /\ todo \in Seq(Writings) /\ DOMAIN area = Fields
  BY FieldTypes DEF Typed
<1>3. CASE Opening
  BY <1>3 DEF Opening, ChangedInv, Pending
<1>4. CASE Open /\ HandleChanged
  <2>1. polling = <<Changed>> /\ area[Changed] = 1
    BY <1>4, HandlersSample, Polled, Names
  <2>2. polling' = polling /\ todo' = <<Write(Changed, 0)>> /\ area' = area
    BY <1>4 DEF HandleChanged, Do, menu
  <2>3. Len(todo') = 1 /\ Changed \in DOMAIN todo'[1] /\ todo'[1][Changed] = 0
    BY <2>2 DEF Write
  <2>4. (WritesOnly(Changed, 0) /\ WritesOnce(Changed) /\ Pending(Changed))'
    BY <2>3 DEF WritesOnly, WritesOnce, Pending
  <2>5. Turns(Changed, 0)'
    BY <2>1, <2>2, <2>4 DEF Turns
  <2>q. QED BY <2>1, <2>2, <2>5 DEF ChangedInv
<1>5. CASE Open /\ \E b \in Blocks : ConfigurationChanges(b)
  <2>1. todo' = <<>>
    BY <1>5 DEF ConfigurationChanges, PacketTime, Idle, Returned
  <2>q. QED BY <2>1 DEF ChangedInv, Pending
<1>6. CASE Open /\ MenuSteps
  <2>1. area' = area /\ todo' = todo
    BY <1>6, MenuLeaves DEF firmware
  <2>2. (Pending(Changed)' <=> Pending(Changed)) /\ (Turns(Changed, 0) => Turns(Changed, 0)')
    BY <2>1 DEF Pending, Turns, WritesOnly, WritesOnce
  <2>3. SUFFICES ASSUME Pending(Changed) PROVE polling' = <<Changed>> /\ Turns(Changed, 0)
    BY <2>2 DEF ChangedInv
  <2>4. polling = <<Changed>> /\ Turns(Changed, 0)
    BY <1>6, <2>3 DEF ChangedInv
  <2>5. ~ PollDone
    <3>1. SUFFICES ASSUME PollDone PROVE FALSE
      OBVIOUS
    <3>2. ~ Waiting(Changed)
      BY <2>4, <3>1, PollEnds
    <3>3. area[Changed] = 0
      BY <3>2, Names DEF Waiting
    <3>q. QED BY <2>3, <2>4, <3>3, Turned
  <2>6. polling = <<>>
    BY <1>1, <1>6, <2>5, MenuCalls DEF TxByte, RxByte, RxTake, GetConfiguration, At
  <2>q. QED BY <2>4, <2>6
<1>7. CASE Open /\ ~ MenuSteps /\ ~ HandleChanged /\ ~ \E b \in Blocks : ConfigurationChanges(b)
  <2>1. polling' = polling
    BY <1>7, FirmwareLeavesMenu DEF Next, User, MenuSteps, menu
  <2>2. ~ HandleReset
    BY <1>7, HandlersSample, Polled
  <2>3. Spares(Changed)
    BY <1>7, <2>2, Sparing, GroupsApart DEF SparesAllBut
  <2>4. (~ Pending(Changed) => ~ Pending(Changed)') /\ (Turns(Changed, 0) => Turns(Changed, 0)')
    BY <1>2, <2>3, SparesQuiet, SparesField
  <2>q. QED BY <1>7, <2>1, <2>4 DEF ChangedInv
<1>q. QED BY <1>1, <1>3, <1>4, <1>5, <1>6, <1>7, Opens

\* While the menu draws, the session is open and no change is being cleared.
LEMMA Drawing ==
  ASSUME Calls, ChangedInv, phase = "draw"
  PROVE  /\ Open /\ ~ Pending(Changed) /\ next_block \in Blocks
         /\ \/ polling = <<>>
            \/ polling = <<Load(next_block), LoadAck>> /\ screen[next_block] = <<>>
            \/ polling = <<LoadAck>> /\ screen[next_block] = <<>>
<1>1. /\ next_block \in Blocks
      /\ \/ polling = <<>>
         \/ polling = <<Load(next_block), LoadAck>> /\ screen[next_block] = <<>>
         \/ polling = <<LoadAck>> /\ screen[next_block] = <<>>
  BY DEF Calls
<1>2. Open
  BY <1>1, Names DEF Open, Connected
<1>3. polling # <<Changed>>
  <2>1. LoadAck # Changed
    BY Names
  <2>2. \A x, y : <<x, y>> # <<Changed>> /\ <<>> # <<Changed>>
    OBVIOUS
  <2>3. <<LoadAck>> # <<Changed>>
    BY <2>1
  <2>q. QED BY <1>1, <2>2, <2>3
<1>q. QED BY <1>1, <1>2, <1>3 DEF ChangedInv

\* The firmware's steps while the menu draws.
LEMMA DrawingSteps ==
  ASSUME Typed, Calls, ChangedInv, phase = "draw", Next, ~ MenuSteps
  PROVE  /\ UNCHANGED menu
         /\ \/ WriteNext
            \/ \E b \in Blocks : HandleLoad(b) /\ b = next_block
            \/ HandleLoadAck
            \/ ConfigurationData
            \/ UserRequestedBoot \/ UserRequestedClientMode \/ SerialRx
            \/ BootCommand
            \/ \E b \in Blocks : ConfigurationChanges(b)
<1>1. UNCHANGED menu
  BY FirmwareLeavesMenu DEF Next, User, MenuSteps
<1>2. polling = <<>> \/ polling = <<Load(next_block), LoadAck>> \/ polling = <<LoadAck>>
  BY Drawing
<1>3. ~ HandleReset
  BY Drawing, HandlersSample, Polled
<1>4. \A s \in Slots : ~ HandleBoot(s)
  <2>1. ASSUME NEW s \in Slots, HandleBoot(s) PROVE FALSE
    <3>1. polling = <<Boot(s)>>
      BY <2>1, HandlersSample, Polled
    <3>q. QED BY <1>2, <3>1, Names
  <2>q. QED BY <2>1
<1>5. ~ HandleSync1 /\ ~ HandleSync2
  BY <1>2, HandlersSample, Polled, Names
<1>6. \A c \in Bytes : ~ HandleTx(c)
  <2>1. ASSUME NEW c \in Bytes, HandleTx(c) PROVE FALSE
    <3>1. polling = <<Tx(c), TxAck>>
      BY <2>1, HandlersSample, Polled
    <3>q. QED BY <1>2, <3>1, Names
  <2>q. QED BY <2>1
<1>7. ~ HandleTxAck /\ ~ HandleRxLock /\ ~ HandleRxUnlock /\ ~ HandleChanged
  BY <1>2, HandlersSample, Polled, Names
<1>8. \A b \in Blocks : HandleLoad(b) => b = next_block
  BY HandlersSample, Polled
<1>q. QED BY <1>1, <1>3, <1>4, <1>5, <1>6, <1>7, <1>8
          DEF Next, Firmware, AnalyzeTraces, User, MenuSteps

\* A step that leaves the block's bytes and what tells how current they are.
LEMMA CellsKept ==
  ASSUME Typed, \A f \in CellFields : Spares(f), area'[Changed] = area[Changed],
         UNCHANGED <<configuration_load_last_address, next_block, screen, signal, version>>
  PROVE  \A b \in Blocks :
           /\ Signalled(b) => Signalled(b)'
           /\ \A v \in 0 .. LastVersion : /\ Arriving(b, v) => Arriving(b, v)'
                                          /\ Arrived(b, v) => Arrived(b, v)'
<1>1. \A k \in Cells : Cell(k) \in Fields /\ Spares(Cell(k))
  BY FieldTypes
<1>2. \A x : \A k \in Cells : /\ Settles(Cell(k), x) => Settles(Cell(k), x)'
                              /\ Keeps(Cell(k), x) => Keeps(Cell(k), x)'
  BY <1>1, SparesField DEF Typed
<1>3. \A b, v : Current(b, v) => Current(b, v)'
  BY DEF Current
<1>4. \A b : Signalled(b) => Signalled(b)'
  BY DEF Signalled
<1>5. \A b, v : Arriving(b, v) => Arriving(b, v)'
  BY <1>2, <1>3 DEF Arriving
<1>6. \A b, v : Arrived(b, v) => Arrived(b, v)'
  BY <1>2, <1>3 DEF Arrived
<1>q. QED BY <1>4, <1>5, <1>6

\* What a byte drawn adds to the line.
LEMMA ByteDrawn ==
  ASSUME Typed, Calls, LoadInv, ChangedInv, CellInv, Draw
  PROVE  \E b \in Blocks, v \in 0 .. LastVersion :
           /\ Arrived(b, v)
           /\ screen' = [screen EXCEPT ![b] = Append(screen[b], <<b, v>>)]
           /\ Len(screen'[b]) \in Nat /\ Len(screen'[b]) <= NumCells
           /\ \A k \in 1 .. Len(screen'[b]) : screen'[b][k] = <<b, v>>
           /\ IF Len(screen'[b]) < NumCells THEN next_block' = b ELSE next_block' = b + 1
<1>1. phase = "draw" /\ polling = <<>>
  BY DEF Draw, At
<1>2. Open /\ ~ Calling(LoadAck)
  BY <1>1, Drawing DEF Calling
<1>3. configuration_load_last_address = None
  BY <1>2 DEF LoadInv, LoadRest
<1>4. PICK b \in Blocks, v \in 0 .. LastVersion : Arrived(b, v)
  BY <1>1, <1>3 DEF CellInv, Unloaded, Signalled, Arriving
<1>5. b = next_block /\ screen \in [Blocks -> Seq(AnyContents)]
      /\ Len(screen[b]) \in Nat /\ Len(screen[b]) < NumCells
  BY <1>1, <1>4 DEF Arrived, Typed, Calls
<1> DEFINE n == Len(screen[b])
<1>6. n + 1 \in Cells
  BY <1>5, Sizes DEF Cells
<1>7. area[Cell(n + 1)] = <<b, v>> /\ area[Cell(n + 1)] \in AnyContents
  BY <1>4, <1>6, FieldTypes DEF Arrived, Keeps, Typed, AnyContents
<1>8. screen' = [screen EXCEPT ![b] = Append(screen[b], <<b, v>>)]
      /\ screen'[b] = Append(screen[b], <<b, v>>)
  BY <1>5, <1>7 DEF Draw
<1>9. Len(screen'[b]) = n + 1
  BY <1>5, <1>7, <1>8
<1>10. \A k \in 1 .. Len(screen'[b]) : screen'[b][k] = <<b, v>>
  BY <1>4, <1>5, <1>7, <1>8 DEF Arrived
<1>11. IF Len(screen'[b]) < NumCells THEN next_block' = b ELSE next_block' = b + 1
  BY <1>5, <1>7, <1>8, Sizes DEF Draw
<1>12. Len(screen'[b]) \in Nat /\ Len(screen'[b]) <= NumCells
  BY <1>5, <1>9, Sizes
<1> HIDE DEF n
<1>q. QED BY <1>4, <1>8, <1>10, <1>11, <1>12

LEMMA CellStep ==
  ASSUME Typed, Calls, Preparing, LoadInv, ChangedInv, CellInv, Next
  PROVE  CellInv'
<1>1. SUFFICES ASSUME phase' = "draw" PROVE CellInv'
  BY DEF CellInv
<1>2. CASE phase # "draw"
  <2>1. GetConfiguration
    <3>1. MenuSteps
      BY <1>1, <1>2, FirmwareLeavesMenu DEF Next, User, MenuSteps, menu
    <3>2. PhaseOf(area[DesiredState]) # "draw"
      <4>1. area[DesiredState] \in DesiredStates
        BY ContentsOf, FieldTypes DEF Typed
      <4>q. QED BY <4>1 DEF PhaseOf, DesiredStates
    <3>q. QED BY <1>1, <1>2, <3>1, <3>2
              DEF MenuSteps, MenuStep, PollDone, Reset, Dispatch, Loop, Draw, RxTake, TestChanged,
                  PressClient, NoTxByte, RxByte, NoRxByte, MinitelReset, PressBoot, TxByte, At, Go
  <2>2. /\ phase = "refresh" /\ polling = <<>> /\ polling' = <<Load(next_block), LoadAck>>
        /\ configuration_load_last_address' = configuration_load_last_address
    BY <2>1 DEF GetConfiguration, At, Poll, firmware, ram
  <2>3. Open /\ ~ Calling(LoadAck)
    BY <2>2 DEF Open, Connected, Calling
  <2>4. configuration_load_last_address = None
    BY <2>3 DEF LoadInv, LoadRest
  <2>5. Len(polling') = 2
    BY <2>2
  <2>q. QED BY <2>2, <2>4, <2>5 DEF CellInv, Unloaded
<1>3. CASE phase = "draw" /\ MenuSteps
  <2>1. /\ UNCHANGED <<configuration_load_last_address, signal, version>> /\ area' = area
        /\ \A f \in CellFields : Spares(f)
    BY <1>3, MenuLeaves DEF firmware, ram, Spares, Untouched
  <2>2. PollDone \/ Draw
    BY <1>1, <1>3 DEF MenuSteps, MenuStep, Reset, Dispatch, Loop, GetConfiguration, RxTake,
         TestChanged, PressClient, NoTxByte, RxByte, NoRxByte, MinitelReset, PressBoot, TxByte,
         At, Go
  <2>3. CASE PollDone
    <3>1. UNCHANGED <<next_block, screen>>
      BY <2>3, PollEnds
    <3>2. ~ Unloaded
      <4>1. SUFFICES ASSUME Unloaded PROVE FALSE
        OBVIOUS
      <4>2. polling = <<Load(next_block), LoadAck>> /\ Open /\ next_block \in Blocks
        BY <1>3, <4>1, Drawing DEF Unloaded
      <4>3. ~ Waiting(Load(next_block))
        BY <2>3, <4>2, PollEnds
      <4>4. area[Load(next_block)] = 0
        BY <4>3, Names DEF Waiting
      <4>5. ~ LoadRest
        BY <4>2, <4>4 DEF LoadRest, Keeps
      <4>6. PICK b \in Blocks : LoadTaken(b)
        BY <4>2, <4>5 DEF LoadInv, Calling
      <4>q. QED BY <4>1, <4>6, NoneAssumption DEF LoadTaken, Unloaded, Blocks
    <3>3. PICK b \in Blocks : Signalled(b) \/ \E v \in 0 .. LastVersion : Arriving(b, v) \/ Arrived(b, v)
      BY <1>3, <3>2 DEF CellInv
    <3>4. /\ Signalled(b) => Signalled(b)'
          /\ \A v \in 0 .. LastVersion : /\ Arriving(b, v) => Arriving(b, v)'
                                         /\ Arrived(b, v) => Arrived(b, v)'
      BY <2>1, <3>1, CellsKept
    <3>q. QED BY <3>3, <3>4 DEF CellInv
  <2>4. CASE Draw
    <3>1. PICK b \in Blocks, v \in 0 .. LastVersion :
            /\ Arrived(b, v)
            /\ Len(screen'[b]) \in Nat /\ Len(screen'[b]) <= NumCells
            /\ \A k \in 1 .. Len(screen'[b]) : screen'[b][k] = <<b, v>>
            /\ IF Len(screen'[b]) < NumCells THEN next_block' = b ELSE next_block' = b + 1
      BY <2>4, ByteDrawn
    <3>2. next_block' = b
      <4>1. next_block' = next_block
        BY <1>1, <2>4 DEF Draw, Go
      <4>q. QED BY <3>1, <4>1 DEF Arrived
    <3>3. \A k \in Cells : Keeps(Cell(k), <<b, v>>)'
      BY <2>1, <3>1, FieldTypes, SparesField DEF Arrived, Typed
    <3>4. Arrived(b, v)'
      BY <2>1, <3>1, <3>2, <3>3 DEF Arrived, Current
    <3>q. QED BY <3>4 DEF CellInv
  <2>q. QED BY <2>2, <2>3, <2>4
<1>4. CASE phase = "draw" /\ \E b \in Blocks : HandleLoad(b)
  <2>1. PICK b \in Blocks : HandleLoad(b)
    BY <1>4
  <2>2. b = next_block
    BY <2>1, HandlersSample, Polled
  <2>3. configuration_load_last_address' = b /\ signal' = <<"block", b>> /\ next_block' = b
    BY <2>1, <2>2 DEF HandleLoad, Return, Do, menu
  <2>4. Signalled(b)'
    BY <2>3, NoneAssumption DEF Signalled, Blocks
  <2>q. QED BY <2>4 DEF CellInv
<1>5. CASE phase = "draw" /\ HandleLoadAck
  <2>1. todo = <<>> /\ signal = None /\ polling = <<LoadAck>> /\ Open /\ area[LoadAck] = 1
    BY <1>5, Drawing, HandlersSample, Polled, Names
  <2>2. PICK b \in Blocks : LoadSeen(b)
    BY <2>1, AnsweredOnce DEF LoadInv, Calling, LoadDone
  <2>3. configuration_load_last_address # None /\ ~ Unloaded
    BY <2>1, <2>2, NoneAssumption DEF LoadSeen, Unloaded, Blocks
  <2>4. \A d \in Blocks : ~ Signalled(d)
    BY <2>1, NoneAssumption DEF Signalled, Blocks
  <2>5. PICK d \in Blocks, v \in 0 .. LastVersion : Arriving(d, v)
    BY <1>5, <2>3, <2>4 DEF CellInv, Arrived
  <2>6. screen[d] = <<>>
    BY <1>5, <2>1, <2>5, Drawing DEF Arriving
  <2>7. /\ configuration_load_last_address' = None /\ signal' = signal /\ area' = area
        /\ next_block' = next_block /\ screen' = screen /\ version' = version
    BY <1>5 DEF HandleLoadAck, ReturnNothing, Do, menu
  <2>8. \A f \in CellFields : Spares(f)
    <3>1. \A f \in CellFields : f \in Fields \ LoadGroup
      BY GroupsApart
    <3>2. SparesAllBut(LoadGroup)
      <4>1. \A i \in 1 .. Len(todo') : DOMAIN todo'[i] \subseteq LoadGroup
        BY <1>5, LoadAckWrites, WritesWithin DEF Typed
      <4>q. QED BY <2>1, <2>7, <4>1, HandlerSpares
    <3>q. QED BY <3>1, <3>2 DEF SparesAllBut
  <2>9. ASSUME NEW k \in Cells PROVE Keeps(Cell(k), <<d, v>>)'
    <3>1. Keeps(Cell(k), <<d, v>>)
      BY <2>1, <2>5, NothingLeft DEF Arriving
    <3>q. QED BY <2>8, <3>1, FieldTypes, SparesField DEF Typed
  <2>10. Arrived(d, v)'
    BY <2>1, <2>5, <2>6, <2>7, <2>9 DEF Arrived, Arriving, Current
  <2>q. QED BY <2>10 DEF CellInv
<1>6. CASE phase = "draw" /\ ConfigurationData
  <2>1. /\ todo = <<>> /\ signal # None /\ signal[1] = "block"
        /\ todo' = [k \in Cells |-> Write(Cell(k), <<signal[2], version[signal[2]]>>)]
        /\ signal' = None /\ area' = area
        /\ UNCHANGED <<configuration_load_last_address, version, next_block, polling, screen>>
    BY <1>6 DEF ConfigurationData, Returned, ram, menu
  <2>2. CASE Unloaded
    BY <2>1, <2>2 DEF CellInv, Unloaded
  <2>3. CASE \E b \in Blocks : Signalled(b)
    <3>1. PICK b \in Blocks : Signalled(b)
      BY <2>3
    <3>2. PICK v \in 0 .. LastVersion : v = version[b]
      BY DEF Typed
    <3>3. todo' = [k \in Cells |-> Write(Cell(k), <<b, v>>)]
      BY <2>1, <3>1, <3>2 DEF Signalled
    <3>4. Len(todo') = NumCells
      BY <3>3, Sizes DEF Cells
    <3>5. ASSUME NEW k \in Cells PROVE Settles(Cell(k), <<b, v>>)'
      <4>1. \A i \in 1 .. Len(todo') : DOMAIN todo'[i] = {Cell(i)} /\ todo'[i][Cell(i)] = <<b, v>>
        BY <3>3, <3>4 DEF Cells, Write
      <4>2. \A i \in 1 .. Len(todo') : Cell(k) \in DOMAIN todo'[i] => i = k
        BY <4>1, Names
      <4>3. k \in 1 .. Len(todo')
        BY <3>4 DEF Cells
      <4>q. QED BY <4>1, <4>2, <4>3 DEF Settles, WritesOnly, Pending
    <3>6. Arriving(b, v)'
      BY <2>1, <3>1, <3>2, <3>5 DEF Arriving, Signalled, Current
    <3>q. QED BY <3>6 DEF CellInv
  <2>q. QED BY <1>6, <2>1, <2>2, <2>3 DEF CellInv, Arriving, Arrived
<1>7. CASE phase = "draw" /\ (WriteNext \/ BootCommand)
  <2>1. /\ UNCHANGED menu
        /\ UNCHANGED <<configuration_load_last_address, signal, version>>
        /\ \A f \in CellFields \cup {Changed} : Spares(f)
    <3>1. UNCHANGED menu /\ UNCHANGED <<configuration_load_last_address, signal, version>>
      BY <1>7 DEF WriteNext, BootCommand, AcceptBoot, ram
    <3>2. \A f \in CellFields \cup {Changed} : f \in Fields \ {DesiredState}
      BY GroupsApart
    <3>3. WriteNext => \A f \in CellFields \cup {Changed} : Spares(f)
      BY DEF Spares
    <3>4. BootCommand => todo' = todo /\ \E v : area' = [area EXCEPT ![DesiredState] = v]
      BY DEF BootCommand, AcceptBoot
    <3>5. BootCommand => SparesAllBut({DesiredState})
      BY <3>4, LoopSpares DEF Typed
    <3>q. QED BY <1>7, <3>1, <3>2, <3>3, <3>5 DEF SparesAllBut
  <2>2. area'[Changed] = area[Changed]
    BY <1>7, <2>1, Drawing, SparesQuiet, FieldTypes
  <2>3. UNCHANGED <<configuration_load_last_address, next_block, screen, signal, version, polling>>
    BY <2>1 DEF menu
  <2>4. Unloaded => Unloaded'
    BY <2>3 DEF Unloaded
  <2>5. \A b \in Blocks :
          /\ Signalled(b) => Signalled(b)'
          /\ \A v \in 0 .. LastVersion : /\ Arriving(b, v) => Arriving(b, v)'
                                         /\ Arrived(b, v) => Arrived(b, v)'
    BY <2>1, <2>2, <2>3, CellsKept
  <2>q. QED BY <1>7, <2>4, <2>5 DEF CellInv
<1>8. CASE phase = "draw" /\ \E b \in Blocks : ConfigurationChanges(b)
  <2>1. /\ UNCHANGED <<menu, configuration_load_last_address, signal, todo>>
        /\ area' = [area EXCEPT ![Changed] = 1]
    BY <1>8 DEF ConfigurationChanges
  <2>2. area'[Changed] = 1 /\ \A k \in Cells : area'[Cell(k)] = area[Cell(k)]
    BY <2>1, FieldTypes, Names DEF Typed
  <2>3. \A k \in Cells : \A x : /\ Settles(Cell(k), x) => Settles(Cell(k), x)'
                                /\ Keeps(Cell(k), x) => Keeps(Cell(k), x)'
    BY <2>1, <2>2 DEF Settles, Keeps, WritesOnly, Pending
  <2>4. UNCHANGED <<next_block, screen, polling>>
    BY <2>1 DEF menu
  <2>5. Unloaded => Unloaded'
    BY <2>1, <2>4 DEF Unloaded
  <2>6. \A b \in Blocks : /\ Signalled(b) => Signalled(b)'
                          /\ \A v \in 0 .. LastVersion : /\ Arriving(b, v) => Arriving(b, v)'
                                                         /\ Arrived(b, v) => Arrived(b, v)'
    BY <2>1, <2>2, <2>3, <2>4 DEF Signalled, Arriving, Arrived, Current
  <2>q. QED BY <1>8, <2>5, <2>6 DEF CellInv
<1>9. CASE phase = "draw" /\ (UserRequestedBoot \/ UserRequestedClientMode \/ SerialRx)
  <2>1. /\ UNCHANGED <<menu, configuration_load_last_address>>
        /\ signal # None /\ signal[1] \in {"boot", "client", "serial"}
    BY <1>9 DEF UserRequestedBoot, UserRequestedClientMode, SerialRx, Returned, ram
  <2>2. \A b : ~ Signalled(b) /\ \A v : ~ Arriving(b, v) /\ ~ Arrived(b, v)
    BY <2>1 DEF Signalled, Arriving, Arrived
  <2>3. Unloaded
    BY <1>9, <2>2 DEF CellInv
  <2>4. Unloaded'
    BY <2>1, <2>3 DEF Unloaded, menu
  <2>q. QED BY <2>4 DEF CellInv
<1>q. QED BY <1>2, <1>3, <1>4, <1>5, <1>6, <1>7, <1>8, <1>9, DrawingSteps

LEMMA LinesStep ==
  ASSUME Typed, Calls, LoadInv, ChangedInv, CellInv, LinesAreWhole, Next
  PROVE  LinesAreWhole'
<1> DEFINE Whole(line, b) ==
      \E v \in 0 .. LastVersion : \A k \in 1 .. Len(line) : line[k] = <<b, v>>
<1>1. \A b \in Blocks : Whole(screen[b], b)
  BY DEF LinesAreWhole
<1>2. \A b : Whole(<<>>, b)
  BY Sizes
<1>3. SUFFICES ASSUME NEW b \in Blocks PROVE Whole(screen'[b], b)
  BY DEF LinesAreWhole
<1> HIDE DEF Whole
<1>4. screen \in [Blocks -> Seq(AnyContents)]
  BY DEF Typed
<1>5. CASE screen' = screen
  BY <1>1, <1>5
<1>6. CASE screen' = Blank
  BY <1>2, <1>6 DEF Blank
<1>7. CASE GetConfiguration
  BY <1>1, <1>2, <1>4, <1>7 DEF GetConfiguration
<1>8. CASE Draw
  <2>1. PICK d \in Blocks, v \in 0 .. LastVersion :
          /\ screen' = [screen EXCEPT ![d] = Append(screen[d], <<d, v>>)]
          /\ \A k \in 1 .. Len(screen'[d]) : screen'[d][k] = <<d, v>>
    BY <1>8, ByteDrawn
  <2>2. Whole(screen'[d], d)
    BY <2>1 DEF Whole
  <2>3. d # b => screen'[b] = screen[b]
    BY <1>4, <2>1
  <2>q. QED BY <1>1, <2>2, <2>3
<1>9. \/ screen' = screen \/ screen' = Blank \/ GetConfiguration \/ Draw
  BY FirmwareLeavesMenu
     DEF Next, User, MenuStep, menu, PollDone, Reset, Dispatch, Loop, RxTake, TestChanged,
         PressClient, NoTxByte, RxByte, NoRxByte, MinitelReset, PressBoot, TxByte
<1>q. QED BY <1>5, <1>6, <1>7, <1>8, <1>9

\* A complete line of the latest version is what the menu should show.
LEMMA LineFresh ==
  ASSUME NEW b \in Blocks, NEW v, NEW line \in Seq(AnyContents),
         Len(line) = NumCells, \A k \in 1 .. Len(line) : line[k] = <<b, v>>
  PROVE  line = [k \in Cells |-> <<b, v>>]
<1>1. line = [k \in 1 .. Len(line) |-> line[k]]
  OBVIOUS
<1>2. line = [k \in Cells |-> line[k]]
  BY <1>1 DEF Cells
<1>q. QED BY <1>2 DEF Cells

LEMMA StaleStep ==
  ASSUME Typed, Calls, LoadInv, ChangedInv, CellInv, StaleIsNoticed, Next
  PROVE  StaleIsNoticed'
<1>1. SUFFICES ASSUME InMenu', NEW b \in Blocks, b < next_block', screen'[b] # Fresh(b)'
               PROVE  area'[Changed] # 0
  BY DEF StaleIsNoticed
<1>2. screen \in [Blocks -> Seq(AnyContents)] /\ next_block \in Nat /\ b \in Nat
  BY DEF Typed, Blocks
<1>3. CASE MenuSteps
  <2>1. area' = area /\ version' = version
    BY <1>3, MenuLeaves DEF firmware, ram
  <2>2. CASE InMenu /\ b < next_block /\ screen'[b] = screen[b]
    BY <1>1, <2>1, <2>2 DEF StaleIsNoticed, Fresh
  <2>3. CASE PollDone
    BY <1>1, <2>2, <2>3, PollEnds DEF InMenu
  <2>4. CASE GetConfiguration
    <3>1. InMenu /\ next_block' = next_block /\ screen' = [screen EXCEPT ![next_block] = <<>>]
      BY <2>4 DEF GetConfiguration, At, InMenu
    <3>q. QED BY <1>1, <1>2, <2>2, <3>1
  <2>5. CASE Draw
    <3>1. PICK d \in Blocks, v \in 0 .. LastVersion :
            /\ Arrived(d, v)
            /\ screen' = [screen EXCEPT ![d] = Append(screen[d], <<d, v>>)]
            /\ Len(screen'[d]) \in Nat /\ Len(screen'[d]) <= NumCells
            /\ \A k \in 1 .. Len(screen'[d]) : screen'[d][k] = <<d, v>>
            /\ IF Len(screen'[d]) < NumCells THEN next_block' = d ELSE next_block' = d + 1
      BY <2>5, ByteDrawn
    <3>2. InMenu /\ next_block = d
      BY <2>5, <3>1 DEF Draw, At, InMenu, Arrived
    <3>3. CASE b = d
      <4>1. Len(screen'[d]) = NumCells
        BY <1>1, <1>2, <3>1, <3>3, Sizes
      <4>2. screen'[d] \in Seq(AnyContents)
        BY TypedStep DEF Typed
      <4>3. screen'[d] = [k \in Cells |-> <<d, v>>]
        BY <3>1, <4>1, <4>2, LineFresh
      <4>4. version[d] # v
        BY <1>1, <2>1, <3>3, <4>3 DEF Fresh
      <4>q. QED BY <2>1, <3>1, <4>4 DEF Arrived, Current
    <3>4. CASE b # d
      <4>1. b < next_block
        BY <1>1, <1>2, <3>1, <3>2, <3>4
      <4>2. screen'[b] = screen[b]
        BY <1>2, <3>1, <3>4
      <4>q. QED BY <2>2, <3>2, <4>1, <4>2
    <3>q. QED BY <3>3, <3>4
  <2>6. CASE Dispatch \/ TestChanged
    <3>1. next_block' = 1 \/ (TestChanged /\ next_block' = next_block /\ screen' = screen)
      BY <2>6 DEF Dispatch, TestChanged, At, Calls
    <3>2. TestChanged => InMenu
      BY DEF TestChanged, At, InMenu
    <3>q. QED BY <1>1, <2>2, <3>1, <3>2 DEF Blocks
  <2>7. CASE Loop \/ PressClient \/ \E s \in Slots : PressBoot(s)
    <3>1. InMenu /\ next_block' = next_block /\ screen' = screen
      BY <1>1, <2>7 DEF Loop, PressClient, PressBoot, At, Go, InMenu
    <3>q. QED BY <1>1, <2>2, <3>1
  <2>8. CASE Reset \/ RxTake \/ NoTxByte \/ RxByte \/ NoRxByte \/ MinitelReset
             \/ \E c \in Bytes : TxByte(c)
    BY <1>1, <2>8 DEF Reset, RxTake, NoTxByte, RxByte, NoRxByte, MinitelReset, TxByte, Go, InMenu
  <2>q. QED BY <1>3, <2>3, <2>4, <2>5, <2>6, <2>7, <2>8 DEF MenuSteps, MenuStep
<1>4. CASE ~ MenuSteps
  <2>1. UNCHANGED menu
    BY <1>4, FirmwareLeavesMenu DEF Next, User, MenuSteps
  <2>2. InMenu /\ b < next_block /\ screen'[b] = screen[b]
    BY <1>1, <2>1 DEF menu, InMenu
  <2>3. CASE \E d \in Blocks : ConfigurationChanges(d)
    <3>1. area' = [area EXCEPT ![Changed] = 1]
      BY <2>3 DEF ConfigurationChanges
    <3>q. QED BY <3>1, FieldTypes DEF Typed
  <2>4. CASE ~ \E d \in Blocks : ConfigurationChanges(d)
    <3>1. polling # <<Changed>> /\ Open
      <4>1. polling # <<>> => polling[1] # Changed /\ polling[1] # Generation
        BY <1>2, <2>2, Names DEF Calls, InMenu, Blocks
      <4>2. phase # "boot" /\ (polling = <<>> \/ Head(polling) # Generation)
        BY <2>2, <4>1 DEF InMenu
      <4>3. polling # <<Changed>>
        BY <4>1
      <4>q. QED BY <4>2, <4>3 DEF Open, Connected
    <3>2. ~ Pending(Changed)
      BY <3>1 DEF ChangedInv
    <3>3. ~ HandleReset /\ ~ HandleChanged
      BY <3>1, HandlersSample, Polled
    <3>4. area'[Changed] = area[Changed]
      BY <1>4, <2>4, <3>2, <3>3, Sparing, GroupsApart, SparesQuiet DEF SparesAllBut
    <3>5. version' = version
      BY <1>4, <2>4, <3>3
         DEF Next, Firmware, AnalyzeTraces, User, MenuSteps, HandleBoot, HandleSync1, HandleSync2,
             HandleTx, HandleTxAck, HandleRxLock, HandleRxUnlock, HandleLoad, HandleLoadAck,
             WriteNext, UserRequestedBoot, UserRequestedClientMode, SerialRx, ConfigurationData,
             BootCommand, ram
    <3>6. area[Changed] # 0
      BY <1>1, <2>2, <3>5 DEF StaleIsNoticed, Fresh
    <3>q. QED BY <3>4, <3>6
  <2>q. QED BY <2>3, <2>4
<1>q. QED BY <1>3, <1>4

-----------------------------------------------------------------------------
(* The invariant and what follows from it.                                 *)

Inv ==
  /\ Typed /\ Calls /\ Preparing
  /\ TxInv /\ RxInv /\ LoadInv
  /\ ChangedInv /\ CellInv
  /\ LinesAreWhole /\ StaleIsNoticed

LEMMA InitTyped == Init => Typed
<1> SUFFICES ASSUME Init PROVE Typed
  OBVIOUS
<1>1. DOMAIN area = Fields
  BY DEF Init, Fields
<1>2. ASSUME NEW f \in Fields PROVE area[f] \in Contents(f)
  <2>1. area[f] = CASE f \in {Sync2, TxAck, RxUnlock, RxNonempty, Changed, LoadAck} -> 0
                    [] f = DesiredState -> "MAIN_MENU"
                    [] f \in CellFields \cup {RxData} -> None
                    [] OTHER -> 1
    BY <1>2 DEF Init, Fields
  <2>2. {Sync2, TxAck, RxUnlock, Changed, LoadAck} \subseteq Flags
    BY DEF Flags
  <2>3. CASE f \in {Sync2, TxAck, RxUnlock, RxNonempty, Changed, LoadAck}
    <3>1. area[f] = 0
      BY <2>1, <2>2, <2>3, GroupsApart, Names DEF CellFields
    <3>q. QED BY <2>2, <2>3, <3>1, ContentsOf
  <2>4. CASE f = DesiredState
    <3>1. area[f] = "MAIN_MENU"
      BY <2>1, <2>4, Names DEF CellFields
    <3>q. QED BY <2>4, <3>1, ContentsOf DEF DesiredStates
  <2>5. CASE f \in CellFields \cup {RxData}
    <3>1. area[f] = None
      BY <2>1, <2>5, Names DEF CellFields
    <3>q. QED BY <2>5, <3>1, ContentsOf
  <2>6. CASE f \in (Flags \cup {Generation})
                   \ ({Sync2, TxAck, RxUnlock, RxNonempty, Changed, LoadAck, DesiredState, RxData}
                      \cup CellFields)
    <3>1. area[f] = 1
      BY <2>1, <2>6
    <3>q. QED BY <2>6, <3>1, ContentsOf, Sizes
  <2>q. QED BY <1>2, <2>3, <2>4, <2>5, <2>6 DEF Fields
<1>3. todo \in Seq(Writings) /\ screen \in [Blocks -> Seq(AnyContents)]
  BY DEF Init, Blank
<1>4. serial_tx_buf \in Bytes /\ serial_rx_buf \in [Ring -> Bytes] /\ version \in [Blocks -> 0 .. LastVersion]
  BY ZeroAssumption, Sizes DEF Init
<1>5. /\ initial_value \in 0 .. Generations - 1
      /\ serial_rx_buf_rpos \in Ring /\ serial_rx_buf_cnt \in 0 .. Capacity
      /\ next_block \in 1 .. NumBlocks + 1
  BY Sizes DEF Init, Ring
<1>q. QED BY <1>1, <1>2, <1>3, <1>4, <1>5 DEF Init, Typed

LEMMA InitInv == Init => Inv
<1> SUFFICES ASSUME Init PROVE Inv
  OBVIOUS
<1>1. Typed
  BY InitTyped
<1>2. /\ phase = "boot" /\ polling = <<>> /\ todo = <<>> /\ screen = Blank
      /\ Calls
  BY DEF Init, Calls
<1>3. ~ Open /\ ~ Pending(Generation)
  BY <1>2 DEF Open, Connected, Pending
<1>4. CellInv /\ StaleIsNoticed
  BY <1>2 DEF CellInv, StaleIsNoticed, InMenu
<1>5. LinesAreWhole
  BY <1>2, Sizes DEF LinesAreWhole, Blank
<1>q. QED BY <1>1, <1>2, <1>3, <1>4, <1>5 DEF Inv, Preparing, TxInv, RxInv, LoadInv, ChangedInv

LEMMA StutterInv == Inv /\ UNCHANGED vars => Inv'
<1> SUFFICES ASSUME Inv, UNCHANGED vars PROVE Inv'
  OBVIOUS
<1>1. UNCHANGED <<area, ram, todo, signal, menu, served, taken>>
  BY DEF vars
<1> USE <1>1 DEF Inv, ram, rx, menu
<1>2. Typed'
  BY DEF Typed
<1>3. Calls' /\ Open' = Open
  BY DEF Calls, Open, Connected
<1>4. /\ \A f, v : /\ Keeps(f, v)' = Keeps(f, v)
                   /\ Settles(f, v)' = Settles(f, v)
                   /\ Turns(f, v)' = Turns(f, v)
      /\ \A f : Pending(f)' = Pending(f) /\ Calling(f)' = Calling(f)
      /\ \A f, g : Before(f, g)' = Before(f, g)
  BY DEF Keeps, Settles, Turns, Pending, Before, WritesOnly, WritesOnce, Calling
<1>5. /\ \A f, g : /\ Rest(f, g)' = Rest(f, g) /\ Taken(f, g)' = Taken(f, g)
                   /\ Seen(f, g)' = Seen(f, g) /\ Done(f, g)' = Done(f, g)
  BY <1>4 DEF Rest, Taken, Seen, Done
<1>6. Preparing'
  BY <1>3, <1>4 DEF Preparing
<1>7. TxInv'
  BY <1>3, <1>4, <1>5 DEF TxInv, TxRest, TxTaken, TxSeen, TxDone, TxOthers
<1>8. RxInv'
  BY <1>3, <1>4, <1>5 DEF RxInv, RxTold, RxRest, RxTaken, RxSeen, RxDone
<1>9. LoadInv'
  BY <1>3, <1>4, <1>5 DEF LoadInv, LoadRest, LoadTaken, LoadSeen, LoadDone, LoadOthers
<1>10. ChangedInv' /\ CellInv'
  BY <1>3, <1>4 DEF ChangedInv, CellInv, Unloaded, Signalled, Arriving, Arrived, Current
<1>11. LinesAreWhole' /\ StaleIsNoticed'
  BY DEF LinesAreWhole, StaleIsNoticed, InMenu, Fresh
<1>q. QED BY <1>2, <1>3, <1>6, <1>7, <1>8, <1>9, <1>10, <1>11

\* The handshakes go round their stages whenever the Minitel restarts, and what the menu
\* is told and draws stays consistent.
THEOREM Invariance == Spec => []Inv
<1>1. Inv /\ Next => Inv'
  BY TypedStep, CallsStep, PreparingStep, TxStep, RxStep, LoadStep, ChangedStep, CellStep,
     LinesStep, StaleStep
  DEF Inv
<1>2. Inv /\ [Next]_vars => Inv'
  BY <1>1, StutterInv
<1>q. QED BY InitInv, <1>2, PTL DEF Spec

\* Every variable and every field of the ROM keeps its type, and the byte queue never
\* holds more than its buffer.
THEOREM TypeCorrect == Spec => []TypeOK
<1>1. Inv => TypeOK
  <2> SUFFICES ASSUME Inv PROVE TypeOK
    OBVIOUS
  <2>1. Typed /\ Calls
    BY DEF Inv
  <2>2. /\ \A f \in Flags \cup {RxNonempty} : area[f] \in {0, 1}
        /\ area[Generation] \in 0 .. Generations - 1
        /\ area[DesiredState] \in DesiredStates
        /\ area[RxData] \in Bytes \cup {None, "?"}
        /\ \A f \in CellFields : area[f] \in (Blocks \X (0 .. LastVersion)) \cup {None}
    <3>1. \A f \in CellFields : f \in Fields
      BY DEF Fields
    <3>q. QED BY <2>1, <3>1, FieldTypes, ContentsOf DEF Typed
  <2>3. \A i \in 1 .. Len(todo) : DOMAIN todo[i] \subseteq DOMAIN area
    <3>1. \A i \in 1 .. Len(todo) : todo[i] \in Writings
      BY <2>1 DEF Typed
    <3>2. \A w \in Writings : DOMAIN w \subseteq Fields
      BY DEF Writings
    <3>q. QED BY <2>1, <3>1, <3>2 DEF Typed
  <2>4. phase \in {"boot", "top", "menu", "refresh", "draw", "keys", "error", "trampoline",
                   "client", "serial_in", "serial_out", "take"}
    BY <2>1 DEF Calls
  <2>5. \A i \in 1 .. Len(polling) : polling[i] \in Flags \cup {Generation}
    <3>1. \/ polling = <<>>
          \/ \E f \in Flags \cup {Generation} : polling = <<f>>
          \/ \E f, g \in Flags : polling = <<f, g>>
      BY <2>1, FieldTypes DEF Calls
    <3>q. QED BY <3>1
  <2>q. QED BY <2>1, <2>2, <2>3, <2>4, <2>5 DEF TypeOK, Typed
<1>q. QED BY <1>1, Invariance, PTL

\* The branches of magic_io_analyze_traces that recover from a Minitel that does not
\* follow the protocol are never needed.
THEOREM NoRecovery == Spec => []RecoveryNeverNeeded
<1>1. Inv => RecoveryNeverNeeded
  <2> SUFFICES ASSUME Inv PROVE RecoveryNeverNeeded
    OBVIOUS
  <2> USE DEF Inv
  <2>1. ASSUME NEW c \in Bytes, Sampled(Tx(c)) PROVE area[Tx(serial_tx_buf)] = 1
    <3>1. todo = <<>> /\ area[Tx(c)] = 1 /\ polling = <<Tx(c), TxAck>> /\ Open
      BY <2>1, Polled, Names
    <3>2. ASSUME NEW d \in Bytes, polling = <<Tx(d), TxAck>>, TxTaken(d) PROVE FALSE
      <4>1. d = c
        BY <3>1, <3>2, Names
      <4>q. QED BY <3>1, <3>2, <4>1, AnsweredOnce DEF TxTaken
    <3>3. TxRest
      BY <3>1, <3>2 DEF TxInv, Calling
    <3>q. QED BY <3>3 DEF TxRest, Keeps, Typed
  <2>2. ASSUME Sampled(RxLock) PROVE serial_rx_buf_cnt > 0
    <3>1. todo = <<>> /\ area[RxLock] = 1 /\ polling = <<RxLock>> /\ Open
      BY <2>2, Polled, Names
    <3>2. PICK n \in {0, 1} : RxTold(n) /\ ((RxRest(n) /\ n = 1) \/ RxTaken(n))
      BY <3>1 DEF RxInv, Calling
    <3>3. n = 1
      BY <3>1, <3>2, AnsweredOnce DEF RxTaken
    <3>q. QED BY <3>2, <3>3 DEF RxTold
  <2>3. ASSUME NEW b \in Blocks, Sampled(Load(b)) PROVE configuration_load_last_address = None
    <3>1. /\ todo = <<>> /\ area[Load(b)] = 1 /\ polling = <<Load(b), LoadAck>>
          /\ b = next_block /\ Open
      BY <2>3, Polled, Names
    <3>2. ASSUME NEW d \in Blocks, LoadTaken(d) PROVE FALSE
      <4>1. d = b
        BY <3>1, <3>2 DEF LoadTaken, LoadOthers
      <4>q. QED BY <3>1, <3>2, <4>1, AnsweredOnce DEF LoadTaken
    <3>3. LoadRest
      BY <3>1, <3>2 DEF LoadInv, Calling
    <3>q. QED BY <3>3 DEF LoadRest
  <2>4. ASSUME Sampled(LoadAck) PROVE configuration_load_last_address # None
    <3>1. todo = <<>> /\ area[LoadAck] = 1 /\ polling = <<LoadAck>> /\ Open
      BY <2>4, Polled, Names
    <3>2. PICK b \in Blocks : LoadSeen(b) \/ LoadDone(b)
      BY <3>1 DEF LoadInv, Calling
    <3>3. LoadSeen(b)
      BY <3>1, <3>2, AnsweredOnce DEF LoadDone
    <3>q. QED BY <3>3, NoneAssumption DEF LoadSeen, Blocks
  <2>q. QED BY <2>1, <2>2, <2>3, <2>4 DEF RecoveryNeverNeeded
<1>q. QED BY <1>1, Invariance, PTL

\* Each line of the menu is drawn from one version of the block it is for.
THEOREM WholeLines == Spec => []LinesAreWhole
<1>1. Inv => LinesAreWhole
  BY DEF Inv
<1>q. QED BY <1>1, Invariance, PTL

\* A line of the menu that is out of date has its change signalled.
THEOREM NoChangeMissed == Spec => []StaleIsNoticed
<1>1. Inv => StaleIsNoticed
  BY DEF Inv
<1>q. QED BY <1>1, Invariance, PTL

-----------------------------------------------------------------------------
(* The queue of bytes for the menu.                                        *)

\* The byte at a distance from the reading position.
LEMMA RingIndex ==
  ASSUME NEW p \in Ring, NEW k \in Nat, k <= Capacity
  PROVE  (p + k) % Capacity = IF p + k < Capacity THEN p + k ELSE p + k - Capacity
<1>1. CASE p + k < Capacity
  BY <1>1, Sizes DEF Ring
<1>2. CASE p + k >= Capacity
  <2>1. /\ (p + k) % Capacity \in 0 .. Capacity - 1 /\ (p + k) \div Capacity \in Nat
        /\ p + k = ((p + k) \div Capacity) * Capacity + ((p + k) % Capacity)
    BY Sizes DEF Ring
  <2> DEFINE q == (p + k) \div Capacity
             r == (p + k) % Capacity
  <2>2. p + k < 2 * Capacity
    BY Sizes DEF Ring
  <2>3. q * Capacity + r = p + k
    BY <2>1
  <2>4. q \in Nat /\ r \in 0 .. Capacity - 1
    BY <2>1
  <2> HIDE DEF q, r
  <2>5. q = 1
    <3>1. CASE q = 0
      <4>1. q * Capacity = 0
        BY <2>4, <3>1, Sizes
      <4>q. QED BY <1>2, <2>3, <2>4, <4>1, Sizes DEF Ring
    <3>2. CASE q >= 2
      <4>1. q * Capacity >= 2 * Capacity
        BY <2>4, <3>2, Sizes
      <4>q. QED BY <2>2, <2>3, <2>4, <4>1, Sizes DEF Ring
    <3>q. QED BY <2>4, <3>1, <3>2
  <2>6. r = p + k - Capacity
    BY <2>3, <2>4, <2>5, Sizes DEF Ring
  <2>q. QED BY <1>2, <2>6, Sizes DEF r, Ring
<1>q. QED BY <1>1, <1>2, Sizes DEF Ring

\* The same, for every position and distance.
LEMMA RingIndices ==
  \A p \in Ring, k \in 0 .. Capacity :
    (p + k) % Capacity = IF p + k < Capacity THEN p + k ELSE p + k - Capacity
<1> SUFFICES ASSUME NEW p \in Ring, NEW k \in 0 .. Capacity
             PROVE  (p + k) % Capacity = IF p + k < Capacity THEN p + k ELSE p + k - Capacity
  OBVIOUS
<1>1. k \in Nat /\ k <= Capacity
  BY Sizes
<1> HIDE DEF Ring
<1>q. QED BY <1>1, RingIndex

\* Different distances are different places.
LEMMA RingApart ==
  ASSUME NEW p \in Ring, NEW i \in 0 .. Capacity - 1, NEW j \in 0 .. Capacity - 1,
         (p + i) % Capacity = (p + j) % Capacity
  PROVE  i = j
<1>1. p \in Nat /\ p < Capacity /\ i \in 0 .. Capacity /\ j \in 0 .. Capacity
  BY Sizes DEF Ring
<1>2. /\ (p + i) % Capacity = IF p + i < Capacity THEN p + i ELSE p + i - Capacity
      /\ (p + j) % Capacity = IF p + j < Capacity THEN p + j ELSE p + j - Capacity
  BY <1>1, RingIndices
<1>q. QED BY <1>1, <1>2, Sizes

\* One byte further, from the next reading position.
LEMMA RingNext ==
  ASSUME NEW p \in Ring, NEW k \in 0 .. Capacity - 1
  PROVE  (((p + 1) % Capacity) + k) % Capacity = (p + (k + 1)) % Capacity
<1>1. /\ p \in Nat /\ p < Capacity /\ 1 \in 0 .. Capacity
      /\ k \in 0 .. Capacity /\ k + 1 \in 0 .. Capacity
  BY Sizes DEF Ring
<1>2. /\ (p + 1) % Capacity = IF p + 1 < Capacity THEN p + 1 ELSE p + 1 - Capacity
      /\ (p + (k + 1)) % Capacity = IF p + (k + 1) < Capacity THEN p + (k + 1)
                                    ELSE p + (k + 1) - Capacity
  BY <1>1, RingIndices
<1>3. CASE p + 1 < Capacity
  <2>1. (p + 1) % Capacity = p + 1
    BY <1>2, <1>3
  <2>2. p + 1 + k = p + (k + 1)
    BY <1>1
  <2>q. QED BY <2>1, <2>2
<1>4. CASE p + 1 = Capacity
  <2>1. 0 \in Ring
    BY Sizes DEF Ring
  <2>2. (0 + k) % Capacity = IF 0 + k < Capacity THEN 0 + k ELSE 0 + k - Capacity
    BY <1>1, <2>1, RingIndices
  <2>3. (p + 1) % Capacity = 0 /\ (p + (k + 1)) % Capacity = k
    BY <1>1, <1>2, <1>4, Sizes
  <2>q. QED BY <1>1, <2>2, <2>3, Sizes
<1>q. QED BY <1>1, <1>3, <1>4, Sizes

\* The n bytes from p on.
Window(buf, p, n) == [i \in 1 .. n |-> buf[(p + i - 1) % Capacity]]

\* It is a sequence of bytes.
LEMMA WindowType ==
  ASSUME NEW buf \in [Ring -> Bytes], NEW p \in Ring, NEW n \in 0 .. Capacity
  PROVE  /\ Window(buf, p, n) \in Seq(Bytes) /\ Len(Window(buf, p, n)) = n
         /\ \A i \in 1 .. n : Window(buf, p, n)[i] = buf[(p + (i - 1)) % Capacity]
<1>1. p \in Nat /\ n \in Nat
  BY Sizes DEF Ring
<1>2. \A i \in 1 .. n : p + i - 1 = p + (i - 1) /\ p + i - 1 \in Nat
  BY <1>1
<1>3. \A i \in 1 .. n : buf[(p + i - 1) % Capacity] \in Bytes
  BY <1>2, OnRing
<1>4. Window(buf, p, n) \in [1 .. n -> Bytes]
  BY <1>3 DEF Window
<1>5. Window(buf, p, n) \in Seq(Bytes) /\ Len(Window(buf, p, n)) = n
  BY <1>1, <1>4
<1>q. QED BY <1>2, <1>5 DEF Window

\* Taking the first byte.
LEMMA WindowMoved ==
  ASSUME NEW buf \in [Ring -> Bytes], NEW p \in Ring, NEW n \in 1 .. Capacity
  PROVE  /\ Window(buf, p, n) # <<>> /\ Head(Window(buf, p, n)) = buf[p]
         /\ Window(buf, (p + 1) % Capacity, n - 1) = Tail(Window(buf, p, n))
<1> DEFINE w == Window(buf, p, n)
           v == Window(buf, (p + 1) % Capacity, n - 1)
<1>1. /\ n \in 0 .. Capacity /\ n - 1 \in 0 .. Capacity /\ (p + 1) % Capacity \in Ring
      /\ p \in Nat /\ p < Capacity
  <2>1. p + 1 \in Nat
    BY Sizes DEF Ring
  <2>2. (p + 1) % Capacity \in Ring
    BY <2>1, OnRing
  <2>q. QED BY <2>2, Sizes DEF Ring
<1>2. /\ w \in Seq(Bytes) /\ Len(w) = n
      /\ \A i \in 1 .. n : w[i] = buf[(p + (i - 1)) % Capacity]
  BY <1>1, WindowType
<1>3. /\ v \in Seq(Bytes) /\ Len(v) = n - 1
      /\ \A i \in 1 .. n - 1 : v[i] = buf[(((p + 1) % Capacity) + (i - 1)) % Capacity]
  BY <1>1, WindowType
<1> HIDE DEF w, v
<1>4. (p + (1 - 1)) % Capacity = p
  BY <1>1, Sizes
<1>5. w # <<>> /\ Head(w) = buf[p]
  BY <1>2, <1>4, Sizes
<1>6. ASSUME NEW i \in 1 .. n - 1 PROVE v[i] = w[i + 1]
  <2>1. i - 1 \in 0 .. Capacity - 1 /\ i - 1 + 1 = i + 1 - 1 /\ i + 1 \in 1 .. n
    BY Sizes
  <2>2. (((p + 1) % Capacity) + (i - 1)) % Capacity = (p + (i - 1 + 1)) % Capacity
    BY <2>1, RingNext
  <2>3. w[i + 1] = buf[(p + (i + 1 - 1)) % Capacity]
    BY <1>2, <2>1
  <2>4. v[i] = buf[(((p + 1) % Capacity) + (i - 1)) % Capacity]
    BY <1>3
  <2>q. QED BY <2>1, <2>2, <2>3, <2>4
<1>7. Tail(w) \in Seq(Bytes) /\ Len(Tail(w)) = n - 1 /\ \A i \in 1 .. n - 1 : Tail(w)[i] = w[i + 1]
  BY <1>2, <1>5, Sizes
<1>8. v = Tail(w)
  BY <1>3, <1>6, <1>7
<1>q. QED BY <1>5, <1>8 DEF w, v

\* buf with the first k bytes of an answer put behind the n there are.
Filled(new, buf, p, n, answer, k) ==
  \A q \in Ring : new[q] = IF \E i \in 1 .. k : (p + n + i - 1) % Capacity = q
                           THEN answer[CHOOSE i \in 1 .. k : (p + n + i - 1) % Capacity = q]
                           ELSE buf[q]

\* Putting k bytes of an answer behind those there are.
LEMMA WindowFilled ==
  ASSUME NEW buf \in [Ring -> Bytes], NEW new \in [Ring -> Bytes], NEW p \in Ring,
         NEW n \in 0 .. Capacity, NEW answer \in Seq(Bytes), NEW k \in 0 .. Len(answer),
         n + k <= Capacity, Filled(new, buf, p, n, answer, k)
  PROVE  Window(new, p, n + k) = Window(buf, p, n) \o SubSeq(answer, 1, k)
<1> DEFINE w == Window(buf, p, n)
           v == Window(new, p, n + k)
           more == SubSeq(answer, 1, k)
<1>1. /\ p \in Nat /\ n \in Nat /\ k \in Nat /\ n + k \in 0 .. Capacity
  BY Sizes DEF Ring
<1>2. /\ w \in Seq(Bytes) /\ Len(w) = n
      /\ \A i \in 1 .. n : w[i] = buf[(p + (i - 1)) % Capacity]
  BY WindowType
<1>3. /\ v \in Seq(Bytes) /\ Len(v) = n + k
      /\ \A i \in 1 .. n + k : v[i] = new[(p + (i - 1)) % Capacity]
  BY <1>1, WindowType
<1>4. more \in Seq(Bytes) /\ Len(more) = k /\ \A i \in 1 .. k : more[i] = answer[i]
  BY <1>1
<1> HIDE DEF w, v, more
<1>5. /\ w \o more \in Seq(Bytes) /\ Len(w \o more) = n + k
      /\ \A i \in 1 .. n : (w \o more)[i] = w[i]
      /\ \A i \in n + 1 .. n + k : (w \o more)[i] = more[i - n]
  BY <1>1, <1>2, <1>4
<1>6. ASSUME NEW j \in 0 .. Capacity - 1, NEW i \in 1 .. k,
             (p + n + i - 1) % Capacity = (p + j) % Capacity
      PROVE  j = n + (i - 1)
  <2>1. p + n + i - 1 = p + (n + (i - 1)) /\ n + (i - 1) \in 0 .. Capacity - 1
    BY <1>1, Sizes
  <2>q. QED BY <1>6, <2>1, RingApart
<1>7. ASSUME NEW i \in 1 .. n PROVE v[i] = w[i]
  <2>1. i - 1 \in 0 .. Capacity - 1 /\ i \in 1 .. n + k /\ p + (i - 1) \in Nat
    BY <1>1, Sizes
  <2>2. (p + (i - 1)) % Capacity \in Ring
    BY <2>1, OnRing
  <2>3. \A m \in 1 .. k : (p + n + m - 1) % Capacity # (p + (i - 1)) % Capacity
    <3>1. \A m \in 1 .. k : i - 1 # n + (m - 1)
      BY <1>1
    <3>q. QED BY <1>6, <2>1, <3>1
  <2>q. QED BY <1>2, <1>3, <2>1, <2>2, <2>3 DEF Filled
<1>8. ASSUME NEW i \in n + 1 .. n + k PROVE v[i] = more[i - n]
  <2>1. /\ i - 1 \in 0 .. Capacity - 1 /\ i \in 1 .. n + k /\ p + (i - 1) \in Nat
        /\ i - n \in 1 .. k /\ p + n + (i - n) - 1 = p + (i - 1)
    BY <1>1, Sizes
  <2> DEFINE q == (p + (i - 1)) % Capacity
  <2>2. q \in Ring
    BY <2>1, OnRing
  <2>3. (p + n + (i - n) - 1) % Capacity = q
    BY <2>1
  <2>4. \A m \in 1 .. k : (p + n + m - 1) % Capacity = q => m = i - n
    <3>1. \A m \in 1 .. k : i - 1 = n + (m - 1) => m = i - n
      BY <1>1
    <3>q. QED BY <1>6, <2>1, <3>1
  <2>5. v[i] = new[q]
    BY <1>3, <2>1
  <2> HIDE DEF q
  <2>6. (CHOOSE m \in 1 .. k : (p + n + m - 1) % Capacity = q) = i - n
    BY <2>1, <2>3, <2>4
  <2>7. new[q] = answer[i - n]
    BY <2>1, <2>2, <2>3, <2>6 DEF Filled
  <2>q. QED BY <1>4, <2>1, <2>5, <2>7
<1>9. \A i \in 1 .. n + k : v[i] = (w \o more)[i]
  <2>1. \A i \in 1 .. n + k : i \in 1 .. n \/ i \in n + 1 .. n + k
    BY <1>1
  <2>q. QED BY <1>5, <1>7, <1>8, <2>1
<1>10. v = w \o more
  <2> DEFINE u == w \o more
  <2>1. u \in Seq(Bytes) /\ Len(u) = n + k /\ \A i \in 1 .. n + k : v[i] = u[i]
    BY <1>5, <1>9
  <2> HIDE DEF u
  <2>2. v = u
    BY <1>3, <2>1
  <2>q. QED BY <2>2 DEF u
<1>q. QED BY <1>10 DEF v, w, more

-----------------------------------------------------------------------------
(* The requests of the menu.                                               *)

\* The call the menu is in makes no request; it makes request r and has a field to
\* poll before the last; it makes r and polls the last one, g.
Quiet ==
  \/ polling \in {<<>>, <<Generation>>, <<Changed>>, <<RxLock>>, <<RxUnlock>>, <<LoadAck>>}
  \/ \E b \in Blocks : polling = <<Load(b), LoadAck>>
Starts(r) ==
  \/ polling = <<Sync1, Sync2>> /\ r = <<"client">>
  \/ \E c \in Bytes : polling = <<Tx(c), TxAck>> /\ r = <<"serial", c>>
Ends(g, r) ==
  \/ \E s \in Slots : polling = <<g>> /\ g = Boot(s) /\ r = <<"boot", s>>
  \/ polling = <<g>> /\ g = Sync2 /\ r = <<"client">>
  \/ polling = <<g>> /\ g = TxAck /\ r = <<"serial", serial_tx_buf>>

\* The field and the request that go together.
Asks(g, r) ==
  \/ \E s \in Slots : g = Boot(s) /\ r = <<"boot", s>>
  \/ g = Sync2 /\ r = <<"client">>
  \/ \E c \in Bytes : g = TxAck /\ r = <<"serial", c>>

\* Requests differ from each other, from blocks and from None.
LEMMA RequestNames ==
  /\ \A r \in Requests : r # None /\ \A b : r # <<"block", b>>
  /\ \A s \in Slots : <<"boot", s>> \in Requests
  /\ <<"client">> \in Requests
  /\ \A c \in Bytes : <<"serial", c>> \in Requests
  /\ \A x, y : /\ <<"boot", x>> # <<"client">> /\ <<"boot", x>> # <<"serial", y>>
               /\ <<"serial", x>> # <<"client">>
               /\ (<<"boot", x>> = <<"boot", y>> => x = y)
               /\ (<<"serial", x>> = <<"serial", y>> => x = y)
BY NoneAssumption DEF Requests

\* The menu makes at most one request, in one of these ways.
LEMMA Shapes ==
  ASSUME Calls, Typed
  PROVE  Quiet \/ \E r \in Requests : Starts(r) \/ \E g \in Flags : Ends(g, r)
<1>1. CASE \E s \in Slots : polling = <<Boot(s)>>
  BY <1>1, RequestNames, FieldTypes DEF Ends
<1>2. CASE polling = <<Sync2>>
  BY <1>2, RequestNames, FieldTypes DEF Ends
<1>3. CASE polling = <<TxAck>>
  BY <1>3, RequestNames, FieldTypes DEF Ends, Typed
<1>4. CASE polling = <<Sync1, Sync2>> \/ \E c \in Bytes : polling = <<Tx(c), TxAck>>
  BY <1>4, RequestNames DEF Starts
<1>5. CASE Quiet
  BY <1>5
<1>q. QED BY <1>1, <1>2, <1>3, <1>4, <1>5 DEF Calls, Quiet

\* What the menu is asking, by the call it is in.
AskingTable ==
  /\ Quiet => Asking = <<>>
  /\ \A r \in Requests : Starts(r) => Asking = <<r>>
  /\ \A r \in Requests : \A g : Ends(g, r) =>
       Asking = IF area[g] = 0 \/ signal = r THEN <<>> ELSE <<r>>

\* Asking follows from the call, now and in the next state.
LEMMA AskingIs == AskingTable
<1>1. ASSUME Quiet PROVE Asking = <<>>
  <2>1. CASE polling = <<>>
    BY <2>1 DEF Asking
  <2>2. CASE polling # <<>>
    <3>1. /\ polling[Len(polling)] \in {Generation, Changed, RxLock, RxUnlock, LoadAck}
      BY <1>1, <2>2 DEF Quiet
    <3>2. /\ polling[Len(polling)] \notin BootFields
          /\ polling[Len(polling)] # Sync2 /\ polling[Len(polling)] # TxAck
      BY <3>1, Names DEF BootFields
    <3>q. QED BY <2>2, <3>2 DEF Asking
  <2>q. QED BY <2>1, <2>2
<1>2. ASSUME NEW r \in Requests, Starts(r) PROVE Asking = <<r>>
  <2>1. CASE polling = <<Sync1, Sync2>> /\ r = <<"client">>
    <3>1. polling # <<>> /\ Len(polling) = 2 /\ polling[Len(polling)] = Sync2
          /\ Sync2 \notin BootFields /\ Sync2 # TxAck
      BY <2>1, Names DEF BootFields
    <3>q. QED BY <2>1, <3>1, RequestNames DEF Asking
  <2>2. CASE \E c \in Bytes : polling = <<Tx(c), TxAck>> /\ r = <<"serial", c>>
    <3>1. PICK c \in Bytes : polling = <<Tx(c), TxAck>> /\ r = <<"serial", c>>
      BY <2>2
    <3>2. polling # <<>> /\ Len(polling) = 2 /\ polling[Len(polling)] = TxAck
          /\ TxAck \notin BootFields /\ TxAck # Sync2 /\ polling[1][2] = c
      BY <3>1, Names DEF BootFields
    <3>q. QED BY <3>1, <3>2, RequestNames DEF Asking
  <2>q. QED BY <1>2, <2>1, <2>2 DEF Starts
<1>3. ASSUME NEW r \in Requests, NEW g, Ends(g, r)
      PROVE  Asking = IF area[g] = 0 \/ signal = r THEN <<>> ELSE <<r>>
  <2>1. polling = <<g>>
    BY <1>3 DEF Ends
  <2>2. polling # <<>> /\ Len(polling) = 1 /\ polling[Len(polling)] = g /\ 1 # 2
    BY <2>1
  <2>3. CASE \E s \in Slots : g = Boot(s) /\ r = <<"boot", s>>
    <3>1. g \in BootFields /\ r = <<"boot", g[2]>> /\ g # Sync2 /\ g # TxAck
      BY <2>3, Names DEF BootFields
    <3>q. QED BY <2>2, <3>1, RequestNames DEF Asking
  <2>4. CASE g = Sync2 /\ r = <<"client">>
    <3>1. g \notin BootFields /\ g # TxAck
      BY <2>4, Names DEF BootFields
    <3>q. QED BY <2>2, <2>4, <3>1, RequestNames DEF Asking
  <2>5. CASE g = TxAck /\ r = <<"serial", serial_tx_buf>>
    <3>1. g \notin BootFields /\ g # Sync2
      BY <2>5, Names DEF BootFields
    <3>q. QED BY <2>2, <2>5, <3>1, RequestNames DEF Asking
  <2>q. QED BY <1>3, <2>3, <2>4, <2>5 DEF Ends
<1>q. QED BY <1>1, <1>2, <1>3 DEF AskingTable

LEMMA AskingStays == AskingTable'
BY AskingIs, PTL

-----------------------------------------------------------------------------
(* What the refinement needs besides: the firmware's and the menu's halves *)
(* of a request meet.                                                      *)

Still(f) == \E v \in {0, 1} : Keeps(f, v)

\* magic_io_user_requested_client_mode.
SyncInv ==
  Open =>
    IF ~ Calling(Sync2) THEN Rest(Sync1, Sync2)
    ELSE IF Len(polling) = 2 THEN Rest(Sync1, Sync2) \/ Taken(Sync1, Sync2)
    ELSE Seen(Sync1, Sync2) \/ Done(Sync1, Sync2)

\* A boot field has a write to come only while the menu polls it.
BootInv == Open => \A s \in Slots : polling = <<Boot(s)>> \/ Still(Boot(s))

\* A request in the firmware's hands: its last field is cleared, or about to be.
SignalInv ==
  \A g \in Flags, r \in Requests :
    Asks(g, r) /\ signal = r =>
      Turns(g, 0) /\ (g = TxAck => r = <<"serial", serial_tx_buf>>)

\* What the menu polls last has a write to come only when the firmware has the request.
EndsInv ==
  \A g \in Flags, r \in Requests : Ends(g, r) => Still(g) \/ signal = r

\* The menu is handed the byte that was taken from the queue for it, and no other.
Handing(v) ==
  taken = v /\ v # None /\ Turns(RxLock, 0) /\ Settles(RxData, v) /\ Before(RxData, RxLock)
Handed(v) == taken = v /\ v # None /\ Keeps(RxData, v)
HeldInv ==
  Open =>
    IF Calling(RxLock)
    THEN (taken = None /\ Keeps(RxLock, 1)) \/ \E v \in Bytes \cup {"?"} : Handing(v)
    ELSE IF phase = "take" THEN \E v \in Bytes \cup {"?"} : Handed(v)
    ELSE taken = None
AwayInv == ~ Connected => taken = None

\* When the generation has changed magic_io_prepare_rom is done.
ReadyInv ==
  polling = <<Generation>> /\ area[Generation] # initial_value =>
    todo = <<>> /\ signal = None /\ serial_rx_buf_cnt = 0

\* What a step of the menu does to the request it is making.
LEMMA MenuAsks ==
  ASSUME Calls, MenuSteps
  PROVE  \/ PollDone
         \/ MinitelReset
         \/ /\ polling = <<>>
            /\ \/ Quiet' \/ PressClient
               \/ \E s \in Slots : PressBoot(s)
               \/ \E c \in Bytes : TxByte(c)
<1>1. CASE Reset \/ RxByte \/ RxTake
  BY <1>1 DEF Reset, RxByte, RxTake, At, Poll, Quiet
<1>2. CASE Dispatch \/ Loop \/ Draw \/ NoTxByte \/ NoRxByte
  BY <1>2 DEF Dispatch, Loop, Draw, NoTxByte, NoRxByte, At, Quiet
<1>3. CASE TestChanged
  BY <1>3 DEF TestChanged, At, Poll, Quiet
<1>4. CASE GetConfiguration
  <2>1. polling = <<>> /\ next_block \in Blocks /\ polling' = <<Load(next_block), LoadAck>>
    BY <1>4 DEF GetConfiguration, At, Poll, Calls
  <2>q. QED BY <2>1 DEF Quiet
<1>5. CASE PressClient \/ (\E s \in Slots : PressBoot(s)) \/ \E c \in Bytes : TxByte(c)
  BY <1>5 DEF PressClient, PressBoot, TxByte, At
<1>q. QED BY <1>1, <1>2, <1>3, <1>4, <1>5 DEF MenuSteps, MenuStep

\* With no writes left a flag keeps what it holds.
LEMMA StillNow ==
  ASSUME Typed, todo = <<>>, NEW f \in Flags
  PROVE  Still(f)
<1>1. area[f] \in {0, 1}
  BY FieldTypes DEF Typed
<1>2. Keeps(f, area[f])
  BY NothingLeft
<1>q. QED BY <1>1, <1>2 DEF Still

\* The same, in the next state.
LEMMA StillNext ==
  ASSUME Typed', todo' = <<>>, NEW f \in Flags
  PROVE  Still(f)'
<1>1. area'[f] \in {0, 1}
  BY FieldTypes DEF Typed
<1>2. PICK v \in {0, 1} : area'[f] = v
  BY <1>1
<1>3. Keeps(f, v)'
  BY <1>2 DEF Keeps, WritesOnly
<1>q. QED BY <1>3 DEF Still

LEMMA StillKept ==
  ASSUME Typed, NEW f \in Flags, Spares(f), Still(f)
  PROVE  Still(f)'
<1>1. PICK v \in {0, 1} : Keeps(f, v)
  BY DEF Still
<1>2. f \in Fields
  BY FieldTypes
<1>3. Keeps(f, v)'
  BY <1>1, <1>2, SparesField DEF Typed
<1>q. QED BY <1>3 DEF Still

\* A field cannot both keep 1 and be turned to 0.
LEMMA KeepsOrTurns ==
  ASSUME NEW f, Keeps(f, 1), Turns(f, 0)
  PROVE  FALSE
BY DEF Keeps, Turns, WritesOnly, Pending

\* The conjuncts of the invariant, one by one, under every step.
LEMMA SyncStep ==
  ASSUME Typed, Calls, Preparing, SyncInv, Next
  PROVE  SyncInv'
<1>1. SUFFICES ASSUME Open' PROVE SyncInv'
  BY DEF SyncInv
<1>a. Sync1 # Sync2 /\ {Sync1, Sync2} \subseteq Fields
  BY Names, FieldTypes
<1>b. ASSUME Spares(Sync1), Spares(Sync2)
      PROVE  /\ Rest(Sync1, Sync2) => Rest(Sync1, Sync2)'
             /\ Taken(Sync1, Sync2) => Taken(Sync1, Sync2)'
             /\ Seen(Sync1, Sync2) => Seen(Sync1, Sync2)'
             /\ Done(Sync1, Sync2) => Done(Sync1, Sync2)'
  BY <1>a, <1>b, SparesStages DEF Typed
<1>2. CASE Opening
  <2>1. ~ Calling(Sync2)'
    BY <1>2, Names DEF Opening, Calling
  <2>2. Rest(Sync1, Sync2)'
    BY <1>2 DEF Opening, Ones, Zeros, Rest
  <2>q. QED BY <2>1, <2>2 DEF SyncInv
<1>3. CASE Open /\ HandleSync1
  <2>1. todo = <<>> /\ area[Sync1] = 1 /\ polling = <<Sync1, Sync2>>
    BY <1>3, Polled, HandlersSample, Names
  <2>2. Calling(Sync2) /\ Len(polling) = 2
    BY <2>1 DEF Calling
  <2>3. Rest(Sync1, Sync2)
    BY <1>3, <2>1, <2>2, AnsweredOnce DEF SyncInv
  <2>4. area' = area /\ polling' = polling /\ todo' = <<Write(Sync2, 1), Write(Sync1, 0)>>
    BY <1>3 DEF HandleSync1, Do, menu
  <2>5. 0 \in Nat /\ Len(todo') = 0 + 2
        /\ todo'[0 + 1] = Write(Sync2, 1) /\ todo'[0 + 2] = Write(Sync1, 0)
        /\ \A i \in 1 .. 0 : Sync1 \notin DOMAIN todo'[i] /\ Sync2 \notin DOMAIN todo'[i]
    BY <2>4
  <2>6. Taken(Sync1, Sync2)'
    BY <1>a, <2>1, <2>3, <2>4, <2>5, FirstHandled
  <2>q. QED BY <2>2, <2>4, <2>6 DEF SyncInv, Calling
<1>4. CASE Open /\ HandleSync2
  <2>1. todo = <<>> /\ area[Sync2] = 1 /\ polling = <<Sync2>>
    BY <1>4, Polled, HandlersSample, Names
  <2>2. Calling(Sync2) /\ Len(polling) # 2
    BY <2>1 DEF Calling
  <2>3. Seen(Sync1, Sync2)
    BY <1>4, <2>1, <2>2, AnsweredOnce DEF SyncInv
  <2>4. area' = area /\ polling' = polling /\ todo' = <<Write(Sync1, 1), Write(Sync2, 0)>>
    BY <1>4 DEF HandleSync2, Do, menu
  <2>5. Len(todo') = 2 /\ todo'[1] = Write(Sync1, 1) /\ todo'[2] = Write(Sync2, 0)
    BY <2>4
  <2>6. Done(Sync1, Sync2)'
    BY <1>a, <2>1, <2>3, <2>4, <2>5, SecondHandled
  <2>q. QED BY <2>2, <2>4, <2>6 DEF SyncInv, Calling
<1>5. CASE Open /\ MenuSteps
  <2>1. Spares(Sync1) /\ Spares(Sync2)
    BY <1>5, MenuLeaves DEF firmware, Spares, Untouched
  <2>2. CASE PollDone
    <3>1. CASE ~ Calling(Sync2)
      <4>1. ~ Calling(Sync2)'
        BY <3>1, <2>2, PollEnds DEF Calling
      <4>q. QED BY <1>5, <1>b, <2>1, <3>1, <4>1 DEF SyncInv
    <3>2. CASE Calling(Sync2) /\ Len(polling) = 2
      <4>1. PICK f : polling = <<f, Sync2>> /\ polling' = <<Sync2>> /\ ~ Waiting(f)
        BY <2>2, <3>2, PollEnds DEF Calling
      <4>2. f = Sync1
        BY <4>1, Names DEF Calls
      <4>3. area[Sync1] = 0
        BY <4>1, <4>2, Names DEF Waiting
      <4>4. Taken(Sync1, Sync2)
        BY <1>5, <3>2, <4>3 DEF SyncInv, Rest, Keeps
      <4>5. Seen(Sync1, Sync2)
        BY <4>3, <4>4, FirstCleared
      <4>6. Calling(Sync2)' /\ Len(polling') # 2
        BY <4>1 DEF Calling
      <4>q. QED BY <1>b, <2>1, <4>5, <4>6 DEF SyncInv
    <3>3. CASE Calling(Sync2) /\ Len(polling) # 2
      <4>1. polling = <<Sync2>> /\ polling' = <<>> /\ ~ Waiting(Sync2)
        BY <2>2, <3>3, PollEnds DEF Calling
      <4>2. area[Sync2] = 0
        BY <4>1, Names DEF Waiting
      <4>3. Done(Sync1, Sync2)
        BY <1>5, <3>3, <4>2 DEF SyncInv, Seen, Keeps
      <4>4. Rest(Sync1, Sync2)
        BY <4>2, <4>3, SecondCleared
      <4>5. ~ Calling(Sync2)'
        BY <4>1 DEF Calling
      <4>q. QED BY <1>b, <2>1, <4>4, <4>5 DEF SyncInv
    <3>q. QED BY <3>1, <3>2, <3>3
  <2>3. CASE ~ PollDone
    <3>1. ~ MinitelReset
      BY <1>1 DEF MinitelReset, Go, Open, Connected
    <3>2. polling = <<>>
      BY <1>5, <2>3, <3>1, MenuAsks
    <3>3. ~ Calling(Sync2)' \/ Len(polling') = 2
      BY <1>5, <2>3, <3>1, MenuAsks, Names
         DEF Quiet, PressClient, PressBoot, TxByte, Poll, Calling
    <3>q. QED BY <1>5, <1>b, <2>1, <3>2, <3>3 DEF SyncInv, Calling
  <2>q. QED BY <2>2, <2>3
<1>6. CASE Open /\ ~ MenuSteps /\ ~ HandleSync1 /\ ~ HandleSync2
  <2>1. UNCHANGED menu
    BY <1>6, FirmwareLeavesMenu DEF Next, User, MenuSteps
  <2>2. ~ HandleReset
    BY <1>6, HandlersSample, Polled
  <2>3. Spares(Sync1) /\ Spares(Sync2)
    BY <1>6, <2>2, Sparing, GroupsApart DEF SparesAllBut, SyncGroup
  <2>4. SyncInv
    OBVIOUS
  <2>q. QED BY <1>6, <1>b, <2>1, <2>3, <2>4 DEF SyncInv, Calling, menu
<1>q. QED BY <1>1, <1>2, <1>3, <1>4, <1>5, <1>6, Opens

\* A handler has the clearing of the field it answers to do last.
LEMMA LastTurns ==
  ASSUME NEW f, NEW n \in Nat, Len(todo') = n + 1, todo'[n + 1] = Write(f, 0), area'[f] = 1,
         \A i \in 1 .. n : f \notin DOMAIN todo'[i]
  PROVE  Turns(f, 0)'
<1>1. \A i \in 1 .. Len(todo') : f \in DOMAIN todo'[i] <=> i = n + 1
  BY DEF Write
<1>2. n + 1 \in 1 .. Len(todo') /\ todo'[n + 1][f] = 0
  BY DEF Write
<1>3. (WritesOnly(f, 0) /\ WritesOnce(f) /\ Pending(f))'
  BY <1>1, <1>2 DEF WritesOnly, WritesOnce, Pending
<1>q. QED BY <1>3 DEF Turns

\* The fields that requests end with belong to three groups.
LEMMA AskedFields ==
  ASSUME Typed, NEW g, NEW r, Ends(g, r) \/ Asks(g, r)
  PROVE  /\ g \in Fields \ (RxGroup \cup LoadGroup \cup CellFields
                            \cup {Generation, Changed, DesiredState})
         /\ g \in BootFields => g \notin SyncGroup \cup TxGroup
         /\ g = Sync2 => g \notin BootFields \cup TxGroup
         /\ g = TxAck => g \notin BootFields \cup SyncGroup
         /\ g \in BootFields \/ g = Sync2 \/ g = TxAck
<1>1. g \in BootFields \/ g = Sync2 \/ g = TxAck
  BY DEF Ends, Asks, BootFields
<1>2. Sync2 \in SyncGroup /\ TxAck \in TxGroup
  BY DEF SyncGroup, TxGroup
<1>q. QED BY <1>1, <1>2, GroupsApart

LEMMA SignalStep ==
  ASSUME Typed, Calls, SignalInv, Next
  PROVE  SignalInv'
<1>1. SUFFICES ASSUME NEW g \in Flags, NEW r \in Requests, Asks(g, r), signal' = r
               PROVE  Turns(g, 0)' /\ (g = TxAck => r = <<"serial", serial_tx_buf'>>)
  BY DEF SignalInv, Asks
<1>2. r # None /\ \A b : r # <<"block", b>>
  BY RequestNames
<1>3. CASE Spares(g) /\ signal' = signal /\ serial_tx_buf' = serial_tx_buf
  <2>1. Turns(g, 0) /\ (g = TxAck => r = <<"serial", serial_tx_buf>>)
    BY <1>1, <1>3 DEF SignalInv
  <2>2. Turns(g, 0)'
    BY <1>3, <2>1, SparesField, FieldTypes DEF Typed
  <2>q. QED BY <1>3, <2>1, <2>2
<1>4. ASSUME NEW s \in Slots, HandleBoot(s)
      PROVE  Turns(g, 0)' /\ (g = TxAck => r = <<"serial", serial_tx_buf'>>)
  <2>1. signal' = <<"boot", s>> /\ todo' = <<Write(Boot(s), 0)>> /\ area' = area
    BY <1>4 DEF HandleBoot, Do, Return
  <2>2. area[Boot(s)] = 1
    BY <1>4, Polled, HandlersSample, Names
  <2>3. g = Boot(s) /\ g # TxAck
    BY <1>1, <2>1, RequestNames, Names DEF Asks
  <2>4. 0 \in Nat /\ Len(todo') = 0 + 1 /\ todo'[0 + 1] = Write(g, 0)
        /\ \A i \in 1 .. 0 : g \notin DOMAIN todo'[i]
    BY <2>1, <2>3
  <2>q. QED BY <2>1, <2>2, <2>3, <2>4, LastTurns
<1>5. ASSUME HandleSync2
      PROVE  Turns(g, 0)' /\ (g = TxAck => r = <<"serial", serial_tx_buf'>>)
  <2>1. signal' = <<"client">> /\ todo' = <<Write(Sync1, 1), Write(Sync2, 0)>> /\ area' = area
    BY <1>5 DEF HandleSync2, Do, Return
  <2>2. area[Sync2] = 1
    BY <1>5, Polled, HandlersSample, Names
  <2>3. g = Sync2 /\ g # TxAck /\ g # Sync1
    BY <1>1, <2>1, RequestNames, Names DEF Asks
  <2>4. 1 \in Nat /\ Len(todo') = 1 + 1 /\ todo'[1 + 1] = Write(g, 0)
        /\ \A i \in 1 .. 1 : g \notin DOMAIN todo'[i]
    BY <2>1, <2>3 DEF Write
  <2>q. QED BY <2>1, <2>2, <2>3, <2>4, LastTurns
<1>6. ASSUME HandleTxAck
      PROVE  Turns(g, 0)' /\ (g = TxAck => r = <<"serial", serial_tx_buf'>>)
  <2>1. /\ signal' = <<"serial", serial_tx_buf>> /\ area' = area
        /\ serial_tx_buf' = serial_tx_buf
        /\ todo' = <<Write(Tx(serial_tx_buf), 1), Write(TxAck, 0)>>
    BY <1>6 DEF HandleTxAck, Do, Return, ram
  <2>2. area[TxAck] = 1
    BY <1>6, Polled, HandlersSample, Names
  <2>3. g = TxAck /\ g # Tx(serial_tx_buf)
    BY <1>1, <2>1, RequestNames, Names DEF Asks
  <2>4. 1 \in Nat /\ Len(todo') = 1 + 1 /\ todo'[1 + 1] = Write(g, 0)
        /\ \A i \in 1 .. 1 : g \notin DOMAIN todo'[i]
    BY <2>1, <2>3 DEF Write
  <2>5. Turns(g, 0)'
    BY <2>1, <2>2, <2>3, <2>4, LastTurns
  <2>q. QED BY <1>1, <2>1, <2>5
<1>7. CASE HandleReset \/ HandleSync1 \/ (\E c \in Bytes : HandleTx(c)) \/ HandleRxLock
           \/ HandleRxUnlock \/ HandleChanged \/ HandleLoadAck
  <2>1. signal = None /\ signal' = signal
    BY <1>7 DEF HandleReset, HandleSync1, HandleTx, HandleRxLock, HandleRxUnlock, HandleChanged,
                HandleLoadAck, Sampled, Idle, ReturnNothing
  <2>q. QED BY <1>1, <1>2, <2>1
<1>8. CASE \E b \in Blocks : HandleLoad(b)
  BY <1>1, <1>2, <1>8 DEF HandleLoad, Return
<1>9. CASE UserRequestedBoot \/ UserRequestedClientMode \/ SerialRx \/ ConfigurationData
  <2>1. signal' = None
    BY <1>9 DEF UserRequestedBoot, UserRequestedClientMode, SerialRx, ConfigurationData, Acted
  <2>q. QED BY <1>1, <1>2, <2>1
<1>10. CASE BootCommand \/ \E b \in Blocks : ConfigurationChanges(b)
  <2>1. signal' = signal /\ serial_tx_buf' = serial_tx_buf /\ todo' = todo
        /\ \A f \in Fields \ {DesiredState, Changed} : area'[f] = area[f]
    BY <1>10 DEF BootCommand, ConfigurationChanges, AcceptBoot, Typed
  <2>2. Spares(g)
    BY <1>1, <2>1, AskedFields DEF Spares, Untouched
  <2>q. QED BY <1>3, <2>1, <2>2
<1>11. CASE WriteNext \/ MenuSteps
  <2>1. signal' = signal /\ serial_tx_buf' = serial_tx_buf /\ Spares(g)
    BY <1>11, MenuLeaves DEF WriteNext, firmware, ram, Spares, Untouched
  <2>q. QED BY <1>3, <2>1
<1>q. QED BY <1>4, <1>5, <1>6, <1>7, <1>8, <1>9, <1>10, <1>11
          DEF Next, Firmware, AnalyzeTraces, User, MenuSteps

\* The steps that leave the field alone with which a request ends.
LEMMA AskedSpared ==
  ASSUME Typed, Next, NEW g, NEW r, Ends(g, r) \/ Asks(g, r), ~ HandleReset,
         g \in BootFields => ~ \E s \in Slots : HandleBoot(s),
         g = Sync2 => ~ HandleSync1 /\ ~ HandleSync2,
         g = TxAck => ~ HandleTxAck /\ ~ \E c \in Bytes : HandleTx(c)
  PROVE  Spares(g)
BY Sparing, AskedFields DEF SparesAllBut

LEMMA EndsStep ==
  ASSUME Typed, Calls, TxInv, SyncInv, BootInv, EndsInv, Next
  PROVE  EndsInv'
<1>1. SUFFICES ASSUME NEW g \in Flags, NEW r \in Requests, Ends(g, r)'
               PROVE  Still(g)' \/ signal' = r
  BY DEF EndsInv
<1>2. /\ polling' = <<g>> /\ (g \in BootFields \/ g = Sync2 \/ g = TxAck)
  BY <1>1 DEF Ends, BootFields
<1>3. CASE MenuSteps
  <2>1. Spares(g)
    BY <1>3, MenuLeaves DEF firmware, Spares, Untouched
  <2>2. SUFFICES Still(g)
    BY <2>1, StillKept
  <2>3. CASE PollDone
    <3>1. PICK f : polling = <<f, g>> /\ ~ Waiting(f)
      BY <1>2, <2>3, PollEnds
    <3>2. (f = Sync1 /\ g = Sync2) \/ (g = TxAck /\ \E c \in Bytes : f = Tx(c))
      BY <1>2, <3>1, Names DEF Calls, BootFields
    <3>3. Open /\ area[f] = 0 /\ Calling(g) /\ Len(polling) = 2
      BY <3>1, <3>2, Names DEF Calls, Open, Connected, Waiting, Calling
    <3>4. CASE f = Sync1 /\ g = Sync2
      <4>1. Taken(Sync1, Sync2)
        BY <3>3, <3>4 DEF SyncInv, Rest, Keeps
      <4>2. Seen(Sync1, Sync2)
        BY <3>3, <3>4, <4>1, FirstCleared
      <4>q. QED BY <3>4, <4>2 DEF Seen, Still
    <3>5. CASE g = TxAck /\ \E c \in Bytes : f = Tx(c)
      <4>1. PICK c \in Bytes : f = Tx(c)
        BY <3>5
      <4>2. ~ TxRest
        BY <3>3, <4>1 DEF TxRest, Keeps
      <4>3. PICK d \in Bytes : polling = <<Tx(d), TxAck>> /\ TxTaken(d)
        BY <3>3, <3>5, <4>2 DEF TxInv
      <4>4. d = c
        BY <3>1, <4>1, <4>3, Names
      <4>5. Seen(Tx(c), TxAck)
        BY <3>3, <4>1, <4>3, <4>4, FirstCleared DEF TxTaken
      <4>q. QED BY <3>5, <4>5 DEF Seen, Still
    <3>q. QED BY <3>2, <3>4, <3>5
  <2>4. CASE ~ PollDone
    <3>1. ~ MinitelReset
      BY <1>2 DEF MinitelReset, Poll
    <3>2. ~ Quiet'
      BY <1>2, Names DEF Quiet, BootFields
    <3>3. ~ PressClient /\ ~ \E c \in Bytes : TxByte(c)
      BY <1>2 DEF PressClient, TxByte, Poll
    <3>4. PICK s \in Slots : PressBoot(s)
      BY <1>3, <2>4, <3>1, <3>2, <3>3, MenuAsks
    <3>5. g = Boot(s) /\ polling = <<>> /\ phase = "keys"
      BY <1>2, <3>4 DEF PressBoot, Poll, At
    <3>6. Open
      BY <3>5 DEF Open, Connected
    <3>q. QED BY <3>5, <3>6 DEF BootInv
  <2>q. QED BY <2>3, <2>4
<1>4. CASE ~ MenuSteps
  <2>1. UNCHANGED menu
    BY <1>4, FirmwareLeavesMenu DEF Next, User, MenuSteps
  <2>2. polling = <<g>>
    BY <1>2, <2>1 DEF menu
  <2>3. ~ HandleReset /\ ~ HandleSync1 /\ ~ \E c \in Bytes : HandleTx(c)
    BY <1>2, <2>2, Polled, HandlersSample, Names DEF BootFields
  <2>4. serial_tx_buf' = serial_tx_buf
    BY <1>4, <2>3 DEF Next, Firmware, AnalyzeTraces, User, MenuSteps, HandleBoot, HandleSync1,
       HandleSync2, HandleTxAck, HandleRxLock, HandleRxUnlock, HandleChanged, HandleLoad,
       HandleLoadAck, WriteNext, UserRequestedBoot, UserRequestedClientMode, SerialRx,
       ConfigurationData, BootCommand, ConfigurationChanges, ram
  <2>5. Ends(g, r)
    BY <1>1, <2>2, <2>4 DEF Ends
  <2>6. CASE \E s \in Slots : HandleBoot(s)
    <3>1. PICK s \in Slots : HandleBoot(s)
      BY <2>6
    <3>2. polling = <<Boot(s)>> /\ signal' = <<"boot", s>>
      BY <3>1, Polled, HandlersSample DEF HandleBoot, Return
    <3>q. QED BY <2>2, <2>5, <3>2, Names DEF Ends
  <2>7. CASE HandleSync2
    <3>1. polling = <<Sync2>> /\ signal' = <<"client">>
      BY <2>7, Polled, HandlersSample DEF HandleSync2, Return
    <3>q. QED BY <2>2, <2>5, <3>1, Names DEF Ends
  <2>8. CASE HandleTxAck
    <3>1. polling = <<TxAck>> /\ signal' = <<"serial", serial_tx_buf>>
      BY <2>8, Polled, HandlersSample DEF HandleTxAck, Return
    <3>q. QED BY <2>2, <2>5, <3>1, Names DEF Ends
  <2>9. CASE ~ HandleTxAck /\ ~ HandleSync2 /\ ~ \E s \in Slots : HandleBoot(s)
    <3>1. Spares(g)
      BY <2>3, <2>5, <2>9, AskedSpared
    <3>2. CASE WriteNext
      <4>1. signal' = signal /\ (Still(g) \/ signal = r)
        BY <2>5, <3>2 DEF WriteNext, EndsInv
      <4>q. QED BY <3>1, <4>1, StillKept
    <3>3. CASE ~ WriteNext
      <4>1. todo = <<>>
        BY <1>4, <3>3, BusyStep
      <4>q. QED BY <3>1, <4>1, StillNow, StillKept
    <3>q. QED BY <3>2, <3>3
  <2>q. QED BY <2>6, <2>7, <2>8, <2>9
<1>q. QED BY <1>3, <1>4

LEMMA BootStep ==
  ASSUME Typed, Typed', Calls, Preparing, SignalInv, EndsInv, BootInv, Next
  PROVE  BootInv'
<1>1. SUFFICES ASSUME Open', NEW s \in Slots, polling' # <<Boot(s)>> PROVE Still(Boot(s))'
  BY DEF BootInv
<1>2. Boot(s) \in Flags /\ Boot(s) \in BootFields /\ Asks(Boot(s), <<"boot", s>>)
  BY FieldTypes DEF BootFields, Asks
<1>3. CASE Opening
  BY <1>2, <1>3, StillNext DEF Opening
<1>4. CASE Open /\ MenuSteps
  <2>1. Spares(Boot(s))
    BY <1>4, MenuLeaves DEF firmware, Spares, Untouched
  <2>2. SUFFICES Still(Boot(s))
    BY <1>2, <2>1, StillKept
  <2>3. CASE polling = <<Boot(s)>>
    <3>1. ~ MinitelReset
      BY <1>1 DEF MinitelReset, Go, Open, Connected
    <3>2. PollDone
      BY <1>4, <2>3, <3>1, MenuAsks
    <3>3. area[Boot(s)] = 0
      BY <2>3, <3>2, Names DEF PollDone, Waiting
    <3>4. Still(Boot(s)) \/ signal = <<"boot", s>>
      BY <1>2, <2>3, RequestNames DEF EndsInv, Ends
    <3>5. CASE signal = <<"boot", s>>
      <4>1. Turns(Boot(s), 0)
        BY <1>2, <3>5, RequestNames DEF SignalInv
      <4>q. QED BY <3>3, <4>1, Turned DEF Still
    <3>q. QED BY <3>4, <3>5
  <2>q. QED BY <1>4, <2>3 DEF BootInv
<1>5. CASE Open /\ ~ MenuSteps
  <2>1. UNCHANGED menu
    BY <1>5, FirmwareLeavesMenu DEF Next, User, MenuSteps
  <2>2. polling # <<Boot(s)>>
    BY <1>1, <2>1 DEF menu
  <2>3. Still(Boot(s))
    BY <1>5, <2>2 DEF BootInv
  <2>4. ~ HandleReset
    BY <1>5, HandlersSample, Polled
  <2>5. CASE \E t \in Slots : HandleBoot(t)
    <3>1. PICK t \in Slots : HandleBoot(t)
      BY <2>5
    <3>2. polling = <<Boot(t)>> /\ todo = <<>> /\ area' = area /\ todo' = <<Write(Boot(t), 0)>>
      BY <3>1, Polled, HandlersSample DEF HandleBoot, Do
    <3>3. Boot(s) # Boot(t)
      BY <2>2, <3>2
    <3>4. Clear(Boot(s))'
      BY <3>2, <3>3 DEF Clear, Write
    <3>5. Spares(Boot(s))
      BY <3>2, <3>4 DEF Spares, Untouched
    <3>q. QED BY <1>2, <2>3, <3>5, StillKept
  <2>6. CASE ~ \E t \in Slots : HandleBoot(t)
    <3>1. Boot(s) # Sync2 /\ Boot(s) # TxAck
      BY Names
    <3>2. Spares(Boot(s))
      BY <1>2, <2>4, <2>6, <3>1, AskedSpared
    <3>q. QED BY <1>2, <2>3, <3>2, StillKept
  <2>q. QED BY <2>5, <2>6
<1>q. QED BY <1>1, <1>3, <1>4, <1>5, Opens

\* The menu connects when it has seen the generation change; only its restart undoes it.
LEMMA Connects ==
  ASSUME Typed, Calls, MenuSteps
  PROVE  /\ Connected => Connected' \/ MinitelReset
         /\ ~ Connected => \/ ~ Connected'
                           \/ PollDone /\ polling = <<Generation>> /\ polling' = <<>>
                              /\ area[Generation] # initial_value
<1>1. CASE PollDone
  <2>1. phase' = phase /\ phase # "boot"
    BY <1>1, PollEnds DEF PollDone, Calls
  <2>2. CASE \E f : polling = <<f>> /\ polling' = <<>> /\ ~ Waiting(f)
    BY <1>1, <2>1, <2>2 DEF Connected, Waiting
  <2>3. CASE \E f, g : polling = <<f, g>> /\ polling' = <<g>> /\ ~ Waiting(f)
    <3>1. PICK f, g : polling = <<f, g>> /\ polling' = <<g>>
      BY <2>3
    <3>2. f # Generation /\ g # Generation
      BY <3>1, Names DEF Calls
    <3>q. QED BY <2>1, <3>1, <3>2 DEF Connected
  <2>q. QED BY <1>1, <2>2, <2>3, PollEnds
<1>2. CASE MinitelReset
  BY <1>2 DEF MinitelReset, Go, Connected
<1>3. CASE Reset
  <2>1. phase = "boot" /\ polling' = <<Generation>>
    BY <1>3 DEF Reset, At, Poll
  <2>q. QED BY <2>1 DEF Connected
<1>4. CASE MenuSteps /\ ~ PollDone /\ ~ MinitelReset /\ ~ Reset
  <2>1. polling = <<>> /\ phase # "boot"
    BY <1>4 DEF MenuSteps, MenuStep, Dispatch, Loop, GetConfiguration, Draw, RxTake,
                TestChanged, PressClient, NoTxByte, RxByte, NoRxByte, PressBoot, TxByte, At
  <2>2. phase' # "boot"
    <3>1. PhaseOf(area[DesiredState]) # "boot"
      <4>1. area[DesiredState] \in DesiredStates
        BY ContentsOf, FieldTypes DEF Typed
      <4>q. QED BY <4>1 DEF PhaseOf, DesiredStates
    <3>q. QED BY <1>4, <2>1, <3>1
          DEF MenuSteps, MenuStep, Dispatch, Loop, GetConfiguration, Draw, RxTake, TestChanged,
              PressClient, NoTxByte, RxByte, NoRxByte, PressBoot, TxByte, At, Go
  <2>3. polling' = <<>> \/ Head(polling') # Generation
    <3>1. \A s : Head(<<Boot(s)>>) # Generation
      BY Names
    <3>2. \A b : Head(<<Load(b), LoadAck>>) # Generation /\ Head(<<Tx(b), TxAck>>) # Generation
      BY Names
    <3>3. \A f \in {RxLock, RxUnlock, Changed} : Head(<<f>>) # Generation
      BY Names
    <3>4. Head(<<Sync1, Sync2>>) # Generation
      BY Names
    <3>q. QED BY <1>4, <2>1, <3>1, <3>2, <3>3, <3>4
          DEF MenuSteps, MenuStep, Dispatch, Loop, GetConfiguration, Draw, RxTake, TestChanged,
              PressClient, NoTxByte, RxByte, NoRxByte, PressBoot, TxByte, Poll
  <2>q. QED BY <2>1, <2>2, <2>3 DEF Connected
<1>q. QED BY <1>1, <1>2, <1>3, <1>4

\* Only the firmware takes a byte.
LEMMA TakenStays ==
  ASSUME Next, ~ HandleRxLock
  PROVE  taken' = taken \/ ((RxTake \/ MinitelReset) /\ taken' = None)
BY DEF Next, Firmware, AnalyzeTraces, User, HandleReset, HandleBoot, HandleSync1, HandleSync2,
       HandleTx, HandleTxAck, HandleRxUnlock, HandleChanged, HandleLoad, HandleLoadAck, WriteNext,
       UserRequestedBoot, UserRequestedClientMode, SerialRx, ConfigurationData, BootCommand,
       ConfigurationChanges, PollDone, MenuStep, Reset, Dispatch, Loop, GetConfiguration, Draw,
       RxTake, TestChanged, PressClient, NoTxByte, RxByte, NoRxByte, MinitelReset, PressBoot,
       TxByte

LEMMA AwayStep ==
  ASSUME Typed, Calls, AwayInv, Next
  PROVE  AwayInv'
<1>1. SUFFICES ASSUME ~ Connected' PROVE taken' = None
  BY DEF AwayInv
<1>2. CASE MenuSteps
  <2>1. ~ HandleRxLock
    BY <1>2, MenuLeaves, NoneAssumption DEF HandleRxLock, firmware, Do, Sampled, Idle
  <2>2. CASE MinitelReset
    BY <2>2 DEF MinitelReset
  <2>3. CASE ~ MinitelReset
    <3>1. ~ Connected
      BY <1>1, <1>2, <2>3, Connects
    <3>q. QED BY <2>1, <3>1, TakenStays DEF AwayInv
  <2>q. QED BY <2>2, <2>3
<1>3. CASE ~ MenuSteps
  <2>1. UNCHANGED menu
    BY <1>3, FirmwareLeavesMenu DEF Next, User, MenuSteps
  <2>2. ~ Connected
    BY <1>1, <2>1 DEF Connected, menu
  <2>3. HandleRxLock => Connected
    <3>1. HandleRxLock => polling = <<RxLock>> /\ phase = "take"
      BY Polled, HandlersSample
    <3>2. Head(<<RxLock>>) # Generation
      BY Names
    <3>q. QED BY <3>1, <3>2 DEF Connected
  <2>q. QED BY <2>2, <2>3, TakenStays DEF AwayInv
<1>q. QED BY <1>2, <1>3

LEMMA ReadyStep ==
  ASSUME Typed, Calls, Preparing, ReadyInv, Next
  PROVE  ReadyInv'
<1>1. SUFFICES ASSUME polling' = <<Generation>>, area'[Generation] # initial_value'
               PROVE  todo' = <<>> /\ signal' = None /\ serial_rx_buf_cnt' = 0
  BY DEF ReadyInv
<1>2. CASE MenuSteps
  <2>1. UNCHANGED firmware
    BY <1>2, MenuLeaves
  <2>2. ~ Reset
    BY <1>1, <2>1 DEF Reset, firmware
  <2>3. ~ PollDone
    <3>1. ASSUME PollDone PROVE \E f : polling = <<f, Generation>>
      BY <1>1, <3>1, PollEnds
    <3>2. \/ polling = <<>> \/ \E g : polling = <<g>>
          \/ \E f, g : polling = <<f, g>> /\ g \in {Sync2, TxAck, LoadAck}
      BY ONLY Calls DEF Calls
    <3>3. Generation \notin {Sync2, TxAck, LoadAck}
      BY Names
    <3>q. QED BY <3>1, <3>2, <3>3
  <2>4. CASE Dispatch \/ Loop \/ Draw \/ NoTxByte \/ NoRxByte \/ MinitelReset
    BY <1>1, <2>4
       DEF Dispatch, Loop, Draw, NoTxByte, NoRxByte, MinitelReset, At, Poll
  <2>5. CASE GetConfiguration \/ RxTake \/ RxByte \/ TestChanged \/ PressClient
             \/ (\E s \in Slots : PressBoot(s)) \/ \E c \in Bytes : TxByte(c)
    BY <1>1, <2>5, Names
       DEF GetConfiguration, RxTake, RxByte, TestChanged, PressClient, PressBoot, TxByte, At, Poll
  <2>q. QED BY <1>2, <2>2, <2>3, <2>4, <2>5 DEF MenuSteps, MenuStep
<1>3. CASE ~ MenuSteps
  <2>1. UNCHANGED menu
    BY <1>3, FirmwareLeavesMenu DEF Next, User, MenuSteps
  <2>2. polling = <<Generation>> /\ Head(polling) = Generation /\ initial_value' = initial_value
    BY <1>1, <2>1 DEF menu
  <2>3. phase' = "top" /\ phase = "top"
    BY <2>1, <2>2, Names DEF Calls, menu
  <2>4. Open'
    BY <1>1, <2>3 DEF Open
  <2>5. CASE ~ Open
    BY <2>4, <2>5, Opens DEF Opening
  <2>6. CASE Open
    <3>1. area[Generation] # initial_value
      BY <2>2, <2>6 DEF Open, Connected
    <3>2. todo = <<>> /\ signal = None /\ serial_rx_buf_cnt = 0
      BY <2>2, <3>1 DEF ReadyInv
    <3>3. \A f : ~ Sampled(f)
      BY <2>2, <3>1 DEF Sampled, Waiting
    <3>4. BootCommand \/ \E b \in Blocks : ConfigurationChanges(b)
      BY <1>3, <3>2, <3>3, HandlersSample
         DEF Next, Firmware, AnalyzeTraces, User, MenuSteps, WriteNext, UserRequestedBoot,
             UserRequestedClientMode, SerialRx, ConfigurationData, Returned
    <3>q. QED BY <3>2, <3>4 DEF BootCommand, ConfigurationChanges, rx
  <2>q. QED BY <2>5, <2>6
<1>q. QED BY <1>2, <1>3

\* Holding the byte does not depend on what else is written.
LEMMA HeldKept ==
  ASSUME Typed, Spares(RxLock), Spares(RxData), taken' = taken
  PROVE  /\ taken = None /\ Keeps(RxLock, 1) => taken' = None /\ Keeps(RxLock, 1)'
         /\ \A v : Handing(v) => Handing(v)'
         /\ \A v : Handed(v) => Handed(v)'
<1>1. RxLock \in Fields /\ RxData \in Fields
  BY FieldTypes
<1>2. Keeps(RxLock, 1) => Keeps(RxLock, 1)'
  BY <1>1, SparesField DEF Typed
<1>3. ASSUME NEW v, Handing(v) PROVE Handing(v)'
  <2>1. Turns(RxLock, 0)' /\ Settles(RxData, v)'
    BY <1>1, <1>3, SparesField DEF Typed, Handing
  <2>2. Before(RxData, RxLock)'
    BY <1>1, <1>3, SparesOrder DEF Typed, Handing
  <2>q. QED BY <1>3, <2>1, <2>2 DEF Handing
<1>4. ASSUME NEW v, Handed(v) PROVE Handed(v)'
  <2>1. Keeps(RxData, v)'
    BY <1>1, <1>4, SparesField DEF Typed, Handed
  <2>q. QED BY <1>4, <2>1 DEF Handed
<1>q. QED BY <1>2, <1>3, <1>4

LEMMA HeldStep ==
  ASSUME Typed, Calls, Preparing, RxInv, HeldInv, AwayInv, Next
  PROVE  HeldInv'
<1>1. SUFFICES ASSUME Open' PROVE HeldInv'
  BY DEF HeldInv
<1>2. CASE ~ Open
  <2>1. WriteNext /\ Opening
    BY <1>1, <1>2, Opens
  <2>2. taken' = None
    BY <1>2, <2>1 DEF WriteNext, AwayInv, Open
  <2>3. ~ Calling(RxLock)' /\ phase' # "take"
    BY <2>1, Names DEF Opening, Calling
  <2>q. QED BY <2>2, <2>3 DEF HeldInv
<1>3. CASE Open /\ HandleRxLock
  <2>1. todo = <<>> /\ area[RxLock] = 1 /\ polling = <<RxLock>>
    BY <1>3, Polled, HandlersSample, Names
  <2>2. polling' = polling /\ area' = area
    BY <1>3 DEF HandleRxLock, Do, menu
  <2>3. PICK v \in Bytes \cup {"?"}, w \in {0, 1} :
          /\ taken' = v
          /\ todo' = <<Write(RxData, v), Write(RxNonempty, w), Write(RxUnlock, 1),
                       Write(RxLock, 0)>>
    <3>1. serial_rx_buf[serial_rx_buf_rpos] \in Bytes
      BY DEF Typed
    <3>q. QED BY <1>3, <3>1 DEF HandleRxLock, Do
  <2>4. v # None
    BY NoneAssumption
  <2>5. /\ \A i \in 1 .. 3 : RxLock \notin DOMAIN todo'[i]
        /\ \A i \in 2 .. 4 : RxData \notin DOMAIN todo'[i]
        /\ DOMAIN todo'[1] = {RxData} /\ todo'[1][RxData] = v
        /\ Len(todo') = 3 + 1 /\ todo'[3 + 1] = Write(RxLock, 0) /\ DOMAIN todo'[4] = {RxLock}
    BY <2>3, Names DEF Write
  <2>6. Turns(RxLock, 0)'
    BY <2>1, <2>2, <2>5, LastTurns
  <2>7. Settles(RxData, v)'
    BY <2>5 DEF Settles, WritesOnly, Pending
  <2>8. Before(RxData, RxLock)'
    BY <2>5 DEF Before
  <2>9. Handing(v)'
    BY <2>3, <2>4, <2>6, <2>7, <2>8 DEF Handing
  <2>q. QED BY <2>1, <2>2, <2>9 DEF HeldInv, Calling
<1>4. CASE Open /\ PollDone
  <2>1. /\ Spares(RxLock) /\ Spares(RxData) /\ taken' = taken /\ phase' = phase
    BY <1>4, MenuLeaves DEF MenuSteps, firmware, Spares, Untouched, PollDone
  <2>2. CASE Calling(RxLock)
    <3>1. polling = <<RxLock>> /\ polling' = <<>> /\ area[RxLock] = 0 /\ phase = "take"
      <4>1. polling = <<RxLock>> /\ phase = "take"
        BY <2>2, Names DEF Calls, Calling
      <4>2. polling' = <<>> /\ ~ Waiting(RxLock)
        BY <1>4, <4>1, PollEnds
      <4>3. RxLock # Generation
        BY Names
      <4>q. QED BY <4>1, <4>2, <4>3 DEF Waiting
    <3>2. PICK v \in Bytes \cup {"?"} : Handing(v)
      BY <1>4, <2>2, <3>1 DEF HeldInv, Keeps
    <3>3. ~ Pending(RxLock)
      BY <3>1, <3>2, Turned DEF Handing
    <3>4. ~ Pending(RxData)
      BY <3>2, <3>3 DEF Handing, Before, Pending
    <3>5. Handed(v)
      BY <3>2, <3>4 DEF Handing, Handed, Settles, Keeps
    <3>6. Handed(v)' /\ phase' = "take" /\ ~ Calling(RxLock)'
      BY <2>1, <3>1, <3>5, HeldKept DEF Calling
    <3>q. QED BY <3>6 DEF HeldInv
  <2>3. CASE ~ Calling(RxLock)
    <3>1. ~ Calling(RxLock)' /\ phase # "take"
      <4>1. ~ Calling(RxLock)'
        BY <1>4, <2>3, PollEnds DEF Calling
      <4>2. phase # "take"
        BY <1>4, <2>3 DEF Calls, PollDone, Calling
      <4>q. QED BY <4>1, <4>2
    <3>2. taken = None
      BY <1>4, <2>3, <3>1 DEF HeldInv
    <3>q. QED BY <2>1, <3>1, <3>2 DEF HeldInv
  <2>q. QED BY <2>2, <2>3
<1>5. CASE Open /\ MenuSteps /\ ~ PollDone
  <2>1. ~ MinitelReset
    BY <1>1 DEF MinitelReset, Go, Open, Connected
  <2>2. ~ HandleRxLock
    BY <1>5, MenuLeaves, NoneAssumption DEF HandleRxLock, firmware, Do, Sampled, Idle
  <2>3. polling = <<>> /\ ~ Calling(RxLock)
    BY <1>5, <2>1, MenuAsks DEF Calling
  <2>4. CASE RxTake
    <3>1. taken' = None /\ phase' = "client" /\ polling' = <<RxUnlock>>
      BY <2>4 DEF RxTake, Poll, Go
    <3>q. QED BY <3>1, Names DEF HeldInv, Calling
  <2>5. CASE RxByte
    <3>1. /\ phase = "serial_out" /\ polling' = <<RxLock>> /\ taken' = taken
      BY <2>5 DEF RxByte, At, Poll
    <3>2. taken = None
      BY <1>5, <2>3, <3>1 DEF HeldInv
    <3>3. Keeps(RxLock, 1)
      <4>1. ~ Calling(RxUnlock)
        BY <2>3 DEF Calling
      <4>q. QED BY <1>5, <2>3, <3>1, <4>1 DEF RxInv, RxRest, Rest
    <3>4. Spares(RxLock) /\ Spares(RxData)
      BY <1>5, MenuLeaves DEF firmware, Spares, Untouched
    <3>5. taken' = None /\ Keeps(RxLock, 1)' /\ Calling(RxLock)'
      BY <3>1, <3>2, <3>3, <3>4, HeldKept DEF Calling
    <3>q. QED BY <3>5 DEF HeldInv
  <2>6. CASE ~ RxTake /\ ~ RxByte
    <3>1. phase # "take" /\ phase' # "take" /\ ~ Calling(RxLock)'
      <4>1. ASSUME NEW c \in Bytes, TxByte(c)
            PROVE  phase # "take" /\ phase' # "take" /\ ~ Calling(RxLock)'
        BY <4>1, Names DEF TxByte, At, Go, Poll, Calling
      <4>2. ASSUME GetConfiguration
            PROVE  phase # "take" /\ phase' # "take" /\ ~ Calling(RxLock)'
        BY <4>2, Names DEF GetConfiguration, At, Go, Poll, Calling
      <4>q. QED BY <1>1, <1>5, <2>6, <4>1, <4>2, MenuCalls
    <3>2. taken = None
      BY <1>5, <2>3, <3>1 DEF HeldInv
    <3>3. taken' = None
      BY <2>1, <2>2, <2>6, <3>2, TakenStays
    <3>q. QED BY <3>1, <3>3 DEF HeldInv
  <2>q. QED BY <2>4, <2>5, <2>6
<1>6. CASE Open /\ ~ MenuSteps /\ ~ HandleRxLock
  <2>1. UNCHANGED menu
    BY <1>6, FirmwareLeavesMenu DEF Next, User, MenuSteps
  <2>2. taken' = taken
    BY <1>6, TakenStays DEF MenuSteps, MenuStep
  <2>3. CASE ~ Calling(RxLock) /\ phase # "take"
    BY <1>6, <2>1, <2>2, <2>3 DEF HeldInv, Calling, menu
  <2>4. CASE Calling(RxLock) \/ phase = "take"
    <3>1. ~ HandleReset /\ ~ HandleRxUnlock
      <4>1. HandleRxUnlock => polling = <<RxUnlock>>
        BY Polled, HandlersSample
      <4>2. polling # <<RxUnlock>>
        BY <2>4, Names DEF Calls, Calling
      <4>q. QED BY <1>6, <4>1, <4>2, HandlersSample, Polled
    <3>2. RxLock \in RxGroup /\ RxData \in RxGroup /\ RxLock # RxNonempty /\ RxData # RxNonempty
      BY Names DEF RxGroup
    <3>3. SerialRx => Spares(RxLock) /\ Spares(RxData)
      BY <3>2 DEF SerialRx, Enqueue, Spares, Untouched
    <3>4. Spares(RxLock) /\ Spares(RxData)
      BY <1>6, <3>1, <3>2, <3>3, Sparing, GroupsApart DEF SparesAllBut
    <3>5. HeldInv
      OBVIOUS
    <3>q. QED BY <1>6, <2>1, <2>2, <2>4, <3>4, <3>5, HeldKept DEF HeldInv, Calling, menu
  <2>q. QED BY <2>3, <2>4
<1>q. QED BY <1>2, <1>3, <1>4, <1>5, <1>6

\* The inductive invariant of the refinement.
MailInv ==
  /\ Inv
  /\ SyncInv /\ BootInv /\ SignalInv /\ EndsInv
  /\ HeldInv /\ AwayInv /\ ReadyInv

LEMMA InitMailInv == Init => MailInv
<1> SUFFICES ASSUME Init PROVE MailInv
  OBVIOUS
<1>1. Inv
  BY InitInv
<1>2. phase = "boot" /\ polling = <<>> /\ signal = None /\ taken = None
  BY DEF Init
<1>3. ~ Open
  BY <1>2 DEF Open, Connected
<1>4. SignalInv
  BY <1>2, RequestNames DEF SignalInv
<1>5. EndsInv /\ ReadyInv
  BY <1>2 DEF EndsInv, Ends, ReadyInv
<1>q. QED BY <1>1, <1>2, <1>3, <1>4, <1>5 DEF MailInv, SyncInv, BootInv, HeldInv, AwayInv

LEMMA StutterMailInv == MailInv /\ UNCHANGED vars => MailInv'
<1> SUFFICES ASSUME MailInv, UNCHANGED vars PROVE MailInv'
  OBVIOUS
<1>1. UNCHANGED <<area, ram, todo, signal, menu, served, taken>>
  BY DEF vars
<1>2. Inv'
  BY StutterInv DEF MailInv
<1> USE <1>1 DEF ram, menu
<1>3. Open' = Open /\ Connected' = Connected
  BY DEF Open, Connected
<1>4. /\ \A f, v : /\ Keeps(f, v)' = Keeps(f, v)
                   /\ Settles(f, v)' = Settles(f, v)
                   /\ Turns(f, v)' = Turns(f, v)
      /\ \A f : Calling(f)' = Calling(f)
      /\ \A f, g : Before(f, g)' = Before(f, g)
  BY DEF Keeps, Settles, Turns, Pending, Before, WritesOnly, WritesOnce, Calling
<1>5. /\ \A f, g : /\ Rest(f, g)' = Rest(f, g) /\ Taken(f, g)' = Taken(f, g)
                   /\ Seen(f, g)' = Seen(f, g) /\ Done(f, g)' = Done(f, g)
      /\ \A f : Still(f)' = Still(f)
      /\ \A v : Handing(v)' = Handing(v) /\ Handed(v)' = Handed(v)
      /\ \A g, r : Ends(g, r)' = Ends(g, r)
  BY <1>4 DEF Rest, Taken, Seen, Done, Still, Handing, Handed, Ends
<1>6. SyncInv' /\ BootInv'
  BY <1>3, <1>4, <1>5 DEF MailInv, SyncInv, BootInv
<1>7. SignalInv' /\ EndsInv'
  BY <1>4, <1>5 DEF MailInv, SignalInv, EndsInv
<1>8. HeldInv' /\ AwayInv' /\ ReadyInv'
  BY <1>3, <1>4, <1>5 DEF MailInv, HeldInv, AwayInv, ReadyInv, rx
<1>q. QED BY <1>2, <1>6, <1>7, <1>8 DEF MailInv

LEMMA MailStep == MailInv /\ Next => MailInv'
<1> SUFFICES ASSUME MailInv, Next PROVE MailInv'
  OBVIOUS
<1>1. Inv'
  BY TypedStep, CallsStep, PreparingStep, TxStep, RxStep, LoadStep, ChangedStep, CellStep,
     LinesStep, StaleStep
  DEF Inv, MailInv
<1>2. Typed' /\ Typed /\ Calls /\ Preparing /\ TxInv /\ RxInv
  BY <1>1 DEF Inv, MailInv
<1>3. SyncInv' /\ SignalInv' /\ EndsInv'
  BY <1>2, SyncStep, SignalStep, EndsStep DEF MailInv
<1>4. BootInv' /\ HeldInv' /\ AwayInv' /\ ReadyInv'
  BY <1>2, BootStep, HeldStep, AwayStep, ReadyStep DEF MailInv
<1>q. QED BY <1>1, <1>3, <1>4 DEF MailInv

\* The two halves of a request meet: what the menu polls, what the firmware has yet to write
\* and what it has passed to its main loop belong to one request, whenever the Minitel restarts.
THEOREM RequestsInvariance == Spec => []MailInv
<1>1. MailInv /\ [Next]_vars => MailInv'
  BY StutterMailInv, MailStep
<1>q. QED BY InitMailInv, <1>1, PTL DEF Spec

-----------------------------------------------------------------------------
(* The steps, as Mailbox sees them.                                        *)

\* The queue, the requests under way and the one being made.
LEMMA QueuedIs ==
  /\ Queued = Window(serial_rx_buf, serial_rx_buf_rpos, serial_rx_buf_cnt)
  /\ Queued' = Window(serial_rx_buf', serial_rx_buf_rpos', serial_rx_buf_cnt')
BY DEF Queued, Window

LEMMA OutgoingIs ==
  /\ signal \in Requests => Outgoing = <<signal>> \o Asking
  /\ signal \notin Requests => Outgoing = <<>> \o Asking
  /\ signal' \in Requests => Outgoing' = <<signal'>> \o Asking'
  /\ signal' \notin Requests => Outgoing' = <<>> \o Asking'
BY DEF Outgoing, Requests

LEMMA AskingType ==
  ASSUME Typed, Calls
  PROVE  Asking = <<>> \/ \E r \in Requests : Asking = <<r>>
BY Shapes, AskingIs DEF AskingTable

\* A step of the firmware that passes no request, and finishes none.
LEMMA SameAsking ==
  ASSUME Typed, Calls, UNCHANGED menu,
         serial_tx_buf' = serial_tx_buf \/ polling # <<TxAck>>,
         \A g \in Flags, r \in Requests :
           Ends(g, r) => (area[g] = 0 \/ signal = r <=> area'[g] = 0 \/ signal' = r)
  PROVE  Asking' = Asking
<1>1. polling' = polling
  BY DEF menu
<1>2. CASE Quiet
  <2>1. Quiet'
    BY <1>1, <1>2 DEF Quiet
  <2>q. QED BY <1>2, <2>1, AskingIs, AskingStays DEF AskingTable
<1>3. ASSUME NEW r \in Requests, Starts(r) PROVE Asking' = Asking
  <2>1. Starts(r)'
    BY <1>1, <1>3 DEF Starts
  <2>q. QED BY <1>3, <2>1, AskingIs, AskingStays DEF AskingTable
<1>4. ASSUME NEW r \in Requests, NEW g \in Flags, Ends(g, r) PROVE Asking' = Asking
  <2>1. Ends(g, r)'
    BY <1>1, <1>4 DEF Ends
  <2>2. Asking = IF area[g] = 0 \/ signal = r THEN <<>> ELSE <<r>>
    BY <1>4, AskingIs DEF AskingTable
  <2>3. Asking' = IF area'[g] = 0 \/ signal' = r THEN <<>> ELSE <<r>>
    BY <2>1, AskingStays DEF AskingTable
  <2>q. QED BY <1>4, <2>2, <2>3
<1>q. QED BY <1>2, <1>3, <1>4, Shapes

\* Mailbox does not see a step that leaves these alone.
Unseen == UNCHANGED <<Connected, Outgoing, served, Queued, taken, received>>

\* The steps of the firmware that Mailbox does not see.
LEMMA UnseenStep ==
  ASSUME UNCHANGED menu, Asking' = Asking,
         signal' = signal \/ (signal \notin Requests /\ signal' \notin Requests),
         UNCHANGED <<served, rx, taken>>
  PROVE  Unseen
<1>1. Connected' = Connected /\ received' = received
  BY DEF Connected, menu
<1>2. Outgoing' = Outgoing
  BY DEF Outgoing, Requests
<1>3. Queued' = Queued
  BY DEF Queued, rx
<1>q. QED BY <1>1, <1>2, <1>3 DEF Unseen

\* The firmware passes the request that the menu polls for to its main loop.
LEMMA PassStep ==
  ASSUME MailInv, (\E s \in Slots : HandleBoot(s)) \/ HandleSync2 \/ HandleTxAck
  PROVE  Unseen
<1>1. Typed /\ Calls
  BY DEF MailInv, Inv
<1>2. PICK g \in Flags, r \in Requests :
        /\ Ends(g, r) /\ area[g] = 1
        /\ signal = None /\ signal' = r
        /\ UNCHANGED <<ram, menu, served, taken>>
  <2>1. ASSUME NEW s \in Slots, HandleBoot(s)
        PROVE  /\ Ends(Boot(s), <<"boot", s>>) /\ area[Boot(s)] = 1
               /\ signal = None /\ signal' = <<"boot", s>>
               /\ UNCHANGED <<ram, menu, served, taken>>
    <3>1. polling = <<Boot(s)>> /\ area[Boot(s)] = 1 /\ signal = None
      BY <1>1, <2>1, Polled, HandlersSample, Names
    <3>q. QED BY <2>1, <3>1 DEF HandleBoot, Do, Return, Ends
  <2>2. ASSUME HandleSync2
        PROVE  /\ Ends(Sync2, <<"client">>) /\ area[Sync2] = 1
               /\ signal = None /\ signal' = <<"client">>
               /\ UNCHANGED <<ram, menu, served, taken>>
    <3>1. polling = <<Sync2>> /\ area[Sync2] = 1 /\ signal = None
      BY <1>1, <2>2, Polled, HandlersSample, Names
    <3>q. QED BY <2>2, <3>1 DEF HandleSync2, Do, Return, Ends
  <2>3. ASSUME HandleTxAck
        PROVE  /\ Ends(TxAck, <<"serial", serial_tx_buf>>) /\ area[TxAck] = 1
               /\ signal = None /\ signal' = <<"serial", serial_tx_buf>>
               /\ UNCHANGED <<ram, menu, served, taken>>
    <3>1. polling = <<TxAck>> /\ area[TxAck] = 1 /\ signal = None
      BY <1>1, <2>3, Polled, HandlersSample, Names
    <3>q. QED BY <2>3, <3>1 DEF HandleTxAck, Do, Return, Ends
  <2>4. serial_tx_buf \in Bytes /\ Sync2 \in Flags /\ TxAck \in Flags
        /\ \A s \in Slots : Boot(s) \in Flags
    BY <1>1, FieldTypes DEF Typed
  <2>q. QED BY <2>1, <2>2, <2>3, <2>4, RequestNames
<1>3. Ends(g, r)' /\ signal \notin Requests /\ r # None
  BY <1>2, RequestNames DEF Ends, menu, ram
<1>4. Asking = <<r>> /\ Asking' = <<>>
  BY <1>2, <1>3, AskingIs, AskingStays DEF AskingTable
<1>5. Outgoing = <<r>> /\ Outgoing' = <<r>>
  <2>1. Outgoing = <<>> \o <<r>> /\ Outgoing' = <<r>> \o <<>>
    BY <1>2, <1>3, <1>4, OutgoingIs
  <2>2. <<>> \o <<r>> = <<r>> /\ <<r>> \o <<>> = <<r>>
    OBVIOUS
  <2>q. QED BY <2>1, <2>2
<1>6. Connected' = Connected /\ received' = received /\ Queued' = Queued
  BY <1>2 DEF Connected, Queued, menu, ram, rx
<1>q. QED BY <1>2, <1>5, <1>6 DEF Unseen

\* The other handlers, the rest of what they write and the loop's own doings.
LEMMA QuietStep ==
  ASSUME MailInv, Next, ~ MenuSteps, ~ HandleReset, ~ HandleRxLock,
         ~ \E s \in Slots : HandleBoot(s), ~ HandleSync2, ~ HandleTxAck,
         ~ UserRequestedBoot, ~ UserRequestedClientMode, ~ SerialRx
  PROVE  Unseen
<1>1. Typed /\ Calls
  BY DEF MailInv, Inv
<1>2. UNCHANGED menu
  BY FirmwareLeavesMenu DEF Next, User, MenuSteps
<1>3. UNCHANGED <<served, rx, taken>>
  BY DEF Next, Firmware, AnalyzeTraces, User, MenuSteps, HandleSync1, HandleTx, HandleRxUnlock,
         HandleChanged, HandleLoad, HandleLoadAck, WriteNext, ConfigurationData, BootCommand,
         ConfigurationChanges, Do, ram
<1>4. signal' = signal \/ (signal \notin Requests /\ signal' \notin Requests)
  <2>1. ASSUME NEW b \in Blocks, HandleLoad(b) PROVE signal = None /\ signal' = <<"block", b>>
    BY <2>1 DEF HandleLoad, Sampled, Idle, Return
  <2>2. ASSUME ConfigurationData PROVE signal' = None /\ \E b \in Blocks : signal = <<"block", b>>
    <3>1. signal # None /\ signal[1] = "block"
      BY <2>2 DEF ConfigurationData, Returned
    <3>2. signal \in Requests \cup {<<"block", b>> : b \in Blocks}
      BY <1>1, <3>1 DEF Typed
    <3>3. \A r \in Requests : r[1] # "block"
      BY DEF Requests
    <3>q. QED BY <2>2, <3>1, <3>2, <3>3 DEF ConfigurationData
  <2>3. CASE (~ \E b \in Blocks : HandleLoad(b)) /\ ~ ConfigurationData
    <3>1. signal' = signal
      BY <2>3 DEF Next, Firmware, AnalyzeTraces, User, MenuSteps, HandleSync1, HandleTx,
         HandleRxUnlock, HandleChanged, HandleLoadAck, WriteNext, BootCommand,
         ConfigurationChanges, ReturnNothing
    <3>q. QED BY <3>1
  <2>q. QED BY <2>1, <2>2, <2>3, RequestNames
<1>5. serial_tx_buf' = serial_tx_buf \/ polling # <<TxAck>>
  <2>1. ASSUME NEW c \in Bytes, HandleTx(c) PROVE polling # <<TxAck>>
    <3>1. polling = <<Tx(c), TxAck>>
      BY <1>1, <2>1, Polled, HandlersSample
    <3>q. QED BY <3>1
  <2>2. CASE ~ \E c \in Bytes : HandleTx(c)
    BY <2>2 DEF Next, Firmware, AnalyzeTraces, User, MenuSteps, HandleSync1, HandleRxUnlock,
         HandleChanged, HandleLoad, HandleLoadAck, WriteNext, ConfigurationData, BootCommand,
         ConfigurationChanges, ram
  <2>q. QED BY <2>1, <2>2
<1>6. ASSUME NEW g \in Flags, NEW r \in Requests, Ends(g, r)
      PROVE  area[g] = 0 \/ signal = r <=> area'[g] = 0 \/ signal' = r
  <2>1. polling = <<g>> /\ (g \in BootFields \/ g = Sync2 \/ g = TxAck)
    BY <1>6 DEF Ends, BootFields
  <2>2. ~ HandleSync1 /\ ~ \E c \in Bytes : HandleTx(c)
    BY <1>1, <2>1, Polled, HandlersSample, Names DEF BootFields
  <2>3. Spares(g)
    BY <1>1, <1>6, <2>2, AskedSpared
  <2>4. Still(g) \/ signal = r
    BY <1>6 DEF MailInv, EndsInv
  <2>5. (signal = r) = (signal' = r)
    BY <1>4
  <2>6. CASE Still(g)
    <3>1. PICK v \in {0, 1} : Keeps(g, v)
      BY <2>6 DEF Still
    <3>2. Keeps(g, v)'
      BY <1>1, <2>3, <3>1, SparesField, FieldTypes DEF Typed
    <3>3. area'[g] = area[g]
      BY <3>1, <3>2 DEF Keeps
    <3>q. QED BY <2>5, <3>3
  <2>7. CASE signal = r
    BY <2>5, <2>7
  <2>q. QED BY <2>4, <2>6, <2>7
<1>7. Asking' = Asking
  BY <1>1, <1>2, <1>5, <1>6, SameAsking
<1>q. QED BY <1>2, <1>3, <1>4, <1>7, UnseenStep

\* magic_io_prepare_rom, when a restarted Minitel asks for it, empties the queue.
LEMMA DiscardStep ==
  ASSUME MailInv, HandleReset
  PROVE  Mail!Discard
<1>1. Typed /\ Calls
  BY DEF MailInv, Inv
<1>2. /\ UNCHANGED <<menu, served, taken, signal, serial_tx_buf>> /\ signal = None
      /\ serial_rx_buf_cnt' = 0
  BY DEF HandleReset, Do, ReturnNothing, Sampled, Idle
<1>3. polling = <<Generation>>
  BY <1>1, Polled, HandlersSample
<1>4. Quiet /\ Quiet'
  BY <1>2, <1>3 DEF Quiet, menu
<1>5. Outgoing' = Outgoing
  <2>1. Asking' = Asking
    BY <1>4, AskingIs, AskingStays DEF AskingTable
  <2>q. QED BY <1>2, <2>1 DEF Outgoing, Requests
<1>6. ~ Connected /\ Connected' = Connected /\ received' = received
  BY <1>2, <1>3 DEF Connected, menu
<1>7. Queued' = <<>>
  BY <1>2 DEF Queued
<1>q. QED BY <1>2, <1>5, <1>6, <1>7 DEF Mail!Discard

\* The firmware takes a byte for the menu.
LEMMA TakeStep ==
  ASSUME MailInv, HandleRxLock
  PROVE  Mail!Take
<1>1. Typed /\ Calls
  BY DEF MailInv, Inv
<1>2. todo = <<>> /\ area[RxLock] = 1 /\ polling = <<RxLock>> /\ Open /\ phase = "take"
  BY <1>1, Polled, HandlersSample, Names
<1>3. serial_rx_buf_cnt > 0
  <2>1. PICK n \in {0, 1} : RxTold(n) /\ ((RxRest(n) /\ n = 1) \/ RxTaken(n))
    BY <1>2 DEF RxInv, Calling, MailInv, Inv
  <2>2. n = 1
    BY <1>2, <2>1, AnsweredOnce DEF RxTaken
  <2>q. QED BY <2>1, <2>2 DEF RxTold
<1>4. taken = None
  <2>1. ASSUME NEW v, Handing(v) PROVE FALSE
    BY <1>2, <2>1, NothingLeft DEF Handing
  <2>q. QED BY <1>2, <2>1 DEF MailInv, HeldInv, Calling
<1>5. serial_rx_buf_cnt \in 1 .. Capacity /\ serial_rx_buf_cnt # 0
  BY <1>1, <1>3, Sizes DEF Typed
<1>6. /\ taken' = serial_rx_buf[serial_rx_buf_rpos]
      /\ serial_rx_buf' = serial_rx_buf
      /\ serial_rx_buf_rpos' = (serial_rx_buf_rpos + 1) % Capacity
      /\ serial_rx_buf_cnt' = serial_rx_buf_cnt - 1
      /\ UNCHANGED <<menu, served, signal>>
  BY <1>5 DEF HandleRxLock, Do, ReturnNothing
<1>7. /\ Queued # <<>> /\ Head(Queued) = serial_rx_buf[serial_rx_buf_rpos]
      /\ Queued' = Tail(Queued)
  BY <1>1, <1>5, <1>6, WindowMoved, QueuedIs DEF Typed
<1>8. Quiet /\ Quiet'
  BY <1>2, <1>6 DEF Quiet, menu
<1>9. Outgoing' = Outgoing
  <2>1. Asking' = Asking
    BY <1>8, AskingIs, AskingStays DEF AskingTable
  <2>q. QED BY <1>6, <2>1 DEF Outgoing, Requests
<1>10. Connected /\ Connected' = Connected /\ received' = received
  BY <1>2, <1>6, Names DEF Connected, menu
<1>q. QED BY <1>4, <1>6, <1>7, <1>9, <1>10 DEF Mail!Take

\* A sequence with one element put in front.
LEMMA InFront ==
  ASSUME NEW S, NEW x \in S, NEW t \in Seq(S)
  PROVE  /\ <<x>> \o t # <<>> /\ Head(<<x>> \o t) = x
         /\ Tail(<<x>> \o t) = t /\ <<>> \o t = t
<1>1. <<x>> \in Seq(S) /\ Len(<<x>>) = 1 /\ <<x>>[1] = x
  OBVIOUS
<1>2. /\ <<x>> \o t \in Seq(S) /\ Len(<<x>> \o t) = 1 + Len(t)
      /\ (<<x>> \o t)[1] = x
      /\ \A i \in 1 .. Len(t) : (<<x>> \o t)[i + 1] = t[i]
  BY <1>1
<1> DEFINE u == <<x>> \o t
<1>3. <<>> \o t = t
  OBVIOUS
<1> HIDE DEF u
<1>4. u \in Seq(S) /\ Len(u) = 1 + Len(t) /\ u[1] = x /\ \A i \in 1 .. Len(t) : u[i + 1] = t[i]
  BY <1>2 DEF u
<1>5. u # <<>> /\ Head(u) = x
  BY <1>4
<1>6. Tail(u) \in Seq(S) /\ Len(Tail(u)) = Len(t) /\ \A i \in 1 .. Len(t) : Tail(u)[i] = u[i + 1]
  BY <1>4, <1>5
<1>7. Tail(u) = t
  BY <1>4, <1>6
<1>q. QED BY <1>3, <1>5, <1>7 DEF u

\* An empty answer leaves the queue as it is.
LEMMA KeptNothing ==
  ASSUME Typed
  PROVE  Queued = Queued \o Mail!Kept(<<>>)
<1>1. Queued \in Seq(Bytes) /\ Len(Queued) = serial_rx_buf_cnt
  BY WindowType, QueuedIs DEF Typed
<1>2. Capacity - Len(Queued) \in Nat
  BY <1>1, Sizes DEF Typed
<1>3. Mail!Kept(<<>>) = SubSeq(<<>>, 1, 0)
  BY <1>2 DEF Mail!Kept
<1>4. SubSeq(<<>>, 1, 0) = <<>>
  OBVIOUS
<1>q. QED BY <1>1, <1>3, <1>4

\* The main loop acts on a request, and answers it with what fits of a reply.
LEMMA ServeStep ==
  ASSUME MailInv, UserRequestedBoot \/ UserRequestedClientMode \/ SerialRx
  PROVE  Mail!Serve
<1>1. Typed /\ Calls
  BY DEF MailInv, Inv
<1>2. /\ todo = <<>> /\ signal \in Requests /\ signal' = None /\ served' = signal
      /\ UNCHANGED <<menu, serial_tx_buf, taken>>
  <2>1. /\ todo = <<>> /\ signal # None /\ signal[1] \in {"boot", "client", "serial"}
        /\ signal' = None /\ served' = signal
        /\ UNCHANGED <<menu, serial_tx_buf, taken>>
    BY DEF UserRequestedBoot, UserRequestedClientMode, SerialRx, Returned, Acted, ram
  <2>2. \A b : <<"block", b>>[1] = "block"
    OBVIOUS
  <2>3. signal \in Requests
    BY <1>1, <2>1, <2>2 DEF Typed
  <2>q. QED BY <2>1, <2>3
<1>3. \A f \in Fields \ {DesiredState, RxNonempty} : area'[f] = area[f]
  <2>1. UserRequestedBoot \/ UserRequestedClientMode =>
          area' = area \/ \E v : area' = [area EXCEPT ![DesiredState] = v]
    BY DEF UserRequestedBoot, UserRequestedClientMode, AcceptBoot
  <2>2. SerialRx => area' = area \/ area' = [area EXCEPT ![RxNonempty] = 1]
    BY DEF SerialRx, Enqueue
  <2>q. QED BY <1>1, <2>1, <2>2 DEF Typed
<1>4. ASSUME NEW g \in Flags, NEW r \in Requests, Ends(g, r)
      PROVE  area[g] = 0 \/ signal = r <=> area'[g] = 0 \/ signal' = r
  <2>1. area'[g] = area[g]
    <3>1. g \in Fields \ {DesiredState, RxNonempty}
      BY <1>1, <1>4, AskedFields DEF RxGroup
    <3>q. QED BY <1>3, <3>1
  <2>2. signal = r => area[g] = 0
    <3>1. Asks(g, r)
      BY <1>1, <1>4 DEF Ends, Asks, Typed
    <3>2. signal = r => Turns(g, 0)
      BY <3>1 DEF MailInv, SignalInv
    <3>q. QED BY <1>2, <3>2, NothingLeft
  <2>3. signal' # r
    BY <1>2, RequestNames
  <2>q. QED BY <2>1, <2>2, <2>3
<1>5. Asking' = Asking
  BY <1>1, <1>2, <1>4, SameAsking
<1>6. Outgoing # <<>> /\ Head(Outgoing) = signal /\ Tail(Outgoing) = Outgoing'
  <2>1. Outgoing = <<signal>> \o Asking /\ Outgoing' = <<>> \o Asking
    BY <1>2, <1>5, OutgoingIs, RequestNames
  <2>2. Asking \in Seq(Requests)
    <3>1. \A r \in Requests : <<r>> \in Seq(Requests)
      OBVIOUS
    <3>2. <<>> \in Seq(Requests)
      OBVIOUS
    <3>q. QED BY <1>1, <3>1, <3>2, AskingType
  <2>q. QED BY <1>2, <2>1, <2>2, InFront
<1>7. Connected' = Connected /\ received' = received
  BY <1>2 DEF Connected, menu
<1>8. \E answer \in Answers : Queued' = Queued \o Mail!Kept(answer)
  <2>1. CASE UserRequestedBoot \/ UserRequestedClientMode
    <3>1. Queued' = Queued
      BY <2>1 DEF UserRequestedBoot, UserRequestedClientMode, Queued, ram, rx
    <3>q. QED BY <1>1, <3>1, KeptNothing, AnswersAssumption
  <2>2. CASE SerialRx
    <3>1. PICK answer \in Answers : Enqueue(answer)
      BY <2>2 DEF SerialRx
    <3> DEFINE k == Kept(answer)
               n == serial_rx_buf_cnt
               p == serial_rx_buf_rpos
    <3>2. answer \in Seq(Bytes)
      BY AnswersAssumption
    <3>3. /\ n \in Nat /\ Capacity - n \in Nat /\ n \in 0 .. Capacity
          /\ Len(answer) \in Nat /\ p \in Ring
      BY <1>1, <3>2, Sizes DEF Typed
    <3>4. k \in 0 .. Len(answer) /\ n + k <= Capacity
      BY <3>3, Sizes DEF Kept
    <3>5. /\ serial_rx_buf_cnt' = n + k /\ serial_rx_buf_rpos' = p
          /\ serial_rx_buf' = [q \in Ring |-> IF \E i \in 1 .. k : (p + n + i - 1) % Capacity = q
                                THEN answer[CHOOSE i \in 1 .. k : (p + n + i - 1) % Capacity = q]
                                ELSE serial_rx_buf[q]]
      BY <3>1 DEF Enqueue
    <3>6. Mail!Kept(answer) = SubSeq(answer, 1, k)
      <4>1. Len(Queued) = n
        BY <1>1, <3>3, WindowType, QueuedIs DEF Typed
      <4>q. QED BY <4>1 DEF Mail!Kept, Kept
    <3>7. serial_rx_buf \in [Ring -> Bytes] /\ serial_rx_buf' \in [Ring -> Bytes]
      <4>1. Typed'
        BY <1>1, <2>2, TypedStep DEF Next, Firmware
      <4>q. QED BY <1>1, <4>1 DEF Typed
    <3>8. Filled(serial_rx_buf', serial_rx_buf, p, n, answer, k)
      BY <3>5 DEF Filled
    <3> HIDE DEF k, n, p
    <3>9. Window(serial_rx_buf', p, n + k) = Window(serial_rx_buf, p, n) \o SubSeq(answer, 1, k)
      BY <3>2, <3>3, <3>4, <3>7, <3>8, WindowFilled
    <3>10. Queued' = Queued \o Mail!Kept(answer)
      BY <3>5, <3>6, <3>9, QueuedIs DEF n, p
    <3>q. QED BY <3>10
  <2>q. QED BY <2>1, <2>2
<1>q. QED BY <1>2, <1>6, <1>7, <1>8 DEF Mail!Serve

\* What the menu does to nothing but its own half.
LEMMA MenuMail ==
  ASSUME MenuSteps
  PROVE  /\ UNCHANGED <<area, todo, signal, served, serial_tx_buf, serial_rx_buf_cnt>>
         /\ Queued' = Queued
         /\ (~ RxTake => received' = received)
         /\ (~ RxTake /\ ~ MinitelReset => taken' = taken)
<1>1. UNCHANGED firmware
  BY MenuLeaves
<1>2. /\ ~ RxTake => received' = received
      /\ ~ RxTake /\ ~ MinitelReset => taken' = taken
  BY DEF MenuSteps, PollDone, MenuStep, Reset, Dispatch, Loop, GetConfiguration, Draw, TestChanged,
         PressClient, NoTxByte, RxByte, NoRxByte, MinitelReset, PressBoot, TxByte
<1>q. QED BY <1>1, <1>2 DEF firmware, ram, rx, Queued

\* The menu goes on polling: it has connected, or nothing has changed.
LEMMA PollStep ==
  ASSUME MailInv, PollDone
  PROVE  Mail!Connect \/ Unseen
<1>1. Typed /\ Calls /\ TxInv
  BY DEF MailInv, Inv
<1>2. MenuSteps /\ ~ RxTake /\ phase' = phase /\ phase # "boot"
  BY <1>1 DEF MenuSteps, RxTake, At, PollDone, Calls
<1>3. /\ UNCHANGED <<area, todo, signal, served, serial_tx_buf, serial_rx_buf_cnt>>
      /\ Queued' = Queued /\ UNCHANGED <<taken, received>>
  BY <1>2, MenuMail DEF PollDone
<1>4. \/ \E f : polling = <<f>> /\ polling' = <<>> /\ ~ Waiting(f)
      \/ \E f, g : polling = <<f, g>> /\ polling' = <<g>> /\ ~ Waiting(f)
  BY <1>1, PollEnds
<1>5. CASE polling = <<Generation>>
  <2>1. polling' = <<>> /\ area[Generation] # initial_value
    BY <1>4, <1>5 DEF Waiting
  <2>2. todo = <<>> /\ signal = None /\ serial_rx_buf_cnt = 0
    BY <1>5, <2>1 DEF MailInv, ReadyInv
  <2>3. ~ Connected /\ Connected'
    BY <1>2, <1>5, <2>1 DEF Connected
  <2>4. taken = None
    BY <2>3 DEF MailInv, AwayInv
  <2>5. Asking = <<>> /\ Asking' = <<>>
    BY <1>5, <2>1, AskingIs, AskingStays DEF AskingTable, Quiet
  <2>6. Outgoing = <<>> /\ Outgoing' = <<>>
    <3>1. signal \notin Requests /\ signal' \notin Requests
      BY <1>3, <2>2, RequestNames
    <3>2. <<>> \o <<>> = <<>>
      OBVIOUS
    <3>q. QED BY <2>5, <3>1, <3>2, OutgoingIs
  <2>7. Queued = <<>>
    BY <2>2 DEF Queued
  <2>q. QED BY <1>3, <2>3, <2>4, <2>6, <2>7 DEF Mail!Connect
<1>6. CASE polling # <<Generation>>
  <2>1. Connected' = Connected
    <3>1. \A f : polling = <<f>> => f # Generation
      BY <1>6
    <3>2. \A f, g : polling = <<f, g>> => f # Generation /\ g # Generation
      BY <1>1, Names DEF Calls
    <3>q. QED BY <1>2, <1>4, <3>1, <3>2 DEF Connected
  <2>2. Asking' = Asking
    <3>1. CASE Quiet
      <4>1. Quiet'
        BY <1>4, <3>1 DEF Quiet
      <4>q. QED BY <3>1, <4>1, AskingIs, AskingStays DEF AskingTable
    <3>2. ASSUME NEW g \in Flags, NEW r \in Requests, Ends(g, r) PROVE Asking' = Asking
      <4>1. polling = <<g>> /\ polling' = <<>> /\ ~ Waiting(g) /\ g # Generation
        BY <1>4, <1>6, <3>2 DEF Ends
      <4>2. area[g] = 0 /\ Quiet'
        BY <4>1 DEF Waiting, Quiet
      <4>q. QED BY <3>2, <4>2, AskingIs, AskingStays DEF AskingTable
    <3>3. ASSUME NEW r \in Requests, Starts(r) PROVE Asking' = Asking
      <4>1. PICK f, g : polling = <<f, g>> /\ polling' = <<g>> /\ ~ Waiting(f)
        BY <1>4, <3>3 DEF Starts
      <4>2. Calling(g) /\ Len(polling) = 2 /\ Open
        <5>1. f # Generation
          BY <1>1, <4>1, Names DEF Calls
        <5>q. QED BY <1>2, <4>1, <5>1 DEF Calling, Open, Connected
      <4>3. Keeps(g, 1) /\ Ends(g, r)' /\ Asks(g, r)
        <5>1. CASE polling = <<Sync1, Sync2>> /\ r = <<"client">>
          <6>1. f = Sync1 /\ g = Sync2 /\ area[Sync1] = 0
            BY <4>1, <5>1, Names DEF Waiting
          <6>2. Taken(Sync1, Sync2)
            BY <4>2, <6>1 DEF MailInv, SyncInv, Rest, Keeps
          <6>3. Keeps(Sync2, 1)
            BY <6>1, <6>2, FirstCleared DEF Seen
          <6>q. QED BY <4>1, <5>1, <6>1, <6>3 DEF Ends, Asks
        <5>2. ASSUME NEW c \in Bytes, polling = <<Tx(c), TxAck>>, r = <<"serial", c>>
              PROVE  Keeps(g, 1) /\ Ends(g, r)' /\ Asks(g, r)
          <6>1. f = Tx(c) /\ g = TxAck /\ area[Tx(c)] = 0
            BY <4>1, <5>2, Names DEF Waiting
          <6>2. ~ TxRest
            BY <6>1 DEF TxRest, Keeps
          <6>3. PICK d \in Bytes : polling = <<Tx(d), TxAck>> /\ TxTaken(d)
            BY <1>1, <4>2, <6>1, <6>2 DEF TxInv
          <6>4. d = c
            BY <5>2, <6>3, Names
          <6>5. Keeps(TxAck, 1) /\ serial_tx_buf = c
            BY <6>1, <6>3, <6>4, FirstCleared DEF TxTaken, TxOthers, Seen
          <6>q. QED BY <1>3, <4>1, <5>2, <6>1, <6>5 DEF Ends, Asks
        <5>q. QED BY <3>3, <5>1, <5>2 DEF Starts
      <4>4. g \in Flags
        BY <4>3, FieldTypes DEF Asks
      <4>5. signal # r
        BY <4>3, <4>4, KeepsOrTurns DEF MailInv, SignalInv
      <4>6. Asking' = <<r>>
        <5>1. area'[g] # 0 /\ signal' # r
          BY <1>3, <4>3, <4>5 DEF Keeps
        <5>q. QED BY <4>3, <5>1, AskingStays DEF AskingTable
      <4>q. QED BY <3>3, <4>6, AskingIs DEF AskingTable
    <3>q. QED BY <1>1, <3>1, <3>2, <3>3, Shapes
  <2>3. Outgoing' = Outgoing
    BY <1>3, <2>2 DEF Outgoing, Requests
  <2>q. QED BY <1>3, <2>1, <2>3 DEF Unseen
<1>q. QED BY <1>5, <1>6

\* Two sequences with the same two elements, and with the same one.
LEMMA SameTwo ==
  ASSUME NEW S, NEW s \in Seq(S), NEW t \in Seq(S), Len(s) = 2, Len(t) = 2,
         s[1] = t[1], s[2] = t[2]
  PROVE  s = t
<1>1. \A i \in 1 .. 2 : i = 1 \/ i = 2
  OBVIOUS
<1>2. \A i \in 1 .. 2 : s[i] = t[i]
  BY <1>1
<1>q. QED BY <1>2

LEMMA SameOne ==
  ASSUME NEW S, NEW s \in Seq(S), NEW t \in Seq(S), Len(s) = 1, Len(t) = 1, s[1] = t[1]
  PROVE  s = t
<1>1. \A i \in 1 .. 1 : s[i] = t[i]
  OBVIOUS
<1>q. QED BY <1>1

\* Joining two sequences, and adding an element.
LEMMA Join ==
  ASSUME NEW S, NEW s \in Seq(S), NEW t \in Seq(S)
  PROVE  /\ s \o t \in Seq(S) /\ Len(s \o t) = Len(s) + Len(t)
         /\ \A i \in 1 .. Len(s) : (s \o t)[i] = s[i]
         /\ \A i \in 1 .. Len(t) : (s \o t)[i + Len(s)] = t[i]
OBVIOUS

LEMMA Joined ==
  ASSUME NEW S, NEW s \in Seq(S), NEW t \in Seq(S), Len(s) = 1, Len(t) = 1
  PROVE  /\ s \o t \in Seq(S) /\ Len(s \o t) = 2
         /\ (s \o t)[1] = s[1] /\ (s \o t)[2] = t[1]
<1>1. 1 + 1 = 2 /\ 1 \in 1 .. 1
  OBVIOUS
<1>q. QED BY <1>1, Join

LEMMA Add ==
  ASSUME NEW S, NEW s \in Seq(S), NEW x \in S
  PROVE  /\ Append(s, x) \in Seq(S) /\ Len(Append(s, x)) = Len(s) + 1
         /\ \A i \in 1 .. Len(s) : Append(s, x)[i] = s[i]
         /\ Append(s, x)[Len(s) + 1] = x
OBVIOUS

LEMMA Added ==
  ASSUME NEW S, NEW s \in Seq(S), NEW x \in S, Len(s) = 1
  PROVE  /\ Append(s, x) \in Seq(S) /\ Len(Append(s, x)) = 2
         /\ Append(s, x)[1] = s[1] /\ Append(s, x)[2] = x
<1> DEFINE u == Append(s, x)
<1>1. /\ u \in Seq(S) /\ Len(u) = Len(s) + 1
      /\ \A i \in 1 .. Len(s) : u[i] = s[i]
      /\ u[Len(s) + 1] = x
  BY ONLY s \in Seq(S), x \in S, Add
<1>2. 1 + 1 = 2 /\ 1 \in 1 .. 1
  OBVIOUS
<1> HIDE DEF u
<1>3. u \in Seq(S) /\ Len(u) = 2 /\ u[1] = s[1] /\ u[2] = x
  BY <1>1, <1>2
<1>q. QED BY <1>3 DEF u

\* One request in front of another, and alone.
LEMMA Pairs ==
  ASSUME NEW S, NEW x \in S, NEW r \in S
  PROVE  /\ <<x>> \o <<r>> = <<x, r>> /\ <<x>> \o <<>> = <<x>>
         /\ <<>> \o <<r>> = <<r>> /\ <<>> \o <<>> = <<>>
         /\ Append(<<x>>, r) = <<x, r>> /\ Append(<<>>, r) = <<r>>
         /\ SubSeq(<<x, r>>, 1, Len(<<x, r>>) - 1) = <<x>>
         /\ SubSeq(<<r>>, 1, Len(<<r>>) - 1) = <<>>
<1> DEFINE one == <<x>>  two == <<x, r>>
<1>1. /\ one \in Seq(S) /\ Len(one) = 1 /\ one[1] = x
      /\ two \in Seq(S) /\ Len(two) = 2 /\ two[1] = x /\ two[2] = r
  OBVIOUS
<1>2. <<r>> \in Seq(S) /\ Len(<<r>>) = 1 /\ <<r>>[1] = r
  OBVIOUS
<1>3. <<x>> \o <<>> = <<x>> /\ <<>> \o <<r>> = <<r>> /\ <<>> \o <<>> = <<>>
  OBVIOUS
<1>4. Append(<<>>, r) = <<r>>
  BY <1>2
<1>5. SubSeq(<<r>>, 1, Len(<<r>>) - 1) = <<>>
  BY <1>2
<1> HIDE DEF one, two
<1>6. one \o <<r>> = two
  <2> DEFINE last == <<r>>
  <2>1. last \in Seq(S) /\ Len(last) = 1 /\ last[1] = r
    BY <1>2
  <2> HIDE DEF last
  <2>2. /\ one \o last \in Seq(S) /\ Len(one \o last) = 2
        /\ (one \o last)[1] = x /\ (one \o last)[2] = r
    BY <1>1, <2>1, Joined
  <2>3. one \o last = two
    BY <1>1, <2>2, SameTwo
  <2>q. QED BY <2>3 DEF last
<1>7. Append(one, r) = two
  <2>1. /\ Append(one, r) \in Seq(S) /\ Len(Append(one, r)) = 2
        /\ Append(one, r)[1] = x /\ Append(one, r)[2] = r
    BY <1>1, Added
  <2>q. QED BY <1>1, <2>1, SameTwo
<1>8. SubSeq(two, 1, Len(two) - 1) = one
  <2> DEFINE u == SubSeq(two, 1, 1)
  <2>1. u \in Seq(S) /\ Len(u) = 1 /\ u[1] = x
    BY <1>1
  <2>2. Len(two) - 1 = 1
    BY <1>1
  <2> HIDE DEF u
  <2>3. u = one
    BY <1>1, <2>1, SameOne
  <2>q. QED BY <2>2, <2>3 DEF u
<1>q. QED BY <1>3, <1>4, <1>5, <1>6, <1>7, <1>8 DEF one, two

\* The Minitel restarts: what it was asking is lost, what the firmware has is not.
LEMMA DisconnectStep ==
  ASSUME MailInv, MinitelReset
  PROVE  Mail!Disconnect
<1>1. Typed /\ Calls
  BY DEF MailInv, Inv
<1>2. /\ UNCHANGED <<signal, served>> /\ Queued' = Queued
  BY MenuMail DEF MenuSteps
<1>3. /\ taken' = None /\ received' = received /\ phase' = "boot" /\ polling' = <<>>
  BY DEF MinitelReset, Go, Poll
<1>4. ~ Connected'
  BY <1>3 DEF Connected
<1>5. Asking' = <<>>
  BY <1>3, AskingStays DEF AskingTable, Quiet
<1>6. Outgoing' \in {Outgoing, SubSeq(Outgoing, 1, Len(Outgoing) - 1)}
  <2>1. CASE Asking = <<>>
    BY <1>2, <1>5, <2>1 DEF Outgoing, Requests
  <2>2. CASE \E r \in Requests : Asking = <<r>>
    <3>1. PICK r \in Requests : Asking = <<r>>
      BY <2>2
    <3>5. CASE signal \in Requests
      <4>1. Outgoing = <<signal, r>> /\ Outgoing' = <<signal>>
        BY <1>2, <1>5, <3>1, <3>5, OutgoingIs, Pairs
      <4>q. QED BY <3>5, <4>1, Pairs
    <3>6. CASE signal \notin Requests
      <4>1. Outgoing = <<r>> /\ Outgoing' = <<>>
        BY <1>2, <1>5, <3>1, <3>6, OutgoingIs, Pairs
      <4>q. QED BY <4>1, Pairs
    <3>q. QED BY <3>5, <3>6
  <2>q. QED BY <1>1, <2>1, <2>2, AskingType
<1>q. QED BY <1>2, <1>3, <1>4, <1>6 DEF Mail!Disconnect

\* The menu makes a request.
LEMMA RequestStep ==
  ASSUME MailInv, MenuSteps, polling = <<>>, phase # "boot", ~ RxTake, ~ MinitelReset,
         ~ Quiet', NEW r \in Requests, Asking' = <<r>>
  PROVE  Mail!Request(r)
<1>1. Typed /\ Calls
  BY DEF MailInv, Inv
<1>2. /\ UNCHANGED <<signal, served, taken, received>> /\ Queued' = Queued
  BY MenuMail
<1>3. Connected /\ Connected'
  BY <1>1, Connects DEF Connected
<1>4. Asking = <<>>
  BY AskingIs DEF AskingTable, Quiet
<1>5. Len(Outgoing) < 2 /\ Outgoing' = Append(Outgoing, r)
  <2>1. CASE signal \in Requests
    <3>1. Outgoing = <<signal>> /\ Outgoing' = <<signal, r>>
      BY <1>2, <1>4, <2>1, OutgoingIs, Pairs
    <3>2. Len(<<signal>>) < 2
      OBVIOUS
    <3>q. QED BY <2>1, <3>1, <3>2, Pairs
  <2>2. CASE signal \notin Requests
    <3>1. Outgoing = <<>> /\ Outgoing' = <<r>>
      BY <1>2, <1>4, <2>2, OutgoingIs, Pairs
    <3>2. Len(<<>>) < 2
      OBVIOUS
    <3>q. QED BY <3>1, <3>2, Pairs
  <2>q. QED BY <2>1, <2>2
<1>q. QED BY <1>2, <1>3, <1>5 DEF Mail!Request

\* The menu is handed the byte.
LEMMA ReceiveStep ==
  ASSUME MailInv, RxTake
  PROVE  Mail!Receive
<1>1. Typed /\ Calls
  BY DEF MailInv, Inv
<1>2. MenuSteps /\ ~ MinitelReset
  BY DEF MenuSteps, MenuStep, RxTake, MinitelReset, Go
<1>3. /\ UNCHANGED <<signal, served>> /\ Queued' = Queued
  BY <1>2, MenuMail
<1>4. /\ polling = <<>> /\ phase = "take" /\ polling' = <<RxUnlock>>
      /\ received' = area[RxData] /\ taken' = None
  BY DEF RxTake, At, Poll
<1>5. Connected /\ Connected'
  BY <1>1, <1>2, <1>4, Connects DEF Connected
<1>6. taken # None /\ area[RxData] = taken
  <2>1. Open /\ ~ Calling(RxLock)
    BY <1>4, <1>5 DEF Open, Calling
  <2>q. QED BY <1>4, <2>1 DEF MailInv, HeldInv, Handed, Keeps
<1>7. Asking = <<>> /\ Asking' = <<>>
  BY <1>4, AskingIs, AskingStays DEF AskingTable, Quiet
<1>8. Outgoing' = Outgoing
  BY <1>3, <1>7 DEF Outgoing, Requests
<1>q. QED BY <1>3, <1>4, <1>5, <1>6, <1>8 DEF Mail!Receive

\* A step of the menu that begins no request.
LEMMA AskNothing ==
  ASSUME MailInv, MenuSteps, polling = <<>>, ~ RxTake, ~ MinitelReset, ~ PollDone,
         Asking' = <<>>
  PROVE  Unseen
<1>1. Typed /\ Calls
  BY DEF MailInv, Inv
<1>2. /\ UNCHANGED <<signal, served, taken, received>> /\ Queued' = Queued
  BY MenuMail
<1>3. Connected' = Connected
  BY <1>1, Connects DEF Connected
<1>4. Asking = <<>>
  BY AskingIs DEF AskingTable, Quiet
<1>5. Outgoing' = Outgoing
  BY <1>2, <1>4 DEF Outgoing, Requests
<1>q. QED BY <1>2, <1>3, <1>5 DEF Unseen

\* Every step of the menu.
LEMMA MenuMails ==
  ASSUME MailInv, MenuSteps
  PROVE  Mail!Next \/ Unseen
<1>1. Typed /\ Calls
  BY DEF MailInv, Inv
<1>2. CASE PollDone
  BY <1>2, PollStep DEF Mail!Next
<1>3. CASE MinitelReset
  BY <1>3, DisconnectStep DEF Mail!Next
<1>4. CASE RxTake
  BY <1>4, ReceiveStep DEF Mail!Next
<1>5. CASE ~ PollDone /\ ~ MinitelReset /\ ~ RxTake
  <2>1. polling = <<>>
    BY <1>1, <1>5, MenuAsks
  <2>2. CASE Quiet'
    <3>1. Asking' = <<>>
      BY <2>2, AskingStays DEF AskingTable
    <3>q. QED BY <1>5, <2>1, <3>1, AskNothing
  <2>3. ASSUME NEW s \in Slots, PressBoot(s) PROVE Mail!Next \/ Unseen
    <3> DEFINE r == <<"boot", s>>
    <3>1. polling' = <<Boot(s)>> /\ phase = "keys" /\ r \in Requests
      BY <2>3, RequestNames DEF PressBoot, At, Poll
    <3>2. Ends(Boot(s), r)'
      BY <3>1 DEF Ends
    <3> HIDE DEF r
    <3>3. Asking' = IF area'[Boot(s)] = 0 \/ signal' = r THEN <<>> ELSE <<r>>
      BY <3>1, <3>2, AskingStays DEF AskingTable
    <3>4. CASE Asking' = <<>>
      BY <1>5, <2>1, <3>4, AskNothing
    <3>5. CASE Asking' = <<r>>
      <4>1. phase # "boot"
        BY <3>1
      <4>2. ~ Quiet'
        BY <3>1, Names DEF Quiet
      <4>3. Mail!Request(r)
        BY <1>5, <2>1, <3>1, <3>5, <4>1, <4>2, RequestStep
      <4>q. QED BY <3>1, <4>3 DEF Mail!Next
    <3>q. QED BY <3>3, <3>4, <3>5
  <2>4. ASSUME NEW r \in Requests, Starts(r)', phase # "boot" PROVE Mail!Next \/ Unseen
    <3>1. Asking' = <<r>>
      BY <2>4, AskingStays DEF AskingTable
    <3>2. ~ Quiet'
      BY <2>4, Names DEF Quiet, Starts
    <3>3. Mail!Request(r)
      BY <1>5, <2>1, <2>4, <3>1, <3>2, RequestStep
    <3>q. QED BY <2>4, <3>3 DEF Mail!Next
  <2>5. CASE PressClient
    <3>1. Starts(<<"client">>)' /\ phase # "boot"
      BY <2>5 DEF PressClient, At, Poll, Starts
    <3>q. QED BY <2>4, <3>1, RequestNames
  <2>6. ASSUME NEW c \in Bytes, TxByte(c) PROVE Mail!Next \/ Unseen
    <3>1. Starts(<<"serial", c>>)' /\ phase # "boot"
      BY <2>6 DEF TxByte, At, Poll, Starts
    <3>q. QED BY <2>4, <3>1, RequestNames
  <2>q. QED BY <1>1, <1>5, <2>2, <2>3, <2>5, <2>6, MenuAsks
<1>q. QED BY <1>2, <1>3, <1>4, <1>5

\* Every step of the system is a step of Mailbox or one that it does not see.
LEMMA MailNext == MailInv /\ Next => Mail!Next \/ Unseen
<1> SUFFICES ASSUME MailInv, Next PROVE Mail!Next \/ Unseen
  OBVIOUS
<1>1. CASE MenuSteps
  BY <1>1, MenuMails
<1>2. CASE HandleReset
  BY <1>2, DiscardStep DEF Mail!Next
<1>3. CASE HandleRxLock
  BY <1>3, TakeStep DEF Mail!Next
<1>4. CASE (\E s \in Slots : HandleBoot(s)) \/ HandleSync2 \/ HandleTxAck
  BY <1>4, PassStep
<1>5. CASE UserRequestedBoot \/ UserRequestedClientMode \/ SerialRx
  BY <1>5, ServeStep DEF Mail!Next
<1>q. QED BY <1>1, <1>2, <1>3, <1>4, <1>5, QuietStep

LEMMA MailStutter == UNCHANGED vars => Unseen
<1> SUFFICES ASSUME UNCHANGED vars PROVE Unseen
  OBVIOUS
<1>1. UNCHANGED <<area, ram, todo, signal, menu, served, taken>>
  BY DEF vars
<1>2. UNCHANGED <<phase, polling, received, serial_tx_buf, rx>>
  BY <1>1 DEF ram, menu
<1>3. Connected' = Connected
  BY <1>2 DEF Connected
<1>4. Asking' = Asking
  BY <1>1, <1>2 DEF Asking
<1>5. Outgoing' = Outgoing /\ Queued' = Queued
  BY <1>1, <1>2, <1>4 DEF Outgoing, Queued, Requests, rx
<1>q. QED BY <1>1, <1>2, <1>3, <1>5 DEF Unseen

LEMMA MailInit == Init => Mail!Init
<1> SUFFICES ASSUME Init PROVE Mail!Init
  OBVIOUS
<1>1. phase = "boot" /\ polling = <<>> /\ signal = None /\ serial_rx_buf_cnt = 0
      /\ served = None /\ taken = None /\ received = None
  BY DEF Init
<1>2. ~ Connected
  BY <1>1 DEF Connected
<1>3. Outgoing = <<>>
  <2>1. Asking = <<>>
    BY <1>1, AskingIs DEF AskingTable, Quiet
  <2>2. signal \notin Requests
    BY <1>1, RequestNames
  <2>3. <<>> \o <<>> = <<>>
    OBVIOUS
  <2>q. QED BY <2>1, <2>2, <2>3, OutgoingIs
<1>4. Queued = <<>>
  BY <1>1 DEF Queued
<1>q. QED BY <1>1, <1>2, <1>3, <1>4 DEF Mail!Init, Connected

\* Magic I/O implements Mailbox: the menu's requests reach the main loop once each and in
\* order, the bytes of an answer that fit reach the menu once each and in order, and nothing
\* of an earlier session reaches a Minitel that has restarted.
THEOREM Implementation == Spec => ImplementsMailbox
<1>1. MailInv /\ [Next]_vars => [Mail!Next]_(Mail!vars)
  BY MailNext, MailStutter DEF Unseen, Mail!vars
<1>q. QED BY RequestsInvariance, MailInit, <1>1, PTL DEF Spec, ImplementsMailbox, Mail!Spec
=============================================================================
