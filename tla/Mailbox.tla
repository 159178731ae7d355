------------------------------- MODULE Mailbox -------------------------------
(***************************************************************************)
(* What magic I/O promises to the firmware and to the menu, and nothing of *)
(* how: requests of the menu reach the firmware once each and in order,    *)
(* the firmware's bytes reach the menu once each and in order, but for     *)
(* those that find the queue full, and a Minitel that restarts finds every *)
(* queue empty.                                                            *)
(***************************************************************************)
EXTENDS Naturals, Sequences

CONSTANTS
  Requests,       \* keys and bytes the menu sends
  Answers,        \* the sequences of bytes the firmware may answer a request with
  Capacity,       \* bytes the firmware keeps for the menu
  None

VARIABLES
  connected,      \* is the menu past its reset of magic I/O?
  to_firmware,    \* requests made and not yet acted on, oldest first
  served,         \* the last request the firmware acted on
  to_menu,        \* bytes waiting for the menu
  taken,          \* the byte the menu is being handed
  received        \* the last byte the menu got

vars == <<connected, to_firmware, served, to_menu, taken, received>>

Init ==
  /\ connected = FALSE
  /\ to_firmware = <<>>
  /\ served = None
  /\ to_menu = <<>>
  /\ taken = None
  /\ received = None

\* The menu may be one request ahead of the firmware.
Request(r) ==
  /\ connected
  /\ Len(to_firmware) < 2
  /\ to_firmware' = Append(to_firmware, r)
  /\ UNCHANGED <<connected, served, to_menu, taken, received>>

\* What fits of the answer is kept.
Kept(answer) ==
  LET room == Capacity - Len(to_menu)
  IN SubSeq(answer, 1, IF Len(answer) < room THEN Len(answer) ELSE room)

Serve ==
  /\ to_firmware # <<>>
  /\ served' = Head(to_firmware)
  /\ to_firmware' = Tail(to_firmware)
  /\ to_menu' \in {to_menu \o Kept(answer) : answer \in Answers}
  /\ UNCHANGED <<connected, taken, received>>

Take ==
  /\ connected /\ taken = None /\ to_menu # <<>>
  /\ taken' = Head(to_menu)
  /\ to_menu' = Tail(to_menu)
  /\ UNCHANGED <<connected, to_firmware, served, received>>

Receive ==
  /\ taken # None
  /\ received' = taken
  /\ taken' = None
  /\ UNCHANGED <<connected, to_firmware, served, to_menu>>

\* The Minitel restarts; the request it was making may be lost.
Disconnect ==
  /\ connected' = FALSE
  /\ to_firmware' \in {to_firmware, SubSeq(to_firmware, 1, Len(to_firmware) - 1)}
  /\ taken' = None
  /\ UNCHANGED <<served, to_menu, received>>

Discard ==
  /\ ~ connected
  /\ to_menu' = <<>>
  /\ UNCHANGED <<connected, to_firmware, served, taken, received>>

Connect ==
  /\ ~ connected
  /\ to_firmware = <<>> /\ to_menu = <<>> /\ taken = None
  /\ connected' = TRUE
  /\ UNCHANGED <<to_firmware, served, to_menu, taken, received>>

Next ==
  \/ \E r \in Requests : Request(r)
  \/ Serve \/ Take \/ Receive \/ Disconnect \/ Discard \/ Connect

Spec == Init /\ [][Next]_vars
=============================================================================
