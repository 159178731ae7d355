---------------------------- MODULE RomCatalog ----------------------------
(***************************************************************************)
(* What the data partition promises its callers: a catalogue of ROMs in    *)
(* which each slot is empty or holds the complete data of one upload, and  *)
(* in which every operation, a power cut included, takes effect at once or *)
(* not at all.                                                             *)
(***************************************************************************)
EXTENDS Naturals, Sequences

CONSTANTS Slots, Byte, MaxMemSize, None

VARIABLES
  catalogue,  \* [Slots -> the stored data, or None]
  upload      \* the upload in progress: a slot and the data so far, or None

vars == <<catalogue, upload>>

Init == catalogue = [s \in Slots |-> None] /\ upload = None

\* Starting an upload empties the slot.
Begin(s) ==
  /\ catalogue' = [catalogue EXCEPT ![s] = None]
  /\ upload' = [slot |-> s, data |-> <<>>]

Append1(v) ==
  /\ upload # None
  /\ Len(upload.data) < MaxMemSize
  /\ upload' = [upload EXCEPT !.data = Append(@, v)]
  /\ UNCHANGED catalogue

Commit ==
  /\ upload # None
  /\ upload.data # <<>>
  /\ catalogue' = [catalogue EXCEPT ![upload.slot] = upload.data]
  /\ upload' = None

Erase(s) ==
  /\ catalogue' = [catalogue EXCEPT ![s] = None]
  /\ UNCHANGED upload

\* A power cut, or the caller turning to something else.
Abandon == upload' = None /\ UNCHANGED catalogue

Next ==
  \/ \E s \in Slots : Begin(s) \/ Erase(s)
  \/ \E v \in Byte : Append1(v)
  \/ Commit \/ Abandon

Spec == Init /\ [][Next]_vars
=============================================================================
