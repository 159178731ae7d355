------------------------------ MODULE MCMagicIo ------------------------------
(* An instance of MagicIo for TLC.                                           *)
EXTENDS MagicIo

CONSTANTS byteA, byteB

\* No reply, or one that fills the queue.
MCAnswers == {<<>>, <<byteA, byteB>>}
MCShortAnswers == {<<>>, <<byteA>>}
=============================================================================
