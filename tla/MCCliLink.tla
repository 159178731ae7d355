------------------------------ MODULE MCCliLink ------------------------------
(* The first command is a packet as long as the decoder takes, and its data   *)
(* begins like a packet: torn, it swallows the ping of the next program. One  *)
(* ping carries the first byte of the begin magic.                            *)
EXTENDS CliLink

MCPingData == <<<<1, 1>>, <<2, MAGIC_BEGIN_1>>, <<2, 1>>>>
MCJob == <<<<MAGIC_BEGIN_1, MAGIC_BEGIN_2, 1, 0>>, <<7>>>>
MCStrayBytes == {MAGIC_BEGIN_1}

\* The published check value of this CRC, that of "123456789".
ASSUME CheckValue == Checksum(<<49, 50, 51, 52, 53, 54, 55, 56, 57>>) = 12739

\* The data that BoundedDeafness, OnlySentPackets and RepliesAreOwn are about.
ASSUME Plain == PlainPings /\ PlainData
=============================================================================
