--------------------------- MODULE MCPcapReading ---------------------------
(***************************************************************************)
(* Instances of PcapReading for TLC.                                       *)
(***************************************************************************)
EXTENDS PcapReading

DropUdp == {{}, {"udp"}}
=============================================================================
