----------------------------- MODULE PacketBody -----------------------------
(***************************************************************************)
(* pcap/body: what the six body classes take out of a frame.               *)
(*                                                                         *)
(* The data of a frame is read by its length on the wire, but the file has *)
(* of it only what was captured: the data are the first `own' bytes of the *)
(* frame, and from there to `length' bytes of whatever follows in the file.*)
(* A byte is the place it has, <<header, offset in it>>, or <<"next", _>>: *)
(* a field is read right when it is made of the bytes where the protocols  *)
(* put it.  The offsets are those the classes are written with.            *)
(***************************************************************************)
EXTENDS Integers, Sequences

Link     == {"ethernet", "linux_sll", "linux_sll_v2"}
Protocol == {"udp", "tcp", "other"}

(* The frame on the wire; an IP header without options, as the code assumes.*)
LinkHeader == [ethernet |-> 14, linux_sll |-> 16, linux_sll_v2 |-> 20]

ByteOf(link, data, k) ==
    LET ip == LinkHeader[link]
        transport == ip + 20
    IN  IF data.own <= k THEN <<"next", k - data.own>>
        ELSE IF k < ip THEN <<"link", k>>
        ELSE IF k < transport THEN <<"ip", k - ip>>
        ELSE <<"transport", k - transport>>

(* data[from:to], which ends where the data do.                             *)
Slice(link, data, from, to) ==
    LET end == IF to < data.length THEN to ELSE data.length
    IN  [i \in 1 .. end - from |-> ByteOf(link, data, from + i - 1)]

(* A number is the byte that has each weight: int.from_bytes(_, "little"),  *)
(* 0 for no bytes at all.                                                   *)
Little(bytes) == [weight \in 0 .. Len(bytes) - 1 |-> bytes[weight + 1]]

(* The n-th bit of a byte, if there is one.                                 *)
Bit(byte, n) == [i \in DOMAIN byte |-> <<byte[i], n>>]

(* Faulty variant: the addresses are swapped.                               *)
IpHeader_Swapped(link, data, base) ==
    [protocol       |-> Little(Slice(link, data, base + 9, base + 10)),
     source_ip      |-> Slice(link, data, base + 16, base + 20),
     destination_ip |-> Slice(link, data, base + 12, base + 16)]

IpHeader(link, data, base) ==
    [protocol       |-> Little(Slice(link, data, base + 9, base + 10)),
     source_ip      |-> Slice(link, data, base + 12, base + 16),
     destination_ip |-> Slice(link, data, base + 16, base + 20)]

UdpHeader(link, data, base) ==
    [length   |-> Little(Slice(link, data, base + 4, base + 6)),
     checksum |-> Little(Slice(link, data, base + 6, base + 8))]

(* Of the two bytes at flags only the second is looked at, through a mask   *)
(* (ACK_AND_PSH) that lets both bits pass.                                  *)
TcpFlags(link, data, flags) ==
    LET second == Slice(link, data, flags + 1, flags + 2)
    IN  [ack |-> Bit(second, 3), psh |-> Bit(second, 4)]

-----------------------------------------------------------------------------
(* The classes are the offsets they read at.                                *)
UdpEthernet   == [ip |-> 14, udp |-> 34, payload |-> 42]
UdpLinuxSll   == [ip |-> 16, udp |-> 36, payload |-> 44]
UdpLinuxSllV2 == [ip |-> 20, udp |-> 40, payload |-> 48]
TcpEthernet   == [ip |-> 14, flags |-> 46, length |-> 57, checksum |-> 50, payload |-> 66]
TcpLinuxSll   == [ip |-> 16, flags |-> 48, length |-> 59, checksum |-> 52, payload |-> 68]
(* IP header and payload are read as if the link header had 16 bytes.       *)
TcpLinuxSllV2 == [ip |-> 16, flags |-> 52, length |-> 63, checksum |-> 56, payload |-> 68]

BodyTable ==
    [ethernet     |-> [udp |-> UdpEthernet,   tcp |-> TcpEthernet],
     linux_sll    |-> [udp |-> UdpLinuxSll,   tcp |-> TcpLinuxSll],
     linux_sll_v2 |-> [udp |-> UdpLinuxSllV2, tcp |-> TcpLinuxSllV2]]

Udp(link, data, at) ==
    [ip |-> IpHeader(link, data, at.ip), udp |-> UdpHeader(link, data, at.udp),
     payload |-> Slice(link, data, at.payload, data.length)]

Tcp(link, data, at) ==
    [ip |-> IpHeader(link, data, at.ip), flags |-> TcpFlags(link, data, at.flags),
     length |-> Little(Slice(link, data, at.length, at.length + 1)),
     checksum |-> Little(Slice(link, data, at.checksum, at.checksum + 2)),
     payload |-> Slice(link, data, at.payload, data.length)]

Parse(link, class, data) ==
    LET at == BodyTable[link][class]
    IN  IF class = "udp" THEN Udp(link, data, at) ELSE Tcp(link, data, at)

(* Faulty variant: the offset for Ethernet serves every link type.          *)
ProtocolOffset_Ethernet == [link \in Link |-> 23]

ProtocolOffset == [ethernet |-> 23, linux_sll |-> 25, linux_sll_v2 |-> 29]

(* What the byte at the offset may say: the protocol of the frame, anything *)
(* if it is another byte, 0 if there is none.                               *)
DetectProtocol(link, protocol, data) ==
    LET byte == Slice(link, data, ProtocolOffset[link], ProtocolOffset[link] + 1)
    IN  IF byte = <<>> THEN {"other"}
        ELSE IF byte[1] = <<"ip", 9>> THEN {protocol}
        ELSE Protocol

(* TCP is the fallback.                                                     *)
BodyClass(detected) == IF detected = "udp" THEN "udp" ELSE "tcp"

=============================================================================
