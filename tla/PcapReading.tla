----------------------------- MODULE PcapReading -----------------------------
(***************************************************************************)
(* PcapReader and MultiPcapReader: captures read packet by packet into a   *)
(* PcapPool, and the times packets are played by.  The daemon reads its    *)
(* files with the splitter instead; the two are shown to see the same      *)
(* packets in a file, as far as the reader comes.                          *)
(*                                                                         *)
(* A record is what its header tells: the time and how many bytes of the   *)
(* frame were captured and were sent; and the protocol of the frame.       *)
(* Times are integers, the code's floats.  packet_index is the place in    *)
(* the pool.                                                               *)
(***************************************************************************)
EXTENDS PacketBody, SequencesExt

CONSTANTS
    Stamp,      \* values of PacketHeader.time_stamp
    Size,       \* numbers of bytes: of a frame, captured of it, left in the file
    FileLink,   \* link types of the captures, the unknown ones included
    Filter,     \* the filter functions in use, as the body classes they drop
    MaxPackets, \* bound: records of one file, and packets kept when astray
    None        \* Python's None

ASSUME ReadingAssumption ==
    /\ Stamp \subseteq Nat /\ None \notin Nat
    /\ Size \subseteq Nat
    /\ Filter \subseteq SUBSET {"udp", "tcp"}
    /\ MaxPackets \in Nat

Record == [stamp : Stamp, protocol : Protocol, captured : Size, sent : Size]
Data   == [own : Size, length : Size]

VARIABLES
    worldFirst, \* MultiPcapReader._world_first_time
    state,      \* of the current reader: "none", "reading", "returned", "raised"
    reader,     \* its arguments and the locals of read
    pool,       \* PcapReader._pool
    file,       \* observer: the records of the file as far as it was read
    clocks      \* observer: what the packets read for MultiPcapReader are timed by

vars == <<worldFirst, state, reader, pool, file, clocks>>

-----------------------------------------------------------------------------
Splitter == INSTANCE PcapSplit

(* TimeCalculator.calculate                                                 *)
Since(stamp, reference) == IF reference = None THEN 0 ELSE stamp - reference

Calculate(stamp, previous, first, world) ==
    [stamp |-> stamp,
     offset |-> Since(stamp, previous),
     accumulated |-> Since(stamp, first),
     world |-> IF world = None THEN Since(stamp, first) ELSE Since(stamp, world)]

(* Faulty variant: the file's reference moves with each packet.             *)
FirstTime_Moves(first, stamp) == stamp

FirstTime(first, stamp) == IF first = None THEN stamp ELSE first

-----------------------------------------------------------------------------
Init ==
    /\ worldFirst = None /\ state = "none"
    /\ reader = [multi |-> TRUE, link |-> "ethernet", dropped |-> {}, world |-> None,
                 previous |-> None, first |-> None]
    /\ pool = <<>> /\ file = <<>> /\ clocks = [first |-> {}, later |-> {}]

(* A reader of its own for each file.  One used without MultiPcapReader has *)
(* no reference.                                                            *)
Open(multi, link, dropped) ==
    /\ state # "reading"
    /\ state' = "reading"
    /\ reader' = [multi |-> multi, link |-> link, dropped |-> dropped,
                  world |-> IF multi THEN worldFirst ELSE None,
                  previous |-> None, first |-> None]
    /\ pool' = <<>> /\ file' = <<>>
    /\ UNCHANGED <<worldFirst, clocks>>

(* The rest of an iteration of read, once it has a body.                    *)
KeepUnlessFiltered(stamp, class, of) ==
    LET kept == class \notin reader.dropped
        time == Calculate(stamp, reader.previous, reader.first, reader.world)
        turn == IF reader.world = None THEN "first" ELSE "later"
    IN  /\ pool' = IF ~kept THEN pool
                   ELSE Append(pool, [of |-> of, class |-> class, time |-> time])
        /\ reader' = [reader EXCEPT !.previous = stamp, !.first = FirstTime(@, stamp)]
        /\ clocks' = IF kept /\ reader.multi
                     THEN [clocks EXCEPT ![turn] = @ \cup {time.stamp - time.world}]
                     ELSE clocks
        /\ UNCHANGED <<worldFirst, state>>

(* file_point.read(packlen): all that was captured and what follows it, the *)
(* file ending there or not, or the end of the file in the captured part.   *)
Body(record) ==
    {data \in Data :
        \/ /\ data.own = record.captured
           /\ data.own <= data.length /\ data.length <= record.sent
        \/ data.own < record.captured /\ data.length = data.own}

(* The next header is where the body that was read ended: after the record, *)
(* unless the file ended before, or more was read than had been captured.   *)
Ended  == file # <<>> /\ Last(file).data.length < Last(file).record.sent
Astray == file # <<>> /\ Last(file).data.length > Last(file).record.captured

(* The next record of the file is come to, and its body is data.  A frame   *)
(* of UDP or TCP has room for the headers.                                  *)
ComeTo(record, data) ==
    /\ state = "reading" /\ ~Ended /\ ~Astray /\ Len(file) < MaxPackets
    /\ record.captured <= record.sent
    /\ reader.link \in Link /\ record.protocol # "other" =>
           LinkHeader[reader.link] + 28 <= record.sent
    /\ data \in Body(record)
    /\ file' = Append(file, [record |-> record, data |-> data])

ReadPacket(record, data) ==
    /\ reader.link \in Link
    /\ ComeTo(record, data) /\ data.length > 0
    /\ \E protocol \in DetectProtocol(reader.link, record.protocol, data) :
           KeepUnlessFiltered(record.stamp, BodyClass(protocol), Len(file'))

(* Whatever bytes come next are taken for a header and a body.              *)
ReadStray(stamp, class) ==
    /\ state = "reading" /\ Astray /\ ~Ended /\ Len(pool) < MaxPackets
    /\ KeepUnlessFiltered(stamp, class, 0)
    /\ UNCHANGED file

(* Faulty variant: the reference follows each file that is read.            *)
Reference_Latest(world) == IF pool = <<>> THEN world ELSE pool[1].time.stamp

(* The first packet ever kept becomes the reference.                        *)
Reference(world) ==
    IF world = None /\ pool # <<>> THEN pool[1].time.stamp ELSE world

Return ==
    /\ state' = "returned"
    /\ worldFirst' = IF reader.multi THEN Reference(worldFirst) ELSE worldFirst
    /\ UNCHANGED <<reader, pool, clocks>>

(* There is no header, or one that was cut short, which reads as a length   *)
(* for which nothing is left.                                               *)
ReturnAtEnd == state = "reading" /\ Return /\ UNCHANGED file

(* There is a header but no body: nothing was sent, or nothing is left.     *)
ReturnAtBody(record, data) ==
    /\ ComeTo(record, data) /\ data.length = 0
    /\ Return

(* KeyError: no protocol offset for this link type.                         *)
UnknownLink ==
    /\ state = "reading" /\ reader.link \notin Link
    /\ state' = "raised"
    /\ UNCHANGED <<worldFirst, reader, pool, file, clocks>>

Reset ==
    /\ state # "reading"
    /\ worldFirst' = None /\ clocks' = [first |-> {}, later |-> {}]
    /\ UNCHANGED <<state, reader, pool, file>>

Next ==
    \/ \E multi \in BOOLEAN, link \in FileLink, dropped \in Filter :
           Open(multi, link, dropped)
    \/ \E record \in Record, data \in Data : ReadPacket(record, data)
    \/ \E stamp \in Stamp, class \in {"udp", "tcp"} : ReadStray(stamp, class)
    \/ ReturnAtEnd
    \/ \E record \in Record, data \in Data : ReturnAtBody(record, data)
    \/ UnknownLink
    \/ Reset

Spec == Init /\ [][Next]_vars

-----------------------------------------------------------------------------
(* All packets read after the reference was set are timed by one clock,     *)
(* the reference that is current, whichever file they come from.            *)
LaterFilesAgree == clocks.later \subseteq {worldFirst}

(* Within a file the three clocks run alike, whatever the filter drops.     *)
ClocksRunAlike ==
    \A i, j \in DOMAIN pool :
        LET a == pool[i].time
            b == pool[j].time
        IN  /\ b.accumulated - a.accumulated = b.stamp - a.stamp
            /\ b.world - a.world = b.stamp - a.stamp

(* Of the records it comes to, the reader finds those the splitter finds,   *)
(* less what the filter drops, in order and once each, and perhaps the one  *)
(* the file ends in; and other packets only behind one that was snapped.    *)
(* Left open is a record whose protocol byte was not captured: the reader   *)
(* takes the class from what follows it in the file.                        *)
ReadersAgree ==
    state = "returned" =>
        LET cutOff == file # <<>> /\ Last(file).data.own < Last(file).record.captured
            readable == DOMAIN Splitter!Readable([packets |-> file, cutOff |-> cutOff])
            plain == {k \in DOMAIN file :
                         /\ file[k].data.length > 0
                         /\ \/ file[k].data.own = file[k].record.sent
                            \/ LinkHeader[reader.link] + 9 < file[k].data.own}
            wanted == {k \in readable \cap plain :
                         BodyClass(file[k].record.protocol) \notin reader.dropped}
            found == {pool[i].of : i \in DOMAIN pool} \cap plain
        IN  /\ found = wanted \/ (cutOff /\ found = wanted \cup {Len(file)})
            /\ \A i, j \in DOMAIN pool : i < j /\ pool[j].of # 0 =>
                  pool[i].of # 0 /\ pool[i].of < pool[j].of
            /\ \A i \in DOMAIN pool : pool[i].of = 0 =>
                  Last(file).record.captured < Last(file).record.sent

(* Each packet is a record of the file with the bytes that were captured of *)
(* it: a record is a header of 16 bytes and a body of caplen bytes          *)
(* (local_pcap_splitter.py:4).                                              *)
OnlyRecords ==
    \A i \in DOMAIN pool :
        pool[i].of # 0 /\ file[pool[i].of].data.length <= file[pool[i].of].record.captured

-----------------------------------------------------------------------------
(* The bytes of a field of a header, and the bodies of the packets whose    *)
(* class is the protocol of their frame.                                    *)
Field(header, from, to) == [k \in 1 .. to - from |-> <<header, from + k - 1>>]

DataOf(i) == file[pool[i].of].data
BodyOf(i) == Parse(reader.link, pool[i].class, DataOf(i))

Framed(class) ==
    {i \in DOMAIN pool : /\ pool[i].of # 0 /\ pool[i].class = class
                         /\ file[pool[i].of].record.protocol = class}

(* What was captured of a frame is read where its protocol puts it: the     *)
(* addresses, length and checksum, the byte of the flags, the payload of    *)
(* UDP.  The bytes of a number may be taken in either order and the two     *)
(* flags for one another, as they are (ip_header.py:42, 43, 59, 60).  Not   *)
(* the IP header of TCP under linux_sll_v2, whose class keeps an older      *)
(* layout on purpose.                                                       *)
BodiesAligned ==
    LET base == LinkHeader[reader.link]
        legacy == IF reader.link = "linux_sll_v2" THEN Framed("tcp") ELSE {}
    IN  /\ \A i \in (Framed("udp") \cup Framed("tcp")) \ legacy :
              LET own == DataOf(i).own
                  ip  == BodyOf(i).ip
              IN  /\ base + 10 <= own => ip.protocol = Little(Field("ip", 9, 10))
                  /\ base + 16 <= own => ip.source_ip = Field("ip", 12, 16)
                  /\ base + 20 <= own => ip.destination_ip = Field("ip", 16, 20)
        /\ \A i \in Framed("udp") :
              /\ base + 28 <= DataOf(i).own =>
                    /\ Range(BodyOf(i).udp.length) = Range(Field("transport", 4, 6))
                    /\ Range(BodyOf(i).udp.checksum) = Range(Field("transport", 6, 8))
              /\ \A k \in 1 .. DataOf(i).own - (base + 28) :
                    BodyOf(i).payload[k] = <<"transport", k + 7>>
        /\ \A i \in Framed("tcp") :
              /\ base + 34 <= DataOf(i).own =>
                    LET flags == BodyOf(i).flags
                    IN  {flags.ack, flags.psh} =
                            {Bit(Field("transport", 13, 14), n) : n \in {3, 4}}
              /\ base + 38 <= DataOf(i).own =>
                    Range(BodyOf(i).checksum) = Range(Field("transport", 16, 18))

=============================================================================
