------------------------- MODULE PcapReadingProofs -------------------------
(***************************************************************************)
(* What the readers keep, for any number of captures of any length, with    *)
(* packets of any size, any filters and any times.                         *)
(***************************************************************************)
EXTENDS PcapReading, SequenceTheorems, TLAPS

-----------------------------------------------------------------------------
(* Packets. *)

Class == {"udp", "tcp"}

(* A packet of the pool, a record of a file as it was read, and what the    *)
(* state of a reader is made of.                                            *)
Packet ==
    [of : Nat, class : Class,
     time : [stamp : Nat, offset : Int, accumulated : Int, world : Int]]

Entry == [record : Record, data : Data]

ReaderTypeOK ==
    /\ worldFirst \in Nat \cup {None}
    /\ state \in {"none", "reading", "returned", "raised"}
    /\ reader \in [multi : BOOLEAN, link : FileLink \cup {"ethernet"},
                   dropped : SUBSET Class, world : Nat \cup {None},
                   previous : Nat \cup {None}, first : Nat \cup {None}]
    /\ pool \in Seq(Packet) /\ file \in Seq(Entry)
    /\ clocks \in [first : SUBSET Int, later : SUBSET Nat]

(* The packet an iteration of read makes.                                   *)
Made(stamp, class, of) ==
    [of |-> of, class |-> class,
     time |-> Calculate(stamp, reader.previous, reader.first, reader.world)]

(* It is a packet.                                                          *)
LEMMA MadeType ==
    ASSUME ReaderTypeOK, NEW stamp \in Nat, NEW class \in Class, NEW of \in Nat
    PROVE  Made(stamp, class, of) \in Packet
<1>1. \A reference \in Nat \cup {None} : Since(stamp, reference) \in Int
  BY DEF Since
<1>2. Calculate(stamp, reader.previous, reader.first, reader.world)
        \in [stamp : Nat, offset : Int, accumulated : Int, world : Int]
  BY <1>1 DEF Calculate, ReaderTypeOK
<1> QED
  BY <1>2 DEF Made, Packet

-----------------------------------------------------------------------------
(* What the pool holds. *)

(* The clocks of a packet, and the record it was made of.                   *)
Right(p, records, first, world, link) ==
    /\ p.time.accumulated = p.time.stamp - first
    /\ p.time.world = p.time.stamp - (IF world = None THEN first ELSE world)
    /\ p.of # 0 => link \in Link /\ p.of \in records

Kept ==
    /\ pool # <<>> => reader.first \in Nat
    /\ \A i \in DOMAIN pool :
          Right(pool[i], DOMAIN file, reader.first, reader.world, reader.link)

(* The reader that is at work times by the reference, once there is one.    *)
OneClock ==
    /\ clocks.later \subseteq {worldFirst}
    /\ state = "reading" /\ reader.world # None => reader.world = worldFirst

Reading == ReaderTypeOK /\ Kept /\ OneClock

(* A packet kept is the last of the pool.                                   *)
LEMMA KeptIsLast ==
    ASSUME pool \in Seq(Packet), NEW p \in Packet, pool' = Append(pool, p)
    PROVE  /\ pool' \in Seq(Packet) /\ pool' # <<>>
           /\ Len(pool) \in Nat /\ DOMAIN pool = 1 .. Len(pool)
           /\ DOMAIN pool' = 1 .. Len(pool) + 1 /\ pool'[Len(pool) + 1] = p
           /\ \A i \in DOMAIN pool : pool'[i] = pool[i]
BY AppendProperties, LenProperties

(* A record come to is the last of the file as it was read.                 *)
LEMMA ComesLast ==
    ASSUME file \in Seq(Entry), NEW e \in Entry, file' = Append(file, e)
    PROVE  /\ file' \in Seq(Entry) /\ Len(file) \in Nat /\ Len(file') = Len(file) + 1
           /\ DOMAIN file = 1 .. Len(file) /\ DOMAIN file' = 1 .. Len(file) + 1
           /\ file'[Len(file) + 1] = e /\ \A k \in DOMAIN file : file'[k] = file[k]
BY AppendProperties, LenProperties

(* The rest of an iteration of read.                                        *)
LEMMA KeepsRight ==
    ASSUME Reading, state = "reading", NEW stamp \in Nat, NEW class \in Class,
           NEW of \in Nat, of # 0 => reader.link \in Link /\ of \in DOMAIN file',
           file' \in Seq(Entry), DOMAIN file \subseteq DOMAIN file',
           KeepUnlessFiltered(stamp, class, of)
    PROVE  Reading'
<1> DEFINE p == Made(stamp, class, of)
           kept == class \notin reader.dropped
           turn == IF reader.world = None THEN "first" ELSE "later"
<1>0. /\ reader.first \in Nat \cup {None} /\ reader.world \in Nat \cup {None}
      /\ pool \in Seq(Packet) /\ worldFirst \in Nat \cup {None} /\ None \notin Nat
      /\ clocks \in [first : SUBSET Int, later : SUBSET Nat]
      /\ DOMAIN reader = {"multi", "link", "dropped", "world", "previous", "first"}
  BY ReadingAssumption DEF Reading, ReaderTypeOK
<1>1. /\ pool' = IF ~kept THEN pool ELSE Append(pool, p)
      /\ reader' = [reader EXCEPT !.previous = stamp, !.first = FirstTime(@, stamp)]
      /\ clocks' = IF kept /\ reader.multi
                   THEN [clocks EXCEPT ![turn] = @ \cup {p.time.stamp - p.time.world}]
                   ELSE clocks
      /\ worldFirst' = worldFirst /\ state' = state
  BY DEF KeepUnlessFiltered, Made
<1>2. p \in Packet
  BY MadeType DEF Reading
<1>3. /\ reader'.first = IF reader.first = None THEN stamp ELSE reader.first
      /\ reader'.first \in Nat
      /\ reader'.world = reader.world /\ reader'.link = reader.link
      /\ reader' \in [multi : BOOLEAN, link : FileLink \cup {"ethernet"},
                      dropped : SUBSET Class, world : Nat \cup {None},
                      previous : Nat \cup {None}, first : Nat \cup {None}]
  BY <1>0, <1>1 DEF FirstTime, Reading, ReaderTypeOK
<1>4. /\ p.time.stamp = stamp /\ p.of = of
      /\ p.time.accumulated = stamp - reader'.first
      /\ p.time.world = stamp - (IF reader.world = None THEN reader'.first ELSE reader.world)
      /\ p.time.stamp - p.time.world \in Int
      /\ reader.world # None => p.time.stamp - p.time.world = reader.world
  BY <1>0, <1>3 DEF Made, Calculate, Since
<1>5. Right(p, DOMAIN file', reader'.first, reader'.world, reader'.link)
  BY <1>3, <1>4 DEF Right
<1>6. ASSUME NEW i \in DOMAIN pool
      PROVE  Right(pool[i], DOMAIN file', reader'.first, reader'.world, reader'.link)
  <2>1. pool # <<>>
    BY <1>6, EmptySeq
  <2>2. reader'.first = reader.first
    BY <1>0, <1>3, <2>1 DEF Reading, Kept
  <2> QED
    BY <1>3, <1>6, <2>2 DEF Reading, Kept, Right
<1>7. Kept' /\ pool' \in Seq(Packet)
  <2>1. CASE kept
    <3>1. pool' = Append(pool, p) /\ pool \in Seq(Packet)
      BY <1>0, <1>1, <2>1
    <3>2. /\ pool' \in Seq(Packet) /\ Len(pool) \in Nat /\ DOMAIN pool = 1 .. Len(pool)
          /\ DOMAIN pool' = 1 .. Len(pool) + 1 /\ pool'[Len(pool) + 1] = p
          /\ \A i \in DOMAIN pool : pool'[i] = pool[i]
      BY <1>2, <3>1, KeptIsLast
    <3>3. \A i \in DOMAIN pool' : i \in DOMAIN pool \/ i = Len(pool) + 1
      BY <3>2
    <3> HIDE DEF p
    <3>4. \A i \in DOMAIN pool' :
             Right(pool'[i], DOMAIN file', reader'.first, reader'.world, reader'.link)
      BY <1>5, <1>6, <3>2, <3>3 DEF Right
    <3> QED
      BY <1>3, <3>2, <3>4 DEF Kept, Right
  <2>2. CASE ~kept
    BY <1>0, <1>1, <1>3, <1>6, <2>2 DEF Kept, Right
  <2> QED
    BY <2>1, <2>2
<1>8. clocks' \in [first : SUBSET Int, later : SUBSET Nat] /\ OneClock'
  <2>1. CASE kept /\ reader.multi /\ reader.world = None
    BY <1>0, <1>1, <1>3, <1>4, <2>1 DEF Reading, OneClock
  <2>2. CASE kept /\ reader.multi /\ reader.world # None
    BY <1>0, <1>1, <1>3, <1>4, <2>2 DEF Reading, OneClock
  <2>3. CASE ~(kept /\ reader.multi)
    BY <1>0, <1>1, <1>3, <2>3 DEF Reading, OneClock
  <2> QED
    BY <2>1, <2>2, <2>3
<1> QED
  BY <1>0, <1>1, <1>3, <1>7, <1>8 DEF Reading, ReaderTypeOK

(* What a record come to leaves of a file.                                  *)
LEMMA ComeToFile ==
    ASSUME file \in Seq(Entry), NEW record \in Record, NEW data \in Data,
           ComeTo(record, data)
    PROVE  /\ file' \in Seq(Entry) /\ Len(file) \in Nat /\ Len(file') = Len(file) + 1
           /\ DOMAIN file = 1 .. Len(file) /\ DOMAIN file' = 1 .. Len(file) + 1
           /\ file'[Len(file) + 1] = [record |-> record, data |-> data]
           /\ \A k \in DOMAIN file : file'[k] = file[k]
           /\ Len(file') \in DOMAIN file' /\ DOMAIN file \subseteq DOMAIN file'
<1>1. [record |-> record, data |-> data] \in Entry
  BY DEF Entry
<1>2. file' = Append(file, [record |-> record, data |-> data])
  BY DEF ComeTo
<1>3. /\ file' \in Seq(Entry) /\ Len(file) \in Nat /\ Len(file') = Len(file) + 1
      /\ DOMAIN file = 1 .. Len(file) /\ DOMAIN file' = 1 .. Len(file) + 1
      /\ file'[Len(file) + 1] = [record |-> record, data |-> data]
      /\ \A k \in DOMAIN file : file'[k] = file[k]
  BY <1>1, <1>2, ComesLast
<1> QED
  BY <1>3

(* A record read or a stray one keeps the reader in order.                  *)
LEMMA ReadKeeps ==
    ASSUME Reading,
           \/ \E record \in Record, data \in Data : ReadPacket(record, data)
           \/ \E stamp \in Stamp, class \in Class : ReadStray(stamp, class)
    PROVE  Reading'
<1>1. CASE \E record \in Record, data \in Data : ReadPacket(record, data)
  <2>1. PICK record \in Record, data \in Data : ReadPacket(record, data)
    BY <1>1
  <2>2. /\ state = "reading" /\ reader.link \in Link /\ ComeTo(record, data)
        /\ record.stamp \in Nat /\ file \in Seq(Entry)
    BY <2>1, ReadingAssumption DEF ReadPacket, ComeTo, Record, Reading, ReaderTypeOK
  <2>3. PICK class \in Class : KeepUnlessFiltered(record.stamp, class, Len(file'))
    BY <2>1 DEF ReadPacket, BodyClass, Class
  <2>4. /\ file' \in Seq(Entry) /\ Len(file) \in Nat /\ Len(file') = Len(file) + 1
        /\ Len(file') \in DOMAIN file' /\ DOMAIN file \subseteq DOMAIN file'
    BY <2>2, ComeToFile
  <2>5. Len(file') \in Nat
    BY <2>4
  <2> QED
    BY <2>2, <2>3, <2>4, <2>5, KeepsRight
<1>2. CASE \E stamp \in Stamp, class \in Class : ReadStray(stamp, class)
  <2>1. PICK stamp \in Stamp, class \in Class : ReadStray(stamp, class)
    BY <1>2
  <2>2. /\ state = "reading" /\ file' = file /\ stamp \in Nat /\ file' \in Seq(Entry)
        /\ KeepUnlessFiltered(stamp, class, 0) /\ 0 \in Nat
    BY <2>1, ReadingAssumption DEF ReadStray, Reading, ReaderTypeOK
  <2> QED
    BY <2>2, KeepsRight
<1> QED
  BY <1>1, <1>2

(* A file begun, ended or given up, and the reference forgotten.            *)
LEMMA FilesKeep ==
    ASSUME Reading,
           \/ \E multi \in BOOLEAN, link \in FileLink, dropped \in Filter :
                 Open(multi, link, dropped)
           \/ ReturnAtEnd
           \/ \E record \in Record, data \in Data : ReturnAtBody(record, data)
           \/ UnknownLink
           \/ Reset
           \/ UNCHANGED vars
    PROVE  Reading'
<1>1. CASE \E multi \in BOOLEAN, link \in FileLink, dropped \in Filter :
              Open(multi, link, dropped)
  <2>1. PICK multi \in BOOLEAN, link \in FileLink, dropped \in Filter :
          Open(multi, link, dropped)
    BY <1>1
  <2>2. /\ pool' = <<>> /\ file' = <<>> /\ worldFirst' = worldFirst /\ clocks' = clocks
        /\ reader' = [multi |-> multi, link |-> link, dropped |-> dropped,
                      world |-> IF multi THEN worldFirst ELSE None,
                      previous |-> None, first |-> None]
        /\ state' = "reading"
    BY <2>1 DEF Open
  <2>3. dropped \in SUBSET Class
    BY ReadingAssumption DEF Class
  <2> QED
    BY <2>2, <2>3 DEF Reading, ReaderTypeOK, Kept, OneClock
<1>2. CASE ReturnAtEnd \/ \E record \in Record, data \in Data : ReturnAtBody(record, data)
  <2>1. /\ state' = "returned" /\ UNCHANGED <<reader, pool, clocks>>
        /\ worldFirst' = IF reader.multi THEN Reference(worldFirst) ELSE worldFirst
    BY <1>2 DEF ReturnAtEnd, ReturnAtBody, Return
  <2>2. file' \in Seq(Entry) /\ DOMAIN file \subseteq DOMAIN file'
    <3>1. file \in Seq(Entry)
      BY DEF Reading, ReaderTypeOK
    <3>2. CASE ReturnAtEnd
      BY <3>1, <3>2 DEF ReturnAtEnd
    <3>3. CASE \E record \in Record, data \in Data : ReturnAtBody(record, data)
      <4>1. PICK record \in Record, data \in Data : ComeTo(record, data)
        BY <3>3 DEF ReturnAtBody
      <4>2. file' \in Seq(Entry)
        BY <3>1, <4>1, ComeToFile
      <4>3. DOMAIN file \subseteq DOMAIN file'
        BY <3>1, <4>1, ComeToFile
      <4> QED
        BY <4>2, <4>3
    <3> QED
      BY <1>2, <3>2, <3>3
  <2>3. worldFirst' \in Nat \cup {None} /\ (worldFirst # None => worldFirst' = worldFirst)
    <3>1. pool # <<>> => pool[1].time.stamp \in Nat
      <4>1. pool # <<>> => pool[1] \in Packet
        BY EmptySeq, ElementOfSeq DEF Reading, ReaderTypeOK
      <4> QED
        BY <4>1 DEF Packet
    <3> QED
      BY <2>1, <3>1 DEF Reference, Reading, ReaderTypeOK
  <2>4. worldFirst = None => clocks.later = {}
    BY ReadingAssumption DEF Reading, ReaderTypeOK, OneClock
  <2>5. Kept'
    BY <2>1, <2>2 DEF Reading, Kept, Right
  <2> QED
    BY <2>1, <2>2, <2>3, <2>4, <2>5 DEF Reading, ReaderTypeOK, OneClock
<1>3. CASE UnknownLink
  BY <1>3 DEF UnknownLink, Reading, ReaderTypeOK, Kept, OneClock
<1>4. CASE Reset
  BY <1>4 DEF Reset, Reading, ReaderTypeOK, Kept, OneClock
<1>5. CASE UNCHANGED vars
  BY <1>5 DEF vars, Reading, ReaderTypeOK, Kept, OneClock
<1> QED
  BY <1>1, <1>2, <1>3, <1>4, <1>5

(* Whatever is read, in every order.                                        *)
LEMMA ReadingCorrect == Spec => []Reading
<1>1. Init => Reading
  BY DEF Init, Reading, ReaderTypeOK, Kept, OneClock, Class
<1>2. Reading /\ [Next]_vars => Reading'
  BY ReadKeeps, FilesKeep DEF Next, Class
<1> QED
  BY <1>1, <1>2, PTL DEF Spec

(* All packets read after the reference was set are timed by it             *)
(* (reader/multi.py, read).                                                 *)
THEOREM OneReference == Spec => []LaterFilesAgree
<1>1. Reading => LaterFilesAgree
  BY DEF Reading, OneClock, LaterFilesAgree
<1> QED
  BY <1>1, ReadingCorrect, PTL

(* Within a file the three clocks run alike (time_info.py, calculate).      *)
THEOREM ClocksDifferByConstants == Spec => []ClocksRunAlike
<1>1. Reading => ClocksRunAlike
  <2> SUFFICES ASSUME Reading, NEW i \in DOMAIN pool, NEW j \in DOMAIN pool
               PROVE  LET a == pool[i].time
                          b == pool[j].time
                      IN  /\ b.accumulated - a.accumulated = b.stamp - a.stamp
                          /\ b.world - a.world = b.stamp - a.stamp
    BY DEF ClocksRunAlike
  <2>1. /\ Right(pool[i], DOMAIN file, reader.first, reader.world, reader.link)
        /\ Right(pool[j], DOMAIN file, reader.first, reader.world, reader.link)
    BY DEF Reading, Kept
  <2>2. pool[i].time.stamp \in Nat /\ pool[j].time.stamp \in Nat
    <3>1. pool[i] \in Packet /\ pool[j] \in Packet
      BY ElementOfSeq, LenProperties DEF Reading, ReaderTypeOK
    <3> QED
      BY <3>1 DEF Packet
  <2>3. reader.first \in Nat /\ reader.world \in Nat \cup {None}
    BY EmptySeq DEF Reading, Kept, ReaderTypeOK
  <2> QED
    BY <2>1, <2>2, <2>3 DEF Right
<1> QED
  BY <1>1, ReadingCorrect, PTL

-----------------------------------------------------------------------------
(* What the reader finds. *)

(* A record whose protocol the reader sees, or sees that it has none.       *)
Plain(entry, link) ==
    /\ entry.data.length > 0
    /\ entry.data.own = entry.record.sent \/ LinkHeader[link] + 9 < entry.data.own

Wanted(entry, dropped) == BodyClass(entry.record.protocol) \notin dropped

(* Bodies are what may be read; only the file's last record is cut short.   *)
FileAsRead ==
    \A k \in DOMAIN file :
        /\ file[k].record.captured <= file[k].record.sent
        /\ file[k].data \in Body(file[k].record)
        /\ k # Len(file) => file[k].data.own = file[k].record.captured

(* The packets kept are those wanted, in order, and strays after those.     *)
InTurn ==
    \A i, j \in DOMAIN pool : i < j /\ pool[j].of # 0 =>
        pool[i].of # 0 /\ pool[i].of < pool[j].of

FoundRight ==
    \A i \in DOMAIN pool :
        \/ pool[i].of = 0 /\ Astray
        \/ /\ pool[i].of \in DOMAIN file
           /\ Plain(file[pool[i].of], reader.link)
                  => Wanted(file[pool[i].of], reader.dropped)

FoundAll ==
    \A k \in DOMAIN file :
        Plain(file[k], reader.link) /\ Wanted(file[k], reader.dropped)
            => \E i \in DOMAIN pool : pool[i].of = k

Finding == FileAsRead /\ InTurn /\ FoundRight /\ FoundAll

(* A frame is classified by its protocol, under every link type, when the   *)
(* byte that tells it was captured or the frame has none.                   *)
LEMMA ProtocolSeen ==
    ASSUME NEW record \in Record, NEW data \in Body(record), NEW link \in Link,
           record.captured <= record.sent,
           record.protocol # "other" => LinkHeader[link] + 28 <= record.sent,
           data.own = record.sent \/ LinkHeader[link] + 9 < data.own,
           NEW protocol \in DetectProtocol(link, record.protocol, data)
    PROVE  BodyClass(protocol) = BodyClass(record.protocol)
<1> DEFINE offset == ProtocolOffset[link]
           byte == Slice(link, data, offset, offset + 1)
<1>1. /\ offset \in Nat /\ LinkHeader[link] \in Nat /\ offset = LinkHeader[link] + 9
  BY DEF ProtocolOffset, LinkHeader, Link
<1>2. /\ data.own \in Nat /\ data.length \in Nat /\ data.own <= data.length
      /\ record.captured \in Nat /\ record.sent \in Nat
      /\ data.own = record.sent => data.length <= record.sent
  <2>1. /\ data.own \in Nat /\ data.length \in Nat
        /\ record.captured \in Nat /\ record.sent \in Nat
    <3>1. data \in Data
      BY DEF Body
    <3> QED
      BY <3>1, ReadingAssumption DEF Data, Record
  <2>2. \/ data.own <= data.length /\ data.length <= record.sent
        \/ data.own < record.captured /\ data.length = data.own
    BY DEF Body
  <2> QED
    BY <2>1, <2>2
<1>3. CASE offset < data.own
  <2>1. 1 \in DOMAIN byte /\ byte[1] = ByteOf(link, data, offset)
    <3>1. /\ offset + 1 - 1 = offset
          /\ (IF offset + 1 < data.length THEN offset + 1 ELSE data.length) - offset = 1
      BY <1>1, <1>2, <1>3
    <3>2. byte = [i \in 1 .. 1 |-> ByteOf(link, data, offset + i - 1)]
      BY <3>1 DEF Slice
    <3> QED
      BY <3>1, <3>2
  <2>2. ByteOf(link, data, offset) = <<"ip", 9>>
    BY <1>1, <1>2, <1>3 DEF ByteOf
  <2>3. byte # <<>>
    BY <2>1, EmptySeq
  <2> QED
    BY <2>1, <2>2, <2>3 DEF DetectProtocol
<1>4. CASE ~(offset < data.own)
  <2>1. record.protocol = "other" /\ data.length <= offset
    BY <1>1, <1>2, <1>4
  <2>2. byte = <<>>
    <3>1. 1 .. (IF offset + 1 < data.length THEN offset + 1 ELSE data.length) - offset = {}
      BY <1>1, <1>2, <2>1
    <3>2. byte = [i \in {} |-> ByteOf(link, data, offset + i - 1)]
      BY <3>1, Zenon DEF Slice
    <3> QED
      BY <3>2
  <2> QED
    BY <2>1, <2>2 DEF DetectProtocol
<1> QED
  BY <1>3, <1>4

(* An iteration of read keeps its packet, after the others, or drops it.    *)
LEMMA KeptOrDropped ==
    ASSUME ReaderTypeOK, NEW stamp \in Nat, NEW class \in Class, NEW of \in Nat,
           KeepUnlessFiltered(stamp, class, of)
    PROVE  /\ reader'.dropped = reader.dropped /\ reader'.link = reader.link
           /\ \/ class \in reader.dropped /\ pool' = pool
              \/ /\ class \notin reader.dropped
                 /\ DOMAIN pool' = 1 .. Len(pool) + 1
                 /\ pool'[Len(pool) + 1].of = of
                 /\ \A i \in DOMAIN pool : pool'[i] = pool[i]
<1>1. reader'.dropped = reader.dropped /\ reader'.link = reader.link
  BY DEF KeepUnlessFiltered, ReaderTypeOK
<1>2. CASE class \in reader.dropped
  BY <1>1, <1>2 DEF KeepUnlessFiltered
<1>3. CASE class \notin reader.dropped
  <2>1. pool' = Append(pool, Made(stamp, class, of)) /\ pool \in Seq(Packet)
    BY <1>3 DEF KeepUnlessFiltered, Made, ReaderTypeOK
  <2>2. Made(stamp, class, of) \in Packet /\ Made(stamp, class, of).of = of
    BY MadeType DEF Made
  <2> QED
    BY <1>1, <1>3, <2>1, <2>2, KeptIsLast
<1> QED
  BY <1>1, <1>2, <1>3

(* Those a record is come to after were captured whole.                     *)
LEMMA ComeToFinds ==
    ASSUME ReaderTypeOK, Finding, NEW record \in Record, NEW data \in Data,
           ComeTo(record, data), reader'.link = reader.link,
           reader'.dropped = reader.dropped
    PROVE  /\ FileAsRead'
           /\ \A i \in DOMAIN pool :
                 /\ pool[i].of \in DOMAIN file
                 /\ Plain(file[pool[i].of], reader.link)
                        => Wanted(file[pool[i].of], reader.dropped)
<1>1. /\ ~Ended /\ ~Astray /\ record.captured <= record.sent /\ data \in Body(record)
  BY DEF ComeTo
<1>2. /\ Len(file) \in Nat /\ Len(file') = Len(file) + 1
      /\ DOMAIN file = 1 .. Len(file) /\ DOMAIN file' = 1 .. Len(file) + 1
      /\ file'[Len(file) + 1] = [record |-> record, data |-> data]
      /\ \A k \in DOMAIN file : file'[k] = file[k]
  BY ComeToFile DEF ReaderTypeOK
<1>3. \A k \in DOMAIN file :
        /\ file[k].record \in Record /\ file[k].data \in Data
  <2>1. \A k \in DOMAIN file : file[k] \in Entry
    BY <1>2, ElementOfSeq DEF ReaderTypeOK
  <2> QED
    BY <2>1 DEF Entry
<1>4. ASSUME NEW k \in DOMAIN file
      PROVE  file[k].data.own = file[k].record.captured
  <2>1. CASE k # Len(file)
    BY <2>1 DEF Finding, FileAsRead
  <2>2. CASE k = Len(file)
    <3>1. /\ ~(file[k].data.length < file[k].record.sent)
          /\ ~(file[k].data.length > file[k].record.captured)
      BY <1>1, <1>2, <2>2, EmptySeq DEF Ended, Astray, Last
    <3>2. /\ file[k].data \in Body(file[k].record)
          /\ file[k].record.captured <= file[k].record.sent
      BY DEF Finding, FileAsRead
    <3>3. /\ file[k].data.length \in Nat /\ file[k].data.own \in Nat
          /\ file[k].record.captured \in Nat /\ file[k].record.sent \in Nat
      BY <1>3, ReadingAssumption DEF Record, Data
    <3> QED
      BY <3>1, <3>2, <3>3 DEF Body
  <2> QED
    BY <2>1, <2>2
<1>5. FileAsRead'
  <2>1. ASSUME NEW k \in DOMAIN file'
        PROVE  /\ file'[k].record.captured <= file'[k].record.sent
               /\ file'[k].data \in Body(file'[k].record)
               /\ k # Len(file') => file'[k].data.own = file'[k].record.captured
    <3>1. CASE k = Len(file) + 1
      BY <1>1, <1>2, <3>1
    <3>2. CASE k # Len(file) + 1
      <4>1. k \in DOMAIN file /\ file'[k] = file[k]
        BY <1>2, <2>1, <3>2
      <4> QED
        BY <1>4, <4>1 DEF Finding, FileAsRead
    <3> QED
      BY <3>1, <3>2
  <2> QED
    BY <2>1 DEF FileAsRead
<1>6. \A i \in DOMAIN pool :
         /\ pool[i].of \in DOMAIN file
         /\ Plain(file[pool[i].of], reader.link)
                => Wanted(file[pool[i].of], reader.dropped)
  BY <1>1 DEF Finding, FoundRight
<1> QED
  BY <1>5, <1>6

(* A record that is read.                                                   *)
LEMMA RecordFinds ==
    ASSUME Reading, Finding, NEW record \in Record, NEW data \in Data,
           ReadPacket(record, data)
    PROVE  Finding'
<1> DEFINE n == Len(file) + 1
<1>0. ReaderTypeOK
  BY DEF Reading
<1>1. /\ reader.link \in Link /\ ComeTo(record, data) /\ record.stamp \in Nat
      /\ record.captured <= record.sent /\ data \in Body(record)
      /\ record.protocol # "other" => LinkHeader[reader.link] + 28 <= record.sent
  BY ReadingAssumption DEF ReadPacket, ComeTo, Record
<1>2. /\ Len(file) \in Nat /\ Len(file') = n
      /\ DOMAIN file = 1 .. Len(file) /\ DOMAIN file' = 1 .. n
      /\ file'[n] = [record |-> record, data |-> data]
      /\ \A k \in DOMAIN file : file'[k] = file[k]
  BY <1>0, <1>1, ComeToFile DEF ReaderTypeOK
<1>3. PICK protocol \in DetectProtocol(reader.link, record.protocol, data) :
        KeepUnlessFiltered(record.stamp, BodyClass(protocol), n)
  BY <1>2 DEF ReadPacket
<1> DEFINE class == BodyClass(protocol)
<1>4. class \in Class /\ n \in Nat
  BY <1>2 DEF BodyClass, Class
<1>5. /\ reader'.dropped = reader.dropped /\ reader'.link = reader.link
      /\ \/ class \in reader.dropped /\ pool' = pool
         \/ /\ class \notin reader.dropped
            /\ DOMAIN pool' = 1 .. Len(pool) + 1
            /\ pool'[Len(pool) + 1].of = n
            /\ \A i \in DOMAIN pool : pool'[i] = pool[i]
  BY <1>0, <1>1, <1>3, <1>4, KeptOrDropped
<1>6. /\ FileAsRead'
      /\ \A i \in DOMAIN pool :
            /\ pool[i].of \in DOMAIN file
            /\ Plain(file[pool[i].of], reader.link)
                   => Wanted(file[pool[i].of], reader.dropped)
  BY <1>0, <1>1, <1>5, ComeToFinds
<1>7. Plain(file'[n], reader'.link) =>
        (Wanted(file'[n], reader'.dropped) <=> class \notin reader.dropped)
  <2>1. Plain(file'[n], reader'.link) =>
          data.own = record.sent \/ LinkHeader[reader.link] + 9 < data.own
    BY <1>2, <1>5 DEF Plain
  <2>2. Plain(file'[n], reader'.link) => class = BodyClass(record.protocol)
    BY <1>1, <2>1, ProtocolSeen
  <2>3. Wanted(file'[n], reader'.dropped)
          <=> BodyClass(record.protocol) \notin reader.dropped
    BY <1>2, <1>5 DEF Wanted
  <2> HIDE DEF class
  <2> QED
    BY <2>2, <2>3
<1>8. DOMAIN pool = 1 .. Len(pool) /\ Len(pool) \in Nat
  BY <1>0, LenProperties DEF ReaderTypeOK
<1> HIDE DEF class
<1>9. InTurn'
  <2>1. CASE pool' = pool
    BY <2>1 DEF Finding, InTurn
  <2>2. CASE pool' # pool
    <3>1. ASSUME NEW i \in DOMAIN pool', NEW j \in DOMAIN pool', i < j
          PROVE  pool'[i].of # 0 /\ pool'[i].of < pool'[j].of
      <4>1. i \in DOMAIN pool /\ (j \in DOMAIN pool \/ j = Len(pool) + 1)
        BY <1>5, <1>8, <2>2, <3>1
      <4>2. pool[i].of \in 1 .. Len(file)
        BY <1>2, <1>6, <4>1
      <4>3. CASE j = Len(pool) + 1
        BY <1>2, <1>5, <2>2, <4>1, <4>2, <4>3
      <4>4. CASE j \in DOMAIN pool
        <5>1. pool[j].of \in 1 .. Len(file)
          BY <1>2, <1>6, <4>4
        <5> QED
          BY <1>5, <2>2, <3>1, <4>1, <4>2, <4>4, <5>1 DEF Finding, InTurn
      <4> QED
        BY <4>1, <4>3, <4>4
    <3> QED
      BY <3>1 DEF InTurn
  <2> QED
    BY <2>1, <2>2
<1>10. FoundRight'
  <2>1. ASSUME NEW i \in DOMAIN pool'
        PROVE  /\ pool'[i].of \in DOMAIN file'
               /\ Plain(file'[pool'[i].of], reader'.link)
                    => Wanted(file'[pool'[i].of], reader'.dropped)
    <3>1. CASE i \in DOMAIN pool
      <4>1. pool'[i].of = pool[i].of
        BY <1>5, <3>1
      <4>2. pool[i].of \in DOMAIN file /\ DOMAIN file \subseteq DOMAIN file'
        BY <1>2, <1>6, <3>1
      <4> QED
        BY <1>2, <1>5, <1>6, <3>1, <4>1, <4>2
    <3>2. CASE i \notin DOMAIN pool
      <4>1. pool'[i].of = n /\ class \notin reader.dropped
        BY <1>5, <1>8, <2>1, <3>2
      <4>2. n \in DOMAIN file'
        BY <1>2
      <4> HIDE DEF n
      <4> QED
        BY <1>7, <4>1, <4>2
    <3> QED
      BY <3>1, <3>2
  <2> QED
    BY <2>1 DEF FoundRight
<1>11. FoundAll'
  <2> SUFFICES ASSUME NEW k \in DOMAIN file', Plain(file'[k], reader'.link),
                      Wanted(file'[k], reader'.dropped)
               PROVE  \E i \in DOMAIN pool' : pool'[i].of = k
    BY DEF FoundAll
  <2>1. CASE k = n
    <3>1. class \notin reader.dropped
      BY <1>7, <2>1
    <3>2. Len(pool) + 1 \in DOMAIN pool' /\ pool'[Len(pool) + 1].of = n
      BY <1>5, <1>8, <3>1
    <3> QED
      BY <2>1, <3>2
  <2>2. CASE k # n
    <3>1. /\ k \in DOMAIN file /\ Plain(file[k], reader.link)
          /\ Wanted(file[k], reader.dropped)
      BY <1>2, <1>5, <2>2
    <3>2. PICK i \in DOMAIN pool : pool[i].of = k
      BY <3>1 DEF Finding, FoundAll
    <3> QED
      BY <1>5, <1>8, <3>2
  <2> QED
    BY <2>1, <2>2
<1> QED
  BY <1>6, <1>9, <1>10, <1>11 DEF Finding

(* What comes astray is put behind.                                         *)
LEMMA StrayFinds ==
    ASSUME Reading, Finding, NEW stamp \in Stamp, NEW class \in Class,
           ReadStray(stamp, class)
    PROVE  Finding'
<1>0. ReaderTypeOK /\ stamp \in Nat
  BY ReadingAssumption DEF Reading
<1>1. file' = file /\ Astray /\ KeepUnlessFiltered(stamp, class, 0) /\ 0 \in Nat
  BY DEF ReadStray
<1>2. /\ reader'.dropped = reader.dropped /\ reader'.link = reader.link
      /\ \/ pool' = pool
         \/ /\ DOMAIN pool' = 1 .. Len(pool) + 1
            /\ pool'[Len(pool) + 1].of = 0
            /\ \A i \in DOMAIN pool : pool'[i] = pool[i]
  BY <1>0, <1>1, KeptOrDropped
<1>3. /\ DOMAIN pool = 1 .. Len(pool) /\ Len(pool) \in Nat
      /\ Astray'
  BY <1>0, <1>1, <1>2, LenProperties DEF Astray, ReaderTypeOK
<1>4. FileAsRead'
  BY <1>1 DEF Finding, FileAsRead
<1>5. InTurn'
  BY <1>2, <1>3 DEF Finding, InTurn
<1>6. FoundRight'
  BY <1>1, <1>2, <1>3 DEF Finding, FoundRight
<1>7. FoundAll'
  <2> SUFFICES ASSUME NEW k \in DOMAIN file, Plain(file[k], reader.link),
                      Wanted(file[k], reader.dropped)
               PROVE  \E i \in DOMAIN pool' : pool'[i].of = k
    BY <1>1, <1>2 DEF FoundAll
  <2>1. PICK i \in DOMAIN pool : pool[i].of = k
    BY DEF Finding, FoundAll
  <2> QED
    BY <1>2, <1>3, <2>1
<1> QED
  BY <1>4, <1>5, <1>6, <1>7 DEF Finding

(* A file begun, ended or given up.                                         *)
LEMMA OthersFind ==
    ASSUME Reading, Finding,
           \/ \E multi \in BOOLEAN, link \in FileLink, dropped \in Filter :
                 Open(multi, link, dropped)
           \/ ReturnAtEnd
           \/ \E record \in Record, data \in Data : ReturnAtBody(record, data)
           \/ UnknownLink \/ Reset \/ UNCHANGED vars
    PROVE  Finding'
<1>1. CASE \E multi \in BOOLEAN, link \in FileLink, dropped \in Filter :
              Open(multi, link, dropped)
  <2>1. pool' = <<>> /\ file' = <<>>
    BY <1>1 DEF Open
  <2> QED
    BY <2>1 DEF Finding, FileAsRead, InTurn, FoundRight, FoundAll
<1>2. CASE \E record \in Record, data \in Data : ReturnAtBody(record, data)
  <2>1. PICK record \in Record, data \in Data : ReturnAtBody(record, data)
    BY <1>2
  <2>2. /\ ComeTo(record, data) /\ data.length = 0 /\ pool' = pool /\ reader' = reader
        /\ ReaderTypeOK /\ file \in Seq(Entry)
    BY <2>1 DEF ReturnAtBody, Return, Reading, ReaderTypeOK
  <2>3. /\ Len(file) \in Nat /\ DOMAIN file = 1 .. Len(file)
        /\ DOMAIN file' = 1 .. Len(file) + 1
        /\ file'[Len(file) + 1] = [record |-> record, data |-> data]
        /\ \A k \in DOMAIN file : file'[k] = file[k]
    BY <2>2, ComeToFile
  <2>4. /\ FileAsRead'
          /\ \A i \in DOMAIN pool :
              /\ pool[i].of \in DOMAIN file
              /\ Plain(file[pool[i].of], reader.link)
                     => Wanted(file[pool[i].of], reader.dropped)
    BY <2>2, ComeToFinds
  <2>5. \A k \in DOMAIN file' : Plain(file'[k], reader'.link) => k \in DOMAIN file
    BY <2>2, <2>3 DEF Plain
  <2>6. InTurn'
    BY <2>2 DEF Finding, InTurn
  <2>7. FoundRight'
    <3>1. DOMAIN file \subseteq DOMAIN file'
      BY <2>3
    <3>2. \A i \in DOMAIN pool' :
            /\ pool'[i].of \in DOMAIN file'
            /\ Plain(file'[pool'[i].of], reader'.link)
                 => Wanted(file'[pool'[i].of], reader'.dropped)
      BY <2>2, <2>3, <2>4, <3>1
    <3> QED
      BY <3>2 DEF FoundRight
  <2>8. FoundAll'
    BY <2>2, <2>3, <2>5 DEF Finding, FoundAll
  <2> QED
    BY <2>4, <2>6, <2>7, <2>8 DEF Finding
<1>3. CASE ReturnAtEnd \/ UnknownLink \/ Reset \/ UNCHANGED vars
  <2>1. pool' = pool /\ reader' = reader /\ file' = file
    BY <1>3 DEF ReturnAtEnd, Return, UnknownLink, Reset, vars
  <2> QED
    BY <2>1 DEF Finding, FileAsRead, InTurn, FoundRight, FoundAll, Astray, Plain, Wanted
<1> QED
  BY <1>1, <1>2, <1>3

LEMMA FindingCorrect == Spec => []Finding
<1>1. Init => Finding
  BY DEF Init, Finding, FileAsRead, InTurn, FoundRight, FoundAll
<1>2. Reading /\ Finding /\ [Next]_vars => Finding'
  BY RecordFinds, StrayFinds, OthersFind DEF Next, Class
<1> QED
  BY <1>1, <1>2, ReadingCorrect, PTL DEF Spec

(* Of the records it comes to, the reader finds what the splitter finds,    *)
(* less what the filter drops (reader/single.py, read;                      *)
(* local_pcap_splitter.py, _read_pcap_records).                             *)
THEOREM SamePackets == Spec => []ReadersAgree
<1>1. Reading /\ Finding => ReadersAgree
  <2> SUFFICES ASSUME Reading, Finding PROVE ReadersAgree
    OBVIOUS
  <2> DEFINE cutOff == file # <<>> /\ Last(file).data.own < Last(file).record.captured
             readable == DOMAIN Splitter!Readable([packets |-> file, cutOff |-> cutOff])
             plain == {k \in DOMAIN file : Plain(file[k], reader.link)}
             wanted == {k \in readable \cap plain : Wanted(file[k], reader.dropped)}
             found == {pool[i].of : i \in DOMAIN pool} \cap plain
  <2>1. /\ Len(file) \in Nat /\ DOMAIN file = 1 .. Len(file)
        /\ file # <<>> => Len(file) \in DOMAIN file
    BY EmptySeq, LenProperties DEF Reading, ReaderTypeOK
  <2>2. /\ cutOff => readable = DOMAIN file \ {Len(file)}
        /\ ~cutOff => readable = DOMAIN file
    <3>1. Splitter!Readable([packets |-> file, cutOff |-> cutOff])
            = IF cutOff THEN SubSeq(file, 1, Len(file) - 1) ELSE file
      BY DEF Splitter!Readable, Splitter!Front
    <3>2. ASSUME cutOff PROVE DOMAIN SubSeq(file, 1, Len(file) - 1) = 1 .. Len(file) - 1
      <4>1. Len(file) - 1 \in Nat
        BY <2>1, <3>2
      <4> QED
        BY <4>1 DEF Reading, ReaderTypeOK
    <3>3. 1 .. Len(file) - 1 = DOMAIN file \ {Len(file)}
      BY <2>1
    <3> HIDE DEF cutOff
    <3> QED
      BY <3>1, <3>2, <3>3
  <2>3. found = {k \in plain : Wanted(file[k], reader.dropped)}
    <3>1. \A k \in plain :
            Wanted(file[k], reader.dropped) => \E i \in DOMAIN pool : pool[i].of = k
      BY DEF Finding, FoundAll
    <3>2. \A i \in DOMAIN pool :
            pool[i].of \in plain => Wanted(file[pool[i].of], reader.dropped)
      <4>1. 0 \notin plain
        BY <2>1
      <4> QED
        BY <4>1 DEF Finding, FoundRight
    <3> QED
      BY <3>1, <3>2
  <2>4. found = wanted \/ (cutOff /\ found = wanted \cup {Len(file)})
    <3>1. plain \subseteq DOMAIN file
      OBVIOUS
    <3> HIDE DEF plain, found, cutOff, readable
    <3>2. CASE cutOff
      BY <2>2, <2>3, <3>1, <3>2
    <3>3. CASE ~cutOff
      BY <2>2, <2>3, <3>1, <3>3
    <3> QED
      BY <3>2, <3>3
  <2>5. \A i \in DOMAIN pool : pool[i].of = 0 =>
           Last(file).record.captured < Last(file).record.sent
    <3> SUFFICES ASSUME NEW i \in DOMAIN pool, pool[i].of = 0
                 PROVE  Last(file).record.captured < Last(file).record.sent
      OBVIOUS
    <3>1. Astray
      BY <2>1 DEF Finding, FoundRight
    <3>2. /\ Last(file) \in Entry /\ Last(file).data.length > Last(file).record.captured
          /\ Last(file).data \in Body(Last(file).record)
      BY <2>1, <3>1, ElementOfSeq
         DEF Astray, Last, Finding, FileAsRead, Reading, ReaderTypeOK
    <3>3. /\ Last(file).record.captured \in Nat /\ Last(file).record.sent \in Nat
          /\ Last(file).data.length \in Nat /\ Last(file).data.own \in Nat
      BY <3>2, ReadingAssumption DEF Entry, Record, Data
    <3> QED
      BY <3>2, <3>3 DEF Body
  <2>6. ReadersAgree <=> (state = "returned" =>
          /\ found = wanted \/ (cutOff /\ found = wanted \cup {Len(file)})
          /\ InTurn
          /\ \A i \in DOMAIN pool : pool[i].of = 0 =>
                Last(file).record.captured < Last(file).record.sent)
    BY DEF ReadersAgree, Plain, Wanted, InTurn
  <2> QED
    BY <2>4, <2>5, <2>6 DEF Finding
<1> QED
  BY <1>1, ReadingCorrect, FindingCorrect, PTL

-----------------------------------------------------------------------------
(* Fields of a frame. *)

(* Bytes of the IP header that were captured, counted from its start.       *)
LEMMA IpSlice ==
    ASSUME NEW link, LinkHeader[link] \in Nat, NEW data, data.own \in Nat,
           data.length \in Nat, data.own <= data.length,
           NEW a \in 0 .. 20, NEW b \in 0 .. 20, LinkHeader[link] + b <= data.own
    PROVE  Slice(link, data, LinkHeader[link] + a, LinkHeader[link] + b) = Field("ip", a, b)
<1> DEFINE ip == LinkHeader[link]
<1>1. (IF ip + b < data.length THEN ip + b ELSE data.length) - (ip + a) = b - a
  OBVIOUS
<1>2. ASSUME NEW k \in 1 .. b - a
      PROVE  ByteOf(link, data, ip + a + k - 1) = <<"ip", a + k - 1>>
  <2>1. /\ ~(data.own <= ip + a + k - 1) /\ ~(ip + a + k - 1 < ip)
        /\ ip + a + k - 1 < ip + 20
        /\ (ip + a + k - 1) - ip = a + k - 1
    OBVIOUS
  <2> QED
    BY <2>1 DEF ByteOf
<1> QED
  BY <1>1, <1>2 DEF Slice, Field

(* Bytes behind the IP header that were captured, counted from its end.     *)
LEMMA TransportSlice ==
    ASSUME NEW link, LinkHeader[link] \in Nat, NEW data, data.own \in Nat,
           data.length \in Nat, data.own <= data.length,
           NEW a \in Nat, NEW b \in Nat, a <= b, LinkHeader[link] + 20 + b <= data.own
    PROVE  Slice(link, data, LinkHeader[link] + 20 + a, LinkHeader[link] + 20 + b)
               = Field("transport", a, b)
<1> DEFINE ip == LinkHeader[link]
           start == ip + 20
<1>1. (IF start + b < data.length THEN start + b ELSE data.length) - (start + a) = b - a
  OBVIOUS
<1>2. ASSUME NEW k \in 1 .. b - a
      PROVE  ByteOf(link, data, start + a + k - 1) = <<"transport", a + k - 1>>
  <2>1. k \in Nat /\ 1 <= k /\ a + k <= b
    OBVIOUS
  <2>2. ASSUME NEW from \in Nat, NEW own \in Nat, from + 20 + b <= own
        PROVE  LET at == from + 20 + a + k - 1
               IN  /\ ~(own <= at) /\ ~(at < from) /\ ~(at < from + 20)
                   /\ at - (from + 20) = a + k - 1
    BY <2>1, <2>2
  <2> QED
    BY <2>2 DEF ByteOf
<1> QED
  BY <1>1, <1>2 DEF Slice, Field

(* A number is made of the bytes it is read from.                           *)
LEMMA NumberBytes ==
    ASSUME NEW header, NEW a \in Nat, NEW b \in Nat, a <= b
    PROVE  Range(Little(Field(header, a, b))) = Range(Field(header, a, b))
<1> DEFINE bytes == Field(header, a, b)
<1>1. Len(bytes) = b - a /\ DOMAIN bytes = 1 .. b - a
  BY DEF Field
<1>2. /\ DOMAIN Little(bytes) = 0 .. b - a - 1
      /\ \A w \in 0 .. b - a - 1 : Little(bytes)[w] = bytes[w + 1]
  BY <1>1 DEF Little
<1> HIDE DEF bytes
<1>3. ASSUME NEW k \in 1 .. b - a PROVE bytes[k] \in Range(Little(bytes))
  <2>1. k - 1 \in 0 .. b - a - 1 /\ k - 1 + 1 = k
    OBVIOUS
  <2> QED
    BY <1>2, <2>1 DEF Range
<1>4. ASSUME NEW w \in 0 .. b - a - 1 PROVE Little(bytes)[w] \in Range(bytes)
  <2>1. w + 1 \in 1 .. b - a
    OBVIOUS
  <2> QED
    BY <1>1, <1>2, <2>1 DEF Range
<1>5. Range(bytes) = {bytes[k] : k \in 1 .. b - a}
  BY <1>1 DEF Range
<1>6. Range(Little(bytes)) = {Little(bytes)[w] : w \in 0 .. b - a - 1}
  BY <1>2 DEF Range
<1>7. Range(Little(bytes)) = Range(bytes)
  BY <1>3, <1>4, <1>5, <1>6
<1> QED
  BY <1>7 DEF bytes

(* Bytes behind the UDP header that were captured.                          *)
LEMMA PayloadSlice ==
    ASSUME NEW link, LinkHeader[link] \in Nat, NEW data, data.own \in Nat,
           data.length \in Nat, data.own <= data.length,
           NEW k \in 1 .. data.own - (LinkHeader[link] + 28)
    PROVE  Slice(link, data, LinkHeader[link] + 28, data.length)[k] = <<"transport", k + 7>>
<1> DEFINE ip == LinkHeader[link]
           from == ip + 28
<1>1. /\ (IF data.length < data.length THEN data.length ELSE data.length) - from
            = data.length - from
      /\ k \in 1 .. data.length - from
  OBVIOUS
<1>2. Slice(link, data, from, data.length)[k] = ByteOf(link, data, from + k - 1)
  BY <1>1 DEF Slice
<1>3. ByteOf(link, data, from + k - 1) = <<"transport", k + 7>>
  <2>1. /\ ~(data.own <= from + k - 1) /\ ~(from + k - 1 < ip) /\ ~(from + k - 1 < ip + 20)
        /\ from + k - 1 - (ip + 20) = k + 7
    OBVIOUS
  <2> QED
    BY <2>1 DEF ByteOf
<1> QED
  BY <1>2, <1>3

(* Where the classes of the table look: five of them where the headers are. *)
LEMMA TableOffsets ==
    ASSUME NEW link \in Link
    PROVE  /\ LinkHeader[link] \in Nat
           /\ BodyTable[link]["udp"].ip = LinkHeader[link]
           /\ BodyTable[link]["udp"].udp = LinkHeader[link] + 20
           /\ BodyTable[link]["udp"].payload = LinkHeader[link] + 28
           /\ BodyTable[link]["tcp"].flags = LinkHeader[link] + 32
           /\ BodyTable[link]["tcp"].checksum = LinkHeader[link] + 36
           /\ link # "linux_sll_v2" => BodyTable[link]["tcp"].ip = LinkHeader[link]
BY DEF BodyTable, LinkHeader, Link, UdpEthernet, UdpLinuxSll, UdpLinuxSllV2,
       TcpEthernet, TcpLinuxSll, TcpLinuxSllV2

(* What a body is parsed to, from the place its class looks at.             *)
LEMMA ParsedHeader ==
    ASSUME NEW link, NEW data, NEW class \in Class
    PROVE  /\ Parse(link, class, data).ip = IpHeader(link, data, BodyTable[link][class].ip)
           /\ class = "udp" =>
                /\ Parse(link, class, data).udp
                      = UdpHeader(link, data, BodyTable[link][class].udp)
                /\ Parse(link, class, data).payload
                      = Slice(link, data, BodyTable[link][class].payload, data.length)
           /\ class = "tcp" =>
                LET at == BodyTable[link][class]
                IN  /\ Parse(link, class, data).flags = TcpFlags(link, data, at.flags)
                    /\ Parse(link, class, data).checksum
                          = Little(Slice(link, data, at.checksum, at.checksum + 2))
BY DEF Parse, Udp, Tcp, Class

(* What was captured of a frame is read where its protocol puts it, for     *)
(* every size of the frame and of the capture (body/*.py, parse).           *)
THEOREM FieldsInPlace == Spec => []BodiesAligned
<1>1. Reading /\ Finding => BodiesAligned
  <2> SUFFICES ASSUME Reading, Finding PROVE BodiesAligned
    OBVIOUS
  <2> DEFINE base == LinkHeader[reader.link]
  <2>1. ASSUME NEW i \in Framed("udp") \cup Framed("tcp")
        PROVE  /\ reader.link \in Link /\ pool[i].class \in Class
               /\ base \in Nat /\ DataOf(i).own \in Nat /\ DataOf(i).length \in Nat
               /\ DataOf(i).own <= DataOf(i).length
    <3>1. reader.link \in Link /\ pool[i].of \in DOMAIN file
      BY <2>1 DEF Framed, Reading, Kept, Right
    <3>2. file[pool[i].of] \in Entry
      BY <3>1, ElementOfSeq, LenProperties DEF Reading, ReaderTypeOK
    <3>3. DataOf(i) \in Data /\ DataOf(i) \in Body(file[pool[i].of].record)
      BY <3>1, <3>2 DEF DataOf, Entry, Finding, FileAsRead
    <3>4. DataOf(i).own \in Nat /\ DataOf(i).length \in Nat
      BY <3>3, ReadingAssumption DEF Data
    <3>5. DataOf(i).own <= DataOf(i).length
      BY <3>3, <3>4 DEF Body
    <3>6. pool[i].class \in Class
      BY <2>1 DEF Framed, Class
    <3> QED
      BY <3>1, <3>4, <3>5, <3>6, TableOffsets
  <2>2. ASSUME NEW i \in Framed("udp") \cup Framed("tcp"),
               ~(reader.link = "linux_sll_v2" /\ i \in Framed("tcp"))
        PROVE  /\ base + 10 <= DataOf(i).own => BodyOf(i).ip.protocol = Little(Field("ip", 9, 10))
               /\ base + 16 <= DataOf(i).own => BodyOf(i).ip.source_ip = Field("ip", 12, 16)
               /\ base + 20 <= DataOf(i).own =>
                     BodyOf(i).ip.destination_ip = Field("ip", 16, 20)
    <3>1. /\ reader.link \in Link /\ pool[i].class \in Class
          /\ base \in Nat /\ DataOf(i).own \in Nat /\ DataOf(i).length \in Nat
          /\ DataOf(i).own <= DataOf(i).length
      BY <2>1, <2>2
    <3>2. BodyOf(i).ip = IpHeader(reader.link, DataOf(i), base)
      <4>1. BodyTable[reader.link][pool[i].class].ip = base
        BY <2>2, <3>1, TableOffsets DEF Framed, Class
      <4> QED
        BY <3>1, <4>1, ParsedHeader DEF BodyOf
    <3>3. base + 10 <= DataOf(i).own =>
            Slice(reader.link, DataOf(i), base + 9, base + 10) = Field("ip", 9, 10)
      BY <3>1, IpSlice
    <3>4. base + 16 <= DataOf(i).own =>
            Slice(reader.link, DataOf(i), base + 12, base + 16) = Field("ip", 12, 16)
      BY <3>1, IpSlice
    <3>5. base + 20 <= DataOf(i).own =>
            Slice(reader.link, DataOf(i), base + 16, base + 20) = Field("ip", 16, 20)
      BY <3>1, IpSlice
    <3> QED
      BY <3>2, <3>3, <3>4, <3>5 DEF IpHeader
  <2>3. ASSUME NEW i \in Framed("udp"), NEW k \in 1 .. DataOf(i).own - (base + 28)
        PROVE  BodyOf(i).payload[k] = <<"transport", k + 7>>
    <3>1. /\ reader.link \in Link /\ pool[i].class = "udp" /\ "udp" \in Class
          /\ base \in Nat /\ DataOf(i).own \in Nat /\ DataOf(i).length \in Nat
          /\ DataOf(i).own <= DataOf(i).length
      BY <2>1, <2>3 DEF Framed, Class
    <3>2. BodyOf(i).payload = Slice(reader.link, DataOf(i), base + 28, DataOf(i).length)
      BY <3>1, TableOffsets, ParsedHeader DEF BodyOf
    <3>3. ASSUME NEW data, data.own \in Nat, data.length \in Nat, data.own <= data.length,
                 k \in 1 .. data.own - (base + 28)
          PROVE  Slice(reader.link, data, base + 28, data.length)[k] = <<"transport", k + 7>>
      BY <3>1, <3>3, PayloadSlice
    <3> QED
      BY <2>3, <3>1, <3>2, <3>3
  <2>4. ASSUME NEW i \in Framed("udp"), base + 28 <= DataOf(i).own
        PROVE  /\ Range(BodyOf(i).udp.length) = Range(Field("transport", 4, 6))
               /\ Range(BodyOf(i).udp.checksum) = Range(Field("transport", 6, 8))
    <3>1. /\ reader.link \in Link /\ pool[i].class = "udp" /\ "udp" \in Class
          /\ base \in Nat /\ DataOf(i).own \in Nat /\ DataOf(i).length \in Nat
          /\ DataOf(i).own <= DataOf(i).length
      BY <2>1, <2>4 DEF Framed, Class
    <3>2. BodyOf(i).udp = UdpHeader(reader.link, DataOf(i), base + 20)
      BY <3>1, TableOffsets, ParsedHeader DEF BodyOf
    <3>3. /\ Slice(reader.link, DataOf(i), base + 20 + 4, base + 20 + 6)
                = Field("transport", 4, 6)
          /\ Slice(reader.link, DataOf(i), base + 20 + 6, base + 20 + 8)
                = Field("transport", 6, 8)
      BY <2>4, <3>1, TransportSlice
    <3>4. /\ BodyOf(i).udp.length = Little(Field("transport", 4, 6))
          /\ BodyOf(i).udp.checksum = Little(Field("transport", 6, 8))
      BY <3>2, <3>3 DEF UdpHeader
    <3> QED
      BY <3>4, NumberBytes
  <2>5. ASSUME NEW i \in Framed("tcp")
        PROVE  /\ base + 34 <= DataOf(i).own =>
                     {BodyOf(i).flags.ack, BodyOf(i).flags.psh} =
                         {Bit(Field("transport", 13, 14), n) : n \in {3, 4}}
               /\ base + 38 <= DataOf(i).own =>
                     Range(BodyOf(i).checksum) = Range(Field("transport", 16, 18))
    <3>1. /\ reader.link \in Link /\ pool[i].class = "tcp" /\ "tcp" \in Class
          /\ base \in Nat /\ DataOf(i).own \in Nat /\ DataOf(i).length \in Nat
          /\ DataOf(i).own <= DataOf(i).length
      BY <2>1, <2>5 DEF Framed, Class
    <3>2. /\ BodyOf(i).flags = TcpFlags(reader.link, DataOf(i), base + 32)
          /\ BodyOf(i).checksum
                = Little(Slice(reader.link, DataOf(i), base + 36, base + 36 + 2))
      BY <3>1, TableOffsets, ParsedHeader DEF BodyOf
    <3>3. ASSUME base + 34 <= DataOf(i).own
          PROVE  Slice(reader.link, DataOf(i), base + 20 + 13, base + 20 + 14)
                     = Field("transport", 13, 14)
      BY <3>1, <3>3, TransportSlice
    <3>4. ASSUME base + 38 <= DataOf(i).own
          PROVE  Slice(reader.link, DataOf(i), base + 20 + 16, base + 20 + 18)
                     = Field("transport", 16, 18)
      BY <3>1, <3>4, TransportSlice
    <3>5. /\ base + 20 + 13 = base + 32 + 1 /\ base + 20 + 14 = base + 32 + 2
          /\ base + 20 + 16 = base + 36 /\ base + 20 + 18 = base + 36 + 2
      BY <3>1
    <3>6. base + 34 <= DataOf(i).own =>
              /\ BodyOf(i).flags.ack = Bit(Field("transport", 13, 14), 3)
              /\ BodyOf(i).flags.psh = Bit(Field("transport", 13, 14), 4)
      BY <3>2, <3>3, <3>5 DEF TcpFlags
    <3>7. base + 38 <= DataOf(i).own =>
              BodyOf(i).checksum = Little(Field("transport", 16, 18))
      BY <3>2, <3>4, <3>5
    <3> QED
      BY <3>6, <3>7, NumberBytes
  <2> QED
    BY <2>2, <2>3, <2>4, <2>5 DEF BodiesAligned
<1> QED
  BY <1>1, ReadingCorrect, FindingCorrect, PTL

=============================================================================
