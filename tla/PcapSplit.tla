------------------------------ MODULE PcapSplit ------------------------------
(***************************************************************************)
(* LocalPcapSplitter: one raw file into pieces of one second, and pieces   *)
(* into one file again.                                                    *)
(*                                                                         *)
(* A packet record is its two clock fields and a serial number that tells  *)
(* it from the others (an observer's; the bytes themselves are copied).    *)
(* carry is caputime \div 1000000: nothing keeps it below one second.      *)
(* A raw file may end inside a record; then its last one is not complete.  *)
(***************************************************************************)
EXTENDS SequencesExt, Integers

(* _read_pcap_records stops before a record it cannot read completely.      *)
Readable(raw) == IF raw.cutOff THEN Front(raw.packets) ELSE raw.packets

(* int(time_stamp), with time_stamp = captime + caputime / 1e6.             *)
SecondOf(p) == p.captime + p.carry

(* Faulty variant: a record is put in front of its group.                   *)
AddToGroup_Prepends(groups, p) ==
    [s \in DOMAIN groups \cup {SecondOf(p)} |->
        LET group == IF s \in DOMAIN groups THEN groups[s] ELSE <<>>
        IN  IF s = SecondOf(p) THEN <<p>> \o group ELSE group]

(* groups.setdefault(second, []).append(record)                             *)
AddToGroup(groups, p) ==
    [s \in DOMAIN groups \cup {SecondOf(p)} |->
        LET group == IF s \in DOMAIN groups THEN groups[s] ELSE <<>>
        IN  IF s = SecondOf(p) THEN Append(group, p) ELSE group]

Groups(records) ==
    LET after[n \in 0 .. Len(records)] ==
            IF n = 0 THEN <<>> ELSE AddToGroup(after[n - 1], records[n])
    IN  after[Len(records)]

(* Faulty variant: a last second is taken for a complete one.               *)
Classify_NoTail(second, head, tail) ==
    IF second = head THEN "HEAD" ELSE "MID"

Classify(second, head, tail) ==
    IF second = head THEN "HEAD"
    ELSE IF second = tail THEN "TAIL"
    ELSE "MID"

(* sorted(seconds): the n-th has n - 1 before it.                           *)
Sorted(seconds) ==
    [n \in 1 .. Cardinality(seconds) |->
        CHOOSE s \in seconds : Cardinality({t \in seconds : t < s}) = n - 1]

(* The pieces of a file, in the order they are written.                     *)
SplitOnce(raw) ==
    LET groups == Groups(Readable(raw))
        seconds == Sorted(DOMAIN groups)
        Piece(s) == [second |-> s, packets |-> groups[s],
                     position |-> Classify(s, Head(seconds), Last(seconds))]
    IN  [n \in DOMAIN seconds |-> Piece(seconds[n])]

(* Each goes to the end of one of two lists, by its position.               *)
Listed(pieces, positions) ==
    LET list[n \in 0 .. Len(pieces)] ==
            IF n = 0 THEN <<>>
            ELSE IF pieces[n].position \in positions THEN Append(list[n - 1], pieces[n])
            ELSE list[n - 1]
    IN  list[Len(pieces)]

Processed(pieces)   == Listed(pieces, {"MID"})
Unprocessed(pieces) == Listed(pieces, {"HEAD", "TAIL"})

(* Faulty variant: the first piece of a merge is only read for its header.  *)
MergePcapFiles_HeaderOnly(pieces) ==
    FlattenSeq([i \in DOMAIN pieces |-> IF i = 1 THEN <<>> ELSE pieces[i].packets])

(* merge_pcap_files: the records of each piece, in the order of the list.   *)
MergePcapFiles(pieces) == FlattenSeq([i \in DOMAIN pieces |-> pieces[i].packets])

=============================================================================
