------------------------------ MODULE Recording ------------------------------
(***************************************************************************)
(* Raw PCAP recordings and what LocalPcapSplitter makes of them.           *)
(*                                                                         *)
(* A raw file is known by the seconds its packets fall in.  A "second" is  *)
(* one wall-clock second of one sensor module of one vehicle: the triple   *)
(* from which module.py builds the pair key, the merge path and the S3     *)
(* name, so that those three are functions of the second and of nothing    *)
(* else.  The packets of a file that fall in one second are one segment,   *)
(* the unit that is written to the cache, merged and uploaded.             *)
(***************************************************************************)
EXTENDS Naturals

CONSTANTS
    File,       \* raw PCAP files in STORAGE_RAW
    Span,       \* Span[f]: the seconds in which file f has packets
    MinuteDir   \* MinuteDir[f]: cache directory derived from the NAME of f

ASSUME RecordingAssumption ==
    /\ Span \in [File -> SUBSET Nat]
    /\ DOMAIN MinuteDir = File

Second  == UNION {Span[f] : f \in File}
Segment == {p \in File \X Second : p[2] \in Span[p[1]]}

-----------------------------------------------------------------------------
(* The position of a second in its file: the first second is the HEAD even  *)
(* when it is also the last.                                                *)
Position(f, s) ==
    IF \A t \in Span[f] : s <= t THEN "HEAD"
    ELSE IF \A t \in Span[f] : t <= s THEN "TAIL"
    ELSE "MID"

(* The two lists of a SplitOutcome, as the seconds of their segments.       *)
Processed(f)   == {s \in Span[f] : Position(f, s) = "MID"}
Unprocessed(f) == {s \in Span[f] : Position(f, s) # "MID"}

(* The lists are sorted: the loops over them take the earliest second next. *)
IsEarliest(s, S) == s \in S /\ \A t \in S : s <= t

(* Faulty variant: one cache directory for all raw files of a module.       *)
SavePath_OneDir(f, s) == <<"cache", s>>

(* Where split_once writes a segment: the directory comes from the raw      *)
(* file's NAME (to the minute), the file name from the packets' second.     *)
SavePath(f, s) == <<MinuteDir[f], s>>
CachePath == {SavePath(p[1], p[2]) : p \in Segment}

(* S3 names.  A MID keeps its split file name, a HEAD, a TAIL and a merged  *)
(* pair are all stored under the one name of their second.                  *)
MidName(s)  == <<"split", s>>
PairName(s) == <<"merged", s>>
ObjectName  == {"split", "merged"} \X Second
NameOf(f, s) == IF Position(f, s) = "MID" THEN MidName(s) ELSE PairName(s)

=============================================================================
