---------------------------- MODULE CutRecording ----------------------------
(***************************************************************************)
(* One undisturbed cycle seen at the level of packets.  A sensor's stream  *)
(* of packets was cut into raw files by the recorder; the workers split    *)
(* the files and the manager pairs the edge pieces, each in any order; at  *)
(* the end there should be the stream again, second by second.             *)
(*                                                                         *)
(* This is where the segments of Recording get their content: Normalizer   *)
(* treats a segment as one thing and its failures and interleavings in     *)
(* full, this module treats what is in it.                                 *)
(***************************************************************************)
EXTENDS PcapSplit, PairBuckets

CONSTANTS
    Clock,      \* Clock: the values of captime, in seconds
    Carry,      \* the values of caputime \div 1000000
    Length,     \* the number of packets of the stream
    Files       \* the number of raw files it was cut into

ASSUME CutAssumption ==
    /\ Clock \subseteq Nat /\ Carry \subseteq Nat
    /\ Length \in Nat /\ Files \in Nat \ {0}

File == 1 .. Files
Second == {c + d : c \in Clock, d \in Carry}

VARIABLES
    raw,        \* the raw file each part of the stream became
    toSplit,    \* jobs no worker has taken yet
    toUpload,   \* MID pieces a worker has still to upload, per file
    toSend,     \* edge pieces a worker has still to send, per file
    buckets,    \* the manager's PairBuckets
    swept,      \* whether the cycle is over
    object      \* S3: the packets of each object, by kind and second

vars == <<raw, toSplit, toUpload, toSend, buckets, swept, object>>

ObjectName == {"split", "merged"} \X Second

-----------------------------------------------------------------------------
(* The recorder: packets in the order of their clocks, numbered, cut at     *)
(* Files - 1 places; the last file may end inside its last record.          *)
Clocks ==
    {t \in [1 .. Length -> [captime : Clock, carry : Carry]] :
        \A i \in 1 .. Length - 1 : SecondOf(t[i]) <= SecondOf(t[i + 1])}

Stream ==
    {[i \in 1 .. Length |->
        [captime |-> t[i].captime, carry |-> t[i].carry, no |-> i]] : t \in Clocks}

Cuts ==
    {c \in [0 .. Files -> 0 .. Length] :
        /\ c[0] = 0 /\ c[Files] = Length
        /\ \A f \in File : c[f - 1] < c[f]}

Init ==
    /\ \E stream \in Stream, cut \in Cuts, short \in BOOLEAN :
          raw = [f \in File |->
                    [packets |-> SubSeq(stream, cut[f - 1] + 1, cut[f]),
                     cutOff |-> short /\ f = Files]]
    /\ toSplit = File
    /\ toUpload = [f \in File |-> <<>>]
    /\ toSend = [f \in File |-> <<>>]
    /\ buckets = NoBuckets(Second)
    /\ swept = FALSE
    /\ object = [n \in ObjectName |-> <<>>]

-----------------------------------------------------------------------------
(* A worker splits a file.                                                  *)
SplitFile(f) ==
    LET pieces == SplitOnce(raw[f])
    IN  /\ f \in toSplit
        /\ toSplit' = toSplit \ {f}
        /\ toUpload' = [toUpload EXCEPT ![f] = Processed(pieces)]
        /\ toSend' = [toSend EXCEPT ![f] = Unprocessed(pieces)]
        /\ UNCHANGED <<raw, buckets, swept, object>>

(* It uploads the complete seconds under their split names, ...             *)
UploadMid(f) ==
    /\ toUpload[f] # <<>>
    /\ LET piece == Head(toUpload[f])
       IN  object' = [object EXCEPT ![<<"split", piece.second>>] = piece.packets]
    /\ toUpload' = [toUpload EXCEPT ![f] = Tail(@)]
    /\ UNCHANGED <<raw, toSplit, toSend, buckets, swept>>

(* ... and hands the edges to the manager, who merges at the second piece.  *)
PutPiece(f) ==
    /\ toUpload[f] = <<>> /\ toSend[f] # <<>>
    /\ LET piece == Head(toSend[f])
           put == Put(buckets, piece.second, piece)
       IN  /\ buckets' = put.buckets
           /\ object' = IF put.paired = <<>> THEN object
                        ELSE [object EXCEPT ![<<"merged", piece.second>>] =
                                  MergePcapFiles(put.paired)]
    /\ toSend' = [toSend EXCEPT ![f] = Tail(@)]
    /\ UNCHANGED <<raw, toSplit, toUpload, swept>>

(* When all jobs are done the manager uploads the first piece of each       *)
(* bucket that is left, under the name its merge would have had.            *)
SweepRest ==
    /\ ~swept
    /\ toSplit = {}
    /\ \A f \in File : toUpload[f] = <<>> /\ toSend[f] = <<>>
    /\ swept' = TRUE
    /\ object' =
          [n \in ObjectName |->
              IF n[1] = "merged" /\ buckets[n[2]] # <<>>
              THEN buckets[n[2]][1].packets ELSE object[n]]
    /\ buckets' = NoBuckets(Second)
    /\ UNCHANGED <<raw, toSplit, toUpload, toSend>>

Next ==
    \/ \E f \in File : SplitFile(f) \/ UploadMid(f) \/ PutPiece(f)
    \/ SweepRest

Spec == Init /\ [][Next]_vars

-----------------------------------------------------------------------------
(* The packets of the stream that are complete on disk.                     *)
Recorded ==
    UNION {{raw[f].packets[i] : i \in {n \in DOMAIN raw[f].packets :
                ~(raw[f].cutOff /\ n = Len(raw[f].packets))}} : f \in File}

Holding(p) == {n \in ObjectName : p \in ToSet(object[n])}

(* At the end of a cycle each complete packet of the stream is in exactly   *)
(* one object, the only one of its second, and is there once; nothing else  *)
(* is stored.                                                               *)
StreamRestored ==
    swept =>
        /\ \A p \in Recorded : \E n \in ObjectName :
              Holding(p) = {n} /\ n[2] = SecondOf(p)
        /\ \A n \in ObjectName : /\ ToSet(object[n]) \subseteq Recorded
                                 /\ Len(object[n]) = Cardinality(ToSet(object[n]))
        /\ \A s \in Second :
              object[<<"split", s>>] = <<>> \/ object[<<"merged", s>>] = <<>>

(* Within an object the packets of one raw file keep their order: splitting *)
(* and merging never shuffle a recording, whichever half arrives first.     *)
FileOrderKept ==
    \A n \in ObjectName : \A f \in File : \A i, j \in DOMAIN object[n] :
        i < j /\ {object[n][i], object[n][j]} \subseteq ToSet(raw[f].packets) =>
            object[n][i].no < object[n][j].no

-----------------------------------------------------------------------------
(* The level above: the seconds of a file and the positions Recording gives *)
(* them, computed from the file as a whole.                                 *)
R == INSTANCE Recording WITH
        Span <- [f \in File |-> {SecondOf(p) : p \in ToSet(Readable(raw[f]))}],
        MinuteDir <- [f \in File |-> f]

PieceSeconds(pieces) == {pieces[i].second : i \in DOMAIN pieces}

(* split_once makes of each file the segments Recording says it has: one    *)
(* piece per second with packets, the processed ones and the unprocessed    *)
(* ones as it says, each list by ascending second.                          *)
SplitAsRecorded ==
    \A f \in File :
        LET pieces == SplitOnce(raw[f])
        IN  /\ PieceSeconds(Processed(pieces)) = R!Processed(f)
            /\ PieceSeconds(Unprocessed(pieces)) = R!Unprocessed(f)
            /\ \A i, j \in DOMAIN pieces :
                  i < j => pieces[i].second < pieces[j].second
            /\ \A i \in DOMAIN pieces :
                  pieces[i].position = R!Position(f, pieces[i].second)

=============================================================================
