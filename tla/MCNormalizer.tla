---------------------------- MODULE MCNormalizer ----------------------------
(***************************************************************************)
(* Instances of Normalizer for TLC.                                        *)
(***************************************************************************)
EXTENDS NormalizerInvariants, TLC

CONSTANTS f1, f2, f3, f4, r1, r2, r3, w1, w2

Symmetry == Permutations({w1, w2})

(* Message bodies as the listener sees them.                                *)
Good      == [parses |-> TRUE,  receiver |-> Receiver, date |-> "yyyymmdd"]
Elsewhere == [parses |-> TRUE,  receiver |-> "other",  date |-> "yyyymmdd"]
NumDate   == [parses |-> TRUE,  receiver |-> Receiver, date |-> "notText"]

AllGood   == [r \in Request |-> Good]
OneLost   == r1 :> Good @@ r2 :> Good @@ r3 :> Elsewhere
OneRaises == r1 :> NumDate @@ r2 :> Good

(* Consecutive recordings of one sensor: f1 ends in the second f2 begins    *)
(* with, f2 in the one second f3 has; f1 has a second in between; f4 is     *)
(* another recording.                                                       *)
Chain     == f1 :> {1, 2, 3} @@ f2 :> {3, 4} @@ f3 :> {4} @@ f4 :> {11, 12, 13}
ChainSpan == [f \in File |-> Chain[f]]
OwnDirs   == [f \in File |-> f]
SameDirs  == [f \in File |-> "10:45"]

(* What the requests collect.                                               *)
TwoDays  == r1 :> <<f1, f2, f3>> @@ r2 :> <<f4>> @@ r3 :> <<f1>>
OneDay   == r1 :> <<f1, f2>>
Again    == r1 :> <<f1, f2>> @@ r2 :> <<f1, f2>>
Midnight == r1 :> <<f1>> @@ r2 :> <<f2>>
=============================================================================
