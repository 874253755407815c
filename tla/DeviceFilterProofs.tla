------------------------- MODULE DeviceFilterProofs -------------------------
(***************************************************************************)
(* What the filter hands to a cycle, for listings of any length.           *)
(***************************************************************************)
EXTENDS DeviceFilter, SequenceTheorems, TLAPS

(* The jobs are files the filter has looked at, in ascending order.         *)
InOrder ==
    /\ seen \in Nat
    /\ jobs \in Seq(Nat)
    /\ \A i \in DOMAIN jobs : jobs[i] <= seen
    /\ NoFileTwice

(* The list grows by the file looked at, or not at all.                     *)
LEMMA MatchesOne ==
    ASSUME NEW f, seen \in Nat
    PROVE  Matches(f) = <<>> \/ Matches(f) = <<seen + 1>>
BY DEF Matches

(* One more file after those looked at before keeps the list in order.      *)
LEMMA GrowsInOrder ==
    ASSUME InOrder, NEW extra, extra = <<>> \/ extra = <<seen + 1>>,
           jobs' = jobs \o extra, seen' = seen + 1
    PROVE  InOrder'
<1>1. CASE extra = <<>>
  <2>1. jobs' = jobs
    BY <1>1, ConcatEmptySeq DEF InOrder
  <2> QED
    BY <2>1 DEF InOrder, NoFileTwice
<1>2. CASE extra = <<seen + 1>>
  <2>1. /\ Len(jobs) \in Nat /\ DOMAIN jobs = 1 .. Len(jobs)
        /\ extra \in Seq(Nat) /\ Len(extra) = 1 /\ extra[1] = seen + 1
    BY <1>2, LenProperties DEF InOrder
  <2>2. /\ jobs' \in Seq(Nat)
        /\ DOMAIN jobs' = 1 .. Len(jobs) + 1
        /\ \A i \in 1 .. Len(jobs) : jobs'[i] = jobs[i]
        /\ jobs'[Len(jobs) + 1] = seen + 1
    BY <2>1, ConcatProperties DEF InOrder
  <2>3. \A i \in DOMAIN jobs : jobs[i] \in Nat
    BY ElementOfSeq, <2>1 DEF InOrder
  <2>4. \A i \in DOMAIN jobs' : jobs'[i] <= seen'
    BY <2>1, <2>2, <2>3 DEF InOrder
  <2>5. ASSUME NEW i \in DOMAIN jobs', NEW j \in DOMAIN jobs', i < j
        PROVE  jobs'[i] < jobs'[j]
    <3>1. i \in DOMAIN jobs /\ jobs'[i] = jobs[i] /\ jobs[i] <= seen
      BY <2>1, <2>2, <2>5 DEF InOrder
    <3>2. CASE j = Len(jobs) + 1
      BY <3>1, <3>2, <2>2, <2>3 DEF InOrder
    <3>3. CASE j # Len(jobs) + 1
      BY <3>1, <3>3, <2>1, <2>2, <2>5 DEF InOrder, NoFileTwice
    <3> QED
      BY <3>2, <3>3
  <2> QED
    BY <2>2, <2>4, <2>5 DEF InOrder, NoFileTwice
<1> QED
  BY <1>1, <1>2

(* A cycle is given no file twice, and the files in the order of the        *)
(* listing, whatever is selected (manager.py, _filter_by_device).  This is  *)
(* what ManagerAssumption takes for granted about Folder.                   *)
THEOREM NothingTwice == Spec => []NoFileTwice
<1>1. Init => InOrder
  BY EmptySeq DEF Init, InOrder, NoFileTwice
<1>2. InOrder /\ [Next]_vars => InOrder'
  <2> SUFFICES ASSUME InOrder, [Next]_vars PROVE InOrder'
    OBVIOUS
  <2>1. CASE SkipFile
    BY <2>1 DEF SkipFile, Look, InOrder, NoFileTwice
  <2>2. CASE FilterFile
    <3>1. PICK f \in File : jobs' = jobs \o Matches(f) /\ seen' = seen + 1
      BY <2>2 DEF FilterFile, Look
    <3> QED
      BY <3>1, MatchesOne, GrowsInOrder DEF InOrder
  <2>3. CASE NameRaises
    BY <2>3 DEF NameRaises, Look, InOrder, NoFileTwice
  <2>4. CASE Return \/ UNCHANGED vars
    BY <2>4 DEF Return, vars, InOrder, NoFileTwice
  <2> QED
    BY <2>1, <2>2, <2>3, <2>4 DEF Next
<1>3. InOrder => NoFileTwice
  BY DEF InOrder
<1> QED
  BY <1>1, <1>2, <1>3, PTL DEF Spec

-----------------------------------------------------------------------------
(* What was looked at and kept. *)

(* The files that fit the request, whatever was found before them.          *)
Fits(f) ==
    /\ ~Skipped(f)
    /\ IsAll(device) \/ IsOfType(device, f) \/ OccursInName(device, f)

(* The finished files of the vehicle whose names are not known.             *)
Unknown ==
    {i \in DOMAIN listing : /\ ~listing[i].temp
                            /\ listing[i].vehicle \in vehicle
                            /\ ~Known(listing[i])}

(* The jobs are those that fit among the files looked at, and none of these *)
(* was finished and of an unknown name, but for a request for ALL; or one   *)
(* was and the request is refused.                                          *)
KeptSoFar ==
    /\ Range(jobs) = {i \in 1 .. seen : Fits(listing[i])}
    /\ IsAll(device) \/ \A i \in 1 .. seen :
          Skipped(listing[i]) \/ Known(listing[i])

Filtered ==
    /\ listing \in Seq(File) /\ device \in Choice
    /\ seen \in 0 .. Len(listing)
    /\ jobs \in Seq(Nat)
    /\ \/ outcome = "filtering" /\ KeptSoFar
       \/ outcome = "jobs" /\ KeptSoFar /\ seen = Len(listing)
       \/ outcome = "raised" /\ ~IsAll(device) /\ Unknown # {}

(* One more file after those looked at before, found to fit or not.         *)
LEMMA LooksAtOne ==
    ASSUME Filtered, NEW f \in File, Look(f), NEW extra,
           jobs' = jobs \o extra, extra = IF Fits(f) THEN <<seen + 1>> ELSE <<>>
    PROVE  /\ seen + 1 \in 1 .. Len(listing) /\ f = listing[seen + 1]
           /\ seen' = seen + 1 /\ listing' = listing /\ device' = device /\ vehicle' = vehicle
           /\ jobs' \in Seq(Nat) /\ KeptSoFar
           /\ Range(jobs') = {i \in 1 .. seen' : Fits(listing[i])'}
<1>1. /\ seen + 1 \in 1 .. Len(listing) /\ f = listing[seen + 1] /\ KeptSoFar
      /\ seen' = seen + 1 /\ listing' = listing /\ device' = device /\ vehicle' = vehicle
      /\ seen \in Nat
  BY LenProperties DEF Look, Filtered
<1>2. extra \in Seq(Nat) /\ Range(extra) = {i \in {seen + 1} : Fits(listing[i])}
  <2>1. CASE Fits(f)
    BY <1>1, <2>1 DEF Range
  <2>2. CASE ~Fits(f)
    BY <1>1, <2>2 DEF Range
  <2> QED
    BY <2>1, <2>2
<1>3. jobs' \in Seq(Nat) /\ Range(jobs') = Range(jobs) \cup Range(extra)
  <2>1. jobs \in Seq(Nat)
    BY DEF Filtered
  <2>2. jobs \o extra \in Seq(Nat)
    BY <1>2, <2>1, ConcatProperties
  <2>3. Range(jobs \o extra) = Range(jobs) \cup Range(extra)
    BY <1>2, <2>1, RangeConcatenation, Zenon
  <2> QED
    BY <2>2, <2>3
<1>4. \A i : Fits(listing[i])' <=> Fits(listing[i])
  BY <1>1 DEF Fits, Skipped, OfVehicle, IsAll, IsOfType, OccursInName
<1>5. 1 .. seen' = (1 .. seen) \cup {seen + 1}
  BY <1>1
<1> QED
  BY <1>1, <1>2, <1>3, <1>4, <1>5 DEF KeptSoFar

(* Every step keeps this, whatever was listed and selected.                 *)
LEMMA FilteredKept ==
    ASSUME Filtered, [Next]_vars
    PROVE  Filtered'
<1>1. CASE UNCHANGED vars
  BY <1>1 DEF vars, Filtered, KeptSoFar, Fits, Skipped, OfVehicle, IsAll, IsOfType, OccursInName,
              Unknown, Known
<1>2. CASE Return
  BY <1>2 DEF Return, Filtered, KeptSoFar, Fits, Skipped, OfVehicle, IsAll, IsOfType, OccursInName
<1>3. CASE SkipFile
  <2>1. PICK f \in File : Look(f) /\ Skipped(f) /\ UNCHANGED <<jobs, outcome>>
    BY <1>3 DEF SkipFile
  <2>2. ~Fits(f) /\ jobs' = jobs \o <<>>
    BY <2>1, ConcatEmptySeq DEF Fits, Filtered
  <2>3. /\ seen + 1 \in 1 .. Len(listing) /\ f = listing[seen + 1]
        /\ seen' = seen + 1 /\ listing' = listing /\ device' = device /\ vehicle' = vehicle
        /\ jobs' \in Seq(Nat) /\ KeptSoFar /\ Range(jobs') = {i \in 1 .. seen' : Fits(listing[i])'}
    BY <2>1, <2>2, LooksAtOne DEF Look
  <2> QED
    BY <2>1, <2>3 DEF Look, Filtered, KeptSoFar, Skipped, OfVehicle, IsAll
<1>4. CASE FilterFile
  <2>1. PICK f \in File :
          /\ Look(f) /\ ~Skipped(f) /\ (IsAll(device) \/ Known(f))
          /\ jobs' = jobs \o Matches(f) /\ UNCHANGED outcome
    BY <1>4 DEF FilterFile
  <2>2. Matches(f) = IF Fits(f) THEN <<seen + 1>> ELSE <<>>
    BY <2>1 DEF Matches, Fits
  <2>3. /\ seen + 1 \in 1 .. Len(listing) /\ f = listing[seen + 1]
        /\ seen' = seen + 1 /\ listing' = listing /\ device' = device /\ vehicle' = vehicle
        /\ jobs' \in Seq(Nat) /\ KeptSoFar /\ Range(jobs') = {i \in 1 .. seen' : Fits(listing[i])'}
    BY <2>1, <2>2, LooksAtOne DEF Look
  <2> QED
    BY <2>1, <2>3 DEF Look, Filtered, KeptSoFar, Skipped, OfVehicle, IsAll
<1>5. CASE NameRaises
  <2>1. PICK f \in File :
          /\ Look(f) /\ ~Skipped(f) /\ ~IsAll(device) /\ ~Known(f)
          /\ outcome' = "raised" /\ UNCHANGED jobs
    BY <1>5 DEF NameRaises
  <2>2. seen + 1 \in 1 .. Len(listing) /\ f = listing[seen + 1] /\ listing \in Seq(File)
    BY <2>1, LenProperties DEF Look, Filtered
  <2>3. seen + 1 \in Unknown
    BY <2>1, <2>2, LenProperties DEF Unknown, Skipped, OfVehicle
  <2>4. Unknown' # {} /\ ~IsAll(device)'
    BY <2>1, <2>3 DEF Look, Unknown, IsAll, Known
  <2> QED
    BY <2>1, <2>2, <2>4 DEF Look, Filtered
<1> QED
  BY <1>1, <1>2, <1>3, <1>4, <1>5 DEF Next

(* What the list holds and what a refusal needs, for listings of any length.*)
LEMMA FilterCorrect == Spec => []Filtered
<1>1. Init => Filtered
  <2> SUFFICES ASSUME Init PROVE Filtered
    OBVIOUS
  <2>1. listing \in Seq(File) /\ Len(listing) \in Nat
    BY FilterAssumption DEF Init
  <2>2. jobs = <<>> /\ jobs \in Seq(Nat) /\ seen = 0 /\ outcome = "filtering"
    BY EmptySeq DEF Init
  <2> QED
    BY <2>1, <2>2 DEF Init, Filtered, KeptSoFar, Range
<1> QED
  BY <1>1, FilteredKept, PTL DEF Spec

(* A request is refused as a whole for a finished file of its vehicle whose *)
(* name is not that of a registered module, wherever it is listed, and for  *)
(* nothing else (manager.py, _filter_by_device).                            *)
THEOREM RefusedExactly == Spec => []RefusedForNames
<1>1. Filtered => RefusedForNames
  <2> SUFFICES ASSUME Filtered
               PROVE  /\ outcome = "raised" => ~IsAll(device) /\ Unknown # {}
                      /\ outcome = "jobs" => IsAll(device) \/ Unknown = {}
    BY DEF RefusedForNames, Unknown
  <2>1. outcome = "raised" => ~IsAll(device) /\ Unknown # {}
    BY DEF Filtered
  <2>2. ASSUME outcome = "jobs", ~IsAll(device) PROVE Unknown = {}
    <3>1. \A i \in DOMAIN listing : Skipped(listing[i]) \/ Known(listing[i])
      BY <2>2, LenProperties DEF Filtered, KeptSoFar
    <3> QED
      BY <3>1 DEF Unknown, Skipped, OfVehicle
  <2> QED
    BY <2>1, <2>2
<1> QED
  BY <1>1, FilterCorrect, PTL

(* ALL, or a kind in any spelling, selects exactly the finished files of    *)
(* that kind and vehicle (manager.py, _filter_by_device).                   *)
THEOREM KindIsSelected == Spec => []KindSelects
<1>1. Filtered => KindSelects
  <2> SUFFICES ASSUME Filtered, outcome = "jobs"
               PROVE  /\ IsAll(device) => ToSet(jobs) = Selecting(Device \cup Stranger)
                      /\ device.word \in Kind =>
                            ToSet(jobs) = Selecting({d \in Device : TypeOf[d] = device.word})
    BY DEF KindSelects
  <2>1. /\ ToSet(jobs) = {i \in DOMAIN listing : Fits(listing[i])}
        /\ \A i \in DOMAIN listing : listing[i] \in File
        /\ IsAll(device) \/ \A i \in DOMAIN listing :
              Skipped(listing[i]) \/ Known(listing[i])
    BY LenProperties DEF Filtered, KeptSoFar, ToSet, Range
  <2>2. ASSUME IsAll(device) PROVE ToSet(jobs) = Selecting(Device \cup Stranger)
    BY <2>1, <2>2 DEF Fits, Skipped, OfVehicle, Selecting, File, Text
  <2>3. ASSUME device.word \in Kind
        PROVE  ToSet(jobs) = Selecting({d \in Device : TypeOf[d] = device.word})
    <3>1. ~IsAll(device)
      BY <2>3, FilterAssumption DEF IsAll
    <3>2. ASSUME NEW f \in File, Skipped(f) \/ Known(f)
          PROVE  Fits(f) <=> ~f.temp /\ f.vehicle \in vehicle
                             /\ f.name.word \in Device /\ TypeOf[f.name.word] = device.word
      <4>1. OccursInName(device, f) /\ f.name.word \in Device
              => TypeOf[f.name.word] = device.word
        BY <2>3, FilterAssumption DEF OccursInName
      <4> QED
        BY <3>1, <3>2, <4>1 DEF Fits, Skipped, OfVehicle, IsOfType, Known
    <3> QED
      BY <2>1, <3>1, <3>2 DEF Selecting
  <2> QED
    BY <2>2, <2>3
<1> QED
  BY <1>1, FilterCorrect, PTL

=============================================================================
